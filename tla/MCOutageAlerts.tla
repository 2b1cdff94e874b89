--------------------------- MODULE MCOutageAlerts --------------------------
(***************************************************************************)
(* OutageAlerts with the loop and one other thread.  Ticks are half        *)
(* seconds: the interval of 2 s, the ceiling of 5 s and the backoffs of    *)
(* 2, 3 and 4.5 s are the program's own; the request's time-out and the    *)
(* grace are shortened.                                                    *)
(***************************************************************************)
EXTENDS OutageAlerts

MCThreads == {"loop", "worker"}
MCDelays == {0, 6, 10}
MCJitter == {0, 1}
=============================================================================
