--------------------------- MODULE MCRelayStream ---------------------------
(***************************************************************************)
(* RelayStream with six messages, the second and third of the lifecycle,   *)
(* queues of two, three connections and two subscription calls on two      *)
(* symbols.                                                                *)
(***************************************************************************)
EXTENDS RelayStream

CONSTANTS spy, tlt

MCLifecycle == {2, 3}
MCSymbols == {spy, tlt}
=============================================================================
