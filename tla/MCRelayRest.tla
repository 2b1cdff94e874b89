---------------------------- MODULE MCRelayRest ----------------------------
(***************************************************************************)
(* RelayRest with two callers, a burst of two requests, two retries and    *)
(* queries of two pages.  A request costs two ticks, as with 30 requests a *)
(* minute and ticks of one second.                                         *)
(***************************************************************************)
EXTENDS RelayRest

CONSTANTS warmup, backfill

MCCallers == {warmup, backfill}
MCRetryAfters == {0, 3}
MCLimits == {0, 1}
=============================================================================
