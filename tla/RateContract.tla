---------------------------- MODULE RateContract ---------------------------
(***************************************************************************)
(* What the REST client promises the fleet (rest_client.py, the class      *)
(* TokenBucketRateLimiter): requests leave only out of a budget that time  *)
(* refills.  In any T ticks no more than (Ceiling + T) \div Price requests *)
(* leave.                                                                  *)
(***************************************************************************)
EXTENDS Naturals

CONSTANTS Callers,
          Price,     \* ticks it takes to refill what one request costs
          Ceiling    \* what the budget holds at most

VARIABLES budget,
          out   \* the callers whose request is on its way

vars == <<budget, out>>

Init == budget = Ceiling /\ out = {}

\* Also the next request of a caller whose answer has just come.
Send(c) ==
    /\ out' = out \cup {c}
    /\ budget >= Price /\ budget' = budget - Price

Return(c) == c \in out /\ out' = out \ {c} /\ UNCHANGED budget

Refill == budget < Ceiling /\ budget' = budget + 1 /\ UNCHANGED out

Next == Refill \/ \E c \in Callers : Send(c) \/ Return(c)

Spec == Init /\ [][Next]_vars
=============================================================================
