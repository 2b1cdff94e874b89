---------------------------- MODULE OutageAlerts ---------------------------
(***************************************************************************)
(* The outage alerts of bot/service.py (_wire_feed_manager_alerts) over    *)
(* the webhook pipeline.  A disconnect of the feed arms a grace timer; a   *)
(* BROKEN card goes out if the feed is still down when it fires, and a     *)
(* RECOVERED card when the feed comes back after one.                      *)
(*                                                                         *)
(* The callbacks post synchronously on the event loop, so the loop stands  *)
(* still until the pipeline has answered: no feed event, no timer and no   *)
(* other task runs meanwhile, and whoever posts keeps the manager's lock.  *)
(* The cadence and request handlers post their trade cards the same way; a *)
(* second thread posts through the async_ wrappers, which use the same     *)
(* process-wide lock.  A grace of zero posts at once: the timer that fires *)
(* at zero stands for it.  The pipeline answers every failure with False,  *)
(* so the except clause around the post is left out.                       *)
(***************************************************************************)
EXTENDS WebhookPost

CONSTANTS Grace   \* alert_grace_seconds

ASSUME AlertAssumption == Grace \in Nat /\ "loop" \in Threads

VARIABLES feed,      \* "boot" (fallback before the first live moment), "live", "down"
          downFor,   \* ticks since the disconnect, up to Grace
          timer,     \* what is left of the grace, NoTimer without a task
          posted,    \* _broken_alert_posted
          card,      \* the card the loop is posting
          told,      \* observation: the last outage card whose post began
          arrived    \* observation: it is a BROKEN card and Discord accepted it

alertVars == <<feed, downFor, timer, posted, card, told, arrived>>
vars == <<postVars, alertVars>>

NoTimer == -1
LoopFree == At("loop", "idle")

TypeOK ==
    /\ PostTypeOK
    /\ feed \in {"boot", "live", "down"}
    /\ downFor \in 0..Grace /\ timer \in NoTimer..Grace
    /\ posted \in BOOLEAN
    /\ card \in {"none", "broken", "recovered", "trade"}
    /\ told \in {"broken", "recovered"} /\ arrived \in BOOLEAN

Init ==
    /\ PostInit
    /\ feed = "boot" /\ downFor = 0 /\ timer = NoTimer /\ posted = FALSE
    /\ card = "none" /\ told = "recovered" /\ arrived = FALSE

-----------------------------------------------------------------------------
(* The callbacks on the event loop                                         *)

BeginCard(c) ==
    /\ BeginPost("loop") /\ card' = c
    /\ told' = IF c = "trade" THEN told ELSE c
    /\ arrived' = (arrived /\ c = "trade")

Arm == timer' = IF posted \/ timer # NoTimer THEN timer ELSE Grace

\* _on_disconnect: the feed manager tells only of a fall from live.
OnDisconnect ==
    /\ LoopFree /\ feed = "live"
    /\ feed' = "down" /\ downFor' = 0
    /\ Arm
    /\ UNCHANGED <<postVars, posted, card, told, arrived>>

\* Mutant: a recovery leaves the timer running.
TimerLeft == UNCHANGED timer
Disarm == timer' = NoTimer

\* Mutant: the recovery is told whether or not the outage was.
RecoverAloud == posted' = FALSE /\ BeginCard("recovered")

\* Mutant: the flag of the told outage is not lowered.
RecoverForgetful ==
    \/ posted /\ UNCHANGED posted /\ BeginCard("recovered")
    \/ ~ posted /\ UNCHANGED <<postVars, posted, card, told, arrived>>

Recover ==
    \/ posted /\ posted' = FALSE /\ BeginCard("recovered")
    \/ ~ posted /\ UNCHANGED <<postVars, posted, card, told, arrived>>

\* _on_recover
OnRecover ==
    /\ LoopFree /\ feed \in {"boot", "down"}
    /\ feed' = "live" /\ downFor' = 0
    /\ Disarm /\ Recover

\* _broken_after_grace
GraceOver ==
    /\ LoopFree /\ timer = 0 /\ timer' = NoTimer
    /\ IF feed = "live" THEN UNCHANGED <<postVars, card, told, arrived>> ELSE BeginCard("broken")
    /\ UNCHANGED <<feed, downFor, posted>>

\* A rebalance, by the scheduler, the breaker or an operator, ends with a card.
PostTrade ==
    /\ LoopFree /\ BeginCard("trade")
    /\ UNCHANGED <<feed, downFor, timer, posted>>

\* The post returned: a BROKEN card counts as posted whatever it returned.
LoopAnswered ==
    /\ \/ Delivered("loop") /\ arrived' = (arrived \/ card = "broken")
       \/ PostFails("loop") /\ UNCHANGED arrived
    /\ posted' = (posted \/ card = "broken")
    /\ card' = "none"
    /\ UNCHANGED <<feed, downFor, timer, told>>

-----------------------------------------------------------------------------
(* The other threads and time                                              *)

Others == Threads \ {"loop"}

LoopPosts == PostGoesOn("loop") /\ UNCHANGED alertVars

OthersPost ==
    /\ \E t \in Others : BeginPost(t) \/ PostGoesOn(t) \/ Delivered(t) \/ PostFails(t)
    /\ UNCHANGED alertVars

\* A due timer is served before time goes on, unless the loop stands still.
Tick ==
    /\ PostTick
    /\ ~ (LoopFree /\ timer = 0)
    /\ timer' = IF timer > 0 THEN timer - 1 ELSE timer
    /\ downFor' = IF feed = "down" THEN Shortest(downFor + 1, Grace) ELSE downFor
    /\ UNCHANGED <<feed, posted, card, told, arrived>>

Loop == OnDisconnect \/ OnRecover \/ GraceOver \/ PostTrade \/ LoopAnswered \/ LoopPosts

Next == Loop \/ OthersPost \/ Tick

\* Time passes, a due timer is served (the loop's queue is first come, first
\* served) and the pipeline goes on; the feed's changes and the calls of others
\* are not promised.
Fairness ==
    /\ WF_vars(Tick) /\ SF_vars(GraceOver) /\ WF_vars(LoopAnswered) /\ SF_vars(LoopPosts)
    /\ \A t \in Others : /\ WF_vars((Delivered(t) \/ PostFails(t)) /\ UNCHANGED alertVars)
                         /\ SF_vars(PostGoesOn(t) /\ UNCHANGED alertVars)

Spec == Init /\ [][Next]_vars
FairSpec == Spec /\ Fairness

-----------------------------------------------------------------------------
(* Properties                                                              *)

\* No two attempts of the whole process, of one thread or of several, are
\* noted closer together than the pacing interval ("<= 1 post / 2.0s").
AttemptsPaced ==
    [][\A t \in Threads : At(t, "sending")' /\ ~ At(t, "sending") => since = Interval]_vars

\* A BROKEN card is about an outage that has lasted the whole grace: no timer
\* of an earlier outage speaks for a younger one.
BlipsAreSilent == [][told' = "broken" /\ told # "broken" => feed = "down" /\ downFor = Grace]_vars

\* The posts alternate: the post of a RECOVERED card begins only after one of a
\* BROKEN card began, and each outage's at most once.  Whether Discord accepted the
\* BROKEN card is not looked at, neither here nor by the code; what the repository
\* says of that is RecoveryOfToldOutage below.
CardsPairUp ==
    /\ [][card' = "recovered" /\ card # card' => told = "broken"]_vars
    /\ [][card' = "broken" /\ card # card' => told = "recovered"]_vars

\* An outage that began while the program ran is never forgotten: its card has
\* begun, or a timer that is due no later than the grace is running.  A live
\* feed leaves neither a timer nor an untold recovery behind.
OutageIsAttended ==
    /\ feed = "down" => \/ told = "broken"
                        \/ timer # NoTimer /\ timer + downFor <= Grace
    /\ feed = "live" /\ LoopFree => timer = NoTimer /\ told = "recovered"

\* A card does not hold the event loop for good, whatever Discord answers and
\* whoever else posts.
LoopComesBack == ~ LoopFree ~> LoopFree

(* What the repository says of the program and the code does not keep.      *)

\* "RECOVERED is posted only when a BROKEN card actually went out"
\* (service.py:295-296): when the post of a RECOVERED card begins, Discord has
\* accepted the BROKEN card before it.
RecoveryOfToldOutage == [][card' = "recovered" /\ card # card' => arrived]_vars
=============================================================================
