-------------------------- MODULE MCFeedLifecycle --------------------------
(***************************************************************************)
(* FeedLifecycle with one fault at any moment, two sockets, one broadcast  *)
(* under way and a stop() at any moment.                                   *)
(***************************************************************************)
EXTENDS FeedLifecycle

MCTasks == {"recovery", "probe"}
=============================================================================
