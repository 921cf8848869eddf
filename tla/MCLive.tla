------------------------------- MODULE MCLive -------------------------------
(***************************************************************************)
(* What must eventually happen, for TLC: the write requests of Builds are  *)
(* answered, and the page of LiveFeed finds the server that runs.  The two *)
(* share no state; a behaviour is about one of them.                       *)
(***************************************************************************)
EXTENDS MCBuilds, LiveFeed

VARIABLE topic

MCInit ==
  /\ topic \in {"builds", "feed"}
  /\ Init
  /\ IF topic = "feed" THEN FeedInit ELSE FeedBegins("gone")

MCNext ==
  /\ UNCHANGED topic
  /\ \/ topic = "builds" /\ Next /\ UNCHANGED feedVars
     \/ topic = "feed" /\ FeedNext /\ UNCHANGED vars

(* Nothing happens to one of them in a behaviour about the other: without  *)
(* a request, and when the page was left before the server starts, there   *)
(* is nothing to be fair to.                                               *)
MCSpec == MCInit /\ [][MCNext]_<<vars, feedVars, topic>> /\ Fairness /\ FeedFairness
=============================================================================
