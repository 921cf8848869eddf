-------------------------- MODULE OneTimeChallenges --------------------------
(***************************************************************************)
(* What a store of running ceremonies promises: challenges are issued in   *)
(* order, an issued one is open until it is used or dropped, and what is   *)
(* used or dropped once is never open again.  Any number of open           *)
(* challenges may be dropped on the way: they expire, are replaced, fail,  *)
(* or the server restarts.                                                 *)
(***************************************************************************)
EXTENDS Integers, Sequences

CONSTANT MaxChallenges

VARIABLES
  last,  \* the challenge issued last
  open,  \* those that can still be used
  used   \* those that were used, in that order

vars == <<last, open, used>>

Init == last = 0 /\ open = {} /\ used = << >>

Issue ==
  /\ last < MaxChallenges
  /\ last' = last + 1
  /\ \E dropped \in SUBSET open : open' = (open \ dropped) \cup {last'}
  /\ UNCHANGED used

Use(c) ==
  /\ c \in open
  /\ open' = open \ {c}
  /\ used' = Append(used, c)
  /\ UNCHANGED last

Drop ==
  /\ open' \in SUBSET open
  /\ UNCHANGED <<last, used>>

Next == Issue \/ Drop \/ \E c \in 1..MaxChallenges : Use(c)

Spec == Init /\ [][Next]_vars
=============================================================================
