----------------------------- MODULE TokenBucket -----------------------------
(***************************************************************************)
(* What a rate limiter promises: every client has a bucket of its own that *)
(* starts full, earns one unit a tick up to Minute units, and pays Cost    *)
(* units for a request that is admitted.  A request is refused exactly     *)
(* when its client cannot pay.                                             *)
(***************************************************************************)
EXTENDS Integers

CONSTANTS Clients, Minute, Cost, MaxTime

VARIABLES now, level, granted

vars == <<now, level, granted>>

Init ==
  /\ now = 0
  /\ level = [c \in Clients |-> Minute]
  /\ granted = [c \in Clients |-> 0]

Tick ==
  /\ now < MaxTime
  /\ now' = now + 1
  /\ level' = [c \in Clients |-> IF level[c] < Minute THEN level[c] + 1 ELSE Minute]
  /\ UNCHANGED granted

Admit(c) ==
  /\ level[c] >= Cost
  /\ level' = [level EXCEPT ![c] = @ - Cost]
  /\ granted' = [granted EXCEPT ![c] = @ + 1]
  /\ UNCHANGED now

Next == Tick \/ \E c \in Clients : Admit(c)

Spec == Init /\ [][Next]_vars
=============================================================================
