----------------------------- MODULE RateLimiter -----------------------------
(***************************************************************************)
(* The token-bucket rate limiter in front of the API, one bucket for each  *)
(* client address, and the goroutine that forgets idle addresses.          *)
(*                                                                         *)
(* requestsPerMinute tokens are both the burst and what a minute earns, so *)
(* a bucket always fills in one minute.  Tokens are counted in ticks: a    *)
(* token is worth Cost == 60s/requestsPerMinute ticks, a bucket earns one  *)
(* unit a tick and holds Minute units.  Times told to clients are rounded  *)
(* down to a second, of Second ticks.  allow and the body of the cleanup   *)
(* loop run under the limiter's mutex, so each is one action.              *)
(***************************************************************************)
EXTENDS Integers

CONSTANTS
  Clients,    \* client addresses
  Minute,     \* ticks in a minute = the units a full bucket holds
  Cost,       \* units of a token
  Second,     \* ticks in a second
  NoVisitor,  \* the address has no bucket
  MaxClock    \* bound on the clock

Bucket == [tokens : 0..Minute, lastSeen : 0..MaxClock]

ASSUME LimiterAssumption ==
  /\ Minute \in Nat /\ MaxClock \in Nat
  /\ Cost \in 1..Minute
  /\ Second \in Nat \ {0}
  /\ NoVisitor \notin Bucket

(* Rounding down loses less than what a full bucket has beyond one token:  *)
(* so it is for both limiters, 60 and 10 requests a minute.                *)
ASSUME RoundingAssumption == Cost + Second <= Minute + 1

VARIABLES
  clock,      \* the time now
  visitors,   \* rl.visitors
  lastSweep,  \* when cleanup went to sleep
  reply,      \* the client's last response: admitted or not, resetTime, and
              \* when a refused client may come back (Retry-After)
  granted     \* history: the requests admitted

limiterVars == <<clock, visitors, lastSweep, reply, granted>>

NoReply == [allowed |-> TRUE, reset |-> 0, retry |-> 0]

LimiterInit ==
  /\ clock = 0
  /\ visitors = [c \in Clients |-> NoVisitor]
  /\ lastSweep = 0
  /\ reply = [c \in Clients |-> NoReply]
  /\ granted = [c \in Clients |-> 0]

Known(c) == visitors[c] # NoVisitor

(* Mutant: the elapsed time is not credited. *)
NeverRefilled(c) == visitors[c].tokens

(* v.tokens += elapsed * rate, at most burst. *)
Refilled(c) ==
  LET sum == visitors[c].tokens + (clock - visitors[c].lastSeen)
  IN  IF sum > Minute THEN Minute ELSE sum

(* Mutant: the reset time forgets the deficit. *)
ResetNow(tokens) == clock

(* time.Duration(x) * time.Second drops the fraction of a second. *)
WholeSeconds(ticks) == ticks - (ticks % Second)

(* When the bucket is full again; computed before the request is paid. *)
ResetTime(tokens) == clock + WholeSeconds(Minute - tokens)

(* Retry-After counts from the answer to reset, and is at least a second. *)
RetryTime(reset) == IF reset - clock < Second THEN clock + Second ELSE reset

(* The first request of an address, or of one that was forgotten. *)
AllowNew(c) ==
  /\ ~Known(c)
  /\ visitors' = [visitors EXCEPT ![c] = [tokens |-> Minute - Cost, lastSeen |-> clock]]
  /\ reply' = [reply EXCEPT ![c] =
       [allowed |-> TRUE, reset |-> clock + WholeSeconds(Cost), retry |-> 0]]
  /\ granted' = [granted EXCEPT ![c] = @ + 1]
  /\ UNCHANGED <<clock, lastSweep>>

AllowKnown(c) ==
  /\ Known(c)
  /\ Refilled(c) >= Cost
  /\ visitors' = [visitors EXCEPT ![c] = [tokens |-> Refilled(c) - Cost, lastSeen |-> clock]]
  /\ reply' = [reply EXCEPT ![c] =
       [allowed |-> TRUE, reset |-> ResetTime(Refilled(c)), retry |-> 0]]
  /\ granted' = [granted EXCEPT ![c] = @ + 1]
  /\ UNCHANGED <<clock, lastSweep>>

(* 429: what was earned is kept, and lastSeen moves. *)
Refuse(c) ==
  /\ Known(c)
  /\ Refilled(c) < Cost
  /\ visitors' = [visitors EXCEPT ![c] = [tokens |-> Refilled(c), lastSeen |-> clock]]
  /\ reply' = [reply EXCEPT ![c] =
       [allowed |-> FALSE, reset |-> ResetTime(Refilled(c)),
        retry |-> RetryTime(ResetTime(Refilled(c)))]]
  /\ UNCHANGED <<clock, lastSweep, granted>>

Allow(c) == AllowNew(c) \/ AllowKnown(c) \/ Refuse(c)

(* Mutant: every sweep forgets everyone. *)
AlwaysIdle(c) == Known(c)

LongIdle(c) == Known(c) /\ clock - visitors[c].lastSeen > 3 * Minute

(* cleanup: sleeps a minute, then forgets the addresses idle for three. *)
Sweep ==
  /\ clock - lastSweep >= Minute
  /\ visitors' = [c \in Clients |-> IF LongIdle(c) THEN NoVisitor ELSE visitors[c]]
  /\ lastSweep' = clock
  /\ UNCHANGED <<clock, reply, granted>>

LimiterTick ==
  /\ clock < MaxClock
  /\ clock' = clock + 1
  /\ UNCHANGED <<visitors, lastSweep, reply, granted>>

LimiterNext == LimiterTick \/ Sweep \/ \E c \in Clients : Allow(c)

LimiterSpec == LimiterInit /\ [][LimiterNext]_limiterVars

-----------------------------------------------------------------------------
(* What the client's bucket holds now; a forgotten one counts as full. *)
Level(c) == IF Known(c) THEN Refilled(c) ELSE Minute

LimiterTypeOK ==
  /\ clock \in 0..MaxClock
  /\ visitors \in [Clients -> Bucket \cup {NoVisitor}]
  /\ \A c \in Clients : Known(c) => visitors[c].lastSeen <= clock
  /\ lastSweep \in 0..clock
  /\ reply \in [Clients -> [allowed : BOOLEAN, reset : Nat, retry : Nat]]
  /\ granted \in [Clients -> Nat]

(* The limit: a client is never admitted more often than a full bucket and *)
(* the time since the start pay for, although buckets are forgotten and    *)
(* start full again.                                                       *)
NeverOverLimit == \A c \in Clients : granted[c] * Cost <= Minute + clock

(* Retry-After is honest: a client that was refused, waits as long as it   *)
(* was told and then sends its next request is admitted, although the time *)
(* was rounded down and its bucket may have been forgotten meanwhile.      *)
RetryIsAdmitted ==
  \A c \in Clients : ~reply[c].allowed /\ clock >= reply[c].retry => Level(c) >= Cost

(* Forgetting idle addresses is invisible: the limiter behaves as one that *)
(* keeps every bucket for ever.                                            *)
Abstract == INSTANCE TokenBucket WITH
  now <- clock, MaxTime <- MaxClock, level <- [c \in Clients |-> Level(c)]
ImplementsTokenBucket == Abstract!Spec
=============================================================================
