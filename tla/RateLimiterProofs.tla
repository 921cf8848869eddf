-------------------------- MODULE RateLimiterProofs --------------------------
(***************************************************************************)
(* The limiter keeps its limit and implements TokenBucket, for every set   *)
(* of clients, every length of a minute and every price of a token; the    *)
(* limit holds in every window of time, and of every token bucket.         *)
(***************************************************************************)
EXTENDS RateLimiter, TLAPS

USE LimiterAssumption

(* Rounding down to a second loses less than a second. *)
LEMMA Rounding ==
  ASSUME NEW d \in Nat
  PROVE  WholeSeconds(d) \in Nat /\ WholeSeconds(d) <= d /\ d < WholeSeconds(d) + Second
<1>1. d % Second \in 0..(Second - 1)
  OBVIOUS
<1>2. d % Second <= d
  OBVIOUS
<1>3. QED BY <1>1, <1>2 DEF WholeSeconds

(* What a bucket has earned is between what it had and full. *)
LEMMA RefillBounds ==
  ASSUME LimiterTypeOK, NEW c \in Clients, Known(c)
  PROVE  /\ Refilled(c) \in 0..Minute
         /\ clock - visitors[c].lastSeen \in 0..MaxClock
BY DEF LimiterTypeOK, Known, Refilled, Bucket

(* The times a client is told, and how early the rounding may make them. *)
LEMMA ToldTimes ==
  ASSUME LimiterTypeOK, NEW t \in 0..Minute
  PROVE  /\ ResetTime(t) \in Nat
         /\ RetryTime(ResetTime(t)) \in Nat
         /\ RetryTime(ResetTime(t)) + t + Second > clock + Minute
<1>1. clock \in Nat /\ Minute - t \in Nat
  BY DEF LimiterTypeOK
<1> DEFINE w == WholeSeconds(Minute - t)
<1>2. w \in Nat /\ Minute - t < w + Second
  BY <1>1, Rounding
<1>3. ResetTime(t) = clock + w
  BY DEF ResetTime
<1> HIDE DEF w
<1>4. CASE clock + w - clock < Second
  <2>1. RetryTime(ResetTime(t)) = clock + Second
    BY <1>1, <1>2, <1>3, <1>4 DEF RetryTime
  <2>2. QED BY <1>1, <1>2, <1>3, <1>4, <2>1
<1>5. CASE ~(clock + w - clock < Second)
  <2>1. RetryTime(ResetTime(t)) = clock + w
    BY <1>1, <1>2, <1>3, <1>5 DEF RetryTime
  <2>2. QED BY <1>1, <1>2, <1>3, <2>1
<1>6. QED BY <1>4, <1>5

LEMMA NextTypes == LimiterTypeOK /\ [LimiterNext]_limiterVars => LimiterTypeOK'
<1> SUFFICES ASSUME LimiterTypeOK, [LimiterNext]_limiterVars PROVE LimiterTypeOK'
  OBVIOUS
<1>1. CASE UNCHANGED limiterVars
  BY <1>1 DEF LimiterTypeOK, Known, limiterVars
<1>2. CASE LimiterTick
  <2>1. clock' \in 0..MaxClock /\ lastSweep' \in 0..clock'
    BY <1>2 DEF LimiterTypeOK, LimiterTick
  <2>2. \A c \in Clients : Known(c) => visitors[c].lastSeen \in Int
    BY DEF LimiterTypeOK, Known, Bucket
  <2>3. \A c \in Clients : Known(c)' => visitors'[c].lastSeen <= clock'
    BY <1>2, <2>2 DEF LimiterTypeOK, Known, LimiterTick
  <2>4. QED BY <1>2, <2>1, <2>3 DEF LimiterTypeOK, LimiterTick
<1>3. CASE Sweep
  <2>1. visitors' \in [Clients -> Bucket \cup {NoVisitor}]
    BY <1>3 DEF LimiterTypeOK, Sweep
  <2>2. \A c \in Clients : Known(c)' => visitors'[c] = visitors[c] /\ Known(c)
    BY <1>3 DEF LimiterTypeOK, Known, Sweep
  <2>3. QED BY <1>3, <2>1, <2>2 DEF LimiterTypeOK, Sweep
<1>4. ASSUME NEW c \in Clients, NEW t \in 0..Minute,
             visitors' = [visitors EXCEPT ![c] = [tokens |-> t, lastSeen |-> clock]]
      PROVE  /\ visitors' \in [Clients -> Bucket \cup {NoVisitor}]
             /\ \A d \in Clients : Known(d)' => visitors'[d].lastSeen <= clock
  BY <1>4 DEF LimiterTypeOK, Known, Bucket
<1>5. ASSUME NEW c \in Clients, AllowNew(c) PROVE LimiterTypeOK'
  <2>1. Minute - Cost \in 0..Minute /\ clock + WholeSeconds(Cost) \in Nat
    BY Rounding DEF LimiterTypeOK
  <2>2. reply' \in [Clients -> [allowed : BOOLEAN, reset : Nat, retry : Nat]]
    BY <1>5, <2>1 DEF LimiterTypeOK, AllowNew
  <2>3. granted' \in [Clients -> Nat]
    BY <1>5 DEF LimiterTypeOK, AllowNew
  <2>4. QED BY <1>4, <1>5, <2>1, <2>2, <2>3 DEF LimiterTypeOK, AllowNew
<1>6. ASSUME NEW c \in Clients, AllowKnown(c) PROVE LimiterTypeOK'
  <2>1. Refilled(c) \in 0..Minute /\ Refilled(c) - Cost \in 0..Minute
    BY <1>6, RefillBounds DEF AllowKnown
  <2>2. ResetTime(Refilled(c)) \in Nat
    BY <2>1, ToldTimes
  <2>3. reply' \in [Clients -> [allowed : BOOLEAN, reset : Nat, retry : Nat]]
    BY <1>6, <2>2 DEF LimiterTypeOK, AllowKnown
  <2>4. granted' \in [Clients -> Nat]
    BY <1>6 DEF LimiterTypeOK, AllowKnown
  <2>5. QED BY <1>4, <1>6, <2>1, <2>3, <2>4 DEF LimiterTypeOK, AllowKnown
<1>7. ASSUME NEW c \in Clients, Refuse(c) PROVE LimiterTypeOK'
  <2>1. Refilled(c) \in 0..Minute
    BY <1>7, RefillBounds DEF Refuse
  <2>2. ResetTime(Refilled(c)) \in Nat /\ RetryTime(ResetTime(Refilled(c))) \in Nat
    BY <2>1, ToldTimes
  <2>3. reply' \in [Clients -> [allowed : BOOLEAN, reset : Nat, retry : Nat]]
    BY <1>7, <2>2 DEF LimiterTypeOK, Refuse
  <2>4. QED BY <1>4, <1>7, <2>1, <2>3 DEF LimiterTypeOK, Refuse
<1>8. QED BY <1>1, <1>2, <1>3, <1>5, <1>6, <1>7 DEF LimiterNext, Allow

(* The type invariant. *)
THEOREM TypeCorrect == LimiterSpec => []LimiterTypeOK
<1>1. LimiterInit => LimiterTypeOK
  BY DEF LimiterInit, LimiterTypeOK, Known, NoReply
<1>2. QED BY <1>1, NextTypes, PTL DEF LimiterSpec

-----------------------------------------------------------------------------
(* How the level of a bucket moves. *)
LEMMA LevelBounds ==
  ASSUME LimiterTypeOK, NEW c \in Clients
  PROVE  Level(c) \in 0..Minute
BY RefillBounds DEF Level

LEMMA LevelTick ==
  ASSUME LimiterTypeOK, LimiterTick, NEW c \in Clients
  PROVE  Level(c)' = IF Level(c) < Minute THEN Level(c) + 1 ELSE Minute
BY DEF LimiterTypeOK, LimiterTick, Level, Refilled, Known, Bucket

(* A bucket that is forgotten is full: it had three minutes to fill. *)
LEMMA LevelSweep ==
  ASSUME LimiterTypeOK, Sweep, NEW c \in Clients
  PROVE  Level(c)' = Level(c)
<1>1. CASE LongIdle(c)
  BY <1>1 DEF LimiterTypeOK, Sweep, Level, Refilled, Known, LongIdle, Bucket
<1>2. CASE ~LongIdle(c)
  BY <1>2 DEF LimiterTypeOK, Sweep, Level, Refilled, Known
<1>3. QED BY <1>1, <1>2

LEMMA LevelAdmit ==
  ASSUME LimiterTypeOK, NEW c \in Clients, AllowNew(c) \/ AllowKnown(c), NEW d \in Clients
  PROVE  /\ Level(c) >= Cost
         /\ Level(d)' = IF d = c THEN Level(c) - Cost ELSE Level(d)
<1>1. Level(c) \in 0..Minute
  BY LevelBounds
<1>2. CASE AllowNew(c)
  BY <1>1, <1>2 DEF LimiterTypeOK, AllowNew, Level, Refilled, Known, Bucket
<1>3. CASE AllowKnown(c)
  BY <1>1, <1>3 DEF LimiterTypeOK, AllowKnown, Level, Refilled, Known, Bucket
<1>4. QED BY <1>2, <1>3

LEMMA LevelRefuse ==
  ASSUME LimiterTypeOK, NEW c \in Clients, Refuse(c), NEW d \in Clients
  PROVE  Level(d)' = Level(d) /\ Level(c) < Cost
<1>1. Refilled(c) \in 0..Minute
  BY RefillBounds DEF Refuse
<1>2. QED BY <1>1 DEF LimiterTypeOK, Refuse, Level, Refilled, Known, Bucket

-----------------------------------------------------------------------------
(* The limit, strengthened by what is still in the bucket. *)
Paid == \A c \in Clients : Level(c) + granted[c] * Cost <= Minute + clock

LEMMA OneMore == ASSUME NEW g \in Nat PROVE (g + 1) * Cost = g * Cost + Cost
OBVIOUS

LEMMA NextPays == LimiterTypeOK /\ Paid /\ [LimiterNext]_limiterVars => Paid'
<1> SUFFICES ASSUME LimiterTypeOK, Paid, [LimiterNext]_limiterVars, NEW c \in Clients
             PROVE  (Level(c) + granted[c] * Cost <= Minute + clock)'
  BY DEF Paid
<1>1. /\ Level(c) \in 0..Minute /\ granted[c] \in Nat /\ clock \in Nat
      /\ granted[c] * Cost \in Nat
      /\ Level(c) + granted[c] * Cost <= Minute + clock
  BY LevelBounds DEF LimiterTypeOK, Paid
<1>2. CASE UNCHANGED limiterVars
  BY <1>1, <1>2 DEF limiterVars, Level, Refilled, Known
<1>3. CASE LimiterTick
  <2>1. Level(c)' <= Level(c) + 1 /\ Level(c)' \in Int
    BY <1>1, <1>3, LevelTick
  <2>2. clock' = clock + 1 /\ granted' = granted
    BY <1>3 DEF LimiterTick
  <2>3. QED BY <1>1, <2>1, <2>2
<1>4. CASE Sweep
  BY <1>1, <1>4, LevelSweep DEF Sweep
<1>5. ASSUME NEW d \in Clients, AllowNew(d) \/ AllowKnown(d)
      PROVE  (Level(c) + granted[c] * Cost <= Minute + clock)'
  <2>1. Level(c)' = IF c = d THEN Level(c) - Cost ELSE Level(c)
    BY <1>5, LevelAdmit
  <2>2. clock' = clock /\ granted'[c] = IF c = d THEN granted[c] + 1 ELSE granted[c]
    BY <1>5 DEF LimiterTypeOK, AllowNew, AllowKnown
  <2>3. (granted[c] + 1) * Cost = granted[c] * Cost + Cost
    BY <1>1, OneMore
  <2>4. CASE c = d
    <3>1. granted'[c] * Cost = granted[c] * Cost + Cost
      BY <2>2, <2>3, <2>4
    <3>2. QED BY <1>1, <2>1, <2>2, <2>4, <3>1
  <2>5. CASE c # d
    BY <1>1, <2>1, <2>2, <2>5
  <2>6. QED BY <2>4, <2>5
<1>6. ASSUME NEW d \in Clients, Refuse(d)
      PROVE  (Level(c) + granted[c] * Cost <= Minute + clock)'
  BY <1>1, <1>6, LevelRefuse DEF Refuse
<1>7. QED BY <1>2, <1>3, <1>4, <1>5, <1>6 DEF LimiterNext, Allow

(* No client is ever admitted more often than a full bucket and the time   *)
(* since the start pay for, whatever the sweeps forget.                    *)
THEOREM LimitHolds == LimiterSpec => []NeverOverLimit
<1>1. LimiterInit => Paid
  <2> SUFFICES ASSUME LimiterInit, NEW c \in Clients
               PROVE  Level(c) + granted[c] * Cost <= Minute + clock
    BY DEF Paid
  <2>1. Level(c) = Minute /\ granted[c] = 0 /\ clock = 0
    BY DEF LimiterInit, Level, Known
  <2>2. 0 * Cost = 0
    OBVIOUS
  <2>3. QED BY <2>1, <2>2
<1>2. LimiterTypeOK /\ Paid => NeverOverLimit
  <2> SUFFICES ASSUME LimiterTypeOK, Paid, NEW c \in Clients
               PROVE  granted[c] * Cost <= Minute + clock
    BY DEF NeverOverLimit
  <2>1. Level(c) \in 0..Minute /\ granted[c] * Cost \in Nat /\ clock \in Nat
    BY LevelBounds DEF LimiterTypeOK
  <2>2. QED BY <2>1 DEF Paid
<1>3. QED BY <1>1, <1>2, TypeCorrect, NextPays, PTL DEF LimiterSpec

-----------------------------------------------------------------------------
(* A refused client that waits until the time it was told can pay: from    *)
(* that reply on its level is full but for the time still to wait and less *)
(* than a second.                                                          *)
Filling ==
  \A c \in Clients :
    ~reply[c].allowed => \/ Level(c) + reply[c].retry + Second > Minute + clock
                         \/ Level(c) = Minute

LEMMA NextFills == LimiterTypeOK /\ Filling /\ [LimiterNext]_limiterVars => Filling'
<1> SUFFICES ASSUME LimiterTypeOK, Filling, [LimiterNext]_limiterVars, NEW c \in Clients, ~reply'[c].allowed
             PROVE  (Level(c) + reply[c].retry + Second > Minute + clock \/ Level(c) = Minute)'
  BY DEF Filling
<1>1. Level(c) \in 0..Minute /\ reply[c].retry \in Nat /\ clock \in Nat
  BY LevelBounds DEF LimiterTypeOK
<1>2. ~reply[c].allowed => Level(c) + reply[c].retry + Second > Minute + clock \/ Level(c) = Minute
  BY DEF Filling
<1>3. CASE UNCHANGED limiterVars
  BY <1>2, <1>3 DEF limiterVars, Level, Refilled, Known
<1>4. CASE LimiterTick
  <2>1. Level(c)' = IF Level(c) < Minute THEN Level(c) + 1 ELSE Minute
    BY <1>4, LevelTick
  <2>2. clock' = clock + 1 /\ reply' = reply
    BY <1>4 DEF LimiterTick
  <2>3. QED BY <1>1, <1>2, <2>1, <2>2
<1>5. CASE Sweep
  BY <1>2, <1>5, LevelSweep DEF Sweep
<1>6. ASSUME NEW d \in Clients, AllowNew(d) \/ AllowKnown(d)
      PROVE  (Level(c) + reply[c].retry + Second > Minute + clock \/ Level(c) = Minute)'
  <2>1. c # d /\ reply'[c] = reply[c] /\ clock' = clock
    BY <1>6 DEF LimiterTypeOK, AllowNew, AllowKnown
  <2>2. Level(c)' = Level(c)
    BY <1>6, <2>1, LevelAdmit
  <2>3. QED BY <1>2, <2>1, <2>2
<1>7. ASSUME NEW d \in Clients, Refuse(d)
      PROVE  (Level(c) + reply[c].retry + Second > Minute + clock \/ Level(c) = Minute)'
  <2>1. Level(c)' = Level(c) /\ clock' = clock
    BY <1>7, LevelRefuse DEF Refuse
  <2>2. CASE c # d
    <3>1. reply'[c] = reply[c]
      BY <1>7, <2>2 DEF LimiterTypeOK, Refuse
    <3>2. QED BY <1>2, <2>1, <3>1
  <2>3. CASE c = d
    <3>1. Level(c) = Refilled(c)
      BY <1>7, <2>3 DEF Refuse, Level
    <3>2. reply'[c].retry = RetryTime(ResetTime(Level(c)))
      BY <1>7, <2>3, <3>1 DEF LimiterTypeOK, Refuse
    <3>3. QED BY <1>1, <2>1, <3>2, ToldTimes
  <2>4. QED BY <2>2, <2>3
<1>8. QED BY <1>3, <1>4, <1>5, <1>6, <1>7 DEF LimiterNext, Allow

(* A client that was refused and waits as long as Retry-After told it is   *)
(* admitted with its next request.                                         *)
THEOREM RetryHolds == LimiterSpec => []RetryIsAdmitted
<1>1. LimiterInit => Filling
  BY DEF LimiterInit, Filling, NoReply
<1>2. LimiterTypeOK /\ Filling => RetryIsAdmitted
  <2> SUFFICES ASSUME LimiterTypeOK, Filling, NEW c \in Clients,
                      ~reply[c].allowed, clock >= reply[c].retry
               PROVE  Level(c) >= Cost
    BY DEF RetryIsAdmitted
  <2>1. Level(c) \in 0..Minute /\ reply[c].retry \in Nat /\ clock \in Nat
    BY LevelBounds DEF LimiterTypeOK
  <2>2. QED BY <2>1, RoundingAssumption DEF Filling
<1>3. QED BY <1>1, <1>2, TypeCorrect, NextFills, PTL DEF LimiterSpec

-----------------------------------------------------------------------------
(* The limiter, which forgets buckets, implements the one that does not. *)
LEMMA NextRefines == LimiterTypeOK /\ [LimiterNext]_limiterVars => [Abstract!Next]_(Abstract!vars)
<1> SUFFICES ASSUME LimiterTypeOK, [LimiterNext]_limiterVars PROVE Abstract!Next \/ UNCHANGED Abstract!vars
  OBVIOUS
<1> DEFINE level == [c \in Clients |-> Level(c)]
<1>1. CASE UNCHANGED limiterVars
  BY <1>1 DEF Abstract!vars, limiterVars, Level, Refilled, Known
<1>2. CASE LimiterTick
  <2>1. \A c \in Clients : Level(c)' = IF Level(c) < Minute THEN Level(c) + 1 ELSE Minute
    BY <1>2, LevelTick
  <2>2. QED BY <1>2, <2>1 DEF LimiterTick, Abstract!Next, Abstract!Tick
<1>3. CASE Sweep
  <2>1. \A c \in Clients : Level(c)' = Level(c)
    BY <1>3, LevelSweep
  <2>2. QED BY <1>3, <2>1 DEF Sweep, Abstract!vars
<1>4. ASSUME NEW c \in Clients, AllowNew(c) \/ AllowKnown(c) PROVE Abstract!Next
  <2>1. Level(c) >= Cost
    BY <1>4, LevelAdmit
  <2>2. \A d \in Clients : Level(d)' = IF d = c THEN Level(c) - Cost ELSE Level(d)
    BY <1>4, LevelAdmit
  <2>3. clock' = clock /\ granted' = [granted EXCEPT ![c] = @ + 1]
    BY <1>4 DEF AllowNew, AllowKnown
  <2>4. Abstract!Admit(c)
    BY <2>1, <2>2, <2>3 DEF Abstract!Admit
  <2>5. QED BY <2>4 DEF Abstract!Next
<1>5. ASSUME NEW c \in Clients, Refuse(c) PROVE UNCHANGED Abstract!vars
  <2>1. \A d \in Clients : Level(d)' = Level(d)
    BY <1>5, LevelRefuse
  <2>2. QED BY <1>5, <2>1 DEF Refuse, Abstract!vars
<1>6. QED BY <1>1, <1>2, <1>3, <1>4, <1>5 DEF LimiterNext, Allow

(* Forgetting idle clients cannot be told from remembering them all. *)
THEOREM Refinement == LimiterSpec => ImplementsTokenBucket
<1>1. LimiterInit => Abstract!Init
  BY DEF LimiterInit, Abstract!Init, Level, Known
<1>2. QED BY <1>1, TypeCorrect, NextRefines, PTL
          DEF LimiterSpec, ImplementsTokenBucket, Abstract!Spec

-----------------------------------------------------------------------------
(* The limit holds in every window of time.  Since the client had been     *)
(* admitted g times at time t, what it was admitted for and what is in its *)
(* bucket has been paid for by a full bucket and the time that passed.     *)
PaidSince(c, g, t) ==
  /\ clock >= t
  /\ Level(c) + (granted[c] - g) * Cost <= Minute + (clock - t)

LEMMA OneMoreSince ==
  ASSUME NEW n \in Nat, NEW g \in Nat PROVE (n + 1 - g) * Cost = (n - g) * Cost + Cost
<1>1. PICK d \in Int : d = n - g
  OBVIOUS
<1>2. (d + 1) * Cost = d * Cost + Cost
  OBVIOUS
<1>3. n + 1 - g = d + 1
  BY <1>1
<1>4. QED BY <1>1, <1>2, <1>3

LEMMA NextPaysSince ==
  ASSUME LimiterTypeOK, [LimiterNext]_limiterVars, NEW c \in Clients, NEW g \in Nat, NEW t \in Nat,
         PaidSince(c, g, t)
  PROVE  PaidSince(c, g, t)'
<1>1. /\ Level(c) \in 0..Minute /\ granted[c] \in Nat /\ clock \in Nat /\ clock >= t
      /\ (granted[c] - g) * Cost \in Int
      /\ Level(c) + (granted[c] - g) * Cost <= Minute + (clock - t)
  BY LevelBounds DEF LimiterTypeOK, PaidSince
<1>2. ASSUME Level(c)' \in Int, clock' \in {clock, clock + 1}, Level(c)' - Level(c) <= clock' - clock,
             granted'[c] = granted[c]
      PROVE  PaidSince(c, g, t)'
  BY <1>1, <1>2 DEF PaidSince
<1>3. CASE UNCHANGED limiterVars
  BY <1>1, <1>2, <1>3 DEF limiterVars, Level, Refilled, Known
<1>4. CASE LimiterTick
  <2>1. Level(c)' <= Level(c) + 1 /\ Level(c)' \in Int
    BY <1>1, <1>4, LevelTick
  <2>2. clock' = clock + 1 /\ granted' = granted
    BY <1>4 DEF LimiterTick
  <2>3. QED BY <1>1, <1>2, <2>1, <2>2
<1>5. CASE Sweep
  <2>1. Level(c)' = Level(c) /\ clock' = clock /\ granted' = granted
    BY <1>5, LevelSweep DEF Sweep
  <2>2. QED BY <1>1, <1>2, <2>1
<1>6. ASSUME NEW d \in Clients, Refuse(d) PROVE PaidSince(c, g, t)'
  <2>1. Level(c)' = Level(c) /\ clock' = clock /\ granted' = granted
    BY <1>6, LevelRefuse DEF Refuse
  <2>2. QED BY <1>1, <1>2, <2>1
<1>7. ASSUME NEW d \in Clients, AllowNew(d) \/ AllowKnown(d) PROVE PaidSince(c, g, t)'
  <2>1. Level(c)' = IF c = d THEN Level(c) - Cost ELSE Level(c)
    BY <1>7, LevelAdmit
  <2>2. clock' = clock /\ granted'[c] = IF c = d THEN granted[c] + 1 ELSE granted[c]
    BY <1>7 DEF LimiterTypeOK, AllowNew, AllowKnown
  <2>3. CASE c # d
    BY <1>1, <1>2, <2>1, <2>2, <2>3
  <2>4. CASE c = d
    <3>1. (granted'[c] - g) * Cost = (granted[c] - g) * Cost + Cost
      BY <1>1, <2>2, <2>4, OneMoreSince
    <3>2. Level(c)' + (granted'[c] - g) * Cost = Level(c) + (granted[c] - g) * Cost
      BY <1>1, <2>1, <2>4, <3>1
    <3>3. QED BY <1>1, <2>2, <3>2 DEF PaidSince
  <2>5. QED BY <2>3, <2>4
<1>8. QED BY <1>3, <1>4, <1>5, <1>6, <1>7 DEF LimiterNext, Allow

(* In no stretch of time, whenever it begins, is a client admitted more    *)
(* often than a full bucket and that time pay for: what a limit per minute *)
(* promises at every moment and not only since the start, though buckets   *)
(* are forgotten in between (middleware/ratelimit.go:53-121).              *)
THEOREM WindowHolds ==
  ASSUME NEW c \in Clients, NEW g \in Nat, NEW t \in Nat
  PROVE  LimiterSpec => [](granted[c] = g /\ clock = t
                      => []((granted[c] - g) * Cost <= Minute + (clock - t)))
<1>1. LimiterTypeOK /\ granted[c] = g /\ clock = t => PaidSince(c, g, t)
  <2> SUFFICES ASSUME LimiterTypeOK, granted[c] = g, clock = t PROVE PaidSince(c, g, t)
    OBVIOUS
  <2>1. (granted[c] - g) * Cost = 0 /\ clock - t = 0
    OBVIOUS
  <2>2. QED BY <2>1, LevelBounds DEF PaidSince
<1>2. LimiterTypeOK /\ PaidSince(c, g, t) /\ [LimiterNext]_limiterVars => PaidSince(c, g, t)'
  BY NextPaysSince
<1>3. LimiterTypeOK /\ PaidSince(c, g, t) => (granted[c] - g) * Cost <= Minute + (clock - t)
  <2> SUFFICES ASSUME LimiterTypeOK, PaidSince(c, g, t)
               PROVE  (granted[c] - g) * Cost <= Minute + (clock - t)
    OBVIOUS
  <2>1. Level(c) \in Nat /\ (granted[c] - g) * Cost \in Int /\ clock \in Nat
    BY LevelBounds DEF LimiterTypeOK
  <2>2. QED BY <2>1 DEF PaidSince
<1>4. QED BY <1>1, <1>2, <1>3, TypeCorrect, PTL DEF LimiterSpec
-----------------------------------------------------------------------------
(* What the abstract bucket promises by itself.                            *)
BucketPays ==
  /\ clock \in Nat /\ granted \in [Clients -> Nat]
  /\ \A c \in Clients : Level(c) \in 0..Minute
  /\ Paid

LEMMA BucketKeepsPaying == BucketPays /\ [Abstract!Next]_Abstract!vars => BucketPays'
<1> SUFFICES ASSUME BucketPays, [Abstract!Next]_Abstract!vars PROVE BucketPays'
  OBVIOUS
<1>1. CASE Abstract!Tick
  <2>1. \A c \in Clients : Level(c)' = IF Level(c) < Minute THEN Level(c) + 1 ELSE Minute
    BY <1>1 DEF Abstract!Tick
  <2>2. clock' = clock + 1 /\ granted' = granted
    BY <1>1 DEF Abstract!Tick
  <2>3. ASSUME NEW c \in Clients
        PROVE  /\ Level(c)' \in 0..Minute
               /\ Level(c)' + granted'[c] * Cost <= Minute + clock'
    <3>1. granted[c] * Cost \in Nat
      BY DEF BucketPays
    <3>2. QED BY <2>1, <2>2, <3>1 DEF BucketPays, Paid
  <2>4. QED BY <2>2, <2>3 DEF BucketPays, Paid
<1>2. ASSUME NEW d \in Clients, Abstract!Admit(d) PROVE BucketPays'
  <2>1. /\ Level(d) >= Cost
        /\ \A c \in Clients : Level(c)' = IF c = d THEN Level(d) - Cost ELSE Level(c)
    BY <1>2 DEF Abstract!Admit
  <2>2. clock' = clock /\ granted' = [granted EXCEPT ![d] = @ + 1]
    BY <1>2 DEF Abstract!Admit
  <2>3. ASSUME NEW c \in Clients
        PROVE  /\ Level(c)' \in 0..Minute
               /\ Level(c)' + granted'[c] * Cost <= Minute + clock'
    <3>1. granted[c] \in Nat /\ granted[c] * Cost \in Nat
      BY DEF BucketPays
    <3>2. (granted[c] + 1) * Cost = granted[c] * Cost + Cost
      BY <3>1, OneMore
    <3>3. CASE c = d
      BY <2>1, <2>2, <3>1, <3>2, <3>3 DEF BucketPays, Paid
    <3>4. CASE c # d
      BY <2>1, <2>2, <3>1, <3>4 DEF BucketPays, Paid
    <3>5. QED BY <3>3, <3>4
  <2>4. QED BY <2>2, <2>3 DEF BucketPays, Paid
<1>3. CASE UNCHANGED Abstract!vars
  <2>1. \A c \in Clients : Level(c)' = Level(c)
    BY <1>3 DEF Abstract!vars
  <2>2. QED BY <1>3, <2>1 DEF Abstract!vars, BucketPays, Paid
<1>4. QED BY <1>1, <1>2, <1>3 DEF Abstract!Next

(* The abstract bucket keeps the limit, so every limiter that implements   *)
(* it does (middleware/ratelimit.go:53-83).                                *)
THEOREM BucketPromise == ImplementsTokenBucket => []NeverOverLimit
<1>1. Abstract!Init => BucketPays
  <2> SUFFICES ASSUME Abstract!Init PROVE BucketPays
    OBVIOUS
  <2>1. \A c \in Clients : Level(c) = Minute /\ granted[c] = 0
    BY DEF Abstract!Init
  <2>2. QED BY <2>1 DEF Abstract!Init, BucketPays, Paid
<1>2. BucketPays => NeverOverLimit
  <2> SUFFICES ASSUME BucketPays, NEW c \in Clients PROVE granted[c] * Cost <= Minute + clock
    BY DEF NeverOverLimit
  <2>1. Level(c) \in Nat /\ granted[c] * Cost \in Nat /\ clock \in Nat
    BY DEF BucketPays
  <2>2. QED BY <2>1 DEF BucketPays, Paid
<1>3. QED BY <1>1, <1>2, BucketKeepsPaying, PTL DEF ImplementsTokenBucket, Abstract!Spec
=============================================================================
