------------------------------ MODULE Metrics ------------------------------
(***************************************************************************)
(* GET /api/infra and its cache.  A handler looks at the cache under the   *)
(* read lock, collects a sample of its own without a lock if the cached    *)
(* one has expired, and stores it under the write lock with a new expiry.  *)
(* Handlers that find the cache expired together all collect, and store in *)
(* any order.                                                              *)
(***************************************************************************)
EXTENDS Integers

CONSTANTS
  Fetches,   \* handlers of GET /api/infra
  Ttl,       \* how long a stored sample is served
  Empty,     \* the cache of a process that has just started
  MaxNow     \* bound on the clock

ASSUME FetchAssumption == Ttl \in Nat \ {0} /\ MaxNow \in Nat /\ Empty \notin [at : Nat, expires : Nat]

VARIABLES
  instant,   \* the time
  cache,     \* the sample served, by the time it was taken, and its expiry
  fetch,     \* what each handler is about to do, with its sample
  slowest,   \* history: the longest time a sample waited to be stored
  newest     \* history: when the newest sample stored in this process was taken

metricsVars == <<instant, cache, fetch, slowest, newest>>

Ready == [pc |-> "ready"]
Answers == [pc : {"answer"}, at : Nat, looked : Nat, cached : BOOLEAN]
Fetching == [pc : {"collect"}] \cup [pc : {"store"}, at : Nat] \cup Answers

MetricsInit ==
  /\ instant = 0
  /\ cache = Empty
  /\ fetch = [f \in Fetches |-> Ready]
  /\ slowest = 0 /\ newest = 0

Become(f, s) == fetch' = [fetch EXCEPT ![f] = s]

(* AnyCached is a mutant: a sample never expires. *)
AnyCached == cache # Empty
Cached == cache # Empty /\ instant < cache.expires

LookAtCache(f) ==
  /\ fetch[f] = Ready
  /\ Become(f, IF Cached THEN [pc |-> "answer", at |-> cache.at, looked |-> instant, cached |-> TRUE]
               ELSE [pc |-> "collect"])
  /\ UNCHANGED <<instant, cache, slowest, newest>>

CollectMetrics(f) ==
  /\ fetch[f].pc = "collect"
  /\ Become(f, [pc |-> "store", at |-> instant])
  /\ UNCHANGED <<instant, cache, slowest, newest>>

Store(f) ==
  /\ fetch[f].pc = "store"
  /\ cache' = [at |-> fetch[f].at, expires |-> instant + Ttl]
  /\ Become(f, [pc |-> "answer", at |-> fetch[f].at, looked |-> instant, cached |-> FALSE])
  /\ slowest' = IF instant - fetch[f].at > slowest THEN instant - fetch[f].at ELSE slowest
  /\ newest' = IF fetch[f].at > newest THEN fetch[f].at ELSE newest
  /\ UNCHANGED instant

AnswerFetch(f) ==
  /\ fetch[f].pc = "answer"
  /\ Become(f, Ready)
  /\ UNCHANGED <<instant, cache, slowest, newest>>

Pass ==
  /\ instant < MaxNow
  /\ instant' = instant + 1
  /\ UNCHANGED <<cache, fetch, slowest, newest>>

(* The cache is lost with the process. *)
RestartServer ==
  /\ cache' = Empty
  /\ fetch' = [f \in Fetches |-> Ready]
  /\ slowest' = 0 /\ newest' = 0
  /\ UNCHANGED instant

MetricsNext ==
  \/ \E f \in Fetches : LookAtCache(f) \/ CollectMetrics(f) \/ Store(f) \/ AnswerFetch(f)
  \/ Pass \/ RestartServer

MetricsSpec == MetricsInit /\ [][MetricsNext]_metricsVars

(***************************************************************************)
(* Properties.                                                             *)
(***************************************************************************)
MetricsTypeOK ==
  /\ instant \in Nat /\ slowest \in Nat /\ newest \in Nat
  /\ cache \in [at : Nat, expires : Nat] \cup {Empty}
  /\ fetch \in [Fetches -> {Ready} \cup Fetching]

(* Although every handler that finds the cache expired stores a sample of  *)
(* its own, and an older one may replace a newer one and get the later     *)
(* expiry: a sample from the cache is younger than the time to live plus   *)
(* the longest time that a handler took from its sample to the store, and  *)
(* what the cache holds is never further behind the newest sample stored   *)
(* than that time (handler/infra.go:98-118).                               *)
SamplesAreRecent ==
  /\ \A f \in Fetches : fetch[f].pc = "answer" /\ fetch[f].cached =>
       fetch[f].looked - fetch[f].at < Ttl + slowest
  /\ cache # Empty => newest - cache.at <= slowest
=============================================================================
