------------------------------ MODULE MCServer ------------------------------
(***************************************************************************)
(* What the server keeps beside its catalogue and forgets in time, for     *)
(* TLC: the rate limiter, the sessions, the metrics cache and the uptime   *)
(* history.  The four share no state; a behaviour is about one of them,    *)
(* and one about the history ends with a summary or its first failure.     *)
(***************************************************************************)
EXTENDS RateLimiter, Sessions, Metrics, Uptime, TLC

VARIABLE topic

Symmetry == Permutations(Clients) \cup Permutations(Requests)
            \cup Permutations(Browsers) \cup Permutations(Builders)

MCInit ==
  /\ topic \in {"limits", "sessions", "metrics", "uptime"}
  /\ LimiterInit /\ Init /\ MetricsInit /\ UptimeInit

SummaryOver == report.pc = "done" \/ (report.pc = "dates" /\ report.faulty)

MCNext ==
  /\ UNCHANGED topic
  /\ \/ topic = "limits" /\ LimiterNext /\ UNCHANGED <<vars, metricsVars, uptimeVars>>
     \/ topic = "sessions" /\ Next /\ UNCHANGED <<limiterVars, metricsVars, uptimeVars>>
     \/ topic = "metrics" /\ MetricsNext /\ UNCHANGED <<limiterVars, vars, uptimeVars>>
     \/ topic = "uptime" /\ ~SummaryOver /\ UptimeNext /\ UNCHANGED <<limiterVars, vars, metricsVars>>

MCSpec == MCInit /\ [][MCNext]_<<limiterVars, vars, metricsVars, uptimeVars, topic>>
=============================================================================
