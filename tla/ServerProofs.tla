---------------------------- MODULE ServerProofs ----------------------------
(***************************************************************************)
(* Proofs about the cached metrics, the uptime history and the types of    *)
(* the live feed.                                                          *)
(***************************************************************************)
EXTENDS Metrics, Uptime, LiveFeed, TLAPS

(***************************************************************************)
(* Metrics.                                                                *)
(***************************************************************************)
LEMMA FetchKinds ==
  ASSUME MetricsTypeOK, NEW f \in Fetches
  PROVE  /\ fetch[f].pc = "store" => fetch[f].at \in Nat
         /\ fetch[f].pc = "answer" => fetch[f] \in Answers
<1>1. fetch[f] \in {Ready} \cup Fetching
  BY DEF MetricsTypeOK
<1>2. Ready.pc = "ready"
  BY DEF Ready
<1>3. QED BY <1>1, <1>2 DEF Fetching, Answers

LEMMA MetricsTypes == MetricsTypeOK /\ [MetricsNext]_metricsVars => MetricsTypeOK'
<1> SUFFICES ASSUME MetricsTypeOK, [MetricsNext]_metricsVars PROVE MetricsTypeOK'
  OBVIOUS
<1>1. ASSUME NEW f \in Fetches, LookAtCache(f) PROVE MetricsTypeOK'
  <2>1. Cached => cache.at \in Nat
    BY DEF Cached, MetricsTypeOK
  <2>2. (IF Cached THEN [pc |-> "answer", at |-> cache.at, looked |-> instant, cached |-> TRUE]
         ELSE [pc |-> "collect"]) \in Fetching
    BY <2>1 DEF MetricsTypeOK, Fetching, Answers
  <2>3. QED BY <1>1, <2>2 DEF LookAtCache, Become, MetricsTypeOK
<1>2. ASSUME NEW f \in Fetches, CollectMetrics(f) PROVE MetricsTypeOK'
  BY <1>2 DEF CollectMetrics, Become, MetricsTypeOK, Fetching
<1>3. ASSUME NEW f \in Fetches, Store(f) PROVE MetricsTypeOK'
  <2>1. fetch[f].at \in Nat
    BY <1>3, FetchKinds DEF Store
  <2>2. instant + Ttl \in Nat
    BY FetchAssumption DEF MetricsTypeOK
  <2>3. cache' \in [at : Nat, expires : Nat]
    BY <1>3, <2>1, <2>2 DEF Store
  <2>4. fetch' \in [Fetches -> {Ready} \cup Fetching]
    BY <1>3, <2>1 DEF Store, Become, MetricsTypeOK, Fetching, Answers
  <2>5. slowest' \in Nat /\ newest' \in Nat
    BY <1>3, <2>1 DEF Store, MetricsTypeOK
  <2>6. QED BY <1>3, <2>3, <2>4, <2>5 DEF Store, MetricsTypeOK
<1>4. ASSUME NEW f \in Fetches, AnswerFetch(f) PROVE MetricsTypeOK'
  BY <1>4 DEF AnswerFetch, Become, MetricsTypeOK
<1>5. CASE Pass \/ RestartServer \/ UNCHANGED metricsVars
  BY <1>5 DEF Pass, RestartServer, metricsVars, MetricsTypeOK
<1>6. QED BY <1>1, <1>2, <1>3, <1>4, <1>5 DEF MetricsNext

(* What the cache holds was taken no longer than slowest before it was     *)
(* stored, and it was stored Ttl before it expires.                        *)
CacheDated ==
  cache # Empty => /\ cache.expires <= cache.at + slowest + Ttl
                   /\ newest - cache.at <= slowest
FetchesDated ==
  \A f \in Fetches :
    /\ fetch[f].pc = "store" => fetch[f].at <= instant
    /\ fetch[f].pc = "answer" /\ fetch[f].cached => fetch[f].looked - fetch[f].at < Ttl + slowest
SamplesDated == newest <= instant /\ CacheDated /\ FetchesDated

LEMMA SamplesStart == MetricsInit => MetricsTypeOK /\ SamplesDated
BY DEF MetricsInit, MetricsTypeOK, SamplesDated, CacheDated, FetchesDated, Ready

(* A step at one handler, which ends well for that handler and leaves the  *)
(* others' records good. *)
LEMMA OneFetch ==
  ASSUME MetricsTypeOK, FetchesDated, NEW f \in Fetches, NEW s, Become(f, s),
         instant' = instant, slowest' \in Nat, slowest' >= slowest,
         s.pc = "store" => s.at <= instant,
         s.pc = "answer" /\ s.cached => s.looked - s.at < Ttl + slowest'
  PROVE  FetchesDated'
<1>1. ASSUME NEW g \in Fetches, g # f
      PROVE  /\ fetch'[g].pc = "store" => fetch'[g].at <= instant
             /\ fetch'[g].pc = "answer" /\ fetch'[g].cached =>
                  fetch'[g].looked - fetch'[g].at < Ttl + slowest'
  <2>1. fetch'[g] = fetch[g]
    BY <1>1 DEF Become, MetricsTypeOK
  <2>2. fetch[g].pc = "store" => fetch[g].at <= instant
    BY DEF FetchesDated
  <2>3. ASSUME fetch[g].pc = "answer", fetch[g].cached
        PROVE  fetch[g].looked - fetch[g].at < Ttl + slowest'
    <3>1. fetch[g].looked \in Nat /\ fetch[g].at \in Nat
      BY <2>3, FetchKinds DEF Answers
    <3>2. fetch[g].looked - fetch[g].at < Ttl + slowest
      BY <2>3 DEF FetchesDated
    <3>3. Ttl \in Nat /\ slowest \in Nat
      BY FetchAssumption DEF MetricsTypeOK
    <3>4. QED BY <3>1, <3>2, <3>3
  <2>4. QED BY <2>1, <2>2, <2>3
<1>2. fetch'[f] = s
  BY DEF Become, MetricsTypeOK
<1>3. QED BY <1>1, <1>2 DEF FetchesDated

LEMMA SamplesStay ==
  MetricsTypeOK /\ SamplesDated /\ [MetricsNext]_metricsVars => SamplesDated'
<1> SUFFICES ASSUME MetricsTypeOK, SamplesDated, [MetricsNext]_metricsVars PROVE SamplesDated'
  OBVIOUS
<1> USE FetchAssumption
<1>t. instant \in Nat /\ slowest \in Nat /\ newest \in Nat /\ Ttl \in Nat
  BY DEF MetricsTypeOK
<1>1. ASSUME NEW f \in Fetches, LookAtCache(f) PROVE SamplesDated'
  <2>1. PICK s : /\ Become(f, s)
                 /\ s = IF Cached
                          THEN [pc |-> "answer", at |-> cache.at, looked |-> instant, cached |-> TRUE]
                          ELSE [pc |-> "collect"]
    BY <1>1 DEF LookAtCache
  <2>2. ASSUME Cached PROVE instant - cache.at < Ttl + slowest
    <3>1. cache.at \in Nat /\ cache.expires \in Nat /\ instant < cache.expires
      BY <2>2 DEF Cached, MetricsTypeOK
    <3>2. cache.expires <= cache.at + slowest + Ttl
      BY <2>2 DEF Cached, SamplesDated, CacheDated
    <3>3. QED BY <1>t, <3>1, <3>2
  <2>3. s.pc # "store" /\ (s.pc = "answer" /\ s.cached => s.looked - s.at < Ttl + slowest)
    BY <2>1, <2>2
  <2>4. FetchesDated'
    BY <1>1, <1>t, <2>1, <2>3, OneFetch DEF LookAtCache, SamplesDated
  <2>5. QED BY <1>1, <2>4 DEF LookAtCache, SamplesDated, CacheDated
<1>2. ASSUME NEW f \in Fetches, CollectMetrics(f) PROVE SamplesDated'
  <2>1. PICK s : Become(f, s) /\ s = [pc |-> "store", at |-> instant]
    BY <1>2 DEF CollectMetrics
  <2>2. FetchesDated'
    BY <1>2, <1>t, <2>1, OneFetch DEF CollectMetrics, SamplesDated
  <2>3. QED BY <1>2, <2>2 DEF CollectMetrics, SamplesDated, CacheDated
<1>3. ASSUME NEW f \in Fetches, Store(f) PROVE SamplesDated'
  <2>1. PICK a \in Nat : a = fetch[f].at /\ a <= instant
    BY <1>3, FetchKinds DEF Store, SamplesDated, FetchesDated
  <2>2. /\ cache' = [at |-> a, expires |-> instant + Ttl]
        /\ slowest' = IF instant - a > slowest THEN instant - a ELSE slowest
        /\ newest' = IF a > newest THEN a ELSE newest
        /\ instant' = instant
    BY <1>3, <2>1 DEF Store
  <2>3. slowest' \in Nat /\ slowest' >= slowest /\ slowest' >= instant - a
    BY <1>t, <2>1, <2>2
  <2>4. newest' \in Nat /\ newest' <= instant
    BY <1>t, <2>1, <2>2 DEF SamplesDated
  <2>5. CacheDated'
    <3>1. cache'.at = a /\ cache'.expires = instant + Ttl
      BY <2>2
    <3>2. instant + Ttl <= a + slowest' + Ttl /\ newest' - a <= slowest'
      BY <1>t, <2>1, <2>3, <2>4
    <3>3. QED BY <3>1, <3>2 DEF CacheDated
  <2>6. PICK s : /\ Become(f, s)
                 /\ s = [pc |-> "answer", at |-> fetch[f].at, looked |-> instant, cached |-> FALSE]
    BY <1>3 DEF Store
  <2>7. FetchesDated'
    BY <2>2, <2>3, <2>6, OneFetch DEF SamplesDated
  <2>8. QED BY <2>2, <2>4, <2>5, <2>7 DEF SamplesDated
<1>4. ASSUME NEW f \in Fetches, AnswerFetch(f) PROVE SamplesDated'
  <2>1. PICK s : Become(f, s) /\ s = Ready
    BY <1>4 DEF AnswerFetch
  <2>2. FetchesDated'
    BY <1>4, <1>t, <2>1, OneFetch DEF AnswerFetch, SamplesDated, Ready
  <2>3. QED BY <1>4, <2>2 DEF AnswerFetch, SamplesDated, CacheDated
<1>5. CASE Pass
  <2>1. \A f \in Fetches : fetch[f].pc = "store" => fetch[f].at \in Nat
    BY FetchKinds
  <2>2. instant' = instant + 1 /\ UNCHANGED <<cache, fetch, slowest, newest>>
    BY <1>5 DEF Pass
  <2>3. FetchesDated'
    BY <1>t, <2>1, <2>2 DEF SamplesDated, FetchesDated
  <2>4. newest' <= instant' /\ CacheDated'
    BY <1>t, <2>2 DEF SamplesDated, CacheDated
  <2>5. QED BY <2>3, <2>4 DEF SamplesDated
<1>6. CASE RestartServer
  BY <1>6, <1>t DEF RestartServer, SamplesDated, CacheDated, FetchesDated, Ready
<1>7. CASE UNCHANGED metricsVars
  BY <1>7 DEF metricsVars, SamplesDated, CacheDated, FetchesDated
<1>8. QED BY <1>1, <1>2, <1>3, <1>4, <1>5, <1>6, <1>7 DEF MetricsNext

(* A sample from the cache is younger than the time to live plus the       *)
(* longest time a handler took to store its sample, and no further behind  *)
(* the newest than that time (handler/infra.go:98-118).                    *)
THEOREM RecentSamples == MetricsSpec => []SamplesAreRecent
<1>1. SamplesDated => SamplesAreRecent
  BY DEF SamplesDated, CacheDated, FetchesDated, SamplesAreRecent
<1>2. QED BY <1>1, SamplesStart, MetricsTypes, SamplesStay, PTL DEF MetricsSpec

(***************************************************************************)
(* The uptime history.                                                     *)
(***************************************************************************)
LEMMA ReportKinds ==
  ASSUME UptimeTypeOK, report.pc # "none"
  PROVE  report \in Reports
BY DEF UptimeTypeOK, NoReport

(* What a lookup leaves. *)
LEMMA LookedUpTo ==
  ASSUME UptimeTypeOK, report.pc = "dates", NEW entry \in SUBSET [date : Int, known : BOOLEAN],
         NEW fault \in BOOLEAN, LookedUp(entry, fault)
  PROVE  /\ report' \in Reports
         /\ report'.asked = report.asked /\ report'.before = report.before
         /\ report'.counted = report.counted
         /\ report'.pc = IF report.i + 1 = Shown THEN "done" ELSE "dates"
         /\ report'.i = report.i + 1 /\ report'.until = day
         /\ report'.entries = report.entries \cup entry
         /\ report'.faulty = (report.faulty \/ fault)
<1>1. report \in Reports
  BY ReportKinds
<1>2. day \in Int
  BY DEF UptimeTypeOK
<1>3. report' = [report EXCEPT !.pc = IF report.i + 1 = Shown THEN "done" ELSE "dates",
                               !.i = report.i + 1,
                               !.until = day,
                               !.entries = report.entries \cup entry,
                               !.faulty = report.faulty \/ fault]
  BY DEF LookedUp
<1>4. /\ report.i + 1 \in Nat
      /\ report.entries \cup entry \in SUBSET [date : Int, known : BOOLEAN]
      /\ (report.faulty \/ fault) \in BOOLEAN
      /\ (IF report.i + 1 = Shown THEN "done" ELSE "dates") \in {"dates", "done"}
  BY <1>1 DEF Reports
<1>5. /\ report'.asked = report.asked /\ report'.before = report.before
      /\ report'.counted = report.counted
      /\ report'.pc = IF report.i + 1 = Shown THEN "done" ELSE "dates"
      /\ report'.i = report.i + 1 /\ report'.until = day
      /\ report'.entries = report.entries \cup entry
      /\ report'.faulty = (report.faulty \/ fault)
  BY <1>1, <1>3 DEF Reports
<1>6. report' \in Reports
  BY <1>1, <1>2, <1>3, <1>4 DEF Reports
<1>7. QED BY <1>5, <1>6

LEMMA UptimeTypes == UptimeTypeOK /\ [UptimeNext]_uptimeVars => UptimeTypeOK'
<1> SUFFICES ASSUME UptimeTypeOK, [UptimeNext]_uptimeVars PROVE UptimeTypeOK'
  OBVIOUS
<1> USE UptimeAssumption
<1>1. ASSUME NEW fails \in BOOLEAN, StartTracker(fails) PROVE UptimeTypeOK'
  BY <1>1 DEF StartTracker, UptimeTypeOK
<1>2. ASSUME NEW fails \in BOOLEAN, Cleanup(fails) PROVE UptimeTypeOK'
  <2>1. checks' \subseteq Int
    BY <1>2 DEF Cleanup, UptimeTypeOK
  <2>2. untilClean' \in 0..Hours /\ swept' \in {"no", "done", "failed"}
    BY <1>2 DEF Cleanup
  <2>3. QED BY <1>2, <2>1, <2>2 DEF Cleanup, UptimeTypeOK
<1>3. CASE StopServer \/ RecordCheck
  <2>1. checks' \subseteq Int /\ served' \subseteq Int
    <3>1. day \in Int /\ checks \subseteq Int /\ served \subseteq Int
      BY DEF UptimeTypeOK
    <3>2. checks' \subseteq checks \cup {day} /\ served' \subseteq served \cup {day}
      BY <1>3 DEF StopServer, RecordCheck
    <3>3. QED BY <3>1, <3>2
  <2>2. report' \in {NoReport} \cup Reports /\ running' \in BOOLEAN
    BY <1>3 DEF StopServer, RecordCheck, UptimeTypeOK
  <2>3. UNCHANGED <<day, hour, untilClean, swept>>
    BY <1>3 DEF StopServer, RecordCheck
  <2>4. QED BY <2>1, <2>2, <2>3 DEF UptimeTypeOK
<1>4. CASE PassHour
  BY <1>4 DEF PassHour, UptimeTypeOK
<1>5. CASE SummaryQuery \/ SummaryCut
  <2>1. PICK some \in SUBSET Int, fault \in BOOLEAN :
             report' = [pc |-> "dates", asked |-> day, before |-> served, counted |-> some,
                        i |-> 0, until |-> day, entries |-> {}, faulty |-> fault]
    BY <1>5 DEF SummaryQuery, SummaryCut, Counted, UptimeTypeOK
  <2>2. report' \in Reports
    BY <2>1 DEF UptimeTypeOK, Reports
  <2>3. QED BY <1>5, <2>2 DEF SummaryQuery, SummaryCut, UptimeTypeOK
<1>6. CASE LookUpDate \/ DateFails
  <2>1. PICK entry \in SUBSET [date : Int, known : BOOLEAN], fault \in BOOLEAN : LookedUp(entry, fault)
    <3>1. CASE LookUpDate
      <4>1. DateOf(report.i) \in Int
        BY <3>1, ReportKinds DEF LookUpDate, DateOf, Reports, UptimeTypeOK
      <4>2. {[date |-> DateOf(report.i), known |-> DateOf(report.i) \in report.counted]}
              \in SUBSET [date : Int, known : BOOLEAN]
        BY <4>1
      <4>3. QED BY <3>1, <4>2 DEF LookUpDate
    <3>2. CASE DateFails
      BY <3>2 DEF DateFails
    <3>3. QED BY <1>6, <3>1, <3>2
  <2>2. report' \in Reports
    BY <1>6, <2>1, LookedUpTo DEF LookUpDate, DateFails
  <2>3. QED BY <1>6, <2>2 DEF LookUpDate, DateFails, UptimeTypeOK
<1>7. CASE UNCHANGED uptimeVars
  BY <1>7 DEF uptimeVars, UptimeTypeOK
<1>8. QED BY <1>1, <1>2, <1>3, <1>4, <1>5, <1>6, <1>7 DEF UptimeNext

(* Nothing is deleted that a history could still count. *)
ChecksKept ==
  /\ checks \subseteq served
  /\ \A d \in served : d <= day /\ (d >= day - Keep => d \in checks)

EntryFor(j) == [date  |-> report.asked - (Shown - 1 - j),
                known |-> report.asked - (Shown - 1 - j) \in report.counted]
ReportDated ==
  report.asked <= report.until /\ report.until <= day
ReportCounts ==
  \A d \in report.before : d <= report.asked /\ (d >= report.asked - Shown => d \in report.counted)
ReportEntries ==
  /\ report.pc = "dates" => report.i < Shown
  /\ report.pc = "done" => report.i = Shown
  /\ \A e \in report.entries : e.date > report.asked - Shown /\ (e.known <=> e.date \in report.counted)
  /\ report.until = report.asked => \A j \in 0..(report.i - 1) : EntryFor(j) \in report.entries
ReportGood ==
  report.pc # "none" => ReportDated /\ (~report.faulty => ReportCounts /\ ReportEntries)

LEMMA HistoryStart == UptimeInit => UptimeTypeOK /\ ChecksKept /\ ReportGood
<1> SUFFICES ASSUME UptimeInit PROVE UptimeTypeOK /\ ChecksKept /\ ReportGood
  OBVIOUS
<1>1. UptimeTypeOK
  <2>1. 0 \in 0..(Hours - 1) /\ Hours \in 0..Hours
    BY UptimeAssumption
  <2>2. report \in {NoReport} \cup Reports
    BY DEF UptimeInit
  <2>3. QED BY <2>1, <2>2 DEF UptimeInit, UptimeTypeOK
<1>2. ChecksKept
  BY DEF UptimeInit, ChecksKept
<1>3. ReportGood
  BY DEF UptimeInit, ReportGood, NoReport
<1>4. QED BY <1>1, <1>2, <1>3

LEMMA ChecksStay == UptimeTypeOK /\ ChecksKept /\ [UptimeNext]_uptimeVars => ChecksKept'
<1> SUFFICES ASSUME UptimeTypeOK, ChecksKept, [UptimeNext]_uptimeVars PROVE ChecksKept'
  OBVIOUS
<1>t. day \in Nat /\ Keep \in Nat /\ checks \subseteq Int /\ served \subseteq Int
  BY UptimeAssumption DEF UptimeTypeOK
<1>1. ASSUME NEW fails \in BOOLEAN, StartTracker(fails) PROVE ChecksKept'
  BY <1>1, <1>t DEF StartTracker, ChecksKept
<1>2. ASSUME NEW fails \in BOOLEAN, Cleanup(fails) PROVE ChecksKept'
  <2>1. /\ checks' \subseteq checks /\ UNCHANGED <<day, served>>
        /\ \A d \in checks : d >= day - Keep => d \in checks'
    BY <1>2, <1>t DEF Cleanup, OldOnes
  <2>2. QED BY <2>1 DEF ChecksKept
<1>3. CASE RecordCheck
  BY <1>3, <1>t DEF RecordCheck, ChecksKept
<1>4. CASE PassHour
  BY <1>4, <1>t DEF PassHour, ChecksKept
<1>5. CASE StopServer \/ SummaryQuery \/ SummaryCut \/ LookUpDate \/ DateFails \/ UNCHANGED uptimeVars
  BY <1>5 DEF StopServer, SummaryQuery, SummaryCut, LookUpDate, DateFails, uptimeVars, ChecksKept
<1>6. QED BY <1>1, <1>2, <1>3, <1>4, <1>5 DEF UptimeNext

LEMMA ReportsStay ==
  UptimeTypeOK /\ ChecksKept /\ ReportGood /\ [UptimeNext]_uptimeVars => ReportGood'
<1> SUFFICES ASSUME UptimeTypeOK, ChecksKept, ReportGood, [UptimeNext]_uptimeVars PROVE ReportGood'
  OBVIOUS
<1>t. /\ day \in Nat /\ Keep \in Nat /\ Shown \in Nat /\ Shown > 0 /\ Keep >= Shown
      /\ checks \subseteq Int /\ served \subseteq Int
  BY UptimeAssumption DEF UptimeTypeOK
<1>1. CASE UNCHANGED report /\ (day' = day \/ day' = day + 1)
  <2>1. report.pc # "none" => report.asked \in Int /\ report.until \in Int
    BY ReportKinds DEF Reports
  <2>2. UNCHANGED <<report.pc, report.faulty>> /\ (ReportCounts => ReportCounts')
        /\ (ReportEntries => ReportEntries')
    BY <1>1 DEF ReportCounts, ReportEntries, EntryFor
  <2>3. report.pc # "none" /\ ReportDated => ReportDated'
    BY <1>1, <1>t, <2>1 DEF ReportDated
  <2>4. QED BY <2>2, <2>3 DEF ReportGood
<1>2. ASSUME NEW fails \in BOOLEAN, StartTracker(fails) \/ Cleanup(fails) PROVE ReportGood'
  BY <1>1, <1>2 DEF StartTracker, Cleanup
<1>3. CASE RecordCheck \/ PassHour \/ UNCHANGED uptimeVars
  BY <1>1, <1>3 DEF RecordCheck, PassHour, uptimeVars
<1>4. CASE StopServer
  BY <1>4 DEF StopServer, NoReport, ReportGood
<1>5. CASE SummaryQuery
  <2>1. report' = [pc |-> "dates", asked |-> day, before |-> served, counted |-> Counted(day),
                   i |-> 0, until |-> day, entries |-> {}, faulty |-> FALSE]
        /\ day' = day
    BY <1>5 DEF SummaryQuery
  <2>2. \A d \in served : d <= day /\ (d >= day - Shown => d \in Counted(day))
    BY <1>t DEF ChecksKept, Counted
  <2>3. ReportCounts'
    BY <2>1, <2>2 DEF ReportCounts
  <2>4. ReportEntries'
    BY <2>1, <1>t DEF ReportEntries
  <2>5. ReportDated'
    BY <2>1, <1>t DEF ReportDated
  <2>6. QED BY <2>3, <2>4, <2>5 DEF ReportGood
<1>6. CASE SummaryCut
  BY <1>6, <1>t DEF SummaryCut, ReportGood, ReportDated
<1>7. CASE DateFails
  <2>1. /\ LookedUp({}, TRUE) /\ report.pc = "dates" /\ day' = day
    BY <1>7 DEF DateFails
  <2>2. report'.faulty /\ report'.until = day /\ report'.asked = report.asked
    BY <2>1, LookedUpTo
  <2>3. report \in Reports
    BY <2>1, ReportKinds
  <2>4. report.asked <= day
    BY <2>1, <2>3, <1>t DEF ReportGood, ReportDated, Reports
  <2>5. QED BY <2>1, <2>2, <2>4, <1>t DEF ReportGood, ReportDated
<1>8. CASE LookUpDate
  <2> DEFINE date == DateOf(report.i)
             entry == [date |-> date, known |-> date \in report.counted]
  <2>1. LookedUp({entry}, FALSE) /\ report.pc = "dates" /\ day' = day
    BY <1>8 DEF LookUpDate
  <2>2. report \in Reports
    BY <2>1, ReportKinds
  <2>3. /\ report.asked \in Int /\ report.until \in Int /\ report.i \in Nat
        /\ report.faulty \in BOOLEAN /\ report.counted \subseteq Int
    BY <2>2 DEF Reports
  <2>4. report.asked <= report.until /\ report.until <= day
    BY <2>1 DEF ReportGood, ReportDated
  <2>5. date \in Int /\ date = day - (Shown - 1 - report.i)
    BY <1>t, <2>3 DEF DateOf
  <2>6. {entry} \in SUBSET [date : Int, known : BOOLEAN]
    BY <2>5
  <2> HIDE DEF date, entry
  <2>7. /\ report'.asked = report.asked /\ report'.before = report.before
        /\ report'.counted = report.counted
        /\ report'.pc = IF report.i + 1 = Shown THEN "done" ELSE "dates"
        /\ report'.i = report.i + 1 /\ report'.until = day
        /\ report'.entries = report.entries \cup {entry}
        /\ report'.faulty = (report.faulty \/ FALSE)
    BY <2>1, <2>6, LookedUpTo
  <2>8. ReportDated'
    BY <1>t, <2>1, <2>3, <2>4, <2>7 DEF ReportDated
  <2>9. ASSUME ~report.faulty PROVE ReportCounts' /\ ReportEntries'
    <3>1. ReportCounts /\ ReportEntries
      BY <2>1, <2>9 DEF ReportGood
    <3>2. ReportCounts'
      BY <2>7, <3>1 DEF ReportCounts
    <3>3. report.i < Shown
      BY <2>1, <3>1 DEF ReportEntries
    <3>4. /\ report'.pc = "dates" => report'.i < Shown
          /\ report'.pc = "done" => report'.i = Shown
      BY <1>t, <2>3, <2>7, <3>3
    <3>5. date > report.asked - Shown
      BY <1>t, <2>3, <2>4, <2>5
    <3>6. entry.date = date /\ entry.known = (date \in report.counted)
      BY DEF entry
    <3>7. \A e \in report'.entries :
            e.date > report'.asked - Shown /\ (e.known <=> e.date \in report'.counted)
      BY <2>7, <3>1, <3>5, <3>6 DEF ReportEntries
    <3>8. ASSUME report'.until = report'.asked
          PROVE  \A j \in 0..(report'.i - 1) : EntryFor(j)' \in report'.entries
      <4>1. report.until = report.asked /\ day = report.asked
        BY <1>t, <2>3, <2>4, <2>7, <3>8
      <4>2. \A j \in 0..(report.i - 1) : EntryFor(j) \in report.entries
        BY <3>1, <4>1 DEF ReportEntries
      <4>3. EntryFor(report.i) = entry
        BY <2>5, <4>1 DEF EntryFor, entry
      <4>4. \A j \in 0..report.i : EntryFor(j) \in report.entries \cup {entry}
        BY <2>3, <4>2, <4>3
      <4>5. report'.i - 1 = report.i
        BY <2>3, <2>7
      <4>6. QED BY <2>7, <4>4, <4>5 DEF EntryFor
    <3>9. QED BY <3>2, <3>4, <3>7, <3>8 DEF ReportEntries
  <2>10. report'.faulty = report.faulty
    BY <2>3, <2>7
  <2>11. QED BY <2>8, <2>9, <2>10 DEF ReportGood
<1>9. QED BY <1>2, <1>3, <1>4, <1>5, <1>6, <1>7, <1>8 DEF UptimeNext

LEMMA GoodReportsAreHonest == UptimeTypeOK /\ ReportGood => HistoryIsHonest
<1> SUFFICES ASSUME UptimeTypeOK, ReportGood, report.pc \in {"dates", "done"}, ~report.faulty
             PROVE  /\ \A e \in report.entries : e.known \/ e.date \notin report.before
                    /\ report.pc = "done" /\ report.until = report.asked =>
                         \A d \in report.before : d > report.asked - Shown =>
                           [date |-> d, known |-> TRUE] \in report.entries
  BY DEF HistoryIsHonest
<1>1. ReportCounts /\ ReportEntries
  BY DEF ReportGood
<1>2. /\ report.asked \in Int /\ report.before \subseteq Int /\ Shown \in Nat
      /\ report.entries \subseteq [date : Int, known : BOOLEAN]
  BY ReportKinds, UptimeAssumption DEF Reports
<1>3. ASSUME NEW e \in report.entries, e.date \in report.before PROVE e.known
  <2>1. e.date > report.asked - Shown /\ (e.known <=> e.date \in report.counted)
    BY <1>1 DEF ReportEntries
  <2>2. e.date \in report.counted
    BY <1>1, <1>2, <1>3, <2>1 DEF ReportCounts
  <2>3. QED BY <2>1, <2>2
<1>4. ASSUME report.pc = "done", report.until = report.asked,
             NEW d \in report.before, d > report.asked - Shown
      PROVE  [date |-> d, known |-> TRUE] \in report.entries
  <2>1. d <= report.asked /\ d \in report.counted
    BY <1>1, <1>2, <1>4 DEF ReportCounts
  <2>2. PICK j \in 0..(Shown - 1) : report.asked - (Shown - 1 - j) = d
    <3>1. d - report.asked + Shown - 1 \in 0..(Shown - 1)
      BY <1>2, <1>4, <2>1
    <3>2. report.asked - (Shown - 1 - (d - report.asked + Shown - 1)) = d
      BY <1>2
    <3>3. QED BY <3>1, <3>2
  <2>3. EntryFor(j) \in report.entries
    BY <1>1, <1>4, <2>2 DEF ReportEntries
  <2>4. EntryFor(j) = [date |-> d, known |-> TRUE]
    <3>1. (report.asked - (Shown - 1 - j) \in report.counted) = TRUE
      BY <2>1, <2>2
    <3>2. QED BY <2>2, <3>1 DEF EntryFor
  <2>5. QED BY <2>3, <2>4
<1>5. QED BY <1>3, <1>4

(* A history is right about each day it shows (store/uptime.go:27-100). *)
THEOREM HonestHistory == UptimeSpec => []HistoryIsHonest
BY HistoryStart, UptimeTypes, ChecksStay, ReportsStay, GoodReportsAreHonest, PTL DEF UptimeSpec

(* The days that may lie behind the cleanup's limit: one, once midnight    *)
(* has passed since the cleanup.                                           *)
Slack == IF hour >= Hours - untilClean THEN 0 ELSE 1
SweptDays == running /\ swept = "done" => \A d \in checks : d >= day - Keep - Slack

LEMMA SweptStay == UptimeTypeOK /\ SweptDays /\ [UptimeNext]_uptimeVars => SweptDays'
<1> SUFFICES ASSUME UptimeTypeOK, SweptDays, [UptimeNext]_uptimeVars PROVE SweptDays'
  OBVIOUS
<1>t. /\ day \in Nat /\ Keep \in Nat /\ Hours \in Nat /\ Hours > 0 /\ checks \subseteq Int
      /\ hour \in 0..(Hours - 1) /\ untilClean \in 0..Hours
  BY UptimeAssumption DEF UptimeTypeOK
<1>1. ASSUME NEW fails \in BOOLEAN, StartTracker(fails) PROVE SweptDays'
  BY <1>1 DEF StartTracker, SweptDays
<1>2. ASSUME NEW fails \in BOOLEAN, Cleanup(fails) PROVE SweptDays'
  BY <1>2, <1>t DEF Cleanup, OldOnes, SweptDays, Slack
<1>3. CASE RecordCheck
  BY <1>3, <1>t DEF RecordCheck, SweptDays, Slack
<1>4. CASE PassHour
  <2>1. ASSUME running, swept = "done", NEW d \in checks PROVE d >= day' - Keep - Slack'
    BY <1>4, <1>t, <2>1 DEF PassHour, SweptDays, Slack
  <2>2. QED BY <1>4, <2>1 DEF PassHour, SweptDays
<1>5. CASE StopServer
  BY <1>5 DEF StopServer, SweptDays
<1>6. CASE SummaryQuery \/ SummaryCut \/ LookUpDate \/ DateFails \/ UNCHANGED uptimeVars
  BY <1>6 DEF SummaryQuery, SummaryCut, LookUpDate, DateFails, uptimeVars, SweptDays, Slack
<1>7. QED BY <1>1, <1>2, <1>3, <1>4, <1>5, <1>6 DEF UptimeNext

(* The cleanup keeps up for as long as the process runs                    *)
(* (handler/infra.go:64-68).                                               *)
THEOREM SweptHistory == UptimeSpec => []OldChecksGo
<1>1. UptimeInit => SweptDays
  BY DEF UptimeInit, SweptDays
<1>2. UptimeTypeOK /\ SweptDays => OldChecksGo
  BY UptimeAssumption DEF UptimeTypeOK, SweptDays, Slack, OldChecksGo
<1>3. QED BY <1>1, <1>2, HistoryStart, UptimeTypes, SweptStay, PTL DEF UptimeSpec

(***************************************************************************)
(* The live feed.                                                          *)
(***************************************************************************)
(* The page does not count beyond the retries it makes. *)
CountsDown == page.mode \in {"waiting", "streaming"} => page.failed < Retries
FeedKinds == FeedTypeOK /\ CountsDown

LEMMA FeedStay == FeedKinds /\ [FeedNext]_feedVars => FeedKinds'
<1> SUFFICES ASSUME FeedKinds, [FeedNext]_feedVars PROVE FeedKinds'
  OBVIOUS
<1> USE FeedAssumption
<1>1. ASSUME NEW s \in Streams,
             \/ ConnectSSE(s) \/ OnOpen(s) \/ OnMetrics(s)
             \/ BreakStream(s) \/ AcceptStream(s) \/ TickStream(s) \/ EndStream(s)
      PROVE  FeedKinds'
  BY <1>1 DEF FeedKinds, FeedTypeOK, CountsDown, ConnectSSE, OnOpen, OnMetrics, BreakStream,
       AcceptStream, TickStream, EndStream, SetClient, Modes, Ends, server, pollVars, streams
<1>2. ASSUME NEW s \in Streams, OnError(s) PROVE FeedKinds'
  BY <1>2 DEF FeedKinds, FeedTypeOK, CountsDown, OnError, SetClient, Modes, Ends, server, pollVars
<1>3. ASSUME NEW p \in Polls,
             \/ FallbackFetch(p) \/ OnAnswer(p) \/ OnFailure(p)
             \/ LosePoll(p) \/ AcceptPoll(p) \/ AnswerPoll(p)
      PROVE  FeedKinds'
  BY <1>3 DEF FeedKinds, FeedTypeOK, CountsDown, FallbackFetch, OnAnswer, OnFailure, LosePoll,
       AcceptPoll, AnswerPoll, SetPoll, PollStates, server, streams
<1>4. CASE Leave
  BY <1>4 DEF FeedKinds, FeedTypeOK, CountsDown, Leave, Modes, Ends, server, pollVars
<1>5. CASE StartServer \/ Sigterm
  BY <1>5 DEF FeedKinds, FeedTypeOK, CountsDown, StartServer, Sigterm, streams, pollVars
<1>6. CASE Exit
  BY <1>6 DEF FeedKinds, FeedTypeOK, CountsDown, Exit, Ends, PollStates
<1>7. CASE UNCHANGED feedVars
  BY <1>7 DEF FeedKinds, FeedTypeOK, CountsDown, feedVars, server, streams, pollVars
<1>8. QED BY <1>1, <1>2, <1>3, <1>4, <1>5, <1>6, <1>7
      DEF FeedNext, Crash, ShutdownDone, ShutdownTimeout

(* The feed's state is well formed: in particular the page never shows a   *)
(* process that has not been started yet (islands/InfraLive.tsx:49-119).   *)
THEOREM FeedTyped == FeedSpec => []FeedTypeOK
<1>1. FeedInit => FeedKinds
  BY FeedAssumption DEF FeedInit, FeedBegins, FeedKinds, FeedTypeOK, CountsDown, Modes, Ends, PollStates
<1>2. FeedKinds => FeedTypeOK
  BY DEF FeedKinds
<1>3. QED BY <1>1, <1>2, FeedStay, PTL DEF FeedSpec
-----------------------------------------------------------------------------
(* The page has one source at a time.                                      *)
OneSource ==
  /\ \A s \in Streams : client[s] # "closed" => page.mode = "streaming"
  /\ \A s, t \in Streams : client[s] # "closed" /\ client[t] # "closed" => s = t
  /\ \A p \in Polls : poll[p] # "none" => page.mode \in {"polling", "gone"}

LEMMA SourceStays == OneSource /\ FeedTypeOK /\ [FeedNext]_feedVars => OneSource'
<1> SUFFICES ASSUME OneSource, FeedTypeOK, [FeedNext]_feedVars PROVE OneSource'
  OBVIOUS
<1>1. ASSUME NEW s \in Streams, ConnectSSE(s) \/ OnOpen(s) \/ OnError(s) PROVE OneSource'
  BY <1>1 DEF OneSource, FeedTypeOK, ConnectSSE, OnOpen, OnError, SetClient, pollVars
<1>2. ASSUME NEW s \in Streams,
             OnMetrics(s) \/ BreakStream(s) \/ AcceptStream(s) \/ TickStream(s) \/ EndStream(s)
      PROVE  OneSource'
  BY <1>2 DEF OneSource, FeedTypeOK, OnMetrics, BreakStream, AcceptStream, TickStream, EndStream,
              SetClient, pollVars
<1>3. ASSUME NEW p \in Polls,
             \/ FallbackFetch(p) \/ OnAnswer(p) \/ OnFailure(p)
             \/ LosePoll(p) \/ AcceptPoll(p) \/ AnswerPoll(p)
      PROVE  OneSource'
  BY <1>3 DEF OneSource, FeedTypeOK, FallbackFetch, OnAnswer, OnFailure, LosePoll, AcceptPoll,
              AnswerPoll, SetPoll, streams
<1>4. CASE Leave
  BY <1>4 DEF OneSource, FeedTypeOK, Leave, Modes, pollVars
<1>5. CASE StartServer \/ Sigterm \/ UNCHANGED feedVars
  BY <1>5 DEF OneSource, StartServer, Sigterm, feedVars, streams, pollVars
<1>6. CASE Exit
  BY <1>6 DEF OneSource, FeedTypeOK, Exit
<1>7. QED BY <1>1, <1>2, <1>3, <1>4, <1>5, <1>6
          DEF FeedNext, Crash, ShutdownDone, ShutdownTimeout

(* Through every reconnect, crash and late answer the page never holds two *)
(* streams, none while it waits or polls, and has no poll on its way until *)
(* it has given up streaming: events and answers to polls do not compete   *)
(* for what it shows (islands/InfraLive.tsx:62-105).                       *)
THEOREM OneSourceAtATime == FeedSpec => []OneSource
<1>1. FeedInit => OneSource
  BY DEF FeedInit, FeedBegins, OneSource
<1>2. QED BY <1>1, FeedTyped, SourceStays, PTL DEF FeedSpec
=============================================================================
