------------------------------- MODULE Uptime -------------------------------
(***************************************************************************)
(* The uptime history: checks that the running server records, the daily   *)
(* cleanup, and the summary of the last days, which is one query over the  *)
(* checks and then one query for the date of each day to show, each with a *)
(* "now" of its own.                                                       *)
(*                                                                         *)
(* checked_at has a 'T' where datetime() has a blank, and they are         *)
(* compared as texts: on the day of the limit every check counts as later, *)
(* so only the days decide.  RecordCheck is only ever called with "ok":    *)
(* a day with a check is "up", one without is "unknown".                   *)
(***************************************************************************)
EXTENDS Integers, FiniteSets

CONSTANTS
  Hours,       \* the hours of a day, of which the cleanup ticker counts as many
  Shown,       \* days in the history
  Keep,        \* days that the cleanup keeps
  MaxDay       \* bound on the clock

ASSUME UptimeAssumption ==
  /\ Hours \in Nat \ {0} /\ Shown \in Nat \ {0}
  /\ Keep \in Nat /\ Keep >= Shown
  /\ MaxDay \in Nat

VARIABLES
  day, hour,   \* the time
  checks,      \* table uptime_checks: the days that have a check
  running,     \* the server process runs
  untilClean,  \* hours until the cleanup ticker fires
  swept,       \* history: what became of the last cleanup of this process
  report,      \* the summary that is being made, or the last one
  served       \* history: the days on which a check was recorded

uptimeVars == <<day, hour, checks, running, untilClean, swept, report, served>>

NoReport == [pc |-> "none"]
Reports == [pc : {"dates", "done"}, asked : Int, before : SUBSET Int, counted : SUBSET Int,
            i : Nat, until : Int, entries : SUBSET [date : Int, known : BOOLEAN], faulty : BOOLEAN]

UptimeInit ==
  /\ day = 0 /\ hour = 0
  /\ checks = {} /\ served = {}
  /\ running = FALSE
  /\ untilClean = Hours
  /\ swept = "no"
  /\ report = NoReport

(* The first check is recorded before the server listens.  Its error is    *)
(* ignored like that of the others.                                        *)
StartTracker(fails) ==
  /\ ~running
  /\ running' = TRUE
  /\ untilClean' = Hours /\ swept' = "no"
  /\ checks' = IF fails THEN checks ELSE checks \cup {day}
  /\ served' = IF fails THEN served ELSE served \cup {day}
  /\ UNCHANGED <<day, hour, report>>

StopServer ==
  /\ running
  /\ running' = FALSE
  /\ report' = NoReport
  /\ UNCHANGED <<day, hour, checks, untilClean, swept, served>>

RecordCheck ==
  /\ running
  /\ checks' = checks \cup {day}
  /\ served' = served \cup {day}
  /\ UNCHANGED <<day, hour, running, untilClean, swept, report>>

(* OldOnes is what the cleanup deletes.  EarlyOnes is a mutant: one day    *)
(* too few.                                                                *)
EarlyOnes(today) == {d \in checks : d < today - Keep - 1}
OldOnes(today) == {d \in checks : d < today - Keep}

Cleanup(fails) ==
  /\ running /\ untilClean = 0
  /\ checks' = IF fails THEN checks ELSE checks \ OldOnes(day)
  /\ swept' = IF fails THEN "failed" ELSE "done"
  /\ untilClean' = Hours
  /\ UNCHANGED <<day, hour, running, report, served>>

(* A ticker that is due fires before the next hour. *)
PassHour ==
  /\ running => untilClean > 0
  /\ hour' = IF hour = Hours - 1 THEN 0 ELSE hour + 1
  /\ day' = IF hour = Hours - 1 THEN day + 1 ELSE day
  /\ day' <= MaxDay
  /\ untilClean' = IF running THEN untilClean - 1 ELSE untilClean
  /\ UNCHANGED <<checks, running, swept, report, served>>

(***************************************************************************)
(* GetDailySummary.                                                        *)
(***************************************************************************)
Counted(today) == {d \in checks : d >= today - Shown}

SummaryQuery ==
  /\ running /\ report.pc \in {"none", "done"}
  /\ report' = [pc |-> "dates", asked |-> day, before |-> served, counted |-> Counted(day),
                i |-> 0, until |-> day, entries |-> {}, faulty |-> FALSE]
  /\ UNCHANGED <<day, hour, checks, running, untilClean, swept, served>>

(* The rows end early, which nobody notices. *)
SummaryCut ==
  /\ running /\ report.pc \in {"none", "done"}
  /\ \E some \in SUBSET Counted(day) :
       report' = [pc |-> "dates", asked |-> day, before |-> served, counted |-> some,
                  i |-> 0, until |-> day, entries |-> {}, faulty |-> TRUE]
  /\ UNCHANGED <<day, hour, checks, running, untilClean, swept, served>>

(* The date of the i-th day.  OffByOne is a mutant. *)
OffByOne(i) == day - (Shown - i)
DateOf(i) == day - (Shown - 1 - i)

LookedUp(entry, fault) ==
  report' = [report EXCEPT !.pc = IF report.i + 1 = Shown THEN "done" ELSE "dates",
                           !.i = report.i + 1,
                           !.until = day,
                           !.entries = report.entries \cup entry,
                           !.faulty = report.faulty \/ fault]

LookUpDate ==
  /\ report.pc = "dates"
  /\ LookedUp({[date |-> DateOf(report.i), known |-> DateOf(report.i) \in report.counted]}, FALSE)
  /\ UNCHANGED <<day, hour, checks, running, untilClean, swept, served>>

(* A date that cannot be had leaves a day without date and status. *)
DateFails ==
  /\ report.pc = "dates"
  /\ LookedUp({}, TRUE)
  /\ UNCHANGED <<day, hour, checks, running, untilClean, swept, served>>

UptimeNext ==
  \/ \E fails \in BOOLEAN : StartTracker(fails) \/ Cleanup(fails)
  \/ StopServer \/ RecordCheck \/ PassHour
  \/ SummaryQuery \/ SummaryCut \/ LookUpDate \/ DateFails

UptimeSpec == UptimeInit /\ [][UptimeNext]_uptimeVars

(***************************************************************************)
(* Properties.                                                             *)
(***************************************************************************)
UptimeTypeOK ==
  /\ day \in Nat /\ hour \in 0..(Hours - 1)
  /\ checks \subseteq Int /\ served \subseteq Int
  /\ running \in BOOLEAN
  /\ untilClean \in 0..Hours
  /\ swept \in {"no", "done", "failed"}
  /\ report \in {NoReport} \cup Reports

(* A history is right about the days it shows: a day is "unknown" only if  *)
(* nothing was recorded on it before the request, whatever was cleaned up  *)
(* since and though midnight may pass between two lookups; and unless it   *)
(* does, no day with a check is missing (store/uptime.go:27-100).          *)
HistoryIsHonest ==
  report.pc \in {"dates", "done"} /\ ~report.faulty =>
    /\ \A e \in report.entries : e.known \/ e.date \notin report.before
    /\ report.pc = "done" /\ report.until = report.asked =>
         \A d \in report.before : d > report.asked - Shown =>
           [date |-> d, known |-> TRUE] \in report.entries

(* A process whose last cleanup went well has no check older than the days *)
(* to keep and one more, for as long as it runs (handler/infra.go:64-68).  *)
OldChecksGo ==
  running /\ swept = "done" => \A d \in checks : d >= day - Keep - 1
=============================================================================
