------------------------------ MODULE Listing ------------------------------
(***************************************************************************)
(* The paged lists of builds and the walk that reads a whole list.  A page *)
(* takes a COUNT and a SELECT of its own, with no transaction around them, *)
(* and the next page is asked for by offset: the list may change under the *)
(* walk anywhere.  It changes through the handlers that write builds, of   *)
(* which only what moves a build in a list is kept: a writer reads the     *)
(* clock first and its statement lands later, so writes may land in        *)
(* another order than their time stamps say.                               *)
(*                                                                         *)
(* A list is filtered by a status, by a technology, or not at all (the     *)
(* filter by builder selects a part that nothing enters or leaves but by   *)
(* creation and deletion, like the whole list).  Time stamps have          *)
(* nanoseconds and are taken to differ.                                    *)
(***************************************************************************)
EXTENDS Integers, FiniteSets

CONSTANTS
  BuildIds,     \* the builds there may ever be; ids are not used again
  Statuses,
  Writers,      \* requests that write builds
  Clamp,        \* the longest page the store reads
  Limits,       \* the page lengths that are asked for
  Absent,       \* no row has this id
  Whole,        \* the list without a filter
  Tech,         \* the filter: builds linked to the technology asked about
  MaxStamp,     \* bound on the time stamps
  Faults        \* statements may fail and results may be cut short

Filters == Statuses \cup {Whole, Tech}
Sorts == {"updated", "created"}
Stamps == 0..MaxStamp
Rows == [created : Stamps, updated : Stamps, status : Statuses]

ASSUME IdAssumption == IsFiniteSet(BuildIds)
ASSUME PageAssumption == Clamp \in Nat \ {0} /\ Limits \subseteq Nat \ {0}
ASSUME BoundAssumption ==
  MaxStamp \in Nat /\ Cardinality(BuildIds) <= MaxStamp /\ Faults \in BOOLEAN
ASSUME DistinctAssumption == Absent \notin Rows /\ Whole # Tech /\ {Whole, Tech} \cap Statuses = {}

VARIABLES
  clock,     \* the time stamp handed out last
  rows,      \* table builds
  unused,    \* the ids that no row ever had
  linked,    \* the builds with a row in build_technologies for the technology
  writer,    \* what each writer is about to do
  walk,      \* the walk: the request it is in and the answers so far
  untouched, \* history: the builds in the list when the walk began that nobody wrote since
  events     \* history: what happened to the list since then

tables == <<rows, unused, linked>>
vars == <<clock, tables, writer, walk, untouched, events>>

Kinds == {"insert", "edit"}
Idle == [pc |-> "idle"]
Pending == [pc : {"write"}, kind : Kinds, build : BuildIds, at : Stamps,
            status : Statuses, sync : BOOLEAN, link : BOOLEAN]
Syncing == [pc : {"unlink", "link"}, build : BuildIds, link : BOOLEAN]
Walking == [pc : {"count", "select", "answer", "end"}, filter : Filters, sort : Sorts,
            limit : Limits, offset : Nat, total : Nat, page : SUBSET BuildIds,
            seen : SUBSET BuildIds, twice : SUBSET BuildIds]

(***************************************************************************)
(* The list a walk reads: the rows that pass the filter, by falling stamp. *)
(***************************************************************************)
Listed(f) == {b \in BuildIds : /\ rows[b] # Absent
                               /\ f = Tech => b \in linked
                               /\ f \in Statuses => rows[b].status = f}
Key(s, b) == IF s = "created" THEN rows[b].created ELSE rows[b].updated
Ahead(f, s, b) == {c \in Listed(f) : Key(s, c) > Key(s, b)}
Rank(f, s, b) == Cardinality(Ahead(f, s, b))

(* The page that starts at an offset: the store clamps its length.
   LongPage is a mutant: it ends one row too late. *)
PageLength(limit) == IF limit > Clamp THEN Clamp ELSE limit
LongPage(f, s, offset, limit) ==
  {b \in Listed(f) : Rank(f, s, b) \in offset..(offset + PageLength(limit))}
Page(f, s, offset, limit) ==
  {b \in Listed(f) : Rank(f, s, b) \in offset..(offset + PageLength(limit) - 1)}

(* What the handler answers: there is more behind the length asked for.
   HasAnother is a mutant: the last build is not more. *)
HasAnother(w) == w.offset + w.limit + 1 < w.total
HasMore(w) == w.offset + w.limit < w.total

List == Listed(walk.filter)
Ongoing == walk.pc \in {"count", "select", "answer"}

Init ==
  /\ clock = Cardinality(BuildIds)
  /\ \E stamp \in [BuildIds -> 1..clock], kept \in SUBSET BuildIds, st \in [BuildIds -> Statuses] :
       /\ \A b, c \in BuildIds : stamp[b] = stamp[c] => b = c
       /\ rows = [b \in BuildIds |->
                    IF b \in kept
                      THEN [created |-> stamp[b], updated |-> stamp[b], status |-> st[b]]
                      ELSE Absent]
       /\ unused = BuildIds \ kept
       /\ linked \in SUBSET kept
  /\ writer = [w \in Writers |-> Idle]
  /\ walk = Idle
  /\ untouched = {}
  /\ events = {}

(* What a step did to the list that is being walked.  A build left it, or  *)
(* one came in or moved up; an edit put a build back behind its old place; *)
(* the list grew after the COUNT of the page whose SELECT is to come.      *)
Left == List \ List' # {}
Entered == List' \ List # {}
Moved(b) == b \in List \cap List' /\ Key(walk.sort, b)' # Key(walk.sort, b)
SetBack(b) == Moved(b) /\ Key(walk.sort, b)' < Key(walk.sort, b)
Happened == (IF Left THEN {"left"} ELSE {})
       \cup (IF Entered \/ \E b \in BuildIds : Moved(b) THEN {"rose"} ELSE {})
       \cup (IF \E b \in BuildIds : SetBack(b) THEN {"late"} ELSE {})
       \cup (IF Entered /\ walk.pc = "select" THEN {"grew"} ELSE {})

Note(b) ==
  /\ UNCHANGED walk
  /\ events' = IF Ongoing THEN events \cup Happened ELSE events
  /\ untouched' = untouched \ {b}
Reading == UNCHANGED <<clock, tables, writer>>

(***************************************************************************)
(* The writers.                                                            *)
(***************************************************************************)
(* Create, Update, CreateUpdate and UpdateCoverImage read the clock before *)
(* they write.  An edit with no technologies in its body leaves the links  *)
(* alone; creation always sets them.                                       *)
Stamp(w, kind, b, st, sync, link) ==
  /\ writer[w] = Idle
  /\ clock < MaxStamp
  /\ clock' = clock + 1
  /\ kind = "insert" => b \in unused /\ sync
  /\ kind = "edit" => b \notin unused
  /\ writer' = [writer EXCEPT ![w] = [pc |-> "write", kind |-> kind, build |-> b, at |-> clock + 1,
                                      status |-> st, sync |-> sync, link |-> link]]
  /\ UNCHANGED <<tables, walk, untouched, events>>

(* An edit of nothing but the technologies has no time stamp. *)
EditLinks(w, b, link) ==
  /\ writer[w] = Idle
  /\ b \notin unused
  /\ writer' = [writer EXCEPT ![w] = [pc |-> "unlink", build |-> b, link |-> link]]
  /\ UNCHANGED <<clock, tables, walk, untouched, events>>

Synced(o) == IF o.sync THEN [pc |-> "unlink", build |-> o.build, link |-> o.link] ELSE Idle

InsertRow(w) ==
  LET o == writer[w] IN
  /\ o.pc = "write" /\ o.kind = "insert"
  /\ o.build \in unused
  /\ unused' = unused \ {o.build}
  /\ rows' = [rows EXCEPT ![o.build] = [created |-> o.at, updated |-> o.at, status |-> o.status]]
  /\ writer' = [writer EXCEPT ![w] = Synced(o)]
  /\ UNCHANGED <<clock, linked>>
  /\ Note(o.build)

UpdateRow(w) ==
  LET o == writer[w] IN
  /\ o.pc = "write" /\ o.kind = "edit"
  /\ rows' = IF rows[o.build] = Absent THEN rows
             ELSE [rows EXCEPT ![o.build].updated = o.at, ![o.build].status = o.status]
  /\ writer' = [writer EXCEPT ![w] = Synced(o)]
  /\ UNCHANGED <<clock, unused, linked>>
  /\ Note(o.build)

(* syncTechnologies removes all links of the build, then inserts the new. *)
ClearLinks(w) ==
  LET o == writer[w] IN
  /\ o.pc = "unlink"
  /\ linked' = linked \ {o.build}
  /\ writer' = [writer EXCEPT ![w] = IF o.link THEN [o EXCEPT !.pc = "link"] ELSE Idle]
  /\ UNCHANGED <<clock, rows, unused>>
  /\ Note(o.build)

InsertLink(w) ==
  LET o == writer[w] IN
  /\ o.pc = "link"
  /\ linked' = IF rows[o.build] = Absent THEN linked ELSE linked \cup {o.build}
  /\ writer' = [writer EXCEPT ![w] = Idle]
  /\ UNCHANGED <<clock, rows, unused>>
  /\ Note(o.build)

WriteFails(w) ==
  /\ Faults
  /\ writer[w] # Idle
  /\ writer' = [writer EXCEPT ![w] = Idle]
  /\ UNCHANGED <<clock, tables, walk, untouched, events>>

DeleteBuild(b) ==
  /\ rows[b] # Absent
  /\ rows' = [rows EXCEPT ![b] = Absent]
  /\ linked' = linked \ {b}
  /\ UNCHANGED <<clock, unused, writer>>
  /\ Note(b)

(***************************************************************************)
(* The walk.                                                               *)
(***************************************************************************)
StartWalk(f, s, limit) ==
  /\ ~Ongoing
  /\ walk' = [pc |-> "count", filter |-> f, sort |-> s, limit |-> limit, offset |-> 0,
              total |-> 0, page |-> {}, seen |-> {}, twice |-> {}]
  /\ untouched' = Listed(f)
  /\ events' = {}
  /\ Reading

Count ==
  /\ walk.pc = "count"
  /\ walk' = [walk EXCEPT !.pc = "select", !.total = Cardinality(List)]
  /\ Reading /\ UNCHANGED <<untouched, events>>

SelectPage ==
  /\ walk.pc = "select"
  /\ walk' = [walk EXCEPT !.pc = "answer",
                          !.page = Page(walk.filter, walk.sort, walk.offset, walk.limit)]
  /\ Reading /\ UNCHANGED <<untouched, events>>

(* The loop over the rows ends at an error as it does at the last row, and *)
(* the page goes out short, with status 200.                               *)
SelectCut ==
  /\ Faults
  /\ walk.pc = "select"
  /\ \E n \in 0..Cardinality(BuildIds) :
       walk' = [walk EXCEPT !.pc = "answer",
                  !.page = {b \in Page(walk.filter, walk.sort, walk.offset, walk.limit) :
                              Rank(walk.filter, walk.sort, b) < n}]
  /\ events' = events \cup {"fault"}
  /\ Reading /\ UNCHANGED untouched

(* The walk asks for the next page unless this one is empty or the last. *)
GoesOn(w) == w.page # {} /\ HasMore(w)
NextOffset(w) == w.offset + w.limit
Answer ==
  /\ walk.pc = "answer"
  /\ walk' = [walk EXCEPT !.pc = IF GoesOn(walk) THEN "count" ELSE "end",
                          !.offset = IF GoesOn(walk) THEN NextOffset(walk) ELSE walk.offset,
                          !.page = {},
                          !.seen = walk.seen \cup walk.page,
                          !.twice = walk.twice \cup (walk.seen \cap walk.page)]
  /\ Reading /\ UNCHANGED <<untouched, events>>

(* Any of the statements fails: the answer is a 500, which ends the walk. *)
PageFails ==
  /\ Faults
  /\ Ongoing
  /\ walk' = [walk EXCEPT !.pc = "end"]
  /\ events' = events \cup {"fault"}
  /\ Reading /\ UNCHANGED untouched

Next ==
  \/ \E w \in Writers :
       \/ \E kind \in Kinds, b \in BuildIds, st \in Statuses, sync, link \in BOOLEAN :
            Stamp(w, kind, b, st, sync, link)
       \/ \E b \in BuildIds, link \in BOOLEAN : EditLinks(w, b, link)
       \/ InsertRow(w) \/ UpdateRow(w) \/ ClearLinks(w) \/ InsertLink(w) \/ WriteFails(w)
  \/ \E b \in BuildIds : DeleteBuild(b)
  \/ \E f \in Filters, s \in Sorts, limit \in Limits : StartWalk(f, s, limit)
  \/ Count \/ SelectPage \/ SelectCut \/ Answer \/ PageFails

Spec == Init /\ [][Next]_vars

(***************************************************************************)
(* Properties.                                                             *)
(***************************************************************************)
TypeOK ==
  /\ clock \in Stamps
  /\ rows \in [BuildIds -> Rows \cup {Absent}]
  /\ unused \subseteq BuildIds
  /\ linked \subseteq BuildIds
  /\ writer \in [Writers -> {Idle} \cup Pending \cup Syncing]
  /\ walk \in {Idle} \cup Walking
  /\ untouched \subseteq BuildIds
  /\ events \subseteq {"left", "rose", "late", "grew", "fault"}

(* A walk that has ended, by pages no longer than the store reads, has     *)
(* listed every build that was in the list at its start and that nobody    *)
(* wrote since; only a build that leaves the list, an edit that lands      *)
(* after a later one of the same build, a list that grows between the      *)
(* COUNT and the SELECT of a page, and a failing statement can hide one    *)
(* (store/build.go:52-137, handler/build.go:51-57, lib/api.ts:233-245).  *)
OnlyLossHides ==
  walk.pc = "end" /\ walk.limit <= Clamp /\ events \cap {"left", "late", "grew", "fault"} = {}
    => untouched \subseteq walk.seen

(* A walk lists a build twice only if a build came into the list or moved  *)
(* up in it meanwhile: while builds are only deleted, or a page fails, the *)
(* pages do not overlap (store/build.go:70-87, lib/api.ts:237-243).      *)
OnlyMovesRepeat ==
  Ongoing \/ walk.pc = "end" => walk.twice = {} \/ "rose" \in events
=============================================================================
