------------------------------- MODULE Builds -------------------------------
(***************************************************************************)
(* The builds of a catalogue, as concurrent HTTP requests change them.     *)
(* Every write request is a Go routine that issues one SQL statement after *)
(* another; only Delete and the full-text index update run inside a        *)
(* transaction.  A request checks who owns the build once, with a read at  *)
(* its start, and acts on that answer later.                               *)
(*                                                                         *)
(* A statement is one action.  A request is accepted by an action that     *)
(* performs its first statement: a request that is refused there (400,     *)
(* 401, 403, 404) changes nothing and is not a step.  Texts stands for the *)
(* row's data columns, of which name and description are indexed.          *)
(*                                                                         *)
(* No foreign key is enforced.  The server opens its database with         *)
(* "_foreign_keys=ON" (database/db.go:20), which the driver it imports     *)
(* (modernc.org/sqlite, go.mod:9) does not read: that one takes            *)
(* _pragma=foreign_keys(1), and no statement of the program sets it.       *)
(***************************************************************************)
EXTENDS Integers, Sequences

CONSTANTS
  Requests,     \* the request slots of the server
  Builders,     \* the signed-in builders
  Texts,        \* values of a build's data columns
  NoText,       \* the body of a PUT has no data column
  Techs,        \* slugs of technologies, lower case and trimmed
  Blank,        \* what a slug of spaces is trimmed to
  Slugs,        \* slugs as clients write them
  Normalize,    \* strings.TrimSpace(strings.ToLower(slug))
  Payloads,     \* the "technologies" arrays a body may carry
  NoTechs,      \* the body has no "technologies"
  NoBuild,      \* no row has this id
  MaxBuilds,    \* bound on the builds ever inserted
  MaxUpdates,   \* bound on the build updates ever inserted
  Faults        \* a statement may fail (SQLITE_BUSY, disk full, ...)

BuildIds == 1..MaxBuilds
UpdateIds == 1..MaxUpdates
BuildRow == [owner : Builders, text : Texts]

ASSUME BoundsAssumption == MaxBuilds \in Nat /\ MaxUpdates \in Nat
ASSUME PayloadAssumption ==
  /\ Normalize \in [Slugs -> Techs \cup {Blank}]
  /\ Payloads \subseteq Seq(Slugs)
ASSUME DistinctAssumption ==
  /\ NoText \notin Texts /\ Blank \notin Techs
  /\ NoTechs \notin Payloads /\ NoBuild \notin BuildRow
ASSUME FlagAssumption == Faults \in BOOLEAN

VARIABLES
  builds,   \* table builds: id -> row, or NoBuild
  seq,      \* sqlite_sequence of builds: the largest id ever given
  techs,    \* table technologies: the slugs it has
  links,    \* table build_technologies
  updates,  \* table build_updates
  updSeq,   \* sqlite_sequence of build_updates
  index,    \* the FTS5 table search_index: for each build, its rows
  req       \* what each request is about to do

vars == <<builds, seq, techs, links, updates, updSeq, index, req>>

(* Statements a request can be about to issue. *)
Steps == {"write", "clear", "slug", "attach", "reread", "reindex",
          "remove", "unindex", "addUpdate", "dropUpdate"}

Request == [pc : Steps, caller : Builders, build : BuildIds,
            text : Texts \cup {NoText}, slugs : Payloads \cup {NoTechs},
            at : Nat, update : Nat]
Idle == [pc |-> "idle"]

Active(r) == req[r].pc # "idle"

Start(r, pc, who, b, text, slugs, u) ==
  req' = [req EXCEPT ![r] = [pc |-> pc, caller |-> who, build |-> b,
                             text |-> text, slugs |-> slugs,
                             at |-> 1, update |-> u]]
Goto(r, pc) == req' = [req EXCEPT ![r].pc = pc]
Answer(r) == req' = [req EXCEPT ![r] = Idle]

Init ==
  /\ builds = [b \in BuildIds |-> NoBuild]
  /\ seq = 0
  /\ techs = {}
  /\ links = {}
  /\ updates = {}
  /\ updSeq = 0
  /\ index = [b \in BuildIds |-> << >>]
  /\ req = [r \in Requests |-> Idle]

-----------------------------------------------------------------------------
Exists(b) == builds[b] # NoBuild
Owns(who, b) == Exists(b) /\ builds[b].owner = who

(* Mutant: INTEGER PRIMARY KEY without AUTOINCREMENT. *)
MaxLivePlusOne ==
  1 + (CHOOSE m \in 0..MaxBuilds :
         /\ m = 0 \/ Exists(m)
         /\ \A b \in BuildIds : Exists(b) => b <= m)

(* The id AUTOINCREMENT gives the next build: ids of deleted rows are not *)
(* given again.                                                           *)
NewBuildId == seq + 1

(* POST /builds: the request was decoded and validated; INSERT the row. *)
BeginCreate(r, who, text, slugs) ==
  /\ ~Active(r)
  /\ seq < MaxBuilds
  /\ builds' = [builds EXCEPT ![NewBuildId] = [owner |-> who, text |-> text]]
  /\ seq' = NewBuildId
  /\ Start(r, "clear", who, NewBuildId, NoText, slugs, 0)
  /\ UNCHANGED <<techs, links, updates, updSeq, index>>

(* PUT /builds/{id}: the row was read and belongs to the caller.  Without *)
(* data columns in the body the row is not written, and without           *)
(* "technologies" the links are left alone.                               *)
BeginUpdate(r, who, b, text, slugs) ==
  /\ ~Active(r)
  /\ Owns(who, b)
  /\ Start(r, CASE text # NoText -> "write"
                [] text = NoText /\ slugs # NoTechs -> "clear"
                [] OTHER -> "reread",
           who, b, text, slugs, 0)
  /\ UNCHANGED <<builds, seq, techs, links, updates, updSeq, index>>

(* UPDATE builds ... WHERE id: touches no row when the build is gone. *)
WriteRow(r) ==
  LET b == req[r].build IN
  /\ req[r].pc = "write"
  /\ IF Exists(b)
       THEN builds' = [builds EXCEPT ![b].text = req[r].text]
       ELSE UNCHANGED builds
  /\ req' = [req EXCEPT ![r].text = NoText,
            ![r].pc = IF req[r].slugs # NoTechs THEN "clear" ELSE "reread"]
  /\ UNCHANGED <<seq, techs, links, updates, updSeq, index>>

LinksOf(b) == {l \in links : l.build = b}
UpdatesOf(b) == {u \in updates : u.build = b}

(* syncTechnologies, a loop over the slugs without a transaction. *)
ToSlug(r, i) ==
  req' = [req EXCEPT ![r].at = i,
            ![r].pc = IF i > Len(req[r].slugs) THEN "reread" ELSE "slug"]
Slug(r) == Normalize[req[r].slugs[req[r].at]]

(* Mutant: the old links are not removed first. *)
KeepOldLinks(r) ==
  /\ req[r].pc = "clear"
  /\ ToSlug(r, 1)
  /\ UNCHANGED <<builds, seq, techs, links, updates, updSeq, index>>

ClearLinks(r) ==
  /\ req[r].pc = "clear"
  /\ links' = links \ LinksOf(req[r].build)
  /\ ToSlug(r, 1)
  /\ UNCHANGED <<builds, seq, techs, updates, updSeq, index>>

SkipBlank(r) ==
  /\ req[r].pc = "slug"
  /\ Slug(r) = Blank
  /\ ToSlug(r, req[r].at + 1)
  /\ UNCHANGED <<builds, seq, techs, links, updates, updSeq, index>>

(* INSERT ... ON CONFLICT(slug) DO NOTHING, then SELECT id: no statement *)
(* of the program deletes a technology, so the row is there.             *)
UpsertTech(r) ==
  /\ req[r].pc = "slug"
  /\ Slug(r) # Blank
  /\ techs' = techs \cup {Slug(r)}
  /\ Goto(r, "attach")
  /\ UNCHANGED <<builds, seq, links, updates, updSeq, index>>

(* PRIMARY KEY(build_id, technology_id).  That the build is still there is *)
(* not asked.                                                              *)
CanLink(l) == l \notin links

InsertLink(r) ==
  LET l == [build |-> req[r].build, tech |-> Slug(r)] IN
  /\ req[r].pc = "attach"
  /\ CanLink(l)
  /\ links' = links \cup {l}
  /\ ToSlug(r, req[r].at + 1)
  /\ UNCHANGED <<builds, seq, techs, updates, updSeq, index>>

(* Mutant: the failing INSERT is tried again for ever. *)
RetryLink(r) ==
  /\ req[r].pc = "attach"
  /\ ~CanLink([build |-> req[r].build, tech |-> Slug(r)])
  /\ Goto(r, "attach")
  /\ UNCHANGED <<builds, seq, techs, links, updates, updSeq, index>>

(* The primary key refuses the link: 500, the statements before it stay. *)
LinkRefused(r) ==
  /\ req[r].pc = "attach"
  /\ ~CanLink([build |-> req[r].build, tech |-> Slug(r)])
  /\ Answer(r)
  /\ UNCHANGED <<builds, seq, techs, links, updates, updSeq, index>>

(* The row is read again: this reading is what gets indexed. *)
Reread(r) ==
  /\ req[r].pc = "reread"
  /\ Exists(req[r].build)
  /\ req' = [req EXCEPT ![r].pc = "reindex",
                        ![r].text = builds[req[r].build].text]
  /\ UNCHANGED <<builds, seq, techs, links, updates, updSeq, index>>

(* GetByID found no row and returned (nil, nil): the handler dereferences *)
(* build.ID, panics, and net/http drops the connection.                   *)
NilDeref(r) ==
  /\ req[r].pc = "reread"
  /\ ~Exists(req[r].build)
  /\ Answer(r)
  /\ UNCHANGED <<builds, seq, techs, links, updates, updSeq, index>>

(* Mutant: InsertIndex in place of UpsertBuildIndex. *)
InsertOnly(r) ==
  /\ req[r].pc = "reindex"
  /\ index' = [index EXCEPT ![req[r].build] = Append(@, req[r].text)]
  /\ Answer(r)
  /\ UNCHANGED <<builds, seq, techs, links, updates, updSeq>>

(* UpsertBuildIndex: delete and insert in one transaction; then 200/201. *)
Reindex(r) ==
  /\ req[r].pc = "reindex"
  /\ index' = [index EXCEPT ![req[r].build] = <<req[r].text>>]
  /\ Answer(r)
  /\ UNCHANGED <<builds, seq, techs, links, updates, updSeq>>

-----------------------------------------------------------------------------
(* DELETE /builds/{id}: GetOwnerID answered with the caller. *)
BeginDelete(r, who, b) ==
  /\ ~Active(r)
  /\ Owns(who, b)
  /\ Start(r, "remove", who, b, NoText, NoTechs, 0)
  /\ UNCHANGED <<builds, seq, techs, links, updates, updSeq, index>>

(* The transaction of BuildStore.Delete: DELETE the links, the updates and *)
(* the row.  What is in stay was not deleted.                              *)
DeleteRows(r, stay) ==
  LET b == req[r].build IN
  /\ req[r].pc = "remove"
  /\ Exists(b)
  /\ links' = IF "links" \in stay THEN links ELSE links \ LinksOf(b)
  /\ updates' = IF "updates" \in stay THEN updates ELSE updates \ UpdatesOf(b)
  /\ builds' = [builds EXCEPT ![b] = NoBuild]
  /\ Goto(r, "unindex")
  /\ UNCHANGED <<seq, techs, updSeq, index>>

(* Mutant: the children are left to ON DELETE CASCADE. *)
RelyOnCascade(r) == DeleteRows(r, {"links", "updates"})

RemoveRows(r) == DeleteRows(r, {})

(* The errors of the first two DELETEs are ignored: the row goes, and what *)
(* they were to delete stays.                                              *)
RemoveLeaving(r) ==
  /\ Faults
  /\ \E stay \in SUBSET {"links", "updates"} \ {{}} : DeleteRows(r, stay)

(* The row is gone already: "build not found", rollback, 500. *)
RemoveNothing(r) ==
  /\ req[r].pc = "remove"
  /\ ~Exists(req[r].build)
  /\ Answer(r)
  /\ UNCHANGED <<builds, seq, techs, links, updates, updSeq, index>>

(* Mutant: the handler forgets the index. *)
NoUnindex(r) ==
  /\ req[r].pc = "unindex"
  /\ Answer(r)
  /\ UNCHANGED <<builds, seq, techs, links, updates, updSeq, index>>

(* DeleteIndex, a statement of its own after the commit; then 200. *)
Unindex(r) ==
  /\ req[r].pc = "unindex"
  /\ index' = [index EXCEPT ![req[r].build] = << >>]
  /\ Answer(r)
  /\ UNCHANGED <<builds, seq, techs, links, updates, updSeq>>

-----------------------------------------------------------------------------
(* POST /builds/{id}/updates: the row was read and belongs to the caller. *)
BeginAddUpdate(r, who, b) ==
  /\ ~Active(r)
  /\ Owns(who, b)
  /\ Start(r, "addUpdate", who, b, NoText, NoTechs, 0)
  /\ UNCHANGED <<builds, seq, techs, links, updates, updSeq, index>>

(* INSERT the update and touch the build's updated_at (not modelled).  The *)
(* table takes it whether or not the build is still there, and refuses it  *)
(* only when it is full, the model's bound.                                *)
AddUpdate(r) ==
  LET b == req[r].build IN
  /\ req[r].pc = "addUpdate"
  /\ IF updSeq < MaxUpdates
       THEN /\ updates' = updates \cup {[id |-> updSeq + 1, build |-> b]}
            /\ updSeq' = updSeq + 1
       ELSE UNCHANGED <<updates, updSeq>>
  /\ Answer(r)
  /\ UNCHANGED <<builds, seq, techs, links, index>>

(* DELETE /builds/{id}/updates/{updateId}: the check is about the build in *)
(* the path; the update id is any number.                                  *)
BeginDropUpdate(r, who, b, u) ==
  /\ ~Active(r)
  /\ Owns(who, b)
  /\ Start(r, "dropUpdate", who, b, NoText, NoTechs, u)
  /\ UNCHANGED <<builds, seq, techs, links, updates, updSeq, index>>

(* Mutant: DELETE ... WHERE id = ?, the path's build forgotten. *)
DropAnyUpdate(r) ==
  /\ req[r].pc = "dropUpdate"
  /\ updates' = {u \in updates : u.id # req[r].update}
  /\ Answer(r)
  /\ UNCHANGED <<builds, seq, techs, links, updSeq, index>>

(* DELETE ... WHERE id = ? AND build_id = ?: 404 when it removes no row. *)
DropUpdate(r) ==
  LET q == req[r] IN
  /\ q.pc = "dropUpdate"
  /\ updates' = {u \in updates : ~(u.id = q.update /\ u.build = q.build)}
  /\ Answer(r)
  /\ UNCHANGED <<builds, seq, techs, links, updSeq, index>>

-----------------------------------------------------------------------------
(* A statement fails.  The request is answered 500 (or, when it was the    *)
(* index, as if nothing had happened); what it wrote before stays.         *)
StatementFails(r) ==
  /\ Faults
  /\ Active(r)
  /\ Answer(r)
  /\ UNCHANGED <<builds, seq, techs, links, updates, updSeq, index>>

(* The process stops at any moment and starts again: requests in flight    *)
(* are lost, and RebuildIndex repopulates the index in one transaction     *)
(* before the server listens; when it fails the old index stays.           *)
RebuiltIndex ==
  [b \in BuildIds |-> IF Exists(b) THEN <<builds[b].text>> ELSE << >>]

Restart ==
  /\ req' = [r \in Requests |-> Idle]
  /\ index' \in {RebuiltIndex} \cup (IF Faults THEN {index} ELSE {})
  /\ UNCHANGED <<builds, seq, techs, links, updates, updSeq>>

(* The statements of a request in flight. *)
Step(r) ==
  \/ WriteRow(r) \/ ClearLinks(r) \/ SkipBlank(r) \/ UpsertTech(r)
  \/ InsertLink(r) \/ LinkRefused(r) \/ Reread(r) \/ NilDeref(r) \/ Reindex(r)
  \/ RemoveRows(r) \/ RemoveNothing(r) \/ Unindex(r)
  \/ AddUpdate(r) \/ DropUpdate(r)

Begin(r) ==
  \E who \in Builders :
    \/ \E text \in Texts, slugs \in Payloads : BeginCreate(r, who, text, slugs)
    \/ \E b \in BuildIds :
         \/ \E text \in Texts \cup {NoText}, slugs \in Payloads \cup {NoTechs} :
              BeginUpdate(r, who, b, text, slugs)
         \/ BeginDelete(r, who, b)
         \/ BeginAddUpdate(r, who, b)
         \/ \E u \in UpdateIds : BeginDropUpdate(r, who, b, u)

Next ==
  \/ \E r \in Requests : Begin(r) \/ Step(r) \/ RemoveLeaving(r) \/ StatementFails(r)
  \/ Restart

Spec == Init /\ [][Next]_vars

(* The Go scheduler runs every request's goroutine. *)
Fairness == \A r \in Requests : WF_vars(Step(r))
-----------------------------------------------------------------------------
(* Types.  A request about to write or index a text has one, never the     *)
(* absent column of a partial PUT body; one in the loop has a slug at at.  *)
Prepared(q) ==
  /\ q.pc \in {"clear", "slug", "attach"} => q.slugs \in Payloads
  /\ q.pc \in {"slug", "attach"} => q.at \in DOMAIN q.slugs
  /\ q.pc = "attach" => Normalize[q.slugs[q.at]] \in Techs
  /\ q.pc \in {"write", "reindex"} => q.text \in Texts

TypeOK ==
  /\ builds \in [BuildIds -> BuildRow \cup {NoBuild}]
  /\ seq \in 0..MaxBuilds
  /\ techs \subseteq Techs
  /\ links \subseteq [build : BuildIds, tech : Techs]
  /\ updates \subseteq [id : UpdateIds, build : BuildIds]
  /\ updSeq \in 0..MaxUpdates
  /\ index \in [BuildIds -> Seq(Texts)]
  /\ req \in [Requests -> Request \cup {Idle}]
  /\ \A r \in Requests : Prepared(req[r])

(* The owner check a request made at its start still holds when it acts on *)
(* it, however late: if there is a row with that id it is the caller's.    *)
(* Ids are not reused and no statement changes builder_id.                 *)
OwnershipHeld ==
  \A r \in Requests :
    Active(r) /\ Exists(req[r].build) => Owns(req[r].caller, req[r].build)

(* The full-text index has at most one row for a build, whatever creates,  *)
(* updates, deletes, failures and restarts ran.                            *)
OneIndexRow == \A b \in BuildIds : Len(index[b]) <= 1

(* No link and no update outlives its build: build_technologies and        *)
(* build_updates say REFERENCES builds(id) ON DELETE CASCADE               *)
(* (database/db.go:103, 112).  Requests write them long after they checked *)
(* for the build.                                                          *)
NoOrphanRows ==
  /\ \A l \in links : Exists(l.build)
  /\ \A u \in updates : Exists(u.build)

(* A step that changes a build's row, its links or its updates while the   *)
(* build exists is a statement of a request on that build by its owner.    *)
OnlyOwnerWrites ==
  [][\A b \in BuildIds :
       /\ Exists(b)
       /\ builds'[b] # builds[b] \/ LinksOf(b)' # LinksOf(b) \/ UpdatesOf(b)' # UpdatesOf(b)
       => \E r \in Requests :
            /\ Active(r) /\ req'[r] # req[r]
            /\ req[r].build = b /\ Owns(req[r].caller, b)]_vars

(* A new build starts clean: no link, no update and no index row of an     *)
(* earlier, deleted build with that id is waiting for it.                  *)
CleanBirth ==
  [][\A b \in BuildIds : ~Exists(b) /\ Exists(b)' =>
       /\ LinksOf(b) = {} /\ UpdatesOf(b) = {}
       /\ index[b] = << >>]_vars

(* "UpsertBuildIndex keeps a build's FTS entry in sync after create/update" *)
(* (search.go): a build no request is working on is indexed with its text. *)
Quiet(b) == \A r \in Requests : Active(r) => req[r].build # b

LiveIndexInSync ==
  \A b \in BuildIds : Quiet(b) /\ Exists(b) => index[b] = <<builds[b].text>>

(* The same, and a deleted build is not in the index. *)
IndexInSync ==
  /\ LiveIndexInSync
  /\ \A b \in BuildIds : Quiet(b) /\ ~Exists(b) => index[b] = << >>

(* When a request is about to answer 200/201, the build has the links its  *)
(* body asked for: normalized, without blanks, and no other.               *)
LinksAsAsked ==
  \A r \in Requests : req[r].pc = "reindex" /\ req[r].slugs # NoTechs =>
    {l.tech : l \in LinksOf(req[r].build)}
      = {Normalize[req[r].slugs[i]] : i \in DOMAIN req[r].slugs} \ {Blank}

(* A PUT on a build that is not there is answered: openapi.yaml gives it a *)
(* 404, and no response is a dropped connection.                           *)
UpdateAnswered == [][\A r \in Requests : ~NilDeref(r)]_vars

(* Every accepted request is answered (or lost with the process). *)
EveryRequestEnds == \A r \in Requests : Active(r) ~> ~Active(r)
=============================================================================
