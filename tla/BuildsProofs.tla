---------------------------- MODULE BuildsProofs ----------------------------
(***************************************************************************)
(* Theorems about Builds, for every set of requests, builders, texts and   *)
(* technologies, every bound, with and without faults; and of its serial   *)
(* behaviours in SerialBuilds.                                             *)
(***************************************************************************)
EXTENDS SerialBuilds, TLAPS

(* The type of the requests alone. *)
ReqOK == /\ req \in [Requests -> Request \cup {Idle}]
         /\ \A r \in Requests : Prepared(req[r])

(* The transaction of Delete, whatever of it had an effect. *)
Deletes(r) == \E stay \in SUBSET {"links", "updates"} : DeleteRows(r, stay)

LEMMA DeleteForms ==
  ASSUME NEW r \in Requests, RemoveRows(r) \/ RemoveLeaving(r)
  PROVE  Deletes(r)
BY DEF RemoveRows, RemoveLeaving, Deletes

(* An active request is a full record. *)
LEMMA ActiveIsRequest ==
  ASSUME ReqOK, NEW r \in Requests, Active(r)
  PROVE  req[r] \in Request
BY DEF ReqOK, Active, Idle, Request

(* Answering a request, and losing all of them, keeps the type. *)
LEMMA AnswerTypes ==
  ASSUME ReqOK, NEW r \in Requests, Answer(r)
  PROVE  ReqOK'
BY DEF ReqOK, Answer, Idle, Prepared

(* Starting a request keeps the type. *)
LEMMA StartTypes ==
  ASSUME ReqOK, NEW r \in Requests, NEW pc \in Steps, NEW who \in Builders,
         NEW b \in BuildIds, NEW text \in Texts \cup {NoText},
         NEW slugs \in Payloads \cup {NoTechs}, NEW u \in Nat,
         pc \notin {"slug", "attach", "reindex"},
         pc = "clear" => slugs \in Payloads, pc = "write" => text \in Texts,
         Start(r, pc, who, b, text, slugs, u)
  PROVE  ReqOK'
<1> DEFINE q == [pc |-> pc, caller |-> who, build |-> b, text |-> text,
                 slugs |-> slugs, at |-> 1, update |-> u]
<1>1. q \in Request
  BY DEF Request
<1>2. Prepared(q)
  BY DEF Prepared
<1>3. req' = [req EXCEPT ![r] = q]
  BY DEF Start
<1> HIDE DEF q
<1>4. QED BY <1>1, <1>2, <1>3 DEF ReqOK

(* Moving a request keeps the type if the record it moves to is prepared. *)
LEMMA MoveTypes ==
  ASSUME ReqOK, NEW r \in Requests, NEW q \in Request, Prepared(q),
         req' = [req EXCEPT ![r] = q]
  PROVE  ReqOK'
BY DEF ReqOK

LEMMA ToSlugTypes ==
  ASSUME ReqOK, NEW r \in Requests, NEW i \in Nat \ {0}, Active(r),
         req[r].slugs \in Payloads, ToSlug(r, i)
  PROVE  ReqOK'
<1> DEFINE q == [req[r] EXCEPT !.at = i,
                   !.pc = IF i > Len(req[r].slugs) THEN "reread" ELSE "slug"]
<1>1. req[r] \in Request /\ req[r].slugs \in Seq(Slugs)
  BY ActiveIsRequest, PayloadAssumption
<1>2. q \in Request
  BY <1>1 DEF Request, Steps
<1>3. Prepared(q)
  BY <1>1 DEF Prepared, Request
<1>4. req' = [req EXCEPT ![r] = q]
  BY DEF ToSlug
<1> HIDE DEF q
<1>5. QED BY <1>2, <1>3, <1>4, MoveTypes

(* The type of the tables alone. *)
TablesOK ==
  /\ builds \in [BuildIds -> BuildRow \cup {NoBuild}]
  /\ seq \in 0..MaxBuilds
  /\ techs \subseteq Techs
  /\ links \subseteq [build : BuildIds, tech : Techs]
  /\ updates \subseteq [id : UpdateIds, build : BuildIds]
  /\ updSeq \in 0..MaxUpdates
  /\ index \in [BuildIds -> Seq(Texts)]

LEMMA TypeParts == TypeOK <=> TablesOK /\ ReqOK
BY DEF TypeOK, TablesOK, ReqOK

(* Accepting a request keeps the types. *)
LEMMA BeginTypes ==
  ASSUME TypeOK, NEW r \in Requests, Begin(r)
  PROVE  TypeOK'
<1>1. TablesOK /\ ReqOK
  BY TypeParts
<1>2. SUFFICES TablesOK' /\ ReqOK'
  BY TypeParts DEF TypeOK, TablesOK, ReqOK
<1> USE BoundsAssumption
<1>3. ASSUME NEW who \in Builders, NEW text \in Texts, NEW slugs \in Payloads,
             BeginCreate(r, who, text, slugs)
      PROVE  TablesOK' /\ ReqOK'
  <2>1. NewBuildId \in BuildIds
    BY <1>1, <1>3 DEF NewBuildId, BuildIds, TablesOK, BeginCreate
  <2>2. TablesOK'
    BY <1>1, <1>3, <2>1 DEF TablesOK, BeginCreate, BuildRow, BuildIds
  <2>3. ReqOK'
    BY <1>1, <1>3, <2>1, StartTypes DEF BeginCreate, Steps
  <2>4. QED BY <2>2, <2>3
<1>4. ASSUME NEW who \in Builders, NEW b \in BuildIds,
             NEW text \in Texts \cup {NoText}, NEW slugs \in Payloads \cup {NoTechs},
             BeginUpdate(r, who, b, text, slugs)
      PROVE  TablesOK' /\ ReqOK'
  <2>1. TablesOK'
    BY <1>1, <1>4 DEF TablesOK, BeginUpdate
  <2>2. CASE text # NoText
    <3>1. Start(r, "write", who, b, text, slugs, 0)
      BY <1>4, <2>2 DEF BeginUpdate
    <3>2. QED BY <1>1, <2>1, <2>2, <3>1, StartTypes DEF Steps
  <2>3. CASE text = NoText /\ slugs # NoTechs
    <3>1. Start(r, "clear", who, b, text, slugs, 0)
      BY <1>4, <2>3 DEF BeginUpdate
    <3>2. QED BY <1>1, <2>1, <2>3, <3>1, StartTypes DEF Steps
  <2>4. CASE text = NoText /\ slugs = NoTechs
    <3>1. Start(r, "reread", who, b, text, slugs, 0)
      BY <1>4, <2>4 DEF BeginUpdate
    <3>2. QED BY <1>1, <2>1, <2>4, <3>1, StartTypes DEF Steps
  <2>5. QED BY <2>2, <2>3, <2>4
<1>5. ASSUME NEW who \in Builders, NEW b \in BuildIds, BeginDelete(r, who, b)
      PROVE  TablesOK' /\ ReqOK'
  BY <1>1, <1>5, StartTypes DEF TablesOK, BeginDelete, Steps
<1>6. ASSUME NEW who \in Builders, NEW b \in BuildIds, BeginAddUpdate(r, who, b)
      PROVE  TablesOK' /\ ReqOK'
  BY <1>1, <1>6, StartTypes DEF TablesOK, BeginAddUpdate, Steps
<1>7. ASSUME NEW who \in Builders, NEW b \in BuildIds, NEW u \in UpdateIds,
             BeginDropUpdate(r, who, b, u)
      PROVE  TablesOK' /\ ReqOK'
  <2>1. TablesOK'
    BY <1>1, <1>7 DEF TablesOK, BeginDropUpdate
  <2>2. ReqOK'
    BY <1>1, <1>7, StartTypes DEF BeginDropUpdate, Steps, UpdateIds
  <2>3. QED BY <2>1, <2>2
<1>8. QED BY <1>3, <1>4, <1>5, <1>6, <1>7 DEF Begin

(* Every statement of a request keeps the types. *)
LEMMA StepTypes ==
  ASSUME TypeOK, NEW r \in Requests, Step(r) \/ RemoveLeaving(r)
  PROVE  TypeOK'
<1> DEFINE q == req[r]
           b == q.build
<1>1. TablesOK /\ ReqOK
  BY TypeParts
<1>2. SUFFICES TablesOK' /\ ReqOK'
  BY TypeParts DEF TypeOK, TablesOK, ReqOK
<1>3. Active(r)
  BY DEF Step, Active, WriteRow, ClearLinks, SkipBlank, UpsertTech, InsertLink,
         LinkRefused, Reread, NilDeref, Reindex, RemoveRows, RemoveLeaving, DeleteRows,
         RemoveNothing, Unindex, AddUpdate, DropUpdate
<1>4. q \in Request /\ Prepared(q) /\ b \in BuildIds
  BY <1>1, <1>3, ActiveIsRequest DEF ReqOK, Request
<1>5. CASE WriteRow(r)
  <2>1. TablesOK'
    BY <1>1, <1>4, <1>5 DEF TablesOK, WriteRow, Prepared, BuildRow, Exists
  <2>2. PICK pc \in Steps : /\ pc = "clear" => q.slugs \in Payloads
                            /\ pc \in {"clear", "reread"}
                            /\ req' = [req EXCEPT ![r] = [q EXCEPT !.text = NoText, !.pc = pc]]
    BY <1>4, <1>5 DEF WriteRow, Steps, Request
  <2>3. QED BY <1>1, <1>4, <2>1, <2>2, MoveTypes DEF Request, Prepared
<1>6. CASE ClearLinks(r)
  BY <1>1, <1>3, <1>4, <1>6, ToSlugTypes DEF TablesOK, ClearLinks, Prepared
<1>7. CASE SkipBlank(r)
  <2>1. TablesOK'
    BY <1>1, <1>7 DEF TablesOK, SkipBlank
  <2>2. q.slugs \in Payloads /\ q.at + 1 \in Nat \ {0}
    BY <1>4, <1>7 DEF SkipBlank, Prepared, Request
  <2>3. QED BY <1>1, <1>3, <1>7, <2>1, <2>2, ToSlugTypes DEF SkipBlank
<1>8. CASE UpsertTech(r)
  <2>1. q.slugs \in Payloads /\ q.at \in DOMAIN q.slugs /\ q.slugs \in Seq(Slugs)
    BY <1>4, <1>8, PayloadAssumption DEF UpsertTech, Prepared
  <2>2. Slug(r) \in Techs
    BY <1>8, <2>1, PayloadAssumption DEF UpsertTech, Slug
  <2>3. TablesOK'
    BY <1>1, <1>8, <2>2 DEF TablesOK, UpsertTech
  <2>4. req' = [req EXCEPT ![r] = [q EXCEPT !.pc = "attach"]]
    BY <1>8 DEF UpsertTech, Goto
  <2>5. QED BY <1>1, <1>4, <2>1, <2>2, <2>3, <2>4, MoveTypes
            DEF Request, Prepared, Steps, Slug
<1>9. CASE InsertLink(r)
  <2>1. q.slugs \in Payloads /\ q.at + 1 \in Nat \ {0} /\ Slug(r) \in Techs
    BY <1>4, <1>9 DEF InsertLink, Prepared, Request, Slug
  <2>2. TablesOK'
    BY <1>1, <1>4, <1>9, <2>1 DEF TablesOK, InsertLink
  <2>3. QED BY <1>1, <1>3, <1>9, <2>1, <2>2, ToSlugTypes DEF InsertLink
<1>10. CASE LinkRefused(r)
  BY <1>1, <1>10, AnswerTypes DEF TablesOK, LinkRefused
<1>11. CASE Reread(r)
  <2>1. builds[b].text \in Texts
    BY <1>1, <1>4, <1>11 DEF TablesOK, Reread, Exists, BuildRow
  <2>2. req' = [req EXCEPT ![r] = [q EXCEPT !.pc = "reindex", !.text = builds[b].text]]
    BY <1>11 DEF Reread
  <2> DEFINE moved == [q EXCEPT !.pc = "reindex", !.text = builds[b].text]
  <2>3. moved \in Request
    BY <1>4, <2>1 DEF Request, Steps
  <2>4. Prepared(moved)
    BY <1>4, <2>1 DEF Prepared, Request
  <2>5. ReqOK'
    BY <1>1, <2>2, <2>3, <2>4, MoveTypes
  <2>6. QED BY <1>1, <1>11, <2>5 DEF TablesOK, Reread
<1>12. CASE NilDeref(r)
  BY <1>1, <1>12, AnswerTypes DEF TablesOK, NilDeref
<1>13. CASE Reindex(r)
  <2>1. q.text \in Texts
    BY <1>4, <1>13 DEF Reindex, Prepared
  <2>2. QED BY <1>1, <1>4, <1>13, <2>1, AnswerTypes DEF TablesOK, Reindex
<1>14. CASE RemoveRows(r) \/ RemoveLeaving(r)
  <2>1. PICK stay \in SUBSET {"links", "updates"} : DeleteRows(r, stay)
    BY <1>14, DeleteForms DEF Deletes
  <2>2. TablesOK'
    BY <1>1, <1>4, <2>1 DEF TablesOK, DeleteRows, LinksOf, UpdatesOf
  <2>3. req' = [req EXCEPT ![r] = [q EXCEPT !.pc = "unindex"]]
    BY <2>1 DEF DeleteRows, Goto
  <2>4. QED BY <1>1, <1>4, <2>2, <2>3, MoveTypes DEF Request, Prepared, Steps
<1>15. CASE RemoveNothing(r)
  BY <1>1, <1>15, AnswerTypes DEF TablesOK, RemoveNothing
<1>16. CASE Unindex(r)
  <2>1. << >> \in Seq(Texts)
    OBVIOUS
  <2>2. index' \in [BuildIds -> Seq(Texts)]
    BY <1>1, <1>16, <2>1 DEF TablesOK, Unindex
  <2>3. QED BY <1>1, <1>16, <2>2, AnswerTypes DEF TablesOK, Unindex
<1>17. CASE AddUpdate(r)
  <2>1. ReqOK'
    BY <1>1, <1>17, AnswerTypes DEF AddUpdate
  <2>2. CASE updates' = updates /\ updSeq' = updSeq
    BY <1>1, <1>17, <2>1, <2>2 DEF TablesOK, AddUpdate
  <2>3. CASE /\ updSeq < MaxUpdates
             /\ updates' = updates \cup {[id |-> updSeq + 1, build |-> b]}
             /\ updSeq' = updSeq + 1
    <3>1. updSeq' \in 0..MaxUpdates /\ updSeq + 1 \in UpdateIds
      BY <1>1, <2>3, BoundsAssumption DEF TablesOK, UpdateIds
    <3>2. [id |-> updSeq + 1, build |-> b] \in [id : UpdateIds, build : BuildIds]
      BY <1>4, <3>1
    <3>3. QED BY <1>1, <1>17, <2>1, <2>3, <3>1, <3>2 DEF TablesOK, AddUpdate
  <2>4. QED BY <1>17, <2>2, <2>3 DEF AddUpdate
<1>18. CASE DropUpdate(r)
  BY <1>1, <1>18, AnswerTypes DEF TablesOK, DropUpdate
<1>19. QED BY <1>5, <1>6, <1>7, <1>8, <1>9, <1>10, <1>11, <1>12, <1>13, <1>14,
              <1>15, <1>16, <1>17, <1>18 DEF Step

LEMMA NextTypes == TypeOK /\ [Next]_vars => TypeOK'
<1> SUFFICES ASSUME TypeOK, [Next]_vars PROVE TypeOK'
  OBVIOUS
<1>1. CASE UNCHANGED vars
  BY <1>1 DEF TypeOK, vars
<1>2. ASSUME NEW r \in Requests, StatementFails(r) PROVE TypeOK'
  BY <1>2, TypeParts, AnswerTypes DEF TypeOK, TablesOK, ReqOK, StatementFails
<1>3. CASE Restart
  <2>1. RebuiltIndex \in [BuildIds -> Seq(Texts)]
    BY DEF RebuiltIndex, TypeOK, Exists, BuildRow
  <2>2. ReqOK'
    BY <1>3 DEF Restart, ReqOK, Prepared, Idle
  <2>3. QED BY <1>3, <2>1, <2>2 DEF Restart, TypeOK, ReqOK
<1>4. QED BY <1>1, <1>2, <1>3, BeginTypes, StepTypes DEF Next

(* The type invariant holds of every behaviour. *)
THEOREM TypeCorrect == Spec => []TypeOK
<1>1. Init => TypeOK
  BY BoundsAssumption DEF Init, TypeOK, BuildIds, Prepared, Idle
<1>2. QED BY <1>1, NextTypes, PTL DEF Spec

-----------------------------------------------------------------------------
(* Ids: every row and every request in flight has an id that was given     *)
(* before, so the next id is new to all tables.                            *)
IdsGiven ==
  /\ \A b \in BuildIds : Exists(b) => b <= seq
  /\ \A r \in Requests : Active(r) => req[r].build <= seq
  /\ \A l \in links : l.build <= seq
  /\ \A u \in updates : u.build <= seq
  /\ \A b \in BuildIds : index[b] # << >> => b <= seq

OwnInv == TypeOK /\ IdsGiven /\ OwnershipHeld

(* A step that gives no id: rows keep their owner; a request that goes on   *)
(* keeps its build and caller, and one that starts owns its build; new rows *)
(* come from requests in flight or, in the index, from rows.                *)
SameRequests ==
  \A s \in Requests : Active(s)' =>
    \/ Active(s) /\ req'[s].build = req[s].build /\ req'[s].caller = req[s].caller
    \/ req'[s].build \in BuildIds /\ Owns(req'[s].caller, req'[s].build)
Requested(b) == \E s \in Requests : Active(s) /\ b = req[s].build
SameRows ==
  /\ seq' = seq
  /\ \A b \in BuildIds : Exists(b)' => Exists(b) /\ builds'[b].owner = builds[b].owner
  /\ \A l \in links' : l \in links \/ Requested(l.build)
  /\ \A u \in updates' : u \in updates \/ Requested(u.build)
  /\ \A b \in BuildIds : index'[b] # << >> =>
       index[b] # << >> \/ Requested(b) \/ Exists(b)

LEMMA QuietStep ==
  ASSUME OwnInv, TypeOK', SameRequests, SameRows
  PROVE  OwnInv'
<1>1. IdsGiven'
  BY DEF OwnInv, IdsGiven, Owns, SameRequests, SameRows, Requested
<1>2. ASSUME NEW s \in Requests, Active(s)', Exists(req[s].build)'
      PROVE  Owns(req[s].caller, req[s].build)'
  <2>1. req'[s].build \in BuildIds
    BY <1>2 DEF OwnInv, TypeOK, Active, Idle, Request
  <2>2. QED BY <1>2, <2>1 DEF OwnInv, OwnershipHeld, Owns, Exists, SameRequests, SameRows
<1>3. QED BY <1>1, <1>2 DEF OwnInv, OwnershipHeld

(* INSERT INTO builds: the new id is above every id in use. *)
LEMMA CreateKeepsOwnership ==
  ASSUME OwnInv, TypeOK', NEW r \in Requests, NEW who \in Builders,
         NEW text \in Texts, NEW slugs \in Payloads, BeginCreate(r, who, text, slugs)
  PROVE  OwnInv'
<1> USE BoundsAssumption
<1>1. NewBuildId \in BuildIds /\ NewBuildId > seq /\ seq \in Nat /\ seq' = NewBuildId
  BY DEF OwnInv, TypeOK, NewBuildId, BeginCreate, BuildIds
<1>2. \A b \in BuildIds : b # NewBuildId => builds'[b] = builds[b]
  BY DEF OwnInv, TypeOK, BeginCreate
<1>3. builds'[NewBuildId].owner = who
  BY <1>1 DEF OwnInv, TypeOK, BeginCreate
<1>4. \A s \in Requests : s # r => req'[s] = req[s]
  BY DEF OwnInv, TypeOK, BeginCreate, Start
<1>5. req'[r].build = NewBuildId /\ req'[r].caller = who
  BY DEF OwnInv, TypeOK, BeginCreate, Start
<1>6. IdsGiven'
  <2>1. \A s \in Requests : Active(s) => req[s].build \in BuildIds
    BY DEF OwnInv, TypeOK, Active, Idle, Request
  <2>2. \A b \in BuildIds : Exists(b)' => b <= seq'
    BY <1>1, <1>2 DEF OwnInv, IdsGiven, Exists, BuildIds
  <2>3. \A s \in Requests : Active(s)' => req'[s].build <= seq'
    BY <1>1, <1>4, <1>5, <2>1 DEF OwnInv, IdsGiven, Active, BuildIds
  <2>4. (\A l \in links : l.build <= seq')
        /\ (\A u \in updates : u.build <= seq')
    <3>1. /\ \A l \in links : l.build \in Nat /\ l.build <= seq
          /\ \A u \in updates : u.build \in Nat /\ u.build <= seq
      BY DEF OwnInv, TypeOK, IdsGiven, BuildIds
    <3>2. QED BY <1>1, <3>1 DEF BuildIds
  <2>5. \A b \in BuildIds : index[b] # << >> => b <= seq'
    BY <1>1 DEF OwnInv, IdsGiven, BuildIds
  <2>6. QED BY <2>2, <2>3, <2>4, <2>5 DEF IdsGiven, BeginCreate
<1>7. ASSUME NEW s \in Requests, Active(s)', Exists(req[s].build)'
      PROVE  Owns(req[s].caller, req[s].build)'
  <2>1. CASE s = r
    BY <1>3, <1>5, <1>7, <2>1 DEF Owns, Exists
  <2>2. CASE s # r
    <3>1. Active(s) /\ req'[s] = req[s] /\ req[s].build \in BuildIds
      BY <1>4, <1>7, <2>2 DEF OwnInv, TypeOK, Active, Idle, Request
    <3>2. req[s].build # NewBuildId
      BY <1>1, <3>1 DEF OwnInv, IdsGiven, BuildIds
    <3>3. QED BY <1>2, <1>7, <3>1, <3>2 DEF OwnInv, OwnershipHeld, Owns, Exists
  <2>3. QED BY <2>1, <2>2
<1>8. QED BY <1>6, <1>7 DEF OwnInv, OwnershipHeld

(* Every other accepted request owns the build it names. *)
LEMMA BeginKeepsOwnership ==
  ASSUME OwnInv, TypeOK', NEW r \in Requests, Begin(r)
  PROVE  OwnInv'
<1> DEFINE Enters(who, b) == \E pc \in Steps : \E text, slugs, u :
                               Start(r, pc, who, b, text, slugs, u)
<1>1. ASSUME NEW who \in Builders, NEW b \in BuildIds, Owns(who, b), Enters(who, b),
             UNCHANGED <<builds, seq, techs, links, updates, updSeq, index>>
      PROVE  OwnInv'
  <2>1. /\ \A s \in Requests : s # r => req'[s] = req[s]
        /\ req'[r].build = b /\ req'[r].caller = who
    BY <1>1 DEF OwnInv, TypeOK, Start
  <2>2. SameRequests
    BY <1>1, <2>1 DEF SameRequests, Active
  <2>3. SameRows
    BY <1>1 DEF SameRows, Exists
  <2>4. QED BY <2>2, <2>3, QuietStep
<1>2. ASSUME NEW who \in Builders, NEW b \in BuildIds,
             NEW text \in Texts \cup {NoText}, NEW slugs \in Payloads \cup {NoTechs},
             BeginUpdate(r, who, b, text, slugs)
      PROVE  Enters(who, b)
  BY <1>2 DEF BeginUpdate, Steps
<1>3. ASSUME NEW who \in Builders, NEW b \in BuildIds,
             \/ BeginDelete(r, who, b) \/ BeginAddUpdate(r, who, b)
             \/ \E u \in UpdateIds : BeginDropUpdate(r, who, b, u)
      PROVE  Enters(who, b)
  BY <1>3 DEF BeginDelete, BeginAddUpdate, BeginDropUpdate, Steps
<1> HIDE DEF Enters
<1>4. QED BY <1>1, <1>2, <1>3, CreateKeepsOwnership
          DEF Begin, BeginUpdate, BeginDelete, BeginAddUpdate, BeginDropUpdate

(* A statement of a request in flight gives no id and hands over no build. *)
LEMMA StepKeepsOwnership ==
  ASSUME OwnInv, TypeOK', NEW r \in Requests, Step(r) \/ RemoveLeaving(r)
  PROVE  OwnInv'
<1> DEFINE q == req[r]
           b == q.build
<1>1. Active(r) /\ q \in Request /\ b \in BuildIds
  BY DEF OwnInv, TypeOK, Idle, Request, Step, Active, WriteRow, ClearLinks,
         SkipBlank, UpsertTech, InsertLink, LinkRefused, Reread, NilDeref, Reindex,
         RemoveRows, RemoveLeaving, DeleteRows, RemoveNothing, Unindex, AddUpdate, DropUpdate
<1>2. SameRequests
  <2>1. \/ Answer(r) \/ WriteRow(r) \/ Reread(r)
        \/ Goto(r, "attach") \/ Goto(r, "unindex")
        \/ ToSlug(r, 1) \/ ToSlug(r, q.at + 1)
    <3>1. CASE ClearLinks(r) \/ SkipBlank(r) \/ InsertLink(r)
      BY <3>1 DEF ClearLinks, SkipBlank, InsertLink
    <3>2. CASE UpsertTech(r) \/ RemoveRows(r) \/ RemoveLeaving(r)
      BY <3>2 DEF UpsertTech, RemoveRows, RemoveLeaving, DeleteRows
    <3>3. CASE \/ LinkRefused(r) \/ NilDeref(r) \/ Reindex(r) \/ RemoveNothing(r)
               \/ Unindex(r) \/ AddUpdate(r) \/ DropUpdate(r)
      BY <3>3 DEF LinkRefused, NilDeref, Reindex, RemoveNothing, Unindex,
                  AddUpdate, DropUpdate
    <3>4. QED BY <3>1, <3>2, <3>3 DEF Step
  <2>2. \A s \in Requests : s # r => req'[s] = req[s]
    BY <2>1 DEF OwnInv, TypeOK, Answer, Goto, ToSlug, WriteRow, Reread
  <2>3. Active(r)' => req'[r].build = b /\ req'[r].caller = q.caller
    BY <1>1, <2>1 DEF OwnInv, TypeOK, Answer, Goto, ToSlug, WriteRow, Reread,
                      Idle, Active, Request
  <2>4. QED BY <1>1, <2>2, <2>3 DEF SameRequests, Active
<1>3. SameRows
  <2>1. CASE WriteRow(r)
    <3>1. \A c \in BuildIds : Exists(c)' => Exists(c) /\ builds'[c].owner = builds[c].owner
      <4>1. builds \in [BuildIds -> BuildRow \cup {NoBuild}]
        BY DEF OwnInv, TypeOK
      <4>2. \/ ~Exists(b) /\ builds' = builds
            \/ Exists(b) /\ builds' = [builds EXCEPT ![b].text = q.text]
        BY <2>1 DEF WriteRow
      <4>3. QED BY <1>1, <4>1, <4>2 DEF Exists, BuildRow
    <3>2. UNCHANGED <<seq, links, updates, index>>
      BY <2>1 DEF WriteRow
    <3>3. QED BY <3>1, <3>2 DEF SameRows
  <2>2. CASE InsertLink(r)
    BY <1>1, <2>2 DEF SameRows, InsertLink, Exists, Requested
  <2>3. CASE Reindex(r)
    BY <1>1, <2>3 DEF OwnInv, TypeOK, SameRows, Reindex, Exists, Requested
  <2>4. CASE RemoveRows(r) \/ RemoveLeaving(r)
    <3>1. PICK stay \in SUBSET {"links", "updates"} : DeleteRows(r, stay)
      BY <2>4, DeleteForms DEF Deletes
    <3>2. QED BY <1>1, <3>1 DEF OwnInv, TypeOK, SameRows, DeleteRows, Exists, LinksOf, UpdatesOf
  <2>5. CASE AddUpdate(r)
    BY <1>1, <2>5 DEF SameRows, AddUpdate, Exists, Requested
  <2>6. CASE ClearLinks(r) \/ Unindex(r) \/ DropUpdate(r)
    BY <1>1, <2>6 DEF OwnInv, TypeOK, SameRows, ClearLinks, Unindex, DropUpdate, Exists, LinksOf
  <2>7. CASE \/ SkipBlank(r) \/ UpsertTech(r) \/ LinkRefused(r) \/ Reread(r)
             \/ NilDeref(r) \/ RemoveNothing(r)
    BY <2>7 DEF SameRows, SkipBlank, UpsertTech, LinkRefused, Reread, NilDeref,
                RemoveNothing, Exists
  <2>8. QED BY <2>1, <2>2, <2>3, <2>4, <2>5, <2>6, <2>7 DEF Step
<1>4. QED BY <1>2, <1>3, QuietStep

LEMMA NextKeepsOwnership == OwnInv /\ [Next]_vars => OwnInv'
<1> SUFFICES ASSUME OwnInv, [Next]_vars PROVE OwnInv'
  OBVIOUS
<1>1. TypeOK'
  BY NextTypes DEF OwnInv
<1>2. CASE UNCHANGED vars
  BY <1>2 DEF OwnInv, TypeOK, IdsGiven, OwnershipHeld, Owns, Exists, Active, vars
<1>3. ASSUME NEW r \in Requests, StatementFails(r) PROVE OwnInv'
  <2>1. SameRequests
    BY <1>3 DEF OwnInv, TypeOK, SameRequests, StatementFails, Answer, Active, Idle
  <2>2. SameRows
    BY <1>3 DEF SameRows, StatementFails, Exists
  <2>3. QED BY <1>1, <2>1, <2>2, QuietStep
<1>4. CASE Restart
  <2>1. SameRequests
    BY <1>4 DEF SameRequests, Restart, Active, Idle
  <2>2. SameRows
    BY <1>4 DEF SameRows, Restart, RebuiltIndex, Exists
  <2>3. QED BY <1>1, <2>1, <2>2, QuietStep
<1>5. QED BY <1>1, <1>2, <1>3, <1>4, BeginKeepsOwnership, StepKeepsOwnership DEF Next

LEMMA OwnInvHolds == Spec => []OwnInv
<1>1. Init => OwnInv
  BY TypeCorrect, BoundsAssumption
     DEF Init, OwnInv, TypeOK, IdsGiven, OwnershipHeld, Owns, Exists, Active,
         BuildIds, Prepared, Idle
<1>2. QED BY <1>1, NextKeepsOwnership, PTL DEF Spec

(* A request's owner check, made once at its start, never goes stale:      *)
(* whatever other requests, failures and restarts did since, a row with    *)
(* the id it checked is the caller's.                                      *)
THEOREM OwnershipNeverStale == Spec => []OwnershipHeld
BY OwnInvHolds, PTL DEF OwnInv

-----------------------------------------------------------------------------
(* No build is born into rows of an earlier one. *)
LEMMA BirthIsClean ==
  ASSUME OwnInv, [Next]_vars, NEW b \in BuildIds, ~Exists(b), Exists(b)'
  PROVE  LinksOf(b) = {} /\ UpdatesOf(b) = {} /\ index[b] = << >>
<1>1. PICK r \in Requests, who \in Builders, text \in Texts, slugs \in Payloads :
        BeginCreate(r, who, text, slugs)
  <2>1. builds' # builds
    BY DEF Exists
  <2>2. ASSUME NEW r \in Requests, Step(r) \/ RemoveLeaving(r) PROVE FALSE
    <3>1. CASE WriteRow(r) \/ RemoveRows(r) \/ RemoveLeaving(r)
      BY <3>1 DEF OwnInv, TypeOK, WriteRow, RemoveRows, RemoveLeaving, DeleteRows, Exists
    <3>2. CASE ~WriteRow(r) /\ ~RemoveRows(r) /\ ~RemoveLeaving(r)
      BY <2>1, <2>2, <3>2 DEF Step, ClearLinks, SkipBlank, UpsertTech, InsertLink,
         LinkRefused, Reread, NilDeref, Reindex, RemoveNothing, Unindex,
         AddUpdate, DropUpdate
    <3>3. QED BY <3>1, <3>2
  <2>3. PICK r \in Requests : Begin(r)
    BY <2>1, <2>2 DEF Next, vars, StatementFails, Restart
  <2>4. QED BY <2>1, <2>3 DEF Begin, BeginUpdate, BeginDelete, BeginAddUpdate,
                              BeginDropUpdate
<1>2. b = NewBuildId
  BY <1>1 DEF OwnInv, TypeOK, BeginCreate, Exists
<1>3. b > seq /\ seq \in Nat
  BY <1>2, BoundsAssumption DEF OwnInv, TypeOK, NewBuildId
<1>4. QED BY <1>3 DEF OwnInv, TypeOK, IdsGiven, LinksOf, UpdatesOf, BuildIds

(* A deleted build's left-overs (links or updates that outlived it, a      *)
(* stale index row) never become another build's.                          *)
THEOREM CleanBirths == Spec => CleanBirth
<1>1. OwnInv /\ [Next]_vars =>
        [\A b \in BuildIds : ~Exists(b) /\ Exists(b)' =>
           /\ LinksOf(b) = {} /\ UpdatesOf(b) = {}
           /\ index[b] = << >>]_vars
  BY BirthIsClean
<1>2. QED BY <1>1, OwnInvHolds, PTL DEF Spec, CleanBirth

-----------------------------------------------------------------------------
(* Writes to a build are its owner's. *)
LEMMA StepsAreOwners ==
  ASSUME OwnInv, [Next]_vars, NEW b \in BuildIds, Exists(b),
         \/ builds'[b] # builds[b]
         \/ LinksOf(b)' # LinksOf(b)
         \/ UpdatesOf(b)' # UpdatesOf(b)
  PROVE  \E r \in Requests : /\ Active(r) /\ req'[r] # req[r]
                             /\ req[r].build = b /\ Owns(req[r].caller, b)
<1>1. builds' # builds \/ links' # links \/ updates' # updates
  BY DEF LinksOf, UpdatesOf
<1>2. ASSUME NEW r \in Requests, Begin(r) PROVE FALSE
  <2>1. PICK who \in Builders, text \in Texts, slugs \in Payloads :
          BeginCreate(r, who, text, slugs)
    BY <1>1, <1>2 DEF Begin, BeginUpdate, BeginDelete, BeginAddUpdate, BeginDropUpdate
  <2>2. b # NewBuildId
    BY BoundsAssumption DEF OwnInv, TypeOK, IdsGiven, NewBuildId, BuildIds
  <2>3. QED BY <2>1, <2>2 DEF OwnInv, TypeOK, BeginCreate, LinksOf, UpdatesOf
<1>3. PICK r \in Requests : Step(r) \/ RemoveLeaving(r)
  BY <1>1, <1>2 DEF Next, vars, StatementFails, Restart
<1> DEFINE q == req[r]
<1>4. /\ \/ WriteRow(r) \/ ClearLinks(r) \/ InsertLink(r) \/ Deletes(r)
         \/ AddUpdate(r) \/ DropUpdate(r)
      /\ Active(r) /\ q \in Request
  <2>1. \/ WriteRow(r) \/ ClearLinks(r) \/ InsertLink(r) \/ Deletes(r)
        \/ AddUpdate(r) \/ DropUpdate(r)
    BY <1>1, <1>3, DeleteForms
       DEF Step, SkipBlank, UpsertTech, LinkRefused, Reread, NilDeref, Reindex,
           RemoveNothing, Unindex
  <2>2. Active(r)
    BY <2>1 DEF Active, WriteRow, ClearLinks, InsertLink, Deletes, DeleteRows, AddUpdate,
                DropUpdate
  <2>3. QED BY <2>1, <2>2 DEF OwnInv, TypeOK, Active, Idle, Request
<1>5. q.build = b
  <2>1. CASE WriteRow(r)
    BY <1>4, <2>1 DEF OwnInv, TypeOK, WriteRow, LinksOf, UpdatesOf, Request
  <2>2. CASE ClearLinks(r) \/ InsertLink(r)
    BY <1>4, <2>2 DEF ClearLinks, InsertLink, LinksOf, UpdatesOf
  <2>3. CASE Deletes(r)
    BY <1>4, <2>3 DEF OwnInv, TypeOK, Deletes, DeleteRows, LinksOf, UpdatesOf
  <2>4. CASE AddUpdate(r)
    BY <1>4, <2>4 DEF AddUpdate, LinksOf, UpdatesOf
  <2>5. CASE DropUpdate(r)
    BY <1>4, <2>5 DEF DropUpdate, LinksOf, UpdatesOf
  <2>6. QED BY <1>4, <2>1, <2>2, <2>3, <2>4, <2>5
<1>6. req'[r] # req[r]
  <2>1. CASE InsertLink(r)
    <3>1. q.at \in Nat
      BY <1>4 DEF Request
    <3>2. req'[r].at = q.at + 1
      BY <1>4, <2>1 DEF OwnInv, TypeOK, InsertLink, ToSlug, Request
    <3>3. QED BY <3>1, <3>2
  <2>2. CASE AddUpdate(r) \/ DropUpdate(r)
    BY <1>4, <2>2 DEF OwnInv, TypeOK, AddUpdate, DropUpdate, Answer, Active, Idle
  <2>3. CASE WriteRow(r)
    <3>1. req'[r].pc # "write" /\ q.pc = "write"
      BY <1>4, <2>3 DEF OwnInv, TypeOK, WriteRow, Request
    <3>2. QED BY <3>1
  <2>4. CASE ClearLinks(r)
    <3>1. req'[r].pc # "clear" /\ q.pc = "clear"
      BY <1>4, <2>4 DEF OwnInv, TypeOK, ClearLinks, ToSlug, Request
    <3>2. QED BY <3>1
  <2>5. CASE Deletes(r)
    <3>1. req'[r].pc # "remove" /\ q.pc = "remove"
      BY <1>4, <2>5 DEF OwnInv, TypeOK, Deletes, DeleteRows, Goto, Request
    <3>2. QED BY <3>1
  <2>6. QED BY <1>4, <2>1, <2>2, <2>3, <2>4, <2>5
<1>7. QED BY <1>4, <1>5, <1>6 DEF OwnInv, OwnershipHeld

(* Only a request of the owner, on that build, changes a build's row, its  *)
(* links or its updates while the build exists.                            *)
THEOREM WritesAreOwners == Spec => OnlyOwnerWrites
<1>1. OwnInv /\ [Next]_vars =>
        [\A b \in BuildIds :
           /\ Exists(b)
           /\ builds'[b] # builds[b] \/ LinksOf(b)' # LinksOf(b) \/ UpdatesOf(b)' # UpdatesOf(b)
           => \E r \in Requests : /\ Active(r) /\ req'[r] # req[r]
                                  /\ req[r].build = b /\ Owns(req[r].caller, b)]_vars
  BY StepsAreOwners
<1>2. QED BY <1>1, OwnInvHolds, PTL DEF Spec, OnlyOwnerWrites

-----------------------------------------------------------------------------
(* The index never has two rows for a build. *)
THEOREM OneRowPerBuild == Spec => []OneIndexRow
<1>1. Init => OneIndexRow
  BY DEF Init, OneIndexRow
<1>2. TypeOK /\ OneIndexRow /\ [Next]_vars => OneIndexRow'
  <2> SUFFICES ASSUME TypeOK, OneIndexRow, [Next]_vars PROVE OneIndexRow'
    OBVIOUS
  <2>1. ASSUME \A b \in BuildIds : index'[b] = index[b] \/ Len(index'[b]) <= 1
        PROVE  OneIndexRow'
    BY <2>1 DEF OneIndexRow
  <2>2. ASSUME NEW r \in Requests, Reindex(r) \/ Unindex(r) PROVE OneIndexRow'
    <3>1. Len(<< >>) <= 1 /\ Len(<<req[r].text>>) <= 1
      OBVIOUS
    <3>2. CASE Reindex(r)
      BY <2>1, <3>1, <3>2 DEF TypeOK, Reindex
    <3>3. CASE Unindex(r)
      BY <2>1, <3>1, <3>3 DEF TypeOK, Unindex
    <3>4. QED BY <2>2, <3>2, <3>3
  <2>3. ASSUME NEW r \in Requests, Begin(r) \/ StatementFails(r) PROVE index' = index
    BY <2>3 DEF Begin, BeginCreate, BeginUpdate, BeginDelete, BeginAddUpdate,
                BeginDropUpdate, StatementFails
  <2>4. ASSUME NEW r \in Requests, Step(r) \/ RemoveLeaving(r), ~Reindex(r), ~Unindex(r)
        PROVE  index' = index
    BY <2>4 DEF Step, WriteRow, ClearLinks, SkipBlank, UpsertTech, InsertLink,
         LinkRefused, Reread, NilDeref, RemoveRows, RemoveLeaving, DeleteRows,
         RemoveNothing, AddUpdate, DropUpdate
  <2>5. CASE Restart
    <3>1. \A b \in BuildIds : Len(RebuiltIndex[b]) <= 1
      BY DEF RebuiltIndex
    <3>2. QED BY <2>1, <2>5, <3>1 DEF Restart
  <2>6. QED BY <2>1, <2>2, <2>3, <2>4, <2>5 DEF Next, vars
<1>3. QED BY <1>1, <1>2, TypeCorrect, PTL DEF Spec

-----------------------------------------------------------------------------
(* Serial behaviours.  A request that may have left the index behind its   *)
(* build is Refreshing; for every other build index and table agree.  The  *)
(* links of a build are those its request has dealt with.                  *)
Refreshing(r) ==
  req[r].pc \in {"write", "clear", "slug", "attach", "reread", "reindex", "unindex"}
Synced(b) == index[b] = IF Exists(b) THEN <<builds[b].text>> ELSE << >>
LinkedSoFar(r) ==
  \A t \in Techs : [build |-> req[r].build, tech |-> t] \in links <=>
                     \E i \in 1..(req[r].at - 1) : Normalize[req[r].slugs[i]] = t
Working(r) ==
  Active(r) =>
    /\ Exists(req[r].build) <=> req[r].pc # "unindex"
    /\ req[r].pc = "reindex" => req[r].text = builds[req[r].build].text
    /\ req[r].slugs # NoTechs =>
         /\ req[r].pc \in {"slug", "attach", "reread", "reindex"} => LinkedSoFar(r)
         /\ req[r].pc \in {"reread", "reindex"} => req[r].at = Len(req[r].slugs) + 1

SerialInv ==
  /\ OwnInv /\ OnePerBuild /\ NoneTwice
  /\ \A b \in BuildIds : Synced(b) \/ \E r \in Requests : Refreshing(r) /\ req[r].build = b
  /\ \A r \in Requests : Working(r)

(* A step of one request on one build, on which no other request works. *)
LEMMA OneBuildStep ==
  ASSUME SerialInv, OwnInv', OnePerBuild', NoneTwice',
         NEW r \in Requests, NEW b \in BuildIds,
         Active(r) => req[r].build = b,
         \A s \in Requests \ {r} : /\ req'[s] = req[s]
                                   /\ Active(s) => req[s].build # b,
         \A c \in BuildIds \ {b} :
           /\ builds'[c] = builds[c] /\ index'[c] = index[c]
           /\ \A t \in Techs :
                [build |-> c, tech |-> t] \in links' <=> [build |-> c, tech |-> t] \in links,
         Synced(b)' \/ (Refreshing(r)' /\ req'[r].build = b),
         Working(r)'
  PROVE  SerialInv'
<1>1. \A s \in Requests : Active(s) => req[s].build \in BuildIds
  BY DEF SerialInv, OwnInv, TypeOK, Active, Idle, Request
<1>2. ASSUME NEW c \in BuildIds, c # b
      PROVE  Synced(c)' \/ \E s \in Requests : Refreshing(s)' /\ req'[s].build = c
  <2>1. CASE Synced(c)
    BY <1>2, <2>1 DEF Synced, Exists
  <2>2. ASSUME NEW s \in Requests, Refreshing(s), req[s].build = c
        PROVE  Refreshing(s)' /\ req'[s].build = c
    <3>1. Active(s)
      BY <2>2 DEF Refreshing, Active
    <3>2. s # r
      BY <1>2, <2>2, <3>1
    <3>3. QED BY <2>2, <3>2 DEF Refreshing
  <2>3. QED BY <2>1, <2>2 DEF SerialInv
<1>3. ASSUME NEW s \in Requests, s # r PROVE Working(s)'
  <2>1. SUFFICES ASSUME Active(s) PROVE Working(s)'
    BY <1>3 DEF Working, Active
  <2>2. req'[s] = req[s] /\ req[s].build \in BuildIds \ {b} /\ Working(s)
    BY <1>1, <1>3, <2>1 DEF SerialInv
  <2>3. LinkedSoFar(s)' <=> LinkedSoFar(s)
    BY <2>2 DEF LinkedSoFar
  <2>4. QED BY <2>1, <2>2, <2>3 DEF Working, Exists, Active
<1>4. QED BY <1>2, <1>3 DEF SerialInv

(* Nobody works on the build of a request that is accepted, so its index   *)
(* row is right.                                                           *)
LEMMA BeginSerial ==
  ASSUME SerialInv, OwnInv', OnePerBuild', NoneTwice', NEW r \in Requests, Begin(r)
  PROVE  SerialInv'
<1>1. ~Active(r) /\ \A s \in Requests \ {r} : req'[s] = req[s]
  BY DEF SerialInv, OwnInv, TypeOK, Begin, BeginCreate, BeginUpdate, BeginDelete, BeginAddUpdate,
         BeginDropUpdate, Start
<1>2. ASSUME NEW b \in BuildIds, Active(r)', req'[r].build = b
      PROVE  /\ \A s \in Requests \ {r} : Active(s) => req[s].build # b
             /\ Synced(b)
  <2>1. \A s \in Requests \ {r} : Active(s) => req[s].build # b
    BY <1>1, <1>2 DEF OnePerBuild, Active
  <2>2. \A s \in Requests : Refreshing(s) => Active(s)
    BY DEF Refreshing, Active
  <2>3. QED BY <1>1, <2>1, <2>2 DEF SerialInv
<1>3. ASSUME NEW who \in Builders, NEW text \in Texts, NEW slugs \in Payloads,
             BeginCreate(r, who, text, slugs)
      PROVE  SerialInv'
  <2> DEFINE row == [owner |-> who, text |-> text]
  <2>1. PICK b \in BuildIds : b = NewBuildId
    BY <1>3, BoundsAssumption DEF SerialInv, OwnInv, TypeOK, NewBuildId, BuildIds, BeginCreate
  <2>2. req'[r].build = b /\ req'[r].pc = "clear" /\ Active(r)'
    BY <1>3, <2>1 DEF SerialInv, OwnInv, TypeOK, BeginCreate, Start, Active
  <2>3. builds' = [builds EXCEPT ![b] = row] /\ UNCHANGED <<links, index>>
    BY <1>3, <2>1 DEF BeginCreate
  <2>4. row # NoBuild
    BY DistinctAssumption DEF BuildRow
  <2>5. /\ Exists(b)'
        /\ \A c \in BuildIds \ {b} : builds'[c] = builds[c]
    BY <2>1, <2>3, <2>4 DEF SerialInv, OwnInv, TypeOK, Exists
  <2> HIDE DEF row
  <2>6. Refreshing(r)' /\ Working(r)'
    BY <2>2, <2>5 DEF Refreshing, Working, Exists
  <2>7. QED BY <1>1, <1>2, <2>1, <2>2, <2>3, <2>5, <2>6, OneBuildStep
<1>4. ASSUME NEW who \in Builders, NEW b \in BuildIds, Owns(who, b),
             NEW pc \in {"write", "clear", "reread", "remove", "addUpdate", "dropUpdate"},
             NEW text, NEW slugs, NEW u, Start(r, pc, who, b, text, slugs, u),
             pc = "reread" => slugs = NoTechs,
             UNCHANGED <<builds, links, index>>
      PROVE  SerialInv'
  <2>1. /\ req'[r].build = b /\ req'[r].pc = pc /\ req'[r].slugs = slugs /\ Active(r)'
    BY <1>4 DEF SerialInv, OwnInv, TypeOK, Start, Active
  <2>2. Synced(b)'
    BY <1>2, <1>4, <2>1 DEF Synced, Exists
  <2>3. Working(r)'
    BY <1>4, <2>1 DEF Working, Owns, Exists
  <2>4. QED BY <1>1, <1>2, <1>4, <2>1, <2>2, <2>3, OneBuildStep
<1>5. ASSUME NEW who \in Builders, NEW b \in BuildIds,
             NEW text \in Texts \cup {NoText}, NEW slugs \in Payloads \cup {NoTechs},
             BeginUpdate(r, who, b, text, slugs)
      PROVE  SerialInv'
  <2>1. PICK pc \in {"write", "clear", "reread"} :
          Start(r, pc, who, b, text, slugs, 0) /\ (pc = "reread" => slugs = NoTechs)
    BY <1>5 DEF BeginUpdate
  <2>2. QED BY <1>4, <1>5, <2>1 DEF BeginUpdate
<1>6. ASSUME NEW who \in Builders, NEW b \in BuildIds,
             \/ BeginDelete(r, who, b) \/ BeginAddUpdate(r, who, b)
             \/ \E u \in UpdateIds : BeginDropUpdate(r, who, b, u)
      PROVE  SerialInv'
  BY <1>4, <1>6 DEF BeginDelete, BeginAddUpdate, BeginDropUpdate
<1>7. QED BY <1>3, <1>5, <1>6 DEF Begin

(* The loop of syncTechnologies: when it has dealt with the slugs before i  *)
(* the links are theirs, at its end those of the whole body.               *)
LEMMA LoopSerial ==
  ASSUME SerialInv, OwnInv', OnePerBuild', NoneTwice',
         NEW r \in Requests, NEW b \in BuildIds, Active(r), req[r].build = b,
         \A s \in Requests \ {r} : Active(s) => req[s].build # b,
         req[r].slugs \in Payloads, NEW i \in Nat \ {0}, i <= Len(req[r].slugs) + 1,
         Exists(b), ToSlug(r, i), UNCHANGED <<builds, index>>,
         \A c \in BuildIds \ {b} : \A t \in Techs :
           [build |-> c, tech |-> t] \in links' <=> [build |-> c, tech |-> t] \in links,
         \A t \in Techs : [build |-> b, tech |-> t] \in links' <=>
                            \E j \in 1..(i - 1) : Normalize[req[r].slugs[j]] = t
  PROVE  SerialInv'
<1>1. req[r] \in Request /\ Len(req[r].slugs) \in Nat
  BY PayloadAssumption DEF SerialInv, OwnInv, TypeOK, Active, Idle
<1>2. /\ \A s \in Requests \ {r} : req'[s] = req[s]
      /\ req'[r].build = b /\ req'[r].slugs = req[r].slugs /\ req'[r].at = i
      /\ req'[r].pc = IF i > Len(req[r].slugs) THEN "reread" ELSE "slug"
  BY <1>1 DEF ToSlug, SerialInv, OwnInv, TypeOK, Request
<1>3. Refreshing(r)'
  BY <1>2 DEF Refreshing
<1>4. Working(r)'
  <2>1. LinkedSoFar(r)'
    BY <1>2 DEF LinkedSoFar
  <2>2. req'[r].pc = "reread" => i = Len(req'[r].slugs) + 1
    BY <1>1, <1>2
  <2>3. QED BY <1>2, <2>1, <2>2 DEF Working, Exists
<1>5. QED BY <1>2, <1>3, <1>4, OneBuildStep

(* A body that names no technology twice is never refused a link. *)
LEMMA NoRefusal ==
  ASSUME SerialInv, NEW r \in Requests
  PROVE  ~LinkRefused(r) /\ ~NilDeref(r) /\ ~RemoveNothing(r)
<1>1. ASSUME LinkRefused(r) PROVE FALSE
  <2> DEFINE l == [build |-> req[r].build, tech |-> Slug(r)]
  <2>1. /\ Active(r) /\ Prepared(req[r]) /\ req[r].pc = "attach" /\ ~CanLink(l)
        /\ req[r] \in Request
    BY <1>1 DEF LinkRefused, SerialInv, OwnInv, TypeOK, Active, Idle
  <2>2. Working(r) /\ req[r].slugs \in Payloads /\ req[r].slugs # NoTechs
    BY <2>1, DistinctAssumption DEF Prepared, SerialInv
  <2>3. Exists(req[r].build) /\ LinkedSoFar(r)
    BY <2>1, <2>2 DEF Working
  <2>4. Slug(r) \in Techs /\ req[r].at \in DOMAIN req[r].slugs
        /\ DOMAIN req[r].slugs = 1..Len(req[r].slugs) /\ Len(req[r].slugs) \in Nat
    BY <2>1, <2>2, PayloadAssumption DEF Prepared, Slug
  <2>5. l \in links
    BY <2>1, <2>3 DEF CanLink
  <2>6. PICK i \in 1..(req[r].at - 1) : Normalize[req[r].slugs[i]] = Slug(r)
    BY <2>3, <2>4, <2>5 DEF LinkedSoFar
  <2>7. NamesOnce(req[r].slugs) /\ Slug(r) # Blank
    BY <2>1, <2>2, <2>4, DistinctAssumption DEF SerialInv, NoneTwice
  <2>8. i = req[r].at
    BY <2>4, <2>6, <2>7 DEF NamesOnce, Slug
  <2>9. QED BY <2>1, <2>4, <2>6, <2>8
<1>2. QED BY <1>1 DEF NilDeref, RemoveNothing, SerialInv, Working, Active

LEMMA StepSerial ==
  ASSUME SerialInv, OwnInv', OnePerBuild', NoneTwice', NEW r \in Requests, Step(r)
  PROVE  SerialInv'
<1>1. Active(r)
  BY DEF Step, Active, WriteRow, ClearLinks, SkipBlank, UpsertTech, InsertLink,
         LinkRefused, Reread, NilDeref, Reindex, RemoveRows, DeleteRows, RemoveNothing,
         Unindex, AddUpdate, DropUpdate
<1>2. req[r] \in Request /\ Prepared(req[r]) /\ Working(r)
  BY <1>1 DEF SerialInv, OwnInv, TypeOK, Active, Idle
<1>3. PICK b \in BuildIds : req[r].build = b
  BY <1>2 DEF Request
<1>4. \A s \in Requests \ {r} : Active(s) => req[s].build # b
  BY <1>1, <1>3 DEF SerialInv, OnePerBuild
<1>5. ASSUME Answer(r) PROVE Working(r)' /\ \A s \in Requests \ {r} : req'[s] = req[s]
  BY <1>5 DEF Answer, Working, Active, Idle, SerialInv, OwnInv, TypeOK
<1>6. ASSUME Synced(b), UNCHANGED <<builds, index>> PROVE Synced(b)'
  BY <1>6 DEF Synced, Exists
<1>7. \/ Refreshing(r) \/ Synced(b)
  BY <1>3, <1>4 DEF SerialInv, Refreshing, Active
<1>8. req[r].slugs \in Payloads => /\ req[r].slugs # NoTechs
                                   /\ DOMAIN req[r].slugs = 1..Len(req[r].slugs)
                                   /\ Len(req[r].slugs) \in Nat
  BY PayloadAssumption, DistinctAssumption
<1>9. CASE WriteRow(r)
  <2>1. Exists(b) /\ UNCHANGED <<links, index>>
    BY <1>1, <1>2, <1>3, <1>9 DEF WriteRow, Working
  <2>2. /\ req'[r].build = b /\ req'[r].slugs = req[r].slugs
        /\ req'[r].pc \in {"clear", "reread"} /\ (req'[r].pc = "reread" => req[r].slugs = NoTechs)
        /\ \A s \in Requests \ {r} : req'[s] = req[s]
    BY <1>2, <1>3, <1>9 DEF WriteRow, SerialInv, OwnInv, TypeOK, Request
  <2>3. Exists(b)'
    <3>1. builds[b] \in BuildRow /\ req[r].text \in Texts
      BY <1>2, <1>9, <2>1 DEF WriteRow, Prepared, SerialInv, OwnInv, TypeOK, Exists
    <3>2. [builds[b] EXCEPT !.text = req[r].text] # NoBuild
      BY <3>1, DistinctAssumption DEF BuildRow
    <3>3. QED BY <1>3, <1>9, <2>1, <3>2 DEF WriteRow, Exists, SerialInv, OwnInv, TypeOK
  <2>4. Refreshing(r)' /\ Working(r)'
    BY <2>2, <2>3 DEF Refreshing, Working, Exists
  <2>5. \A c \in BuildIds \ {b} : builds'[c] = builds[c]
    BY <1>3, <1>9 DEF WriteRow, SerialInv, OwnInv, TypeOK
  <2>6. QED BY <1>3, <1>4, <2>1, <2>2, <2>4, <2>5, OneBuildStep
<1>10. CASE ClearLinks(r)
  <2>1. req[r].slugs \in Payloads /\ Exists(b)
    BY <1>1, <1>2, <1>3, <1>10 DEF ClearLinks, Prepared, Working
  <2>2. links' = links \ LinksOf(b) /\ ToSlug(r, 1) /\ UNCHANGED <<builds, index>>
    BY <1>3, <1>10 DEF ClearLinks
  <2>3. /\ \A t \in Techs : [build |-> b, tech |-> t] \notin links'
        /\ \A c \in BuildIds \ {b} : \A t \in Techs :
             [build |-> c, tech |-> t] \in links' <=> [build |-> c, tech |-> t] \in links
    BY <2>2 DEF LinksOf
  <2>4. QED BY <1>1, <1>3, <1>4, <1>8, <2>1, <2>2, <2>3, LoopSerial
<1>11. CASE SkipBlank(r) \/ InsertLink(r)
  <2>1. /\ req[r].slugs \in Payloads /\ Exists(b) /\ LinkedSoFar(r)
        /\ req[r].at \in 1..Len(req[r].slugs)
    BY <1>1, <1>2, <1>3, <1>8, <1>11 DEF SkipBlank, InsertLink, Prepared, Working
  <2>2. ToSlug(r, req[r].at + 1) /\ UNCHANGED <<builds, index>>
    BY <1>11 DEF SkipBlank, InsertLink
  <2>3. /\ \A t \in Techs : [build |-> b, tech |-> t] \in links' <=>
             \/ [build |-> b, tech |-> t] \in links
             \/ Normalize[req[r].slugs[req[r].at]] = t
        /\ \A c \in BuildIds \ {b} : \A t \in Techs :
             [build |-> c, tech |-> t] \in links' <=> [build |-> c, tech |-> t] \in links
    <3>1. CASE SkipBlank(r)
      BY <3>1, DistinctAssumption DEF SkipBlank, Slug
    <3>2. CASE InsertLink(r)
      BY <1>3, <3>2 DEF InsertLink, Slug
    <3>3. QED BY <1>11, <3>1, <3>2
  <2>4. PICK i \in Nat \ {0} : i = req[r].at + 1 /\ i <= Len(req[r].slugs) + 1
    <3>1. ASSUME NEW n \in Nat, NEW at \in 1..n PROVE at + 1 \in Nat \ {0} /\ at + 1 <= n + 1
      OBVIOUS
    <3>2. Len(req[r].slugs) \in Nat
      BY <1>8, <2>1
    <3>3. QED BY <2>1, <3>1, <3>2
  <2>5. \A j : j \in 1..(i - 1) <=> j \in 1..(req[r].at - 1) \/ j = req[r].at
    BY <1>8, <2>1, <2>4
  <2>6. \A t \in Techs : [build |-> b, tech |-> t] \in links' <=>
          \E j \in 1..(i - 1) : Normalize[req[r].slugs[j]] = t
    BY <1>3, <2>1, <2>3, <2>5 DEF LinkedSoFar
  <2>7. QED BY <1>1, <1>3, <1>4, <2>1, <2>2, <2>3, <2>4, <2>6, LoopSerial
<1>12. CASE UpsertTech(r)
  <2>1. /\ req'[r] = [req[r] EXCEPT !.pc = "attach"] /\ UNCHANGED <<builds, index, links>>
        /\ \A s \in Requests \ {r} : req'[s] = req[s]
    BY <1>12 DEF UpsertTech, Goto, SerialInv, OwnInv, TypeOK
  <2>2. /\ req'[r].pc = "attach" /\ req'[r].build = b
        /\ req'[r].slugs = req[r].slugs /\ req'[r].at = req[r].at
    BY <1>2, <1>3, <2>1 DEF Request
  <2>3. Refreshing(r)' /\ (LinkedSoFar(r) => LinkedSoFar(r)')
    BY <1>3, <2>1, <2>2 DEF Refreshing, LinkedSoFar
  <2>4. Working(r)'
    BY <1>1, <1>2, <1>3, <1>12, <2>1, <2>2, <2>3 DEF Working, Exists, UpsertTech
  <2>5. QED BY <1>3, <1>4, <2>1, <2>2, <2>3, <2>4, OneBuildStep
<1>13. CASE Reread(r)
  <2>1. /\ req'[r] = [req[r] EXCEPT !.pc = "reindex", !.text = builds[b].text]
        /\ UNCHANGED <<builds, index, links>>
        /\ \A s \in Requests \ {r} : req'[s] = req[s]
    BY <1>3, <1>13 DEF Reread, SerialInv, OwnInv, TypeOK
  <2>2. /\ req'[r].pc = "reindex" /\ req'[r].build = b /\ req'[r].text = builds[b].text
        /\ req'[r].slugs = req[r].slugs /\ req'[r].at = req[r].at
    BY <1>2, <1>3, <2>1 DEF Request
  <2>3. Refreshing(r)' /\ (LinkedSoFar(r) => LinkedSoFar(r)')
    BY <1>3, <2>1, <2>2 DEF Refreshing, LinkedSoFar
  <2>4. Working(r)'
    BY <1>1, <1>2, <1>3, <1>13, <2>1, <2>2, <2>3 DEF Working, Exists, Reread
  <2>5. QED BY <1>3, <1>4, <2>1, <2>2, <2>3, <2>4, OneBuildStep
<1>14. CASE Reindex(r)
  <2>1. /\ Answer(r) /\ UNCHANGED <<builds, links>> /\ Exists(b)
        /\ index' = [index EXCEPT ![b] = <<builds[b].text>>]
    BY <1>1, <1>2, <1>3, <1>14 DEF Reindex, Working
  <2>2. Synced(b)' /\ \A c \in BuildIds \ {b} : index'[c] = index[c]
    BY <2>1 DEF SerialInv, OwnInv, TypeOK, Synced, Exists
  <2>3. QED BY <1>3, <1>4, <1>5, <2>1, <2>2, OneBuildStep
<1>15. CASE RemoveRows(r)
  <2>1. /\ builds' = [builds EXCEPT ![b] = NoBuild] /\ index' = index
        /\ req' = [req EXCEPT ![r].pc = "unindex"]
    BY <1>3, <1>15 DEF RemoveRows, DeleteRows, Goto
  <2>2. \A c \in BuildIds \ {b} : \A t \in Techs :
          [build |-> c, tech |-> t] \in links' <=> [build |-> c, tech |-> t] \in links
    BY <1>3, <1>15 DEF RemoveRows, DeleteRows, LinksOf
  <2>3. /\ req'[r].pc = "unindex" /\ req'[r].build = b
        /\ \A s \in Requests \ {r} : req'[s] = req[s]
        /\ \A c \in BuildIds \ {b} : builds'[c] = builds[c]
        /\ ~Exists(b)'
    BY <1>2, <1>3, <2>1 DEF SerialInv, OwnInv, TypeOK, Request, Exists
  <2>4. Refreshing(r)' /\ Working(r)'
    BY <2>3 DEF Refreshing, Working, Exists
  <2>5. QED BY <1>3, <1>4, <2>1, <2>2, <2>3, <2>4, OneBuildStep
<1>16. CASE Unindex(r)
  <2>1. /\ Answer(r) /\ UNCHANGED <<builds, links>> /\ ~Exists(b)
        /\ index' = [index EXCEPT ![b] = << >>]
    BY <1>1, <1>2, <1>3, <1>16 DEF Unindex, Working
  <2>2. Synced(b)' /\ \A c \in BuildIds \ {b} : index'[c] = index[c]
    BY <2>1 DEF SerialInv, OwnInv, TypeOK, Synced, Exists
  <2>3. QED BY <1>3, <1>4, <1>5, <2>1, <2>2, OneBuildStep
<1>17. CASE AddUpdate(r) \/ DropUpdate(r)
  <2>1. Answer(r) /\ UNCHANGED <<builds, links, index>> /\ ~Refreshing(r)
    BY <1>17 DEF AddUpdate, DropUpdate, Refreshing
  <2>2. Synced(b)'
    BY <1>6, <1>7, <2>1
  <2>3. QED BY <1>3, <1>4, <1>5, <2>1, <2>2, OneBuildStep
<1>18. QED BY <1>9, <1>10, <1>11, <1>12, <1>13, <1>14, <1>15, <1>16, <1>17, NoRefusal DEF Step

LEMMA SerialIsNext == SerialNext => Next
BY DEF SerialNext, Next

LEMMA SerialStep == SerialInv /\ [SerialNext]_vars => SerialInv'
<1> SUFFICES ASSUME SerialInv, [SerialNext]_vars PROVE SerialInv'
  OBVIOUS
<1>1. OwnInv'
  BY SerialIsNext, NextKeepsOwnership DEF SerialInv
<1>2. CASE UNCHANGED vars
  BY <1>2 DEF SerialInv, OwnInv, TypeOK, IdsGiven, OwnershipHeld, Owns, OnePerBuild, NoneTwice,
         Synced, Refreshing, Working, LinkedSoFar, Exists, Active, vars
<1>3. CASE Restart /\ index' = RebuiltIndex /\ OnePerBuild' /\ NoneTwice'
  <2>1. ASSUME NEW b \in BuildIds PROVE Synced(b)'
    BY <1>3 DEF Restart, RebuiltIndex, Synced, Exists
  <2>2. \A r \in Requests : Working(r)'
    BY <1>3 DEF Restart, Working, Active, Idle
  <2>3. QED BY <1>1, <1>3, <2>1, <2>2 DEF SerialInv
<1>4. QED BY <1>1, <1>2, <1>3, BeginSerial, StepSerial DEF SerialNext

LEMMA InitSerial == Init => SerialInv
<1>1. Init => OwnInv
  BY BoundsAssumption
     DEF Init, OwnInv, TypeOK, IdsGiven, OwnershipHeld, Owns, Exists, Active,
         BuildIds, Prepared, Idle
<1>2. QED BY <1>1 DEF Init, SerialInv, OnePerBuild, NoneTwice, Synced, Working, Exists, Active, Idle

LEMMA SerialSyncs ==
  ASSUME SerialInv
  PROVE  IndexInSync
<1>1. ASSUME NEW b \in BuildIds, Quiet(b) PROVE Synced(b)
  BY <1>1 DEF SerialInv, Quiet, Refreshing, Active
<1>2. QED BY <1>1 DEF Synced, IndexInSync, LiveIndexInSync

LEMMA SerialLinks ==
  ASSUME SerialInv
  PROVE  LinksAsAsked
<1> SUFFICES ASSUME NEW r \in Requests, req[r].pc = "reindex", req[r].slugs # NoTechs
             PROVE  {l.tech : l \in LinksOf(req[r].build)}
                      = {Normalize[req[r].slugs[i]] : i \in DOMAIN req[r].slugs} \ {Blank}
  BY DEF LinksAsAsked
<1>1. Active(r) /\ req[r] \in Request /\ Working(r)
  BY DEF SerialInv, OwnInv, TypeOK, Active, Idle
<1>2. PICK b \in BuildIds : req[r].build = b
  BY <1>1 DEF Request
<1>3. PICK slugs \in Payloads : req[r].slugs = slugs
  BY <1>1 DEF Request
<1>4. /\ slugs \in Seq(Slugs) /\ DOMAIN slugs = 1..Len(slugs) /\ Len(slugs) \in Nat
      /\ \A i \in DOMAIN slugs : Normalize[slugs[i]] \in Techs \cup {Blank}
  BY PayloadAssumption
<1>5. \A t \in Techs : [build |-> b, tech |-> t] \in links <=>
                         \E i \in DOMAIN slugs : Normalize[slugs[i]] = t
  BY <1>1, <1>2, <1>3, <1>4 DEF Working, LinkedSoFar
<1>6. \A l \in links : l.tech \in Techs /\ l = [build |-> l.build, tech |-> l.tech]
  BY DEF SerialInv, OwnInv, TypeOK
<1>7. ASSUME NEW l \in LinksOf(b)
      PROVE  l.tech \in {Normalize[slugs[i]] : i \in DOMAIN slugs} \ {Blank}
  BY <1>5, <1>6, DistinctAssumption DEF LinksOf
<1>8. ASSUME NEW i \in DOMAIN slugs, Normalize[slugs[i]] # Blank
      PROVE  \E l \in LinksOf(b) : l.tech = Normalize[slugs[i]]
  <2>1. [build |-> b, tech |-> Normalize[slugs[i]]] \in links
    BY <1>4, <1>5, <1>8
  <2>2. QED BY <2>1 DEF LinksOf
<1>9. QED BY <1>2, <1>3, <1>7, <1>8

(* In a serial behaviour a request that writes a link or an update works   *)
(* on a build that is there, and Delete takes the children with the row.   *)
LEMMA ChildrenKeepParents ==
  ASSUME SerialInv, SerialInv', NoOrphanRows, [SerialNext]_vars
  PROVE  NoOrphanRows'
<1>1. CASE links' \subseteq links /\ updates' \subseteq updates
           /\ \A b \in BuildIds : Exists(b) => Exists(b)'
  BY <1>1 DEF SerialInv, OwnInv, TypeOK, NoOrphanRows
<1>2. ASSUME NEW r \in Requests, InsertLink(r) \/ AddUpdate(r) PROVE NoOrphanRows'
  <2>1. Exists(req[r].build) /\ builds' = builds
    BY <1>2 DEF InsertLink, AddUpdate, SerialInv, Working, Active
  <2>2. /\ \A l \in links' : l \in links \/ l.build = req[r].build
        /\ \A u \in updates' : u \in updates \/ u.build = req[r].build
    BY <1>2 DEF InsertLink, AddUpdate
  <2>3. QED BY <2>1, <2>2 DEF NoOrphanRows, Exists
<1>3. ASSUME NEW r \in Requests, RemoveRows(r) PROVE NoOrphanRows'
  <2> DEFINE b == req[r].build
  <2>1. links' = links \ LinksOf(b) /\ updates' = updates \ UpdatesOf(b)
    BY <1>3 DEF RemoveRows, DeleteRows
  <2>2. \A c \in BuildIds : c # b /\ Exists(c) => Exists(c)'
    BY <1>3 DEF SerialInv, OwnInv, TypeOK, RemoveRows, DeleteRows, Exists
  <2>3. /\ \A l \in links' : l \in links /\ l.build # b
        /\ \A u \in updates' : u \in updates /\ u.build # b
    BY <2>1 DEF LinksOf, UpdatesOf
  <2>4. QED BY <2>2, <2>3 DEF SerialInv, OwnInv, TypeOK, NoOrphanRows
<1>4. ASSUME NEW r \in Requests, Begin(r) PROVE NoOrphanRows'
  <2>1. links' = links /\ updates' = updates
    BY <1>4 DEF Begin, BeginCreate, BeginUpdate, BeginDelete, BeginAddUpdate, BeginDropUpdate
  <2>2. CASE builds' = builds
    BY <1>1, <2>1, <2>2 DEF Exists
  <2>3. ASSUME NEW who \in Builders, NEW text \in Texts, NEW slugs \in Payloads,
               BeginCreate(r, who, text, slugs)
        PROVE  NoOrphanRows'
    <3>1. [owner |-> who, text |-> text] # NoBuild
      BY DistinctAssumption DEF BuildRow
    <3>2. \A b \in BuildIds : Exists(b) => Exists(b)'
      BY <2>3, <3>1 DEF SerialInv, OwnInv, TypeOK, BeginCreate, Exists
    <3>3. QED BY <1>1, <2>1, <3>2
  <2>4. QED BY <1>4, <2>2, <2>3 DEF Begin, BeginUpdate, BeginDelete, BeginAddUpdate,
                                    BeginDropUpdate
<1>5. ASSUME NEW r \in Requests, WriteRow(r) PROVE NoOrphanRows'
  <2>1. /\ req[r] \in Request /\ req[r].text \in Texts /\ Exists(req[r].build)
        /\ builds' = [builds EXCEPT ![req[r].build].text = req[r].text]
    BY <1>5 DEF WriteRow, SerialInv, OwnInv, TypeOK, Idle, Prepared, Working, Active
  <2>2. [builds[req[r].build] EXCEPT !.text = req[r].text] # NoBuild
    <3>1. builds[req[r].build] \in BuildRow
      BY <2>1 DEF SerialInv, OwnInv, TypeOK, Exists, Request
    <3>2. [builds[req[r].build] EXCEPT !.text = req[r].text] \in BuildRow
      BY <2>1, <3>1 DEF BuildRow
    <3>3. QED BY <3>2, DistinctAssumption
  <2>3. \A b \in BuildIds : Exists(b) => Exists(b)'
    BY <2>1, <2>2 DEF SerialInv, OwnInv, TypeOK, Exists
  <2>4. QED BY <1>1, <1>5, <2>3 DEF WriteRow
<1>6. ASSUME NEW r \in Requests, Step(r), ~InsertLink(r), ~AddUpdate(r), ~RemoveRows(r),
             ~WriteRow(r)
      PROVE  NoOrphanRows'
  <2>1. builds' = builds /\ links' \subseteq links /\ updates' \subseteq updates
    BY <1>6 DEF Step, ClearLinks, SkipBlank, UpsertTech, LinkRefused, Reread, NilDeref,
                Reindex, RemoveNothing, Unindex, DropUpdate
  <2>2. QED BY <1>1, <2>1 DEF Exists
<1>7. CASE Restart \/ UNCHANGED vars
  BY <1>1, <1>7 DEF Restart, vars, Exists
<1>8. QED BY <1>2, <1>3, <1>4, <1>5, <1>6, <1>7 DEF SerialNext

(* What a behaviour of SerialBuilds keeps while it is a serial one. *)
LEMMA EitherKind == MCSpec => [](serial => SerialInv /\ NoOrphanRows)
<1>1. MCInit => (serial => SerialInv /\ NoOrphanRows)
  BY InitSerial DEF MCInit, Init, NoOrphanRows
<1>2. (serial => SerialInv /\ NoOrphanRows) /\ [MCNext]_<<vars, serial>>
        => (serial => SerialInv /\ NoOrphanRows)'
  BY SerialStep, ChildrenKeepParents DEF MCNext
<1>3. QED BY <1>1, <1>2, PTL DEF MCSpec

(* When the requests on a build follow one another, no statement fails and *)
(* no body names a technology twice, the index follows the table: a build  *)
(* nobody works on is indexed with its text, and a deleted one is not      *)
(* there, also after a restart in the middle of a request                  *)
(* (handler/build.go:117, 177; cmd/server/main.go:59).                     *)
THEOREM SerialIndex == MCSpec => []SerialIndexInSync
BY EitherKind, SerialSyncs, PTL DEF SerialIndexInSync

(* No link and no update is left without its build, although the driver    *)
(* does not enforce the foreign keys: it takes an overlapping request, or  *)
(* a failing statement of Delete, to leave one (store/build.go:420-424).   *)
THEOREM SerialParents == MCSpec => []SerialNoOrphans
BY EitherKind, PTL DEF SerialNoOrphans

(* And what a create or an update answers has exactly the links its body   *)
(* asked for (store/build.go:294).                                         *)
THEOREM SerialLinksRight == MCSpec => []SerialLinksAsAsked
BY EitherKind, SerialLinks, PTL DEF SerialLinksAsAsked

(* No PUT of a serial behaviour finds its build gone when it reads it      *)
(* again: the nil dereference (handler/build.go:177) takes an overlapping  *)
(* delete.                                                                 *)
THEOREM SerialAnswers == SerialSpec => UpdateAnswered
<1>1. SerialInv /\ [SerialNext]_vars => [\A r \in Requests : ~NilDeref(r)]_vars
  BY NoRefusal
<1>2. QED BY <1>1, InitSerial, SerialStep, PTL DEF SerialSpec, UpdateAnswered

-----------------------------------------------------------------------------
(* Progress.  The statements a request has left at most: two for each slug *)
(* that is still to come, and those before and after the loop.             *)
Slots(q) == IF q.slugs = NoTechs THEN 0 ELSE Len(q.slugs)
Left(q) ==
  CASE q.pc = "write" -> 2 * Slots(q) + 4
    [] q.pc = "clear" -> 2 * Slots(q) + 3
    [] q.pc = "slug" -> 2 * (Slots(q) - q.at) + 4
    [] q.pc = "attach" -> 2 * (Slots(q) - q.at) + 3
    [] q.pc \in {"reread", "remove"} -> 2
    [] q.pc \in {"reindex", "unindex", "addUpdate", "dropUpdate"} -> 1
    [] OTHER -> 0
Nearer(r) == Left(req'[r]) \in 0..(Left(req[r]) - 1)

(* What a request has left is a number, which is zero when it is over. *)
LEMMA LeftIsCount ==
  ASSUME TypeOK, NEW r \in Requests
  PROVE  /\ Left(req[r]) \in Nat
         /\ Active(r) <=> Left(req[r]) > 0
         /\ Active(r) /\ req[r].slugs # NoTechs => Slots(req[r]) = Len(req[r].slugs)
         /\ Slots(req[r]) \in Nat \/ ~Active(r)
         /\ req[r].pc \in {"slug", "attach"} => req[r].at \in 1..Slots(req[r])
<1>1. CASE ~Active(r)
  BY <1>1 DEF Left, Active
<1>2. CASE Active(r)
  <2>1. req[r] \in Request /\ Prepared(req[r]) /\ req[r].pc \in Steps
    BY <1>2, ActiveIsRequest DEF TypeOK, ReqOK, Request
  <2>2. PICK slugs \in Payloads \cup {NoTechs} : req[r].slugs = slugs
    BY <2>1 DEF Request
  <2>3. slugs # NoTechs => Len(slugs) \in Nat /\ DOMAIN slugs = 1..Len(slugs)
    BY PayloadAssumption
  <2>4. Slots(req[r]) \in Nat
    BY <2>2, <2>3 DEF Slots
  <2>5. req[r].pc \in {"slug", "attach"} => req[r].at \in 1..Slots(req[r])
    BY <2>1, <2>2, <2>3, DistinctAssumption DEF Prepared, Slots
  <2>6. Left(req[r]) \in Nat /\ Left(req[r]) > 0
    BY <2>1, <2>4, <2>5 DEF Left, Steps
  <2>7. QED BY <1>2, <2>4, <2>5, <2>6 DEF Slots
<1>3. QED BY <1>1, <1>2

(* On to the next slug, or out of the loop. *)
LEMMA LoopNearer ==
  ASSUME TypeOK, NEW r \in Requests, NEW i \in Nat \ {0}, ToSlug(r, i),
         \/ req[r].pc = "clear" /\ i = 1
         \/ req[r].pc = "slug" /\ i = req[r].at + 1
         \/ req[r].pc = "attach" /\ i = req[r].at + 1
  PROVE  Nearer(r)
<1>1. /\ Active(r) /\ req[r] \in Request /\ req[r].slugs \in Payloads
      /\ req[r].slugs # NoTechs
  BY ActiveIsRequest, DistinctAssumption DEF TypeOK, ReqOK, Active, Prepared
<1> DEFINE n == Len(req[r].slugs)
           q == [req[r] EXCEPT !.at = i, !.pc = IF i > n THEN "reread" ELSE "slug"]
<1>2. Slots(req[r]) = n /\ n \in Nat /\ (req[r].pc \in {"slug", "attach"} => req[r].at \in 1..n)
  BY <1>1, LeftIsCount
<1>3. /\ q.slugs = req[r].slugs /\ q.at = i
      /\ q.pc = IF i > n THEN "reread" ELSE "slug"
  BY <1>1 DEF Request
<1>4. req' = [req EXCEPT ![r] = q]
  BY DEF ToSlug
<1> HIDE DEF q
<1>5. req'[r] = q
  BY <1>4 DEF TypeOK
<1>6. Slots(q) = n
  BY <1>1, <1>3 DEF Slots
<1> HIDE DEF n
<1>7. Left(q) \in 0..(Left(req[r]) - 1)
  <2>1. Left(q) = IF i > n THEN 2 ELSE 2 * (n - i) + 4
    BY <1>3, <1>6 DEF Left
  <2>2. CASE req[r].pc = "clear" /\ i = 1
    <3>1. Left(req[r]) = 2 * n + 3
      BY <1>2, <2>2 DEF Left
    <3>2. QED BY <1>2, <2>1, <2>2, <3>1
  <2>3. CASE req[r].pc = "slug" /\ i = req[r].at + 1
    <3>1. Left(req[r]) = 2 * (n - req[r].at) + 4
      BY <1>2, <2>3 DEF Left
    <3>2. QED BY <1>2, <2>1, <2>3, <3>1
  <2>4. CASE req[r].pc = "attach" /\ i = req[r].at + 1
    <3>1. Left(req[r]) = 2 * (n - req[r].at) + 3
      BY <1>2, <2>4 DEF Left
    <3>2. QED BY <1>2, <2>1, <2>4, <3>1
  <2>5. QED BY <2>2, <2>3, <2>4
<1>8. QED BY <1>5, <1>7 DEF Nearer

(* A statement brings its request nearer to its answer. *)
LEMMA StepNearer ==
  ASSUME TypeOK, NEW r \in Requests, Step(r) \/ RemoveLeaving(r) \/ StatementFails(r)
  PROVE  Nearer(r) /\ \A s \in Requests : s # r => req'[s] = req[s]
<1>1. /\ Active(r) /\ req[r] \in Request /\ Prepared(req[r])
      /\ req \in [Requests -> Request \cup {Idle}]
  BY ActiveIsRequest
     DEF TypeOK, ReqOK, Active, Step, StatementFails, WriteRow, ClearLinks, SkipBlank, UpsertTech,
         InsertLink, LinkRefused, Reread, NilDeref, Reindex, RemoveRows, RemoveLeaving,
         DeleteRows, RemoveNothing, Unindex, AddUpdate, DropUpdate
<1>2. \A s \in Requests : s # r => req'[s] = req[s]
  BY <1>1 DEF Step, StatementFails, WriteRow, ClearLinks, SkipBlank, UpsertTech,
         InsertLink, LinkRefused, Reread, NilDeref, Reindex, RemoveRows, RemoveLeaving,
         DeleteRows, RemoveNothing, Unindex, AddUpdate, DropUpdate, Answer, Goto, ToSlug
<1> SUFFICES Nearer(r)
  BY <1>2
<1>3. ASSUME Answer(r) PROVE Nearer(r)
  <2>1. Left(req'[r]) = 0
    BY <1>1, <1>3 DEF Answer, Idle, Left
  <2>2. QED BY <1>1, <2>1, LeftIsCount DEF Nearer
<1>4. CASE WriteRow(r)
  <2> DEFINE pc == IF req[r].slugs # NoTechs THEN "clear" ELSE "reread"
             q == [req[r] EXCEPT !.text = NoText, !.pc = pc]
  <2>1. q.pc = pc /\ q.slugs = req[r].slugs
    BY <1>1 DEF Request
  <2>2. req' = [req EXCEPT ![r] = q] /\ req[r].pc = "write"
    BY <1>4 DEF WriteRow
  <2> HIDE DEF q
  <2>3. req'[r] = q /\ Slots(q) = Slots(req[r]) /\ Slots(q) \in Nat
    BY <1>1, <2>1, <2>2, LeftIsCount DEF Slots
  <2>4. Left(q) \in 0..(Left(req[r]) - 1)
    BY <2>1, <2>2, <2>3 DEF Left
  <2>5. QED BY <2>3, <2>4 DEF Nearer
<1>5. CASE ClearLinks(r)
  BY <1>5, LoopNearer DEF ClearLinks
<1>6. CASE SkipBlank(r) \/ InsertLink(r)
  <2>1. req[r].at + 1 \in Nat \ {0} /\ req[r].pc \in {"slug", "attach"} /\ ToSlug(r, req[r].at + 1)
    BY <1>1, <1>6 DEF SkipBlank, InsertLink, Request
  <2>2. QED BY <2>1, LoopNearer
<1>7. CASE UpsertTech(r)
  <2> DEFINE q == [req[r] EXCEPT !.pc = "attach"]
  <2>1. q.pc = "attach" /\ q.slugs = req[r].slugs /\ q.at = req[r].at
    BY <1>1 DEF Request
  <2>2. req' = [req EXCEPT ![r] = q] /\ req[r].pc = "slug"
    BY <1>7 DEF UpsertTech, Goto
  <2> HIDE DEF q
  <2>3. /\ req'[r] = q /\ Slots(q) = Slots(req[r]) /\ Slots(q) \in Nat
        /\ req[r].at \in 1..Slots(q)
    BY <1>1, <2>1, <2>2, LeftIsCount DEF Slots
  <2>4. Left(q) \in 0..(Left(req[r]) - 1)
    BY <2>1, <2>2, <2>3 DEF Left
  <2>5. QED BY <2>3, <2>4 DEF Nearer
<1>8. CASE Reread(r) \/ RemoveRows(r) \/ RemoveLeaving(r)
  <2>1. req[r].pc \in {"reread", "remove"} /\ req'[r].pc \in {"reindex", "unindex"}
    BY <1>1, <1>8 DEF Reread, RemoveRows, RemoveLeaving, DeleteRows, Goto, Request
  <2>2. QED BY <2>1 DEF Nearer, Left
<1>9. CASE \/ LinkRefused(r) \/ NilDeref(r) \/ Reindex(r) \/ RemoveNothing(r) \/ Unindex(r)
           \/ AddUpdate(r) \/ DropUpdate(r) \/ StatementFails(r)
  BY <1>3, <1>9 DEF LinkRefused, NilDeref, Reindex, RemoveNothing, Unindex, AddUpdate, DropUpdate,
                    StatementFails
<1>10. QED BY <1>4, <1>5, <1>6, <1>7, <1>8, <1>9 DEF Step

(* No request runs for ever: however many technologies its body names and  *)
(* whatever fails, each of its statements brings it nearer to its answer,  *)
(* and nothing else takes it back.  With the scheduler's fairness this is  *)
(* why EveryRequestEnds holds (store/build.go:294-325).                    *)
THEOREM RequestsAdvance ==
  Spec => [][\A r \in Requests :
               /\ Step(r) \/ RemoveLeaving(r) \/ StatementFails(r) => Nearer(r)
               /\ Active(r) => req'[r] = req[r] \/ Nearer(r)]_vars
<1>1. ASSUME TypeOK, [Next]_vars, NEW r \in Requests
      PROVE  /\ Step(r) \/ RemoveLeaving(r) \/ StatementFails(r) => Nearer(r)
             /\ Active(r) => req'[r] = req[r] \/ Nearer(r)
  <2>1. Step(r) \/ RemoveLeaving(r) \/ StatementFails(r) => Nearer(r)
    BY <1>1, StepNearer
  <2>2. ASSUME NEW s \in Requests, s # r, Begin(s) \/ Step(s) \/ RemoveLeaving(s) \/ StatementFails(s)
        PROVE  req'[r] = req[r]
    <3>1. CASE Begin(s)
      BY <1>1, <2>2, <3>1 DEF Begin, BeginCreate, BeginUpdate, BeginDelete, BeginAddUpdate,
                              BeginDropUpdate, Start, TypeOK
    <3>2. QED BY <1>1, <2>2, <3>1, StepNearer
  <2>3. Begin(r) => ~Active(r)
    BY DEF Begin, BeginCreate, BeginUpdate, BeginDelete, BeginAddUpdate, BeginDropUpdate
  <2>4. ASSUME Restart, Active(r) PROVE Nearer(r)
    <3>1. Left(req'[r]) = 0
      BY <2>4 DEF Restart, Idle, Left
    <3>2. QED BY <1>1, <2>4, <3>1, LeftIsCount DEF Nearer
  <2>5. CASE UNCHANGED vars
    BY <2>1, <2>5 DEF vars
  <2>6. QED BY <1>1, <2>1, <2>2, <2>3, <2>4, <2>5 DEF Next
<1>2. TypeOK /\ [Next]_vars =>
        [\A r \in Requests :
           /\ Step(r) \/ RemoveLeaving(r) \/ StatementFails(r) => Nearer(r)
           /\ Active(r) => req'[r] = req[r] \/ Nearer(r)]_vars
  BY <1>1
<1>3. QED BY <1>2, TypeCorrect, PTL DEF Spec
=============================================================================
