------------------------------- MODULE Search -------------------------------
(***************************************************************************)
(* Full-text search.  A search asks for builders, builds and technologies  *)
(* one after the other; each is looked up in the index first, joined with  *)
(* its live row, and by LIKE over the rows if the index gave nothing.  The *)
(* index is a copy that the handlers of builds maintain after their own    *)
(* statement, that nobody maintains for builders and technologies, and     *)
(* that is built anew at every start of the process.                       *)
(*                                                                         *)
(* What the tokenizer and LIKE make of a text is a constant.  The index of *)
(* a thing is one row at most, as Builds shows (OneIndexRow).              *)
(***************************************************************************)
EXTENDS Integers, FiniteSets

CONSTANTS
  Things,       \* the builders, builds and technologies there may be
  KindOf,       \* what each of them is
  Texts,        \* what is searched of a row: names, descriptions, ...
  None,         \* there is no row yet, or no row in the index
  Gone,         \* the row was deleted; its id is not used again
  Editors,      \* requests that write builds
  Queries,
  Special,      \* the queries of which the sanitizer leaves nothing
  Matching,     \* query -> the texts that its words match in the index
  Containing,   \* query -> the texts that have it as a part
  MaxShown,     \* the LIMIT of the lookups
  Failures      \* statements may fail, and the process may be restarted

EntityKinds == {"builder", "build", "technology"}
Of(kind) == {x \in Things : KindOf[x] = kind}

ASSUME ThingAssumption == IsFiniteSet(Things) /\ KindOf \in [Things -> EntityKinds]
ASSUME QueryAssumption ==
  /\ Special \subseteq Queries
  /\ Matching \in [Queries -> SUBSET Texts] /\ Containing \in [Queries -> SUBSET Texts]
ASSUME SearchBounds == MaxShown \in Nat \ {0} /\ Failures \in BOOLEAN
ASSUME TextAssumption == Gone # None /\ {Gone, None} \cap Texts = {}

VARIABLES
  text,     \* the live rows: what is searched of each
  index,    \* table search_index
  editor,   \* what each request that writes a build is about to do
  search,   \* the search under way, or the last one
  still,    \* history: the things whose row and index nobody wrote since it began
  faulty,   \* history: a statement of the search failed
  lapsed,   \* history: things whose index write never came or failed
  tangled   \* history: builds that two requests wrote at once

searchVars == <<text, index, editor, search, still, faulty, lapsed, tangled>>
catalogue == <<text, index, editor, lapsed, tangled>>

Resting == [pc |-> "rest"]
Editing == [pc : {"reread", "unindex"}, thing : Things] \cup
           [pc : {"upsert"}, thing : Things, text : Texts]
Busy(x) == {e \in Editors : editor[e] # Resting /\ editor[e].thing = x}

NoSearch == [pc |-> "none"]
Nothing == [k \in EntityKinds |-> {}]
Searches == [pc : {"index", "like", "done"}, query : Queries, kind : EntityKinds,
             shown : [EntityKinds -> SUBSET Things]]
Searching == search.pc \in {"index", "like"}

(* The process has just started, and RebuildIndex went well. *)
SearchInit ==
  /\ text \in [Things -> Texts \cup {None}]
  /\ index = text
  /\ editor = [e \in Editors |-> Resting]
  /\ search = NoSearch
  /\ still = {} /\ faulty = FALSE
  /\ lapsed = {} /\ tangled = {}

(***************************************************************************)
(* The writers of rows and of the index.                                   *)
(***************************************************************************)
Write(x) == /\ still' = still \ {x}
            /\ UNCHANGED <<search, faulty>>
Meet(x) == tangled' = IF Busy(x) # {} THEN tangled \cup {x} ELSE tangled
Become(e, s) == editor' = [editor EXCEPT ![e] = s]

(* Create and Update: the row is written, read again and then indexed as   *)
(* it was read.  An UPDATE of a deleted build writes no row and no index.  *)
WriteBuild(e, x, t) ==
  /\ editor[e] = Resting
  /\ KindOf[x] = "build" /\ text[x] # Gone
  /\ text' = [text EXCEPT ![x] = t]
  /\ Become(e, [pc |-> "reread", thing |-> x])
  /\ Meet(x) /\ Write(x)
  /\ UNCHANGED <<index, lapsed>>

(* The read finds the build gone if it was deleted meanwhile. *)
Reread(e) ==
  LET x == editor[e].thing IN
  /\ editor[e].pc = "reread"
  /\ Become(e, IF text[x] \in Texts THEN [pc |-> "upsert", thing |-> x, text |-> text[x]]
               ELSE Resting)
  /\ UNCHANGED <<text, index, search, still, faulty, lapsed, tangled>>

UpsertBuildIndex(e) ==
  LET x == editor[e].thing IN
  /\ editor[e].pc = "upsert"
  /\ index' = [index EXCEPT ![x] = editor[e].text]
  /\ Become(e, Resting)
  /\ Write(x)
  /\ UNCHANGED <<text, lapsed, tangled>>

DeleteRow(e, x) ==
  /\ editor[e] = Resting
  /\ KindOf[x] = "build" /\ text[x] \in Texts
  /\ text' = [text EXCEPT ![x] = Gone]
  /\ Become(e, [pc |-> "unindex", thing |-> x])
  /\ Meet(x) /\ Write(x)
  /\ UNCHANGED <<index, lapsed>>

DeleteIndex(e) ==
  LET x == editor[e].thing IN
  /\ editor[e].pc = "unindex"
  /\ index' = [index EXCEPT ![x] = None]
  /\ Become(e, Resting)
  /\ Write(x)
  /\ UNCHANGED <<text, lapsed, tangled>>

(* A statement of the request fails: whatever it was, the index is not     *)
(* written, and a failing write to the index is only logged.               *)
EditFails(e) ==
  /\ Failures
  /\ editor[e] # Resting
  /\ lapsed' = lapsed \cup {editor[e].thing}
  /\ Become(e, Resting)
  /\ UNCHANGED <<text, index, search, still, faulty, tangled>>

(* A builder signs up or edits the profile, a new technology is named:     *)
(* nothing writes the index.                                               *)
WriteUnindexed(x, t) ==
  /\ KindOf[x] # "build" /\ text[x] # t
  /\ KindOf[x] = "technology" => text[x] = None
  /\ text' = [text EXCEPT ![x] = t]
  /\ lapsed' = lapsed \cup {x}
  /\ Write(x)
  /\ UNCHANGED <<index, editor, tangled>>

(* RebuildIndex empties and fills the index in one transaction before the  *)
(* server listens.  If it fails the server starts with the index it had.   *)
(* RebuiltPeople is a mutant: it leaves the builds out.                    *)
RebuiltPeople == [x \in Things |-> IF KindOf[x] = "build" \/ text[x] = Gone THEN None ELSE text[x]]
Rebuilt == [x \in Things |-> IF text[x] = Gone THEN None ELSE text[x]]

Restart(fails) ==
  /\ Failures
  /\ index' = IF fails THEN index ELSE Rebuilt
  /\ lapsed' = IF fails THEN lapsed \cup {x \in Things : Busy(x) # {}} ELSE {}
  /\ tangled' = IF fails THEN tangled ELSE {}
  /\ editor' = [e \in Editors |-> Resting]
  /\ search' = NoSearch /\ still' = {} /\ faulty' = FALSE
  /\ UNCHANGED text

(***************************************************************************)
(* The search.                                                             *)
(***************************************************************************)
(* What the lookup of a kind in the index gives.  The one of technologies  *)
(* sorts its groups by bm25, which FTS5 refuses as soon as a row matches   *)
(* ("unable to use function bm25 in the requested context"): nothing.      *)
InIndex(kind, q) ==
  {x \in Of(kind) : kind # "technology" /\ text[x] \in Texts /\ index[x] \in Matching[q]}
InRows(kind, q) == {x \in Of(kind) : text[x] \in Containing[q]}

(* What a LIMIT may leave of a result. *)
Cut(S) == {T \in SUBSET S : Cardinality(T) = IF Cardinality(S) > MaxShown THEN MaxShown
                                             ELSE Cardinality(S)}
After(kind) == IF kind = "builder" THEN "build" ELSE "technology"
Step(pc, kind, found) ==
  search' = [search EXCEPT !.pc = pc, !.kind = kind, !.shown[search.kind] = found]
Proceed(found) == IF search.kind = "technology" THEN Step("done", search.kind, found)
                  ELSE Step("index", After(search.kind), found)

(* Of a special query the sanitizer leaves nothing, and nothing is looked  *)
(* up, by LIKE neither.                                                    *)
FirstStep(q) == IF q \in Special THEN "done" ELSE "index"
StartSearch(q) ==
  /\ ~Searching
  /\ search' = [pc |-> FirstStep(q), query |-> q, kind |-> "builder", shown |-> Nothing]
  /\ still' = Things /\ faulty' = FALSE
  /\ UNCHANGED catalogue

(* SearchIndexOnly is a mutant: it does not turn to LIKE. *)
SearchIndexOnly ==
  /\ search.pc = "index"
  /\ \E found \in Cut(InIndex(search.kind, search.query)) : Proceed(found)
  /\ UNCHANGED <<catalogue, still, faulty>>
SearchIndex ==
  /\ search.pc = "index"
  /\ \E found \in Cut(InIndex(search.kind, search.query)) :
       IF found = {} THEN Step("like", search.kind, {}) ELSE Proceed(found)
  /\ UNCHANGED <<catalogue, still, faulty>>

(* The lookup in the index fails, which sends the search to LIKE, or its   *)
(* rows end early, which nobody notices.                                   *)
SearchIndexFails ==
  /\ Failures
  /\ search.pc = "index"
  /\ \E found \in SUBSET InIndex(search.kind, search.query) :
       IF found = {} THEN Step("like", search.kind, {}) ELSE Proceed(found)
  /\ faulty' = TRUE
  /\ UNCHANGED <<catalogue, still>>

SearchLike ==
  /\ search.pc = "like"
  /\ \E found \in Cut(InRows(search.kind, search.query)) : Proceed(found)
  /\ UNCHANGED <<catalogue, still, faulty>>

(* A failing LIKE is a 500; its rows may end early as well. *)
SearchLikeFails ==
  /\ Failures
  /\ search.pc = "like"
  /\ \/ search' = NoSearch
     \/ \E found \in SUBSET InRows(search.kind, search.query) : Proceed(found)
  /\ faulty' = TRUE
  /\ UNCHANGED <<catalogue, still>>

SearchNext ==
  \/ \E e \in Editors : \/ \E x \in Things, t \in Texts : WriteBuild(e, x, t)
                        \/ \E x \in Things : DeleteRow(e, x)
                        \/ Reread(e) \/ UpsertBuildIndex(e) \/ DeleteIndex(e) \/ EditFails(e)
  \/ \E x \in Things, t \in Texts : WriteUnindexed(x, t)
  \/ \E fails \in BOOLEAN : Restart(fails)
  \/ \E q \in Queries : StartSearch(q)
  \/ SearchIndex \/ SearchIndexFails \/ SearchLike \/ SearchLikeFails

SearchSpec == SearchInit /\ [][SearchNext]_searchVars

(***************************************************************************)
(* Properties.                                                             *)
(***************************************************************************)
SearchTypeOK ==
  /\ text \in [Things -> Texts \cup {None, Gone}]
  /\ index \in [Things -> Texts \cup {None}]
  /\ editor \in [Editors -> {Resting} \cup Editing]
  /\ search \in {NoSearch} \cup Searches
  /\ still \subseteq Things /\ faulty \in BOOLEAN
  /\ lapsed \subseteq Things /\ tangled \subseteq Things

Full(kind) == Cardinality(search.shown[kind]) >= MaxShown
Answered == search.pc = "done" /\ search.query \notin Special /\ ~faulty

(* Settled when the search began: no write of it under way, none that      *)
(* overlapped another, and no index write lost since the index was last    *)
(* rebuilt.                                                                *)
Settled(x) == x \in still \ (lapsed \cup tangled) /\ Busy(x) = {}

(* A search finds every builder and build that matches it in the index and *)
(* that was settled when it began, and every technology that contains its  *)
(* words; only the LIMIT may leave it out.  Restarts, failed rebuilds and  *)
(* deletions do not change that (handler/build.go:111-119, 168-177,        *)
(* store/search.go:21, 390-397).                                           *)
Sought(x) ==
  IF KindOf[x] = "technology" THEN x \in still /\ text[x] \in Containing[search.query]
  ELSE Settled(x) /\ text[x] \in Matching[search.query]
SettledIsFound ==
  Answered => \A x \in Things : Sought(x) => x \in search.shown[KindOf[x]] \/ Full(KindOf[x])

(* An answer without a builder, a build or a technology means that there   *)
(* is none that contains the words, indexed or not: what the index lacks   *)
(* is hidden only behind something of its kind that the index has          *)
(* (store/search.go:241-248, 313-317, 393-397).                            *)
EmptyIsHonest ==
  Answered => \A x \in still : search.shown[KindOf[x]] = {} =>
    text[x] \notin Containing[search.query]
=============================================================================
