-------------------------- MODULE CatalogueProofs --------------------------
(***************************************************************************)
(* Theorems about Listing and Search, for every set of builds, writers,    *)
(* things and queries, every length of pages and answers, with and without *)
(* failures.                                                               *)
(***************************************************************************)
EXTENDS Listing, Search, TLAPS, FiniteSetTheorems, WellFoundedInduction

(***************************************************************************)
(* Search.                                                                 *)
(***************************************************************************)
(* What a search may leave out because of its LIMIT. *)
LEMMA CutFacts ==
  ASSUME NEW S, IsFiniteSet(S), NEW found \in Cut(S)
  PROVE  /\ found \subseteq S
         /\ found = S \/ Cardinality(found) >= MaxShown
         /\ found = {} => S = {}
<1>1. found \subseteq S
  BY DEF Cut
<1>2. IsFiniteSet(found) /\ Cardinality(S) \in Nat /\ Cardinality(found) \in Nat
  BY <1>1, FS_Subset, FS_CardinalityType
<1>3. CASE Cardinality(S) > MaxShown
  <2>1. Cardinality(found) = MaxShown
    BY <1>3 DEF Cut
  <2>2. found # {}
    BY <2>1, FS_EmptySet, SearchBounds
  <2>3. QED BY <1>1, <2>1, <2>2, SearchBounds
<1>4. CASE ~(Cardinality(S) > MaxShown)
  <2>1. Cardinality(found) = Cardinality(S)
    BY <1>4 DEF Cut
  <2>2. found = S
    BY <2>1, <1>1, FS_Subset
  <2>3. QED BY <1>1, <2>2
<1>5. QED BY <1>3, <1>4

LEMMA ResultsFinite ==
  ASSUME NEW k, NEW q
  PROVE  /\ IsFiniteSet(InIndex(k, q)) /\ IsFiniteSet(InRows(k, q))
         /\ InIndex(k, q) \subseteq Things /\ InRows(k, q) \subseteq Things
<1>1. InIndex(k, q) \subseteq Things /\ InRows(k, q) \subseteq Things
  BY DEF InIndex, InRows, Of
<1>2. QED BY <1>1, FS_Subset, ThingAssumption

(***************************************************************************)
(* The index follows the rows.  One request at a time writes a build that  *)
(* is neither lapsed nor tangled, and the index agrees with the row unless *)
(* that request is still to write it.                                      *)
(***************************************************************************)
Same(x) == index[x] = IF text[x] \in Texts THEN text[x] ELSE None
Follows(e) ==
  LET x == editor[e].thing IN
  x \notin lapsed \cup tangled =>
    /\ \A f \in Editors : editor[f] # Resting /\ editor[f].thing = x => f = e
    /\ editor[e].pc = "reread" => text[x] \in Texts
    /\ editor[e].pc = "upsert" => editor[e].text = text[x] /\ text[x] \in Texts
    /\ editor[e].pc = "unindex" => text[x] = Gone
Synchrony ==
  /\ \A e \in Editors : editor[e] # Resting => Follows(e)
  /\ \A x \in Things \ (lapsed \cup tangled) : Busy(x) = {} => Same(x)

(* A search has looked up the kinds before the one it is at. *)
LookedUp(k) == \/ search.pc = "done"
               \/ Searching /\ k = "builder" /\ search.kind # "builder"
               \/ Searching /\ k = "build" /\ search.kind = "technology"
Wanted(x) == KindOf[x] # "technology"
             /\ x \in still \ (lapsed \cup tangled) /\ Busy(x) = {}
             /\ text[x] \in Matching[search.query]
Sound(k) ==
  \A x \in Of(k) :
    /\ Wanted(x) => x \in search.shown[k] \/ Full(k)
    /\ x \in still /\ search.shown[k] = {} => text[x] \notin Containing[search.query]
    /\ k = "technology" /\ x \in still /\ text[x] \in Containing[search.query]
         => x \in search.shown[k] \/ Full(k)
Finding ==
  (Searching \/ search.pc = "done") /\ ~faulty /\ search.query \notin Special =>
    /\ \A k \in EntityKinds : LookedUp(k) => Sound(k)
    /\ search.pc = "like" => \A x \in Of(search.kind) : ~Wanted(x)

SearchInv == SearchTypeOK /\ Synchrony /\ Finding

LEMMA EditorKinds ==
  ASSUME SearchTypeOK, NEW e \in Editors
  PROVE  /\ editor[e] # Resting => editor[e].thing \in Things /\ editor[e].pc # "rest"
         /\ editor[e].pc = "upsert" => editor[e].text \in Texts
         /\ editor[e].pc \in {"reread", "unindex", "upsert"} => editor[e] # Resting
<1>1. editor[e] \in {Resting} \cup Editing
  BY DEF SearchTypeOK
<1>2. Resting.pc = "rest"
  BY DEF Resting
<1>3. QED BY <1>1, <1>2 DEF Editing

LEMMA SearchKinds ==
  ASSUME SearchTypeOK
  PROVE  /\ search.pc \in {"index", "like", "done"} => search \in Searches
         /\ search.pc \in {"none", "index", "like", "done"}
<1>1. search \in {NoSearch} \cup Searches
  BY DEF SearchTypeOK
<1>2. NoSearch.pc = "none"
  BY DEF NoSearch
<1>3. QED BY <1>1, <1>2 DEF Searches

LEMMA SearchStarts == SearchInit => SearchInv
<1> SUFFICES ASSUME SearchInit PROVE SearchInv
  OBVIOUS
<1>1. search.pc = "none" /\ \A e \in Editors : editor[e] = Resting
  BY DEF SearchInit, NoSearch
<1>2. SearchTypeOK
  BY DEF SearchInit, SearchTypeOK
<1>3. Synchrony
  BY <1>1, TextAssumption DEF SearchInit, Synchrony, Same, Busy
<1>4. Finding
  BY <1>1 DEF Finding, Searching
<1>5. QED BY <1>2, <1>3, <1>4 DEF SearchInv

(* The steps of a search keep its record well formed. *)
LEMMA StepTypes ==
  ASSUME SearchTypeOK, Searching, NEW found \in SUBSET Things,
         NEW pc \in {"index", "like", "done"}, NEW kind \in EntityKinds,
         Step(pc, kind, found)
  PROVE  search' \in Searches
BY SearchKinds DEF Step, Searches, Searching

LEMMA ProceedTypes ==
  ASSUME SearchTypeOK, Searching, NEW found \in SUBSET Things, Proceed(found)
  PROVE  search' \in Searches
<1>1. search.kind \in EntityKinds /\ After(search.kind) \in EntityKinds
  BY SearchKinds DEF Searches, Searching, After, EntityKinds
<1>2. QED BY <1>1, StepTypes DEF Proceed

LEMMA SearchTypes == SearchTypeOK /\ [SearchNext]_searchVars => SearchTypeOK'
<1> SUFFICES ASSUME SearchTypeOK, [SearchNext]_searchVars PROVE SearchTypeOK'
  OBVIOUS
<1> USE DEF SearchTypeOK
<1>1. ASSUME NEW e \in Editors, NEW x \in Things, NEW t \in Texts, WriteBuild(e, x, t)
      PROVE  SearchTypeOK'
  BY <1>1 DEF WriteBuild, Become, Editing, Meet, Write
<1>2. ASSUME NEW e \in Editors, NEW x \in Things, DeleteRow(e, x) PROVE SearchTypeOK'
  BY <1>2 DEF DeleteRow, Become, Editing, Meet, Write
<1>3. ASSUME NEW e \in Editors, Reread(e) PROVE SearchTypeOK'
  BY <1>3, EditorKinds DEF Reread, Become, Editing
<1>4. ASSUME NEW e \in Editors, UpsertBuildIndex(e) PROVE SearchTypeOK'
  BY <1>4, EditorKinds DEF UpsertBuildIndex, Become, Write
<1>5. ASSUME NEW e \in Editors, DeleteIndex(e) PROVE SearchTypeOK'
  BY <1>5 DEF DeleteIndex, Become, Write
<1>6. ASSUME NEW e \in Editors, EditFails(e) PROVE SearchTypeOK'
  BY <1>6, EditorKinds DEF EditFails, Become
<1>7. ASSUME NEW x \in Things, NEW t \in Texts, WriteUnindexed(x, t) PROVE SearchTypeOK'
  BY <1>7 DEF WriteUnindexed, Write
<1>8. ASSUME NEW fails \in BOOLEAN, Restart(fails) PROVE SearchTypeOK'
  BY <1>8 DEF Restart, Rebuilt
<1>9. ASSUME NEW q \in Queries, StartSearch(q) PROVE SearchTypeOK'
  BY <1>9 DEF StartSearch, FirstStep, Searches, EntityKinds, Nothing, catalogue
<1>10. CASE SearchIndex
  <2>1. PICK found \in Cut(InIndex(search.kind, search.query)) :
          IF found = {} THEN Step("like", search.kind, {}) ELSE Proceed(found)
    BY <1>10 DEF SearchIndex
  <2>2. found \in SUBSET Things
    BY ResultsFinite DEF Cut
  <2>3. Searching /\ search.kind \in EntityKinds
    BY <1>10, SearchKinds DEF SearchIndex, Searching, Searches
  <2>4. search' \in Searches
    BY <2>1, <2>2, <2>3, StepTypes, ProceedTypes
  <2>5. QED BY <2>4, <1>10 DEF SearchIndex, catalogue
<1>11. CASE SearchIndexFails
  <2>1. PICK found \in SUBSET InIndex(search.kind, search.query) :
          IF found = {} THEN Step("like", search.kind, {}) ELSE Proceed(found)
    BY <1>11 DEF SearchIndexFails
  <2>2. found \in SUBSET Things
    BY ResultsFinite
  <2>3. Searching /\ search.kind \in EntityKinds
    BY <1>11, SearchKinds DEF SearchIndexFails, Searching, Searches
  <2>4. search' \in Searches
    BY <2>1, <2>2, <2>3, StepTypes, ProceedTypes
  <2>5. QED BY <2>4, <1>11 DEF SearchIndexFails, catalogue
<1>12. CASE SearchLike
  <2>1. PICK found \in Cut(InRows(search.kind, search.query)) : Proceed(found)
    BY <1>12 DEF SearchLike
  <2>2. found \in SUBSET Things
    BY ResultsFinite DEF Cut
  <2>3. search' \in Searches
    BY <2>1, <2>2, <1>12, ProceedTypes DEF SearchLike, Searching
  <2>4. QED BY <2>3, <1>12 DEF SearchLike, catalogue
<1>13. CASE SearchLikeFails
  <2>1. search' \in {NoSearch} \cup Searches
    BY <1>13, ProceedTypes, ResultsFinite DEF SearchLikeFails, Searching
  <2>2. QED BY <2>1, <1>13 DEF SearchLikeFails, catalogue
<1>14. CASE UNCHANGED searchVars
  BY <1>14 DEF searchVars
<1>15. QED BY <1>1, <1>2, <1>3, <1>4, <1>5, <1>6, <1>7, <1>8, <1>9, <1>10, <1>11, <1>12, <1>13, <1>14
           DEF SearchNext

(* A step in which one request moves. *)
LEMMA OthersStay ==
  ASSUME SearchTypeOK, NEW e \in Editors, NEW s, Become(e, s)
  PROVE  /\ editor'[e] = s
         /\ \A f \in Editors : f # e => editor'[f] = editor[f]
         /\ \A x : Busy(x)' \ {e} = Busy(x) \ {e}
         /\ \A x : e \in Busy(x)' <=> s # Resting /\ s.thing = x
         /\ \A x : e \in Busy(x) <=> editor[e] # Resting /\ editor[e].thing = x
BY DEF SearchTypeOK, Become, Busy

LEMMA SyncAtWrite ==
  ASSUME SearchTypeOK, Synchrony, NEW e \in Editors, NEW x \in Things, NEW s,
         editor[e] = Resting, Become(e, s), s # Resting, s.thing = x, Meet(x),
         \A y \in Things : y # x => text'[y] = text[y] /\ index'[y] = index[y],
         lapsed' = lapsed,
         s.pc = "reread" => text'[x] \in Texts, s.pc # "upsert",
         s.pc = "unindex" => text'[x] = Gone
  PROVE  Synchrony'
<1>1. x \notin tangled' => Busy(x) = {}
  BY DEF Meet
<1>2. tangled \subseteq tangled' /\ tangled' \subseteq tangled \cup {x}
  BY DEF Meet
<1>3. Follows(e)'
  <2> SUFFICES ASSUME x \notin lapsed' \cup tangled'
               PROVE  \A f \in Editors : editor'[f] # Resting /\ editor'[f].thing = x => f = e
    BY OthersStay DEF Follows
  <2>1. Busy(x)' \ {e} = {}
    BY <1>1, OthersStay
  <2>2. QED BY <2>1 DEF Busy
<1>4. ASSUME NEW f \in Editors, f # e, editor'[f] # Resting PROVE Follows(f)'
  <2>1. editor'[f] = editor[f] /\ Follows(f) /\ editor[f].thing \in Things
    BY <1>4, OthersStay, EditorKinds DEF Synchrony
  <2>2. CASE editor[f].thing = x
    <3>1. f \in Busy(x)
      BY <2>1, <2>2, <1>4 DEF Busy
    <3>2. QED BY <3>1, <1>1, <2>1, <2>2 DEF Follows
  <2>3. CASE editor[f].thing # x
    <3>1. \A g \in Editors : editor'[g] # Resting /\ editor'[g].thing = editor[f].thing
             => editor[g] # Resting /\ editor[g].thing = editor[f].thing
      BY OthersStay, <2>3
    <3>2. QED BY <3>1, <2>1, <2>3, <1>2 DEF Follows
  <2>4. QED BY <2>2, <2>3
<1>5. ASSUME NEW y \in Things, y \notin lapsed' \cup tangled', Busy(y)' = {} PROVE Same(y)'
  <2>1. y # x
    BY <1>5, OthersStay
  <2>2. Busy(y) = {}
    BY <2>1, <1>5, OthersStay
  <2>3. QED BY <2>1, <2>2, <1>2, <1>5 DEF Synchrony, Same
<1>6. QED BY <1>3, <1>4, <1>5 DEF Synchrony

(* A request ends: it leaves its build in step, or among the lapsed. *)
LEMMA SyncAtEnd ==
  ASSUME SearchTypeOK, Synchrony, NEW e \in Editors, NEW s, Become(e, s), editor[e] # Resting,
         text' = text, tangled' = tangled, lapsed \subseteq lapsed',
         \A y \in Things : y # editor[e].thing => index'[y] = index[y],
         s = Resting,
         editor[e].thing \notin lapsed' \cup tangled' =>
           index'[editor[e].thing] = IF text[editor[e].thing] \in Texts THEN text[editor[e].thing]
                                     ELSE None
  PROVE  Synchrony'
<1>1. ASSUME NEW f \in Editors, editor'[f] # Resting PROVE Follows(f)'
  <2>1. f # e /\ editor'[f] = editor[f] /\ Follows(f)
    BY <1>1, OthersStay DEF Synchrony
  <2>2. \A g \in Editors : editor'[g] # Resting => editor'[g] = editor[g]
    BY OthersStay
  <2>3. QED BY <2>1, <2>2 DEF Follows
<1>2. ASSUME NEW y \in Things, y \notin lapsed' \cup tangled', Busy(y)' = {} PROVE Same(y)'
  <2>1. CASE y = editor[e].thing
    BY <2>1, <1>2 DEF Same
  <2>2. CASE y # editor[e].thing
    <3>1. Busy(y) = {}
      BY <2>2, <1>2, OthersStay
    <3>2. QED BY <3>1, <2>2, <1>2 DEF Synchrony, Same
  <2>3. QED BY <2>1, <2>2
<1>3. QED BY <1>1, <1>2 DEF Synchrony

(* Steps of the search leave the rows, the index and the requests alone. *)
LEMMA SyncKept ==
  ASSUME SearchTypeOK, Synchrony, UNCHANGED catalogue
  PROVE  Synchrony'
BY DEF catalogue, Synchrony, Follows, Busy, Same

LEMMA SearchSync == SearchTypeOK /\ Synchrony /\ [SearchNext]_searchVars => Synchrony'
<1> SUFFICES ASSUME SearchTypeOK, Synchrony, [SearchNext]_searchVars PROVE Synchrony'
  OBVIOUS
<1>1. ASSUME NEW e \in Editors, NEW x \in Things, NEW t \in Texts, WriteBuild(e, x, t)
      PROVE  Synchrony'
  <2> DEFINE s == [pc |-> "reread", thing |-> x]
  <2>1. s # Resting /\ s.thing = x /\ s.pc = "reread"
    BY DEF Resting
  <2>2. text' = [text EXCEPT ![x] = t] /\ text \in [Things -> Texts \cup {None, Gone}]
    BY <1>1 DEF WriteBuild, SearchTypeOK
  <2>3. QED BY <2>1, <2>2, <1>1, SyncAtWrite DEF WriteBuild
<1>2. ASSUME NEW e \in Editors, NEW x \in Things, DeleteRow(e, x) PROVE Synchrony'
  <2> DEFINE s == [pc |-> "unindex", thing |-> x]
  <2>1. s # Resting /\ s.thing = x /\ s.pc = "unindex"
    BY DEF Resting
  <2>2. text' = [text EXCEPT ![x] = Gone] /\ text \in [Things -> Texts \cup {None, Gone}]
    BY <1>2 DEF DeleteRow, SearchTypeOK
  <2>3. QED BY <2>1, <2>2, <1>2, SyncAtWrite DEF DeleteRow
<1>3. ASSUME NEW e \in Editors, Reread(e) PROVE Synchrony'
  <2> DEFINE x == editor[e].thing
  <2>1. editor[e] # Resting /\ x \in Things /\ Follows(e) /\ editor[e].pc = "reread"
    BY <1>3, EditorKinds DEF Reread, Synchrony
  <2>2. CASE text[x] \in Texts
    <3> DEFINE s == [pc |-> "upsert", thing |-> x, text |-> text[x]]
    <3>1. Become(e, s) /\ UNCHANGED <<text, index, lapsed, tangled>>
      BY <1>3, <2>2 DEF Reread
    <3>2. s # Resting /\ s.thing = x /\ s.pc = "upsert" /\ s.text = text[x]
      BY DEF Resting
    <3>3. \A f \in Editors : /\ editor'[f] # Resting <=> editor[f] # Resting
                             /\ editor[f] # Resting => editor'[f].thing = editor[f].thing
      BY <3>1, <3>2, <2>1, OthersStay
    <3>4. ASSUME NEW f \in Editors, editor'[f] # Resting PROVE Follows(f)'
      <4>1. CASE f = e
        BY <4>1, <3>1, <3>2, <3>3, <2>1, <2>2, OthersStay DEF Follows
      <4>2. CASE f # e
        BY <4>2, <3>1, <3>3, <3>4, OthersStay DEF Follows, Synchrony
      <4>3. QED BY <4>1, <4>2
    <3>5. ASSUME NEW y \in Things PROVE Busy(y)' = Busy(y) /\ Same(y)' = Same(y)
      BY <3>1, <3>3 DEF Busy, Same
    <3>6. QED BY <3>1, <3>4, <3>5 DEF Synchrony
  <2>3. CASE text[x] \notin Texts
    <3>1. Become(e, Resting) /\ UNCHANGED <<text, index, lapsed, tangled>>
      BY <1>3, <2>3 DEF Reread
    <3>2. x \in lapsed' \cup tangled'
      BY <2>1, <2>3, <3>1 DEF Follows
    <3>3. QED BY <3>1, <3>2, <2>1, SyncAtEnd
  <2>4. QED BY <2>2, <2>3
<1>4. ASSUME NEW e \in Editors, UpsertBuildIndex(e) PROVE Synchrony'
  <2> DEFINE x == editor[e].thing
  <2>1. editor[e] # Resting /\ x \in Things /\ Follows(e) /\ editor[e].pc = "upsert"
    BY <1>4, EditorKinds DEF UpsertBuildIndex, Synchrony
  <2>2. index' = [index EXCEPT ![x] = editor[e].text] /\ index \in [Things -> Texts \cup {None}]
    BY <1>4 DEF UpsertBuildIndex, SearchTypeOK
  <2>3. Become(e, Resting) /\ UNCHANGED <<text, lapsed, tangled>>
    BY <1>4 DEF UpsertBuildIndex
  <2>4. x \notin lapsed' \cup tangled' => index'[x] = IF text[x] \in Texts THEN text[x] ELSE None
    BY <2>1, <2>2, <2>3 DEF Follows
  <2>5. QED BY <2>1, <2>2, <2>3, <2>4, SyncAtEnd
<1>5. ASSUME NEW e \in Editors, DeleteIndex(e) PROVE Synchrony'
  <2> DEFINE x == editor[e].thing
  <2>1. editor[e] # Resting /\ x \in Things /\ Follows(e) /\ editor[e].pc = "unindex"
    BY <1>5, EditorKinds DEF DeleteIndex, Synchrony
  <2>2. index' = [index EXCEPT ![x] = None] /\ index \in [Things -> Texts \cup {None}]
    BY <1>5 DEF DeleteIndex, SearchTypeOK
  <2>3. Become(e, Resting) /\ UNCHANGED <<text, lapsed, tangled>>
    BY <1>5 DEF DeleteIndex
  <2>4. x \notin lapsed' \cup tangled' => index'[x] = IF text[x] \in Texts THEN text[x] ELSE None
    BY <2>1, <2>2, <2>3, TextAssumption DEF Follows
  <2>5. QED BY <2>1, <2>2, <2>3, <2>4, SyncAtEnd
<1>6. ASSUME NEW e \in Editors, EditFails(e) PROVE Synchrony'
  BY <1>6, SyncAtEnd DEF EditFails
<1>7. ASSUME NEW x \in Things, NEW t \in Texts, WriteUnindexed(x, t) PROVE Synchrony'
  <2>1. x \in lapsed' /\ lapsed \subseteq lapsed' /\ tangled' = tangled /\ editor' = editor /\ index' = index
    BY <1>7 DEF WriteUnindexed
  <2>2. \A y \in Things : y # x => text'[y] = text[y]
    BY <1>7 DEF WriteUnindexed, SearchTypeOK
  <2>3. \A e \in Editors : editor[e] # Resting => Follows(e)'
    BY <2>1, <2>2, EditorKinds DEF Synchrony, Follows
  <2>4. QED BY <2>1, <2>2, <2>3 DEF Synchrony, Busy, Same
<1>8. ASSUME NEW fails \in BOOLEAN, Restart(fails) PROVE Synchrony'
  <2>1. \A e \in Editors : editor'[e] = Resting
    BY <1>8 DEF Restart
  <2>2. ASSUME NEW y \in Things, y \notin lapsed' \cup tangled' PROVE Same(y)'
    <3>1. CASE fails
      BY <3>1, <2>2, <1>8 DEF Restart, Synchrony, Same
    <3>2. CASE ~fails
      BY <3>2, <1>8, TextAssumption DEF Restart, Rebuilt, Same, SearchTypeOK
    <3>3. QED BY <3>1, <3>2
  <2>3. QED BY <2>1, <2>2 DEF Synchrony
<1>9. CASE UNCHANGED catalogue
  BY <1>9, SyncKept
<1>10. QED BY <1>1, <1>2, <1>3, <1>4, <1>5, <1>6, <1>7, <1>8, <1>9
       DEF SearchNext, StartSearch, SearchIndex, SearchIndexFails, SearchLike, SearchLikeFails,
           searchVars, catalogue

(* What changes the catalogue under a search can only make fewer things    *)
(* wanted.                                                                 *)
LEMMA FindingKept ==
  ASSUME SearchTypeOK, Finding, UNCHANGED <<search, faulty>>, still' \subseteq still,
         \A x \in still' : text'[x] = text[x],
         \A x \in still' : Wanted(x)' => Wanted(x)
  PROVE  Finding'
<1>1. ASSUME NEW k \in EntityKinds, Sound(k) PROVE Sound(k)'
  BY <1>1 DEF Sound, Of, Full, Wanted
<1>2. ASSUME NEW x \in Of(search.kind), ~Wanted(x) PROVE ~Wanted(x)'
  BY <1>2 DEF Wanted
<1>3. (Searching <=> Searching') /\ \A k \in EntityKinds : LookedUp(k)' <=> LookedUp(k)
  BY DEF LookedUp, Searching
<1>4. QED BY <1>1, <1>2, <1>3 DEF Finding, Of

(* Looking a kind up settles it and no other. *)
LEMMA StepShows ==
  ASSUME SearchTypeOK, Searching, NEW pc, NEW kind, NEW found, Step(pc, kind, found)
  PROVE  /\ search'.pc = pc /\ search'.kind = kind /\ search'.query = search.query
         /\ search'.shown[search.kind] = found
         /\ \A k \in EntityKinds \ {search.kind} : search'.shown[k] = search.shown[k]
BY SearchKinds DEF Step, Searching, Searches

LEMMA OtherKindsKept ==
  ASSUME SearchTypeOK, Searching, NEW pc, NEW kind, NEW found, Step(pc, kind, found),
         UNCHANGED <<catalogue, still>>
  PROVE  /\ \A x : Wanted(x)' <=> Wanted(x)
         /\ \A k \in EntityKinds \ {search.kind} : Sound(k) => Sound(k)'
<1>1. \A x : Wanted(x)' <=> Wanted(x)
  BY StepShows DEF Wanted, Busy, catalogue
<1>2. \A k \in EntityKinds \ {search.kind} : Sound(k) => Sound(k)'
  BY <1>1, StepShows DEF Sound, Full, Of, catalogue
<1>3. QED BY <1>1, <1>2

LEMMA ProceedSettles ==
  ASSUME SearchTypeOK, Searching, NEW found, Proceed(found), UNCHANGED <<catalogue, still>>,
         \A k \in EntityKinds : LookedUp(k) => Sound(k),
         \A x \in Of(search.kind) :
            /\ Wanted(x) => x \in found \/ Cardinality(found) >= MaxShown
            /\ x \in still /\ found = {} => text[x] \notin Containing[search.query]
            /\ search.kind = "technology" /\ x \in still /\ text[x] \in Containing[search.query]
                 => x \in found \/ Cardinality(found) >= MaxShown
  PROVE  /\ search'.pc \in {"index", "done"}
         /\ \A k \in EntityKinds : LookedUp(k)' => Sound(k)'
<1>1. PICK pc \in {"index", "done"}, kind \in EntityKinds :
        /\ Step(pc, kind, found)
        /\ pc = "index" => search.kind # "technology" /\ kind = After(search.kind)
        /\ pc = "done" => search.kind = "technology"
  <2>1. search.kind \in EntityKinds /\ After(search.kind) \in EntityKinds
    BY SearchKinds DEF Searches, Searching, After, EntityKinds
  <2>2. QED BY <2>1 DEF Proceed
<1>2. search.kind \in EntityKinds
  BY SearchKinds DEF Searches, Searching
<1>3. ASSUME NEW k \in EntityKinds, LookedUp(k)' PROVE LookedUp(k) \/ k = search.kind
  BY <1>1, <1>2, <1>3, StepShows DEF LookedUp, Searching, After, EntityKinds
<1>4. ASSUME NEW k \in EntityKinds, k = search.kind PROVE Sound(k)'
  <2>1. search'.shown[k] = found /\ search'.query = search.query /\ \A x : Wanted(x)' <=> Wanted(x)
    BY <1>1, <1>4, StepShows, OtherKindsKept
  <2>2. QED BY <2>1, <1>4 DEF Sound, Full, Of, catalogue
<1>5. QED BY <1>1, <1>3, <1>4, StepShows, OtherKindsKept

(* A thing that is wanted is in the index with its text. *)
LEMMA WantedIsIndexed ==
  ASSUME SearchTypeOK, Synchrony, search \in Searches, NEW x \in Of(search.kind), Wanted(x)
  PROVE  x \in InIndex(search.kind, search.query)
<1>1. text[x] \in Texts
  BY QueryAssumption DEF Wanted, Searches
<1>2. Same(x)
  BY DEF Synchrony, Wanted, Of
<1>3. KindOf[x] = search.kind /\ search.kind # "technology"
  BY DEF Of, Wanted
<1>4. QED BY <1>1, <1>2, <1>3 DEF Same, InIndex, Wanted

LEMMA SearchFinds == SearchInv /\ [SearchNext]_searchVars => Finding'
<1> SUFFICES ASSUME SearchInv, [SearchNext]_searchVars PROVE Finding'
  OBVIOUS
<1> USE DEF SearchInv
<1>1. ASSUME NEW e \in Editors, NEW x \in Things, NEW s, s # Resting, s.thing = x,
             Become(e, s), editor[e] = Resting, Meet(x), Write(x), lapsed' = lapsed,
             \A y \in Things : y # x => text'[y] = text[y]
      PROVE  Finding'
  <2>1. still' \subseteq still \ {x} /\ still \subseteq Things /\ UNCHANGED <<search, faulty>>
    BY <1>1 DEF Write, SearchTypeOK
  <2>2. \A y \in still' : Wanted(y)' => Wanted(y)
    <3>1. tangled \subseteq tangled'
      BY <1>1 DEF Meet
    <3>2. \A y \in still' : Busy(y)' = {} => Busy(y) = {}
      BY <1>1, OthersStay
    <3>3. QED BY <3>1, <3>2, <2>1, <1>1 DEF Wanted
  <2>3. QED BY <2>1, <2>2, <1>1, FindingKept
<1>2. ASSUME NEW e \in Editors, NEW x, x = editor[e].thing, Become(e, Resting), text' = text,
             tangled' = tangled, lapsed \subseteq lapsed', still' \subseteq still,
             UNCHANGED <<search, faulty>>,
             Wanted(x)' => x \notin still'
      PROVE  Finding'
  <2>1. \A y \in still' : Wanted(y)' => Wanted(y)
    <3>1. \A y \in still' : y # x => (Busy(y)' = {} => Busy(y) = {})
      BY <1>2, OthersStay
    <3>2. QED BY <3>1, <1>2 DEF Wanted
  <2>2. QED BY <2>1, <1>2, FindingKept
<1>3. ASSUME NEW e \in Editors, NEW x \in Things, NEW t \in Texts, WriteBuild(e, x, t)
      PROVE  Finding'
  <2> DEFINE s == [pc |-> "reread", thing |-> x]
  <2>1. s # Resting /\ s.thing = x
    BY DEF Resting
  <2>2. \A y \in Things : y # x => text'[y] = text[y]
    BY <1>3 DEF WriteBuild, SearchTypeOK
  <2>3. QED BY <2>1, <2>2, <1>3, <1>1 DEF WriteBuild
<1>4. ASSUME NEW e \in Editors, NEW x \in Things, DeleteRow(e, x) PROVE Finding'
  <2> DEFINE s == [pc |-> "unindex", thing |-> x]
  <2>1. s # Resting /\ s.thing = x
    BY DEF Resting
  <2>2. \A y \in Things : y # x => text'[y] = text[y]
    BY <1>4 DEF DeleteRow, SearchTypeOK
  <2>3. QED BY <2>1, <2>2, <1>4, <1>1 DEF DeleteRow
<1>5. ASSUME NEW e \in Editors, Reread(e) PROVE Finding'
  <2> PICK x : x = editor[e].thing
    OBVIOUS
  <2>1. editor[e] # Resting /\ x \in Things /\ UNCHANGED <<text, index, search, still, faulty, lapsed, tangled>>
    BY <1>5, EditorKinds DEF Reread
  <2>2. CASE text[x] \in Texts
    <3> DEFINE s == [pc |-> "upsert", thing |-> x, text |-> text[x]]
    <3>1. Become(e, s) /\ s # Resting /\ s.thing = x
      BY <1>5, <2>2 DEF Reread, Resting
    <3>2. \A y : Busy(y)' = Busy(y)
      BY <3>1, <2>1, OthersStay
    <3>3. QED BY <3>2, <2>1, FindingKept DEF Wanted
  <2>3. CASE text[x] \notin Texts
    <3>1. Become(e, Resting)
      BY <1>5, <2>3 DEF Reread
    <3>2. CASE search.pc = "none"
      BY <3>2, <2>1 DEF Finding, Searching
    <3>3. CASE search \in Searches
      <4>1. ~Wanted(x)'
        BY <3>3, <2>1, <2>3, QueryAssumption DEF Wanted, Searches
      <4>2. QED BY <4>1, <3>1, <2>1, <1>2
    <3>4. QED BY <3>2, <3>3, SearchKinds
  <2>4. QED BY <2>2, <2>3
<1>6. ASSUME NEW e \in Editors, UpsertBuildIndex(e) PROVE Finding'
  <2> PICK x : x = editor[e].thing
    OBVIOUS
  <2>1. still' = still \ {x} /\ UNCHANGED <<search, faulty>>
    BY <1>6 DEF UpsertBuildIndex, Write
  <2>2. QED BY <2>1, <1>6, <1>2 DEF UpsertBuildIndex
<1>7. ASSUME NEW e \in Editors, DeleteIndex(e) PROVE Finding'
  <2> PICK x : x = editor[e].thing
    OBVIOUS
  <2>1. still' = still \ {x} /\ UNCHANGED <<search, faulty>>
    BY <1>7 DEF DeleteIndex, Write
  <2>2. QED BY <2>1, <1>7, <1>2 DEF DeleteIndex
<1>8. ASSUME NEW e \in Editors, EditFails(e) PROVE Finding'
  <2> PICK x : x = editor[e].thing
    OBVIOUS
  <2>1. ~Wanted(x)'
    BY <1>8 DEF EditFails, Wanted
  <2>2. QED BY <2>1, <1>8, <1>2 DEF EditFails
<1>9. ASSUME NEW x \in Things, NEW t \in Texts, WriteUnindexed(x, t) PROVE Finding'
  <2>1. still' = still \ {x} /\ lapsed \subseteq lapsed' /\ UNCHANGED <<search, faulty, editor, tangled>>
    BY <1>9 DEF WriteUnindexed, Write
  <2>2. \A y \in still' : text'[y] = text[y]
    BY <2>1, <1>9 DEF WriteUnindexed, SearchTypeOK
  <2>3. QED BY <2>1, <2>2, FindingKept DEF Wanted, Busy
<1>10. ASSUME NEW fails \in BOOLEAN, Restart(fails) PROVE Finding'
  BY <1>10 DEF Restart, NoSearch, Finding, Searching
<1>11. ASSUME NEW q \in Queries, StartSearch(q) PROVE Finding'
  BY <1>11 DEF StartSearch, FirstStep, Finding, Searching, LookedUp, EntityKinds
<1>12. CASE SearchIndex
  <2>1. PICK found \in Cut(InIndex(search.kind, search.query)) :
          IF found = {} THEN Step("like", search.kind, {}) ELSE Proceed(found)
    BY <1>12 DEF SearchIndex
  <2>2. /\ found = InIndex(search.kind, search.query) \/ Cardinality(found) >= MaxShown
        /\ found = {} => InIndex(search.kind, search.query) = {}
    BY CutFacts, ResultsFinite
  <2>3. Searching /\ search \in Searches /\ UNCHANGED <<catalogue, still, faulty>> /\ search.pc = "index"
    BY <1>12, SearchKinds DEF SearchIndex, Searching
  <2>4. CASE found = {}
    <3>1. Step("like", search.kind, {}) /\ \A x \in Of(search.kind) : ~Wanted(x)
      BY <2>1, <2>2, <2>3, <2>4, WantedIsIndexed
    <3>2. \A k \in EntityKinds : LookedUp(k)' => LookedUp(k) /\ k # search.kind
      BY <3>1, <2>3, StepShows DEF LookedUp, Searching
    <3>3. QED BY <3>1, <3>2, <2>3, StepShows, OtherKindsKept DEF Finding, Searching, Of
  <2>5. CASE found # {}
    <3>1. Proceed(found)
      BY <2>1, <2>5
    <3>2. faulty' = faulty /\ search'.query = search.query
      BY <3>1, <2>3, StepShows DEF Proceed
    <3>3. CASE faulty \/ search.query \in Special
      BY <3>2, <3>3 DEF Finding
    <3>4. CASE ~faulty /\ search.query \notin Special
      <4>1. \A k \in EntityKinds : LookedUp(k) => Sound(k)
        BY <3>4, <2>3 DEF Finding
      <4>2. \A x \in Of(search.kind) : Wanted(x) => x \in found \/ Cardinality(found) >= MaxShown
        BY <2>2, <2>3, WantedIsIndexed
      <4>3. search.kind # "technology"
        BY <2>1, <2>5 DEF Cut, InIndex
      <4>4. QED BY <4>1, <4>2, <4>3, <3>1, <2>3, <2>5, ProceedSettles DEF Finding
    <3>5. QED BY <3>3, <3>4
  <2>6. QED BY <2>4, <2>5
<1>13. CASE SearchLike
  <2>1. PICK found \in Cut(InRows(search.kind, search.query)) : Proceed(found)
    BY <1>13 DEF SearchLike
  <2>2. /\ found = InRows(search.kind, search.query) \/ Cardinality(found) >= MaxShown
        /\ found = {} => InRows(search.kind, search.query) = {}
    BY CutFacts, ResultsFinite
  <2>3. Searching /\ search.pc = "like" /\ UNCHANGED <<catalogue, still, faulty>>
    BY <1>13 DEF SearchLike, Searching
  <2>4. faulty' = faulty /\ search'.query = search.query
    BY <2>1, <2>3, StepShows DEF Proceed
  <2>5. CASE faulty \/ search.query \in Special
    BY <2>4, <2>5 DEF Finding
  <2>6. CASE ~faulty /\ search.query \notin Special
    <3>1. /\ \A k \in EntityKinds : LookedUp(k) => Sound(k)
          /\ \A x \in Of(search.kind) : ~Wanted(x)
      BY <2>6, <2>3 DEF Finding
    <3>2. \A x \in Of(search.kind) : found = {} => text[x] \notin Containing[search.query]
      BY <2>2 DEF InRows
    <3>3. \A x \in Of(search.kind) : text[x] \in Containing[search.query]
            => x \in found \/ Cardinality(found) >= MaxShown
      BY <2>2 DEF InRows
    <3>4. QED BY <3>1, <3>2, <3>3, <2>1, <2>3, ProceedSettles DEF Finding
  <2>7. QED BY <2>5, <2>6
<1>14. CASE SearchIndexFails \/ SearchLikeFails
  BY <1>14 DEF SearchIndexFails, SearchLikeFails, Finding
<1>15. CASE UNCHANGED searchVars
  BY <1>15, FindingKept DEF searchVars, Wanted, Busy
<1>16. QED BY <1>3, <1>4, <1>5, <1>6, <1>7, <1>8, <1>9, <1>10, <1>11, <1>12, <1>13, <1>14, <1>15
           DEF SearchNext

LEMMA SearchInvStep == SearchInv /\ [SearchNext]_searchVars => SearchInv'
BY SearchTypes, SearchSync, SearchFinds DEF SearchInv

LEMMA SearchInvHolds == SearchSpec => []SearchInv
BY SearchStarts, SearchInvStep, PTL DEF SearchSpec

(* Rows, index, requests and the search keep their types. *)
THEOREM SearchTyped == SearchSpec => []SearchTypeOK
<1>1. SearchInv => SearchTypeOK
  BY DEF SearchInv
<1>2. QED BY <1>1, SearchInvHolds, PTL

LEMMA AllLookedUp ==
  ASSUME SearchInv, Answered
  PROVE  \A x \in Things : KindOf[x] \in EntityKinds /\ x \in Of(KindOf[x]) /\ Sound(KindOf[x])
<1>1. \A k \in EntityKinds : LookedUp(k) /\ Sound(k)
  BY DEF Answered, SearchInv, Finding, LookedUp
<1>2. QED BY <1>1, ThingAssumption DEF Of

(* A search finds the builders and builds that match it and were settled   *)
(* when it began, and the technologies that contain its words, up to its   *)
(* LIMIT, through restarts, failing index writes and overlapping edits of  *)
(* other builds (store/search.go:159-194, handler/build.go:117-121).       *)
THEOREM SettledAreFound == SearchSpec => []SettledIsFound
<1>1. SearchInv => SettledIsFound
  BY AllLookedUp DEF SettledIsFound, Sought, Settled, Sound, Wanted, SearchInv, SearchTypeOK
<1>2. QED BY <1>1, SearchInvHolds, PTL

(* A kind of which a search shows nothing has nothing that contains the    *)
(* words (store/search.go:245-248, 314-317, 394-397).                      *)
THEOREM EmptyMeansNone == SearchSpec => []EmptyIsHonest
<1>1. SearchInv => EmptyIsHonest
  BY AllLookedUp DEF EmptyIsHonest, Sound, SearchInv, SearchTypeOK
<1>2. QED BY <1>1, SearchInvHolds, PTL

(***************************************************************************)
(* Listing: types.                                                         *)
(***************************************************************************)
LEMMA WriterKinds ==
  ASSUME TypeOK, NEW w \in Writers
  PROVE  /\ writer[w].pc = "write" => writer[w] \in Pending
         /\ writer[w].pc \in {"unlink", "link"} => writer[w] \in Syncing
         /\ writer[w] # Idle => writer[w].pc \in {"write", "unlink", "link"}
         /\ writer[w] # Idle => writer[w].build \in BuildIds
<1>1. writer[w] \in {Idle} \cup Pending \cup Syncing
  BY DEF TypeOK
<1>2. Idle.pc = "idle"
  BY DEF Idle
<1>3. QED BY <1>1, <1>2 DEF Pending, Syncing

LEMMA WalkKinds ==
  ASSUME TypeOK
  PROVE  /\ walk.pc \in {"count", "select", "answer", "end"} => walk \in Walking
         /\ walk.pc \in {"idle", "count", "select", "answer", "end"}
<1>1. walk \in {Idle} \cup Walking
  BY DEF TypeOK
<1>2. Idle.pc = "idle"
  BY DEF Idle
<1>3. QED BY <1>1, <1>2 DEF Walking

LEMMA ListsFinite ==
  ASSUME NEW f
  PROVE  Listed(f) \subseteq BuildIds /\ IsFiniteSet(Listed(f)) /\ Cardinality(Listed(f)) \in Nat
<1>1. Listed(f) \subseteq BuildIds
  BY DEF Listed
<1>2. QED BY <1>1, IdAssumption, FS_Subset, FS_CardinalityType

LEMMA ListingStarts == Init => TypeOK
<1> SUFFICES ASSUME Init PROVE TypeOK
  OBVIOUS
<1>1. Cardinality(BuildIds) \in Nat
  BY IdAssumption, FS_CardinalityType
<1>2. clock \in Stamps /\ 1..clock \subseteq Stamps
  BY <1>1, BoundAssumption DEF Init, Stamps
<1>3. rows \in [BuildIds -> Rows \cup {Absent}] /\ unused \subseteq BuildIds /\ linked \subseteq BuildIds
  BY <1>2 DEF Init, Rows
<1>4. QED BY <1>2, <1>3 DEF Init, TypeOK

LEMMA NoteTypes ==
  ASSUME TypeOK, NEW b, Note(b)
  PROVE  /\ walk' \in {Idle} \cup Walking
         /\ untouched' \subseteq BuildIds
         /\ events' \subseteq {"left", "rose", "late", "grew", "fault"}
BY DEF TypeOK, Note, Happened

LEMMA ListingTypes == TypeOK /\ [Next]_vars => TypeOK'
<1> SUFFICES ASSUME TypeOK, [Next]_vars PROVE TypeOK'
  OBVIOUS
<1>1. ASSUME NEW w \in Writers, NEW kind \in Kinds, NEW b \in BuildIds, NEW st \in Statuses,
             NEW sync \in BOOLEAN, NEW link \in BOOLEAN, Stamp(w, kind, b, st, sync, link)
      PROVE  TypeOK'
  <2>1. clock + 1 \in Stamps
    BY <1>1, BoundAssumption DEF Stamp, TypeOK, Stamps
  <2>2. writer' \in [Writers -> {Idle} \cup Pending \cup Syncing]
    BY <1>1, <2>1 DEF Stamp, TypeOK, Pending
  <2>3. QED BY <1>1, <2>1, <2>2 DEF Stamp, TypeOK, tables
<1>2. ASSUME NEW w \in Writers, NEW b \in BuildIds, NEW link \in BOOLEAN, EditLinks(w, b, link)
      PROVE  TypeOK'
  BY <1>2 DEF EditLinks, TypeOK, tables, Syncing
<1>3. ASSUME NEW w \in Writers, InsertRow(w) PROVE TypeOK'
  <2>1. writer[w] \in Pending
    BY <1>3, WriterKinds DEF InsertRow
  <2>2. writer' \in [Writers -> {Idle} \cup Pending \cup Syncing]
    BY <1>3, <2>1 DEF InsertRow, TypeOK, Pending, Syncing, Synced
  <2>3. rows' \in [BuildIds -> Rows \cup {Absent}]
    BY <1>3, <2>1 DEF InsertRow, TypeOK, Pending, Rows
  <2>4. QED BY <1>3, <2>2, <2>3, NoteTypes DEF InsertRow, TypeOK
<1>4. ASSUME NEW w \in Writers, UpdateRow(w) PROVE TypeOK'
  <2>1. writer[w] \in Pending
    BY <1>4, WriterKinds DEF UpdateRow
  <2>2. writer' \in [Writers -> {Idle} \cup Pending \cup Syncing]
    BY <1>4, <2>1 DEF UpdateRow, TypeOK, Pending, Syncing, Synced
  <2>3. rows' \in [BuildIds -> Rows \cup {Absent}]
    BY <1>4, <2>1 DEF UpdateRow, TypeOK, Pending, Rows
  <2>4. QED BY <1>4, <2>2, <2>3, NoteTypes DEF UpdateRow, TypeOK
<1>5. ASSUME NEW w \in Writers, ClearLinks(w) PROVE TypeOK'
  <2>1. writer[w] \in Syncing
    BY <1>5, WriterKinds DEF ClearLinks
  <2>2. writer' \in [Writers -> {Idle} \cup Pending \cup Syncing]
    BY <1>5, <2>1 DEF ClearLinks, TypeOK, Syncing
  <2>3. QED BY <1>5, <2>2, NoteTypes DEF ClearLinks, TypeOK
<1>6. ASSUME NEW w \in Writers, InsertLink(w) PROVE TypeOK'
  <2>1. writer[w] \in Syncing
    BY <1>6, WriterKinds DEF InsertLink
  <2>2. writer' \in [Writers -> {Idle} \cup Pending \cup Syncing] /\ linked' \subseteq BuildIds
    BY <1>6, <2>1 DEF InsertLink, TypeOK, Syncing
  <2>3. QED BY <1>6, <2>2, NoteTypes DEF InsertLink, TypeOK
<1>7. ASSUME NEW w \in Writers, WriteFails(w) PROVE TypeOK'
  BY <1>7 DEF WriteFails, TypeOK, tables
<1>8. ASSUME NEW b \in BuildIds, DeleteBuild(b) PROVE TypeOK'
  <2>1. rows' \in [BuildIds -> Rows \cup {Absent}] /\ linked' \subseteq BuildIds
    BY <1>8 DEF DeleteBuild, TypeOK
  <2>2. QED BY <1>8, <2>1, NoteTypes DEF DeleteBuild, TypeOK
<1>9. ASSUME NEW f \in Filters, NEW s \in Sorts, NEW limit \in Limits, StartWalk(f, s, limit)
      PROVE  TypeOK'
  <2>1. walk' \in Walking
    BY <1>9 DEF StartWalk, Walking
  <2>2. QED BY <1>9, <2>1, ListsFinite DEF StartWalk, Reading, tables, TypeOK
<1>10. CASE Count
  <2>1. walk' \in Walking
    BY <1>10, WalkKinds, ListsFinite DEF Count, Walking, List
  <2>2. QED BY <1>10, <2>1 DEF Count, Reading, tables, TypeOK
<1>11. CASE SelectPage
  <2>1. walk' \in Walking
    BY <1>11, WalkKinds, ListsFinite DEF SelectPage, Walking, Page
  <2>2. QED BY <1>11, <2>1 DEF SelectPage, Reading, tables, TypeOK
<1>12. CASE SelectCut
  <2>1. walk' \in Walking
    BY <1>12, WalkKinds, ListsFinite DEF SelectCut, Walking, Page
  <2>2. QED BY <1>12, <2>1 DEF SelectCut, Reading, tables, TypeOK
<1>13. CASE Answer
  <2>1. walk \in Walking
    BY <1>13, WalkKinds DEF Answer
  <2>2. NextOffset(walk) \in Nat
    <3>1. walk.offset \in Nat /\ walk.limit \in Limits
      BY <2>1 DEF Walking
    <3>2. walk.limit \in Nat
      BY <3>1, PageAssumption
    <3>3. QED BY <3>1, <3>2 DEF NextOffset
  <2>3. walk' \in Walking
    BY <1>13, <2>1, <2>2 DEF Answer, Walking
  <2>4. QED BY <1>13, <2>3 DEF Answer, Reading, tables, TypeOK
<1>14. CASE PageFails
  <2>1. walk' \in Walking
    BY <1>14, WalkKinds DEF PageFails, Ongoing, Walking
  <2>2. QED BY <1>14, <2>1 DEF PageFails, Reading, tables, TypeOK
<1>15. CASE UNCHANGED vars
  BY <1>15 DEF vars, tables, TypeOK
<1>16. QED BY <1>1, <1>2, <1>3, <1>4, <1>5, <1>6, <1>7, <1>8, <1>9, <1>10, <1>11, <1>12, <1>13, <1>14, <1>15
           DEF Next

(* Types of the lists' variables. *)
THEOREM ListingTyped == Spec => []TypeOK
BY ListingStarts, ListingTypes, PTL DEF Spec

(***************************************************************************)
(* Listing: time stamps.  No two rows have one stamp, and no write that is *)
(* still to land has the stamp of a row or of another write.               *)
(***************************************************************************)
Owes(w) == writer[w].pc = "write"
Dated ==
  /\ \A b \in BuildIds : rows[b] # Absent => rows[b].created <= clock /\ rows[b].updated <= clock
  /\ \A w \in Writers : Owes(w) => writer[w].at <= clock
RowsApart ==
  \A b, c \in BuildIds : b # c /\ rows[b] # Absent /\ rows[c] # Absent =>
    rows[b].created # rows[c].created /\ rows[b].updated # rows[c].updated
WritesApart ==
  /\ \A w \in Writers, b \in BuildIds : Owes(w) /\ rows[b] # Absent =>
       writer[w].at # rows[b].created /\ writer[w].at # rows[b].updated
  /\ \A v, w \in Writers : v # w /\ Owes(v) /\ Owes(w) => writer[v].at # writer[w].at
StampsApart == Dated /\ RowsApart /\ WritesApart

LEMMA RowTypes ==
  ASSUME TypeOK, NEW b \in BuildIds, rows[b] # Absent
  PROVE  rows[b] \in Rows /\ rows[b].created \in Nat /\ rows[b].updated \in Nat
<1>1. rows[b] \in Rows
  BY DEF TypeOK
<1>2. QED BY <1>1, BoundAssumption DEF Rows, Stamps

LEMMA StampTypes ==
  ASSUME TypeOK
  PROVE  /\ clock \in Nat
         /\ \A w \in Writers : Owes(w) => writer[w].at \in Nat
<1>1. clock \in Nat
  BY BoundAssumption DEF TypeOK, Stamps
<1>2. ASSUME NEW w \in Writers, Owes(w) PROVE writer[w].at \in Nat
  BY <1>2, WriterKinds, BoundAssumption DEF Owes, Pending, Stamps
<1>3. QED BY <1>1, <1>2

LEMMA StampsStart == Init => StampsApart
<1> SUFFICES ASSUME Init PROVE StampsApart
  OBVIOUS
<1>1. \A w \in Writers : ~Owes(w)
  BY DEF Init, Idle, Owes
<1>2. PICK stamp \in [BuildIds -> 1..clock], kept \in SUBSET BuildIds, st \in [BuildIds -> Statuses] :
        /\ \A b, c \in BuildIds : stamp[b] = stamp[c] => b = c
        /\ rows = [b \in BuildIds |->
                     IF b \in kept
                       THEN [created |-> stamp[b], updated |-> stamp[b], status |-> st[b]]
                       ELSE Absent]
  BY DEF Init
<1>3. ASSUME NEW b \in BuildIds, rows[b] # Absent
      PROVE  rows[b].created = stamp[b] /\ rows[b].updated = stamp[b]
  BY <1>2, <1>3
<1>4. clock \in Nat
  BY IdAssumption, FS_CardinalityType DEF Init
<1>5. \A b \in BuildIds : stamp[b] <= clock
  BY <1>2, <1>4
<1>6. Dated
  BY <1>1, <1>3, <1>5 DEF Dated
<1>7. RowsApart
  BY <1>2, <1>3 DEF RowsApart
<1>8. QED BY <1>1, <1>6, <1>7 DEF StampsApart, WritesApart

(* Rows and writes only go. *)
LEMMA StampsKept ==
  ASSUME StampsApart, clock' = clock,
         \A b \in BuildIds : rows'[b] # Absent => rows'[b] = rows[b],
         \A w \in Writers : Owes(w)' => writer'[w] = writer[w]
  PROVE  StampsApart'
<1>1. \A w \in Writers : Owes(w)' => Owes(w) /\ writer'[w].at = writer[w].at
  BY DEF Owes
<1>2. Dated'
  BY <1>1 DEF StampsApart, Dated
<1>3. RowsApart'
  BY DEF StampsApart, RowsApart
<1>4. WritesApart'
  BY <1>1 DEF StampsApart, WritesApart
<1>5. QED BY <1>2, <1>3, <1>4 DEF StampsApart

(* A write lands: its stamp goes from the writer to the row. *)
LEMMA StampsLand ==
  ASSUME TypeOK, StampsApart, NEW w \in Writers, Owes(w), clock' = clock,
         NEW b \in BuildIds,
         \A c \in BuildIds \ {b} : rows'[c] = rows[c],
         rows'[b] # Absent => /\ rows'[b].updated = writer[w].at
                              /\ \/ rows'[b].created = writer[w].at
                                 \/ rows[b] # Absent /\ rows'[b].created = rows[b].created,
         \A v \in Writers : Owes(v)' => v # w /\ Owes(v) /\ writer'[v] = writer[v]
  PROVE  StampsApart'
<1>1. Dated'
  BY DEF StampsApart, Dated
<1>2. RowsApart'
  <2>1. ASSUME NEW c \in BuildIds \ {b}, rows'[b] # Absent, rows'[c] # Absent
        PROVE  rows'[b].created # rows'[c].created /\ rows'[b].updated # rows'[c].updated
    <3>1. writer[w].at # rows[c].created /\ writer[w].at # rows[c].updated
      BY <2>1 DEF StampsApart, WritesApart
    <3>2. rows[b] # Absent => rows[b].created # rows[c].created
      BY <2>1 DEF StampsApart, RowsApart
    <3>3. QED BY <2>1, <3>1, <3>2
  <2>2. ASSUME NEW c \in BuildIds \ {b}, NEW d \in BuildIds \ {b}, c # d,
               rows'[c] # Absent, rows'[d] # Absent
        PROVE  rows'[c].created # rows'[d].created /\ rows'[c].updated # rows'[d].updated
    BY <2>2 DEF StampsApart, RowsApart
  <2>3. QED BY <2>1, <2>2 DEF RowsApart
<1>3. WritesApart'
  <2>1. ASSUME NEW v \in Writers, NEW c \in BuildIds, Owes(v)', rows'[c] # Absent
        PROVE  writer'[v].at # rows'[c].created /\ writer'[v].at # rows'[c].updated
    <3>1. v # w /\ Owes(v) /\ writer'[v].at = writer[v].at /\ writer[v].at # writer[w].at
      BY <2>1 DEF StampsApart, WritesApart
    <3>2. rows[c] # Absent => writer[v].at # rows[c].created /\ writer[v].at # rows[c].updated
      BY <3>1 DEF StampsApart, WritesApart
    <3>3. QED BY <2>1, <3>1, <3>2
  <2>2. ASSUME NEW u \in Writers, NEW v \in Writers, u # v, Owes(u)', Owes(v)'
        PROVE  writer'[u].at # writer'[v].at
    BY <2>2 DEF StampsApart, WritesApart
  <2>3. QED BY <2>1, <2>2 DEF WritesApart
<1>4. QED BY <1>1, <1>2, <1>3 DEF StampsApart

LEMMA SyncedOwesNothing ==
  ASSUME NEW o
  PROVE  Synced(o).pc # "write"
BY DEF Synced, Idle

LEMMA StampsStay == TypeOK /\ StampsApart /\ [Next]_vars => StampsApart'
<1> SUFFICES ASSUME TypeOK, StampsApart, [Next]_vars PROVE StampsApart'
  OBVIOUS
<1>1. ASSUME NEW w \in Writers, NEW kind \in Kinds, NEW b \in BuildIds, NEW st \in Statuses,
             NEW sync \in BOOLEAN, NEW link \in BOOLEAN, Stamp(w, kind, b, st, sync, link)
      PROVE  StampsApart'
  <2>1. /\ rows' = rows /\ clock' = clock + 1
        /\ writer'[w].at = clock + 1
        /\ \A v \in Writers \ {w} : writer'[v] = writer[v]
    BY <1>1 DEF Stamp, TypeOK, tables
  <2>2. /\ clock \in Nat
        /\ \A c \in BuildIds : rows[c] # Absent => rows[c].created \in Nat /\ rows[c].updated \in Nat
        /\ \A v \in Writers : Owes(v) => writer[v].at \in Nat
    BY StampTypes, RowTypes
  <2>3. Dated'
    BY <2>1, <2>2 DEF StampsApart, Dated, Owes
  <2>4. RowsApart'
    BY <2>1 DEF StampsApart, RowsApart
  <2>5. \A c \in BuildIds : rows'[c] # Absent =>
          writer'[w].at # rows'[c].created /\ writer'[w].at # rows'[c].updated
    BY <2>1, <2>2 DEF StampsApart, Dated
  <2>6. \A v \in Writers \ {w} : Owes(v)' => writer'[v].at # writer'[w].at
    BY <2>1, <2>2 DEF StampsApart, Dated, Owes
  <2>7. WritesApart'
    BY <2>1, <2>5, <2>6 DEF StampsApart, WritesApart, Owes
  <2>8. QED BY <2>3, <2>4, <2>7 DEF StampsApart
<1>2. ASSUME NEW w \in Writers, NEW b \in BuildIds, NEW link \in BOOLEAN, EditLinks(w, b, link)
      PROVE  StampsApart'
  BY <1>2, StampsKept DEF EditLinks, TypeOK, tables, Owes
<1>3. ASSUME NEW w \in Writers, InsertRow(w) PROVE StampsApart'
  <2>1. Owes(w) /\ writer[w].build \in BuildIds
    BY <1>3, WriterKinds DEF InsertRow, Owes, Pending
  <2>2. \A v \in Writers : Owes(v)' => v # w /\ Owes(v) /\ writer'[v] = writer[v]
    BY <1>3, SyncedOwesNothing DEF InsertRow, TypeOK, Owes
  <2>3. /\ rows'[writer[w].build].created = writer[w].at
        /\ rows'[writer[w].build].updated = writer[w].at
        /\ \A c \in BuildIds \ {writer[w].build} : rows'[c] = rows[c]
    BY <1>3, <2>1 DEF InsertRow, TypeOK
  <2>4. QED BY <1>3, <2>1, <2>2, <2>3, StampsLand DEF InsertRow
<1>4. ASSUME NEW w \in Writers, UpdateRow(w) PROVE StampsApart'
  <2>1. Owes(w) /\ writer[w].build \in BuildIds
    BY <1>4, WriterKinds DEF UpdateRow, Owes, Pending
  <2>2. \A v \in Writers : Owes(v)' => v # w /\ Owes(v) /\ writer'[v] = writer[v]
    BY <1>4, SyncedOwesNothing DEF UpdateRow, TypeOK, Owes
  <2>3. CASE rows[writer[w].build] = Absent
    BY <1>4, <2>2, <2>3, StampsKept DEF UpdateRow
  <2>4. CASE rows[writer[w].build] # Absent
    <3>1. /\ rows[writer[w].build] \in Rows
          /\ rows' = [rows EXCEPT ![writer[w].build] =
                        [@ EXCEPT !.updated = writer[w].at, !.status = writer[w].status]]
      BY <1>4, <2>1, <2>4, RowTypes DEF UpdateRow
    <3>2. /\ rows'[writer[w].build].created = rows[writer[w].build].created
          /\ rows'[writer[w].build].updated = writer[w].at
          /\ \A c \in BuildIds \ {writer[w].build} : rows'[c] = rows[c]
      BY <2>1, <3>1 DEF TypeOK, Rows
    <3>3. QED BY <1>4, <2>1, <2>2, <2>4, <3>2, StampsLand DEF UpdateRow
  <2>5. QED BY <2>3, <2>4
<1>5. ASSUME NEW w \in Writers, ClearLinks(w) PROVE StampsApart'
  <2>1. \A v \in Writers : Owes(v)' => writer'[v] = writer[v]
    <3>1. writer[w] \in Syncing
      BY <1>5, WriterKinds DEF ClearLinks
    <3>2. writer'[w].pc # "write"
      BY <1>5, <3>1 DEF ClearLinks, TypeOK, Syncing, Idle
    <3>3. QED BY <1>5, <3>2 DEF ClearLinks, TypeOK, Owes
  <2>2. QED BY <1>5, <2>1, StampsKept DEF ClearLinks
<1>6. ASSUME NEW w \in Writers, InsertLink(w) PROVE StampsApart'
  BY <1>6, StampsKept DEF InsertLink, TypeOK, Owes, Idle
<1>7. ASSUME NEW w \in Writers, WriteFails(w) PROVE StampsApart'
  BY <1>7, StampsKept DEF WriteFails, TypeOK, Owes, Idle, tables
<1>8. ASSUME NEW b \in BuildIds, DeleteBuild(b) PROVE StampsApart'
  BY <1>8, StampsKept DEF DeleteBuild, TypeOK
<1>9. CASE UNCHANGED <<clock, rows, writer>>
  BY <1>9, StampsKept
<1>10. QED BY <1>1, <1>2, <1>3, <1>4, <1>5, <1>6, <1>7, <1>8, <1>9
           DEF Next, vars, tables, Reading, StartWalk, Count, SelectPage, SelectCut, Answer, PageFails

(***************************************************************************)
(* Listing: places in the list that is walked.                             *)
(***************************************************************************)
KeyOf(b) == Key(walk.sort, b)
Before(b) == Ahead(walk.filter, walk.sort, b)
Place(b) == Rank(walk.filter, walk.sort, b)

LEMMA KeyTypes ==
  ASSUME TypeOK, NEW b \in List
  PROVE  b \in BuildIds /\ rows[b] # Absent /\ KeyOf(b) \in Nat
BY RowTypes DEF List, Listed, KeyOf, Key

LEMMA Places ==
  ASSUME TypeOK, NEW b \in List
  PROVE  /\ Before(b) \subseteq List /\ IsFiniteSet(Before(b))
         /\ Place(b) = Cardinality(Before(b)) /\ Place(b) \in Nat
         /\ Cardinality(List) \in Nat /\ Place(b) < Cardinality(List)
<1>1. Before(b) \subseteq List /\ Place(b) = Cardinality(Before(b))
  BY DEF Before, Ahead, List, Place, Rank
<1>2. IsFiniteSet(List) /\ Cardinality(List) \in Nat
  BY ListsFinite DEF List
<1>3. IsFiniteSet(Before(b)) /\ Cardinality(Before(b)) \in Nat
  BY <1>1, <1>2, FS_Subset, FS_CardinalityType
<1>4. ~(KeyOf(b) > KeyOf(b))
  BY KeyTypes
<1>5. b \notin Before(b)
  BY <1>4 DEF Before, Ahead, KeyOf
<1>6. Cardinality(Before(b)) <= Cardinality(List) /\ Before(b) # List
  BY <1>1, <1>2, <1>5, FS_Subset
<1>7. Cardinality(List) # Cardinality(Before(b))
  BY <1>1, <1>2, <1>6, FS_Subset
<1>8. QED BY <1>1, <1>2, <1>3, <1>6, <1>7

(* The same after a step. *)
ListTypes ==
  \A b \in List : /\ KeyOf(b) \in Nat
                  /\ IsFiniteSet(Before(b)) /\ Place(b) = Cardinality(Before(b))
                  /\ Place(b) \in Nat
LEMMA ListTyped == TypeOK => ListTypes
BY KeyTypes, Places DEF ListTypes
LEMMA ListTypedNext == TypeOK' => ListTypes'
BY ListTyped, PTL

LEMMA Least ==
  ASSUME NEW S, S \subseteq Nat, S # {}
  PROVE  \E m \in S : \A k \in S : m <= k
<1> DEFINE Less == {ss \in Nat \X Nat : ss[1] < ss[2]}
<1>1. IsWellFoundedOn(Less, Nat)
  BY NatLessThanWellFounded DEF OpToRel
<1> HIDE DEF Less
<1>2. PICK m \in S : \A k \in S : ~(<<k, m>> \in Less)
  BY <1>1, WFMin
<1>3. ASSUME NEW k \in S PROVE m <= k
  <2>1. k \in Nat /\ m \in Nat
    OBVIOUS
  <2>2. k < m => <<k, m>> \in Less
    BY <2>1 DEF Less
  <2>3. ~(k < m)
    BY <1>2, <2>2
  <2>4. QED BY <2>1, <2>3
<1>4. QED BY <1>3

(* No two builds of a list have one stamp, so one build is next in front.  *)
LEMMA NextInFront ==
  ASSUME TypeOK, StampsApart, NEW y \in List, Place(y) > 0
  PROVE  \E z \in List : Place(z) = Place(y) - 1
<1>1. /\ Before(y) \subseteq List /\ IsFiniteSet(Before(y))
      /\ Place(y) = Cardinality(Before(y)) /\ Place(y) \in Nat
  BY Places
<1>2. Before(y) # {}
  BY <1>1, FS_EmptySet
<1>3. PICK z \in Before(y) : \A c \in Before(y) : KeyOf(z) <= KeyOf(c)
  <2> DEFINE Keys == {KeyOf(c) : c \in Before(y)}
  <2>1. Keys \subseteq Nat /\ Keys # {}
    BY <1>1, <1>2, KeyTypes
  <2>2. PICK k \in Keys : \A j \in Keys : k <= j
    BY <2>1, Least
  <2>3. QED BY <2>2
<1>4. z \in List /\ KeyOf(z) > KeyOf(y)
  BY <1>1 DEF Before, Ahead, KeyOf
<1>5. ASSUME NEW c \in List, c # z PROVE KeyOf(c) # KeyOf(z)
  BY <1>4, <1>5, KeyTypes DEF StampsApart, RowsApart, KeyOf, Key
<1>6. ASSUME NEW c \in List PROVE c \in Before(z) <=> c \in Before(y) /\ c # z
  <2>1. KeyOf(c) \in Nat /\ KeyOf(z) \in Nat /\ KeyOf(y) \in Nat
    BY <1>4, KeyTypes
  <2>2. c \in Before(z) <=> KeyOf(c) > KeyOf(z)
    BY DEF Before, Ahead, KeyOf, List
  <2>3. c \in Before(y) <=> KeyOf(c) > KeyOf(y)
    BY DEF Before, Ahead, KeyOf, List
  <2>4. c \in Before(y) => KeyOf(z) <= KeyOf(c)
    BY <1>3
  <2>5. QED BY <1>4, <1>5, <2>1, <2>2, <2>3, <2>4
<1>7. Before(z) = Before(y) \ {z}
  <2>1. Before(z) \subseteq List
    BY <1>4, Places
  <2>2. QED BY <1>1, <1>6, <2>1
<1>8. Cardinality(Before(y) \ {z}) = Cardinality(Before(y)) - 1
  BY <1>1, <1>3, FS_RemoveElement
<1>9. QED BY <1>1, <1>4, <1>7, <1>8, Places

(* So the places of a list have no gaps. *)
LEMMA NoGaps ==
  ASSUME TypeOK, StampsApart, NEW o \in Nat, NEW x \in List, Place(x) >= o
  PROVE  \E b \in List : Place(b) = o
<1> DEFINE Far == {b \in List : Place(b) >= o}
           Far_places == {Place(b) : b \in Far}
<1>1. Far_places \subseteq Nat /\ Far_places # {}
  BY Places
<1>2. PICK m \in Far_places : \A k \in Far_places : m <= k
  BY <1>1, Least
<1>3. PICK y \in Far : Place(y) = m
  BY <1>2
<1>4. CASE m = o
  BY <1>3, <1>4
<1>5. CASE m # o
  <2>1. m \in Nat /\ m > o
    BY <1>1, <1>3, <1>5
  <2>2. PICK z \in List : Place(z) = m - 1
    BY <1>3, <2>1, NextInFront
  <2>3. z \in Far
    BY <2>1, <2>2
  <2>4. m <= m - 1
    BY <1>2, <2>2, <2>3
  <2>5. QED BY <2>1, <2>4
<1>6. QED BY <1>4, <1>5

(* What a step of a writer may do to the list of a walk. *)
LEMMA MovesDown ==
  ASSUME TypeOK, NEW b, Note(b), Ongoing, "rose" \notin events'
  PROVE  /\ List' \subseteq List
         /\ \A x \in List' : Place(x)' <= Place(x)
<1>1. walk' = walk /\ ~Entered /\ \A c \in BuildIds : ~Moved(c)
  BY DEF Note, Happened
<1>2. List' \subseteq List
  BY <1>1 DEF Entered
<1>3. ASSUME NEW c \in List' PROVE KeyOf(c)' = KeyOf(c)
  <2>1. c \in BuildIds
    BY <1>2, ListsFinite DEF List
  <2>2. QED BY <1>1, <1>2, <1>3, <2>1 DEF Moved, KeyOf
<1>4. ASSUME NEW x \in List' PROVE Place(x)' <= Place(x)
  <2>1. Before(x)' \subseteq Before(x)
    <3>1. ASSUME NEW c \in Before(x)' PROVE c \in Before(x)
      <4>1. c \in List' /\ KeyOf(c)' > KeyOf(x)'
        BY <3>1 DEF Before, Ahead, List, KeyOf
      <4>2. c \in List /\ KeyOf(c) > KeyOf(x)
        BY <1>2, <1>3, <1>4, <4>1
      <4>3. QED BY <4>2 DEF Before, Ahead, List, KeyOf
    <3>2. QED BY <3>1
  <2>2. IsFiniteSet(Before(x))
    BY <1>2, Places
  <2>3. Cardinality(Before(x)') <= Cardinality(Before(x))
    BY <2>1, <2>2, FS_Subset
  <2>4. QED BY <2>3 DEF Place, Rank, Before
<1>5. QED BY <1>2, <1>4

(* A writer writes one build; unless something left the list or an edit    *)
(* set a build back, everything in front of another build stays there.     *)
OnlyWrites(b) ==
  \A c \in BuildIds : c # b => rows'[c] = rows[c] /\ (c \in linked' <=> c \in linked)

LEMMA StaysBehind ==
  ASSUME TypeOK, TypeOK', NEW b, Note(b), OnlyWrites(b), Ongoing,
         events' \cap {"left", "late"} = {}
  PROVE  \A x \in List : x # b => x \in List' /\ Place(x)' >= Place(x)
<1> SUFFICES ASSUME NEW x \in List, x # b PROVE x \in List' /\ Place(x)' >= Place(x)
  OBVIOUS
<1>1. walk' = walk /\ ~Left /\ \A c \in BuildIds : ~SetBack(c)
  BY DEF Note, Happened
<1>2. List \subseteq List'
  BY <1>1 DEF Left
<1>3. KeyOf(x)' = KeyOf(x)
  BY <1>1, ListsFinite DEF OnlyWrites, KeyOf, Key, List
<1>4. ASSUME NEW c \in List PROVE KeyOf(c)' >= KeyOf(c)
  <2>1. c \in BuildIds /\ c \in List'
    BY <1>2, ListsFinite DEF List
  <2>2. KeyOf(c) \in Nat /\ KeyOf(c)' \in Nat
    BY <2>1, <1>4, ListTyped, ListTypedNext DEF ListTypes
  <2>3. CASE KeyOf(c)' = KeyOf(c)
    BY <2>2, <2>3
  <2>4. CASE KeyOf(c)' # KeyOf(c)
    <3>1. ~(KeyOf(c)' < KeyOf(c))
      BY <1>1, <1>4, <2>1, <2>4 DEF SetBack, Moved, KeyOf
    <3>2. QED BY <2>2, <3>1
  <2>5. QED BY <2>3, <2>4
<1>5. Before(x) \subseteq Before(x)'
  <2>1. ASSUME NEW c \in Before(x) PROVE c \in Before(x)'
    <3>1. c \in List /\ KeyOf(c) > KeyOf(x)
      BY <2>1 DEF Before, Ahead, List, KeyOf
    <3>2. c \in List' /\ x \in List' /\ KeyOf(c)' >= KeyOf(c)
      BY <1>2, <1>4, <3>1
    <3>3. KeyOf(c) \in Nat /\ KeyOf(x) \in Nat /\ KeyOf(c)' \in Nat
      BY <3>1, <3>2, ListTyped, ListTypedNext DEF ListTypes
    <3>4. KeyOf(c)' > KeyOf(x)'
      BY <1>3, <3>1, <3>2, <3>3
    <3>5. QED BY <3>2, <3>4 DEF Before, Ahead, List, KeyOf
  <2>2. QED BY <2>1
<1>6. x \in List'
  BY <1>2
<1>7. IsFiniteSet(Before(x)') /\ Place(x)' = Cardinality(Before(x)')
  BY <1>6, ListTypedNext DEF ListTypes
<1>8. Place(x) = Cardinality(Before(x)) /\ Place(x) \in Nat /\ Place(x)' \in Nat
  BY <1>6, ListTyped, ListTypedNext DEF ListTypes
<1>9. Cardinality(Before(x)) <= Cardinality(Before(x)')
  BY <1>5, <1>7, FS_Subset
<1>10. QED BY <1>6, <1>7, <1>8, <1>9

(* Every step is a step of a writer at one build, leaves the tables and    *)
(* the walk alone, or is a step of the walk.                               *)
LEMMA Steps ==
  TypeOK /\ [Next]_vars =>
    \/ \E b \in BuildIds : Note(b) /\ OnlyWrites(b)
    \/ UNCHANGED <<tables, walk, untouched, events>>
    \/ \E f \in Filters, s \in Sorts, limit \in Limits : StartWalk(f, s, limit)
    \/ Count \/ SelectPage \/ SelectCut \/ Answer \/ PageFails
<1> SUFFICES ASSUME TypeOK, [Next]_vars
             PROVE  \/ \E b \in BuildIds : Note(b) /\ OnlyWrites(b)
                    \/ UNCHANGED <<tables, walk, untouched, events>>
                    \/ \E f \in Filters, s \in Sorts, limit \in Limits : StartWalk(f, s, limit)
                    \/ Count \/ SelectPage \/ SelectCut \/ Answer \/ PageFails
  OBVIOUS
<1>1. ASSUME NEW w \in Writers, InsertRow(w) \/ UpdateRow(w) \/ ClearLinks(w) \/ InsertLink(w)
      PROVE  \E b \in BuildIds : Note(b) /\ OnlyWrites(b)
  <2>1. writer[w].build \in BuildIds
    BY <1>1, WriterKinds DEF InsertRow, UpdateRow, ClearLinks, InsertLink, Pending, Syncing
  <2>2. Note(writer[w].build)
    BY <1>1 DEF InsertRow, UpdateRow, ClearLinks, InsertLink
  <2>3. OnlyWrites(writer[w].build)
    BY <1>1, <2>1 DEF InsertRow, UpdateRow, ClearLinks, InsertLink, OnlyWrites, TypeOK
  <2>4. QED BY <2>1, <2>2, <2>3
<1>2. ASSUME NEW b \in BuildIds, DeleteBuild(b)
      PROVE  \E c \in BuildIds : Note(c) /\ OnlyWrites(c)
  BY <1>2 DEF DeleteBuild, OnlyWrites, TypeOK
<1>3. QED BY <1>1, <1>2 DEF Next, Stamp, EditLinks, WriteFails, vars, tables

(***************************************************************************)
(* Listing: what a walk has told lies in front of what it will tell, and   *)
(* the rest behind.                                                        *)
(***************************************************************************)
Told == IF walk.pc = "answer" THEN walk.seen \cup walk.page ELSE walk.seen
Due == IF walk.pc = "answer" THEN walk.offset + walk.limit ELSE walk.offset

InFront ==
  "rose" \notin events =>
    /\ Ongoing \/ walk.pc = "end" => walk.twice = {}
    /\ Ongoing => \A x \in Told : x \in List => Place(x) < Due
    /\ walk.pc = "answer" => walk.seen \cap walk.page = {}

Quiet == walk.limit <= Clamp /\ events \cap {"left", "late", "grew", "fault"} = {}
Behind ==
  Quiet =>
    /\ Ongoing => \A x \in untouched : x \in List /\ (x \in Told \/ Place(x) >= Due)
    /\ walk.pc = "select" => Cardinality(List) <= walk.total
    /\ walk.pc = "answer" => GoesOn(walk) \/ untouched \subseteq Told
    /\ walk.pc = "end" => untouched \subseteq walk.seen

LEMMA WalkTypes ==
  ASSUME TypeOK, Ongoing
  PROVE  /\ walk \in Walking
         /\ walk.offset \in Nat /\ walk.limit \in Nat \ {0} /\ walk.total \in Nat
         /\ PageLength(walk.limit) \in Nat /\ PageLength(walk.limit) <= walk.limit
         /\ Due \in Nat
<1>1. walk \in Walking
  BY WalkKinds DEF Ongoing
<1>2. walk.offset \in Nat /\ walk.total \in Nat /\ walk.limit \in Limits
  BY <1>1 DEF Walking
<1>3. walk.limit \in Nat \ {0} /\ Clamp \in Nat
  BY <1>2, PageAssumption
<1>4. PageLength(walk.limit) \in Nat /\ PageLength(walk.limit) <= walk.limit
  BY <1>3 DEF PageLength
<1>5. Due \in Nat
  BY <1>2, <1>3 DEF Due
<1>6. QED BY <1>1, <1>2, <1>3, <1>4, <1>5

LEMMA InFrontStarts == Init => InFront
BY DEF Init, InFront, Idle, Ongoing

LEMMA SelectsFresh ==
  ASSUME TypeOK, TypeOK', InFront, walk.pc = "select", UNCHANGED tables,
         NEW P, P \subseteq Page(walk.filter, walk.sort, walk.offset, walk.limit),
         walk' = [walk EXCEPT !.pc = "answer", !.page = P],
         "rose" \notin events
  PROVE  InFront'
<1>1. Ongoing /\ walk \in Walking
  BY WalkTypes DEF Ongoing
<1>2. /\ walk'.pc = "answer" /\ walk'.page = P /\ walk'.seen = walk.seen
      /\ walk'.twice = walk.twice /\ walk'.offset = walk.offset /\ walk'.limit = walk.limit
      /\ walk'.filter = walk.filter /\ walk'.sort = walk.sort
  BY <1>1 DEF Walking
<1>3. List' = List /\ \A x : Place(x)' = Place(x)
  BY <1>2 DEF List, Listed, Place, Rank, Ahead, Key, tables
<1>4. \A x \in P : /\ x \in List
                   /\ Place(x) >= walk.offset
                   /\ Place(x) <= walk.offset + PageLength(walk.limit) - 1
  BY Places, <1>1, WalkTypes DEF Page, List, Place
<1>5. Told = walk.seen /\ Due = walk.offset
  BY DEF Told, Due
<1>6. \A x \in walk.seen : x \in List => Place(x) < walk.offset
  BY <1>1, <1>5 DEF InFront
<1>7. Told' = walk.seen \cup P /\ Due' = walk.offset + walk.limit
  BY <1>2 DEF Told, Due
<1>8. /\ walk.offset \in Nat /\ walk.limit \in Nat \ {0}
      /\ PageLength(walk.limit) \in Nat /\ PageLength(walk.limit) <= walk.limit
  BY <1>1, WalkTypes
<1>9. \A x \in List : Place(x) \in Nat
  BY Places
<1>10. walk.seen \cap P = {}
  BY <1>4, <1>6, <1>8, <1>9
<1>11. \A x \in Told' : x \in List' => Place(x)' < Due'
  BY <1>3, <1>4, <1>6, <1>7, <1>8, <1>9
<1>12. walk'.twice = {}
  BY <1>1, <1>2 DEF InFront
<1>13. QED BY <1>2, <1>10, <1>11, <1>12 DEF InFront

LEMMA InFrontStays == TypeOK /\ TypeOK' /\ InFront /\ [Next]_vars => InFront'
<1> SUFFICES ASSUME TypeOK, TypeOK', InFront, [Next]_vars, "rose" \notin events' PROVE InFront'
  BY DEF InFront
<1>1. ASSUME NEW b \in BuildIds, Note(b) PROVE InFront'
  <2>1. walk' = walk /\ "rose" \notin events
    BY <1>1 DEF Note
  <2>2. CASE ~Ongoing
    BY <2>1, <2>2 DEF InFront, Ongoing
  <2>3. CASE Ongoing
    <3>1. Told' = Told /\ Due' = Due /\ Due \in Nat
      BY <2>1, <2>3, WalkTypes DEF Told, Due
    <3>2. ASSUME NEW x \in Told, x \in List' PROVE Place(x)' < Due
      <4>1. x \in List /\ Place(x)' <= Place(x)
        BY <1>1, <2>3, <3>2, MovesDown
      <4>2. Place(x) < Due /\ Place(x) \in Nat /\ Place(x)' \in Nat
        BY <2>1, <2>3, <3>2, <4>1, ListTyped, ListTypedNext DEF InFront, ListTypes
      <4>3. QED BY <3>1, <4>1, <4>2
    <3>3. QED BY <2>1, <2>3, <3>1, <3>2 DEF InFront, Ongoing
  <2>4. QED BY <2>2, <2>3
<1>2. CASE UNCHANGED <<tables, walk, untouched, events>>
  <2>1. walk' = walk /\ events' = events
    BY <1>2
  <2>2. List' = List /\ \A x : Place(x)' = Place(x)
    BY <1>2 DEF List, Listed, Place, Rank, Ahead, Key, tables
  <2>3. Told' = Told /\ Due' = Due /\ (Ongoing' <=> Ongoing)
    BY <2>1 DEF Told, Due, Ongoing
  <2>4. QED BY <2>1, <2>2, <2>3 DEF InFront
<1>3. ASSUME NEW f \in Filters, NEW s \in Sorts, NEW limit \in Limits, StartWalk(f, s, limit)
      PROVE  InFront'
  <2>1. walk'.pc = "count" /\ walk'.seen = {} /\ walk'.twice = {}
    BY <1>3 DEF StartWalk
  <2>2. Told' = {}
    BY <2>1 DEF Told
  <2>3. QED BY <2>1, <2>2 DEF InFront
<1>4. CASE Count
  <2>1. walk \in Walking /\ Ongoing
    BY <1>4, WalkTypes DEF Count, Ongoing
  <2>2. /\ walk'.pc = "select" /\ walk'.seen = walk.seen /\ walk'.twice = walk.twice
        /\ walk'.offset = walk.offset /\ walk'.filter = walk.filter /\ walk'.sort = walk.sort
    BY <1>4, <2>1 DEF Count, Walking
  <2>3. List' = List /\ \A x : Place(x)' = Place(x)
    BY <1>4, <2>2 DEF Count, Reading, List, Listed, Place, Rank, Ahead, Key, tables
  <2>4. Told' = Told /\ Due' = Due
    BY <1>4, <2>2 DEF Count, Told, Due
  <2>5. QED BY <1>4, <2>1, <2>2, <2>3, <2>4 DEF Count, InFront
<1>5. CASE SelectPage
  <2>1. walk.pc = "select" /\ UNCHANGED <<tables, events>>
    BY <1>5 DEF SelectPage, Reading
  <2>2. PICK P : /\ P = Page(walk.filter, walk.sort, walk.offset, walk.limit)
                 /\ walk' = [walk EXCEPT !.pc = "answer", !.page = P]
    BY <1>5 DEF SelectPage
  <2>3. QED BY <2>1, <2>2, SelectsFresh
<1>6. CASE SelectCut
  <2>1. /\ walk.pc = "select" /\ UNCHANGED tables
        /\ events' = events \cup {"fault"}
    BY <1>6 DEF SelectCut, Reading
  <2>2. PICK P : /\ P \subseteq Page(walk.filter, walk.sort, walk.offset, walk.limit)
                 /\ walk' = [walk EXCEPT !.pc = "answer", !.page = P]
    <3>1. PICK n \in 0..Cardinality(BuildIds) :
            walk' = [walk EXCEPT !.pc = "answer",
                       !.page = {b \in Page(walk.filter, walk.sort, walk.offset, walk.limit) :
                                   Rank(walk.filter, walk.sort, b) < n}]
      BY <1>6 DEF SelectCut
    <3>2. QED BY <3>1
  <2>3. "rose" \notin events
    BY <2>1
  <2>4. QED BY <2>1, <2>2, <2>3, SelectsFresh
<1>7. CASE Answer
  <2>1. walk \in Walking /\ Ongoing
    BY <1>7, WalkTypes DEF Answer, Ongoing
  <2>2. /\ walk'.pc = IF GoesOn(walk) THEN "count" ELSE "end"
        /\ walk'.seen = walk.seen \cup walk.page
        /\ walk'.twice = walk.twice \cup (walk.seen \cap walk.page)
        /\ GoesOn(walk) => walk'.offset = walk.offset + walk.limit
        /\ walk'.filter = walk.filter /\ walk'.sort = walk.sort
    BY <1>7, <2>1 DEF Answer, Walking, NextOffset
  <2>3. List' = List /\ \A x : Place(x)' = Place(x)
    BY <1>7, <2>2 DEF Answer, Reading, List, Listed, Place, Rank, Ahead, Key, tables
  <2>4. events' = events /\ walk.pc = "answer"
    BY <1>7 DEF Answer
  <2>5. Told' = Told /\ (GoesOn(walk) => Due' = Due)
    BY <2>2, <2>4 DEF Told, Due
  <2>6. walk'.twice = {}
    BY <2>1, <2>2, <2>4 DEF InFront
  <2>7. Ongoing' => GoesOn(walk)
    BY <2>2 DEF Ongoing
  <2>8. QED BY <2>1, <2>2, <2>3, <2>4, <2>5, <2>6, <2>7 DEF InFront
<1>8. CASE PageFails
  <2>1. walk \in Walking
    BY <1>8, WalkTypes DEF PageFails
  <2>2. walk'.pc = "end" /\ walk'.twice = walk.twice
    BY <1>8, <2>1 DEF PageFails, Walking
  <2>3. QED BY <1>8, <2>2 DEF PageFails, InFront, Ongoing
<1>9. QED BY <1>1, <1>2, <1>3, <1>4, <1>5, <1>6, <1>7, <1>8, Steps

(* A walk lists a build twice only if a build came into the list or moved  *)
(* up in it meanwhile (store/build.go:70-87, lib/api.ts:237-243).        *)
THEOREM MovesRepeat == Spec => []OnlyMovesRepeat
<1>1. TypeOK /\ InFront /\ [Next]_vars => TypeOK' /\ InFront'
  BY ListingTypes, InFrontStays
<1>2. InFront => OnlyMovesRepeat
  BY DEF InFront, OnlyMovesRepeat
<1>3. QED BY <1>1, <1>2, ListingStarts, InFrontStarts, PTL DEF Spec

LEMMA BehindStarts == Init => Behind
BY DEF Init, Behind, Idle, Ongoing

LEMMA BehindCounted ==
  ASSUME TypeOK, TypeOK', Behind, Count
  PROVE  Behind'
<1>1. walk \in Walking /\ Ongoing
  BY WalkTypes DEF Count, Ongoing
<1>2. /\ walk'.pc = "select" /\ walk'.seen = walk.seen /\ walk'.total = Cardinality(List)
      /\ walk'.offset = walk.offset /\ walk'.limit = walk.limit
      /\ walk'.filter = walk.filter /\ walk'.sort = walk.sort
  BY <1>1 DEF Count, Walking
<1>3. List' = List /\ \A x : Place(x)' = Place(x)
  BY <1>2 DEF Count, Reading, List, Listed, Place, Rank, Ahead, Key, tables
<1>4. Told' = Told /\ Due' = Due
  BY <1>2 DEF Count, Told, Due
<1>5. Quiet' => Quiet
  BY <1>2 DEF Count, Quiet
<1>6. Cardinality(List) <= Cardinality(List)
  BY ListsFinite DEF List
<1>7. untouched' = untouched
  BY DEF Count
<1>8. QED BY <1>1, <1>2, <1>3, <1>4, <1>5, <1>6, <1>7 DEF Behind

LEMMA BehindSelected ==
  ASSUME TypeOK, TypeOK', StampsApart, Behind, SelectPage
  PROVE  Behind'
<1> SUFFICES ASSUME Quiet' PROVE Behind'
  BY DEF Behind
<1> DEFINE P == Page(walk.filter, walk.sort, walk.offset, walk.limit)
<1>1. walk \in Walking /\ Ongoing
  BY WalkTypes DEF SelectPage, Ongoing
<1>2. /\ walk'.pc = "answer" /\ walk'.page = P /\ walk'.seen = walk.seen
      /\ walk'.total = walk.total /\ walk'.offset = walk.offset /\ walk'.limit = walk.limit
      /\ walk'.filter = walk.filter /\ walk'.sort = walk.sort
  BY <1>1 DEF SelectPage, Walking
<1>3. List' = List /\ \A x : Place(x)' = Place(x)
  BY <1>2 DEF SelectPage, Reading, List, Listed, Place, Rank, Ahead, Key, tables
<1>4. Quiet /\ PageLength(walk.limit) = walk.limit
  <2>1. Quiet
    BY <1>2 DEF SelectPage, Quiet
  <2>2. walk.limit <= Clamp /\ walk.limit \in Nat /\ Clamp \in Nat
    BY <1>1, <2>1, WalkTypes, PageAssumption DEF Quiet
  <2>3. QED BY <2>1, <2>2 DEF PageLength
<1>5. /\ walk.offset \in Nat /\ walk.limit \in Nat \ {0} /\ walk.total \in Nat
      /\ \A x \in List : Place(x) \in Nat
  BY <1>1, WalkTypes, Places
<1>6. \A x \in untouched : x \in List /\ (x \in walk.seen \/ Place(x) >= walk.offset)
  BY <1>1, <1>4 DEF Behind, SelectPage, Told, Due
<1>7. Told' = walk.seen \cup P /\ Due' = walk.offset + walk.limit
  BY <1>2 DEF Told, Due
<1>8. ASSUME NEW x \in List, Place(x) >= walk.offset
      PROVE  x \in P \/ Place(x) >= walk.offset + walk.limit
  <2>1. CASE Place(x) >= walk.offset + walk.limit
    BY <2>1
  <2>2. CASE ~(Place(x) >= walk.offset + walk.limit)
    <3>1. Place(x) \in walk.offset..(walk.offset + PageLength(walk.limit) - 1)
      BY <1>4, <1>5, <1>8, <2>2
    <3>2. QED BY <3>1 DEF Page, List, Place
  <2>3. QED BY <2>1, <2>2
<1>9. \A x \in untouched' : x \in List' /\ (x \in Told' \/ Place(x)' >= Due')
  <2>1. untouched' = untouched
    BY DEF SelectPage
  <2>2. QED BY <1>3, <1>6, <1>7, <1>8, <2>1
<1>10. ASSUME NEW x \in untouched, x \notin Told' PROVE GoesOn(walk)'
  <2>1. x \in List /\ Place(x) >= walk.offset /\ Place(x) >= walk.offset + walk.limit
    BY <1>6, <1>7, <1>8, <1>10
  <2>2. PICK b \in List : Place(b) = walk.offset
    BY <1>5, <2>1, NoGaps
  <2>3. b \in P
    <3>1. walk.offset \in walk.offset..(walk.offset + PageLength(walk.limit) - 1)
      BY <1>4, <1>5
    <3>2. QED BY <2>2, <3>1 DEF Page, List, Place
  <2>4. Cardinality(List) <= walk.total /\ Place(x) < Cardinality(List) /\ Cardinality(List) \in Nat
    BY <1>4, <2>1, Places DEF Behind, SelectPage
  <2>5. walk.offset + walk.limit < walk.total
    BY <1>5, <2>1, <2>4
  <2>6. QED BY <1>2, <2>3, <2>5 DEF GoesOn, HasMore
<1>11. untouched' = untouched
  BY DEF SelectPage
<1>12. GoesOn(walk)' \/ untouched' \subseteq Told'
  BY <1>10, <1>11
<1>13. QED BY <1>2, <1>9, <1>12 DEF Behind

LEMMA BehindAnswered ==
  ASSUME TypeOK, TypeOK', Behind, Answer
  PROVE  Behind'
<1>1. walk \in Walking /\ Ongoing
  BY WalkTypes DEF Answer, Ongoing
<1>2. /\ walk'.pc = IF GoesOn(walk) THEN "count" ELSE "end"
      /\ walk'.seen = walk.seen \cup walk.page
      /\ walk'.limit = walk.limit
      /\ GoesOn(walk) => walk'.offset = walk.offset + walk.limit
      /\ walk'.filter = walk.filter /\ walk'.sort = walk.sort
  BY <1>1 DEF Answer, Walking, NextOffset
<1>3. List' = List /\ \A x : Place(x)' = Place(x)
  BY <1>2 DEF Answer, Reading, List, Listed, Place, Rank, Ahead, Key, tables
<1>4. events' = events /\ untouched' = untouched /\ walk.pc = "answer"
  BY DEF Answer
<1>5. Told' = Told /\ (GoesOn(walk) => Due' = Due) /\ walk'.seen = Told
  BY <1>2, <1>4 DEF Told, Due
<1>6. Quiet' => Quiet
  BY <1>2, <1>4 DEF Quiet
<1>7. Ongoing' => GoesOn(walk)
  BY <1>2 DEF Ongoing
<1>8. QED BY <1>1, <1>2, <1>3, <1>4, <1>5, <1>6, <1>7 DEF Behind

LEMMA BehindNoted ==
  ASSUME TypeOK, TypeOK', Behind, NEW b, Note(b), OnlyWrites(b)
  PROVE  Behind'
<1> SUFFICES ASSUME Quiet' PROVE Behind'
  BY DEF Behind
<1>1. walk' = walk /\ untouched' = untouched \ {b} /\ Quiet
  BY DEF Note, Quiet
<1>2. CASE ~Ongoing
  BY <1>1, <1>2 DEF Behind, Ongoing
<1>3. CASE Ongoing
  <2>1. Told' = Told /\ Due' = Due /\ Due \in Nat /\ GoesOn(walk)' = GoesOn(walk)
    BY <1>1, <1>3, WalkTypes DEF Told, Due, GoesOn, HasMore
  <2>2. events' \cap {"left", "late"} = {}
    BY DEF Quiet
  <2>3. ASSUME NEW x \in untouched' PROVE x \in List' /\ (x \in Told' \/ Place(x)' >= Due')
    <3>1. x \in List /\ x # b /\ (x \in Told \/ Place(x) >= Due)
      BY <1>1, <1>3, <2>3 DEF Behind
    <3>2. x \in List' /\ Place(x)' >= Place(x)
      BY <1>3, <2>2, <3>1, StaysBehind
    <3>3. Place(x) \in Nat /\ Place(x)' \in Nat
      BY <3>1, <3>2, ListTyped, ListTypedNext DEF ListTypes
    <3>4. QED BY <2>1, <3>1, <3>2, <3>3
  <2>4. ASSUME walk.pc = "select" PROVE Cardinality(List') <= walk.total
    <3>1. List' \subseteq List
      BY <1>3, <2>4 DEF Note, Happened, Quiet, Entered
    <3>2. IsFiniteSet(List) /\ Cardinality(List) \in Nat
      BY ListsFinite DEF List
    <3>3. IsFiniteSet(List') /\ Cardinality(List') <= Cardinality(List)
      BY <3>1, <3>2, FS_Subset
    <3>4. Cardinality(List') \in Nat /\ walk.total \in Nat /\ Cardinality(List) <= walk.total
      BY <1>1, <1>3, <2>4, <3>3, FS_CardinalityType, WalkTypes DEF Behind
    <3>5. QED BY <3>2, <3>3, <3>4
  <2>5. QED BY <1>1, <1>3, <2>1, <2>3, <2>4 DEF Behind, Ongoing
<1>4. QED BY <1>2, <1>3

LEMMA BehindStays == TypeOK /\ TypeOK' /\ StampsApart /\ Behind /\ [Next]_vars => Behind'
<1> SUFFICES ASSUME TypeOK, TypeOK', StampsApart, Behind, [Next]_vars PROVE Behind'
  OBVIOUS
<1>1. CASE UNCHANGED <<tables, walk, untouched, events>>
  BY <1>1 DEF Behind, Quiet, Told, Due, Ongoing, List, Listed, Place, Rank, Ahead, Key, tables,
              GoesOn, HasMore
<1>2. ASSUME NEW f \in Filters, NEW s \in Sorts, NEW limit \in Limits, StartWalk(f, s, limit)
      PROVE  Behind'
  <2>1. /\ walk'.pc = "count" /\ walk'.offset = 0 /\ walk'.filter = f /\ walk'.seen = {}
        /\ untouched' = Listed(f)
    BY <1>2 DEF StartWalk
  <2>2. List' = Listed(f)
    BY <1>2, <2>1 DEF StartWalk, Reading, tables, List, Listed
  <2>3. \A x \in List' : Place(x)' >= 0
    BY ListTypedNext DEF ListTypes
  <2>4. Due' = 0
    BY <2>1 DEF Due
  <2>5. QED BY <2>1, <2>2, <2>3, <2>4 DEF Behind
<1>3. CASE SelectCut \/ PageFails
  BY <1>3 DEF SelectCut, PageFails, Behind, Quiet
<1>4. QED BY <1>1, <1>2, <1>3, BehindCounted, BehindSelected, BehindAnswered, BehindNoted, Steps

(* A walk that has ended has listed every build that was in the list at    *)
(* its start and that nobody wrote since, unless a build left the list, an *)
(* older edit landed late, the list grew between a COUNT and its SELECT, a *)
(* statement failed or the pages were asked for longer than the store      *)
(* reads (store/build.go:52-137, handler/build.go:51-57,                   *)
(* lib/api.ts:233-245).                                                  *)
THEOREM LossHides == Spec => []OnlyLossHides
<1>1. Init => TypeOK /\ StampsApart /\ Behind
  BY ListingStarts, StampsStart, BehindStarts
<1>2. TypeOK /\ StampsApart /\ Behind /\ [Next]_vars => TypeOK' /\ StampsApart' /\ Behind'
  BY ListingTypes, StampsStay, BehindStays
<1>3. Behind => OnlyLossHides
  BY DEF Behind, Quiet, OnlyLossHides
<1>4. QED BY <1>1, <1>2, <1>3, PTL DEF Spec
=============================================================================
