---------------------------- MODULE MCCatalogue ----------------------------
(***************************************************************************)
(* Instances of Listing and Search for TLC: the two ways to read a         *)
(* catalogue while it is written.                                          *)
(***************************************************************************)
EXTENDS Listing, Search, TLC

CONSTANTS ada, blog, shop, golang,  \* a builder, two builds and a technology
          red, blue,              \* texts
          word, form, part, mark  \* queries: a word, another form of one, a part, a punctuation mark

MCKindOf == ada :> "builder" @@ blog :> "build" @@ shop :> "build" @@ golang :> "technology"
MCMatching == word :> {red} @@ form :> {blue} @@ part :> {} @@ mark :> {}
MCContaining == word :> {red} @@ form :> {} @@ part :> {red, blue} @@ mark :> {red}

Symmetry == Permutations(BuildIds) \cup Permutations(Writers) \cup Permutations(Editors)

(* What a behaviour is about: the walk over the list of one filter, or a   *)
(* search.  The properties are about the end of one walk or search.        *)
VARIABLE topic

AnyStatus == CHOOSE s \in Statuses : TRUE
Working == {w \in Writers : writer[w] # Idle}

(* Only a topic that the links or the status decide has them change.  Over *)
(* the whole list two writers overlap, and edits may be under way or have  *)
(* landed when the walk begins.                                            *)
OnTopic ==
  /\ walk # Idle => walk.filter = topic /\ (walk.sort = "created" => topic = Whole)
                 /\ (walk.limit > Clamp => topic \in Statuses)
  /\ topic # Whole => Cardinality(Working) <= 1 /\ clock <= Cardinality(BuildIds) + 1
  /\ topic # Tech => /\ linked = {}
                     /\ \A w \in Working : ~writer[w].link
                     /\ \A w \in Working :
                          writer[w].pc = "write" /\ writer[w].sync => writer[w].kind = "insert"
  /\ topic \notin Statuses =>
       /\ \A b \in BuildIds : rows[b] # Absent => rows[b].status = AnyStatus
       /\ \A w \in Writers : writer[w].pc = "write" => writer[w].status = AnyStatus

(* Behind these events neither property of the walk claims anything. *)
Spoiled == events \cap {"left", "late", "grew", "fault"} # {} /\ "rose" \in events

WalkNext ==
  /\ walk.pc # "end" /\ ~Spoiled
  /\ Next
  /\ walk'.pc = "idle" => /\ topic = Whole
                          /\ \A b \in BuildIds : rows'[b] = Absent <=> rows[b] = Absent
  /\ topic # Tech => \A w \in Writers : writer[w] = Idle => writer'[w].pc # "unlink"
  /\ OnTopic'

(* A search among a builder and two builds, or a technology and a build,   *)
(* whose kinds are looked up one by one.  At most one thing is out of step *)
(* with the index, and at most one is written while a search runs.         *)
FewThings == text[golang] = None \/ (text[ada] = None /\ text[shop] = None)
FindNext ==
  /\ search.pc # "done" /\ ~faulty
  /\ SearchNext
  /\ FewThings'
  /\ Cardinality(lapsed' \cup tangled') <= 1
  /\ Searching /\ Searching' => /\ Cardinality(Things \ still') <= 1
                                /\ lapsed' \subseteq lapsed \cup (still \ still')

MCInit ==
  /\ Init /\ SearchInit
  /\ topic \in Filters \cup {"search"}
  /\ IF topic = "search"
       THEN /\ FewThings
            /\ unused = BuildIds /\ linked = {} /\ \A b \in BuildIds : rows[b] = Absent
       ELSE OnTopic /\ \A x \in Things : text[x] = None
MCNext ==
  /\ UNCHANGED topic
  /\ IF topic = "search" THEN FindNext /\ UNCHANGED vars ELSE WalkNext /\ UNCHANGED searchVars
MCSpec == MCInit /\ [][MCNext]_<<vars, searchVars, topic>>
=============================================================================
