------------------------------ MODULE MCBuilds ------------------------------
(***************************************************************************)
(* Instances of Builds for TLC.                                            *)
(***************************************************************************)
EXTENDS Builds, TLC

(* Two technologies; one of them also with capitals; only spaces. *)
MCSlugs == {"go", "Go", "vue", " "}
MCTechs == {"go", "vue"}
MCNormalize == "go" :> "go" @@ "Go" :> "go" @@ "vue" :> "vue" @@ " " :> ""

(* The shortest body that links. *)
MCPayloadOne == {<<"go">>}
(* No technology; one behind a blank; two. *)
MCPayloads == {<< >>, <<" ", "go">>, <<"Go", "vue">>}
(* A blank, then the same technology twice: the second link is refused. *)
MCPayloadTwice == {<<" ", "go", "Go">>}
(* All of these. *)
MCPayloadsAll == MCPayloadOne \cup MCPayloads \cup MCPayloadTwice

Symmetry ==
  {p @@ q @@ t : p \in Permutations(Requests), q \in Permutations(Builders),
                 t \in Permutations(Texts)}
=============================================================================
