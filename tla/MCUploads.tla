----------------------------- MODULE MCUploads -----------------------------
(***************************************************************************)
(* Instances of Uploads for TLC.                                           *)
(***************************************************************************)
EXTENDS Uploads, FiniteSets, TLC

Symmetry ==
  {p @@ q @@ t @@ u : p \in Permutations(Requests), q \in Permutations(Builders),
                      t \in Permutations(Pictures), u \in Permutations(DisplayNames)}

(* A behaviour is about files or about profiles.  In the first kind nobody *)
(* edits a profile, one builder has pictures, and uploads choose three names *)
(* or choose one name again and again.                                     *)
(* In the second kind the edits of one builder follow one another, and     *)
(* there is one file name, of an avatar, to upload to.  A body that names   *)
(* a file without an answer names one of its own target's.                 *)
VARIABLE profiles

AtMostOne(S) == \A x, y \in S : x = y
Editing(r) == req[r].pc = "profile"
InTurn ==
  \A r, s \in Requests :
    r # s /\ Editing(r) /\ Editing(s) => req[r].builder # req[s].builder
Pictured == {b \in Builders : avatar[b] # NoImage}
            \cup {c.file.target.of : c \in {d \in chosen : d.file.target.kind = "avatar"}}

TypedFirst == \A t \in typed : Row(t) = [target |-> t, at |-> 0]

FilesNext ==
  /\ Next
  /\ AtMostOne(Pictured)' /\ Cardinality(chosen') <= 3
  /\ (reused' # {} => AtMostOne(chosen'))
  /\ \A r \in Requests : ~Editing(r)'
  /\ TypedFirst'
  /\ \A i \in BuildIds : cover'[i] # Elsewhere
  /\ \A b \in Builders : avatar'[b] # Elsewhere
ProfilesNext ==
  /\ Next
  /\ now' = 0 /\ AtMostOne(chosen)'
  /\ \A c \in chosen' : c.file.target.kind = "avatar"
  /\ \A i \in BuildIds : cover'[i] \in {NoImage, Elsewhere} \cup Answered
  /\ InTurn'

MCInit ==
  /\ Init
  /\ profiles \in BOOLEAN
  /\ TypedFirst
  /\ \/ profiles
     \/ /\ AtMostOne(Pictured)
        /\ \A b \in Builders : avatar[b] # Elsewhere
        /\ AtMostOne({names[b] : b \in Builders})
        /\ \A b \in Builders : bios[b] = NoBio
MCNext ==
  /\ \/ profiles /\ ProfilesNext
     \/ ~profiles /\ FilesNext
  /\ UNCHANGED profiles
MCSpec == MCInit /\ [][MCNext]_<<vars, profiles>>

(* NameAsAsked for a behaviour in which the edits of a builder do not      *)
(* overlap: then one that leaves the display name out does not undo one    *)
(* that gave it (handler/builder.go:103).  Of the other columns this does  *)
(* not hold, see KeepExistingValues.                                       *)
SerialNameAsAsked == profiles => NameAsAsked
=============================================================================
