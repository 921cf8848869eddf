----------------------------- MODULE MCAccounts -----------------------------
(***************************************************************************)
(* Instances of Accounts for TLC: two GitHub user names that somebody may  *)
(* also choose as a handle, so may one of the suffixed forms.              *)
(***************************************************************************)
EXTENDS Accounts, TLC

MCHandles == {"ann", "ann-1", "ann-2", "annie", "annie-1"}
MCLogins == {"Ann", "Annie"}
MCWritten == MCLogins \cup {"ann-1"}
MCLower == "Ann" :> "ann" @@ "Annie" :> "annie" @@ "ann-1" :> "ann-1"
MCSuffixed == [h \in MCHandles |-> CASE h = "ann" -> {"ann-1", "ann-2"}
                                     [] h = "annie" -> {"annie-1"}
                                     [] OTHER -> {}]

Symmetry == Permutations(Requests) \cup Permutations(Accounts) \cup Permutations(Codes)

(* A behaviour is serial or not.  When it is, requests with the same code  *)
(* or of the same account follow one another, nothing fails and the        *)
(* process does not stop; the others interleave.                           *)
VARIABLE serial

OnePerOrigin ==
  \A r, s \in Requests :
    r # s /\ Active(r) /\ Active(s) => req[r].by # req[s].by
SerialNext == \E r \in Requests : (Begin(r) \/ Step(r)) /\ OnePerOrigin'

MCInit == Init /\ serial \in BOOLEAN
MCNext ==
  /\ \/ serial /\ SerialNext
     \/ ~serial /\ Next
  /\ UNCHANGED serial
MCSpec == MCInit /\ [][MCNext]_<<vars, serial>>

(* A code makes one builder when its requests do not overlap: the code is  *)
(* looked up before the INSERT and marked after it (store/builder.go:49).  *)
SerialCodes == serial => OneBuilderPerCode

(* An account makes one builder when its sign-ins do not overlap and none  *)
(* is cut short, and that builder can be signed in to again                *)
(* (store/auth.go:170-237).                                                *)
SerialNoStray == serial => NoStrayBuilder
=============================================================================
