---------------------------- MODULE SerialBuilds ----------------------------
(***************************************************************************)
(* Builds with behaviours of two kinds.  In a serial one the requests on   *)
(* one build follow one another, those on different builds interleave, no  *)
(* statement fails, no body names a technology twice (the second link is   *)
(* refused, which is a failure as well), and a restart rebuilds the index. *)
(* In the others everything of Builds may happen.                          *)
(*                                                                         *)
(* For TLC bodies name technologies in the shortest way, and in every way  *)
(* in a serial behaviour in which nobody has posted an update.             *)
(***************************************************************************)
EXTENDS MCBuilds

VARIABLE serial

OnePerBuild ==
  \A r, s \in Requests :
    r # s /\ Active(r) /\ Active(s) => req[r].build # req[s].build
NamesOnce(slugs) ==
  \A i, j \in DOMAIN slugs :
    /\ Normalize[slugs[i]] = Normalize[slugs[j]]
    /\ Normalize[slugs[i]] # Blank
    => i = j
NoneTwice ==
  \A r \in Requests : Active(r) /\ req[r].slugs # NoTechs => NamesOnce(req[r].slugs)
SerialNext ==
  /\ \/ \E r \in Requests : Begin(r) \/ Step(r)
     \/ Restart /\ index' = RebuiltIndex
  /\ OnePerBuild'
  /\ NoneTwice'
SerialSpec == Init /\ [][SerialNext]_vars

NoUpdatesPosted == updSeq = 0 /\ \A r \in Requests : req[r].pc # "addUpdate"
ShortBodies == \A r \in Requests : Active(r) => req[r].slugs \in MCPayloadOne \cup {NoTechs}

MCInit == Init /\ serial \in BOOLEAN
MCNext ==
  /\ \/ serial /\ SerialNext /\ (NoUpdatesPosted \/ ShortBodies)'
     \/ ~serial /\ Next /\ ShortBodies'
  /\ UNCHANGED serial
MCSpec == MCInit /\ [][MCNext]_<<vars, serial>>

(* IndexInSync for a behaviour that is serial: without overlap and failed  *)
(* statements the index follows the table, through restarts in the middle  *)
(* of a request as well (handler/build.go:117, 177; cmd/server/main.go:59). *)
SerialIndexInSync == serial => IndexInSync

(* NoOrphanRows for a behaviour that is serial: although nothing enforces  *)
(* the foreign keys, Delete takes a build's links and updates with it      *)
(* (store/build.go:420-424), those of a create or an update that a restart *)
(* cut off as well.                                                        *)
SerialNoOrphans == serial => NoOrphanRows

(* LinksAsAsked for a behaviour that is serial: what create and update     *)
(* answer is what the body asked for (store/build.go:294).                 *)
SerialLinksAsAsked == serial => LinksAsAsked
=============================================================================
