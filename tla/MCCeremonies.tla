---------------------------- MODULE MCCeremonies ----------------------------
(***************************************************************************)
(* Instances of Ceremonies for TLC.                                        *)
(***************************************************************************)
EXTENDS Ceremonies, TLC

Symmetry == Permutations(Requests) \cup Permutations(Builders) \cup Permutations(Passkeys)

(* There are three kinds of behaviours.  In a serial one the requests that *)
(* carry an answer of the same passkey follow one another and no statement *)
(* fails.  In a timed one the clock runs, for one builder with one passkey *)
(* and one request at a time.  In a race everything else may happen.       *)
VARIABLE mode

OnePerPasskey ==
  \A r, s \in Requests :
    r # s /\ Active(r) /\ Active(s) => req[r].passkey # req[s].passkey
SerialNext ==
  /\ \/ Begin \/ Restart
     \/ \E k \in Keys : FinishRefused(k)
     \/ \E r \in Requests : Finish(r) \/ Proceed(r)
  /\ OnePerPasskey'

AtMostOne(S) == \A x, y \in S : x = y
Busy == {r \in Requests : Active(r)}
BuildersSeen == {issued[i].for : i \in DOMAIN issued} \ {NoBuilder}
PasskeysSeen == {p \in Passkeys : credentials[p] # NoRow}
                \cup {req[r].passkey : r \in Busy}
TimedNext ==
  /\ Next
  /\ AtMostOne(Busy)' /\ AtMostOne(BuildersSeen)' /\ AtMostOne(PasskeysSeen)'
  /\ Len(issued') <= 3

MCInit == Init /\ mode \in {"serial", "timed", "race"}
MCNext ==
  /\ \/ mode = "serial" /\ SerialNext
     \/ mode = "timed" /\ TimedNext
     \/ mode = "race" /\ Next /\ UNCHANGED now
  /\ UNCHANGED mode
MCSpec == MCInit /\ [][MCNext]_<<vars, mode>>

(* CountCovers for a behaviour that is serial (handler/auth.go:370, 409).  *)
SerialCountCovers == mode = "serial" => CountCovers
=============================================================================
