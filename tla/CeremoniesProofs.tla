-------------------------- MODULE CeremoniesProofs --------------------------
(***************************************************************************)
(* Theorems about Ceremonies, for every set of requests, builders and      *)
(* passkeys, every bound, with and without faults.                         *)
(*                                                                         *)
(* The argument: the history `issued` ties every ceremony to the place it  *)
(* may be in (Linked), so no two entries of the maps share a challenge;    *)
(* taking one moves its challenge from the maps to a single request, and   *)
(* granting moves it on to `accepted` (Apart).  In the serial behaviours   *)
(* of MCCeremonies, only one request at a time knows a passkey's count.    *)
(***************************************************************************)
EXTENDS MCCeremonies, SequenceTheorems, TLAPS

USE BoundAssumption, NameAssumption, KeyAssumption

(* A ceremony is what its challenge was issued for. *)
IssuedIn(all, e, kind, b) ==
  /\ e.challenge \in DOMAIN all
  /\ all[e.challenge] = [kind |-> kind, for |-> b]
  /\ e.builder = b

KindOf(pc) == IF pc \in {"attest", "save"} THEN "registration" ELSE "login"

Linked ==
  /\ \A b \in Builders : regSessions[b] # NoCeremony =>
       IssuedIn(issued, regSessions[b], "registration", b)
  /\ \A b \in Builders : loginSessions[b] # NoCeremony =>
       IssuedIn(issued, loginSessions[b], "login", b)
  /\ \A c \in Challenges : loginSessions[c] # NoCeremony =>
       loginSessions[c].challenge = c /\ IssuedIn(issued, loginSessions[c], "login", NoBuilder)
  /\ \A r \in Requests : Active(r) =>
       \E b \in {req[r].builder, NoBuilder} :
         IssuedIn(issued, req[r].ceremony, KindOf(req[r].pc), b)

(* Once a login has been validated the passkey is its builder's. *)
Verified ==
  \A r \in Requests : req[r].pc \in {"count", "session"} =>
    /\ credentials[req[r].passkey] # NoRow
    /\ credentials[req[r].passkey].owner = req[r].builder

(* A challenge is in the maps, or held by one request, or granted. *)
Apart ==
  /\ \A r \in Requests : Active(r) => req[r].ceremony.challenge \notin InMaps
  /\ \A r, s \in Requests :
       r # s /\ Active(r) /\ Active(s) =>
         req[r].ceremony.challenge # req[s].ceremony.challenge
  /\ \A i \in DOMAIN accepted : accepted[i].challenge \notin InMaps \cup InHand
  /\ ChallengeUsedOnce

IInv == TypeOK /\ Linked /\ Verified /\ Apart /\ GrantedAsIssued

(* Every request but r is where it was. *)
OthersWait(r) == \A s \in Requests : s # r => req'[s] = req[s]

(* What leads from one place to the next: the tables and the history only  *)
(* grow.                                                                   *)
Grows ==
  /\ \A c \in DOMAIN issued : c \in DOMAIN issued' /\ issued'[c] = issued[c]
  /\ \A p \in Passkeys : credentials[p] # NoRow =>
       credentials'[p] # NoRow /\ credentials'[p].owner = credentials[p].owner

LEMMA RequestType ==
  ASSUME TypeOK, NEW r \in Requests, Active(r)
  PROVE  req[r] \in Request
BY DEF TypeOK, Active, Idle

-----------------------------------------------------------------------------
(* The type invariant, one lemma for each kind of step. *)
LEMMA IssueType ==
  ASSUME TypeOK, NEW kind \in {"registration", "login"},
         NEW b \in Builders \cup {NoBuilder}, Issue(kind, b),
         NEW allowed \in SUBSET Passkeys
  PROVE  /\ issued' \in Seq(Purposes) /\ Len(issued') = Len(issued) + 1
         /\ Len(issued') <= MaxChallenges
         /\ NewCeremony(b, allowed) \in Ceremony
         /\ \A c \in DOMAIN issued : c \in DOMAIN issued' /\ issued'[c] = issued[c]
         /\ Len(issued) + 1 \in DOMAIN issued'
         /\ issued'[Len(issued) + 1] = [kind |-> kind, for |-> b]
<1> DEFINE new == [kind |-> kind, for |-> b]
<1>1. new \in Purposes
  BY DEF Purposes
<1>2. issued \in Seq(Purposes) /\ issued' = Append(issued, new)
      /\ Len(issued) \in Nat /\ Len(issued) < MaxChallenges
  BY DEF TypeOK, Issue
<1> HIDE DEF new
<1>3. /\ issued' \in Seq(Purposes) /\ Len(issued') = Len(issued) + 1
      /\ \A c \in 1..Len(issued) : issued'[c] = issued[c]
      /\ issued'[Len(issued) + 1] = new
      /\ DOMAIN issued = 1..Len(issued) /\ DOMAIN issued' = 1..(Len(issued) + 1)
  BY <1>1, <1>2
<1>4. NewCeremony(b, allowed) \in Ceremony
  BY <1>2 DEF TypeOK, NewCeremony, Ceremony, Challenges
<1>5. QED BY <1>2, <1>3, <1>4 DEF new

LEMMA BeginType == ASSUME TypeOK, Begin PROVE TypeOK'
<1> USE DEF Keys
<1>1. ASSUME NEW b \in Builders, BeginRegistration(b) PROVE TypeOK'
  <2>1. NewCeremony(b, {}) \in Ceremony /\ issued' \in Seq(Purposes)
        /\ Len(issued') <= MaxChallenges
    BY <1>1, IssueType DEF BeginRegistration
  <2>2. QED BY <1>1, <2>1 DEF BeginRegistration, Issue, TypeOK, time
<1>2. ASSUME NEW b \in Builders, BeginLogin(b) PROVE TypeOK'
  <2>1. CredentialsOf(b) \in SUBSET Passkeys
    BY DEF CredentialsOf
  <2>2. NewCeremony(b, CredentialsOf(b)) \in Ceremony /\ issued' \in Seq(Purposes)
        /\ Len(issued') <= MaxChallenges
    BY <1>2, <2>1, IssueType DEF BeginLogin
  <2>3. QED BY <1>2, <2>2 DEF BeginLogin, Issue, TypeOK, time
<1>3. CASE BeginDiscoverableLogin
  <2>1. NewCeremony(NoBuilder, {}) \in Ceremony /\ issued' \in Seq(Purposes)
        /\ Len(issued') <= MaxChallenges
    BY <1>3, IssueType DEF BeginDiscoverableLogin
  <2>2. Len(issued) + 1 \in Keys
    BY <1>3 DEF BeginDiscoverableLogin, Issue, TypeOK, Challenges
  <2>3. QED BY <1>3, <2>1, <2>2 DEF BeginDiscoverableLogin, Issue, TypeOK, time
<1>4. QED BY <1>1, <1>2, <1>3 DEF Begin

LEMMA EnterType ==
  ASSUME TypeOK, NEW r \in Requests, NEW pc \in {"attest", "assert"},
         NEW b \in Builders, NEW e \in Ceremony \cup {NoCeremony},
         NEW c \in Challenges, NEW p \in Passkeys, Enter(r, pc, b, e, c, p)
  PROVE  /\ counter' \in [Passkeys -> Counts]
         /\ req' \in [Requests -> Request \cup {Idle}]
         /\ req'[r].pc = pc /\ req'[r].builder = b /\ req'[r].ceremony = e
         /\ e \in Ceremony /\ OthersWait(r) /\ ~Active(r) /\ Active(r)'
         /\ UNCHANGED <<now, sweepAt, credentials, issued, accepted>>
<1> DEFINE new == [pc |-> pc, builder |-> b, ceremony |-> e,
                   challenge |-> c, passkey |-> p, count |-> counter[p] + 1]
<1>1. counter[p] + 1 \in Counts /\ counter \in [Passkeys -> Counts]
  BY DEF Enter, TypeOK, Counts
<1>2. e \in Ceremony
  BY DEF Enter
<1>3. new \in Request
  BY <1>1, <1>2 DEF Request, Steps
<1>4. req' = [req EXCEPT ![r] = new]
  BY DEF Enter
<1>5. new.pc = pc /\ new.builder = b /\ new.ceremony = e
  OBVIOUS
<1> HIDE DEF new
<1>6. req \in [Requests -> Request \cup {Idle}]
  BY DEF TypeOK
<1>7. req' \in [Requests -> Request \cup {Idle}] /\ req'[r] = new /\ OthersWait(r)
  BY <1>3, <1>4, <1>6 DEF OthersWait
<1>8. counter' \in [Passkeys -> Counts]
  BY <1>1 DEF Enter
<1>9. QED BY <1>2, <1>5, <1>7, <1>8 DEF Enter, Active, time

(* A step of a request that goes on or ends. *)
LEMMA StepType ==
  ASSUME TypeOK, Verified, NEW r \in Requests, Step(r)
  PROVE  TypeOK'
<1> USE DEF Request, Idle
<1>1. Active(r) /\ req[r] \in Request
  BY RequestType DEF Step, Proceed, Fail, Attest, SaveCredential, DuplicateCredential, Validate,
     UpdateCredentialSignCount, CountLost, CreateSession, Rejected, StatementFails, Active
<1>2. ASSUME NEW pc \in Steps, Goto(r, pc)
      PROVE  req' \in [Requests -> Request \cup {Idle}]
  <2>1. [req[r] EXCEPT !.pc = pc] \in Request
    BY <1>1
  <2>2. req' = [req EXCEPT ![r] = [req[r] EXCEPT !.pc = pc]]
    BY <1>2 DEF Goto
  <2>3. QED BY <2>1, <2>2 DEF TypeOK
<1>3. ASSUME Answer(r) PROVE req' \in [Requests -> Request \cup {Idle}]
  BY <1>3 DEF Answer, TypeOK
<1>4. ASSUME NEW kind \in {"registration", "login"}, Grant(r, kind)
      PROVE  accepted' \in Seq(Grants)
  BY <1>1, <1>4 DEF Grant, Grants, Ceremony, TypeOK
<1>5. CASE Attest(r) \/ CountLost(r)
  BY <1>2, <1>5 DEF Attest, CountLost, Steps, TypeOK, time, maps, history
<1>6. CASE SaveCredential(r)
  <2>1. [owner |-> req[r].builder, count |-> req[r].count] \in CredentialRow
    BY <1>1 DEF CredentialRow
  <2>2. credentials' \in [Passkeys -> CredentialRow \cup {NoRow}]
    BY <1>1, <1>6, <2>1 DEF SaveCredential, TypeOK
  <2>3. QED BY <1>3, <1>4, <1>6, <2>2 DEF SaveCredential, TypeOK, time, maps, history
<1>7. CASE Validate(r)
  <2>1. credentials[req[r].passkey] \in CredentialRow
    BY <1>1, <1>7 DEF Validate, Eligible, CredentialsOf, TypeOK
  <2> DEFINE stored == credentials[req[r].passkey].count
             new == IF req[r].count > stored THEN req[r].count ELSE stored
  <2>2. new \in Counts
    BY <1>1, <2>1 DEF CredentialRow
  <2>3. req' = [req EXCEPT ![r] = [req[r] EXCEPT !.pc = "count", !.count = new]]
    BY <1>7 DEF Validate
  <2> HIDE DEF new
  <2>4. [req[r] EXCEPT !.pc = "count", !.count = new] \in Request
    BY <1>1, <2>2 DEF Steps
  <2>5. QED BY <1>7, <2>3, <2>4 DEF Validate, TypeOK, time, maps, history
<1>8. CASE UpdateCredentialSignCount(r)
  <2> DEFINE p == req[r].passkey
             row == [credentials[p] EXCEPT !.count = req[r].count]
  <2>1. p \in Passkeys /\ credentials[p] \in CredentialRow
    BY <1>1, <1>8 DEF UpdateCredentialSignCount, Verified, TypeOK
  <2>2. row \in CredentialRow
    BY <1>1, <2>1 DEF CredentialRow
  <2>3. credentials' = [credentials EXCEPT ![p] = row]
    BY <1>8 DEF UpdateCredentialSignCount
  <2> HIDE DEF row, p
  <2>4. credentials' \in [Passkeys -> CredentialRow \cup {NoRow}]
    BY <2>1, <2>2, <2>3 DEF TypeOK
  <2>5. QED BY <1>2, <1>8, <2>4 DEF UpdateCredentialSignCount, Steps, TypeOK, time, maps, history
<1>9. CASE CreateSession(r)
  BY <1>3, <1>4, <1>9 DEF CreateSession, TypeOK, time, maps, history
<1>10. CASE Rejected(r) \/ DuplicateCredential(r) \/ StatementFails(r)
  BY <1>3, <1>10 DEF Rejected, DuplicateCredential, StatementFails, TypeOK, time, maps, history
<1>11. QED BY <1>5, <1>6, <1>7, <1>8, <1>9, <1>10 DEF Step, Proceed, Fail

LEMMA TypeStep == TypeOK /\ Verified /\ [Next]_vars => TypeOK'
<1> SUFFICES ASSUME TypeOK, Verified, [Next]_vars PROVE TypeOK'
  OBVIOUS
<1>1. CASE UNCHANGED vars
  BY <1>1 DEF TypeOK, vars, time, maps, history
<1>2. CASE Begin
  BY <1>2, BeginType
<1>3. CASE Tick
  BY <1>3 DEF Tick, TypeOK, maps, history
<1>4. CASE cleanupExpiredSessions
  BY <1>4 DEF cleanupExpiredSessions, Swept, TypeOK, history
<1>5. CASE Restart
  BY <1>5 DEF Restart, TypeOK, history
<1>6. ASSUME NEW r \in Requests, Finish(r) PROVE TypeOK'
  <2> USE DEF Keys
  <2>1. ASSUME NEW b \in Builders, NEW c \in Challenges, NEW p \in Passkeys,
               FinishRegistration(r, b, c, p)
        PROVE  TypeOK'
    <3>1. regSessions[b] \in Ceremony \cup {NoCeremony}
      BY DEF TypeOK
    <3>2. QED BY <2>1, <3>1, EnterType DEF FinishRegistration, Remove, TypeOK
  <2>2. ASSUME NEW b \in Builders, NEW c \in Challenges, NEW p \in Passkeys,
               FinishLogin(r, b, c, p)
        PROVE  TypeOK'
    <3>1. loginSessions[b] \in Ceremony \cup {NoCeremony}
      BY DEF TypeOK
    <3>2. QED BY <2>2, <3>1, EnterType DEF FinishLogin, Remove, TypeOK
  <2>3. ASSUME NEW k \in Challenges, NEW c \in Challenges, NEW p \in Passkeys,
               FinishDiscoverableLogin(r, k, c, p)
        PROVE  TypeOK'
    <3>1. loginSessions[k] \in Ceremony \cup {NoCeremony}
      BY DEF TypeOK
    <3>2. credentials[p].owner \in Builders
      BY <2>3 DEF FinishDiscoverableLogin, TypeOK, CredentialRow
    <3>3. QED BY <2>3, <3>1, <3>2, EnterType DEF FinishDiscoverableLogin, Remove, TypeOK
  <2>4. QED BY <1>6, <2>1, <2>2, <2>3 DEF Finish
<1>7. ASSUME NEW r \in Requests, Step(r) PROVE TypeOK'
  BY <1>7, StepType
<1>8. ASSUME NEW k \in Keys, FinishRefused(k) PROVE TypeOK'
  BY <1>8 DEF FinishRefused, Remove, TypeOK, time, history
<1>9. QED BY <1>1, <1>2, <1>3, <1>4, <1>5, <1>6, <1>7, <1>8 DEF Next

-----------------------------------------------------------------------------
(* What a step of a request leaves alone, and what becomes of the request. *)
LEMMA StepFacts ==
  ASSUME TypeOK, NEW r \in Requests, Step(r)
  PROVE  /\ Active(r) /\ OthersWait(r)
         /\ UNCHANGED <<regSessions, loginSessions, issued>>
         /\ \/ req'[r] = Idle
            \/ /\ Active(r)' /\ req'[r].ceremony = req[r].ceremony
               /\ req'[r].builder = req[r].builder
               /\ KindOf(req'[r].pc) = KindOf(req[r].pc)
         /\ \/ accepted' = accepted
            \/ /\ req'[r] = Idle
               /\ Grant(r, KindOf(req[r].pc))
<1>1. Active(r) /\ req[r] \in Request
  BY RequestType DEF Step, Proceed, Fail, Attest, SaveCredential, DuplicateCredential, Validate,
     UpdateCredentialSignCount, CountLost, CreateSession, Rejected, StatementFails, Active, Idle
<1>2. req \in [Requests -> Request \cup {Idle}]
  BY DEF TypeOK
<1>3. ASSUME Answer(r) PROVE req'[r] = Idle /\ OthersWait(r)
  BY <1>2, <1>3 DEF Answer, OthersWait
<1>4. ASSUME NEW pc \in Steps, Goto(r, pc)
      PROVE  /\ req'[r].ceremony = req[r].ceremony /\ req'[r].builder = req[r].builder
             /\ req'[r].pc = pc /\ Active(r)' /\ OthersWait(r)
  BY <1>1, <1>2, <1>4 DEF Goto, OthersWait, Active, Steps, Request
<1>5. CASE Attest(r) \/ CountLost(r) \/ UpdateCredentialSignCount(r)
  BY <1>1, <1>4, <1>5 DEF Attest, CountLost, UpdateCredentialSignCount, Steps, KindOf,
     maps, history
<1>6. CASE Validate(r)
  <2>1. /\ req'[r].ceremony = req[r].ceremony /\ req'[r].builder = req[r].builder
        /\ req'[r].pc = "count" /\ OthersWait(r)
    BY <1>1, <1>2, <1>6 DEF Validate, OthersWait, Request
  <2>2. QED BY <1>1, <1>6, <2>1 DEF Validate, KindOf, Active, maps, history
<1>7. CASE SaveCredential(r)
  BY <1>1, <1>3, <1>7 DEF SaveCredential, KindOf, maps, history
<1>8. CASE CreateSession(r)
  BY <1>1, <1>3, <1>8 DEF CreateSession, KindOf, maps, history
<1>9. CASE Rejected(r) \/ DuplicateCredential(r) \/ StatementFails(r)
  BY <1>1, <1>3, <1>9 DEF Rejected, DuplicateCredential, StatementFails, maps, history
<1>10. QED BY <1>5, <1>6, <1>7, <1>8, <1>9 DEF Step, Proceed, Fail

(* What a finish request takes, and where it takes it from. *)
TakenFrom(map, k, e) == /\ e = map[k] /\ e # NoCeremony
                        /\ map' = Remove(map, k)

LEMMA FinishFacts ==
  ASSUME TypeOK, NEW r \in Requests, Finish(r)
  PROVE  /\ ~Active(r) /\ Active(r)' /\ OthersWait(r)
         /\ UNCHANGED <<now, sweepAt, credentials, issued, accepted>>
         /\ req'[r].pc \in {"attest", "assert"}
         /\ \/ \E b \in Builders :
                 /\ TakenFrom(regSessions, b, req'[r].ceremony)
                 /\ loginSessions' = loginSessions
                 /\ req'[r].pc = "attest" /\ req'[r].builder = b
            \/ \E b \in Builders :
                 /\ TakenFrom(loginSessions, b, req'[r].ceremony)
                 /\ regSessions' = regSessions
                 /\ req'[r].pc = "assert" /\ req'[r].builder = b
            \/ \E k \in Challenges :
                 /\ TakenFrom(loginSessions, k, req'[r].ceremony)
                 /\ regSessions' = regSessions
                 /\ req'[r].pc = "assert"
<1> USE DEF Keys
<1>1. ASSUME NEW b \in Builders, NEW c \in Challenges, NEW p \in Passkeys,
             FinishRegistration(r, b, c, p)
      PROVE  /\ ~Active(r) /\ Active(r)' /\ OthersWait(r)
             /\ UNCHANGED <<now, sweepAt, credentials, issued, accepted>>
             /\ TakenFrom(regSessions, b, req'[r].ceremony)
             /\ loginSessions' = loginSessions
             /\ req'[r].pc = "attest" /\ req'[r].builder = b
  <2>1. regSessions[b] \in Ceremony \cup {NoCeremony}
    BY DEF TypeOK
  <2>2. QED BY <1>1, <2>1, EnterType DEF FinishRegistration, TakenFrom
<1>2. ASSUME NEW b \in Builders, NEW c \in Challenges, NEW p \in Passkeys,
             FinishLogin(r, b, c, p)
      PROVE  /\ ~Active(r) /\ Active(r)' /\ OthersWait(r)
             /\ UNCHANGED <<now, sweepAt, credentials, issued, accepted>>
             /\ TakenFrom(loginSessions, b, req'[r].ceremony)
             /\ regSessions' = regSessions
             /\ req'[r].pc = "assert" /\ req'[r].builder = b
  <2>1. loginSessions[b] \in Ceremony \cup {NoCeremony}
    BY DEF TypeOK
  <2>2. QED BY <1>2, <2>1, EnterType DEF FinishLogin, TakenFrom
<1>3. ASSUME NEW k \in Challenges, NEW c \in Challenges, NEW p \in Passkeys,
             FinishDiscoverableLogin(r, k, c, p)
      PROVE  /\ ~Active(r) /\ Active(r)' /\ OthersWait(r)
             /\ UNCHANGED <<now, sweepAt, credentials, issued, accepted>>
             /\ TakenFrom(loginSessions, k, req'[r].ceremony)
             /\ regSessions' = regSessions
             /\ req'[r].pc = "assert"
  <2>1. loginSessions[k] \in Ceremony \cup {NoCeremony}
    BY DEF TypeOK
  <2>2. credentials[p].owner \in Builders
    BY <1>3 DEF FinishDiscoverableLogin, TypeOK, CredentialRow
  <2>3. QED BY <1>3, <2>1, <2>2, EnterType DEF FinishDiscoverableLogin, TakenFrom
<1>4. QED BY <1>1, <1>2, <1>3 DEF Finish

RefusedFinish == \E k \in Keys : FinishRefused(k)

(* The tables and the history only grow. *)
LEMMA StepGrows == TypeOK /\ Verified /\ [Next]_vars => Grows
<1> SUFFICES ASSUME TypeOK, Verified, [Next]_vars PROVE Grows
  OBVIOUS
<1>1. ASSUME UNCHANGED <<issued, credentials>> PROVE Grows
  BY <1>1 DEF Grows
<1>2. CASE UNCHANGED vars \/ Tick \/ cleanupExpiredSessions \/ Restart \/ RefusedFinish
  BY <1>1, <1>2 DEF vars, Tick, cleanupExpiredSessions, Restart, RefusedFinish, FinishRefused,
     history
<1>3. CASE Begin
  <2>1. PICK kind \in {"registration", "login"}, b \in Builders \cup {NoBuilder} :
          Issue(kind, b)
    BY <1>3 DEF Begin, BeginRegistration, BeginLogin, BeginDiscoverableLogin
  <2>2. QED BY <2>1, IssueType DEF Issue, Grows
<1>4. ASSUME NEW r \in Requests, Finish(r) PROVE Grows
  BY <1>1, <1>4, FinishFacts
<1>5. ASSUME NEW r \in Requests, Step(r) PROVE Grows
  <2>1. Active(r) /\ req[r] \in Request /\ issued' = issued
    BY <1>5, StepFacts, RequestType
  <2>2. CASE SaveCredential(r)
    BY <2>1, <2>2 DEF SaveCredential, Grows, TypeOK
  <2>3. CASE UpdateCredentialSignCount(r)
    <3> DEFINE p == req[r].passkey
    <3>1. p \in Passkeys /\ credentials[p] \in CredentialRow
      BY <2>1, <2>3 DEF UpdateCredentialSignCount, Verified, TypeOK, Request
    <3>2. /\ \A q \in Passkeys : q # p => credentials'[q] = credentials[q]
          /\ credentials'[p] \in CredentialRow
          /\ credentials'[p].owner = credentials[p].owner
      BY <2>1, <2>3, <3>1 DEF UpdateCredentialSignCount, TypeOK, CredentialRow, Request
    <3> HIDE DEF p
    <3>3. QED BY <2>1, <3>1, <3>2 DEF Grows
  <2>4. CASE UNCHANGED credentials
    BY <1>1, <2>1, <2>4
  <2>5. QED BY <1>5, <2>2, <2>3, <2>4 DEF Step, Proceed, Fail, Attest, DuplicateCredential, Validate,
               CountLost, CreateSession, Rejected, StatementFails
<1>6. QED BY <1>2, <1>3, <1>4, <1>5 DEF Next, RefusedFinish

LEMMA VerifiedStep == TypeOK /\ Verified /\ [Next]_vars => Verified'
<1> SUFFICES ASSUME TypeOK, Verified, [Next]_vars,
                    NEW s \in Requests, req'[s].pc \in {"count", "session"}
             PROVE  /\ credentials'[req'[s].passkey] # NoRow
                    /\ credentials'[req'[s].passkey].owner = req'[s].builder
  BY DEF Verified
<1>1. Grows
  BY StepGrows
<1>2. ASSUME req'[s] = req[s]
      PROVE  /\ credentials'[req'[s].passkey] # NoRow
             /\ credentials'[req'[s].passkey].owner = req'[s].builder
  <2>1. req[s] \in Request
    BY <1>2, RequestType DEF Active
  <2>2. QED BY <1>1, <1>2, <2>1 DEF Grows, Verified, Request
<1>3. CASE UNCHANGED vars \/ Tick \/ cleanupExpiredSessions \/ Begin \/ RefusedFinish
  BY <1>2, <1>3 DEF vars, Tick, cleanupExpiredSessions, Begin, BeginRegistration,
     BeginLogin, BeginDiscoverableLogin, Issue, RefusedFinish, FinishRefused
<1>4. CASE Restart
  BY <1>4 DEF Restart, Idle
<1>5. ASSUME NEW r \in Requests, Finish(r), r = s PROVE FALSE
  BY <1>5, FinishFacts
<1>6. ASSUME NEW r \in Requests, Step(r), r = s
      PROVE  /\ credentials'[req'[s].passkey] # NoRow
             /\ credentials'[req'[s].passkey].owner = req'[s].builder
  <2>1. req[s] \in Request /\ req \in [Requests -> Request \cup {Idle}]
    BY <1>6, StepFacts, RequestType DEF TypeOK
  <2>2. CASE Validate(s)
    <3>1. /\ req'[s].passkey = req[s].passkey /\ req'[s].builder = req[s].builder
          /\ credentials' = credentials
      BY <2>1, <2>2 DEF Validate, Request
    <3>2. req[s].passkey \in CredentialsOf(req[s].builder)
      BY <2>2 DEF Validate, Eligible
    <3>3. QED BY <3>1, <3>2 DEF CredentialsOf
  <2>3. CASE CountLost(s) \/ UpdateCredentialSignCount(s)
    <3>1. /\ req'[s].passkey = req[s].passkey /\ req'[s].builder = req[s].builder
          /\ req[s].pc = "count"
      BY <2>1, <2>3 DEF CountLost, UpdateCredentialSignCount, Goto, Request
    <3>2. QED BY <1>1, <2>1, <3>1 DEF Grows, Verified, Request
  <2>4. CASE Attest(s)
    BY <2>1, <2>4 DEF Attest, Goto, Request
  <2>5. ASSUME req'[s] = Idle PROVE FALSE
    BY <2>5 DEF Idle
  <2>6. QED BY <1>6, <2>1, <2>2, <2>3, <2>4, <2>5 DEF Step, Proceed, Fail, Answer, SaveCredential,
               DuplicateCredential, CreateSession, Rejected, StatementFails
<1>7. ASSUME NEW r \in Requests, Finish(r) \/ Step(r), r # s PROVE req'[s] = req[s]
  BY <1>7, FinishFacts, StepFacts DEF OthersWait
<1>8. QED BY <1>2, <1>3, <1>4, <1>5, <1>6, <1>7 DEF Next, RefusedFinish

-----------------------------------------------------------------------------
LEMMA StaysIssued ==
  ASSUME Grows, NEW e, NEW kind, NEW b, IssuedIn(issued, e, kind, b)
  PROVE  IssuedIn(issued', e, kind, b)
BY DEF Grows, IssuedIn

(* What is in the hands of a request after the step was issued before it. *)
LinkedRequests ==
  \A r \in Requests : Active(r)' =>
    \E b \in {req'[r].builder, NoBuilder} :
      IssuedIn(issued, req'[r].ceremony, KindOf(req'[r].pc), b)

(* Entries that stay, or go, stay linked. *)
LEMMA MapsStayLinked ==
  ASSUME Linked, Grows, LinkedRequests,
         \A b \in Builders : regSessions'[b] \in {regSessions[b], NoCeremony},
         \A k \in Keys : loginSessions'[k] \in {loginSessions[k], NoCeremony}
  PROVE  Linked'
BY StaysIssued DEF Linked, LinkedRequests, Keys

LEMMA RequestStaysLinked ==
  ASSUME Linked, NEW r \in Requests, Active(r), req'[r] = req[r]
  PROVE  \E b \in {req'[r].builder, NoBuilder} :
           IssuedIn(issued, req'[r].ceremony, KindOf(req'[r].pc), b)
BY DEF Linked

(* What Begin puts into a map. *)
LEMMA NewIsLinked ==
  ASSUME TypeOK, NEW kind \in {"registration", "login"},
         NEW b \in Builders \cup {NoBuilder},
         NEW allowed \in SUBSET Passkeys, Issue(kind, b)
  PROVE  /\ IssuedIn(issued', NewCeremony(b, allowed), kind, b)
         /\ NewCeremony(b, allowed).challenge = Len(issued) + 1
         /\ Len(issued) + 1 \in Challenges
         /\ NewCeremony(b, allowed) # NoCeremony
<1>1. /\ Len(issued) + 1 \in DOMAIN issued'
      /\ issued'[Len(issued) + 1] = [kind |-> kind, for |-> b]
      /\ NewCeremony(b, allowed) \in Ceremony
  BY IssueType
<1>2. /\ NewCeremony(b, allowed).challenge = Len(issued) + 1
      /\ NewCeremony(b, allowed).builder = b
  BY DEF NewCeremony
<1>3. QED BY <1>1, <1>2 DEF IssuedIn, Ceremony

LEMMA BeginLinked ==
  ASSUME TypeOK, Linked, Grows, LinkedRequests, Begin
  PROVE  Linked'
<1> DEFINE n == Len(issued) + 1
<1>1. ASSUME NEW b \in Builders, BeginRegistration(b) PROVE Linked'
  <2>1. IssuedIn(issued', NewCeremony(b, {}), "registration", b)
    BY <1>1, NewIsLinked DEF BeginRegistration
  <2>2. /\ regSessions'[b] = NewCeremony(b, {})
        /\ \A c \in Builders : c # b => regSessions'[c] = regSessions[c]
        /\ loginSessions' = loginSessions
    BY <1>1 DEF BeginRegistration, TypeOK
  <2>3. QED BY <2>1, <2>2, StaysIssued DEF Linked, LinkedRequests
<1>2. ASSUME NEW b \in Builders, BeginLogin(b) PROVE Linked'
  <2>1. CredentialsOf(b) \in SUBSET Passkeys
    BY DEF CredentialsOf
  <2>2. IssuedIn(issued', NewCeremony(b, CredentialsOf(b)), "login", b)
    BY <1>2, <2>1, NewIsLinked DEF BeginLogin
  <2>3. /\ loginSessions'[b] = NewCeremony(b, CredentialsOf(b))
        /\ \A k \in Keys : k # b => loginSessions'[k] = loginSessions[k]
        /\ regSessions' = regSessions
    BY <1>2 DEF BeginLogin, TypeOK, Keys
  <2>4. QED BY <2>2, <2>3, StaysIssued DEF Linked, LinkedRequests, Keys
<1>3. CASE BeginDiscoverableLogin
  <2>1. /\ IssuedIn(issued', NewCeremony(NoBuilder, {}), "login", NoBuilder)
        /\ NewCeremony(NoBuilder, {}).challenge = n /\ n \in Challenges
    BY <1>3, NewIsLinked DEF BeginDiscoverableLogin
  <2>2. /\ loginSessions'[n] = NewCeremony(NoBuilder, {})
        /\ \A k \in Keys : k # n => loginSessions'[k] = loginSessions[k]
        /\ regSessions' = regSessions
    BY <1>3, <2>1 DEF BeginDiscoverableLogin, TypeOK, Keys
  <2> HIDE DEF n
  <2>3. QED BY <2>1, <2>2, StaysIssued DEF Linked, LinkedRequests, Keys
<1>4. QED BY <1>1, <1>2, <1>3 DEF Begin

LEMMA LinkedStep == TypeOK /\ Verified /\ Linked /\ [Next]_vars => Linked'
<1> SUFFICES ASSUME TypeOK, Verified, Linked, [Next]_vars PROVE Linked'
  OBVIOUS
<1>1. Grows
  BY StepGrows
<1>2. ASSUME req' = req PROVE LinkedRequests
  BY <1>2, RequestStaysLinked DEF LinkedRequests, Active
<1>3. CASE UNCHANGED vars \/ Tick
  <2>1. LinkedRequests /\ UNCHANGED <<regSessions, loginSessions>>
    BY <1>2, <1>3 DEF vars, Tick, maps
  <2>2. QED BY <1>1, <2>1, MapsStayLinked
<1>4. CASE cleanupExpiredSessions
  <2>1. /\ \A b \in Builders : regSessions'[b] \in {regSessions[b], NoCeremony}
        /\ \A k \in Keys : loginSessions'[k] \in {loginSessions[k], NoCeremony}
    BY <1>4 DEF cleanupExpiredSessions, Swept, TypeOK
  <2>2. LinkedRequests
    BY <1>2, <1>4 DEF cleanupExpiredSessions
  <2>3. QED BY <1>1, <2>1, <2>2, MapsStayLinked
<1>5. CASE Restart
  <2>1. LinkedRequests
    BY <1>5 DEF Restart, LinkedRequests, Active, Idle
  <2>2. QED BY <1>1, <1>5, <2>1, MapsStayLinked DEF Restart
<1>6. CASE Begin
  <2>1. LinkedRequests
    BY <1>2, <1>6 DEF Begin, BeginRegistration, BeginLogin, BeginDiscoverableLogin, Issue
  <2>2. QED BY <1>1, <1>6, <2>1, BeginLinked
<1>7. ASSUME NEW r \in Requests, Finish(r) PROVE Linked'
  <2>1. /\ \A b \in Builders : regSessions'[b] \in {regSessions[b], NoCeremony}
        /\ \A k \in Keys : loginSessions'[k] \in {loginSessions[k], NoCeremony}
    BY <1>7, FinishFacts DEF TakenFrom, Remove, TypeOK
  <2>2. \E b \in {req'[r].builder, NoBuilder} :
          IssuedIn(issued, req'[r].ceremony, KindOf(req'[r].pc), b)
    BY <1>7, FinishFacts DEF TakenFrom, Linked, KindOf
  <2>3. LinkedRequests
    BY <1>7, <2>2, FinishFacts, RequestStaysLinked DEF LinkedRequests, OthersWait, Active
  <2>4. QED BY <1>1, <2>1, <2>3, MapsStayLinked
<1>8. ASSUME NEW r \in Requests, Step(r) PROVE Linked'
  <2>1. UNCHANGED <<regSessions, loginSessions>> /\ OthersWait(r) /\ Active(r)
    BY <1>8, StepFacts
  <2>2. Active(r)' => \E b \in {req'[r].builder, NoBuilder} :
          IssuedIn(issued, req'[r].ceremony, KindOf(req'[r].pc), b)
    BY <1>8, StepFacts DEF Linked, Active, Idle
  <2>3. LinkedRequests
    BY <2>1, <2>2, RequestStaysLinked DEF LinkedRequests, OthersWait, Active
  <2>4. QED BY <1>1, <2>1, <2>3, MapsStayLinked
<1>9. ASSUME NEW k \in Keys, FinishRefused(k) PROVE Linked'
  <2>1. /\ \A b \in Builders : regSessions'[b] \in {regSessions[b], NoCeremony}
        /\ \A l \in Keys : loginSessions'[l] \in {loginSessions[l], NoCeremony}
    BY <1>9 DEF FinishRefused, Remove, TypeOK
  <2>2. LinkedRequests
    BY <1>2, <1>9 DEF FinishRefused
  <2>3. QED BY <1>1, <2>1, <2>2, MapsStayLinked
<1>10. QED BY <1>3, <1>4, <1>5, <1>6, <1>7, <1>8, <1>9 DEF Next

-----------------------------------------------------------------------------
(* Every challenge in use has been issued. *)
LEMMA InUseIssued ==
  ASSUME TypeOK, Linked
  PROVE  \A c \in InMaps \cup InHand : c \in 1..Len(issued)
<1>1. DOMAIN issued = 1..Len(issued)
  BY DEF TypeOK
<1>2. ASSUME NEW c \in InMaps PROVE c \in DOMAIN issued
  <2>1. ASSUME NEW e, NEW t, NEW b, IssuedIn(issued, e, t, b)
        PROVE  e.challenge \in DOMAIN issued
    BY <2>1 DEF IssuedIn
  <2>2. /\ \A b \in Builders : regSessions[b] # NoCeremony =>
             regSessions[b].challenge \in DOMAIN issued
        /\ \A k \in Keys : loginSessions[k] # NoCeremony =>
             loginSessions[k].challenge \in DOMAIN issued
    BY <2>1 DEF Linked, Keys
  <2>3. QED BY <2>2 DEF InMaps
<1>3. \A c \in InHand : c \in DOMAIN issued
  BY DEF InHand, Linked, IssuedIn
<1>4. QED BY <1>1, <1>2, <1>3

(* Two places of the maps hold two challenges. *)
LEMMA OnePlace ==
  ASSUME TypeOK, Linked
  PROVE  /\ \A b, c \in Builders :
              /\ regSessions[b] # NoCeremony /\ regSessions[c] # NoCeremony
              /\ regSessions[b].challenge = regSessions[c].challenge
              => b = c
         /\ \A k, l \in Keys :
              /\ loginSessions[k] # NoCeremony /\ loginSessions[l] # NoCeremony
              /\ loginSessions[k].challenge = loginSessions[l].challenge
              => k = l
         /\ \A b \in Builders, k \in Keys :
              /\ regSessions[b] # NoCeremony /\ loginSessions[k] # NoCeremony
              => regSessions[b].challenge # loginSessions[k].challenge
<1> DEFINE kind(c) == issued[c].kind
           for(c) == issued[c].for
<1>1. ASSUME NEW e, NEW t, NEW b, IssuedIn(issued, e, t, b)
      PROVE  kind(e.challenge) = t /\ for(e.challenge) = b
  BY <1>1 DEF IssuedIn
<1> HIDE DEF kind, for
<1>2. /\ \A b \in Builders : regSessions[b] # NoCeremony =>
           kind(regSessions[b].challenge) = "registration" /\ for(regSessions[b].challenge) = b
      /\ \A b \in Builders : loginSessions[b] # NoCeremony =>
           kind(loginSessions[b].challenge) = "login" /\ for(loginSessions[b].challenge) = b
      /\ \A c \in Challenges : loginSessions[c] # NoCeremony =>
           /\ kind(loginSessions[c].challenge) = "login"
           /\ for(loginSessions[c].challenge) = NoBuilder
           /\ loginSessions[c].challenge = c
  BY <1>1 DEF Linked
<1>3. QED BY <1>2 DEF Keys

(* A finish request takes its challenge, and only that, out of the maps. *)
LEMMA TakenLeaves ==
  ASSUME TypeOK, Linked, NEW r \in Requests, Finish(r)
  PROVE  /\ req'[r].ceremony.challenge \in InMaps
         /\ InMaps' = InMaps \ {req'[r].ceremony.challenge}
<1> DEFINE e == req'[r].ceremony
<1>1. ASSUME NEW b \in Builders, TakenFrom(regSessions, b, e),
             loginSessions' = loginSessions
      PROVE  e.challenge \in InMaps /\ InMaps' = InMaps \ {e.challenge}
  <2>1. /\ e = regSessions[b] /\ e # NoCeremony /\ regSessions'[b] = NoCeremony
        /\ \A c \in Builders : c # b => regSessions'[c] = regSessions[c]
    BY <1>1 DEF TakenFrom, Remove, TypeOK
  <2> HIDE DEF e
  <2>2. e.challenge \in InMaps
    BY <2>1 DEF InMaps
  <2>3. ASSUME NEW x \in InMaps' PROVE x \in InMaps \ {e.challenge}
    BY <1>1, <2>1, <2>3, OnePlace DEF InMaps
  <2>4. ASSUME NEW x \in InMaps, x # e.challenge PROVE x \in InMaps'
    BY <1>1, <2>1, <2>4 DEF InMaps
  <2>5. QED BY <2>2, <2>3, <2>4
<1>2. ASSUME NEW k \in Keys, TakenFrom(loginSessions, k, e),
             regSessions' = regSessions
      PROVE  e.challenge \in InMaps /\ InMaps' = InMaps \ {e.challenge}
  <2>1. /\ e = loginSessions[k] /\ e # NoCeremony /\ loginSessions'[k] = NoCeremony
        /\ \A l \in Keys : l # k => loginSessions'[l] = loginSessions[l]
    BY <1>2 DEF TakenFrom, Remove, TypeOK
  <2> HIDE DEF e
  <2>2. e.challenge \in InMaps
    BY <2>1 DEF InMaps
  <2>3. ASSUME NEW x \in InMaps' PROVE x \in InMaps \ {e.challenge}
    BY <1>2, <2>1, <2>3, OnePlace DEF InMaps
  <2>4. ASSUME NEW x \in InMaps, x # e.challenge PROVE x \in InMaps'
    BY <1>2, <2>1, <2>4 DEF InMaps
  <2>5. QED BY <2>2, <2>3, <2>4
<1>3. QED BY <1>1, <1>2, FinishFacts DEF Keys

(* A new ceremony adds its challenge, and may take the place of another. *)
LEMMA BegunEnters ==
  ASSUME TypeOK, Begin
  PROVE  /\ Len(issued) + 1 \in InMaps'
         /\ InMaps' \subseteq InMaps \cup {Len(issued) + 1}
         /\ Len(issued') = Len(issued) + 1 /\ Len(issued) < MaxChallenges
         /\ UNCHANGED <<accepted, req>>
<1> DEFINE n == Len(issued) + 1
<1>1. ASSUME NEW b \in Builders, BeginRegistration(b)
      PROVE  n \in InMaps' /\ InMaps' \subseteq InMaps \cup {n}
  <2>1. /\ regSessions'[b].challenge = n /\ regSessions'[b] # NoCeremony
        /\ \A c \in Builders : c # b => regSessions'[c] = regSessions[c]
        /\ loginSessions' = loginSessions
    BY <1>1, NewIsLinked DEF BeginRegistration, TypeOK
  <2> HIDE DEF n
  <2>2. QED BY <2>1 DEF InMaps
<1>2. ASSUME NEW b \in Builders, BeginLogin(b)
      PROVE  n \in InMaps' /\ InMaps' \subseteq InMaps \cup {n}
  <2>1. CredentialsOf(b) \in SUBSET Passkeys
    BY DEF CredentialsOf
  <2>2. /\ loginSessions'[b].challenge = n /\ loginSessions'[b] # NoCeremony
        /\ \A k \in Keys : k # b => loginSessions'[k] = loginSessions[k]
        /\ regSessions' = regSessions
    BY <1>2, <2>1, NewIsLinked DEF BeginLogin, TypeOK, Keys
  <2> HIDE DEF n
  <2>3. QED BY <2>2 DEF InMaps, Keys
<1>3. ASSUME BeginDiscoverableLogin
      PROVE  n \in InMaps' /\ InMaps' \subseteq InMaps \cup {n}
  <2>1. /\ loginSessions'[n].challenge = n /\ loginSessions'[n] # NoCeremony
        /\ n \in Keys
        /\ \A k \in Keys : k # n => loginSessions'[k] = loginSessions[k]
        /\ regSessions' = regSessions
    BY <1>3, NewIsLinked DEF BeginDiscoverableLogin, TypeOK, Keys
  <2> HIDE DEF n
  <2>2. QED BY <2>1 DEF InMaps
<1>4. Len(issued') = Len(issued) + 1 /\ Len(issued) < MaxChallenges
      /\ UNCHANGED <<accepted, req>>
  BY IssueType DEF Begin, BeginRegistration, BeginLogin, BeginDiscoverableLogin, Issue, TypeOK
<1>5. QED BY <1>1, <1>2, <1>3, <1>4 DEF Begin

(* What a step of a request grants is appended to `accepted`. *)
LEMMA GrantAppends ==
  ASSUME TypeOK, NEW r \in Requests, NEW kind, Active(r), Grant(r, kind)
  PROVE  /\ DOMAIN accepted' = DOMAIN accepted \cup {Len(accepted) + 1}
         /\ Len(accepted) + 1 \notin DOMAIN accepted
         /\ \A i \in DOMAIN accepted : accepted'[i] = accepted[i]
         /\ accepted'[Len(accepted) + 1] =
              [kind |-> kind, builder |-> req[r].builder, passkey |-> req[r].passkey,
               challenge |-> req[r].ceremony.challenge, count |-> req[r].count]
<1> DEFINE g == [kind |-> kind, builder |-> req[r].builder, passkey |-> req[r].passkey,
                 challenge |-> req[r].ceremony.challenge, count |-> req[r].count]
<1>1. accepted \in Seq(Grants) /\ accepted' = Append(accepted, g)
  BY DEF TypeOK, Grant
<1> HIDE DEF g
<1>2. /\ Len(accepted) \in Nat /\ DOMAIN accepted = 1..Len(accepted)
      /\ DOMAIN accepted' = 1..(Len(accepted) + 1)
      /\ \A i \in 1..Len(accepted) : accepted'[i] = accepted[i]
      /\ accepted'[Len(accepted) + 1] = g
  BY <1>1
<1>3. 1..(Len(accepted) + 1) = (1..Len(accepted)) \cup {Len(accepted) + 1}
  BY <1>2
<1>4. QED BY <1>2, <1>3 DEF g

(* Challenges stay apart when places only become empty, but for one that   *)
(* is in use nowhere.                                                      *)
LEMMA StaysApart ==
  ASSUME Apart, accepted' = accepted, NEW n,
         InMaps' \subseteq InMaps \cup {n}, n \notin InHand,
         \A i \in DOMAIN accepted : accepted[i].challenge # n,
         \A r \in Requests : Active(r)' =>
           Active(r) /\ req'[r].ceremony = req[r].ceremony
  PROVE  Apart'
BY DEF Apart, InHand, ChallengeUsedOnce

LEMMA MapsShrink ==
  ASSUME \A b \in Builders : regSessions'[b] \in {regSessions[b], NoCeremony},
         \A k \in Keys : loginSessions'[k] \in {loginSessions[k], NoCeremony}
  PROVE  InMaps' \subseteq InMaps
BY DEF InMaps

(* The steps that leave the requests alone, or end them. *)
LEMMA QuietStep ==
  ASSUME TypeOK, Tick \/ cleanupExpiredSessions \/ Restart \/ RefusedFinish \/ UNCHANGED vars
  PROVE  /\ InMaps' \subseteq InMaps
         /\ UNCHANGED <<issued, credentials, accepted>>
         /\ \A r \in Requests : req'[r] \in {req[r], Idle}
<1>1. CASE Tick \/ UNCHANGED vars
  BY <1>1, MapsShrink DEF Tick, vars, maps, history
<1>2. CASE cleanupExpiredSessions
  BY <1>2, MapsShrink DEF cleanupExpiredSessions, Swept, TypeOK, history
<1>3. CASE Restart
  BY <1>3, MapsShrink DEF Restart, history
<1>4. ASSUME NEW k \in Keys, FinishRefused(k)
      PROVE  /\ \A b \in Builders : regSessions'[b] \in {regSessions[b], NoCeremony}
             /\ \A l \in Keys : loginSessions'[l] \in {loginSessions[l], NoCeremony}
             /\ UNCHANGED <<issued, credentials, accepted, req>>
  BY <1>4 DEF FinishRefused, Remove, TypeOK, history
<1>5. QED BY <1>1, <1>2, <1>3, <1>4, MapsShrink DEF RefusedFinish

LEMMA ApartStep == TypeOK /\ Linked /\ Apart /\ GrantedAsIssued /\ [Next]_vars => Apart'
<1> SUFFICES ASSUME TypeOK, Linked, Apart, GrantedAsIssued, [Next]_vars PROVE Apart'
  OBVIOUS
<1> DEFINE n == Len(issued) + 1
<1>1. /\ n \notin InHand /\ n \notin InMaps
      /\ \A i \in DOMAIN accepted : accepted[i].challenge # n
  <2>1. Len(issued) \in Nat /\ DOMAIN issued = 1..Len(issued)
    BY DEF TypeOK
  <2>2. QED BY <2>1, InUseIssued DEF GrantedAsIssued
<1> HIDE DEF n
<1>2. CASE Tick \/ cleanupExpiredSessions \/ Restart \/ RefusedFinish \/ UNCHANGED vars
  BY <1>1, <1>2, QuietStep, StaysApart DEF Active, Idle
<1>3. CASE Begin
  BY <1>1, <1>3, BegunEnters, StaysApart DEF Active, n
<1>4. ASSUME NEW r \in Requests, Finish(r) PROVE Apart'
  <2> DEFINE c == req'[r].ceremony.challenge
  <2>1. /\ ~Active(r) /\ Active(r)' /\ OthersWait(r) /\ accepted' = accepted
        /\ c \in InMaps /\ InMaps' = InMaps \ {c}
    BY <1>4, FinishFacts, TakenLeaves
  <2> HIDE DEF c
  <2>2. \A s \in Requests : Active(s)' /\ s # r =>
          Active(s) /\ req'[s].ceremony = req[s].ceremony
    BY <2>1 DEF OthersWait, Active
  <2>3. \A i \in DOMAIN accepted' : accepted'[i].challenge \notin InMaps' \cup InHand'
    BY <2>1, <2>2 DEF Apart, InHand, c
  <2>4. QED BY <2>1, <2>2, <2>3 DEF Apart, ChallengeUsedOnce, c
<1>5. ASSUME NEW r \in Requests, Step(r) PROVE Apart'
  <2>1. /\ Active(r) /\ OthersWait(r) /\ InMaps' = InMaps
        /\ req'[r] = Idle \/ req'[r].ceremony = req[r].ceremony
    BY <1>5, StepFacts DEF InMaps
  <2>2. \A s \in Requests : Active(s)' => Active(s) /\ req'[s].ceremony = req[s].ceremony
    BY <2>1 DEF OthersWait, Active, Idle
  <2>3. CASE accepted' = accepted
    BY <1>1, <2>1, <2>2, <2>3, StaysApart
  <2>4. CASE req'[r] = Idle /\ Grant(r, KindOf(req[r].pc))
    <3> DEFINE c == req[r].ceremony.challenge
               last == Len(accepted) + 1
               g == [kind |-> KindOf(req[r].pc), builder |-> req[r].builder,
                     passkey |-> req[r].passkey, challenge |-> c, count |-> req[r].count]
    <3>0. g.challenge = c
      OBVIOUS
    <3> HIDE DEF g
    <3>1. /\ DOMAIN accepted' = DOMAIN accepted \cup {last} /\ last \notin DOMAIN accepted
          /\ \A i \in DOMAIN accepted : accepted'[i] = accepted[i]
          /\ accepted'[last].challenge = c
      <4>1. /\ DOMAIN accepted' = DOMAIN accepted \cup {last} /\ last \notin DOMAIN accepted
            /\ \A i \in DOMAIN accepted : accepted'[i] = accepted[i]
            /\ accepted'[last] = g
        BY <2>1, <2>4, GrantAppends DEF g
      <4>2. QED BY <3>0, <4>1
    <3>2. c \in InHand /\ c \notin InMaps
      BY <2>1 DEF Apart, InHand
    <3>3. InHand' \subseteq InHand /\ c \notin InHand'
      BY <2>1, <2>2, <2>4 DEF InHand, Apart, Active, Idle, OthersWait
    <3> HIDE DEF c, last
    <3>4. \A i \in DOMAIN accepted' : accepted'[i].challenge \notin InMaps' \cup InHand'
      BY <2>1, <3>1, <3>2, <3>3 DEF Apart
    <3>5. ChallengeUsedOnce'
      BY <3>1, <3>2 DEF Apart, ChallengeUsedOnce
    <3>6. QED BY <2>1, <2>2, <3>4, <3>5 DEF Apart
  <2>5. QED BY <1>5, <2>3, <2>4, StepFacts
<1>6. QED BY <1>2, <1>3, <1>4, <1>5 DEF Next, RefusedFinish

-----------------------------------------------------------------------------
LEMMA GrantedStep ==
  TypeOK /\ Linked /\ Verified /\ GrantedAsIssued /\ [Next]_vars => GrantedAsIssued'
<1> SUFFICES ASSUME TypeOK, Linked, Verified, GrantedAsIssued, [Next]_vars
             PROVE  GrantedAsIssued'
  OBVIOUS
<1> DEFINE AsIssued(g) ==
             /\ g.challenge \in DOMAIN issued'
             /\ issued'[g.challenge].kind = g.kind
             /\ issued'[g.challenge].for \in {g.builder, NoBuilder}
             /\ credentials'[g.passkey] # NoRow
             /\ credentials'[g.passkey].owner = g.builder
<1>1. \A i \in DOMAIN accepted : AsIssued(accepted[i])
  <2>1. Grows
    BY StepGrows
  <2>2. \A i \in DOMAIN accepted : accepted[i].passkey \in Passkeys
    <3>1. \A i \in DOMAIN accepted : accepted[i] \in Grants
      BY DEF TypeOK
    <3>2. QED BY <3>1 DEF Grants
  <2>3. QED BY <2>1, <2>2 DEF Grows, GrantedAsIssued
<1> HIDE DEF AsIssued
<1>2. CASE accepted' = accepted
  BY <1>1, <1>2 DEF GrantedAsIssued, AsIssued
<1>3. ASSUME NEW r \in Requests, SaveCredential(r) \/ CreateSession(r) PROVE GrantedAsIssued'
  <2> DEFINE kind == KindOf(req[r].pc)
             g == [kind |-> kind, builder |-> req[r].builder, passkey |-> req[r].passkey,
                   challenge |-> req[r].ceremony.challenge, count |-> req[r].count]
  <2>1. Active(r) /\ req[r] \in Request /\ Grant(r, kind) /\ issued' = issued
    BY <1>3, RequestType DEF SaveCredential, CreateSession, Active, KindOf, history
  <2>2. /\ DOMAIN accepted' = DOMAIN accepted \cup {Len(accepted) + 1}
        /\ \A i \in DOMAIN accepted : accepted'[i] = accepted[i]
        /\ accepted'[Len(accepted) + 1] = g
    BY <2>1, GrantAppends
  <2>3. /\ g.challenge \in DOMAIN issued' /\ issued'[g.challenge].kind = g.kind
        /\ issued'[g.challenge].for \in {g.builder, NoBuilder}
    <3>1. PICK b \in {req[r].builder, NoBuilder} : IssuedIn(issued, req[r].ceremony, kind, b)
      BY <2>1 DEF Linked
    <3>2. QED BY <2>1, <3>1 DEF IssuedIn
  <2>4. credentials'[g.passkey] # NoRow /\ credentials'[g.passkey].owner = g.builder
    <3>1. CASE SaveCredential(r)
      <4>1. credentials'[req[r].passkey] = [owner |-> req[r].builder, count |-> req[r].count]
        BY <2>1, <3>1 DEF SaveCredential, TypeOK, Request
      <4>2. [owner |-> req[r].builder, count |-> req[r].count] \in CredentialRow
        BY <2>1 DEF CredentialRow, Request
      <4>3. QED BY <4>1, <4>2
    <3>2. CASE CreateSession(r)
      BY <3>2 DEF CreateSession, Verified
    <3>3. QED BY <1>3, <3>1, <3>2
  <2> HIDE DEF g
  <2>5. AsIssued(g)
    BY <2>3, <2>4 DEF AsIssued
  <2>6. QED BY <1>1, <2>2, <2>5 DEF GrantedAsIssued, AsIssued
<1>4. CASE Tick \/ cleanupExpiredSessions \/ Restart \/ RefusedFinish \/ UNCHANGED vars \/ Begin
  BY <1>2, <1>4, QuietStep, BegunEnters
<1>5. ASSUME NEW r \in Requests, Finish(r) PROVE GrantedAsIssued'
  BY <1>2, <1>5, FinishFacts
<1>6. ASSUME NEW r \in Requests, Step(r) PROVE GrantedAsIssued'
  BY <1>2, <1>3, <1>6 DEF Step, Proceed, Fail, Attest, DuplicateCredential, Validate,
     UpdateCredentialSignCount, CountLost, Rejected, StatementFails
<1>7. QED BY <1>4, <1>5, <1>6 DEF Next, RefusedFinish

-----------------------------------------------------------------------------
LEMMA InitIInv == Init => IInv
<1> SUFFICES ASSUME Init PROVE IInv
  OBVIOUS
<1>1. TypeOK
  BY DEF Init, TypeOK, Counts
<1>2. Linked /\ Verified
  BY DEF Init, Linked, Verified, Active, Idle, Keys
<1>3. Apart /\ GrantedAsIssued
  BY DEF Init, Apart, GrantedAsIssued, ChallengeUsedOnce, Active, Idle
<1>4. QED BY <1>1, <1>2, <1>3 DEF IInv

THEOREM Invariance == Spec => []IInv
<1>1. IInv /\ [Next]_vars => IInv'
  BY TypeStep, LinkedStep, VerifiedStep, ApartStep, GrantedStep DEF IInv
<1>2. QED BY <1>1, InitIInv, PTL DEF Spec

(* The tables, the maps and the requests keep their types, and neither the *)
(* challenges nor the sign counts outgrow their bounds.                    *)
THEOREM TypeCorrect == Spec => []TypeOK
BY Invariance, PTL DEF IInv

(* A challenge is granted at most once (handler/auth.go:316).              *)
THEOREM UsedOnce == Spec => []ChallengeUsedOnce
<1>1. IInv => ChallengeUsedOnce
  BY DEF IInv, Apart
<1>2. QED BY <1>1, Invariance, PTL

(* What is granted is what the challenge was issued for, and the passkey   *)
(* is its builder's (handler/auth.go:341-409).                             *)
THEOREM GrantsAsIssued == Spec => []GrantedAsIssued
BY Invariance, PTL DEF IInv

-----------------------------------------------------------------------------
(* The sweep that is due comes in time for every entry. *)
SweptInTime(t, due, e) == e # NoCeremony => e.at <= t /\ due <= e.at + Ttl + Period
InTime ==
  /\ now <= sweepAt /\ sweepAt <= now + Period
  /\ \A b \in Builders : SweptInTime(now, sweepAt, regSessions[b])
  /\ \A k \in Keys : SweptInTime(now, sweepAt, loginSessions[k])

LEMMA InTimeStep == TypeOK /\ InTime /\ [Next]_vars => InTime'
<1> SUFFICES ASSUME TypeOK, InTime, [Next]_vars PROVE InTime'
  OBVIOUS
<1>1. /\ now \in Nat /\ sweepAt \in Nat /\ Ttl \in Nat /\ Period \in Nat
      /\ \A e \in Ceremony : e.at \in Nat
      /\ \A b \in Builders : regSessions[b] \in Ceremony \cup {NoCeremony}
      /\ \A k \in Keys : loginSessions[k] \in Ceremony \cup {NoCeremony}
  BY DEF TypeOK, Ceremony
<1>2. ASSUME UNCHANGED time,
             \A b \in Builders : regSessions'[b] \in {regSessions[b], NoCeremony},
             \A k \in Keys : loginSessions'[k] \in {loginSessions[k], NoCeremony}
      PROVE  InTime'
  BY <1>2 DEF InTime, SweptInTime, time
<1>3. CASE UNCHANGED vars
  BY <1>2, <1>3 DEF vars, maps
<1>4. CASE Tick
  BY <1>1, <1>4 DEF Tick, maps, InTime, SweptInTime
<1>5. CASE cleanupExpiredSessions
  <2>1. now' = now /\ sweepAt' = now + Period
    BY <1>5 DEF cleanupExpiredSessions
  <2>2. ASSUME NEW e \in Ceremony \cup {NoCeremony}, SweptInTime(now, sweepAt, e)
        PROVE  SweptInTime(now', sweepAt', IF Old(e) THEN NoCeremony ELSE e)
    BY <1>1, <2>1, <2>2 DEF SweptInTime, Old
  <2>3. /\ \A b \in Builders :
             regSessions'[b] = IF Old(regSessions[b]) THEN NoCeremony ELSE regSessions[b]
        /\ \A k \in Keys :
             loginSessions'[k] = IF Old(loginSessions[k]) THEN NoCeremony ELSE loginSessions[k]
    BY <1>5 DEF cleanupExpiredSessions, Swept, TypeOK
  <2>4. QED BY <1>1, <2>1, <2>2, <2>3 DEF InTime
<1>6. CASE Restart
  BY <1>1, <1>6 DEF Restart, InTime, SweptInTime
<1>7. CASE Begin
  <2>1. UNCHANGED <<now, sweepAt>>
    BY <1>7 DEF Begin, BeginRegistration, BeginLogin, BeginDiscoverableLogin, Issue, time
  <2>2. ASSUME NEW b, NEW allowed
        PROVE  SweptInTime(now', sweepAt', NewCeremony(b, allowed))
    BY <1>1, <2>1 DEF SweptInTime, NewCeremony, InTime
  <2>3. /\ \A b \in Builders : \/ regSessions'[b] = regSessions[b]
                               \/ \E c, allowed : regSessions'[b] = NewCeremony(c, allowed)
        /\ \A k \in Keys : \/ loginSessions'[k] = loginSessions[k]
                           \/ \E c, allowed : loginSessions'[k] = NewCeremony(c, allowed)
    BY <1>7 DEF Begin, BeginRegistration, BeginLogin, BeginDiscoverableLogin, TypeOK
  <2>4. QED BY <2>1, <2>2, <2>3 DEF InTime
<1>8. ASSUME NEW r \in Requests, Finish(r) PROVE InTime'
  BY <1>2, <1>8, FinishFacts DEF TakenFrom, Remove, TypeOK, time
<1>9. ASSUME NEW r \in Requests, Step(r) PROVE InTime'
  <2>1. UNCHANGED time
    BY <1>9 DEF Step, Proceed, Fail, Attest, SaveCredential, DuplicateCredential, Validate,
       UpdateCredentialSignCount, CountLost, CreateSession, Rejected, StatementFails
  <2>2. QED BY <1>2, <1>9, <2>1, StepFacts
<1>10. ASSUME NEW k \in Keys, FinishRefused(k) PROVE InTime'
  BY <1>2, <1>10 DEF FinishRefused, Remove, TypeOK
<1>11. QED BY <1>3, <1>4, <1>5, <1>6, <1>7, <1>8, <1>9, <1>10 DEF Next

(* No ceremony can be finished later than its time to live and one period  *)
(* of the sweep after it began (handler/auth.go:117-133).                  *)
THEOREM NoStale == Spec => []NoStaleCeremony
<1>1. Init => InTime
  BY DEF Init, InTime, SweptInTime
<1>2. TypeOK /\ InTime => NoStaleCeremony
  <2> SUFFICES ASSUME TypeOK, InTime PROVE NoStaleCeremony
    OBVIOUS
  <2>1. /\ now \in Nat /\ sweepAt \in Nat /\ \A e \in Ceremony : e.at \in Nat
        /\ \A b \in Builders : regSessions[b] \in Ceremony \cup {NoCeremony}
        /\ \A k \in Keys : loginSessions[k] \in Ceremony \cup {NoCeremony}
    BY DEF TypeOK, Ceremony
  <2>2. QED BY <2>1 DEF InTime, SweptInTime, NoStaleCeremony
<1>3. QED BY <1>1, <1>2, InTimeStep, TypeCorrect, PTL DEF Spec

(* A login ceremony that is not too old only goes away because a request   *)
(* takes it, another begin of the same handle replaces it, or the server   *)
(* restarts (handler/auth.go:117-133): a begin puts a ceremony, and the    *)
(* sweep takes what is old.                                                *)
THEOREM NoEarlyExpiry == Spec => NoEarlySweep
<1> DEFINE Kept(k) == \/ loginSessions[k] = NoCeremony
                      \/ loginSessions'[k] # NoCeremony
                      \/ now - loginSessions[k].at > Ttl
                      \/ \E r \in Requests : Entering(r) /\ req'[r].ceremony = loginSessions[k]
                      \/ FinishRefused(k)
                      \/ Restart
<1>1. ASSUME TypeOK, [Next]_vars, NEW k \in Keys,
             loginSessions[k] # NoCeremony, loginSessions'[k] = NoCeremony
      PROVE  Kept(k)
  <2>1. loginSessions[k] \in Ceremony /\ loginSessions'[k] # loginSessions[k]
    BY <1>1 DEF TypeOK
  <2>2. CASE Begin
    <3>1. ASSUME NEW b \in Builders \cup {NoBuilder}, NEW allowed \in SUBSET Passkeys,
                 Issue("login", b)
          PROVE  NewCeremony(b, allowed) # NoCeremony
      <4> HIDE DEF Kept
      <4>1. NewCeremony(b, allowed) \in Ceremony
        BY <1>1, <3>1, IssueType
      <4>2. QED BY <4>1, KeyAssumption
    <3>2. ASSUME NEW b \in Builders, BeginLogin(b) PROVE FALSE
      <4>1. CredentialsOf(b) \in SUBSET Passkeys /\ Issue("login", b)
        BY <3>2 DEF BeginLogin, CredentialsOf
      <4>2. NewCeremony(b, CredentialsOf(b)) # NoCeremony
        BY <3>1, <4>1
      <4>3. QED BY <1>1, <3>2, <4>2 DEF BeginLogin, TypeOK
    <3>3. ASSUME BeginDiscoverableLogin PROVE FALSE
      <4>1. NewCeremony(NoBuilder, {}) # NoCeremony
        BY <3>1, <3>3 DEF BeginDiscoverableLogin
      <4>2. QED BY <1>1, <3>3, <4>1 DEF BeginDiscoverableLogin, TypeOK
    <3>4. ASSUME NEW b \in Builders, BeginRegistration(b) PROVE FALSE
      BY <2>1, <3>4 DEF BeginRegistration
    <3>5. QED BY <2>2, <3>2, <3>3, <3>4 DEF Begin
  <2>3. ASSUME NEW r \in Requests, Finish(r) PROVE Kept(k)
    <3>1. Entering(r)
      BY <1>1, <2>3, FinishFacts DEF Entering, Active
    <3>2. PICK j \in Keys : TakenFrom(loginSessions, j, req'[r].ceremony)
      BY <1>1, <2>1, <2>3, FinishFacts DEF Keys
    <3>3. j = k
      BY <1>1, <2>1, <3>2 DEF TakenFrom, Remove, TypeOK
    <3>4. QED BY <3>1, <3>2, <3>3 DEF TakenFrom
  <2>4. ASSUME NEW r \in Requests, Step(r) PROVE FALSE
    BY <1>1, <2>1, <2>4, StepFacts
  <2>5. ASSUME NEW j \in Keys, FinishRefused(j) PROVE Kept(k)
    <3>1. j = k
      BY <1>1, <2>1, <2>5 DEF FinishRefused, Remove, TypeOK
    <3>2. QED BY <2>5, <3>1
  <2>6. CASE cleanupExpiredSessions
    <3>1. Old(loginSessions[k])
      BY <1>1, <2>1, <2>6 DEF cleanupExpiredSessions, Swept, TypeOK
    <3>2. now \in Nat /\ Ttl \in Nat /\ loginSessions[k].at \in Nat
      BY <1>1, <2>1, BoundAssumption DEF TypeOK, Ceremony
    <3>3. QED BY <3>1, <3>2 DEF Old
  <2>7. CASE Restart
    BY <2>7
  <2>8. CASE Tick \/ UNCHANGED vars
    BY <2>1, <2>8 DEF Tick, vars, maps
  <2>9. QED BY <1>1, <2>2, <2>3, <2>4, <2>5, <2>6, <2>7, <2>8 DEF Next
<1>2. TypeOK /\ [Next]_vars => [\A k \in Keys : Kept(k)]_vars
  BY <1>1
<1>3. QED BY <1>2, TypeCorrect, PTL DEF Spec, NoEarlySweep

-----------------------------------------------------------------------------
(* Serial behaviours.  A login that was validated carries a sign count no  *)
(* smaller than the stored one, and once it has stored it, the stored one  *)
(* covers it.  That lasts because no other request has that passkey, and   *)
(* a row is only inserted for a passkey that nothing was granted to.       *)
Covered(q) ==
  /\ q.pc = "count" => credentials[q.passkey].count <= q.count
  /\ q.pc = "session" => q.count <= credentials[q.passkey].count

SerialInv ==
  /\ IInv /\ OnePerPasskey /\ CountCovers
  /\ \A r \in Requests : Covered(req[r])

(* The sign counts that are compared are numbers. *)
LEMMA CountTypes ==
  ASSUME TypeOK
  PROVE  /\ \A p \in Passkeys : credentials[p] # NoRow => credentials[p].count \in Nat
         /\ \A i \in DOMAIN accepted :
              accepted[i].passkey \in Passkeys /\ accepted[i].count \in Nat
         /\ \A r \in Requests : Active(r) => req[r].passkey \in Passkeys /\ req[r].count \in Nat
<1>1. \A p \in Passkeys : credentials[p] # NoRow => credentials[p] \in CredentialRow
  BY DEF TypeOK
<1>2. \A i \in DOMAIN accepted : accepted[i] \in Grants
  BY DEF TypeOK
<1>3. \A r \in Requests : Active(r) => req[r] \in Request
  BY RequestType
<1>4. QED BY <1>1, <1>2, <1>3 DEF CredentialRow, Grants, Request, Counts

(* A step that grants nothing, and lowers no sign count that covers one. *)
LEMMA CountsStay ==
  ASSUME SerialInv, IInv', OnePerPasskey', accepted' = accepted,
         \A p \in Passkeys : credentials[p] # NoRow =>
           credentials[p].count <= credentials'[p].count,
         \A r \in Requests : Covered(req[r])'
  PROVE  SerialInv'
<1>1. CountCovers'
  <2> SUFFICES ASSUME NEW i \in DOMAIN accepted
               PROVE  credentials'[accepted[i].passkey].count >= accepted[i].count
    BY DEF CountCovers
  <2> DEFINE p == accepted[i].passkey
  <2>1. p \in Passkeys /\ accepted[i].count \in Nat
    BY CountTypes DEF SerialInv, IInv
  <2>2. credentials[p] # NoRow /\ credentials[p].count >= accepted[i].count
    BY DEF SerialInv, IInv, GrantedAsIssued, CountCovers
  <2>3. credentials'[p].count \in Nat
    <3>1. credentials'[p] # NoRow
      BY DEF IInv, GrantedAsIssued
    <3>2. credentials'[p] \in CredentialRow
      BY <2>1, <3>1 DEF IInv, TypeOK
    <3>3. QED BY <3>2 DEF CredentialRow, Counts
  <2>4. credentials[p].count \in Nat
    BY <2>1, <2>2, CountTypes DEF SerialInv, IInv
  <2> HIDE DEF p
  <2>5. credentials[p].count <= credentials'[p].count
    BY <2>1, <2>2
  <2>6. QED BY <2>1, <2>2, <2>3, <2>4, <2>5 DEF p
<1>2. QED BY <1>1 DEF SerialInv

(* What is granted is covered by the stored count. *)
LEMMA GrantCovered ==
  ASSUME SerialInv, IInv', OnePerPasskey', NEW r \in Requests, Active(r),
         NEW kind, Grant(r, kind), Answer(r), OthersWait(r),
         \A p \in Passkeys : credentials[p] # NoRow => credentials'[p] = credentials[p],
         req[r].count <= credentials'[req[r].passkey].count
  PROVE  SerialInv'
<1> DEFINE g == [kind |-> kind, builder |-> req[r].builder, passkey |-> req[r].passkey,
                 challenge |-> req[r].ceremony.challenge, count |-> req[r].count]
<1>1. /\ DOMAIN accepted' = DOMAIN accepted \cup {Len(accepted) + 1}
      /\ \A i \in DOMAIN accepted : accepted'[i] = accepted[i]
      /\ accepted'[Len(accepted) + 1] = g
  BY GrantAppends DEF SerialInv, IInv
<1>2. g.passkey = req[r].passkey /\ g.count = req[r].count
  OBVIOUS
<1> HIDE DEF g
<1>3. \A i \in DOMAIN accepted :
        /\ credentials'[accepted[i].passkey] = credentials[accepted[i].passkey]
        /\ credentials[accepted[i].passkey].count >= accepted[i].count
  BY CountTypes DEF SerialInv, IInv, GrantedAsIssued, CountCovers
<1>4. credentials'[g.passkey].count >= g.count
  <2>1. req[r].count \in Nat /\ req[r].passkey \in Passkeys
    BY CountTypes DEF SerialInv, IInv
  <2>2. credentials'[g.passkey] # NoRow
    BY <1>1 DEF IInv, GrantedAsIssued
  <2>3. credentials'[req[r].passkey].count \in Nat
    <3>1. credentials'[req[r].passkey] \in CredentialRow
      BY <1>2, <2>1, <2>2 DEF IInv, TypeOK
    <3>2. QED BY <3>1 DEF CredentialRow, Counts
  <2>4. QED BY <1>2, <2>1, <2>3
<1>5. CountCovers'
  BY <1>1, <1>3, <1>4 DEF CountCovers
<1>6. ASSUME NEW s \in Requests PROVE Covered(req[s])'
  <2>1. CASE s = r
    BY <2>1 DEF SerialInv, IInv, TypeOK, Answer, Idle, Covered
  <2>2. CASE s # r /\ req[s].pc \in {"count", "session"}
    <3>1. req'[s] = req[s] /\ Covered(req[s]) /\ Active(s)
      BY <2>2 DEF OthersWait, SerialInv, Active
    <3>2. credentials[req[s].passkey] # NoRow /\ req[s].passkey \in Passkeys
      BY <2>2, <3>1, CountTypes DEF SerialInv, IInv, Verified
    <3>3. QED BY <3>1, <3>2 DEF Covered
  <2>3. CASE s # r /\ req[s].pc \notin {"count", "session"}
    BY <2>3 DEF OthersWait, Covered
  <2>4. QED BY <2>1, <2>2, <2>3
<1>7. QED BY <1>5, <1>6 DEF SerialInv

LEMMA ProceedSerial ==
  ASSUME SerialInv, IInv', OnePerPasskey', NEW r \in Requests, Proceed(r)
  PROVE  SerialInv'
<1>1. /\ TypeOK /\ Verified /\ Active(r) /\ OthersWait(r) /\ req[r] \in Request
      /\ Covered(req[r])
  BY StepFacts, RequestType DEF SerialInv, IInv, Step
<1>2. req \in [Requests -> Request \cup {Idle}]
  BY <1>1 DEF TypeOK
<1>3. ASSUME credentials' = credentials, accepted' = accepted, Covered(req[r])'
      PROVE  SerialInv'
  <2>1. \A s \in Requests : Covered(req[s])'
    BY <1>1, <1>3 DEF SerialInv, OthersWait, Covered
  <2>2. \A p \in Passkeys : credentials[p] # NoRow =>
          credentials[p].count <= credentials'[p].count
    BY <1>1, <1>3, CountTypes
  <2>3. QED BY <1>3, <2>1, <2>2, CountsStay
<1>4. ASSUME Answer(r) PROVE Covered(req[r])'
  BY <1>2, <1>4 DEF Answer, Idle, Covered
<1>5. CASE Attest(r)
  <2>1. req'[r].pc = "save"
    BY <1>1, <1>2, <1>5 DEF Attest, Goto, Request
  <2>2. QED BY <1>3, <1>5, <2>1 DEF Attest, Covered
<1>6. CASE Rejected(r) \/ DuplicateCredential(r)
  BY <1>3, <1>4, <1>6 DEF Rejected, DuplicateCredential
<1>7. CASE SaveCredential(r)
  <2>1. /\ Grant(r, "registration") /\ Answer(r) /\ credentials[req[r].passkey] = NoRow
        /\ \A p \in Passkeys : credentials[p] # NoRow => credentials'[p] = credentials[p]
    BY <1>1, <1>7 DEF SaveCredential, TypeOK
  <2> DEFINE row == [owner |-> req[r].builder, count |-> req[r].count]
  <2>2. credentials'[req[r].passkey] = row
    BY <1>1, <1>7 DEF SaveCredential, TypeOK, Request
  <2>3. row.count = req[r].count
    OBVIOUS
  <2> HIDE DEF row
  <2>4. req[r].count <= credentials'[req[r].passkey].count
    BY <1>1, <2>2, <2>3, CountTypes
  <2>5. QED BY <1>1, <2>1, <2>4, GrantCovered
<1>8. CASE Validate(r)
  <2> DEFINE stored == credentials[req[r].passkey].count
             new == IF req[r].count > stored THEN req[r].count ELSE stored
  <2>1. credentials[req[r].passkey] # NoRow
    BY <1>8 DEF Validate, Eligible, CredentialsOf
  <2>2. stored \in Nat /\ req[r].count \in Nat
    BY <1>1, <2>1, CountTypes
  <2>3. stored <= new
    BY <2>2
  <2>4. req' = [req EXCEPT ![r] = [req[r] EXCEPT !.pc = "count", !.count = new]]
    BY <1>8 DEF Validate
  <2> HIDE DEF new
  <2>5. req'[r].pc = "count" /\ req'[r].count = new /\ req'[r].passkey = req[r].passkey
    BY <1>1, <1>2, <2>4 DEF Request
  <2>6. credentials' = credentials /\ accepted' = accepted
    BY <1>8 DEF Validate
  <2>7. Covered(req[r])'
    BY <2>3, <2>5, <2>6 DEF Covered
  <2>8. QED BY <1>3, <2>6, <2>7
<1>9. CASE UpdateCredentialSignCount(r)
  <2> DEFINE p == req[r].passkey
             n == req[r].count
             row == [credentials[p] EXCEPT !.count = n]
  <2>1. /\ p \in Passkeys /\ credentials[p] \in CredentialRow /\ n \in Nat
        /\ credentials[p].count \in Nat /\ credentials[p].count <= n
    BY <1>1, <1>9, CountTypes
       DEF UpdateCredentialSignCount, Verified, Covered, Request, TypeOK
  <2>2. row.count = n
    BY <2>1 DEF CredentialRow
  <2>3. credentials' = [credentials EXCEPT ![p] = row] /\ accepted' = accepted
        /\ req' = [req EXCEPT ![r].pc = "session"]
    BY <1>9 DEF UpdateCredentialSignCount, Goto
  <2>4. req'[r].pc = "session" /\ req'[r].passkey = p /\ req'[r].count = n
    BY <1>1, <1>2, <2>3 DEF Request
  <2> HIDE DEF row, p, n
  <2>5. credentials'[p].count = n /\ \A k \in Passkeys : k # p => credentials'[k] = credentials[k]
    BY <1>1, <2>1, <2>2, <2>3 DEF TypeOK
  <2>6. ASSUME NEW k \in Passkeys, credentials[k] # NoRow
        PROVE  credentials[k].count <= credentials'[k].count
    BY <1>1, <2>1, <2>5, <2>6, CountTypes
  <2>7. ASSUME NEW s \in Requests PROVE Covered(req[s])'
    <3>1. CASE s = r
      BY <2>1, <2>4, <2>5, <3>1 DEF Covered
    <3>2. CASE s # r /\ Active(s)
      <4>1. req[s].passkey # p /\ req[s].passkey \in Passkeys
        BY <1>1, <3>2, CountTypes DEF SerialInv, OnePerPasskey, p
      <4>2. Covered(req[s]) /\ req'[s] = req[s]
        BY <1>1, <3>2 DEF SerialInv, OthersWait
      <4>3. QED BY <2>5, <4>1, <4>2 DEF Covered
    <3>3. CASE s # r /\ ~Active(s)
      BY <1>1, <3>3 DEF OthersWait, Active, Covered
    <3>4. QED BY <3>1, <3>2, <3>3
  <2>8. QED BY <2>3, <2>6, <2>7, CountsStay
<1>10. CASE CreateSession(r)
  <2>1. /\ Grant(r, "login") /\ Answer(r) /\ credentials' = credentials
        /\ req[r].count <= credentials[req[r].passkey].count
    BY <1>1, <1>10 DEF CreateSession, Covered
  <2>2. QED BY <1>1, <2>1, GrantCovered
<1>11. QED BY <1>5, <1>6, <1>7, <1>8, <1>9, <1>10 DEF Proceed

(* The steps of a serial behaviour with its clock and its sweep, and with  *)
(* statements that fail: all but the UPDATE whose error is dropped.        *)
CountedNext ==
  /\ \/ Begin \/ Restart \/ Tick \/ cleanupExpiredSessions
     \/ \E k \in Keys : FinishRefused(k)
     \/ \E r \in Requests : Finish(r) \/ Proceed(r) \/ (Faults /\ StatementFails(r))
  /\ OnePerPasskey'

LEMMA SerialStep == SerialInv /\ [CountedNext]_vars => SerialInv'
<1> SUFFICES ASSUME SerialInv, [CountedNext]_vars PROVE SerialInv'
  OBVIOUS
<1>1. IInv'
  BY TypeStep, LinkedStep, VerifiedStep, ApartStep, GrantedStep
     DEF SerialInv, IInv, CountedNext, Next, Step, Fail
<1>2. OnePerPasskey'
  BY DEF SerialInv, CountedNext, OnePerPasskey, Active, vars
<1>3. ASSUME credentials' = credentials, accepted' = accepted,
             \A r \in Requests : req'[r] = req[r] \/ req'[r].pc \notin {"count", "session"}
      PROVE  SerialInv'
  <2>1. \A r \in Requests : Covered(req[r])'
    BY <1>3 DEF SerialInv, Covered
  <2>2. \A p \in Passkeys : credentials[p] # NoRow =>
          credentials[p].count <= credentials'[p].count
    BY <1>3, CountTypes DEF SerialInv, IInv
  <2>3. QED BY <1>1, <1>2, <1>3, <2>1, <2>2, CountsStay
<1>4. CASE UNCHANGED vars
  BY <1>3, <1>4 DEF vars
<1>5. CASE Begin
  BY <1>3, <1>5 DEF Begin, BeginRegistration, BeginLogin, BeginDiscoverableLogin, Issue
<1>6. CASE Restart
  BY <1>3, <1>6 DEF Restart, Idle
<1>7. ASSUME NEW k \in Keys, FinishRefused(k) PROVE SerialInv'
  BY <1>3, <1>7 DEF FinishRefused
<1>8. ASSUME NEW r \in Requests, Finish(r) PROVE SerialInv'
  <2>1. /\ OthersWait(r) /\ req'[r].pc \in {"attest", "assert"}
        /\ credentials' = credentials /\ accepted' = accepted
    BY <1>8, FinishFacts DEF SerialInv, IInv
  <2>2. QED BY <1>3, <2>1 DEF OthersWait
<1>9. CASE Tick \/ cleanupExpiredSessions
  BY <1>3, <1>9 DEF Tick, cleanupExpiredSessions
<1>10. ASSUME NEW r \in Requests, StatementFails(r) PROVE SerialInv'
  <2>1. \A s \in Requests : req'[s] = IF s = r THEN Idle ELSE req[s]
    BY <1>10 DEF StatementFails, Answer, SerialInv, IInv, TypeOK
  <2>2. QED BY <1>3, <1>10, <2>1 DEF StatementFails, Idle
<1>11. QED BY <1>1, <1>2, <1>4, <1>5, <1>6, <1>7, <1>8, <1>9, <1>10, ProceedSerial
           DEF CountedNext

LEMMA InitSerial == Init => SerialInv
BY InitIInv DEF Init, SerialInv, OnePerPasskey, CountCovers, Covered, Active, Idle

(* Neither the clock, a restart nor a failed INSERT makes the server       *)
(* accept a sign count that it does not store: only requests of one        *)
(* passkey that overlap and the dropped error of the UPDATE may            *)
(* (handler/auth.go:370, 409).                                             *)
THEOREM CountsInTurn == Init /\ [][CountedNext]_vars => []CountCovers
<1>1. SerialInv => CountCovers
  BY DEF SerialInv
<1>2. QED BY <1>1, InitSerial, SerialStep, PTL

(* What a behaviour of MCCeremonies keeps while it is a serial one. *)
LEMMA EitherKind == MCSpec => [](mode = "serial" => SerialInv)
<1>1. MCInit => (mode = "serial" => SerialInv)
  BY InitSerial DEF MCInit
<1>2. (mode = "serial" => SerialInv) /\ [MCNext]_<<vars, mode>>
        => (mode = "serial" => SerialInv)'
  BY SerialStep DEF MCNext, SerialNext, CountedNext
<1>3. QED BY <1>1, <1>2, PTL DEF MCSpec

(* No answer was accepted whose sign count is above the stored one, when   *)
(* the requests with one passkey follow one another and no statement is    *)
(* lost (handler/auth.go:370, 409).                                        *)
THEOREM SerialCounts == MCSpec => []SerialCountCovers
<1>1. SerialInv => CountCovers
  BY DEF SerialInv
<1>2. QED BY <1>1, EitherKind, PTL DEF SerialCountCovers

-----------------------------------------------------------------------------
(* The refinement: begin issues, granting uses, and all else drops.        *)
open == InMaps \cup InHand
used == [i \in DOMAIN accepted |-> accepted[i].challenge]

LEMMA GrantUses ==
  ASSUME TypeOK, NEW r \in Requests, NEW kind, Active(r), Grant(r, kind)
  PROVE  used' = Append(used, req[r].ceremony.challenge)
<1> DEFINE c == req[r].ceremony.challenge
           n == Len(accepted)
           g == [kind |-> kind, builder |-> req[r].builder, passkey |-> req[r].passkey,
                 challenge |-> c, count |-> req[r].count]
<1>1. g.challenge = c
  OBVIOUS
<1>2. accepted \in Seq(Grants) /\ accepted' = Append(accepted, g)
  BY DEF TypeOK, Grant
<1> HIDE DEF g, c
<1>3. /\ n \in Nat /\ DOMAIN accepted = 1..n /\ DOMAIN accepted' = 1..(n + 1)
      /\ \A i \in 1..n : accepted'[i] = accepted[i] /\ accepted[i] \in Grants
      /\ accepted'[n + 1] = g
  BY <1>2
<1>4. used \in Seq(Challenges) /\ Len(used) = n
  BY <1>3 DEF used, Grants
<1>5. Append(used, c) = [i \in 1..(n + 1) |-> IF i = n + 1 THEN c ELSE used[i]]
  <2>1. c \in Challenges
    BY RequestType DEF Request, Ceremony, c
  <2>2. Append(used, c) \in Seq(Challenges) /\ Len(Append(used, c)) = n + 1
    BY <1>4, <2>1
  <2>3. Append(used, c) \in [1..(n + 1) -> Challenges]
    BY <2>2, LenProperties
  <2>4. \A i \in 1..(n + 1) : Append(used, c)[i] = IF i = n + 1 THEN c ELSE used[i]
    BY <1>3, <1>4, <2>1
  <2> HIDE DEF n
  <2>5. QED BY <2>3, <2>4
<1>6. used' = [i \in 1..(n + 1) |-> IF i = n + 1 THEN c ELSE used[i]]
  BY <1>1, <1>3 DEF used
<1>7. QED BY <1>5, <1>6 DEF c

LEMMA StepRefines ==
  IInv /\ [Next]_vars => [Abstract!Next]_<<Len(issued), open, used>>
<1> SUFFICES ASSUME IInv, [Next]_vars
             PROVE  [Abstract!Next]_<<Len(issued), open, used>>
  OBVIOUS
<1> USE DEF IInv
<1>1. ASSUME open' \subseteq open, UNCHANGED <<issued, accepted>> PROVE Abstract!Drop
  BY <1>1 DEF Abstract!Drop, open, used
<1>2. CASE Tick \/ cleanupExpiredSessions \/ Restart \/ RefusedFinish \/ UNCHANGED vars
  <2>1. InHand' \subseteq InHand
    BY <1>2, QuietStep DEF InHand, Active, Idle
  <2>2. QED BY <1>1, <1>2, <2>1, QuietStep DEF open, Abstract!Next
<1>3. CASE Begin
  <2> DEFINE n == Len(issued) + 1
             dropped == open \ open'
  <2>1. /\ n \in open' /\ open' \subseteq open \cup {n} /\ used' = used
        /\ Len(issued') = n /\ Len(issued) < MaxChallenges
    BY <1>3, BegunEnters DEF open, used, InHand, Active
  <2>2. dropped \in SUBSET open /\ open' = (open \ dropped) \cup {Len(issued')}
    BY <2>1
  <2>3. Abstract!Issue
    BY <2>1, <2>2 DEF Abstract!Issue, open, used
  <2>4. QED BY <2>3 DEF Abstract!Next
<1>4. ASSUME NEW r \in Requests, Finish(r) PROVE Abstract!Next
  <2>1. /\ ~Active(r) /\ OthersWait(r) /\ UNCHANGED <<issued, accepted>>
        /\ req'[r].ceremony.challenge \in InMaps /\ InMaps' \subseteq InMaps
    BY <1>4, FinishFacts, TakenLeaves
  <2>2. InHand' \subseteq InHand \cup {req'[r].ceremony.challenge}
    BY <2>1 DEF InHand, OthersWait, Active
  <2>3. QED BY <1>1, <2>1, <2>2 DEF open, Abstract!Next
<1>5. ASSUME NEW r \in Requests, Step(r) PROVE Abstract!Next
  <2> DEFINE c == req[r].ceremony.challenge
  <2>1. /\ Active(r) /\ OthersWait(r) /\ InMaps' = InMaps /\ issued' = issued
        /\ req'[r] = Idle \/ req'[r].ceremony = req[r].ceremony
    BY <1>5, StepFacts DEF InMaps
  <2>2. CASE accepted' = accepted
    <3>1. InHand' \subseteq InHand
      BY <2>1 DEF InHand, OthersWait, Active, Idle
    <3>2. QED BY <1>1, <2>1, <2>2, <3>1 DEF open, Abstract!Next
  <2>3. CASE req'[r] = Idle /\ Grant(r, KindOf(req[r].pc))
    <3>1. used' = Append(used, c)
      BY <2>1, <2>3, GrantUses
    <3>2. c \in InHand /\ c \notin InMaps /\ c \in Challenges
      BY <2>1, RequestType DEF InHand, Apart, Request, Ceremony
    <3>3. InHand' = InHand \ {c}
      BY <2>1, <2>3 DEF InHand, OthersWait, Active, Idle, Apart
    <3> HIDE DEF c
    <3>4. QED BY <2>1, <3>1, <3>2, <3>3 DEF Abstract!Next, Abstract!Use, open, used, Challenges
  <2>4. QED BY <1>5, <2>2, <2>3, StepFacts
<1>6. QED BY <1>2, <1>3, <1>4, <1>5 DEF Next, RefusedFinish

(* The two maps, the requests and what they grant implement a store of     *)
(* challenges that can each be used once.                                  *)
THEOREM ImplementsOneTime == Spec => OneTime
<1>1. Init => Abstract!Init
  BY DEF Init, Abstract!Init, InMaps, InHand, Active, Idle
<1>2. IInv /\ [Next]_vars => [Abstract!Next]_Abstract!vars
  BY StepRefines DEF Abstract!vars, open, used
<1>3. QED BY <1>1, <1>2, Invariance, PTL DEF OneTime, Abstract!Spec, Spec

-----------------------------------------------------------------------------
last == Len(issued)

(* What the abstract store promises by itself: what was used was issued    *)
(* and is open no more, so that it cannot be used again.                   *)
StoreInv ==
  /\ last \in Nat /\ used \in Seq(Nat)
  /\ open \subseteq 1..last
  /\ \A i \in DOMAIN used : used[i] <= last /\ used[i] \notin open
  /\ \A i, j \in DOMAIN used : used[i] = used[j] => i = j

LEMMA StoreKeeps == StoreInv /\ [Abstract!Next]_Abstract!vars => StoreInv'
<1> SUFFICES ASSUME StoreInv, [Abstract!Next]_Abstract!vars PROVE StoreInv'
  OBVIOUS
<1>1. CASE Abstract!Issue
  <2>1. /\ last' = last + 1 /\ used' = used
        /\ open' \subseteq open \cup {last'}
    BY <1>1 DEF Abstract!Issue, last, open, used
  <2>2. QED BY <2>1 DEF StoreInv
<1>2. CASE Abstract!Drop
  <2>1. last' = last /\ used' = used /\ open' \subseteq open
    BY <1>2 DEF Abstract!Drop, last, open, used
  <2>2. QED BY <2>1 DEF StoreInv
<1>3. ASSUME NEW c \in 1..MaxChallenges, Abstract!Use(c) PROVE StoreInv'
  <2>1. c \in open /\ open' = open \ {c} /\ used' = Append(used, c) /\ last' = last
    BY <1>3 DEF Abstract!Use, last, open, used
  <2>2. used \in Seq(Nat) /\ c \in Nat /\ c <= last
    BY <2>1 DEF StoreInv
  <2>3. /\ used' \in Seq(Nat) /\ DOMAIN used' = DOMAIN used \cup {Len(used) + 1}
        /\ \A i \in DOMAIN used : used'[i] = used[i] /\ i # Len(used) + 1
        /\ used'[Len(used) + 1] = c
    BY <2>1, <2>2
  <2>4. \A i \in DOMAIN used' : used'[i] <= last' /\ used'[i] \notin open'
    BY <2>1, <2>2, <2>3 DEF StoreInv
  <2>5. \A i \in DOMAIN used : used[i] # c
    BY <2>1 DEF StoreInv
  <2>6. \A i, j \in DOMAIN used' : used'[i] = used'[j] => i = j
    BY <2>3, <2>5 DEF StoreInv
  <2>7. QED BY <2>1, <2>3, <2>4, <2>6 DEF StoreInv
<1>4. CASE UNCHANGED Abstract!vars
  <2>1. last' = last /\ used' = used /\ open' = open
    BY <1>4 DEF Abstract!vars, last, open, used
  <2>2. QED BY <2>1 DEF StoreInv
<1>5. QED BY <1>1, <1>2, <1>3, <1>4 DEF Abstract!Next

(* The abstract store keeps the promise in its name: no challenge is used  *)
(* twice.  So implementing it is enough, whatever the maps look like       *)
(* (handler/auth.go:25-43).                                                *)
THEOREM StorePromise == OneTime => [](\A i, j \in DOMAIN used : used[i] = used[j] => i = j)
<1>1. Abstract!Init => StoreInv
  BY DEF Abstract!Init, StoreInv, last, open, used
<1>2. StoreInv => \A i, j \in DOMAIN used : used[i] = used[j] => i = j
  BY DEF StoreInv
<1>3. QED BY <1>1, <1>2, StoreKeeps, PTL DEF OneTime, Abstract!Spec
=============================================================================
