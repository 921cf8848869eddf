----------------------------- MODULE Ceremonies -----------------------------
(***************************************************************************)
(* Passkeys: a signed-in builder registers one, and a passkey signs its    *)
(* builder in, by handle or, with a passkey that knows its builder, by the *)
(* challenge alone.  Between the two requests of a ceremony its challenge  *)
(* waits in one of two maps, which a sweep every minute rids of old ones.  *)
(*                                                                         *)
(* A map is only touched under its mutex, so a begin is one action and a   *)
(* finish starts by taking its ceremony out of the map; reading the        *)
(* credentials and checking the answer, the sign count, and the INSERT     *)
(* that grants what was asked are actions of their own.  What the library  *)
(* checks is that the answer is to this challenge, by an eligible passkey; *)
(* any other reason to refuse is Rejected.                                 *)
(*                                                                         *)
(* Handles are unique and never change, so a builder stands for its        *)
(* handle.  Challenges are random: one is a number never given before.     *)
(***************************************************************************)
EXTENDS Integers, Sequences

CONSTANTS
  Requests,       \* the finish requests the server can be working on
  Builders,
  Passkeys,       \* credential ids
  NoBuilder,      \* the ceremony is for whoever owns the passkey
  NoCeremony,     \* the map has no such key
  NoRow,          \* the passkey is not in webauthn_credentials
  Ttl,            \* 5 minutes
  Period,         \* of the sweep: 1 minute
  MaxTime,        \* bound on the clock
  MaxChallenges,  \* bound on the challenges ever issued
  MaxCount,       \* bound on the sign counts
  Faults          \* a statement may fail

ASSUME BoundAssumption ==
  /\ Ttl \in Nat /\ Period \in Nat \ {0}
  /\ MaxTime \in Nat /\ MaxChallenges \in Nat /\ MaxCount \in Nat
  /\ Faults \in BOOLEAN
ASSUME NameAssumption == NoBuilder \notin Builders

Challenges == 1..MaxChallenges
Keys == Builders \cup Challenges
Counts == 0..MaxCount
Ceremony == [challenge : Challenges, builder : Builders \cup {NoBuilder},
             allowed : SUBSET Passkeys, at : 0..MaxTime]
CredentialRow == [owner : Builders, count : Counts]

(* The keys of loginSessions: a handle or an encoded challenge.            *)
ASSUME KeyAssumption == /\ Builders \cap Challenges = {}
                        /\ NoCeremony \notin Ceremony
                        /\ NoRow \notin CredentialRow

VARIABLES
  now,          \* the clock
  sweepAt,      \* when the sweep is due
  regSessions,
  loginSessions,
  credentials,  \* table webauthn_credentials
  counter,      \* how often each authenticator has signed
  issued,       \* every challenge: what it was issued for, and for whom
  accepted,     \* every ceremony that was granted, in that order: a row of
                \* webauthn_credentials or of sessions
  req           \* what each request is about to do

time == <<now, sweepAt>>
maps == <<regSessions, loginSessions>>
history == <<counter, issued>>
vars == <<time, maps, credentials, history, accepted, req>>

Steps == {"attest", "save", "assert", "count", "session"}
Request == [pc : Steps, builder : Builders, ceremony : Ceremony,
            challenge : Challenges, passkey : Passkeys, count : Counts]
Idle == [pc |-> "idle"]
Active(r) == req[r].pc # "idle"

Purposes == [kind : {"registration", "login"}, for : Builders \cup {NoBuilder}]
Grants == [kind : {"registration", "login"}, builder : Builders,
           passkey : Passkeys, challenge : Challenges, count : Counts]

Init ==
  /\ now = 0
  /\ sweepAt = Period
  /\ regSessions = [b \in Builders |-> NoCeremony]
  /\ loginSessions = [k \in Keys |-> NoCeremony]
  /\ credentials = [p \in Passkeys |-> NoRow]
  /\ counter = [p \in Passkeys |-> 0]
  /\ issued = << >>
  /\ accepted = << >>
  /\ req = [r \in Requests |-> Idle]

-----------------------------------------------------------------------------
(* Mutant: every credential there is. *)
AllCredentials(b) == {p \in Passkeys : credentials[p] # NoRow}

(* GetCredentialsByBuilder, loadCredentials *)
CredentialsOf(b) ==
  {p \in Passkeys : credentials[p] # NoRow /\ credentials[p].owner = b}

Issue(kind, b) ==
  /\ Len(issued) < MaxChallenges
  /\ issued' = Append(issued, [kind |-> kind, for |-> b])
  /\ UNCHANGED <<time, credentials, counter, accepted, req>>
NewCeremony(b, allowed) ==
  [challenge |-> Len(issued) + 1, builder |-> b, allowed |-> allowed, at |-> now]

(* A ceremony that was running for the builder is replaced. *)
BeginRegistration(b) ==
  /\ Issue("registration", b)
  /\ regSessions' = [regSessions EXCEPT ![b] = NewCeremony(b, {})]
  /\ UNCHANGED loginSessions

(* With a handle; without a passkey the answer is 400. *)
BeginLogin(b) ==
  /\ CredentialsOf(b) # {}
  /\ Issue("login", b)
  /\ loginSessions' = [loginSessions EXCEPT ![b] = NewCeremony(b, CredentialsOf(b))]
  /\ UNCHANGED regSessions

(* Without one: the ceremony is kept under its challenge. *)
BeginDiscoverableLogin ==
  /\ Issue("login", NoBuilder)
  /\ loginSessions' = [loginSessions EXCEPT
                         ![Len(issued) + 1] = NewCeremony(NoBuilder, {})]
  /\ UNCHANGED regSessions

-----------------------------------------------------------------------------
(* Mutant: the ceremony is read and stays in the map. *)
Keep(map, k) == map

(* delete, under the lock that read the entry *)
Remove(map, k) == [map EXCEPT ![k] = NoCeremony]

(* A finish request enters with the answer that passkey p has signed for   *)
(* challenge c: the one it was asked for, or that of another tab.          *)
Enter(r, pc, b, ceremony, c, p) ==
  /\ ~Active(r)
  /\ ceremony # NoCeremony
  /\ c \in 1..Len(issued)
  /\ counter[p] < MaxCount
  /\ counter' = [counter EXCEPT ![p] = @ + 1]
  /\ req' = [req EXCEPT ![r] =
               [pc |-> pc, builder |-> b, ceremony |-> ceremony,
                challenge |-> c, passkey |-> p, count |-> counter[p] + 1]]
  /\ UNCHANGED <<time, credentials, issued, accepted>>

FinishRegistration(r, b, c, p) ==
  /\ Enter(r, "attest", b, regSessions[b], c, p)
  /\ regSessions' = Remove(regSessions, b)
  /\ UNCHANGED loginSessions

(* With a handle the builder is the one of that handle. *)
FinishLogin(r, b, c, p) ==
  /\ Enter(r, "assert", b, loginSessions[b], c, p)
  /\ loginSessions' = Remove(loginSessions, b)
  /\ UNCHANGED regSessions

(* With a challenge key it is the one the passkey was made for. *)
FinishDiscoverableLogin(r, k, c, p) ==
  /\ credentials[p] # NoRow
  /\ Enter(r, "assert", credentials[p].owner, loginSessions[k], c, p)
  /\ loginSessions' = Remove(loginSessions, k)
  /\ UNCHANGED regSessions

(* The key is of the other kind (handle=, challenge_key=), or the answer    *)
(* names no builder: the ceremony is taken all the same, and the request   *)
(* refused (400, 404) before a passkey is looked at.                       *)
FinishRefused(k) ==
  /\ loginSessions[k] # NoCeremony
  /\ loginSessions' = Remove(loginSessions, k)
  /\ UNCHANGED <<time, regSessions, credentials, history, accepted, req>>

Goto(r, pc) == req' = [req EXCEPT ![r].pc = pc]
Answer(r) == req' = [req EXCEPT ![r] = Idle]
Grant(r, kind) ==
  accepted' = Append(accepted, [kind |-> kind, builder |-> req[r].builder,
                                passkey |-> req[r].passkey,
                                challenge |-> req[r].ceremony.challenge,
                                count |-> req[r].count])

(* webauthn.FinishRegistration *)
Attest(r) ==
  /\ req[r].pc = "attest"
  /\ req[r].challenge = req[r].ceremony.challenge
  /\ Goto(r, "save")
  /\ UNCHANGED <<time, maps, credentials, history, accepted>>

(* INSERT INTO webauthn_credentials: 201. *)
SaveCredential(r) ==
  /\ req[r].pc = "save"
  /\ credentials[req[r].passkey] = NoRow
  /\ credentials' = [credentials EXCEPT ![req[r].passkey] =
                       [owner |-> req[r].builder, count |-> req[r].count]]
  /\ Grant(r, "registration")
  /\ Answer(r)
  /\ UNCHANGED <<time, maps, history>>

(* The passkeys a login may be answered with. *)
Eligible(r) ==
  IF req[r].ceremony.builder = NoBuilder
  THEN CredentialsOf(req[r].builder)
  ELSE CredentialsOf(req[r].builder) \cap req[r].ceremony.allowed

(* The builder's credentials are read and the answer is validated; a sign  *)
(* count that does not grow is only reported, and the old one is kept.     *)
Validate(r) ==
  /\ req[r].pc = "assert"
  /\ req[r].passkey \in Eligible(r)
  /\ req[r].challenge = req[r].ceremony.challenge
  /\ LET stored == credentials[req[r].passkey].count IN
     req' = [req EXCEPT ![r].pc = "count",
                        ![r].count = IF @ > stored THEN @ ELSE stored]
  /\ UNCHANGED <<time, maps, credentials, history, accepted>>

(* Its error is dropped. *)
CountLost(r) ==
  /\ req[r].pc = "count"
  /\ Goto(r, "session")
  /\ UNCHANGED <<time, maps, credentials, history, accepted>>

UpdateCredentialSignCount(r) ==
  /\ req[r].pc = "count"
  /\ credentials' = [credentials EXCEPT ![req[r].passkey].count = req[r].count]
  /\ Goto(r, "session")
  /\ UNCHANGED <<time, maps, history, accepted>>

(* INSERT INTO sessions: 200. *)
CreateSession(r) ==
  /\ req[r].pc = "session"
  /\ Grant(r, "login")
  /\ Answer(r)
  /\ UNCHANGED <<time, maps, credentials, history>>

(* The answer does not validate, or is not understood: 400, 401. *)
Rejected(r) ==
  /\ req[r].pc \in {"attest", "assert"}
  /\ Answer(r)
  /\ UNCHANGED <<time, maps, credentials, history, accepted>>

(* The passkey is registered already: 500. *)
DuplicateCredential(r) ==
  /\ req[r].pc = "save"
  /\ credentials[req[r].passkey] # NoRow
  /\ Answer(r)
  /\ UNCHANGED <<time, maps, credentials, history, accepted>>

StatementFails(r) ==
  /\ req[r].pc \in {"save", "session"}
  /\ Answer(r)
  /\ UNCHANGED <<time, maps, credentials, history, accepted>>

-----------------------------------------------------------------------------
(* Time does not pass a sweep that is due. *)
Tick ==
  /\ now < MaxTime /\ now < sweepAt
  /\ now' = now + 1
  /\ UNCHANGED <<sweepAt, maps, credentials, history, accepted, req>>

(* Mutants: the comparison includes the limit; the second loop is missing. *)
OldOrDue(e) == e # NoCeremony /\ e.at <= now - Ttl

(* createdAt.Before(cutoff) *)
Old(e) == e # NoCeremony /\ e.at < now - Ttl

Swept(map) == [k \in DOMAIN map |-> IF Old(map[k]) THEN NoCeremony ELSE map[k]]

SweepRegistrations ==
  /\ now = sweepAt
  /\ sweepAt' = sweepAt + Period
  /\ regSessions' = Swept(regSessions)
  /\ UNCHANGED <<now, loginSessions, credentials, history, accepted, req>>

cleanupExpiredSessions ==
  /\ now = sweepAt
  /\ sweepAt' = sweepAt + Period
  /\ regSessions' = Swept(regSessions)
  /\ loginSessions' = Swept(loginSessions)
  /\ UNCHANGED <<now, credentials, history, accepted, req>>

(* The maps and the requests are lost, the tables stay. *)
Restart ==
  /\ sweepAt' = now + Period
  /\ regSessions' = [b \in Builders |-> NoCeremony]
  /\ loginSessions' = [k \in Keys |-> NoCeremony]
  /\ req' = [r \in Requests |-> Idle]
  /\ UNCHANGED <<now, credentials, history, accepted>>

-----------------------------------------------------------------------------
Begin == BeginDiscoverableLogin \/ \E b \in Builders : BeginRegistration(b) \/ BeginLogin(b)
Finish(r) ==
  \E c \in Challenges, p \in Passkeys :
    \/ \E b \in Builders : FinishRegistration(r, b, c, p) \/ FinishLogin(r, b, c, p)
    \/ \E k \in Challenges : FinishDiscoverableLogin(r, k, c, p)
Proceed(r) ==
  \/ Attest(r) \/ SaveCredential(r) \/ DuplicateCredential(r)
  \/ Validate(r) \/ UpdateCredentialSignCount(r) \/ CreateSession(r) \/ Rejected(r)
Fail(r) == Faults /\ (CountLost(r) \/ StatementFails(r))
Step(r) == Proceed(r) \/ Fail(r)

Next ==
  \/ Tick \/ cleanupExpiredSessions \/ Restart \/ Begin
  \/ \E k \in Keys : FinishRefused(k)
  \/ \E r \in Requests : Finish(r) \/ Step(r)

Spec == Init /\ [][Next]_vars

-----------------------------------------------------------------------------
(* Everything has its type; there are never more challenges, or signatures *)
(* of a passkey, than the bounds allow.                                    *)
TypeOK ==
  /\ now \in 0..MaxTime
  /\ sweepAt \in Nat
  /\ regSessions \in [Builders -> Ceremony \cup {NoCeremony}]
  /\ loginSessions \in [Keys -> Ceremony \cup {NoCeremony}]
  /\ credentials \in [Passkeys -> CredentialRow \cup {NoRow}]
  /\ counter \in [Passkeys -> Counts]
  /\ issued \in Seq(Purposes) /\ Len(issued) <= MaxChallenges
  /\ accepted \in Seq(Grants)
  /\ req \in [Requests -> Request \cup {Idle}]

(* A challenge is granted at most once, however many finish requests carry *)
(* an answer to it, at once or one after the other (handler/auth.go:316).  *)
ChallengeUsedOnce ==
  \A i, j \in DOMAIN accepted :
    accepted[i].challenge = accepted[j].challenge => i = j

(* What is granted is what the challenge was issued for: a passkey to the  *)
(* builder that began its registration, a session to the builder of the    *)
(* handle, or to whoever owns the passkey, and always to its owner         *)
(* (handler/auth.go:385-409, 341-367).                                     *)
GrantedAsIssued ==
  \A i \in DOMAIN accepted :
    LET g == accepted[i] IN
    /\ g.challenge \in DOMAIN issued
    /\ issued[g.challenge].kind = g.kind
    /\ issued[g.challenge].for \in {g.builder, NoBuilder}
    /\ credentials[g.passkey] # NoRow
    /\ credentials[g.passkey].owner = g.builder

(* No answer was accepted whose sign count is above the stored one, or the *)
(* next answer could repeat it: for logins of a passkey that do not overlap *)
(* (handler/auth.go:370, 409).                                             *)
CountCovers ==
  \A i \in DOMAIN accepted :
    credentials[accepted[i].passkey].count >= accepted[i].count

(* No ceremony can be finished later than its time to live and one period  *)
(* of the sweep after it began (handler/auth.go:117-133).                  *)
NoStaleCeremony ==
  /\ \A b \in Builders : regSessions[b] # NoCeremony =>
       now - regSessions[b].at <= Ttl + Period
  /\ \A k \in Keys : loginSessions[k] # NoCeremony =>
       now - loginSessions[k].at <= Ttl + Period

Entering(r) == ~Active(r) /\ req'[r].pc # "idle"

(* A login ceremony that is not too old only goes away because a request   *)
(* takes it, another begin of the same handle replaces it, or the server   *)
(* restarts.                                                               *)
NoEarlySweep ==
  [][\A k \in Keys :
       \/ loginSessions[k] = NoCeremony
       \/ loginSessions'[k] # NoCeremony
       \/ now - loginSessions[k].at > Ttl
       \/ \E r \in Requests : Entering(r) /\ req'[r].ceremony = loginSessions[k]
       \/ FinishRefused(k)
       \/ Restart]_vars

(* The maps and the requests implement a store of one-time challenges: a   *)
(* challenge is open while it is in a map or in the hands of a request.    *)
InMaps == {regSessions[b].challenge : b \in {x \in Builders : regSessions[x] # NoCeremony}}
          \cup {loginSessions[k].challenge : k \in {x \in Keys : loginSessions[x] # NoCeremony}}
InHand == {req[r].ceremony.challenge : r \in {s \in Requests : Active(s)}}

Abstract == INSTANCE OneTimeChallenges
  WITH last <- Len(issued), open <- InMaps \cup InHand,
       used <- [i \in DOMAIN accepted |-> accepted[i].challenge]
OneTime == Abstract!Spec
=============================================================================
