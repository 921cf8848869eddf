--------------------------- MODULE AccountsProofs ---------------------------
(***************************************************************************)
(* Theorems about Accounts, for every set of requests, codes, accounts and *)
(* handles, every bound, with and without faults.                          *)
(*                                                                         *)
(* The argument: tables only grow (Grows), so what a request learned from  *)
(* a row stays true; and a request only carries an id it learned from the  *)
(* row it inserted or the connection it read (Sound).  In the serial       *)
(* behaviours of MCAccounts, whoever is about to insert for a code or an   *)
(* account is alone with it.                                               *)
(***************************************************************************)
EXTENDS MCAccounts, TLAPS

USE BoundAssumption, HandleAssumption, OriginAssumption

(* The shape of the state, without what relates its parts. *)
Shapes ==
  /\ builders \in Seq(BuilderRow) /\ Len(builders) <= MaxBuilders
  /\ usedBy \in [Codes -> 0..MaxBuilders]
  /\ connections \in [Accounts -> Connection \cup {NoConnection}]
  /\ sessions \subseteq [account : Accounts, builder : BuilderIds]
  /\ req \in [Requests -> Request \cup {Idle}]

(* The builder a request carries is the one its code or account made, or   *)
(* the one its account is connected to.                                    *)
Sound(q) ==
  /\ q.pc \in {"mark", "connect"} =>
       q.builder \in DOMAIN builders /\ builders[q.builder].by = q.by
  /\ q.pc \in {"refresh", "session"} =>
       connections[q.by] # NoConnection /\ connections[q.by].builder = q.builder

AllSound == \A r \in Requests : Sound(req[r])

Marks ==
  \A c \in Codes : usedBy[c] # 0 =>
    usedBy[c] \in DOMAIN builders /\ builders[usedBy[c]].by = c

IInv == Shapes /\ AllSound /\ NoTakeover /\ SignedInAsSelf /\ Marks

(* Nothing is deleted, and a connection keeps its builder. *)
Grows ==
  /\ \A i \in DOMAIN builders : i \in DOMAIN builders' /\ builders'[i] = builders[i]
  /\ \A a \in Accounts :
       connections[a] # NoConnection =>
         connections'[a] # NoConnection /\ connections'[a].builder = connections[a].builder

(* Every request but r is where it was. *)
OthersWait(r) == \A s \in Requests : s # r => req'[s] = req[s]

LEMMA RedeemType ==
  ASSUME Shapes, NEW r \in Requests, req[r].pc \in RedeemSteps
  PROVE  req[r] \in [pc : RedeemSteps, by : Codes, login : Written,
                     handle : Handles, builder : 0..MaxBuilders]
BY DEF Shapes, Request, Idle, RedeemSteps, GitHubSteps

LEMMA GitHubType ==
  ASSUME Shapes, NEW r \in Requests, req[r].pc \in GitHubSteps
  PROVE  req[r] \in [pc : GitHubSteps, by : Accounts, login : Logins,
                     handle : Handles, builder : 0..MaxBuilders]
BY DEF Shapes, Request, Idle, RedeemSteps, GitHubSteps

(* What the UPDATE of a connection does. *)
LEMMA RefreshFacts ==
  ASSUME Shapes, NEW r \in Requests, Refresh(r), connections[req[r].by] # NoConnection
  PROVE  /\ req[r].by \in Accounts
         /\ connections' \in [Accounts -> Connection \cup {NoConnection}]
         /\ connections'[req[r].by] # NoConnection
         /\ connections'[req[r].by].builder = connections[req[r].by].builder
<1> DEFINE a == req[r].by
           row == [connections[a] EXCEPT !.login = req[r].login]
<1>1. a \in Accounts /\ req[r].login \in Written
  BY GitHubType DEF Refresh, GitHubSteps
<1>2. connections[a] \in Connection
  BY <1>1 DEF Shapes
<1>3. row \in Connection /\ row.builder = connections[a].builder
  BY <1>1, <1>2 DEF Connection
<1>4. connections' = [connections EXCEPT ![a] = row]
  BY DEF Refresh
<1> HIDE DEF row
<1>5. QED BY <1>1, <1>3, <1>4 DEF Shapes

(* What the INSERT of a builder does. *)
LEMMA InsertFacts ==
  ASSUME Shapes, NEW r \in Requests, NEW next, Insert(r, next),
         req[r].pc \in {"insert", "create"}
  PROVE  /\ builders' \in Seq(BuilderRow) /\ Len(builders') = Len(builders) + 1
         /\ Len(builders') <= MaxBuilders
         /\ \A i \in DOMAIN builders : i \in DOMAIN builders' /\ builders'[i] = builders[i]
         /\ Len(builders) + 1 \in DOMAIN builders'
         /\ builders'[Len(builders) + 1] = [handle |-> req[r].handle, by |-> req[r].by]
<1>1. req[r].handle \in Handles /\ req[r].by \in Origins
  BY RedeemType, GitHubType DEF RedeemSteps, GitHubSteps, Origins
<1> DEFINE row == [handle |-> req[r].handle, by |-> req[r].by]
<1>2. row \in BuilderRow
  BY <1>1 DEF BuilderRow
<1>3. builders' = Append(builders, row) /\ Len(builders) < MaxBuilders
  BY DEF Insert
<1> HIDE DEF row
<1>4. builders \in Seq(BuilderRow) /\ Len(builders) \in Nat
  BY DEF Shapes
<1>5. /\ builders' \in Seq(BuilderRow) /\ Len(builders') = Len(builders) + 1
      /\ \A i \in 1..Len(builders) : builders'[i] = builders[i]
      /\ builders'[Len(builders) + 1] = row
      /\ DOMAIN builders = 1..Len(builders) /\ DOMAIN builders' = 1..(Len(builders) + 1)
  BY <1>2, <1>3, <1>4
<1>6. Len(builders') <= MaxBuilders
  BY <1>3, <1>4, <1>5
<1>7. QED BY <1>4, <1>5, <1>6 DEF row

-----------------------------------------------------------------------------
(* Every step lets the tables grow. *)
LEMMA StepGrows == Shapes /\ [Next]_vars => Grows
<1> SUFFICES ASSUME Shapes, [Next]_vars PROVE Grows
  OBVIOUS
<1>1. ASSUME UNCHANGED <<builders, connections>> PROVE Grows
  BY <1>1 DEF Grows
<1>2. CASE UNCHANGED vars
  BY <1>1, <1>2 DEF vars
<1>3. CASE Restart
  BY <1>1, <1>3 DEF Restart
<1>4. ASSUME NEW r \in Requests, Begin(r) \/ StatementFails(r) PROVE Grows
  BY <1>1, <1>4 DEF Begin, BeginRedeem, BeginGitHub, StatementFails
<1>5. ASSUME NEW r \in Requests, Step(r) PROVE Grows
  <2>1. CASE InsertBuilder(r) \/ InsertFromGitHub(r)
    BY <2>1, InsertFacts DEF InsertBuilder, InsertFromGitHub, Grows
  <2>2. CASE Refresh(r)
    <3>1. \A a \in Accounts : a # req[r].by => connections'[a] = connections[a]
      BY <2>2 DEF Refresh, Shapes
    <3>2. CASE connections[req[r].by] = NoConnection
      BY <2>2, <3>1, <3>2 DEF Refresh, Grows
    <3>3. CASE connections[req[r].by] # NoConnection
      BY <2>2, <3>1, <3>3, RefreshFacts DEF Refresh, Grows
    <3>4. QED BY <3>2, <3>3
  <2>3. CASE Connect(r)
    BY <2>3 DEF Connect, Shapes, Grows
  <2>4. CASE UNCHANGED <<builders, connections>>
    BY <1>1, <2>4
  <2>5. QED BY <1>5, <2>1, <2>2, <2>3, <2>4
            DEF Step, CodeUnused, CodeUsed, MarkUsed, CountHandle, HandleRefused,
                ConnectRefused, CreateSession
<1>6. QED BY <1>2, <1>3, <1>4, <1>5 DEF Next

-----------------------------------------------------------------------------
(* What a step does to the request it is about, and to the types.          *)

(* A request that goes on: its record changes in pc, handle and builder. *)
LEMMA RedeemGoesOn ==
  ASSUME Shapes, NEW r \in Requests, req[r].pc \in RedeemSteps,
         NEW pc \in RedeemSteps, NEW n \in 0..MaxBuilders,
         \/ req' = [req EXCEPT ![r].pc = pc, ![r].builder = n]
         \/ req' = [req EXCEPT ![r].pc = pc] /\ n = req[r].builder
  PROVE  /\ req' \in [Requests -> Request \cup {Idle}] /\ OthersWait(r)
         /\ req'[r].pc = pc /\ req'[r].builder = n /\ req'[r].by = req[r].by
<1> DEFINE q == [req[r] EXCEPT !.pc = pc, !.builder = n]
<1>1. req[r] \in [pc : RedeemSteps, by : Codes, login : Written,
                  handle : Handles, builder : 0..MaxBuilders]
  BY RedeemType
<1>2. /\ q \in [pc : RedeemSteps, by : Codes, login : Written,
                 handle : Handles, builder : 0..MaxBuilders]
      /\ q.pc = pc /\ q.builder = n /\ q.by = req[r].by
      /\ n = req[r].builder => q = [req[r] EXCEPT !.pc = pc]
  BY <1>1
<1>3. req' = [req EXCEPT ![r] = q]
  BY <1>2
<1> HIDE DEF q
<1>4. q \in Request
  BY <1>2 DEF Request
<1>5. QED BY <1>2, <1>3, <1>4 DEF Shapes, OthersWait

LEMMA GitHubGoesOn ==
  ASSUME Shapes, NEW r \in Requests, req[r].pc \in GitHubSteps,
         NEW pc \in GitHubSteps, NEW n \in 0..MaxBuilders, NEW h \in Handles,
         \/ req' = [req EXCEPT ![r].pc = pc, ![r].builder = n] /\ h = req[r].handle
         \/ req' = [req EXCEPT ![r].pc = pc, ![r].handle = h] /\ n = req[r].builder
         \/ req' = [req EXCEPT ![r].pc = pc] /\ n = req[r].builder /\ h = req[r].handle
  PROVE  /\ req' \in [Requests -> Request \cup {Idle}] /\ OthersWait(r)
         /\ req'[r].pc = pc /\ req'[r].builder = n /\ req'[r].by = req[r].by
<1> DEFINE q == [req[r] EXCEPT !.pc = pc, !.builder = n, !.handle = h]
<1>1. req[r] \in [pc : GitHubSteps, by : Accounts, login : Logins,
                  handle : Handles, builder : 0..MaxBuilders]
  BY GitHubType
<1>2. /\ q \in [pc : GitHubSteps, by : Accounts, login : Logins,
                 handle : Handles, builder : 0..MaxBuilders]
      /\ q.pc = pc /\ q.builder = n /\ q.by = req[r].by
      /\ h = req[r].handle => q = [req[r] EXCEPT !.pc = pc, !.builder = n]
      /\ n = req[r].builder => q = [req[r] EXCEPT !.pc = pc, !.handle = h]
      /\ n = req[r].builder /\ h = req[r].handle => q = [req[r] EXCEPT !.pc = pc]
  BY <1>1
<1>3. req' = [req EXCEPT ![r] = q]
  BY <1>2
<1> HIDE DEF q
<1>4. q \in Request
  BY <1>2 DEF Request
<1>5. QED BY <1>2, <1>3, <1>4 DEF Shapes, OthersWait

LEMMA AnswerFacts ==
  ASSUME Shapes, NEW r \in Requests, Answer(r)
  PROVE  req' \in [Requests -> Request \cup {Idle}] /\ OthersWait(r) /\ req'[r].pc = "idle"
BY DEF Shapes, Answer, Idle, OthersWait

(* A request that waits while the tables grow stays sound. *)
LEMMA StaysSound ==
  ASSUME Shapes, Grows, NEW s \in Requests, Sound(req[s]), req'[s] = req[s]
  PROVE  Sound(req[s])'
<1>1. req[s].pc \in {"refresh", "session"} => req[s].by \in Accounts
  BY GitHubType DEF GitHubSteps
<1>2. QED BY <1>1 DEF Sound, Grows

(* So all are sound after a step that leaves the request it moved sound. *)
LEMMA AllStaySound ==
  ASSUME Shapes, AllSound, Grows, NEW r \in Requests, OthersWait(r), Sound(req[r])'
  PROVE  AllSound'
BY StaysSound DEF AllSound, OthersWait

-----------------------------------------------------------------------------
(* The inductive invariant: first the types and the requests. *)

LEMMA BeginKeeps ==
  ASSUME IInv, NEW r \in Requests, Begin(r)
  PROVE  Shapes' /\ AllSound'
<1>1. Shapes /\ AllSound /\ Grows
  BY StepGrows DEF IInv, Next
<1>2. UNCHANGED <<builders, usedBy, connections, sessions>>
  BY DEF Begin, BeginRedeem, BeginGitHub
<1>3. ASSUME NEW q \in Request, req' = [req EXCEPT ![r] = q], Sound(q)
      PROVE  Shapes' /\ AllSound'
  <2>1. req' \in [Requests -> Request \cup {Idle}] /\ OthersWait(r) /\ req'[r] = q
    BY <1>1, <1>3 DEF Shapes, OthersWait
  <2>2. Sound(req[r])'
    BY <1>2, <1>3, <2>1 DEF Sound
  <2>3. QED BY <1>1, <1>2, <2>1, <2>2, AllStaySound DEF Shapes
<1>4. ASSUME NEW w \in Written, NEW c \in Codes, BeginRedeem(r, w, c)
      PROVE  Shapes' /\ AllSound'
  <2> DEFINE q == [pc |-> "check", by |-> c, login |-> w, handle |-> Lower[w], builder |-> 0]
  <2>1. q \in Request
    BY DEF Request, RedeemSteps
  <2>2. req' = [req EXCEPT ![r] = q]
    BY <1>4 DEF BeginRedeem, Start
  <2>3. Sound(q)
    BY DEF Sound
  <2>4. QED BY <1>3, <2>1, <2>2, <2>3
<1>5. ASSUME NEW a \in Accounts, NEW l \in Logins, BeginGitHub(r, a, l)
      PROVE  Shapes' /\ AllSound'
  <2>1. CASE connections[a] = NoConnection
    <3> DEFINE q == [pc |-> "count", by |-> a, login |-> l, handle |-> Lower[l], builder |-> 0]
    <3>1. q \in Request
      BY DEF Request, GitHubSteps
    <3>2. req' = [req EXCEPT ![r] = q]
      BY <1>5, <2>1 DEF BeginGitHub, Start
    <3>3. Sound(q)
      BY DEF Sound
    <3>4. QED BY <1>3, <3>1, <3>2, <3>3
  <2>2. CASE connections[a] # NoConnection
    <3> DEFINE q == [pc |-> "refresh", by |-> a, login |-> l, handle |-> Lower[l],
                     builder |-> connections[a].builder]
    <3>1. connections[a].builder \in 0..MaxBuilders
      BY <1>1, <2>2 DEF Shapes, Connection, BuilderIds
    <3>2. q \in Request
      BY <3>1 DEF Request, GitHubSteps
    <3>3. req' = [req EXCEPT ![r] = q]
      BY <1>5, <2>2 DEF BeginGitHub, Start
    <3>4. Sound(q)
      BY <2>2 DEF Sound
    <3>5. QED BY <1>3, <3>2, <3>3, <3>4
  <2>3. QED BY <2>1, <2>2
<1>6. QED BY <1>4, <1>5 DEF Begin

LEMMA StepKeeps ==
  ASSUME IInv, NEW r \in Requests, Step(r)
  PROVE  Shapes' /\ AllSound'
<1>1. Shapes /\ AllSound /\ Sound(req[r]) /\ Grows
  BY StepGrows DEF IInv, AllSound, Next
<1>2. ASSUME req' \in [Requests -> Request \cup {Idle}], OthersWait(r), Sound(req[r])',
             UNCHANGED <<builders, usedBy, connections, sessions>>
      PROVE  Shapes' /\ AllSound'
  BY <1>1, <1>2, AllStaySound DEF Shapes
<1>3. CASE CodeUnused(r)
  <2>1. /\ req' \in [Requests -> Request \cup {Idle}] /\ OthersWait(r)
        /\ req'[r].pc = "insert"
    <3>1. req[r].builder \in 0..MaxBuilders /\ req[r].pc \in RedeemSteps
      BY <1>1, <1>3, RedeemType DEF CodeUnused, RedeemSteps
    <3>2. req' = [req EXCEPT ![r].pc = "insert"]
      BY <1>3 DEF CodeUnused, Goto
    <3>3. QED BY <1>1, <3>1, <3>2, RedeemGoesOn DEF RedeemSteps
  <2>2. QED BY <1>2, <1>3, <2>1 DEF CodeUnused, Sound
<1>4. CASE CodeUsed(r) \/ HandleRefused(r) \/ ConnectRefused(r)
  <2>1. Answer(r) /\ UNCHANGED <<builders, usedBy, connections, sessions>>
    BY <1>4 DEF CodeUsed, HandleRefused, ConnectRefused
  <2>2. QED BY <1>1, <1>2, <2>1, AnswerFacts DEF Sound
<1>5. CASE InsertBuilder(r)
  <2>1. req[r].pc \in RedeemSteps /\ Len(builders) + 1 \in 0..MaxBuilders
    BY <1>1, <1>5 DEF InsertBuilder, Insert, RedeemSteps, Shapes
  <2> DEFINE n == Len(builders) + 1
  <2>2. req' = [req EXCEPT ![r].pc = "mark", ![r].builder = n] /\ n \in 0..MaxBuilders
    BY <1>5, <2>1 DEF InsertBuilder, Insert
  <2>3. /\ req' \in [Requests -> Request \cup {Idle}] /\ OthersWait(r)
        /\ req'[r].pc = "mark" /\ req'[r].builder = n /\ req'[r].by = req[r].by
    <3> HIDE DEF n
    <3>1. "mark" \in RedeemSteps
      BY DEF RedeemSteps
    <3>2. QED BY <1>1, <2>1, <2>2, <3>1, RedeemGoesOn
  <2>4. Insert(r, "mark") /\ req[r].pc \in {"insert", "create"}
    BY <1>5 DEF InsertBuilder
  <2>5. Sound(req[r])'
    <3>1. n \in DOMAIN builders' /\ builders'[n] = [handle |-> req[r].handle, by |-> req[r].by]
      BY <1>1, <2>4, InsertFacts
    <3> HIDE DEF n
    <3>2. builders'[n].by = req[r].by
      BY <3>1
    <3>3. QED BY <2>3, <3>1, <3>2 DEF Sound
  <2>6. Shapes'
    BY <1>1, <1>5, <2>3, <2>4, InsertFacts DEF Shapes, InsertBuilder
  <2>7. QED BY <1>1, <2>3, <2>5, <2>6, AllStaySound
<1>6. CASE MarkUsed(r)
  <2>1. req[r].by \in Codes /\ req[r].builder \in 0..MaxBuilders
    BY <1>1, <1>6, RedeemType DEF MarkUsed, RedeemSteps
  <2>2. Shapes' /\ OthersWait(r) /\ req'[r].pc = "idle"
    BY <1>1, <1>6, <2>1, AnswerFacts DEF MarkUsed, Shapes
  <2>3. Sound(req[r])'
    BY <2>2 DEF Sound
  <2>4. QED BY <1>1, <2>2, <2>3, AllStaySound
<1>7. CASE Refresh(r)
  <2>1. /\ req[r].pc \in GitHubSteps /\ connections[req[r].by] # NoConnection
        /\ connections[req[r].by].builder = req[r].builder
        /\ req[r].builder \in 0..MaxBuilders /\ req[r].handle \in Handles
    BY <1>1, <1>7, GitHubType DEF Refresh, Sound, GitHubSteps
  <2>2. req' = [req EXCEPT ![r].pc = "session"]
    BY <1>7 DEF Refresh, Goto
  <2>3. /\ req' \in [Requests -> Request \cup {Idle}] /\ OthersWait(r)
        /\ req'[r].pc = "session" /\ req'[r].builder = req[r].builder
        /\ req'[r].by = req[r].by
    BY <1>1, <2>1, <2>2, GitHubGoesOn DEF GitHubSteps
  <2>4. Shapes'
    BY <1>1, <1>7, <2>1, <2>3, RefreshFacts DEF Shapes, Refresh
  <2>5. Sound(req[r])'
    BY <1>1, <1>7, <2>1, <2>3, RefreshFacts DEF Sound
  <2>6. QED BY <1>1, <2>3, <2>4, <2>5, AllStaySound
<1>8. CASE CountHandle(r)
  <2>1. /\ req[r].pc \in GitHubSteps /\ req[r].handle \in Handles
        /\ req[r].builder \in 0..MaxBuilders
    BY <1>1, <1>8, GitHubType DEF CountHandle, GitHubSteps
  <2>2. PICK h \in Handles : req' = [req EXCEPT ![r].pc = "create", ![r].handle = h]
    BY <1>8, <2>1 DEF CountHandle
  <2>3. /\ req' \in [Requests -> Request \cup {Idle}] /\ OthersWait(r)
        /\ req'[r].pc = "create"
    BY <1>1, <2>1, <2>2, GitHubGoesOn DEF GitHubSteps
  <2>4. QED BY <1>2, <1>8, <2>3 DEF CountHandle, Sound
<1>9. CASE InsertFromGitHub(r)
  <2>1. /\ req[r].pc \in GitHubSteps /\ Len(builders) + 1 \in 0..MaxBuilders
        /\ req[r].handle \in Handles
    BY <1>1, <1>9, GitHubType DEF InsertFromGitHub, Insert, GitHubSteps, Shapes
  <2> DEFINE n == Len(builders) + 1
  <2>2. req' = [req EXCEPT ![r].pc = "connect", ![r].builder = n] /\ n \in 0..MaxBuilders
    BY <1>9, <2>1 DEF InsertFromGitHub, Insert
  <2>3. /\ req' \in [Requests -> Request \cup {Idle}] /\ OthersWait(r)
        /\ req'[r].pc = "connect" /\ req'[r].builder = n /\ req'[r].by = req[r].by
    <3> HIDE DEF n
    <3>1. "connect" \in GitHubSteps
      BY DEF GitHubSteps
    <3>2. QED BY <1>1, <2>1, <2>2, <3>1, GitHubGoesOn
  <2>4. Insert(r, "connect") /\ req[r].pc \in {"insert", "create"}
    BY <1>9 DEF InsertFromGitHub
  <2>5. Sound(req[r])'
    <3>1. n \in DOMAIN builders' /\ builders'[n] = [handle |-> req[r].handle, by |-> req[r].by]
      BY <1>1, <2>4, InsertFacts
    <3> HIDE DEF n
    <3>2. builders'[n].by = req[r].by
      BY <3>1
    <3>3. QED BY <2>3, <3>1, <3>2 DEF Sound
  <2>6. Shapes'
    BY <1>1, <1>9, <2>3, <2>4, InsertFacts DEF Shapes, InsertFromGitHub
  <2>7. QED BY <1>1, <2>3, <2>5, <2>6, AllStaySound
<1>10. CASE Connect(r)
  <2>1. /\ req[r].pc \in GitHubSteps /\ req[r].by \in Accounts /\ req[r].login \in Written
        /\ req[r].handle \in Handles /\ req[r].builder \in 0..MaxBuilders
    BY <1>1, <1>10, GitHubType DEF Connect, GitHubSteps
  <2>2. req[r].builder \in BuilderIds
    BY <1>1, <1>10 DEF Connect, Sound, Shapes, BuilderIds
  <2>3. req' = [req EXCEPT ![r].pc = "session"]
    BY <1>10 DEF Connect, Goto
  <2>4. /\ req' \in [Requests -> Request \cup {Idle}] /\ OthersWait(r)
        /\ req'[r].pc = "session" /\ req'[r].builder = req[r].builder
        /\ req'[r].by = req[r].by
    BY <1>1, <2>1, <2>3, GitHubGoesOn DEF GitHubSteps
  <2> DEFINE row == [builder |-> req[r].builder, login |-> req[r].login]
  <2>5. row \in Connection /\ row.builder = req[r].builder /\ row # NoConnection
    BY <2>1, <2>2 DEF Connection
  <2>6. connections' = [connections EXCEPT ![req[r].by] = row]
    BY <1>10 DEF Connect
  <2> HIDE DEF row
  <2>7. Sound(req[r])'
    BY <1>1, <2>1, <2>4, <2>5, <2>6 DEF Sound, Shapes
  <2>8. Shapes'
    BY <1>1, <1>10, <2>1, <2>4, <2>5, <2>6 DEF Shapes, Connect
  <2>9. QED BY <1>1, <2>4, <2>7, <2>8, AllStaySound
<1>11. CASE CreateSession(r)
  <2>1. req[r].by \in Accounts /\ req[r].builder \in BuilderIds
    BY <1>1, <1>11, GitHubType DEF CreateSession, Sound, Shapes, Connection, GitHubSteps
  <2>2. Shapes' /\ OthersWait(r) /\ req'[r].pc = "idle"
    BY <1>1, <1>11, <2>1, AnswerFacts DEF CreateSession, Shapes
  <2>3. Sound(req[r])'
    BY <2>2 DEF Sound
  <2>4. QED BY <1>1, <2>2, <2>3, AllStaySound
<1>12. QED BY <1>3, <1>4, <1>5, <1>6, <1>7, <1>8, <1>9, <1>10, <1>11 DEF Step

-----------------------------------------------------------------------------
(* The rest of the invariant: a new mark, connection or session comes from *)
(* a request, and that request was sound.                                  *)
NewMarks ==
  \A c \in Codes : usedBy'[c] # usedBy[c] =>
    \E r \in Requests : req[r].pc = "mark" /\ req[r].by = c /\ usedBy'[c] = req[r].builder
NewConnections ==
  \A a \in Accounts : connections[a] = NoConnection /\ connections'[a] # NoConnection =>
    \E r \in Requests : /\ req[r].pc = "connect" /\ req[r].by = a
                       /\ connections'[a].builder = req[r].builder
NewSessions ==
  \A s \in sessions' : s \notin sessions =>
    \E r \in Requests : /\ req[r].pc = "session"
                       /\ s.account = req[r].by /\ s.builder = req[r].builder

LEMMA RowsComeFromRequests ==
  ASSUME IInv, [Next]_vars
  PROVE  NewMarks /\ NewConnections /\ NewSessions
<1>1. ASSUME UNCHANGED usedBy PROVE NewMarks
  BY <1>1 DEF NewMarks
<1>2. ASSUME UNCHANGED connections PROVE NewConnections
  BY <1>2 DEF NewConnections
<1>3. ASSUME UNCHANGED sessions PROVE NewSessions
  BY <1>3 DEF NewSessions
<1>4. CASE UNCHANGED <<usedBy, connections, sessions>>
  BY <1>1, <1>2, <1>3, <1>4
<1>5. ASSUME NEW r \in Requests, MarkUsed(r)
      PROVE  NewMarks /\ NewConnections /\ NewSessions
  <2>1. NewMarks
    BY <1>5 DEF MarkUsed, NewMarks, IInv, Shapes
  <2>2. QED BY <1>2, <1>3, <1>5, <2>1 DEF MarkUsed
<1>6. ASSUME NEW r \in Requests, Refresh(r)
      PROVE  NewMarks /\ NewConnections /\ NewSessions
  <2>1. connections[req[r].by] # NoConnection
    BY <1>6 DEF IInv, AllSound, Sound, Refresh
  <2>2. NewConnections
    BY <1>6, <2>1 DEF Refresh, NewConnections, IInv, Shapes
  <2>3. QED BY <1>1, <1>3, <1>6, <2>2 DEF Refresh
<1>7. ASSUME NEW r \in Requests, Connect(r)
      PROVE  NewMarks /\ NewConnections /\ NewSessions
  <2>1. NewConnections
    BY <1>7 DEF Connect, NewConnections, IInv, Shapes
  <2>2. QED BY <1>1, <1>3, <1>7, <2>1 DEF Connect
<1>8. ASSUME NEW r \in Requests, CreateSession(r)
      PROVE  NewMarks /\ NewConnections /\ NewSessions
  <2>1. NewSessions
    BY <1>8 DEF CreateSession, NewSessions
  <2>2. QED BY <1>1, <1>2, <1>8, <2>1 DEF CreateSession
<1>9. ASSUME NEW r \in Requests, Begin(r) \/ StatementFails(r)
      PROVE  UNCHANGED <<usedBy, connections, sessions>>
  BY <1>9 DEF Begin, BeginRedeem, BeginGitHub, StatementFails
<1>10. ASSUME NEW r \in Requests,
              \/ CodeUnused(r) \/ CodeUsed(r) \/ InsertBuilder(r) \/ CountHandle(r)
              \/ InsertFromGitHub(r) \/ HandleRefused(r) \/ ConnectRefused(r)
       PROVE  UNCHANGED <<usedBy, connections, sessions>>
  BY <1>10 DEF CodeUnused, CodeUsed, InsertBuilder, CountHandle, InsertFromGitHub,
               HandleRefused, ConnectRefused
<1>11. QED BY <1>4, <1>5, <1>6, <1>7, <1>8, <1>9, <1>10 DEF Next, Step, Restart, vars

LEMMA NextKeeps == IInv /\ [Next]_vars => IInv'
<1> SUFFICES ASSUME IInv, [Next]_vars PROVE IInv'
  OBVIOUS
<1>1. Shapes' /\ AllSound'
  <2>1. CASE UNCHANGED vars
    BY <2>1 DEF IInv, Shapes, AllSound, Sound, vars
  <2>2. CASE Restart
    BY <2>2 DEF IInv, Shapes, AllSound, Sound, Restart, Idle
  <2>3. ASSUME NEW r \in Requests, StatementFails(r) PROVE Shapes' /\ AllSound'
    <3>1. Shapes /\ AllSound /\ Grows
      BY StepGrows DEF IInv
    <3>2. /\ Shapes' /\ OthersWait(r) /\ req'[r].pc = "idle"
      BY <2>3, <3>1, AnswerFacts DEF StatementFails, Shapes
    <3>3. QED BY <3>1, <3>2, AllStaySound DEF Sound
  <2>4. QED BY <2>1, <2>2, <2>3, BeginKeeps, StepKeeps DEF Next
<1>2. Shapes /\ AllSound /\ Grows /\ NewMarks /\ NewConnections /\ NewSessions
  BY StepGrows, RowsComeFromRequests DEF IInv
<1>3. NoTakeover'
  <2> SUFFICES ASSUME NEW a \in Accounts, connections'[a] # NoConnection
               PROVE  /\ connections'[a].builder \in DOMAIN builders'
                      /\ builders'[connections'[a].builder].by = a
    BY DEF NoTakeover
  <2>1. CASE connections[a] # NoConnection
    BY <1>2, <2>1 DEF IInv, NoTakeover, Grows
  <2>2. CASE connections[a] = NoConnection
    BY <1>2, <2>2 DEF NewConnections, AllSound, Sound, Grows
  <2>3. QED BY <2>1, <2>2
<1>4. SignedInAsSelf'
  <2> SUFFICES ASSUME NEW s \in sessions'
               PROVE  /\ connections'[s.account] # NoConnection
                      /\ connections'[s.account].builder = s.builder
    BY DEF SignedInAsSelf
  <2>1. s.account \in Accounts
    BY <1>1 DEF Shapes
  <2>2. CASE s \in sessions
    BY <1>2, <2>1, <2>2 DEF IInv, SignedInAsSelf, Grows
  <2>3. CASE s \notin sessions
    BY <1>2, <2>1, <2>3 DEF NewSessions, AllSound, Sound, Grows
  <2>4. QED BY <2>2, <2>3
<1>5. Marks'
  <2> SUFFICES ASSUME NEW c \in Codes, usedBy'[c] # 0
               PROVE  usedBy'[c] \in DOMAIN builders' /\ builders'[usedBy'[c]].by = c
    BY DEF Marks
  <2>1. CASE usedBy'[c] = usedBy[c]
    BY <1>2, <2>1 DEF IInv, Marks, Grows
  <2>2. CASE usedBy'[c] # usedBy[c]
    BY <1>2, <2>2 DEF NewMarks, AllSound, Sound, Grows
  <2>3. QED BY <2>1, <2>2
<1>6. QED BY <1>1, <1>3, <1>4, <1>5 DEF IInv

LEMMA InvHolds == Spec => []IInv
<1>1. Init => IInv
  BY DEF Init, IInv, Shapes, AllSound, Sound, NoTakeover, SignedInAsSelf, Marks, Idle
<1>2. QED BY <1>1, NextKeeps, PTL DEF Spec

-----------------------------------------------------------------------------
(* The type invariant. *)
THEOREM TypeCorrect == Spec => []TypeOK
<1>1. IInv => TypeOK
  <2> SUFFICES ASSUME IInv PROVE TypeOK
    OBVIOUS
  <2>1. Shapes /\ AllSound
    BY DEF IInv
  <2>2. usedBy \in [Codes -> 0..Len(builders)]
    BY <2>1 DEF IInv, Marks, Shapes
  <2>3. \A s \in sessions : s.builder \in DOMAIN builders
    BY <2>1 DEF IInv, SignedInAsSelf, NoTakeover, Shapes
  <2>4. sessions \subseteq [account : Accounts, builder : DOMAIN builders]
    BY <2>1, <2>3 DEF Shapes
  <2>5. QED BY <2>1, <2>2, <2>4 DEF TypeOK, Shapes, AllSound, Sound
<1>2. QED BY <1>1, InvHolds, PTL

(* A GitHub account only ever gets the builder that was made for it. *)
THEOREM NobodyIsTakenOver == Spec => []NoTakeover
BY InvHolds, PTL DEF IInv

(* A session made by a GitHub sign-in is one of the account's own builder. *)
THEOREM SessionsAreOwn == Spec => []SignedInAsSelf
BY InvHolds, PTL DEF IInv

(* A code marked as used names a builder that redeemed it. *)
THEOREM MarksAreHonest == Spec => []CodeMarkHonest
<1>1. IInv => CodeMarkHonest
  BY DEF IInv, Marks, CodeMarkHonest
<1>2. QED BY <1>1, InvHolds, PTL

(* Once connected an account stays with its builder. *)
THEOREM ConnectionsStay == Spec => IdentityStable
<1>1. IInv /\ [Next]_vars => Grows
  BY StepGrows DEF IInv
<1>2. IInv /\ [Next]_vars =>
        [\A a \in Accounts :
           connections[a] # NoConnection =>
             /\ connections'[a] # NoConnection
             /\ connections'[a].builder = connections[a].builder]_vars
  BY <1>1 DEF Grows
<1>3. QED BY <1>2, InvHolds, PTL DEF Spec, IdentityStable

-----------------------------------------------------------------------------
(* Serial behaviours.  A builder is settled when what it was made by names *)
(* it; until then the request that made it is about to say so.  And a      *)
(* request that makes a builder is the first of its origin.                *)
SettledRow(i) ==
  LET o == builders[i].by IN
  IF o \in Codes THEN usedBy[o] # 0
  ELSE connections[o] # NoConnection /\ connections[o].builder = i
Pending(r, i) == req[r].pc \in {"mark", "connect"} /\ req[r].builder = i
First(q) ==
  /\ q.pc \in {"insert", "mark"} => usedBy[q.by] = 0
  /\ q.pc \in {"count", "create", "connect"} => connections[q.by] = NoConnection
OneMade == \A i, j \in DOMAIN builders : builders[i].by = builders[j].by => i = j

SerialInv ==
  /\ IInv /\ OnePerOrigin /\ OneMade
  /\ \A r \in Requests : First(req[r])
  /\ \A i \in DOMAIN builders : SettledRow(i) \/ \E r \in Requests : Pending(r, i)

(* A step of one request, of whose origin there is no other request. *)
LEMMA OneOriginStep ==
  ASSUME SerialInv, IInv', OnePerOrigin', OneMade', Grows, NEW r \in Requests, OthersWait(r),
         \A c \in Codes : usedBy'[c] # usedBy[c] =>
           Active(r) /\ req[r].by = c /\ usedBy'[c] # 0,
         \A a \in Accounts : connections[a] = NoConnection /\ connections'[a] # NoConnection =>
           Active(r) /\ req[r].by = a,
         First(req[r])',
         \A i \in DOMAIN builders' : i \in DOMAIN builders \/ Pending(r, i)',
         \A i \in DOMAIN builders : Pending(r, i) => SettledRow(i)' \/ Pending(r, i)'
  PROVE  SerialInv'
<1>1. ASSUME NEW s \in Requests, s # r PROVE First(req[s])'
  <2>1. req'[s] = req[s] /\ First(req[s])
    BY <1>1 DEF SerialInv, OthersWait
  <2>2. req[s].pc \in RedeemSteps => req[s].by \in Codes
    BY RedeemType DEF SerialInv, IInv
  <2>3. req[s].pc \in GitHubSteps => req[s].by \in Accounts
    BY GitHubType DEF SerialInv, IInv
  <2>4. Active(s) /\ Active(r) => req[s].by # req[r].by
    BY <1>1 DEF SerialInv, OnePerOrigin
  <2>5. QED BY <2>1, <2>2, <2>3, <2>4 DEF First, Active, RedeemSteps, GitHubSteps
<1>2. ASSUME NEW i \in DOMAIN builders, SettledRow(i) PROVE SettledRow(i)'
  <2>1. builders'[i] = builders[i]
    BY DEF Grows
  <2>2. builders[i] \in BuilderRow
    BY DEF SerialInv, IInv, Shapes
  <2>3. builders[i].by \in Codes \cup Accounts
    BY <2>2 DEF BuilderRow, Origins
  <2>4. QED BY <1>2, <2>1, <2>3 DEF SettledRow, Grows
<1>3. ASSUME NEW i \in DOMAIN builders' PROVE SettledRow(i)' \/ \E s \in Requests : Pending(s, i)'
  <2>1. ASSUME NEW s \in Requests, s # r, Pending(s, i) PROVE Pending(s, i)'
    BY <2>1 DEF OthersWait, Pending
  <2>2. QED BY <1>2, <2>1 DEF SerialInv
<1>4. QED BY <1>1, <1>3 DEF SerialInv

LEMMA BeginSerial ==
  ASSUME SerialInv, IInv', OnePerOrigin', NEW r \in Requests, Begin(r)
  PROVE  SerialInv'
<1>1. Grows /\ ~Active(r) /\ UNCHANGED <<builders, usedBy, connections>>
  BY StepGrows DEF SerialInv, IInv, Next, Begin, BeginRedeem, BeginGitHub
<1>2. OthersWait(r) /\ First(req[r])'
  <2>1. ASSUME NEW w \in Written, NEW c \in Codes, BeginRedeem(r, w, c)
        PROVE  OthersWait(r) /\ First(req[r])'
    BY <2>1 DEF SerialInv, IInv, Shapes, BeginRedeem, Start, OthersWait, First
  <2>2. ASSUME NEW a \in Accounts, NEW l \in Logins, BeginGitHub(r, a, l)
        PROVE  OthersWait(r) /\ First(req[r])'
    BY <2>2 DEF SerialInv, IInv, Shapes, BeginGitHub, Start, OthersWait, First
  <2>3. QED BY <2>1, <2>2 DEF Begin
<1>3. OneMade'
  BY <1>1 DEF SerialInv, OneMade
<1>4. \A i : ~Pending(r, i)
  BY <1>1 DEF Pending, Active
<1>5. QED BY <1>1, <1>2, <1>3, <1>4, OneOriginStep

(* The INSERT of a builder: there is none of its origin. *)
LEMMA InsertSerial ==
  ASSUME SerialInv, IInv', OnePerOrigin', NEW r \in Requests,
         InsertBuilder(r) \/ InsertFromGitHub(r)
  PROVE  SerialInv'
<1>1. Grows /\ UNCHANGED <<usedBy, connections>> /\ Shapes
  BY StepGrows DEF SerialInv, IInv, Next, Step, InsertBuilder, InsertFromGitHub
<1>2. PICK next \in {"mark", "connect"} :
        /\ Insert(r, next) /\ req[r].pc \in {"insert", "create"}
        /\ (next = "mark" <=> req[r].pc = "insert")
  BY DEF InsertBuilder, InsertFromGitHub
<1>3. Len(builders) \in Nat /\ Len(builders) < MaxBuilders /\ DOMAIN builders = 1..Len(builders)
  BY <1>1, <1>2 DEF Shapes, Insert
<1>4. PICK n \in 0..MaxBuilders : n = Len(builders) + 1
  BY <1>3, BoundAssumption
<1>5. /\ DOMAIN builders' = 1..n /\ n \in DOMAIN builders'
      /\ \A i \in DOMAIN builders : builders'[i] = builders[i]
  <2>1. /\ builders' \in Seq(BuilderRow) /\ Len(builders') = Len(builders) + 1
        /\ \A i \in DOMAIN builders : builders'[i] = builders[i]
    BY <1>1, <1>2, InsertFacts
  <2>2. DOMAIN builders' = 1..Len(builders')
    BY <2>1
  <2>3. QED BY <1>3, <1>4, <2>1, <2>2
<1>6. builders'[n].by = req[r].by
  <2> DEFINE row == [handle |-> req[r].handle, by |-> req[r].by]
  <2>1. builders'[n] = row
    BY <1>1, <1>2, <1>4, InsertFacts
  <2>2. row.by = req[r].by
    OBVIOUS
  <2> HIDE DEF row
  <2>3. QED BY <2>1, <2>2
<1>7. OthersWait(r) /\ req'[r].pc = next /\ req'[r].builder = n /\ req'[r].by = req[r].by
  <2>1. req' = [req EXCEPT ![r].pc = next, ![r].builder = n]
    BY <1>2, <1>4 DEF Insert
  <2>2. CASE next = "mark"
    BY <1>1, <1>2, <2>1, <2>2, RedeemGoesOn DEF RedeemSteps
  <2>3. CASE next = "connect"
    <3>1. req[r].pc \in GitHubSteps /\ next \in GitHubSteps /\ req[r].handle \in Handles
      BY <1>1, <1>2, <2>3, GitHubType DEF GitHubSteps
    <3>2. req' = [req EXCEPT ![r].pc = "connect", ![r].builder = n] /\ "connect" \in GitHubSteps
      BY <2>1, <2>3 DEF GitHubSteps
    <3>3. /\ OthersWait(r) /\ req'[r].pc = "connect" /\ req'[r].builder = n
          /\ req'[r].by = req[r].by
      <4>1. Shapes /\ req[r].pc \in GitHubSteps /\ req[r].handle \in Handles
        BY <1>1, <3>1
      <4>2. "connect" \in GitHubSteps /\ n \in 0..MaxBuilders
        BY <3>2
      <4>3. req' = [req EXCEPT ![r].pc = "connect", ![r].builder = n]
        BY <3>2
      <4>4. /\ req' \in [Requests -> Request \cup {Idle}] /\ OthersWait(r)
            /\ req'[r].pc = "connect" /\ req'[r].builder = n /\ req'[r].by = req[r].by
        BY <4>1, <4>2, <4>3, GitHubGoesOn
      <4>5. QED BY <4>4
    <3>4. QED BY <2>3, <3>3
  <2>4. QED BY <1>2, <2>2, <2>3
<1>8. First(req[r]) /\ Active(r)
  BY <1>2 DEF SerialInv, Active
<1>9. \A i \in DOMAIN builders : builders[i].by # req[r].by
  <2> SUFFICES ASSUME NEW i \in DOMAIN builders, builders[i].by = req[r].by PROVE FALSE
    OBVIOUS
  <2>1. /\ req[r].pc = "insert" => req[r].by \in Codes
        /\ req[r].pc = "create" => req[r].by \in Accounts
    BY <1>1, RedeemType, GitHubType DEF RedeemSteps, GitHubSteps
  <2>2. ~SettledRow(i)
    BY <1>2, <1>8, <2>1, OriginAssumption DEF SettledRow, First
  <2>3. PICK s \in Requests : Pending(s, i)
    BY <2>2 DEF SerialInv
  <2>4. Active(s) /\ req[s].by = req[r].by
    BY <2>3 DEF SerialInv, IInv, AllSound, Sound, Pending, Active
  <2>5. s = r
    BY <1>8, <2>4 DEF SerialInv, OnePerOrigin
  <2>6. QED BY <1>2, <2>3, <2>5 DEF Pending
<1>10. OneMade'
  <2>1. \A i \in DOMAIN builders' : i \in DOMAIN builders \/ i = n
    BY <1>3, <1>4, <1>5
  <2>2. QED BY <1>5, <1>6, <1>9, <2>1 DEF SerialInv, OneMade
<1>11. First(req[r])'
  BY <1>1, <1>2, <1>7, <1>8 DEF First
<1>12. Pending(r, n)' /\ \A i : ~Pending(r, i)
  BY <1>2, <1>7 DEF Pending
<1>13. \A i \in DOMAIN builders' : i \in DOMAIN builders \/ Pending(r, i)'
  BY <1>3, <1>4, <1>5, <1>12
<1>14. QED BY <1>1, <1>7, <1>8, <1>10, <1>11, <1>12, <1>13, OneOriginStep

LEMMA StepSerial ==
  ASSUME SerialInv, IInv', OnePerOrigin', NEW r \in Requests, Step(r)
  PROVE  SerialInv'
<1>1. Shapes /\ Sound(req[r]) /\ First(req[r]) /\ Grows
  BY StepGrows DEF SerialInv, IInv, AllSound, Next
<1>2. ASSUME builders' = builders PROVE OneMade'
  BY <1>2 DEF SerialInv, OneMade
<1>3. ASSUME Answer(r) PROVE OthersWait(r) /\ First(req[r])'
  BY <1>1, <1>3, AnswerFacts DEF First
<1>4. CASE CodeUsed(r) \/ HandleRefused(r) \/ ConnectRefused(r) \/ CreateSession(r)
  <2>1. Answer(r) /\ UNCHANGED <<builders, usedBy, connections>>
    BY <1>4 DEF CodeUsed, HandleRefused, ConnectRefused, CreateSession
  <2>2. req[r].pc \notin {"mark", "connect"}
    BY <1>1, <1>4 DEF First, CodeUsed, HandleRefused, ConnectRefused, CreateSession
  <2>3. \A i : ~Pending(r, i)
    BY <2>2 DEF Pending
  <2>4. QED BY <1>1, <1>2, <1>3, <2>1, <2>3, OneOriginStep
<1>5. CASE CodeUnused(r)
  <2>1. /\ req' = [req EXCEPT ![r].pc = "insert"] /\ UNCHANGED <<builders, usedBy, connections>>
        /\ req[r].pc = "check" /\ usedBy[req[r].by] = 0 /\ req[r].builder \in 0..MaxBuilders
    BY <1>1, <1>5, RedeemType DEF CodeUnused, Goto, RedeemSteps
  <2>2. OthersWait(r) /\ req'[r].pc = "insert" /\ req'[r].by = req[r].by
    BY <1>1, <2>1, RedeemGoesOn DEF RedeemSteps
  <2>3. First(req[r])' /\ \A i : ~Pending(r, i)
    BY <2>1, <2>2 DEF First, Pending
  <2>4. QED BY <1>1, <1>2, <2>1, <2>2, <2>3, OneOriginStep
<1>6. CASE InsertBuilder(r) \/ InsertFromGitHub(r)
  BY <1>6, InsertSerial
<1>7. CASE MarkUsed(r)
  <2>1. /\ Active(r) /\ Answer(r) /\ UNCHANGED <<builders, connections>>
        /\ req[r].by \in Codes /\ req[r].pc = "mark"
    BY <1>1, <1>7, RedeemType DEF MarkUsed, Active, RedeemSteps
  <2>2. req[r].builder \in DOMAIN builders /\ builders[req[r].builder].by = req[r].by
        /\ req[r].builder # 0
    BY <1>1, <1>7 DEF MarkUsed, Sound, Shapes
  <2>3. /\ usedBy'[req[r].by] # 0
        /\ \A c \in Codes : c # req[r].by => usedBy'[c] = usedBy[c]
    BY <1>1, <1>7, <2>1, <2>2 DEF MarkUsed, Shapes
  <2>4. \A i : Pending(r, i) => SettledRow(i)'
    BY <2>1, <2>2, <2>3 DEF Pending, SettledRow
  <2>5. QED BY <1>1, <1>2, <1>3, <2>1, <2>3, <2>4, OneOriginStep
<1>8. CASE Refresh(r) \/ Connect(r)
  <2>1. /\ Active(r) /\ req[r].by \in Accounts /\ req[r].handle \in Handles
        /\ req[r].builder \in 0..MaxBuilders /\ req[r].pc \in {"refresh", "connect"}
        /\ req' = [req EXCEPT ![r].pc = "session"] /\ UNCHANGED <<builders, usedBy>>
    BY <1>1, <1>8, GitHubType DEF Refresh, Connect, Goto, Active, GitHubSteps
  <2>2. OthersWait(r) /\ req'[r].pc = "session" /\ req'[r].builder = req[r].builder
        /\ req'[r].by = req[r].by
    BY <1>1, <2>1, GitHubGoesOn DEF GitHubSteps
  <2>3. First(req[r])'
    BY <2>2 DEF First
  <2>4. \A a \in Accounts : a # req[r].by => connections'[a] = connections[a]
    BY <1>1, <1>8 DEF Refresh, Connect, Shapes
  <2>5. Sound(req[r])'
    BY DEF IInv, AllSound
  <2>6. /\ connections'[req[r].by] # NoConnection
        /\ connections'[req[r].by].builder = req[r].builder
    BY <2>2, <2>5 DEF Sound
  <2>7. \A i \in DOMAIN builders : Pending(r, i) => SettledRow(i)'
    BY <1>1, <2>1, <2>6 DEF Pending, SettledRow, Sound
  <2>8. QED BY <1>1, <1>2, <2>1, <2>2, <2>3, <2>4, <2>7, OneOriginStep
<1>9. CASE CountHandle(r)
  <2>1. PICK h \in Handles : req' = [req EXCEPT ![r].pc = "create", ![r].handle = h]
    BY <1>1, <1>9, GitHubType DEF CountHandle, GitHubSteps
  <2>2. /\ req[r].pc = "count" /\ req[r].builder \in 0..MaxBuilders
        /\ UNCHANGED <<builders, usedBy, connections>>
    BY <1>1, <1>9, GitHubType DEF CountHandle, GitHubSteps
  <2>3. OthersWait(r) /\ req'[r].pc = "create" /\ req'[r].by = req[r].by
    BY <1>1, <2>1, <2>2, GitHubGoesOn DEF GitHubSteps
  <2>4. First(req[r])' /\ \A i : ~Pending(r, i)
    BY <1>1, <2>2, <2>3 DEF First, Pending
  <2>5. QED BY <1>1, <1>2, <2>2, <2>3, <2>4, OneOriginStep
<1>10. QED BY <1>4, <1>5, <1>6, <1>7, <1>8, <1>9 DEF Step

LEMMA SerialStep == SerialInv /\ [SerialNext]_vars => SerialInv'
<1> SUFFICES ASSUME SerialInv, [SerialNext]_vars PROVE SerialInv'
  OBVIOUS
<1>1. IInv'
  BY NextKeeps DEF SerialInv, SerialNext, Next
<1>2. CASE UNCHANGED vars
  BY <1>1, <1>2 DEF SerialInv, OnePerOrigin, OneMade, First, SettledRow, Pending, Active, vars
<1>3. QED BY <1>1, <1>2, BeginSerial, StepSerial DEF SerialNext

LEMMA InitSerial == Init => SerialInv
<1>1. Init => IInv
  BY DEF Init, IInv, Shapes, AllSound, Sound, NoTakeover, SignedInAsSelf, Marks, Idle
<1>2. QED BY <1>1 DEF Init, SerialInv, OnePerOrigin, OneMade, First, Active, Idle

(* What a behaviour of MCAccounts keeps while it is a serial one. *)
LEMMA EitherKind == MCSpec => [](serial => SerialInv)
<1>1. MCInit => (serial => SerialInv)
  BY InitSerial DEF MCInit
<1>2. (serial => SerialInv) /\ [MCNext]_<<vars, serial>> => (serial => SerialInv)'
  BY SerialStep DEF MCNext
<1>3. QED BY <1>1, <1>2, PTL DEF MCSpec

(* A code makes one builder when its requests follow one another           *)
(* (store/builder.go:49-88).                                               *)
THEOREM SerialCodesOnce == MCSpec => []SerialCodes
<1>1. SerialInv => OneBuilderPerCode
  BY DEF SerialInv, OneMade, OneBuilderPerCode
<1>2. QED BY <1>1, EitherKind, PTL DEF SerialCodes

(* A builder made by a sign-in is connected to its account once that       *)
(* sign-in is over (store/auth.go:170-237).                                *)
THEOREM SerialNobodyStrays == MCSpec => []SerialNoStray
<1>1. ASSUME SerialInv PROVE NoStrayBuilder
  <2> SUFFICES ASSUME NEW i \in DOMAIN builders, builders[i].by \in Accounts, ~SettledRow(i)
               PROVE  \E r \in Requests : Active(r) /\ req[r].pc = "connect" /\ req[r].builder = i
    BY <1>1 DEF NoStrayBuilder, SettledRow
  <2>1. PICK r \in Requests : Pending(r, i)
    BY <1>1 DEF SerialInv
  <2>2. req[r].by = builders[i].by
    BY <1>1, <2>1 DEF SerialInv, IInv, AllSound, Sound, Pending
  <2>3. req[r].pc # "mark"
    BY <1>1, <2>2, RedeemType DEF SerialInv, IInv, RedeemSteps
  <2>4. QED BY <2>1, <2>3 DEF Pending, Active
<1>2. QED BY <1>1, EitherKind, PTL DEF SerialNoStray

(* And an account then makes one builder: what breaks "finds an existing   *)
(* builder or creates a new one" (store/auth.go:166) is overlap or failure. *)
THEOREM SerialAccountsOnce == Init /\ [][SerialNext]_vars => []OneBuilderPerAccount
<1>1. SerialInv => OneBuilderPerAccount
  BY DEF SerialInv, OneMade, OneBuilderPerAccount
<1>2. QED BY <1>1, InitSerial, SerialStep, PTL
=============================================================================
