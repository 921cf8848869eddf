------------------------------ MODULE Accounts ------------------------------
(***************************************************************************)
(* How builders come to be: by redeeming an invitation code, or by the     *)
(* first sign-in of a GitHub account.  Both are sequences of SQL           *)
(* statements without a transaction, so requests interleave between a      *)
(* check and the insert it was made for, and a failure or a restart leaves *)
(* the statements before it behind.                                        *)
(*                                                                         *)
(* A statement is one action; a request that its first statement refuses   *)
(* changes nothing and is not a step.  Of a builder's row the model keeps  *)
(* the handle and what it was created with; builders are never deleted, so *)
(* the table is a sequence and an id a position in it.                     *)
(***************************************************************************)
EXTENDS Integers, Sequences

CONSTANTS
  Requests,      \* the request slots of the server
  Codes,         \* table invitation_codes
  Accounts,      \* GitHub accounts, by their numeric id
  Handles,       \* handles, lower case
  Written,       \* handles as clients write them
  Logins,        \* those GitHub has as user names
  Lower,         \* strings.ToLower, and TrimSpace
  Suffixed,      \* what a random suffix can make of a handle
  NoConnection,  \* the account has no row in github_connections
  MaxBuilders,   \* bound on the builders ever inserted
  Faults         \* a statement may fail

BuilderIds == 1..MaxBuilders
Origins == Codes \cup Accounts
BuilderRow == [handle : Handles, by : Origins]
Connection == [builder : BuilderIds, login : Written]

ASSUME BoundAssumption == MaxBuilders \in Nat /\ Faults \in BOOLEAN
ASSUME HandleAssumption ==
  /\ Logins \subseteq Written
  /\ Lower \in [Written -> Handles]
  /\ Suffixed \in [Handles -> SUBSET Handles]
  /\ \A l \in Logins : Suffixed[Lower[l]] # {}
ASSUME OriginAssumption == Codes \cap Accounts = {} /\ NoConnection \notin Connection

VARIABLES
  builders,     \* table builders
  usedBy,       \* invitation_codes.used_by, 0 for NULL
  connections,  \* table github_connections
  sessions,     \* table sessions, with the account that signed in
  req           \* what each request is about to do

vars == <<builders, usedBy, connections, sessions, req>>

RedeemSteps == {"check", "insert", "mark"}
GitHubSteps == {"refresh", "count", "create", "connect", "session"}

Request == [pc : RedeemSteps, by : Codes, login : Written, handle : Handles,
            builder : 0..MaxBuilders]
           \cup [pc : GitHubSteps, by : Accounts, login : Logins, handle : Handles,
                 builder : 0..MaxBuilders]
Idle == [pc |-> "idle"]

Active(r) == req[r].pc # "idle"

Start(r, pc, by, login, id) ==
  req' = [req EXCEPT ![r] = [pc |-> pc, by |-> by, login |-> login,
                             handle |-> Lower[login], builder |-> id]]
Goto(r, pc) == req' = [req EXCEPT ![r].pc = pc]
Answer(r) == req' = [req EXCEPT ![r] = Idle]

Init ==
  /\ builders = << >>
  /\ usedBy = [c \in Codes |-> 0]
  /\ connections = [a \in Accounts |-> NoConnection]
  /\ sessions = {}
  /\ req = [r \in Requests |-> Idle]

-----------------------------------------------------------------------------
(* The constraint UNIQUE(handle), and what the handlers ask beforehand. *)
Taken(h) == \E i \in DOMAIN builders : builders[i].handle = h

(* INSERT INTO builders; the request goes on with LastInsertId. *)
Insert(r, next) ==
  /\ Len(builders) < MaxBuilders
  /\ ~Taken(req[r].handle)
  /\ builders' = Append(builders, [handle |-> req[r].handle, by |-> req[r].by])
  /\ req' = [req EXCEPT ![r].pc = next, ![r].builder = Len(builders) + 1]

(* POST /builders: the handle was free when GetByHandle asked. *)
BeginRedeem(r, w, c) ==
  /\ ~Active(r)
  /\ ~Taken(Lower[w])
  /\ Start(r, "check", c, w, 0)
  /\ UNCHANGED <<builders, usedBy, connections, sessions>>

(* Mutant: used codes are welcome. *)
AnyCode(r) ==
  /\ req[r].pc = "check"
  /\ Goto(r, "insert")
  /\ UNCHANGED <<builders, usedBy, connections, sessions>>

CodeUnused(r) ==
  /\ req[r].pc = "check"
  /\ usedBy[req[r].by] = 0
  /\ Goto(r, "insert")
  /\ UNCHANGED <<builders, usedBy, connections, sessions>>

(* "invitation code already used": 403. *)
CodeUsed(r) ==
  /\ req[r].pc = "check"
  /\ usedBy[req[r].by] # 0
  /\ Answer(r)
  /\ UNCHANGED <<builders, usedBy, connections, sessions>>

InsertBuilder(r) ==
  /\ req[r].pc = "insert"
  /\ Insert(r, "mark")
  /\ UNCHANGED <<usedBy, connections, sessions>>

(* Mutant: the code is given to the newest builder, MAX(id). *)
MarkNewest(r) ==
  /\ req[r].pc = "mark"
  /\ usedBy' = [usedBy EXCEPT ![req[r].by] = Len(builders)]
  /\ Answer(r)
  /\ UNCHANGED <<builders, connections, sessions>>

(* The code is marked; a second redeemer overwrites the first.  201. *)
MarkUsed(r) ==
  /\ req[r].pc = "mark"
  /\ usedBy' = [usedBy EXCEPT ![req[r].by] = req[r].builder]
  /\ Answer(r)
  /\ UNCHANGED <<builders, connections, sessions>>

-----------------------------------------------------------------------------
(* GET /auth/github/callback: GitHub said who is there, under which user   *)
(* name, and FindOrCreateBuilderByGitHub looks for the account.            *)
BeginGitHub(r, a, l) ==
  /\ ~Active(r)
  /\ IF connections[a] = NoConnection
       THEN Start(r, "count", a, l, 0)
       ELSE Start(r, "refresh", a, l, connections[a].builder)
  /\ UNCHANGED <<builders, usedBy, connections, sessions>>

(* UPDATE github_connections ... WHERE github_id; the avatar of the        *)
(* builder, if it has none, is not modelled.                               *)
Refresh(r) ==
  LET a == req[r].by IN
  /\ req[r].pc = "refresh"
  /\ connections' = [connections EXCEPT ![a].login = req[r].login]
  /\ Goto(r, "session")
  /\ UNCHANGED <<builders, usedBy, sessions>>

(* SELECT COUNT of the handle; an error counts as none.  A handle that is  *)
(* taken gets a random suffix, and the result is not looked up again.      *)
CountHandle(r) ==
  LET h == req[r].handle IN
  /\ req[r].pc = "count"
  /\ \E chosen \in (IF Taken(h) THEN Suffixed[h] ELSE {h}) \cup (IF Faults THEN {h} ELSE {}) :
       req' = [req EXCEPT ![r].pc = "create", ![r].handle = chosen]
  /\ UNCHANGED <<builders, usedBy, connections, sessions>>

(* Mutant: ON CONFLICT(handle) the builder that has it is taken. *)
AdoptHandle(r) ==
  /\ req[r].pc = "create"
  /\ \/ Insert(r, "connect")
     \/ \E i \in DOMAIN builders :
          /\ builders[i].handle = req[r].handle
          /\ req' = [req EXCEPT ![r].pc = "connect", ![r].builder = i]
          /\ UNCHANGED builders
  /\ UNCHANGED <<usedBy, connections, sessions>>

InsertFromGitHub(r) ==
  /\ req[r].pc = "create"
  /\ Insert(r, "connect")
  /\ UNCHANGED <<usedBy, connections, sessions>>

(* UNIQUE(handle) refuses the builder: 500. *)
HandleRefused(r) ==
  /\ req[r].pc \in {"insert", "create"}
  /\ Taken(req[r].handle)
  /\ Answer(r)
  /\ UNCHANGED <<builders, usedBy, connections, sessions>>

(* Mutant: INSERT OR REPLACE INTO github_connections. *)
Reconnect(r) ==
  /\ req[r].pc = "connect"
  /\ connections' = [connections EXCEPT ![req[r].by] =
                       [builder |-> req[r].builder, login |-> req[r].login]]
  /\ Goto(r, "session")
  /\ UNCHANGED <<builders, usedBy, sessions>>

(* Mutant: the connection is never written. *)
NoConnect(r) ==
  /\ req[r].pc = "connect"
  /\ connections[req[r].by] = NoConnection
  /\ Goto(r, "session")
  /\ UNCHANGED <<builders, usedBy, connections, sessions>>

Connect(r) ==
  LET a == req[r].by IN
  /\ req[r].pc = "connect"
  /\ connections[a] = NoConnection
  /\ connections' = [connections EXCEPT ![a] = [builder |-> req[r].builder,
                                                login |-> req[r].login]]
  /\ Goto(r, "session")
  /\ UNCHANGED <<builders, usedBy, sessions>>

(* Mutant: the error of the INSERT is dropped. *)
RefusalIgnored(r) ==
  /\ req[r].pc = "connect"
  /\ connections[req[r].by] # NoConnection
  /\ Goto(r, "session")
  /\ UNCHANGED <<builders, usedBy, connections, sessions>>

(* UNIQUE(github_id) refuses the connection: 500, the builder stays. *)
ConnectRefused(r) ==
  /\ req[r].pc = "connect"
  /\ connections[req[r].by] # NoConnection
  /\ Answer(r)
  /\ UNCHANGED <<builders, usedBy, connections, sessions>>

(* INSERT INTO sessions; the cookie and the redirect. *)
CreateSession(r) ==
  /\ req[r].pc = "session"
  /\ sessions' = sessions \cup {[account |-> req[r].by, builder |-> req[r].builder]}
  /\ Answer(r)
  /\ UNCHANGED <<builders, usedBy, connections>>

-----------------------------------------------------------------------------
(* A statement fails: 500, what was written before stays. *)
StatementFails(r) ==
  /\ Faults
  /\ Active(r)
  /\ Answer(r)
  /\ UNCHANGED <<builders, usedBy, connections, sessions>>

(* The process stops and starts again; the requests in flight are lost. *)
Restart ==
  /\ req' = [r \in Requests |-> Idle]
  /\ UNCHANGED <<builders, usedBy, connections, sessions>>

Begin(r) ==
  \/ \E w \in Written, c \in Codes : BeginRedeem(r, w, c)
  \/ \E a \in Accounts, l \in Logins : BeginGitHub(r, a, l)

Step(r) ==
  \/ CodeUnused(r) \/ CodeUsed(r) \/ InsertBuilder(r) \/ MarkUsed(r)
  \/ Refresh(r) \/ CountHandle(r) \/ InsertFromGitHub(r) \/ HandleRefused(r)
  \/ Connect(r) \/ ConnectRefused(r) \/ CreateSession(r)

Next ==
  \/ \E r \in Requests : Begin(r) \/ Step(r) \/ StatementFails(r)
  \/ Restart

Spec == Init /\ [][Next]_vars
-----------------------------------------------------------------------------
(* Types. *)
TypeOK ==
  /\ builders \in Seq(BuilderRow) /\ Len(builders) <= MaxBuilders
  /\ usedBy \in [Codes -> 0..Len(builders)]
  /\ connections \in [Accounts -> Connection \cup {NoConnection}]
  /\ sessions \subseteq [account : Accounts, builder : DOMAIN builders]
  /\ req \in [Requests -> Request \cup {Idle}]
  /\ \A r \in Requests :
       req[r].pc = "refresh" => connections[req[r].by] # NoConnection

(* A GitHub account is connected to a builder that was created for it,     *)
(* never to one that merely has its user name as handle.                   *)
NoTakeover ==
  \A a \in Accounts :
    connections[a] # NoConnection =>
      /\ connections[a].builder \in DOMAIN builders
      /\ builders[connections[a].builder].by = a

(* Whoever signs in with GitHub gets a session of the builder the account  *)
(* is connected to, whatever races its request met on the way.             *)
SignedInAsSelf ==
  \A s \in sessions :
    /\ connections[s.account] # NoConnection
    /\ connections[s.account].builder = s.builder

(* Once connected an account stays with its builder: no concurrent first   *)
(* sign-in, failure or restart moves it to another one.                    *)
IdentityStable ==
  [][\A a \in Accounts :
       connections[a] # NoConnection =>
         /\ connections'[a] # NoConnection
         /\ connections'[a].builder = connections[a].builder]_vars

(* A code that is marked as used names a builder that redeemed it, even    *)
(* when two requests redeem at the same time.                              *)
CodeMarkHonest ==
  \A c \in Codes : usedBy[c] # 0 => builders[usedBy[c]].by = c

(* "invitation code already used" (store/builder.go): a code makes at most *)
(* one builder.                                                            *)
OneBuilderPerCode ==
  \A i, j \in DOMAIN builders :
    builders[i].by = builders[j].by /\ builders[i].by \in Codes => i = j

(* "finds an existing builder by GitHub ID or creates a new one"           *)
(* (store/auth.go): an account makes at most one builder.                  *)
OneBuilderPerAccount ==
  \A i, j \in DOMAIN builders :
    builders[i].by = builders[j].by /\ builders[i].by \in Accounts => i = j

(* A builder created by GitHub whose creating request is over can be       *)
(* signed in to: its account is connected to it.                           *)
NoStrayBuilder ==
  \A i \in DOMAIN builders :
    builders[i].by \in Accounts =>
      \/ \E r \in Requests : Active(r) /\ req[r].pc = "connect" /\ req[r].builder = i
      \/ /\ connections[builders[i].by] # NoConnection
         /\ connections[builders[i].by].builder = i
=============================================================================
