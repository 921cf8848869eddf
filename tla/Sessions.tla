------------------------------ MODULE Sessions ------------------------------
(***************************************************************************)
(* Sessions: a sign-in inserts a row and sets a cookie with its id; every  *)
(* request is checked by reading the row its cookie names; a logout        *)
(* deletes the row and clears the cookie; what has expired is deleted by   *)
(* the check that finds it, or by a cleanup every half hour.               *)
(*                                                                         *)
(* A statement is an action, and so is the arrival of an answer that sets  *)
(* or clears the cookie.  That ids are random is a number never given      *)
(* before; that expires_at is compared as text is left out, since the      *)
(* driver's texts of UTC times sort like the times.                        *)
(***************************************************************************)
EXTENDS Integers, FiniteSets

CONSTANTS
  Requests,     \* the requests the server can be working on
  Browsers,
  Builders,
  NoCookie,
  NoRow,        \* no session has the id
  MaxAge,       \* SessionMaxAge: 7 days
  Period,       \* of the cleanup: 30 minutes
  MaxTime,      \* bound on the clock
  MaxSessions,  \* bound on the sessions ever created
  Faults        \* a statement may fail, an answer may be lost

ASSUME BoundAssumption ==
  /\ MaxAge \in Nat /\ Period \in Nat \ {0}
  /\ MaxTime \in Nat /\ MaxSessions \in Nat
  /\ Faults \in BOOLEAN

Ids == 1..MaxSessions
Row == [builder : Builders, expires : 0..(MaxTime + MaxAge)]
Cookie == [id : Ids, until : 0..(MaxTime + MaxAge)]

ASSUME NameAssumption == NoRow \notin Row /\ NoCookie \notin Cookie

VARIABLES
  now,        \* the clock
  cleanAt,    \* when the cleanup is due
  disturbed,  \* when the process last started, or a cleanup last failed
  sessions,   \* the table
  made,       \* how many sessions were ever created
  cookies,    \* in each browser
  req,        \* what each request is about to do
  signedIn,   \* who ever signed in, in which browser
  loggedOut   \* the sessions that a logout has deleted

time == <<now, cleanAt, disturbed>>
history == <<signedIn, loggedOut>>
vars == <<time, sessions, made, cookies, req, history>>

(* late: the session was deleted by a logout before the request came.      *)
Request ==
  [pc : {"cookie", "look", "delete"}, browser : Browsers, id : Ids, late : BOOLEAN]
  \cup [pc : {"clear"}, browser : Browsers, id : Ids \cup {0}, late : BOOLEAN]
  \cup [pc : {"check", "admit"}, browser : Browsers, id : Ids, late : BOOLEAN,
        row : Row]
Idle == [pc |-> "idle"]
Active(r) == req[r].pc # "idle"

Init ==
  /\ now = 0 /\ cleanAt = Period /\ disturbed = 0
  /\ sessions = [i \in Ids |-> NoRow]
  /\ made = 0
  /\ cookies = [b \in Browsers |-> NoCookie]
  /\ req = [r \in Requests |-> Idle]
  /\ signedIn = {} /\ loggedOut = {}

-----------------------------------------------------------------------------
Answer(r) == req' = [req EXCEPT ![r] = Idle]
Enter(r, pc, b, i) ==
  /\ ~Active(r)
  /\ req' = [req EXCEPT ![r] =
               [pc |-> pc, browser |-> b, id |-> i, late |-> i \in loggedOut]]

(* A cookie is sent until its Max-Age has passed.                          *)
Sends(b) == cookies[b] # NoCookie /\ now < cookies[b].until

(* Mutant: the first id that is free. *)
FreeId == CHOOSE i \in 1..(made + 1) :
            /\ sessions[i] = NoRow
            /\ \A j \in 1..(i - 1) : sessions[j] # NoRow

(* generateSessionID *)
NewId == made + 1

(* A passkey was validated, or GitHub told who is there. *)
CreateSession(r, b, who) ==
  /\ made < MaxSessions
  /\ made' = made + 1
  /\ sessions' = [sessions EXCEPT ![NewId] =
                    [builder |-> who, expires |-> now + MaxAge]]
  /\ signedIn' = signedIn \cup {<<b, who>>}
  /\ Enter(r, "cookie", b, NewId)
  /\ UNCHANGED <<time, cookies, loggedOut>>

setSessionCookie(r) ==
  /\ req[r].pc = "cookie"
  /\ cookies' = [cookies EXCEPT ![req[r].browser] =
                   [id |-> req[r].id, until |-> now + MaxAge]]
  /\ Answer(r)
  /\ UNCHANGED <<time, sessions, made, history>>

-----------------------------------------------------------------------------
(* extractBuilder: a request with a cookie. *)
BeginCheck(r, b) ==
  /\ Sends(b)
  /\ Enter(r, "look", b, cookies[b].id)
  /\ UNCHANGED <<time, sessions, made, cookies, history>>

(* GetSession: the SELECT; no row is 401. *)
Look(r) ==
  /\ req[r].pc = "look"
  /\ LET row == sessions[req[r].id] IN
     req' = [req EXCEPT ![r] =
               IF row = NoRow THEN Idle
               ELSE [pc |-> "check", browser |-> req[r].browser, id |-> req[r].id,
                     late |-> req[r].late, row |-> row]]
  /\ UNCHANGED <<time, sessions, made, cookies, history>>

(* Mutant: at its last moment, too. *)
ExpiredOrDue(row) == now >= row.expires

(* now.After(ExpiresAt), and expires_at < now *)
Expired(row) == now > row.expires

(* GetByID; the builder is in the context of the request. *)
Admit(r) ==
  /\ req[r].pc = "check"
  /\ ~Expired(req[r].row)
  /\ req' = [req EXCEPT ![r].pc = "admit"]
  /\ UNCHANGED <<time, sessions, made, cookies, history>>

(* Expired: DELETE WHERE id, its error is ignored; 401. *)
Purge(r) ==
  /\ req[r].pc = "check"
  /\ Expired(req[r].row)
  /\ sessions' = [sessions EXCEPT ![req[r].id] = NoRow]
  /\ Answer(r)
  /\ UNCHANGED <<time, made, cookies, history>>

(* The handler behind the check is done. *)
Serve(r) ==
  /\ req[r].pc = "admit"
  /\ Answer(r)
  /\ UNCHANGED <<time, sessions, made, cookies, history>>

-----------------------------------------------------------------------------
(* Logout; without a cookie there is nothing to delete. *)
BeginLogout(r, b) ==
  /\ IF Sends(b) THEN Enter(r, "delete", b, cookies[b].id) ELSE Enter(r, "clear", b, 0)
  /\ UNCHANGED <<time, sessions, made, cookies, history>>

(* Mutant: the row is only thought to be gone. *)
KeepSession(r) ==
  /\ req[r].pc = "delete"
  /\ loggedOut' = loggedOut \cup {req[r].id}
  /\ req' = [req EXCEPT ![r].pc = "clear"]
  /\ UNCHANGED <<time, sessions, made, cookies, signedIn>>

DeleteSession(r) ==
  /\ req[r].pc = "delete"
  /\ sessions' = [sessions EXCEPT ![req[r].id] = NoRow]
  /\ loggedOut' = loggedOut \cup {req[r].id}
  /\ req' = [req EXCEPT ![r].pc = "clear"]
  /\ UNCHANGED <<time, made, cookies, signedIn>>

(* The error is logged; the answer is the same. *)
DeleteFails(r) ==
  /\ req[r].pc = "delete"
  /\ req' = [req EXCEPT ![r].pc = "clear"]
  /\ UNCHANGED <<time, sessions, made, cookies, history>>

ClearCookie(r) ==
  /\ req[r].pc = "clear"
  /\ cookies' = [cookies EXCEPT ![req[r].browser] = NoCookie]
  /\ Answer(r)
  /\ UNCHANGED <<time, sessions, made, history>>

(* A SELECT fails (401), the purge fails (401), or the answer that carries *)
(* the cookie does not arrive.                                             *)
EndsEarly(r) ==
  /\ req[r].pc \in {"look", "check", "cookie", "clear"}
  /\ Answer(r)
  /\ UNCHANGED <<time, sessions, made, cookies, history>>

-----------------------------------------------------------------------------
(* Time does not pass a cleanup that is due. *)
Tick ==
  /\ now < MaxTime /\ now < cleanAt
  /\ now' = now + 1
  /\ UNCHANGED <<cleanAt, disturbed, sessions, made, cookies, req, history>>

(* Mutant: only what is as old as the last cleanup. *)
CleanOldSessions ==
  /\ now = cleanAt
  /\ cleanAt' = cleanAt + Period
  /\ sessions' = [i \in Ids |-> IF sessions[i] # NoRow /\ now - Period > sessions[i].expires
                                THEN NoRow ELSE sessions[i]]
  /\ UNCHANGED <<now, disturbed, made, cookies, req, history>>

CleanExpiredSessions ==
  /\ now = cleanAt
  /\ cleanAt' = cleanAt + Period
  /\ sessions' = [i \in Ids |-> IF sessions[i] # NoRow /\ Expired(sessions[i])
                                THEN NoRow ELSE sessions[i]]
  /\ UNCHANGED <<now, disturbed, made, cookies, req, history>>

(* The error is logged; the next try is a period later. *)
CleanFails ==
  /\ now = cleanAt
  /\ cleanAt' = cleanAt + Period
  /\ disturbed' = now
  /\ UNCHANGED <<now, sessions, made, cookies, req, history>>

(* The requests are lost; the first cleanup comes a period later. *)
Restart ==
  /\ cleanAt' = now + Period
  /\ disturbed' = now
  /\ req' = [r \in Requests |-> Idle]
  /\ UNCHANGED <<now, sessions, made, cookies, history>>

-----------------------------------------------------------------------------
Begin(r) ==
  \E b \in Browsers :
    \/ \E who \in Builders : CreateSession(r, b, who)
    \/ BeginCheck(r, b)
    \/ BeginLogout(r, b)
Step(r) ==
  \/ setSessionCookie(r) \/ Look(r) \/ Admit(r) \/ Purge(r) \/ Serve(r)
  \/ DeleteSession(r) \/ ClearCookie(r)
  \/ Faults /\ (DeleteFails(r) \/ EndsEarly(r))

Next ==
  \/ Tick \/ CleanExpiredSessions \/ (Faults /\ CleanFails) \/ Restart
  \/ \E r \in Requests : Begin(r) \/ Step(r)

Spec == Init /\ [][Next]_vars

-----------------------------------------------------------------------------
(* Everything has its type; a request that was found a row has one.        *)
TypeOK ==
  /\ now \in 0..MaxTime
  /\ cleanAt \in Nat /\ disturbed \in Nat
  /\ sessions \in [Ids -> Row \cup {NoRow}]
  /\ made \in 0..MaxSessions
  /\ cookies \in [Browsers -> Cookie \cup {NoCookie}]
  /\ req \in [Requests -> Request \cup {Idle}]
  /\ signedIn \subseteq Browsers \X Builders
  /\ loggedOut \subseteq Ids

(* Whoever comes after a logout has deleted its session is not admitted,   *)
(* whichever cookie it still has and whatever was signed in since          *)
(* (handler/auth.go:555, store/auth.go:75-92).                             *)
LoggedOutStaysOut ==
  \A r \in Requests : req[r].pc = "admit" => ~req[r].late

(* A request acts as a builder that signed in in the browser it came from: *)
(* a cookie that was left behind never becomes that of somebody else's     *)
(* session (middleware/auth.go:68-91).                                     *)
OwnSessionOnly ==
  \A r \in Requests :
    req[r].pc = "admit" => <<req[r].browser, req[r].row.builder>> \in signedIn

(* A row outlives its expiry by at most one period without a restart or a  *)
(* failed cleanup (main.go:63-75).                                         *)
NoLinger ==
  \A i \in Ids :
    sessions[i] # NoRow =>
      now - Period <= IF sessions[i].expires > disturbed THEN sessions[i].expires
                                                         ELSE disturbed

(* A session ends because it has expired, or because a request that sent   *)
(* its id logged out; the purge and the cleanup of others never take it    *)
(* (store/auth.go:88, 105).                                                *)
NoEarlyEnd ==
  [][\A i \in Ids :
       sessions[i] # NoRow /\ sessions'[i] = NoRow =>
         \/ now > sessions[i].expires
         \/ \E r \in Requests : DeleteSession(r) /\ req[r].id = i]_vars
=============================================================================
