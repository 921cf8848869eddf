--------------------------- MODULE SessionsProofs ---------------------------
(***************************************************************************)
(* Theorems about Sessions, for every set of requests, browsers and        *)
(* builders, every age, period and bound, with and without faults.         *)
(*                                                                         *)
(* The argument: an id in a row, a cookie or a request was given before    *)
(* (Given), so a new session is nobody's yet; an id that was logged out    *)
(* has no row (Gone); and whoever holds the id of a row signed in as its   *)
(* builder (Held).                                                         *)
(***************************************************************************)
EXTENDS Sessions, TLAPS

USE BoundAssumption, NameAssumption

HasRow(r) == req[r].pc \in {"check", "admit"}

Given ==
  /\ \A i \in Ids : sessions[i] # NoRow => i <= made
  /\ \A b \in Browsers : cookies[b] # NoCookie => cookies[b].id <= made
  /\ \A r \in Requests : Active(r) => req[r].id <= made
  /\ \A i \in loggedOut : i <= made

Gone ==
  /\ \A i \in loggedOut : sessions[i] = NoRow
  /\ \A r \in Requests : Active(r) /\ req[r].late => req[r].id \in loggedOut
  /\ \A r \in Requests : HasRow(r) => ~req[r].late

Mine(b, i) == sessions[i] # NoRow => <<b, sessions[i].builder>> \in signedIn
Held ==
  /\ \A b \in Browsers : cookies[b] # NoCookie => Mine(b, cookies[b].id)
  /\ \A r \in Requests :
       Active(r) /\ req[r].id # 0 => Mine(req[r].browser, req[r].id)
  /\ \A r \in Requests :
       HasRow(r) => <<req[r].browser, req[r].row.builder>> \in signedIn

(* A row that was read is what the table still has, if it has the id.      *)
Copied ==
  \A r \in Requests :
    HasRow(r) /\ sessions[req[r].id] # NoRow => req[r].row = sessions[req[r].id]

(* The last cleanup, or what was instead of it, was at cleanAt - Period.   *)
Timely ==
  /\ cleanAt - Period <= now /\ now <= cleanAt
  /\ \A i \in Ids :
       sessions[i] # NoRow =>
         cleanAt - Period <= sessions[i].expires \/ cleanAt - Period <= disturbed

IInv == TypeOK /\ Given /\ Gone /\ Held /\ Copied /\ Timely

-----------------------------------------------------------------------------
LEMMA AtWork ==
  ASSUME TypeOK, NEW r \in Requests, Active(r)
  PROVE  /\ req[r].id \in Ids \cup {0} /\ req[r].browser \in Browsers
         /\ req[r].late \in BOOLEAN
BY DEF TypeOK, Request, Active, Idle

(* The requests that name a session, and those that hold its row.          *)
LEMMA Naming ==
  ASSUME TypeOK, NEW r \in Requests, req[r].pc \in {"cookie", "look", "delete"}
  PROVE  req[r] \in [pc : {"cookie", "look", "delete"}, browser : Browsers,
                     id : Ids, late : BOOLEAN]
BY DEF TypeOK, Request, Idle

LEMMA Holding ==
  ASSUME TypeOK, NEW r \in Requests, HasRow(r)
  PROVE  req[r] \in [pc : {"check", "admit"}, browser : Browsers, id : Ids,
                     late : BOOLEAN, row : Row]
BY DEF TypeOK, Request, HasRow, Idle

(* A cookie that is sent names a session.                                  *)
LEMMA Sent ==
  ASSUME TypeOK, NEW b \in Browsers, cookies[b] # NoCookie
  PROVE  cookies[b] \in Cookie /\ cookies[b].id \in Ids
BY DEF TypeOK, Cookie

LEMMA InitInv == Init => IInv
<1> SUFFICES ASSUME Init PROVE IInv
  OBVIOUS
<1>1. TypeOK
  BY DEF Init, TypeOK, Idle
<1>2. Given /\ Gone /\ Held /\ Copied /\ Timely
  BY DEF Init, Given, Gone, Held, Copied, Timely, Mine, Active, HasRow, Idle
<1>3. QED BY <1>1, <1>2 DEF IInv

-----------------------------------------------------------------------------
LEMMA TypeNext == TypeOK /\ [Next]_vars => TypeOK'
<1> SUFFICES ASSUME TypeOK, [Next]_vars PROVE TypeOK'
  OBVIOUS
<1> USE DEF TypeOK
<1>1. ASSUME NEW r \in Requests, NEW pc \in {"cookie", "look", "delete"},
             NEW b \in Browsers, NEW i \in Ids, Enter(r, pc, b, i)
      PROVE  req' \in [Requests -> Request \cup {Idle}]
  BY <1>1 DEF Enter, Request
<1>2. ASSUME NEW r \in Requests, Answer(r) PROVE req' \in [Requests -> Request \cup {Idle}]
  BY <1>2 DEF Answer
<1>3. ASSUME NEW r \in Requests, NEW b \in Browsers, NEW who \in Builders,
             CreateSession(r, b, who)
      PROVE  TypeOK'
  <2>1. NewId \in Ids /\ made' \in 0..MaxSessions
    BY <1>3 DEF CreateSession, NewId, Ids
  <2>2. req' \in [Requests -> Request \cup {Idle}]
    BY <1>1, <1>3, <2>1 DEF CreateSession
  <2>3. [builder |-> who, expires |-> now + MaxAge] \in Row
    BY DEF Row
  <2>4. sessions' \in [Ids -> Row \cup {NoRow}] /\ signedIn' \subseteq Browsers \X Builders
    BY <1>3, <2>1, <2>3 DEF CreateSession
  <2>5. QED BY <1>3, <2>1, <2>2, <2>4 DEF CreateSession, time
<1>4. ASSUME NEW r \in Requests, NEW b \in Browsers, BeginCheck(r, b) PROVE TypeOK'
  <2>1. req' \in [Requests -> Request \cup {Idle}]
    BY <1>1, <1>4, Sent DEF BeginCheck, Sends
  <2>2. QED BY <1>4, <2>1 DEF BeginCheck, time, history
<1>5. ASSUME NEW r \in Requests, NEW b \in Browsers, BeginLogout(r, b) PROVE TypeOK'
  <2>1. CASE Sends(b)
    <3>1. cookies[b].id \in Ids /\ Enter(r, "delete", b, cookies[b].id)
      BY <1>5, <2>1, Sent DEF BeginLogout, Sends
    <3>2. req' \in [Requests -> Request \cup {Idle}]
      BY <1>1, <3>1
    <3>3. QED BY <1>5, <3>2 DEF BeginLogout, time, history
  <2>2. CASE ~Sends(b)
    <3> DEFINE q == [pc |-> "clear", browser |-> b, id |-> 0, late |-> 0 \in loggedOut]
    <3>1. q \in Request
      BY DEF Request
    <3>2. req' = [req EXCEPT ![r] = q]
      BY <1>5, <2>2 DEF BeginLogout, Enter
    <3> HIDE DEF q
    <3>3. req' \in [Requests -> Request \cup {Idle}]
      BY <3>1, <3>2
    <3>4. QED BY <1>5, <3>3 DEF BeginLogout, time, history
  <2>3. QED BY <2>1, <2>2
<1>6. ASSUME NEW r \in Requests, setSessionCookie(r) PROVE TypeOK'
  <2>1. [id |-> req[r].id, until |-> now + MaxAge] \in Cookie
    BY <1>6, Naming DEF setSessionCookie, Cookie
  <2>2. QED BY <1>2, <1>6, <2>1 DEF setSessionCookie, time, history
<1>7. ASSUME NEW r \in Requests, Look(r) PROVE TypeOK'
  <2>1. CASE sessions[req[r].id] = NoRow
    BY <1>7, <2>1 DEF Look, time, history
  <2>2. CASE sessions[req[r].id] # NoRow
    <3> DEFINE q == [pc |-> "check", browser |-> req[r].browser, id |-> req[r].id,
                     late |-> req[r].late, row |-> sessions[req[r].id]]
    <3>1. q \in Request
      BY <1>7, <2>2, Naming DEF Look, Request
    <3>2. req' = [req EXCEPT ![r] = q]
      BY <1>7, <2>2 DEF Look
    <3> HIDE DEF q
    <3>3. QED BY <1>7, <3>1, <3>2 DEF Look, time, history
  <2>3. QED BY <2>1, <2>2
<1>8. ASSUME NEW r \in Requests, Admit(r) PROVE TypeOK'
  <2>1. [req[r] EXCEPT !.pc = "admit"] \in Request
    BY <1>8, Holding DEF Admit, HasRow, Request
  <2>2. QED BY <1>8, <2>1 DEF Admit, time, history
<1>9. ASSUME NEW r \in Requests, Purge(r) PROVE TypeOK'
  BY <1>2, <1>9 DEF Purge, time, history
<1>10. ASSUME NEW r \in Requests, Serve(r) \/ EndsEarly(r) PROVE TypeOK'
  BY <1>2, <1>10 DEF Serve, EndsEarly, time, history
<1>11. ASSUME NEW r \in Requests, DeleteSession(r) \/ DeleteFails(r) PROVE TypeOK'
  <2>1. req[r].id \in Ids /\ [req[r] EXCEPT !.pc = "clear"] \in Request
    BY <1>11, Naming DEF DeleteSession, DeleteFails, Request
  <2>2. req' \in [Requests -> Request \cup {Idle}]
    BY <1>11, <2>1 DEF DeleteSession, DeleteFails
  <2>3. QED BY <1>11, <2>1, <2>2 DEF DeleteSession, DeleteFails, time, history
<1>12. ASSUME NEW r \in Requests, ClearCookie(r) PROVE TypeOK'
  BY <1>2, <1>12 DEF ClearCookie, time, history
<1>13. CASE Tick
  BY <1>13 DEF Tick, history
<1>14. CASE CleanExpiredSessions
  BY <1>14 DEF CleanExpiredSessions, history
<1>15. CASE CleanFails
  BY <1>15 DEF CleanFails, history
<1>16. CASE Restart
  BY <1>16 DEF Restart, history
<1>17. CASE UNCHANGED vars
  BY <1>17 DEF vars, time, history
<1>18. QED
  BY <1>3, <1>4, <1>5, <1>6, <1>7, <1>8, <1>9, <1>10, <1>11, <1>12, <1>13, <1>14,
     <1>15, <1>16, <1>17 DEF Next, Begin, Step

-----------------------------------------------------------------------------
(* But for a sign-in the requests leave the clock alone and at most take   *)
(* rows away.                                                              *)
Fewer == \A i \in Ids : sessions'[i] = sessions[i] \/ sessions'[i] = NoRow

LEMMA StepTakesRows ==
  ASSUME TypeOK, NEW r \in Requests,
         \/ Step(r)
         \/ \E b \in Browsers : BeginCheck(r, b) \/ BeginLogout(r, b)
  PROVE  Fewer /\ UNCHANGED time /\ UNCHANGED signedIn /\ UNCHANGED made
<1> USE DEF TypeOK, Fewer
<1>1. ASSUME NEW b \in Browsers, BeginCheck(r, b) \/ BeginLogout(r, b)
      PROVE  Fewer /\ UNCHANGED time /\ UNCHANGED signedIn /\ UNCHANGED made
  BY <1>1 DEF BeginCheck, BeginLogout, history
<1>2. CASE Purge(r) \/ DeleteSession(r)
  BY <1>2 DEF Purge, DeleteSession, history
<1>3. CASE \/ setSessionCookie(r) \/ Look(r) \/ Admit(r) \/ Serve(r)
           \/ ClearCookie(r) \/ DeleteFails(r) \/ EndsEarly(r)
  BY <1>3 DEF setSessionCookie, Look, Admit, Serve, ClearCookie, DeleteFails,
              EndsEarly, history
<1>4. QED BY <1>1, <1>2, <1>3 DEF Step

LEMMA TimelyNext == TypeOK /\ Timely /\ [Next]_vars => Timely'
<1> SUFFICES ASSUME TypeOK, Timely, [Next]_vars PROVE Timely'
  OBVIOUS
<1> USE DEF TypeOK, Timely
<1>2. ASSUME Fewer, UNCHANGED time PROVE Timely'
  BY <1>2 DEF Fewer, time
<1>3. ASSUME NEW r \in Requests, NEW b \in Browsers, NEW who \in Builders,
             CreateSession(r, b, who)
      PROVE  Timely'
  <2>1. cleanAt - Period <= now + MaxAge
    OBVIOUS
  <2>2. /\ UNCHANGED time
        /\ \A i \in Ids : sessions'[i] = sessions[i] \/ sessions'[i].expires = now + MaxAge
    BY <1>3 DEF CreateSession
  <2>3. QED BY <2>1, <2>2 DEF time
<1>4. CASE Tick
  BY <1>4 DEF Tick
<1>5. CASE CleanExpiredSessions
  <2>1. \A i \in Ids : sessions'[i] # NoRow =>
          sessions'[i] = sessions[i] /\ now <= sessions[i].expires
    BY <1>5 DEF CleanExpiredSessions, Expired, Row
  <2>2. QED BY <1>5, <2>1 DEF CleanExpiredSessions
<1>6. CASE CleanFails
  BY <1>6 DEF CleanFails
<1>7. CASE Restart
  BY <1>7 DEF Restart
<1>8. CASE UNCHANGED vars
  BY <1>8 DEF vars, time
<1>9. QED BY <1>2, <1>3, <1>4, <1>5, <1>6, <1>7, <1>8, StepTakesRows DEF Next, Begin

-----------------------------------------------------------------------------
(* What a step does to the request that takes it and to the others.        *)
OthersWait(r) == \A s \in Requests : s # r => req'[s] = req[s]

(* The request keeps what it carries, or it is over.                       *)
SameRequest(r) ==
  \/ req'[r] = Idle
  \/ /\ Active(r) /\ req'[r].id = req[r].id
     /\ req'[r].browser = req[r].browser /\ req'[r].late = req[r].late
     /\ HasRow(r)' => HasRow(r) /\ req'[r].row = req[r].row

LEMMA StepKeepsRequest ==
  ASSUME TypeOK, NEW r \in Requests,
         \/ setSessionCookie(r) \/ Admit(r) \/ Purge(r) \/ Serve(r) \/ ClearCookie(r)
         \/ DeleteSession(r) \/ DeleteFails(r) \/ EndsEarly(r)
  PROVE  OthersWait(r) /\ SameRequest(r)
<1> USE DEF TypeOK, OthersWait, SameRequest, HasRow, Active
<1>1. CASE \/ setSessionCookie(r) \/ Purge(r) \/ Serve(r) \/ ClearCookie(r)
           \/ EndsEarly(r)
  BY <1>1 DEF setSessionCookie, Purge, Serve, ClearCookie, EndsEarly, Answer
<1>2. CASE Admit(r)
  BY <1>2, Holding DEF Admit
<1>3. CASE DeleteSession(r) \/ DeleteFails(r)
  BY <1>3, Naming DEF DeleteSession, DeleteFails
<1>4. QED BY <1>1, <1>2, <1>3

LEMMA EnterFacts ==
  ASSUME TypeOK, NEW r \in Requests, NEW pc \in {"cookie", "look", "delete", "clear"},
         NEW b, NEW i, Enter(r, pc, b, i)
  PROVE  /\ OthersWait(r) /\ ~HasRow(r)' /\ Active(r)'
         /\ req'[r].id = i /\ req'[r].browser = b /\ req'[r].late = (i \in loggedOut)
BY DEF Enter, TypeOK, OthersWait, HasRow, Active

(* A request that looks finds nothing, or the row it named.                *)
LEMMA LookFacts ==
  ASSUME TypeOK, NEW r \in Requests, Look(r)
  PROVE  /\ OthersWait(r) /\ Active(r) /\ req[r].id \in Ids
         /\ \/ req'[r] = Idle
            \/ /\ sessions[req[r].id] # NoRow /\ req'[r].row = sessions[req[r].id]
               /\ req'[r].id = req[r].id /\ req'[r].browser = req[r].browser
               /\ req'[r].late = req[r].late
<1>1. req[r].id \in Ids /\ Active(r)
  BY Naming DEF Look, Active
<1>2. QED BY <1>1 DEF Look, TypeOK, OthersWait

-----------------------------------------------------------------------------
Safe == Given /\ Gone /\ Held

(* Losing rows, cookies and requests harms nobody.                         *)
LEMMA QuietStep ==
  ASSUME TypeOK, Safe, Fewer, UNCHANGED <<made, signedIn, loggedOut>>,
         \A b \in Browsers : cookies'[b] = cookies[b] \/ cookies'[b] = NoCookie,
         \A s \in Requests : req'[s] = req[s] \/ SameRequest(s)
  PROVE  Safe'
<1> USE DEF Safe, Fewer, SameRequest
<1>1. \A s \in Requests : Active(s)' =>
        /\ Active(s) /\ req'[s].id = req[s].id
        /\ req'[s].browser = req[s].browser /\ req'[s].late = req[s].late
        /\ HasRow(s)' => HasRow(s) /\ req'[s].row = req[s].row
  BY DEF Active, HasRow, Idle
<1>2. \A s \in Requests : HasRow(s)' => Active(s)'
  BY DEF HasRow, Active
<1>3. Given'
  BY <1>1 DEF Given
<1>4. Gone'
  BY <1>1, <1>2 DEF Gone, TypeOK
<1>5. \A b \in Browsers, i \in Ids : Mine(b, i) => Mine(b, i)'
  BY DEF Mine
<1>6. \A s \in Requests : Active(s) => req[s].id \in Ids \cup {0} /\ req[s].browser \in Browsers
  BY AtWork
<1>7. \A b \in Browsers : cookies[b] # NoCookie => cookies[b].id \in Ids
  BY Sent
<1>8. Held'
  BY <1>1, <1>2, <1>5, <1>6, <1>7 DEF Held
<1>9. QED BY <1>3, <1>4, <1>8

(* A new session is nobody's yet but for the request that made it.         *)
LEMMA CreateIsSafe ==
  ASSUME TypeOK, Safe, NEW r \in Requests, NEW b \in Browsers, NEW who \in Builders,
         CreateSession(r, b, who)
  PROVE  Safe'
<1> USE DEF Safe
<1>0. PICK n \in Ids : n = made + 1
  BY DEF CreateSession, Ids, TypeOK
<1>1. /\ made' = n /\ n > made /\ UNCHANGED <<cookies, loggedOut>>
      /\ Enter(r, "cookie", b, n)
      /\ sessions' = [sessions EXCEPT ![n] = [builder |-> who, expires |-> now + MaxAge]]
      /\ signedIn' = signedIn \cup {<<b, who>>}
  BY <1>0 DEF CreateSession, NewId, TypeOK
<1>2. sessions'[n].builder = who /\ \A i \in Ids : i # n => sessions'[i] = sessions[i]
  BY <1>1 DEF TypeOK
<1>3. n \notin loggedOut /\ loggedOut \subseteq Ids /\ made \in Nat
  BY <1>1 DEF Given, TypeOK, Ids
<1>4. /\ OthersWait(r) /\ ~HasRow(r)' /\ Active(r)'
      /\ req'[r].id = n /\ req'[r].browser = b /\ ~req'[r].late
  BY <1>1, <1>3, EnterFacts, Zenon
<1>5. \A s \in Requests : Active(s) => req[s].id \in Ids \cup {0} /\ req[s].browser \in Browsers
  BY AtWork
<1>6. \A c \in Browsers : cookies[c] # NoCookie => cookies[c].id \in Ids /\ cookies[c].id # n
  BY <1>1, <1>3, Sent DEF Given, Ids
<1>7. Given'
  BY <1>1, <1>2, <1>3, <1>4, <1>5, <1>6 DEF Given, Ids, OthersWait, Active
<1>8. Gone'
  BY <1>1, <1>2, <1>3, <1>4 DEF Gone, OthersWait, Active, HasRow
<1>9. \A c \in Browsers, i \in Ids : i # n /\ Mine(c, i) => Mine(c, i)'
  BY <1>1, <1>2 DEF Mine
<1>10. Mine(b, n)'
  BY <1>1, <1>2 DEF Mine
<1>11. \A s \in Requests : Active(s) => req[s].id # n
  BY <1>1, <1>3, <1>5 DEF Given, Ids
<1>12. Held'
  BY <1>1, <1>4, <1>5, <1>6, <1>9, <1>10, <1>11 DEF Held, OthersWait, Active, HasRow
<1>13. QED BY <1>7, <1>8, <1>12

(* A request takes over what the cookie of its browser names.              *)
LEMMA BeginIsSafe ==
  ASSUME TypeOK, Safe, NEW r \in Requests, NEW b \in Browsers,
         BeginCheck(r, b) \/ BeginLogout(r, b)
  PROVE  Safe'
<1> USE DEF Safe
<1>1. UNCHANGED <<sessions, made, cookies, signedIn, loggedOut>>
  BY DEF BeginCheck, BeginLogout, history
<1>2. PICK pc \in {"look", "delete", "clear"}, i \in Ids \cup {0} :
        Enter(r, pc, b, i) /\ (i # 0 => cookies[b] # NoCookie /\ i = cookies[b].id)
  <2>1. CASE BeginCheck(r, b)
    BY <2>1, Sent DEF BeginCheck, Sends
  <2>2. CASE BeginLogout(r, b) /\ Sends(b)
    BY <2>2, Sent DEF BeginLogout, Sends
  <2>3. CASE BeginLogout(r, b) /\ ~Sends(b)
    BY <2>3 DEF BeginLogout
  <2>4. QED BY <2>1, <2>2, <2>3
<1>3. /\ OthersWait(r) /\ ~HasRow(r)' /\ Active(r)'
      /\ req'[r].id = i /\ req'[r].browser = b /\ req'[r].late = (i \in loggedOut)
  BY <1>2, EnterFacts
<1>4. Given'
  BY <1>1, <1>2, <1>3 DEF Given, OthersWait, Active, TypeOK
<1>5. Gone'
  BY <1>1, <1>3 DEF Gone, OthersWait, Active, HasRow
<1>6. \A c \in Browsers, j \in Ids : Mine(c, j) => Mine(c, j)'
  BY <1>1 DEF Mine
<1>7. \A s \in Requests : Active(s) => req[s].id \in Ids \cup {0} /\ req[s].browser \in Browsers
  BY AtWork
<1>8. \A c \in Browsers : cookies[c] # NoCookie => cookies[c].id \in Ids
  BY Sent
<1>9. Held'
  BY <1>1, <1>2, <1>3, <1>6, <1>7, <1>8 DEF Held, OthersWait, Active, HasRow
<1>10. QED BY <1>4, <1>5, <1>9

(* The browser gets the cookie of the request it sent.                     *)
LEMMA CookieIsSafe ==
  ASSUME TypeOK, Safe, NEW r \in Requests, setSessionCookie(r)
  PROVE  Safe'
<1> USE DEF Safe
<1> DEFINE b == req[r].browser
<1>1. /\ Active(r) /\ b \in Browsers /\ req[r].id \in Ids /\ req[r].id # 0
      /\ cookies' \in [Browsers -> Cookie \cup {NoCookie}]
      /\ cookies'[b].id = req[r].id /\ \A c \in Browsers : c # b => cookies'[c] = cookies[c]
      /\ OthersWait(r) /\ req'[r] = Idle
      /\ UNCHANGED <<sessions, made, signedIn, loggedOut>>
  <2>1. req[r].browser \in Browsers /\ req[r].id \in Ids /\ Active(r)
    BY Naming DEF setSessionCookie, Active
  <2>2. [id |-> req[r].id, until |-> now + MaxAge] \in Cookie
    BY <2>1 DEF Cookie, TypeOK
  <2>3. QED BY <2>1, <2>2 DEF setSessionCookie, Answer, OthersWait, TypeOK, Ids, history
<1> HIDE DEF b
<1>2. \A s \in Requests : Active(s)' => s # r
  BY <1>1 DEF Active, Idle
<1>3. \A s \in Requests : HasRow(s)' => s # r
  BY <1>1 DEF HasRow, Idle
<1>4. Given'
  BY <1>1, <1>2 DEF Given, Active, OthersWait
<1>5. Gone'
  BY <1>1, <1>2, <1>3 DEF Gone, Active, HasRow, OthersWait
<1>6. Mine(b, req[r].id)
  BY <1>1 DEF Held, b
<1>7. \A c \in Browsers : cookies'[c] # NoCookie => Mine(c, cookies'[c].id)
  BY <1>1, <1>6 DEF Held
<1>8. Held'
  <2>1. \A c \in Browsers : cookies'[c] # NoCookie => Mine(c, cookies[c].id)'
    BY <1>1, <1>7 DEF Mine
  <2>2. \A s \in Requests : Active(s)' /\ req'[s].id # 0 => Mine(req[s].browser, req[s].id)'
    BY <1>1, <1>2 DEF Held, Active, OthersWait, Mine
  <2>3. \A s \in Requests : HasRow(s)' => <<req'[s].browser, req'[s].row.builder>> \in signedIn'
    BY <1>1, <1>3 DEF Held, HasRow, OthersWait
  <2>4. QED BY <1>1, <1>2, <2>1, <2>2, <2>3 DEF Held, OthersWait, Mine
<1>9. QED BY <1>4, <1>5, <1>8

(* A row that is found belongs to who is asking, who is then not late.     *)
LEMMA LookIsSafe ==
  ASSUME TypeOK, Safe, NEW r \in Requests, Look(r)
  PROVE  Safe'
<1> USE DEF Safe
<1>1. UNCHANGED <<sessions, made, cookies, signedIn, loggedOut>>
  BY DEF Look, history
<1>2. CASE req'[r] = Idle
  BY <1>1, <1>2, LookFacts, QuietStep DEF Fewer, SameRequest, OthersWait
<1>3. CASE req'[r] # Idle
  <2>1. /\ OthersWait(r) /\ Active(r) /\ req[r].id \in Ids /\ req[r].id # 0
        /\ sessions[req[r].id] # NoRow /\ req'[r].row = sessions[req[r].id]
        /\ req'[r].id = req[r].id /\ req'[r].browser = req[r].browser
        /\ req'[r].late = req[r].late
    BY <1>3, LookFacts DEF Ids
  <2>2. ~req[r].late /\ <<req[r].browser, req'[r].row.builder>> \in signedIn
    BY <2>1 DEF Gone, Held, Mine
  <2>3. Given'
    BY <1>1, <2>1 DEF Given, Active, OthersWait
  <2>4. Gone'
    BY <1>1, <2>1, <2>2 DEF Gone, Active, HasRow, OthersWait
  <2>5. Held'
    BY <1>1, <2>1, <2>2 DEF Held, Mine, Active, HasRow, OthersWait
  <2>6. QED BY <2>3, <2>4, <2>5
<1>4. QED BY <1>2, <1>3

(* The id that is logged out was given, and has no row any more.           *)
LEMMA DeleteIsSafe ==
  ASSUME TypeOK, Safe, NEW r \in Requests, DeleteSession(r)
  PROVE  Safe'
<1> USE DEF Safe
<1> DEFINE i == req[r].id
<1>1. i \in Ids /\ Active(r)
  BY Naming DEF DeleteSession, Active
<1>2. OthersWait(r) /\ SameRequest(r)
  BY StepKeepsRequest
<1>3. /\ UNCHANGED <<made, cookies, signedIn>> /\ loggedOut' = loggedOut \cup {i}
      /\ Fewer /\ sessions'[i] = NoRow
  BY <1>1 DEF DeleteSession, Fewer, TypeOK
<1> HIDE DEF i
<1>4. \A s \in Requests : Active(s)' =>
        /\ Active(s) /\ req'[s].id = req[s].id
        /\ req'[s].browser = req[s].browser /\ req'[s].late = req[s].late
        /\ HasRow(s)' => HasRow(s) /\ req'[s].row = req[s].row
  BY <1>2 DEF Active, HasRow, Idle, SameRequest, OthersWait
<1>5. \A s \in Requests : HasRow(s)' => Active(s)'
  BY DEF HasRow, Active
<1>6. Given'
  BY <1>1, <1>3, <1>4 DEF Given, Fewer, i
<1>7. Gone'
  BY <1>1, <1>3, <1>4, <1>5 DEF Gone, Fewer, TypeOK
<1>8. \A b \in Browsers, j \in Ids : Mine(b, j) => Mine(b, j)'
  BY <1>3 DEF Mine, Fewer
<1>9. \A s \in Requests : Active(s) => req[s].id \in Ids \cup {0} /\ req[s].browser \in Browsers
  BY AtWork
<1>10. \A b \in Browsers : cookies[b] # NoCookie => cookies[b].id \in Ids
  BY Sent
<1>11. Held'
  BY <1>3, <1>4, <1>5, <1>8, <1>9, <1>10 DEF Held
<1>12. QED BY <1>6, <1>7, <1>11

LEMMA SafeNext == TypeOK /\ Safe /\ [Next]_vars => Safe'
<1> SUFFICES ASSUME TypeOK, Safe, [Next]_vars PROVE Safe'
  OBVIOUS
<1>1. CASE Tick \/ CleanExpiredSessions \/ CleanFails \/ Restart \/ UNCHANGED vars
  <2>1. Fewer /\ UNCHANGED <<made, signedIn, loggedOut, cookies>>
    BY <1>1 DEF Tick, CleanExpiredSessions, CleanFails, Restart, vars, history, Fewer
  <2>2. \A s \in Requests : req'[s] = req[s] \/ req'[s] = Idle
    BY <1>1 DEF Tick, CleanExpiredSessions, CleanFails, Restart, vars
  <2>3. QED BY <2>1, <2>2, QuietStep DEF SameRequest
<1>2. ASSUME NEW r \in Requests, NEW b \in Browsers, NEW who \in Builders,
             CreateSession(r, b, who)
      PROVE  Safe'
  BY <1>2, CreateIsSafe
<1>3. ASSUME NEW r \in Requests, NEW b \in Browsers, BeginCheck(r, b) \/ BeginLogout(r, b)
      PROVE  Safe'
  BY <1>3, BeginIsSafe
<1>4. ASSUME NEW r \in Requests,
             \/ Admit(r) \/ Purge(r) \/ Serve(r) \/ ClearCookie(r)
             \/ Faults /\ (DeleteFails(r) \/ EndsEarly(r))
      PROVE  Safe'
  <2>1. Step(r)
    BY <1>4 DEF Step
  <2>2. OthersWait(r) /\ SameRequest(r)
    BY <1>4, StepKeepsRequest
  <2>3. Fewer /\ UNCHANGED <<signedIn, made>>
    BY <2>1, StepTakesRows
  <2>4. /\ UNCHANGED loggedOut
        /\ \A b \in Browsers : cookies'[b] = cookies[b] \/ cookies'[b] = NoCookie
    BY <1>4 DEF Admit, Purge, Serve, ClearCookie, DeleteFails, EndsEarly, history, TypeOK
  <2>5. QED BY <2>2, <2>3, <2>4, QuietStep DEF OthersWait
<1>5. QED
  BY <1>1, <1>2, <1>3, <1>4, CookieIsSafe, LookIsSafe, DeleteIsSafe DEF Next, Begin, Step

(* A row is written once, under an id that no request has.                 *)
LEMMA CopiedNext == TypeOK /\ Given /\ Copied /\ [Next]_vars => Copied'
<1> SUFFICES ASSUME TypeOK, Given, Copied, [Next]_vars PROVE Copied'
  OBVIOUS
<1> USE DEF Copied
<1>1. ASSUME Fewer, \A s \in Requests : req'[s] = req[s] \/ SameRequest(s)
      PROVE  Copied'
  <2>1. \A s \in Requests : HasRow(s)' =>
          HasRow(s) /\ req'[s].id = req[s].id /\ req'[s].row = req[s].row
    BY <1>1 DEF SameRequest, HasRow, Idle
  <2>2. \A s \in Requests : HasRow(s) => req[s].id \in Ids
    BY Holding
  <2>3. QED BY <1>1, <2>1, <2>2 DEF Fewer
<1>2. CASE Tick \/ CleanExpiredSessions \/ CleanFails \/ Restart \/ UNCHANGED vars
  <2>1. Fewer
    BY <1>2 DEF Tick, CleanExpiredSessions, CleanFails, Restart, vars, Fewer
  <2>2. \A s \in Requests : req'[s] = req[s] \/ req'[s] = Idle
    BY <1>2 DEF Tick, CleanExpiredSessions, CleanFails, Restart, vars
  <2>3. QED BY <1>1, <2>1, <2>2 DEF SameRequest
<1>3. ASSUME NEW r \in Requests, NEW b \in Browsers, NEW who \in Builders,
             CreateSession(r, b, who)
      PROVE  Copied'
  <2>1. \A i \in Ids : i <= made => sessions'[i] = sessions[i]
    BY <1>3 DEF CreateSession, NewId, TypeOK
  <2>2. OthersWait(r) /\ ~HasRow(r)'
    BY <1>3, EnterFacts DEF CreateSession
  <2>3. \A s \in Requests : HasRow(s) => req[s].id \in Ids /\ req[s].id <= made
    BY Holding DEF Given, HasRow, Active
  <2>4. QED BY <2>1, <2>2, <2>3 DEF OthersWait, HasRow
<1>4. ASSUME NEW r \in Requests, NEW b \in Browsers, BeginCheck(r, b) \/ BeginLogout(r, b)
      PROVE  Copied'
  <2>1. UNCHANGED sessions
    BY <1>4 DEF BeginCheck, BeginLogout
  <2>2. OthersWait(r) /\ ~HasRow(r)'
    BY <1>4, EnterFacts DEF BeginCheck, BeginLogout
  <2>3. QED BY <2>1, <2>2 DEF OthersWait, HasRow
<1>5. ASSUME NEW r \in Requests, Look(r) PROVE Copied'
  <2>1. UNCHANGED sessions
    BY <1>5 DEF Look
  <2>2. HasRow(r)' => req'[r].row = sessions[req'[r].id]
    BY <1>5, LookFacts DEF HasRow, Idle
  <2>3. QED BY <1>5, <2>1, <2>2, LookFacts DEF OthersWait, HasRow
<1>6. ASSUME NEW r \in Requests,
             \/ setSessionCookie(r) \/ Admit(r) \/ Purge(r) \/ Serve(r)
             \/ DeleteSession(r) \/ ClearCookie(r)
             \/ Faults /\ (DeleteFails(r) \/ EndsEarly(r))
      PROVE  Copied'
  <2>1. Fewer
    BY <1>6, StepTakesRows DEF Step
  <2>2. OthersWait(r) /\ SameRequest(r)
    BY <1>6, StepKeepsRequest
  <2>3. QED BY <1>1, <2>1, <2>2 DEF OthersWait
<1>7. QED BY <1>2, <1>3, <1>4, <1>5, <1>6 DEF Next, Begin, Step

LEMMA InvNext == IInv /\ [Next]_vars => IInv'
BY TypeNext, SafeNext, CopiedNext, TimelyNext DEF IInv, Safe

LEMMA Inductive == Spec => []IInv
BY InitInv, InvNext, PTL DEF Spec

(* Every variable has its type; a request that was found a row has one.    *)
THEOREM TypeCorrect == Spec => []TypeOK
<1>1. IInv => TypeOK
  BY DEF IInv
<1>2. QED BY <1>1, Inductive, PTL

(* Whoever comes after a logout has deleted its session is never admitted. *)
THEOREM LogoutHolds == Spec => []LoggedOutStaysOut
<1>1. IInv => LoggedOutStaysOut
  BY DEF IInv, Gone, HasRow, LoggedOutStaysOut
<1>2. QED BY <1>1, Inductive, PTL

(* A request acts as a builder that signed in in its own browser.          *)
THEOREM SessionsAreOwn == Spec => []OwnSessionOnly
<1>1. IInv => OwnSessionOnly
  BY DEF IInv, Held, HasRow, OwnSessionOnly
<1>2. QED BY <1>1, Inductive, PTL

(* The cleanup leaves no row for longer than a period after its expiry,    *)
(* the start of the process or a failed cleanup.                           *)
THEOREM NothingLingers == Spec => []NoLinger
<1>1. IInv => NoLinger
  <2>1. SUFFICES ASSUME TypeOK, Timely, NEW i \in Ids, sessions[i] # NoRow
                 PROVE  now - Period <= IF sessions[i].expires > disturbed
                                          THEN sessions[i].expires ELSE disturbed
    BY DEF IInv, NoLinger
  <2>2. sessions[i].expires \in Nat /\ disturbed \in Nat /\ cleanAt \in Nat /\ now \in Nat
    BY <2>1 DEF TypeOK, Row
  <2>3. QED BY <2>1, <2>2 DEF Timely
<1>2. QED BY <1>1, Inductive, PTL

(* A session ends by its expiry or by a logout that sent its id.           *)
THEOREM NoSessionEndsEarly == Spec => NoEarlyEnd
<1> DEFINE Ended(i) == sessions[i] # NoRow /\ sessions'[i] = NoRow
           Rightly(i) == \/ now > sessions[i].expires
                         \/ \E r \in Requests : DeleteSession(r) /\ req[r].id = i
<1>1. ASSUME IInv, [Next]_vars, NEW i \in Ids, Ended(i) PROVE Rightly(i)
  <2> USE <1>1 DEF IInv
  <2>1. CASE CleanExpiredSessions
    BY <2>1 DEF CleanExpiredSessions, Expired
  <2>2. ASSUME NEW r \in Requests, Purge(r) PROVE Rightly(i)
    <3>1. req[r].id = i /\ HasRow(r)
      BY <2>2, Holding DEF Purge, HasRow, TypeOK
    <3>2. now > sessions[i].expires
      BY <2>2, <3>1 DEF Purge, Copied, Expired
    <3>3. QED BY <3>2
  <2>3. ASSUME NEW r \in Requests, DeleteSession(r) PROVE Rightly(i)
    BY <2>3, Naming DEF DeleteSession, TypeOK
  <2>4. ASSUME NEW r \in Requests, NEW b \in Browsers, NEW who \in Builders,
               CreateSession(r, b, who)
        PROVE  Rightly(i)
    <3>1. [builder |-> who, expires |-> now + MaxAge] # NoRow
      BY DEF Row, TypeOK
    <3>2. QED BY <2>4, <3>1 DEF CreateSession, TypeOK
  <2>5. ASSUME NEW r \in Requests, NEW b \in Browsers, BeginCheck(r, b) \/ BeginLogout(r, b)
        PROVE  Rightly(i)
    BY <2>5 DEF BeginCheck, BeginLogout
  <2>6. ASSUME NEW r \in Requests,
               \/ setSessionCookie(r) \/ Look(r) \/ Admit(r) \/ Serve(r)
               \/ ClearCookie(r) \/ DeleteFails(r) \/ EndsEarly(r)
        PROVE  Rightly(i)
    BY <2>6 DEF setSessionCookie, Look, Admit, Serve, ClearCookie, DeleteFails, EndsEarly
  <2>7. CASE Tick \/ CleanFails \/ Restart \/ UNCHANGED vars
    BY <2>7 DEF Tick, CleanFails, Restart, vars
  <2>8. QED BY <2>1, <2>2, <2>3, <2>4, <2>5, <2>6, <2>7 DEF Next, Begin, Step
<1>2. IInv /\ [Next]_vars => [\A i \in Ids : Ended(i) => Rightly(i)]_vars
  BY <1>1
<1>3. QED BY <1>2, Inductive, PTL DEF Spec, NoEarlyEnd

=============================================================================
