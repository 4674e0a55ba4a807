--------------------------- MODULE SessionsProofs ---------------------------
(* The properties of Sessions, for any users, tokens, tabs and requests. *)
EXTENDS Sessions, TLAPS

\* TypeOK, but for the accounts of rows, which Owned names.
Types ==
  /\ account \in [Users -> {"absent", "active", "suspended"}]
  /\ owner \in [SessionTokens -> Users \cup {None}]
  /\ origin \in [SessionTokens -> {"none", "login", "register"}]
  /\ sessions \subseteq SessionTokens
  /\ lapsed \subseteq sessions
  /\ ended \subseteq SessionTokens
  /\ csrf \in [SessionTokens -> Csrf]
  /\ issued \in [CsrfTokens -> Session]
  /\ jar \in Session
  /\ form \in [Tabs -> [session : Session, token : Csrf]]
  /\ pc \in [Requests -> Places]
  /\ req \in [Requests -> Request]
  /\ valid \in [Requests -> [session : BOOLEAN, account : BOOLEAN]]

\* Every row, there or deleted by a logout, is of an account that exists.
Owned == \A s \in sessions \cup ended : owner[s] \in Users /\ account[owner[s]] # "absent"

\* A CSRF token, wherever it is, is with the session it was minted for.
Issued ==
  /\ \A s \in SessionTokens : csrf[s] # None => issued[csrf[s]] = s
  /\ \A t \in Tabs : form[t].token # None =>
       form[t].session \in SessionTokens /\ issued[form[t].token] = form[t].session
  /\ \A r \in Requests :
       LET s == IF req[r].kind = "post" THEN req[r].page ELSE req[r].cookie
       IN  /\ req[r].hash # None =>
                req[r].cookie \in SessionTokens /\ issued[req[r].hash] = req[r].cookie
           /\ req[r].token # None => s \in SessionTokens /\ issued[req[r].token] = s

\* What a request has read and been given at each place.
Requested ==
  \A r \in Requests :
    /\ pc[r] \in {"candidate", "create", "insert"} =>
         req[r].user \in Users /\ req[r].token = None /\ req[r].hash = None
    /\ pc[r] = "create" => account[req[r].user] # "absent"
    /\ req[r].kind = "load" => req[r].tab \in Tabs

\* A request that has found its session: the row is there, or a logout ended it.
Found ==
  \A r \in Requests :
    /\ pc[r] \in {"user", "act", "acted"} => req[r].cookie \in sessions \cup ended
    /\ pc[r] = "user" => req[r].user = owner[req[r].cookie]

\* What a form that acts has had verified.
Verified ==
  \A r \in Requests : pc[r] = "acted" =>
    req[r].kind = "post" /\ req[r].token # None /\ req[r].token = req[r].hash

\* A registration that has not committed is the only one of its account, which
\* does not exist yet, and nor does its session.
Registering ==
  \A r \in Requests : Uncommitted(r) =>
    /\ req[r].user \in Users /\ account[req[r].user] = "absent"
    /\ req[r].cookie \in SessionTokens \ (sessions \cup ended)
    /\ owner[req[r].cookie] = req[r].user
    /\ \A q \in Requests : Uncommitted(q) /\ req[q].user = req[r].user => q = r

\* The inductive invariant, but for the history variable.
SessionsInv ==
  /\ Types
  /\ Owned
  /\ Issued
  /\ Requested
  /\ Found
  /\ Verified
  /\ Registering
  /\ LoggedOutStaysOut
  /\ OneRegistrationPerAccount

LEMMA InitEstablishes == Init => SessionsInv
  BY SessionsAssumption DEF Init, SessionsInv, Types, Owned, Issued, Requested, Found, Verified,
     Registering, LoggedOutStaysOut, OneRegistrationPerAccount, Uncommitted, NoRequest, Request,
     Kinds, Places, Session, Csrf

LEMMA FoundRequest ==
  ASSUME NEW q \in Request, NEW u \in Users \cup {None}, NEW h \in Csrf
  PROVE  [q EXCEPT !.hash = h, !.user = u] \in Request
  BY DEF Request

LEMMA MintedRequest ==
  ASSUME NEW q \in Request, NEW u \in Users \cup {None}, NEW s \in Session
  PROVE  [q EXCEPT !.cookie = s, !.user = u] \in Request
  BY DEF Request

LEMMA CommittedRequest ==
  ASSUME NEW q \in Request
  PROVE  [q EXCEPT !.user = None] \in Request /\ NoRequest \in Request
  BY DEF NoRequest, Request, Session, Csrf, Kinds

LEMMA LoggedOutRequest ==
  ASSUME NEW s \in Session
  PROVE  LET p == [NoRequest EXCEPT !.kind = "logout", !.cookie = s]
         IN  /\ p \in Request
             /\ p.kind = "logout" /\ p.cookie = s /\ p.user = None /\ p.tab = None
             /\ p.page = None /\ p.token = None /\ p.hash = None
  BY DEF NoRequest, Request, Session, Csrf, Kinds

LEMMA RequestsUpdate ==
  ASSUME req \in [Requests -> Request], NEW q \in Request, NEW r \in Requests
  PROVE  [req EXCEPT ![r] = q] \in [Requests -> Request]
  OBVIOUS

USE SessionsAssumption DEF rows, browser, Goto, Request, Kinds, Places, Session, Csrf

LEMMA RefusePreserves ==
  ASSUME SessionsInv, valid' \in [Requests -> [session : BOOLEAN, account : BOOLEAN]],
         NEW r \in Requests, ~Uncommitted(r), Refuse(r), UNCHANGED <<rows, browser>>
  PROVE  SessionsInv'
<1> USE DEF SessionsInv, Refuse, NoRequest, Uncommitted
<1>1. Types'
  BY DEF Types, Requested, Found, Owned, Registering
<1>2. Owned'
  BY DEF Owned, Types, Registering, Requested
<1>3. Issued'
  BY DEF Issued, Types, Requested, Found, Owned
<1>4. Requested'
  BY DEF Requested, Types
<1>5. Found'
  BY DEF Found, Types, Owned
<1>6. Verified'
  BY DEF Verified, Types
<1>7. Registering'
  BY DEF Registering, Types, Owned, Found
<1>8. LoggedOutStaysOut'
  BY DEF LoggedOutStaysOut, Types, Owned, Registering, Found
<1>9. OneRegistrationPerAccount'
  BY DEF OneRegistrationPerAccount, Types, Owned, Registering, Found
<1> QED
  BY <1>1, <1>2, <1>3, <1>4, <1>5, <1>6, <1>7, <1>8, <1>9

LEMMA LoadFormPreserves ==
  ASSUME SessionsInv, valid' \in [Requests -> [session : BOOLEAN, account : BOOLEAN]],
         NEW r \in Requests, NEW t \in Tabs, LoadForm(r, t)
  PROVE  SessionsInv'
<1> USE DEF SessionsInv, LoadForm, Send, NoRequest
<1>1. Types'
  BY DEF Types, Requested, Found, Owned, Registering, Uncommitted
<1>2. Owned'
  BY DEF Owned, Types, Registering, Requested, Uncommitted
<1>3. Issued'
  BY DEF Issued, Types, Requested, Found, Owned
<1>4. Requested'
  BY DEF Requested, Types
<1>5. Found'
  BY DEF Found, Types, Owned
<1>6. Verified'
  BY DEF Verified, Types
<1>7. Registering'
  BY DEF Registering, Types, Owned, Found, Uncommitted
<1>8. LoggedOutStaysOut'
  BY DEF LoggedOutStaysOut, Types, Owned, Registering, Found, Uncommitted
<1>9. OneRegistrationPerAccount'
  BY DEF OneRegistrationPerAccount, Types, Owned, Registering, Found, Uncommitted
<1> QED
  BY <1>1, <1>2, <1>3, <1>4, <1>5, <1>6, <1>7, <1>8, <1>9

LEMMA PostFormPreserves ==
  ASSUME SessionsInv, valid' \in [Requests -> [session : BOOLEAN, account : BOOLEAN]],
         NEW r \in Requests, NEW t \in Tabs, PostForm(r, t)
  PROVE  SessionsInv'
<1> USE DEF SessionsInv, PostForm, Send, NoRequest
<1>1. Types'
  BY DEF Types, Requested, Found, Owned, Registering, Uncommitted
<1>2. Owned'
  BY DEF Owned, Types, Registering, Requested, Uncommitted
<1>3. Issued'
  BY DEF Issued, Types, Requested, Found, Owned
<1>4. Requested'
  BY DEF Requested, Types
<1>5. Found'
  BY DEF Found, Types, Owned
<1>6. Verified'
  BY DEF Verified, Types
<1>7. Registering'
  BY DEF Registering, Types, Owned, Found, Uncommitted
<1>8. LoggedOutStaysOut'
  BY DEF LoggedOutStaysOut, Types, Owned, Registering, Found, Uncommitted
<1>9. OneRegistrationPerAccount'
  BY DEF OneRegistrationPerAccount, Types, Owned, Registering, Found, Uncommitted
<1> QED
  BY <1>1, <1>2, <1>3, <1>4, <1>5, <1>6, <1>7, <1>8, <1>9

LEMMA LogOutPreserves ==
  ASSUME SessionsInv, valid' \in [Requests -> [session : BOOLEAN, account : BOOLEAN]],
         NEW r \in Requests, LogOut(r)
  PROVE  SessionsInv'
<1> USE DEF SessionsInv, LogOut, Send, NoRequest
<1>1. Types'
  BY DEF Types, Requested, Found, Owned, Registering, Uncommitted
<1>2. Owned'
  BY DEF Owned, Types, Registering, Requested, Uncommitted
<1>3. Issued'
  BY DEF Issued, Types, Requested, Found, Owned
<1>4. Requested'
  BY DEF Requested, Types
<1>5. Found'
  BY DEF Found, Types, Owned
<1>6. Verified'
  BY DEF Verified, Types
<1>7. Registering'
  BY DEF Registering, Types, Owned, Found, Uncommitted
<1>8. LoggedOutStaysOut'
  BY DEF LoggedOutStaysOut, Types, Owned, Registering, Found, Uncommitted
<1>9. OneRegistrationPerAccount'
  BY DEF OneRegistrationPerAccount, Types, Owned, Registering, Found, Uncommitted
<1> QED
  BY <1>1, <1>2, <1>3, <1>4, <1>5, <1>6, <1>7, <1>8, <1>9

LEMMA LogInPreserves ==
  ASSUME SessionsInv, valid' \in [Requests -> [session : BOOLEAN, account : BOOLEAN]],
         NEW r \in Requests, NEW u \in Users, LogIn(r, u)
  PROVE  SessionsInv'
<1> USE DEF SessionsInv, LogIn, Send, NoRequest
<1>1. Types'
  BY DEF Types, Requested, Found, Owned, Registering, Uncommitted
<1>2. Owned'
  BY DEF Owned, Types, Registering, Requested, Uncommitted
<1>3. Issued'
  BY DEF Issued, Types, Requested, Found, Owned
<1>4. Requested'
  BY DEF Requested, Types
<1>5. Found'
  BY DEF Found, Types, Owned
<1>6. Verified'
  BY DEF Verified, Types
<1>7. Registering'
  BY DEF Registering, Types, Owned, Found, Uncommitted
<1>8. LoggedOutStaysOut'
  BY DEF LoggedOutStaysOut, Types, Owned, Registering, Found, Uncommitted
<1>9. OneRegistrationPerAccount'
  BY DEF OneRegistrationPerAccount, Types, Owned, Registering, Found, Uncommitted
<1> QED
  BY <1>1, <1>2, <1>3, <1>4, <1>5, <1>6, <1>7, <1>8, <1>9

LEMMA RegisterPreserves ==
  ASSUME SessionsInv, valid' \in [Requests -> [session : BOOLEAN, account : BOOLEAN]],
         NEW r \in Requests, NEW u \in Users, Register(r, u)
  PROVE  SessionsInv'
<1> USE DEF SessionsInv, Register, Send, NoRequest
<1>1. Types'
  BY DEF Types, Requested, Found, Owned, Registering, Uncommitted
<1>2. Owned'
  BY DEF Owned, Types, Registering, Requested, Uncommitted
<1>3. Issued'
  BY DEF Issued, Types, Requested, Found, Owned
<1>4. Requested'
  BY DEF Requested, Types
<1>5. Found'
  BY DEF Found, Types, Owned
<1>6. Verified'
  BY DEF Verified, Types
<1>7. Registering'
  BY DEF Registering, Types, Owned, Found, Uncommitted
<1>8. LoggedOutStaysOut'
  BY DEF LoggedOutStaysOut, Types, Owned, Registering, Found, Uncommitted
<1>9. OneRegistrationPerAccount'
  BY DEF OneRegistrationPerAccount, Types, Owned, Registering, Found, Uncommitted
<1> QED
  BY <1>1, <1>2, <1>3, <1>4, <1>5, <1>6, <1>7, <1>8, <1>9

LEMMA FindByTokenHashPreserves ==
  ASSUME SessionsInv, valid' \in [Requests -> [session : BOOLEAN, account : BOOLEAN]],
         NEW r \in Requests, FindByTokenHash(r)
  PROVE  SessionsInv'
<1>1. CASE Refuse(r) /\ UNCHANGED <<rows, browser>>
  BY <1>1, RefusePreserves DEF FindByTokenHash, Uncommitted
<1>2. CASE Live(req[r].cookie)
  <2>1. /\ pc[r] = "session"
       /\ req[r].cookie \in sessions /\ req[r].cookie \in SessionTokens
       /\ owner[req[r].cookie] \in Users /\ csrf[req[r].cookie] \in Csrf
    BY <1>2 DEF SessionsInv, FindByTokenHash, Types, Owned, Live
  <2>2. /\ req' = [req EXCEPT ![r] = [req[r] EXCEPT !.hash = csrf[req[r].cookie], !.user = owner[req[r].cookie]]]
       /\ pc' = [pc EXCEPT ![r] = "user"]
       /\ UNCHANGED <<rows, browser>>
    BY <1>2, <2>1 DEF SessionsInv, Types, FindByTokenHash
  <2>3. req' \in [Requests -> Request]
    <3>1. req[r] \in Request
      BY DEF SessionsInv, Types
    <3>2. [req[r] EXCEPT !.hash = csrf[req[r].cookie], !.user = owner[req[r].cookie]] \in Request
      BY <2>1, <3>1, FoundRequest
    <3> QED
      BY <2>2, <3>2, RequestsUpdate DEF SessionsInv, Types
  <2>4. /\ pc'[r] = "user"
       /\ req'[r].kind = req[r].kind
       /\ req'[r].cookie = req[r].cookie
       /\ req'[r].user = owner[req[r].cookie]
       /\ req'[r].tab = req[r].tab
       /\ req'[r].page = req[r].page
       /\ req'[r].token = req[r].token
       /\ req'[r].hash = csrf[req[r].cookie]
       /\ \A q \in Requests \ {r} : req'[q] = req[q] /\ pc'[q] = pc[q]
    BY <2>2 DEF SessionsInv, Types
  <2>5. Types'
    BY <2>1, <2>2, <2>3, <2>4 DEF SessionsInv, Types, Requested, Found, Owned, Registering, Uncommitted
  <2>6. Owned'
    BY <2>1, <2>2, <2>3, <2>4 DEF SessionsInv, Owned, Types, Registering, Requested, Uncommitted
  <2>7. Issued'
    BY <2>1, <2>2, <2>3, <2>4 DEF SessionsInv, Issued, Types, Requested, Found, Owned
  <2>8. Requested'
    BY <2>1, <2>2, <2>3, <2>4 DEF SessionsInv, Requested, Types
  <2>9. Found'
    BY <2>1, <2>2, <2>3, <2>4 DEF SessionsInv, Found, Types, Owned
  <2>10. Verified'
    BY <2>1, <2>2, <2>3, <2>4 DEF SessionsInv, Verified, Types
  <2>11. Registering'
    BY <2>1, <2>2, <2>3, <2>4 DEF SessionsInv, Registering, Types, Owned, Found, Uncommitted
  <2>12. LoggedOutStaysOut'
    BY <2>1, <2>2, <2>3, <2>4 DEF SessionsInv, LoggedOutStaysOut, Types, Owned, Registering, Found, Uncommitted
  <2>13. OneRegistrationPerAccount'
    BY <2>1, <2>2, <2>3, <2>4 DEF SessionsInv, OneRegistrationPerAccount, Types, Owned, Registering, Found, Uncommitted
  <2> QED
    BY <2>5, <2>6, <2>7, <2>8, <2>9, <2>10, <2>11, <2>12, <2>13 DEF SessionsInv
<1> QED
  BY <1>1, <1>2 DEF FindByTokenHash

LEMMA FindByIdPreserves ==
  ASSUME SessionsInv, valid' \in [Requests -> [session : BOOLEAN, account : BOOLEAN]],
         NEW r \in Requests, FindById(r)
  PROVE  SessionsInv'
<1>1. CASE Refuse(r) /\ UNCHANGED <<rows, browser>>
  BY <1>1, RefusePreserves DEF FindById, Uncommitted
<1>2. CASE pc' = [pc EXCEPT ![r] = "act"] /\ UNCHANGED req
  <2> USE <1>2 DEF SessionsInv, FindById
  <2>1. Types'
    BY DEF Types, Requested, Found, Owned, Registering, Uncommitted
  <2>2. Owned'
    BY DEF Owned, Types, Registering, Requested, Uncommitted
  <2>3. Issued'
    BY DEF Issued, Types, Requested, Found, Owned
  <2>4. Requested'
    BY DEF Requested, Types
  <2>5. Found'
    BY DEF Found, Types, Owned
  <2>6. Verified'
    BY DEF Verified, Types
  <2>7. Registering'
    BY DEF Registering, Types, Owned, Found, Uncommitted
  <2>8. LoggedOutStaysOut'
    BY DEF LoggedOutStaysOut, Types, Owned, Registering, Found, Uncommitted
  <2>9. OneRegistrationPerAccount'
    BY DEF OneRegistrationPerAccount, Types, Owned, Registering, Found, Uncommitted
  <2> QED
    BY <2>1, <2>2, <2>3, <2>4, <2>5, <2>6, <2>7, <2>8, <2>9
<1> QED
  BY <1>1, <1>2 DEF FindById

LEMMA SetCsrfTokenHashPreserves ==
  ASSUME SessionsInv, valid' \in [Requests -> [session : BOOLEAN, account : BOOLEAN]],
         NEW r \in Requests, SetCsrfTokenHash(r)
  PROVE  SessionsInv'
<1>1. CASE Refuse(r) /\ UNCHANGED <<rows, browser>>
  BY <1>1, RefusePreserves DEF SetCsrfTokenHash, Uncommitted
<1>2. CASE req[r].cookie \in sessions
  <2>5. PICK c \in CsrfTokens :
         /\ issued[c] = None
         /\ issued' = [issued EXCEPT ![c] = req[r].cookie]
         /\ csrf' = [csrf EXCEPT ![req[r].cookie] = c]
         /\ req' = [req EXCEPT ![r].token = c, ![r].hash = None, ![r].user = None,
                               ![r].kind = IF @ = "token" THEN "logout" ELSE @]
    BY <1>2 DEF SetCsrfTokenHash
  <2>1. pc[r] = "act" /\ req[r].cookie \in SessionTokens /\ req[r].kind \in {"load", "token"}
    BY <1>2 DEF SessionsInv, SetCsrfTokenHash, Types
  <2> DEFINE kind == IF req[r].kind = "token" THEN "logout" ELSE req[r].kind
             place == IF req[r].kind = "token" THEN "session" ELSE "reply"
  <2> DEFINE p == [req[r] EXCEPT !.token = c, !.hash = None, !.user = None, !.kind = kind]
  <2>0. /\ kind \in {"load", "logout"} /\ place \in {"session", "reply"}
        /\ kind = "load" => req[r].kind = "load"
    BY <2>1
  <2>2. /\ req' = [req EXCEPT ![r] = p]
        /\ pc' = [pc EXCEPT ![r] = place]
        /\ issued[c] = None
        /\ issued' = [issued EXCEPT ![c] = req[r].cookie]
        /\ csrf' = [csrf EXCEPT ![req[r].cookie] = c]
        /\ UNCHANGED <<account, owner, origin, sessions, lapsed, ended, browser>>
    BY <1>2, <2>5, <2>1 DEF SessionsInv, Types, SetCsrfTokenHash
  <2>6. req[r] \in Request /\ c \in Csrf /\ kind \in Kinds
    BY <2>0 DEF SessionsInv, Types
  <2> HIDE DEF kind, place
  <2>7. /\ p \in Request
        /\ p.kind = kind /\ p.cookie = req[r].cookie /\ p.user = None /\ p.tab = req[r].tab
        /\ p.page = req[r].page /\ p.token = c /\ p.hash = None
    <3> HIDE DEF Request, Csrf, Kinds, p
    <3>1. p = [req[r] EXCEPT !.token = c, !.hash = None, !.user = None, !.kind = kind]
      BY DEF p
    <3> DEFINE q == req[r]
    <3> HIDE DEF q, kind
    <3>2. q \in Request
      BY <2>6 DEF q
    <3>3. p = [q EXCEPT !.token = c, !.hash = None, !.user = None, !.kind = kind]
      BY <3>1 DEF q
    <3>4. /\ p \in Request
          /\ p.kind = kind /\ p.cookie = q.cookie /\ p.user = None /\ p.tab = q.tab
          /\ p.page = q.page /\ p.token = c /\ p.hash = None
      BY <2>6, <3>2, <3>3 DEF Request, Csrf, Kinds, Session
    <3> QED
      BY <3>4 DEF q
  <2> HIDE DEF p
  <2>3. req' \in [Requests -> Request]
    BY <2>2, <2>7, RequestsUpdate DEF SessionsInv, Types
  <2>4. /\ pc'[r] = place
        /\ req'[r] = p
        /\ \A q \in Requests \ {r} : req'[q] = req[q] /\ pc'[q] = pc[q]
    BY <2>2 DEF SessionsInv, Types
  <2>8. Types'
    BY <2>1, <2>2, <2>0, <2>3, <2>4, <2>7 DEF SessionsInv, Types, Requested, Found, Owned, Registering, Uncommitted
  <2>9. Owned'
    BY <2>1, <2>2, <2>0, <2>3, <2>4, <2>7 DEF SessionsInv, Owned, Types, Registering, Requested, Uncommitted
  <2>10. Issued'
    BY <2>1, <2>2, <2>0, <2>3, <2>4, <2>7 DEF SessionsInv, Issued, Types, Requested, Found, Owned
  <2>11. Requested'
    BY <2>1, <2>2, <2>0, <2>3, <2>4, <2>7 DEF SessionsInv, Requested, Types
  <2>12. Found'
    BY <2>1, <2>2, <2>0, <2>3, <2>4, <2>7 DEF SessionsInv, Found, Types, Owned
  <2>13. Verified'
    BY <2>1, <2>2, <2>0, <2>3, <2>4, <2>7 DEF SessionsInv, Verified, Types
  <2>14. Registering'
    BY <2>1, <2>2, <2>0, <2>3, <2>4, <2>7 DEF SessionsInv, Registering, Types, Owned, Found, Uncommitted
  <2>15. LoggedOutStaysOut'
    BY <2>1, <2>2, <2>0, <2>3, <2>4, <2>7 DEF SessionsInv, LoggedOutStaysOut, Types, Owned, Registering, Found, Uncommitted
  <2>16. OneRegistrationPerAccount'
    BY <2>1, <2>2, <2>0, <2>3, <2>4, <2>7 DEF SessionsInv, OneRegistrationPerAccount, Types, Owned, Registering, Found, Uncommitted
  <2> QED
    BY <2>8, <2>9, <2>10, <2>11, <2>12, <2>13, <2>14, <2>15, <2>16 DEF SessionsInv
<1> QED
  BY <1>1, <1>2 DEF SetCsrfTokenHash

LEMMA MutatePreserves ==
  ASSUME SessionsInv, valid' \in [Requests -> [session : BOOLEAN, account : BOOLEAN]],
         NEW r \in Requests, Mutate(r)
  PROVE  SessionsInv'
<1>1. CASE Refuse(r) /\ UNCHANGED <<rows, browser>>
  BY <1>1, RefusePreserves DEF Mutate, Uncommitted
<1>2. CASE VerifySessionCsrf(r)
  <2> USE <1>2 DEF SessionsInv, Mutate, VerifySessionCsrf
  <2>1. Types'
    BY DEF Types, Requested, Found, Owned, Registering, Uncommitted
  <2>2. Owned'
    BY DEF Owned, Types, Registering, Requested, Uncommitted
  <2>3. Issued'
    BY DEF Issued, Types, Requested, Found, Owned
  <2>4. Requested'
    BY DEF Requested, Types
  <2>5. Found'
    BY DEF Found, Types, Owned
  <2>6. Verified'
    BY DEF Verified, Types
  <2>7. Registering'
    BY DEF Registering, Types, Owned, Found, Uncommitted
  <2>8. LoggedOutStaysOut'
    BY DEF LoggedOutStaysOut, Types, Owned, Registering, Found, Uncommitted
  <2>9. OneRegistrationPerAccount'
    BY DEF OneRegistrationPerAccount, Types, Owned, Registering, Found, Uncommitted
  <2> QED
    BY <2>1, <2>2, <2>3, <2>4, <2>5, <2>6, <2>7, <2>8, <2>9
<1> QED
  BY <1>1, <1>2 DEF Mutate

LEMMA DeleteByTokenHashPreserves ==
  ASSUME SessionsInv, valid' \in [Requests -> [session : BOOLEAN, account : BOOLEAN]],
         NEW r \in Requests, DeleteByTokenHash(r)
  PROVE  SessionsInv'
<1>1. CASE Refuse(r) /\ UNCHANGED <<rows, browser>>
  BY <1>1, RefusePreserves DEF DeleteByTokenHash, Uncommitted
<1>2. CASE VerifySessionCsrf(r)
  <2>1. pc[r] = "act" /\ req[r].cookie \in SessionTokens /\ req[r].cookie \in sessions \cup ended
    BY <1>2 DEF SessionsInv, DeleteByTokenHash, Types, Found
  <2> DEFINE p == [NoRequest EXCEPT !.kind = "logout", !.cookie = req[r].cookie]
  <2>0. /\ p \in Request
        /\ p.kind = "logout" /\ p.cookie = req[r].cookie /\ p.user = None /\ p.tab = None
        /\ p.page = None /\ p.token = None /\ p.hash = None
    BY <2>1, LoggedOutRequest DEF Session
  <2>2. /\ req' = [req EXCEPT ![r] = p]
       /\ pc' = [pc EXCEPT ![r] = "reply"]
       /\ sessions' = sessions \ {req[r].cookie}
       /\ csrf' = [csrf EXCEPT ![req[r].cookie] = None]
       /\ lapsed' = lapsed \ {req[r].cookie}
       /\ ended' = ended \cup {req[r].cookie}
       /\ UNCHANGED <<account, owner, origin, issued, browser>>
    BY <1>2 DEF DeleteByTokenHash
  <2> HIDE DEF p
  <2>3. req' \in [Requests -> Request]
    BY <2>2, <2>0, RequestsUpdate DEF SessionsInv, Types
  <2>4. /\ pc'[r] = "reply"
       /\ req'[r] = p
       /\ \A q \in Requests \ {r} : req'[q] = req[q] /\ pc'[q] = pc[q]
    BY <2>2 DEF SessionsInv, Types
  <2>5. Types'
    BY <2>1, <2>2, <2>0, <2>3, <2>4 DEF SessionsInv, Types, Requested, Found, Owned, Registering, Uncommitted
  <2>6. Owned'
    BY <2>1, <2>2, <2>0, <2>3, <2>4 DEF SessionsInv, Owned, Types, Registering, Requested, Uncommitted
  <2>7. Issued'
    BY <2>1, <2>2, <2>0, <2>3, <2>4 DEF SessionsInv, Issued, Types, Requested, Found, Owned
  <2>8. Requested'
    BY <2>1, <2>2, <2>0, <2>3, <2>4 DEF SessionsInv, Requested, Types
  <2>9. Found'
    BY <2>1, <2>2, <2>0, <2>3, <2>4 DEF SessionsInv, Found, Types, Owned
  <2>10. Verified'
    BY <2>1, <2>2, <2>0, <2>3, <2>4 DEF SessionsInv, Verified, Types
  <2>11. Registering'
    BY <2>1, <2>2, <2>0, <2>3, <2>4 DEF SessionsInv, Registering, Types, Owned, Found, Uncommitted
  <2>12. LoggedOutStaysOut'
    BY <2>1, <2>2, <2>0, <2>3, <2>4 DEF SessionsInv, LoggedOutStaysOut, Types, Owned, Registering, Found, Uncommitted
  <2>13. OneRegistrationPerAccount'
    BY <2>1, <2>2, <2>0, <2>3, <2>4 DEF SessionsInv, OneRegistrationPerAccount, Types, Owned, Registering, Found, Uncommitted
  <2> QED
    BY <2>5, <2>6, <2>7, <2>8, <2>9, <2>10, <2>11, <2>12, <2>13 DEF SessionsInv
<1> QED
  BY <1>1, <1>2 DEF DeleteByTokenHash

LEMMA FindLoginCandidatePreserves ==
  ASSUME SessionsInv, valid' \in [Requests -> [session : BOOLEAN, account : BOOLEAN]],
         NEW r \in Requests, FindLoginCandidate(r)
  PROVE  SessionsInv'
<1>1. CASE Refuse(r) /\ UNCHANGED <<rows, browser>>
  BY <1>1, RefusePreserves DEF FindLoginCandidate, Uncommitted
<1>2. CASE account[req[r].user] = "active" /\ pc' = [pc EXCEPT ![r] = "create"] /\ UNCHANGED req
  <2> USE <1>2 DEF SessionsInv, FindLoginCandidate
  <2>1. Types'
    BY DEF Types, Requested, Found, Owned, Registering, Uncommitted
  <2>2. Owned'
    BY DEF Owned, Types, Registering, Requested, Uncommitted
  <2>3. Issued'
    BY DEF Issued, Types, Requested, Found, Owned
  <2>4. Requested'
    BY DEF Requested, Types
  <2>5. Found'
    BY DEF Found, Types, Owned
  <2>6. Verified'
    BY DEF Verified, Types
  <2>7. Registering'
    BY DEF Registering, Types, Owned, Found, Uncommitted
  <2>8. LoggedOutStaysOut'
    BY DEF LoggedOutStaysOut, Types, Owned, Registering, Found, Uncommitted
  <2>9. OneRegistrationPerAccount'
    BY DEF OneRegistrationPerAccount, Types, Owned, Registering, Found, Uncommitted
  <2> QED
    BY <2>1, <2>2, <2>3, <2>4, <2>5, <2>6, <2>7, <2>8, <2>9
<1> QED
  BY <1>1, <1>2 DEF FindLoginCandidate

LEMMA CreateSessionPreserves ==
  ASSUME SessionsInv, valid' \in [Requests -> [session : BOOLEAN, account : BOOLEAN]],
         NEW r \in Requests, CreateSession(r)
  PROVE  SessionsInv'
<1> PICK s \in SessionTokens : Mint(r, s, "login") /\ sessions' = sessions \cup {s}
  BY DEF CreateSession
<1>1. pc[r] = "create" /\ owner[s] = None /\ req[r].user \in Users
  BY DEF SessionsInv, CreateSession, Mint, Types, Requested
<1>2. /\ req' = [req EXCEPT ![r] = [req[r] EXCEPT !.cookie = s, !.user = None]]
     /\ pc' = [pc EXCEPT ![r] = "reply"]
     /\ owner' = [owner EXCEPT ![s] = req[r].user]
     /\ origin' = [origin EXCEPT ![s] = "login"]
     /\ sessions' = sessions \cup {s}
     /\ UNCHANGED <<account, lapsed, ended, csrf, issued, browser>>
  BY <1>1 DEF SessionsInv, Types, CreateSession, Mint
<1>3. req' \in [Requests -> Request]
  <2>1. req[r] \in Request
    BY DEF SessionsInv, Types
  <2>2. [req[r] EXCEPT !.cookie = s, !.user = None] \in Request
    BY <2>1, MintedRequest DEF Session
  <2> QED
    BY <1>2, <2>2, RequestsUpdate DEF SessionsInv, Types
<1>4. /\ pc'[r] = "reply"
     /\ req'[r].kind = req[r].kind
     /\ req'[r].cookie = s
     /\ req'[r].user = None
     /\ req'[r].tab = req[r].tab
     /\ req'[r].page = req[r].page
     /\ req'[r].token = req[r].token
     /\ req'[r].hash = req[r].hash
     /\ \A q \in Requests \ {r} : req'[q] = req[q] /\ pc'[q] = pc[q]
  BY <1>2 DEF SessionsInv, Types
<1>5. Types'
  BY <1>1, <1>2, <1>3, <1>4 DEF SessionsInv, Types, Requested, Found, Owned, Registering, Uncommitted
<1>6. Owned'
  BY <1>1, <1>2, <1>3, <1>4 DEF SessionsInv, Owned, Types, Registering, Requested, Uncommitted
<1>7. Issued'
  BY <1>1, <1>2, <1>3, <1>4 DEF SessionsInv, Issued, Types, Requested, Found, Owned
<1>8. Requested'
  BY <1>1, <1>2, <1>3, <1>4 DEF SessionsInv, Requested, Types
<1>9. Found'
  BY <1>1, <1>2, <1>3, <1>4 DEF SessionsInv, Found, Types, Owned
<1>10. Verified'
  BY <1>1, <1>2, <1>3, <1>4 DEF SessionsInv, Verified, Types
<1>11. Registering'
  BY <1>1, <1>2, <1>3, <1>4 DEF SessionsInv, Registering, Types, Owned, Found, Uncommitted
<1>12. LoggedOutStaysOut'
  BY <1>1, <1>2, <1>3, <1>4 DEF SessionsInv, LoggedOutStaysOut, Types, Owned, Registering, Found, Uncommitted
<1>13. OneRegistrationPerAccount'
  BY <1>1, <1>2, <1>3, <1>4 DEF SessionsInv, OneRegistrationPerAccount, Types, Owned, Registering, Found, Uncommitted
<1> QED
  BY <1>5, <1>6, <1>7, <1>8, <1>9, <1>10, <1>11, <1>12, <1>13 DEF SessionsInv

LEMMA InsertPreserves ==
  ASSUME SessionsInv, valid' \in [Requests -> [session : BOOLEAN, account : BOOLEAN]],
         NEW r \in Requests, Insert(r)
  PROVE  SessionsInv'
<1>1. CASE Refuse(r) /\ UNCHANGED <<rows, browser>>
  BY <1>1, RefusePreserves DEF Insert, Uncommitted
<1>2. CASE account[req[r].user] = "absent"
  <2> PICK s \in SessionTokens : Mint(r, s, "register")
    BY <1>2 DEF Insert
  <2>1. /\ pc[r] = "insert" /\ owner[s] = None /\ req[r].user \in Users
       /\ \A q \in Requests : Uncommitted(q) => req[q].user # req[r].user
    BY <1>2 DEF SessionsInv, Insert, Types, Requested, Mint
  <2>2. /\ req' = [req EXCEPT ![r] = [req[r] EXCEPT !.cookie = s, !.user = req[r].user]]
       /\ pc' = [pc EXCEPT ![r] = "commit"]
       /\ owner' = [owner EXCEPT ![s] = req[r].user]
       /\ origin' = [origin EXCEPT ![s] = "register"]
       /\ UNCHANGED <<account, sessions, lapsed, ended, csrf, issued, browser>>
    BY <1>2, <2>1 DEF SessionsInv, Types, Insert, Mint
  <2>3. req' \in [Requests -> Request]
    <3>1. req[r] \in Request /\ req[r].user \in Users \cup {None}
      BY <2>1 DEF SessionsInv, Types
    <3>2. [req[r] EXCEPT !.cookie = s, !.user = req[r].user] \in Request
      BY <3>1, MintedRequest DEF Session
    <3> QED
      BY <2>2, <3>2, RequestsUpdate DEF SessionsInv, Types
  <2>4. /\ pc'[r] = "commit"
       /\ req'[r].kind = req[r].kind
       /\ req'[r].cookie = s
       /\ req'[r].user = req[r].user
       /\ req'[r].tab = req[r].tab
       /\ req'[r].page = req[r].page
       /\ req'[r].token = req[r].token
       /\ req'[r].hash = req[r].hash
       /\ \A q \in Requests \ {r} : req'[q] = req[q] /\ pc'[q] = pc[q]
    BY <2>2 DEF SessionsInv, Types
  <2>5. Types'
    BY <2>1, <2>2, <2>3, <2>4 DEF SessionsInv, Types, Requested, Found, Owned, Registering, Uncommitted
  <2>6. Owned'
    BY <2>1, <2>2, <2>3, <2>4 DEF SessionsInv, Owned, Types, Registering, Requested, Uncommitted
  <2>7. Issued'
    BY <2>1, <2>2, <2>3, <2>4 DEF SessionsInv, Issued, Types, Requested, Found, Owned
  <2>8. Requested'
    BY <2>1, <2>2, <2>3, <2>4 DEF SessionsInv, Requested, Types
  <2>9. Found'
    BY <2>1, <2>2, <2>3, <2>4 DEF SessionsInv, Found, Types, Owned
  <2>10. Verified'
    BY <2>1, <2>2, <2>3, <2>4 DEF SessionsInv, Verified, Types
  <2>11. Registering'
    <3>1. s \notin sessions \cup ended
      BY <2>1 DEF SessionsInv, Owned
    <3>2. \A q \in Requests \ {r} : Uncommitted(q) => req[q].cookie # s /\ req[q].user # req[r].user
      BY <2>1 DEF SessionsInv, Registering
    <3>3. \A q \in Requests \ {r} : Uncommitted(q)' <=> Uncommitted(q)
      BY <2>4 DEF Uncommitted
    <3>4. owner' = [owner EXCEPT ![s] = req[r].user] /\ owner'[s] = req[r].user
      BY <2>2 DEF SessionsInv, Types
    <3>5. /\ req'[r].user \in Users /\ account'[req'[r].user] = "absent"
          /\ req'[r].cookie \in SessionTokens \ (sessions' \cup ended')
          /\ owner'[req'[r].cookie] = req'[r].user
      BY <1>2, <2>1, <2>2, <2>4, <3>1, <3>4
    <3>6. \A q \in Requests \ {r} : Uncommitted(q)' =>
            /\ req'[q].user \in Users /\ account'[req'[q].user] = "absent"
            /\ req'[q].cookie \in SessionTokens \ (sessions' \cup ended')
            /\ owner'[req'[q].cookie] = req'[q].user
            /\ req'[q].user # req'[r].user
      BY <2>2, <2>4, <3>2, <3>3 DEF SessionsInv, Registering, Types
    <3>7. \A p, q \in Requests \ {r} :
            Uncommitted(p)' /\ Uncommitted(q)' /\ req'[q].user = req'[p].user => q = p
      BY <2>4, <3>3 DEF SessionsInv, Registering
    <3> QED
      BY <3>5, <3>6, <3>7 DEF Registering, Uncommitted
  <2>12. LoggedOutStaysOut'
    BY <2>1, <2>2, <2>3, <2>4 DEF SessionsInv, LoggedOutStaysOut, Types, Owned, Registering, Found, Uncommitted
  <2>13. OneRegistrationPerAccount'
    BY <2>1, <2>2, <2>3, <2>4 DEF SessionsInv, OneRegistrationPerAccount, Types, Owned, Registering, Found, Uncommitted
  <2> QED
    BY <2>5, <2>6, <2>7, <2>8, <2>9, <2>10, <2>11, <2>12, <2>13 DEF SessionsInv
<1> QED
  BY <1>1, <1>2 DEF Insert

LEMMA CommitPreserves ==
  ASSUME SessionsInv, valid' \in [Requests -> [session : BOOLEAN, account : BOOLEAN]],
         NEW r \in Requests, Commit(r)
  PROVE  SessionsInv'
<1> USE DEF SessionsInv, Commit, NoRequest
<1>1. Types'
  <2>1. /\ sessions' \subseteq SessionTokens /\ lapsed' \subseteq sessions'
        /\ account' \in [Users -> {"absent", "active", "suspended"}]
    BY DEF Types, Registering
  <2>2. pc' \in [Requests -> Places]
    BY DEF Types
  <2>3. req' \in [Requests -> Request]
    <3>1. req[r] \in Request
      BY DEF Types
    <3>2. [req[r] EXCEPT !.user = None] \in Request /\ NoRequest \in Request
      BY <3>1, CommittedRequest
    <3> QED
      BY <3>2, RequestsUpdate DEF Types
  <2> QED
    BY <2>1, <2>2, <2>3 DEF Types
<1>2. Owned'
  BY DEF Owned, Types, Registering, Requested, Uncommitted
<1>3. Issued'
  BY DEF Issued, Types, Requested, Found, Owned
<1>4. Requested'
  BY DEF Requested, Types
<1>5. Found'
  BY DEF Found, Types, Owned
<1>6. Verified'
  BY DEF Verified, Types
<1>7. Registering'
  BY DEF Registering, Types, Owned, Found, Uncommitted
<1>8. LoggedOutStaysOut'
  BY DEF LoggedOutStaysOut, Types, Owned, Registering, Found, Uncommitted
<1>9. OneRegistrationPerAccount'
  BY DEF OneRegistrationPerAccount, Types, Owned, Registering, Found, Uncommitted
<1> QED
  BY <1>1, <1>2, <1>3, <1>4, <1>5, <1>6, <1>7, <1>8, <1>9

LEMMA ReplyBeforeCommitPreserves ==
  ASSUME SessionsInv, valid' \in [Requests -> [session : BOOLEAN, account : BOOLEAN]],
         NEW r \in Requests, ReplyBeforeCommit(r)
  PROVE  SessionsInv'
<1> USE DEF SessionsInv, ReplyBeforeCommit, NoRequest
<1>1. Types'
  BY DEF Types, Requested, Found, Owned, Registering, Uncommitted
<1>2. Owned'
  BY DEF Owned, Types, Registering, Requested, Uncommitted
<1>3. Issued'
  BY DEF Issued, Types, Requested, Found, Owned
<1>4. Requested'
  BY DEF Requested, Types
<1>5. Found'
  BY DEF Found, Types, Owned
<1>6. Verified'
  BY DEF Verified, Types
<1>7. Registering'
  BY DEF Registering, Types, Owned, Found, Uncommitted
<1>8. LoggedOutStaysOut'
  BY DEF LoggedOutStaysOut, Types, Owned, Registering, Found, Uncommitted
<1>9. OneRegistrationPerAccount'
  BY DEF OneRegistrationPerAccount, Types, Owned, Registering, Found, Uncommitted
<1> QED
  BY <1>1, <1>2, <1>3, <1>4, <1>5, <1>6, <1>7, <1>8, <1>9

LEMMA ReplyPreserves ==
  ASSUME SessionsInv, valid' \in [Requests -> [session : BOOLEAN, account : BOOLEAN]],
         NEW r \in Requests, Reply(r)
  PROVE  SessionsInv'
<1> USE DEF SessionsInv, Reply, Deliver, NoRequest
<1>1. Types'
  BY DEF Types, Requested, Found, Owned, Registering, Uncommitted
<1>2. Owned'
  BY DEF Owned, Types, Registering, Requested, Uncommitted
<1>3. Issued'
  <2>1. \A t \in Tabs : form'[t] = form[t] \/
          /\ req[r].kind = "load"
          /\ form'[t].token = req[r].token
          /\ req[r].token # None => form'[t].session = req[r].cookie
    BY DEF Types
  <2>2. \A t \in Tabs : form'[t].token # None =>
          form'[t].session \in SessionTokens /\ issued[form'[t].token] = form'[t].session
    BY <2>1 DEF Issued
  <2>3. \A q \in Requests : req'[q] = req[q] \/ (req'[q].hash = None /\ req'[q].token = None)
    <3>1. req'[r].hash = None /\ req'[r].token = None
      BY DEF Types
    <3>2. \A q \in Requests \ {r} : req'[q] = req[q]
      BY DEF Types
    <3> QED
      BY <3>1, <3>2
  <2> QED
    BY <2>2, <2>3 DEF Issued
<1>4. Requested'
  BY DEF Requested, Types
<1>5. Found'
  BY DEF Found, Types, Owned
<1>6. Verified'
  BY DEF Verified, Types
<1>7. Registering'
  BY DEF Registering, Types, Owned, Found, Uncommitted
<1>8. LoggedOutStaysOut'
  BY DEF LoggedOutStaysOut, Types, Owned, Registering, Found, Uncommitted
<1>9. OneRegistrationPerAccount'
  BY DEF OneRegistrationPerAccount, Types, Owned, Registering, Found, Uncommitted
<1> QED
  BY <1>1, <1>2, <1>3, <1>4, <1>5, <1>6, <1>7, <1>8, <1>9

LEMMA LapsePreserves ==
  ASSUME SessionsInv, valid' \in [Requests -> [session : BOOLEAN, account : BOOLEAN]],
         NEW s \in SessionTokens, Lapse(s)
  PROVE  SessionsInv'
<1> USE DEF SessionsInv, Lapse
<1>1. Types'
  BY DEF Types, Requested, Found, Owned, Registering, Uncommitted
<1>2. Owned'
  BY DEF Owned, Types, Registering, Requested, Uncommitted
<1>3. Issued'
  BY DEF Issued, Types, Requested, Found, Owned
<1>4. Requested'
  BY DEF Requested, Types
<1>5. Found'
  BY DEF Found, Types, Owned
<1>6. Verified'
  BY DEF Verified, Types
<1>7. Registering'
  BY DEF Registering, Types, Owned, Found, Uncommitted
<1>8. LoggedOutStaysOut'
  BY DEF LoggedOutStaysOut, Types, Owned, Registering, Found, Uncommitted
<1>9. OneRegistrationPerAccount'
  BY DEF OneRegistrationPerAccount, Types, Owned, Registering, Found, Uncommitted
<1> QED
  BY <1>1, <1>2, <1>3, <1>4, <1>5, <1>6, <1>7, <1>8, <1>9

LEMMA ChangeStatusPreserves ==
  ASSUME SessionsInv, valid' \in [Requests -> [session : BOOLEAN, account : BOOLEAN]],
         NEW u \in Users, ChangeStatus(u)
  PROVE  SessionsInv'
<1> USE DEF SessionsInv, ChangeStatus
<1>1. Types'
  BY DEF Types, Requested, Found, Owned, Registering, Uncommitted
<1>2. Owned'
  BY DEF Owned, Types, Registering, Requested, Uncommitted
<1>3. Issued'
  BY DEF Issued, Types, Requested, Found, Owned
<1>4. Requested'
  BY DEF Requested, Types
<1>5. Found'
  BY DEF Found, Types, Owned
<1>6. Verified'
  BY DEF Verified, Types
<1>7. Registering'
  BY DEF Registering, Types, Owned, Found, Uncommitted
<1>8. LoggedOutStaysOut'
  BY DEF LoggedOutStaysOut, Types, Owned, Registering, Found, Uncommitted
<1>9. OneRegistrationPerAccount'
  BY DEF OneRegistrationPerAccount, Types, Owned, Registering, Found, Uncommitted
<1> QED
  BY <1>1, <1>2, <1>3, <1>4, <1>5, <1>6, <1>7, <1>8, <1>9

LEMMA ObserveTypes ==
  ASSUME valid \in [Requests -> [session : BOOLEAN, account : BOOLEAN]], Observe
  PROVE  valid' \in [Requests -> [session : BOOLEAN, account : BOOLEAN]]
<1> DEFINE seen(r) == [session |-> valid[r].session \/ Live(req[r].cookie)',
                       account |-> valid[r].account \/ Active(req[r].cookie)']
<1>1. \A r \in Requests : seen(r) \in [session : BOOLEAN, account : BOOLEAN]
  OBVIOUS
<1> QED
  BY <1>1 DEF Observe

LEMMA NextPreserves ==
  ASSUME SessionsInv, [Next]_vars
  PROVE  SessionsInv'
<1>1. CASE UNCHANGED vars
  BY <1>1 DEF vars, SessionsInv, Types, Owned, Issued, Requested, Found, Verified, Registering,
     LoggedOutStaysOut, OneRegistrationPerAccount, Uncommitted
<1>2. CASE Next
  <2>1. valid' \in [Requests -> [session : BOOLEAN, account : BOOLEAN]]
    BY <1>2, ObserveTypes DEF Next, SessionsInv, Types
  <2>2. ASSUME NEW r \in Requests, Asks(r) PROVE SessionsInv'
    BY <2>1, <2>2, LoadFormPreserves, PostFormPreserves, LogOutPreserves, LogInPreserves,
       RegisterPreserves DEF Asks
  <2>3. ASSUME NEW r \in Requests, Serves(r) PROVE SessionsInv'
    BY <2>1, <2>3, FindByTokenHashPreserves, FindByIdPreserves, SetCsrfTokenHashPreserves,
       MutatePreserves, DeleteByTokenHashPreserves, FindLoginCandidatePreserves,
       CreateSessionPreserves, InsertPreserves, CommitPreserves, ReplyBeforeCommitPreserves,
       ReplyPreserves DEF Serves
  <2> QED
    BY <1>2, <2>1, <2>2, <2>3, LapsePreserves, ChangeStatusPreserves DEF Next
<1> QED
  BY <1>1, <1>2

LEMMA InvariantHolds == Spec => []SessionsInv
  BY InitEstablishes, NextPreserves, PTL DEF Spec

\* Every variable has its type, and every row is of an account that exists.
THEOREM SessionsTypeCorrect == Spec => []TypeOK
<1>1. SessionsInv => TypeOK
  BY DEF SessionsInv, Types, Owned, TypeOK
<1> QED
  BY <1>1, InvariantHolds, PTL

\* A form acts only for the session its page was made with, however the answers
\* of the requests of a browser are ordered or lost: a token is with the session
\* it was minted for wherever it has come to, so one that matches says whose it is.
THEOREM FormsCorrect == Spec => []FormActsForItsReader
<1>1. SessionsInv => FormActsForItsReader
  BY DEF SessionsInv, Types, Issued, Verified, FormActsForItsReader
<1> QED
  BY <1>1, InvariantHolds, PTL

\* No request that found a session before its logout brings the session back.
THEOREM LogoutsCorrect == Spec => []LoggedOutStaysOut
<1>1. SessionsInv => LoggedOutStaysOut
  BY DEF SessionsInv
<1> QED
  BY <1>1, InvariantHolds, PTL

\* Of the registrations of one name at most one leaves a session.
THEOREM RegistrationsCorrect == Spec => []OneRegistrationPerAccount
<1>1. SessionsInv => OneRegistrationPerAccount
  BY DEF SessionsInv
<1> QED
  BY <1>1, InvariantHolds, PTL

\* What has been seen of a form that is served: its session when that was
\* found, its account when that was found active.
Observed ==
  \A r \in Requests : req[r].kind = "post" =>
    /\ pc[r] \in {"user", "act", "acted"} => valid[r].session
    /\ pc[r] \in {"act", "acted"} => valid[r].account

\* A step of another request, or of none, leaves r where it is.
LEMMA OthersStay ==
  ASSUME SessionsInv, NEW r \in Requests, Asks(r) \/ Serves(r), NEW q \in Requests \ {r}
  PROVE  pc'[q] = pc[q] /\ req'[q] = req[q]
<1>1. CASE Asks(r)
  BY <1>1 DEF SessionsInv, Types, Asks, LoadForm, PostForm, LogOut, LogIn, Register, Send
<1>2. CASE FindByTokenHash(r)
  BY <1>2 DEF SessionsInv, Types, FindByTokenHash, Refuse
<1>3. CASE FindById(r)
  BY <1>3 DEF SessionsInv, Types, FindById, Refuse
<1>4. CASE SetCsrfTokenHash(r)
  BY <1>4 DEF SessionsInv, Types, SetCsrfTokenHash, Refuse
<1>5. CASE Mutate(r)
  BY <1>5 DEF SessionsInv, Types, Mutate, Refuse
<1>6. CASE DeleteByTokenHash(r)
  BY <1>6 DEF SessionsInv, Types, DeleteByTokenHash, Refuse
<1>7. CASE FindLoginCandidate(r)
  BY <1>7 DEF SessionsInv, Types, FindLoginCandidate, Refuse
<1>8. CASE CreateSession(r)
  BY <1>8 DEF SessionsInv, Types, CreateSession, Mint
<1>9. CASE Insert(r)
  BY <1>9 DEF SessionsInv, Types, Insert, Mint, Refuse
<1>10. CASE Commit(r)
  BY <1>10 DEF SessionsInv, Types, Commit
<1>11. CASE ReplyBeforeCommit(r)
  BY <1>11 DEF SessionsInv, Types, ReplyBeforeCommit
<1>12. CASE Reply(r)
  BY <1>12 DEF SessionsInv, Types, Reply
<1> QED
  BY <1>1, <1>2, <1>3, <1>4, <1>5, <1>6, <1>7, <1>8, <1>9, <1>10, <1>11, <1>12 DEF Serves

\* How a form that is served comes to where it is.
Comes(r) ==
  /\ req[r].kind = "post"
  /\ \/ pc'[r] = pc[r]
     \/ pc[r] = "session" /\ pc'[r] = "user" /\ Live(req[r].cookie)'
     \/ pc[r] = "user" /\ pc'[r] = "act" /\ Active(req[r].cookie)'
     \/ pc[r] = "act" /\ pc'[r] = "acted"

LEMMA FormSteps ==
  ASSUME SessionsInv, NEW r \in Requests, Asks(r) \/ Serves(r),
         req'[r].kind = "post", pc'[r] \in {"user", "act", "acted"}
  PROVE  Comes(r)
<1>1. CASE Asks(r)
  BY <1>1 DEF SessionsInv, Types, Asks, LoadForm, PostForm, LogOut, LogIn, Register, Send
<1>2. CASE FindByTokenHash(r)
  <2>1. pc[r] = "session" /\ UNCHANGED <<sessions, lapsed>>
    BY <1>2 DEF FindByTokenHash
  <2>2. Live(req[r].cookie) /\ pc' = [pc EXCEPT ![r] = "user"]
    BY <1>2 DEF SessionsInv, Types, FindByTokenHash, Refuse
  <2>3. req'[r].cookie = req[r].cookie /\ req'[r].kind = req[r].kind /\ pc'[r] = "user"
    BY <1>2, <2>2 DEF SessionsInv, Types, FindByTokenHash
  <2> QED
    BY <2>1, <2>2, <2>3 DEF Live, Comes
<1>3. CASE FindById(r)
  BY <1>3 DEF SessionsInv, Types, FindById, Refuse, NoRequest, Active, Found, Owned, Comes
<1>4. CASE SetCsrfTokenHash(r)
  BY <1>4 DEF SessionsInv, Types, SetCsrfTokenHash, Refuse, NoRequest, Comes
<1>5. CASE Mutate(r)
  BY <1>5 DEF SessionsInv, Types, Mutate, Refuse, NoRequest, Comes
<1>6. CASE DeleteByTokenHash(r)
  BY <1>6 DEF SessionsInv, Types, DeleteByTokenHash, Refuse, NoRequest, Comes
<1>7. CASE FindLoginCandidate(r)
  BY <1>7 DEF SessionsInv, Types, FindLoginCandidate, Refuse, NoRequest, Comes
<1>8. CASE CreateSession(r)
  BY <1>8 DEF SessionsInv, Types, CreateSession, Mint, Comes
<1>9. CASE Insert(r)
  BY <1>9 DEF SessionsInv, Types, Insert, Mint, Refuse, NoRequest, Comes
<1>10. CASE Commit(r)
  BY <1>10 DEF SessionsInv, Types, Commit, Uncommitted, NoRequest, Comes
<1>11. CASE ReplyBeforeCommit(r)
  BY <1>11 DEF SessionsInv, Types, ReplyBeforeCommit, Comes
<1>12. CASE Reply(r)
  BY <1>12 DEF SessionsInv, Types, Reply, NoRequest, Comes
<1> QED
  BY <1>1, <1>2, <1>3, <1>4, <1>5, <1>6, <1>7, <1>8, <1>9, <1>10, <1>11, <1>12 DEF Serves

LEMMA ObservedPreserved ==
  ASSUME SessionsInv, Observed, [Next]_vars
  PROVE  Observed'
<1>1. CASE UNCHANGED vars
  BY <1>1 DEF vars, Observed
<1>2. CASE Next
  <2> SUFFICES ASSUME NEW q \in Requests, req'[q].kind = "post",
                      pc'[q] \in {"user", "act", "acted"}
               PROVE  /\ valid'[q].session
                      /\ pc'[q] \in {"act", "acted"} => valid'[q].account
    BY DEF Observed
  <2>1. Comes(q)
    <3>1. ASSUME NEW r \in Requests, Asks(r) \/ Serves(r) PROVE Comes(q)
      BY <3>1, OthersStay, FormSteps DEF Comes
    <3>2. ASSUME NEW s \in SessionTokens, Lapse(s) PROVE Comes(q)
      BY <3>2 DEF Lapse, Comes
    <3>3. ASSUME NEW u \in Users, ChangeStatus(u) PROVE Comes(q)
      BY <3>3 DEF ChangeStatus, Comes
    <3> QED
      BY <1>2, <3>1, <3>2, <3>3 DEF Next
  <2>2. valid'[q] = [session |-> valid[q].session \/ Live(req[q].cookie)',
                     account |-> valid[q].account \/ Active(req[q].cookie)']
    BY <1>2 DEF Next, Observe
  <2>3. /\ valid[q].session \/ Live(req[q].cookie)' => valid'[q].session
        /\ valid[q].account \/ Active(req[q].cookie)' => valid'[q].account
    <3> DEFINE a == valid[q].session \/ Live(req[q].cookie)'
               b == valid[q].account \/ Active(req[q].cookie)'
    <3>1. valid'[q] = [session |-> a, account |-> b]
      BY <2>2
    <3> HIDE DEF a, b
    <3>2. valid'[q].session = a /\ valid'[q].account = b
      BY <3>1, SMT
    <3>3. (a => valid'[q].session) /\ (b => valid'[q].account)
      BY <3>2, Zenon
    <3> QED
      BY <3>3 DEF a, b
  <2> QED
    BY <2>1, <2>3 DEF Comes, Observed
<1> QED
  BY <1>1, <1>2

\* Suspension and the end of a session take effect on the very next request: a
\* form that acts found its session live and its account active since it was sent.
THEOREM EffectsCorrect == Spec => []EffectOnNextRequest
<1>1. Init => Observed
  BY DEF Init, Observed, NoRequest
<1>2. SessionsInv /\ Observed => EffectOnNextRequest
  BY DEF SessionsInv, Verified, Observed, EffectOnNextRequest
<1> QED
  BY <1>1, <1>2, InvariantHolds, ObservedPreserved, PTL DEF Spec
=============================================================================
