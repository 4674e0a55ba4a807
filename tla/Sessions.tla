------------------------------ MODULE Sessions ------------------------------
(***************************************************************************)
(* Sessions, their synchronizer CSRF tokens and registration, between one  *)
(* browser with several tabs, the SvelteKit server that calls the API with *)
(* the cookie the browser sent, and the API's request workers.             *)
(*                                                                         *)
(* A request is what the browser asks of SvelteKit: loading a page with a  *)
(* form, posting a form, logging in, registering, logging out.  A step of  *)
(* a request is one SQL statement, or the arrival of the answer.  Answers  *)
(* come in any order, and may be lost.                                     *)
(*                                                                         *)
(* A token stands for the random string and for the hash that is stored.   *)
(* Left out: the login form's stateless token, roles (read with the user,  *)
(* in ContentLifecycle), rate limits and the Origin header, which the      *)
(* SvelteKit server always sends.                                          *)
(***************************************************************************)
CONSTANTS Users,
          SessionTokens,  \* what MintToken draws for sessions
          CsrfTokens,     \* what MintToken draws for forms
          Tabs,
          Requests,       \* requests in flight
          None            \* no user, token or tab

ASSUME SessionsAssumption ==
  None \notin Users \cup SessionTokens \cup CsrfTokens \cup Tabs

VARIABLES
  account,   \* account[u]: the status of u's row in users, or absent
  owner,     \* owner[s]: for whom the token s was minted, None if it was not
  origin,    \* origin[s]: whether s was minted by login or by register
  sessions,  \* the committed rows of sessions
  lapsed,    \* rows past expires_at or 14 days past last_seen_at
  ended,     \* tokens whose rows a logout deleted (history)
  csrf,      \* csrf[s]: csrf_token_hash
  issued,    \* issued[c]: the session c was minted for, None if it was not
  jar,       \* the browser's session cookie
  form,      \* form[t]: the session and the token that t's page was made with
  pc,        \* pc[r]: what r does next
  req,       \* req[r]: r's kind, cookie and what it has read or been given
  valid      \* valid[r]: which of the session and the account of a posted form
             \* have been good at an instant since r was sent (history)

rows == <<account, owner, origin, sessions, lapsed, ended, csrf, issued>>
browser == <<jar, form>>
vars == <<rows, browser, pc, req, valid>>

Kinds == {"none", "load", "post", "token", "logout", "login", "register"}
Places == {"idle", "session", "user", "act", "acted", "candidate", "create",
           "insert", "commit", "late", "reply"}

Session == SessionTokens \cup {None}
Csrf == CsrfTokens \cup {None}

NoRequest == [kind |-> "none", cookie |-> None, user |-> None, tab |-> None,
              page |-> None, token |-> None, hash |-> None]
Request == [kind : Kinds, cookie : Session, user : Users \cup {None},
            tab : Tabs \cup {None}, page : Session, token : Csrf, hash : Csrf]

Live(s) == s \in sessions \ lapsed
Active(s) == s \in SessionTokens /\ owner[s] \in Users /\ account[owner[s]] = "active"

TypeOK ==
  /\ account \in [Users -> {"absent", "active", "suspended"}]
  /\ owner \in [SessionTokens -> Users \cup {None}]
  /\ origin \in [SessionTokens -> {"none", "login", "register"}]
  /\ sessions \subseteq {s \in SessionTokens :
                           owner[s] # None /\ account[owner[s]] # "absent"}
  /\ lapsed \subseteq sessions
  /\ ended \subseteq SessionTokens
  /\ csrf \in [SessionTokens -> Csrf]
  /\ issued \in [CsrfTokens -> Session]
  /\ jar \in Session
  /\ form \in [Tabs -> [session : Session, token : Csrf]]
  /\ pc \in [Requests -> Places]
  /\ req \in [Requests -> Request]
  /\ valid \in [Requests -> [session : BOOLEAN, account : BOOLEAN]]

Goto(r, place) == pc' = [pc EXCEPT ![r] = place]

\* The answer refuses: no cookie, no token.
Refuse(r) ==
  /\ Goto(r, "reply")
  /\ req' = [req EXCEPT ![r] = [NoRequest EXCEPT !.kind = req[r].kind, !.tab = req[r].tab]]

-----------------------------------------------------------------------------
(* The browser sends a request with its cookie. *)

Send(r, request, place) ==
  /\ pc[r] = "idle"
  /\ req' = [req EXCEPT ![r] = request]
  /\ Goto(r, place)
  /\ UNCHANGED <<rows, browser>>

LoadForm(r, t) ==
  Send(r, [NoRequest EXCEPT !.kind = "load", !.cookie = jar, !.tab = t], "session")

\* A form without a token is not posted.
PostForm(r, t) ==
  /\ form[t].token # None
  /\ Send(r, [NoRequest EXCEPT !.kind = "post", !.cookie = jar,
                               !.page = form[t].session, !.token = form[t].token], "session")

\* SvelteKit fetches a token, and logs out with it.
LogOut(r) == Send(r, [NoRequest EXCEPT !.kind = "token", !.cookie = jar], "session")

LogIn(r, u) == Send(r, [NoRequest EXCEPT !.kind = "login", !.user = u], "candidate")

Register(r, u) == Send(r, [NoRequest EXCEPT !.kind = "register", !.user = u], "insert")

-----------------------------------------------------------------------------
(* Authenticate: two statements. *)

FindByTokenHash(r) ==
  LET s == req[r].cookie
  IN  /\ pc[r] = "session"
      /\ IF Live(s)
         THEN /\ Goto(r, "user")
              /\ req' = [req EXCEPT ![r].hash = csrf[s], ![r].user = owner[s]]
         ELSE Refuse(r)
      /\ UNCHANGED <<rows, browser>>

\* Mutant: the account's status is not looked up.
FindByIdAnyStatus(r) ==
  /\ pc[r] = "user"
  /\ Goto(r, "act") /\ UNCHANGED req
  /\ UNCHANGED <<rows, browser>>

FindById(r) ==
  /\ pc[r] = "user"
  /\ IF account[req[r].user] = "active"
     THEN Goto(r, "act") /\ UNCHANGED req
     ELSE Refuse(r)
  /\ UNCHANGED <<rows, browser>>

\* Mutant: any token will do, as long as the session has one.
VerifySessionCsrfLoose(r) == req[r].hash # None

\* The token the request carries is the one Authenticate read with the session.
VerifySessionCsrf(r) == req[r].token # None /\ req[r].token = req[r].hash

-----------------------------------------------------------------------------
(* GET /auth/csrf, the form's mutation, POST /auth/logout. *)

\* Mutant: the session's row is inserted if it is gone.
SetCsrfTokenHashUpsert(r) ==
  /\ pc[r] = "act" /\ req[r].kind \in {"load", "token"}
  /\ \E c \in CsrfTokens :
       /\ issued[c] = None
       /\ issued' = [issued EXCEPT ![c] = req[r].cookie]
       /\ csrf' = [csrf EXCEPT ![req[r].cookie] = c]
       /\ sessions' = sessions \cup {req[r].cookie}
       /\ req' = [req EXCEPT ![r].token = c, ![r].hash = None, ![r].user = None,
                             ![r].kind = IF @ = "token" THEN "logout" ELSE @]
  /\ Goto(r, IF req[r].kind = "token" THEN "session" ELSE "reply")
  /\ UNCHANGED <<account, owner, origin, lapsed, ended, browser>>

\* A fresh token replaces the session's, if its row is still there.  Logging
\* out goes on with POST /auth/logout, which authenticates again.
SetCsrfTokenHash(r) ==
  /\ pc[r] = "act" /\ req[r].kind \in {"load", "token"}
  /\ IF req[r].cookie \in sessions
     THEN /\ \E c \in CsrfTokens :
               /\ issued[c] = None
               /\ issued' = [issued EXCEPT ![c] = req[r].cookie]
               /\ csrf' = [csrf EXCEPT ![req[r].cookie] = c]
               /\ req' = [req EXCEPT ![r].token = c, ![r].hash = None, ![r].user = None,
                                     ![r].kind = IF @ = "token" THEN "logout" ELSE @]
          /\ Goto(r, IF req[r].kind = "token" THEN "session" ELSE "reply")
     ELSE Refuse(r) /\ UNCHANGED <<csrf, issued>>
  /\ UNCHANGED <<account, owner, origin, sessions, lapsed, ended, browser>>

\* What a form does: submit, vote, comment, moderate.
Mutate(r) ==
  /\ pc[r] = "act" /\ req[r].kind = "post"
  /\ IF VerifySessionCsrf(r)
     THEN Goto(r, "acted") /\ UNCHANGED req
     ELSE Refuse(r)
  /\ UNCHANGED <<rows, browser>>

DeleteByTokenHash(r) ==
  /\ pc[r] = "act" /\ req[r].kind = "logout"
  /\ IF VerifySessionCsrf(r)
     THEN /\ sessions' = sessions \ {req[r].cookie}
          /\ csrf' = [csrf EXCEPT ![req[r].cookie] = None]
          /\ lapsed' = lapsed \ {req[r].cookie}
          /\ ended' = ended \cup {req[r].cookie}
          /\ Goto(r, "reply")
          /\ req' = [req EXCEPT ![r] = [NoRequest EXCEPT !.kind = "logout", !.cookie = req[r].cookie]]
     ELSE Refuse(r) /\ UNCHANGED <<sessions, csrf, lapsed, ended>>
  /\ UNCHANGED <<account, owner, origin, issued, browser>>

-----------------------------------------------------------------------------
(* POST /auth/login and /auth/register. *)

\* The candidate's status counts as it is now; the password is verified on a
\* copy of its hash, which takes long, and may be refused.
FindLoginCandidate(r) ==
  /\ pc[r] = "candidate"
  /\ \/ account[req[r].user] = "active" /\ Goto(r, "create") /\ UNCHANGED req
     \/ Refuse(r)
  /\ UNCHANGED <<rows, browser>>

Mint(r, s, by) ==
  /\ owner[s] = None
  /\ owner' = [owner EXCEPT ![s] = req[r].user]
  /\ origin' = [origin EXCEPT ![s] = by]
  /\ req' = [req EXCEPT ![r].cookie = s, ![r].user = IF by = "login" THEN None ELSE @]

CreateSession(r) ==
  /\ pc[r] = "create"
  /\ \E s \in SessionTokens : Mint(r, s, "login") /\ sessions' = sessions \cup {s}
  /\ Goto(r, "reply")
  /\ UNCHANGED <<account, lapsed, ended, csrf, issued, browser>>

\* r's transaction has inserted its account and session and has not ended.
Uncommitted(r) == pc[r] \in {"commit", "late"}

\* Mutant: the name that is taken goes unnoticed, and a session is made for it.
InsertOverTaken(r) ==
  /\ pc[r] = "insert"
  /\ \E s \in SessionTokens : Mint(r, s, "register")
  /\ Goto(r, "commit")
  /\ UNCHANGED <<account, sessions, lapsed, ended, csrf, issued, browser>>

\* The unique indexes make the INSERT wait for another transaction's of the
\* same name, and refuse a name that is taken.
Insert(r) ==
  /\ pc[r] = "insert"
  /\ \A q \in Requests : Uncommitted(q) => req[q].user # req[r].user
  /\ IF account[req[r].user] = "absent"
     THEN (\E s \in SessionTokens : Mint(r, s, "register")) /\ Goto(r, "commit")
     ELSE Refuse(r) /\ UNCHANGED <<owner, origin>>
  /\ UNCHANGED <<account, sessions, lapsed, ended, csrf, issued, browser>>

\* The transaction commits when the handler drops it, as the answer leaves: the
\* answer may arrive first, and the commit may fail.
Commit(r) ==
  /\ Uncommitted(r)
  /\ \/ /\ account' = [account EXCEPT ![req[r].user] = "active"]
        /\ sessions' = sessions \cup {req[r].cookie}
     \/ UNCHANGED <<account, sessions>>
  /\ Goto(r, IF pc[r] = "late" THEN "idle" ELSE "reply")
  /\ req' = IF pc[r] = "late" THEN [req EXCEPT ![r] = NoRequest]
                               ELSE [req EXCEPT ![r].user = None]
  /\ UNCHANGED <<owner, origin, lapsed, ended, csrf, issued, browser>>

ReplyBeforeCommit(r) ==
  /\ pc[r] = "commit"
  /\ jar' = req[r].cookie
  /\ Goto(r, "late")
  /\ UNCHANGED <<rows, form, req>>

-----------------------------------------------------------------------------
(* The answer reaches the browser, or is lost. *)

\* What the answer r has ready does to the cookie and to the tabs.
Deliver(r) ==
  LET request == req[r]
  IN  /\ form' = IF request.kind # "load" THEN form ELSE
           [form EXCEPT ![request.tab] =
              [session |-> IF request.token = None THEN None ELSE request.cookie,
               token |-> request.token]]
      /\ jar' = CASE request.cookie = None -> jar
                  [] request.kind \in {"login", "register"} -> request.cookie
                  [] request.kind = "logout" -> None
                  [] OTHER -> jar

Reply(r) ==
  /\ pc[r] \in {"reply", "acted"}
  /\ Deliver(r) \/ UNCHANGED browser
  /\ Goto(r, "idle")
  /\ req' = [req EXCEPT ![r] = NoRequest]
  /\ UNCHANGED rows

-----------------------------------------------------------------------------
(* Time, and the operator. *)

\* 14 days after a login its session has lapsed, however much it was used:
\* Touch, which would set last_seen_at, has no caller.
Lapse(s) ==
  /\ s \in sessions \ lapsed
  /\ lapsed' = lapsed \cup {s}
  /\ UNCHANGED <<account, owner, origin, sessions, ended, csrf, issued, browser, pc, req>>

ChangeStatus(u) ==
  /\ account[u] # "absent"
  /\ account' = [account EXCEPT ![u] = IF @ = "active" THEN "suspended" ELSE "active"]
  /\ UNCHANGED <<owner, origin, sessions, lapsed, ended, csrf, issued, browser, pc, req>>

\* The history variable, after any step, for forms that are posted.
Observe ==
  valid' = [r \in Requests |->
    IF req'[r].kind # "post" \/ pc'[r] = "reply" THEN [session |-> FALSE, account |-> FALSE]
    ELSE [session |-> valid[r].session \/ Live(req[r].cookie)',
          account |-> valid[r].account \/ Active(req[r].cookie)']]

Init ==
  /\ account \in [Users -> {"absent", "active"}]
  /\ owner = [s \in SessionTokens |-> None]
  /\ origin = [s \in SessionTokens |-> "none"]
  /\ sessions = {} /\ lapsed = {} /\ ended = {}
  /\ csrf = [s \in SessionTokens |-> None]
  /\ issued = [c \in CsrfTokens |-> None]
  /\ jar = None
  /\ form = [t \in Tabs |-> [session |-> None, token |-> None]]
  /\ pc = [r \in Requests |-> "idle"]
  /\ req = [r \in Requests |-> NoRequest]
  /\ valid = [r \in Requests |-> [session |-> FALSE, account |-> FALSE]]

Asks(r) ==
  \/ \E t \in Tabs : LoadForm(r, t) \/ PostForm(r, t)
  \/ LogOut(r)
  \/ \E u \in Users : LogIn(r, u) \/ Register(r, u)

Serves(r) ==
  \/ FindByTokenHash(r) \/ FindById(r)
  \/ SetCsrfTokenHash(r) \/ Mutate(r) \/ DeleteByTokenHash(r)
  \/ FindLoginCandidate(r) \/ CreateSession(r)
  \/ Insert(r) \/ Commit(r) \/ ReplyBeforeCommit(r)
  \/ Reply(r)

Next ==
  /\ \/ \E r \in Requests : Asks(r) \/ Serves(r)
     \/ \E s \in SessionTokens : Lapse(s)
     \/ \E u \in Users : ChangeStatus(u)
  /\ Observe

Spec == Init /\ [][Next]_vars

-----------------------------------------------------------------------------
(* Properties. *)

\* A form acts only for the session its page was made with: after another
\* login in the same browser, whatever answers are still under way, a page
\* made for one account never acts as the other.
FormActsForItsReader ==
  \A r \in Requests : pc[r] = "acted" => req[r].page = req[r].cookie

\* A session that was logged out never comes back, although requests that
\* found it before are still writing to its row.
LoggedOutStaysOut == ended \cap sessions = {}

\* What session.h promises, "suspension, role changes, and logout everywhere
\* must take effect on the very next request": a request that acts had a live
\* session and an active account at instants since it was sent.
EffectOnNextRequest ==
  \A r \in Requests : pc[r] = "acted" => valid[r].session /\ valid[r].account

\* A registration that comes second to a name gets no session of the first's
\* account: at most one session of an account stems from a registration.
OneRegistrationPerAccount ==
  \A s, t \in sessions \cup ended :
    origin[s] = "register" /\ origin[t] = "register" /\ owner[s] = owner[t] => s = t
=============================================================================
