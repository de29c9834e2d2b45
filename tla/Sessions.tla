------------------------------ MODULE Sessions ------------------------------
(***************************************************************************)
(* One account of the auth service and the browser that uses it: sign-up,  *)
(* login behind the in-memory rate limiter, refresh tokens, mailed tokens, *)
(* password reset, and the access token that the page keeps in memory next *)
(* to the browser's refresh cookie.                                        *)
(*                                                                         *)
(* A request is sent by the browser, handled on a thread of the server and *)
(* answered; requests, handlers and answers overlap, and requests and      *)
(* answers are lost.  Every handler reads first and commits later, without *)
(* locks other than those of a reset's UPDATE; the limiter locks each call *)
(* on its own.                                                             *)
(***************************************************************************)
EXTENDS Integers, FiniteSets

CONSTANTS
  Request,      \* requests in flight at most
  Session,      \* refresh tokens, the rows and the cookies
  Mail,         \* mailed tokens
  Ip,           \* addresses of clients
  MaxAttempts,  \* LOGIN_RATE_LIMIT_ATTEMPTS
  None

VARIABLES
  password,   \* User.password_hash, as the number of resets before; None before sign-up
  verified,   \* User.email_verified
  session,    \* refresh_tokens; history: the password of the login, and whether it is calm
  mail,       \* verification_tokens; history: how often each was used
  attempts,   \* failed logins in the window, per address and for the email
  cookie,     \* the browser's refresh_token
  memory,     \* the session of the access token in the page, or None
  job,        \* what becomes of each request
  signedOut   \* history: "no" after a login or beside one; else "yes" after a logout,
              \* or "late" when an answer to a refresh was still on its way

vars == <<password, verified, session, mail, attempts, cookie, memory, job, signedOut>>
user == <<password, verified>>
browser == <<cookie, memory, signedOut>>

Key == Ip \cup {"email"}

ASSUME SessionsAssumption ==
  /\ IsFiniteSet(Request) /\ Request # {}
  /\ MaxAttempts \in Nat \ {0}
  /\ None \notin Session \cup Mail \cup Ip \cup Nat

\* A row of refresh_tokens: it has ended once it is revoked or has expired.  It is
\* calm when no reset was under way between the look at the user that led to it
\* and its insert.  A mailed token is over once it is used or has expired.
SessionRow == [state : {"none", "live", "ended"}, password : Nat \cup {None}, calm : BOOLEAN]
MailRow == [state : {"none", "sent", "over"},
            purpose : {"email_verify", "password_reset"}, uses : Nat]

\* A request: the token that it carries, the password typed and the address it
\* comes from, the password hash and the sessions its handler has read.
Op == {"none", "login", "refresh", "logout", "signup", "verify", "reset"}
Job == [op : Op,
        pc : {"idle", "sent", "query", "verify", "commit", "revoke", "ok", "denied"},
        token : Session \cup Mail \cup {None}, typed : Nat \cup {None}, ip : Ip \cup {None},
        seen : Nat \cup {None}, calm : BOOLEAN, revoking : SUBSET Session]
Idle == [op |-> "none", pc |-> "idle", token |-> None, typed |-> None, ip |-> None,
         seen |-> None, calm |-> FALSE, revoking |-> {}]

TypeOK ==
  /\ password \in Nat \cup {None} /\ verified \in BOOLEAN
  /\ session \in [Session -> SessionRow]
  /\ mail \in [Mail -> MailRow]
  /\ attempts \in [Key -> Nat]
  /\ cookie \in Session \cup {None} /\ memory \in Session \cup {None}
  /\ job \in [Request -> Job]
  /\ signedOut \in {"no", "late", "yes"}

Init ==
  /\ password = None /\ verified = FALSE
  /\ session = [s \in Session |-> [state |-> "none", password |-> None, calm |-> FALSE]]
  /\ mail = [m \in Mail |-> [state |-> "none", purpose |-> "email_verify", uses |-> 0]]
  /\ attempts = [k \in Key |-> 0]
  /\ cookie = None /\ memory = None
  /\ job = [r \in Request |-> Idle]
  /\ signedOut = "no"

At(r, op, pc) == job[r].op = op /\ job[r].pc = pc
Goto(r, pc) == job' = [job EXCEPT ![r].pc = pc]
Answer(r, ok, token) ==
  job' = [job EXCEPT ![r] = [Idle EXCEPT !.op = job[r].op, !.pc = IF ok THEN "ok" ELSE "denied",
                                        !.token = IF ok THEN token ELSE None]]
Done(r) == job' = [job EXCEPT ![r] = Idle]

-----------------------------------------------------------------------------
(* The browser                                                             *)

SendLogin(r, typed, ip) ==
  /\ job[r] = Idle
  /\ job' = [job EXCEPT ![r] = [Idle EXCEPT !.op = "login", !.pc = "sent", !.typed = typed,
                                          !.ip = ip]]
  /\ signedOut' = "no"
  /\ UNCHANGED <<user, session, mail, attempts, cookie, memory>>

\* silentRefresh, by fetchWithAuth and on every load of a page, and logout.
Send(r, op) ==
  /\ job[r] = Idle
  /\ job' = [job EXCEPT ![r] = [Idle EXCEPT !.op = op, !.pc = "sent", !.token = cookie]]
  /\ UNCHANGED <<user, session, mail, attempts, browser>>

\* delete_cookie comes with the answer to a logout, but with neither the SameSite
\* nor the Secure attribute of the cookie that production sets: a browser that is
\* on another site, as the deployed pages are, ignores it and keeps the cookie.
CookieAfter(h) ==
  CASE h.op = "login" /\ h.pc = "ok" -> {h.token}
    [] h.op = "logout" /\ h.pc = "ok" -> {cookie, None}
    [] OTHER -> {cookie}

\* setSession and clearSession: a failed refresh and any end of a logout clear.
MemoryAfter(h) ==
  CASE h.op \in {"login", "refresh"} /\ h.pc = "ok" -> h.token
    [] h.op = "login" -> memory
    [] h.op \in {"refresh", "logout"} -> None
    [] OTHER -> memory

Beside(r, op) == \E x \in Request \ {r} : job[x].op = op

\* The browser is signed out by a logout with the token that its cookie still
\* holds, if it holds one, as far as no other answer may sign it in.
SignedOutBy(r, c) ==
  CASE c \notin {job[r].token, None} \/ Beside(r, "login") -> "no"
    [] c \in {job[r].token, None} /\ ~Beside(r, "login") /\ Beside(r, "refresh") -> "late"
    [] OTHER -> "yes"

Receive(r) ==
  /\ job[r].pc \in {"ok", "denied"}
  /\ \E c \in CookieAfter(job[r]) :
       /\ cookie' = c
       /\ signedOut' = IF At(r, "logout", "ok") THEN SignedOutBy(r, c) ELSE signedOut
  /\ memory' = MemoryAfter(job[r])
  /\ job' = [job EXCEPT ![r] = Idle]
  /\ UNCHANGED <<user, session, mail, attempts>>

\* The request or its answer is lost: the page takes it for a failure.
Lose(r) ==
  /\ job[r].pc \in {"sent", "ok", "denied"}
  /\ memory' = MemoryAfter([job[r] EXCEPT !.pc = "denied"])
  /\ job' = [job EXCEPT ![r] = Idle]
  /\ UNCHANGED <<user, session, mail, attempts, cookie, signedOut>>

-----------------------------------------------------------------------------
(* Login and its rate limiter                                              *)

Keys(r) == {"email", job[r].ip}

\* is_rate_limited.  Faulty variant: the limit is exceeded before it bites.
Limited_late(r) == \E k \in Keys(r) : attempts[k] > MaxAttempts
Limited(r) == \E k \in Keys(r) : attempts[k] >= MaxAttempts

CheckLimit(r) ==
  /\ At(r, "login", "sent")
  /\ IF Limited(r) THEN Answer(r, FALSE, None) ELSE Goto(r, "query")
  /\ UNCHANGED <<user, session, mail, attempts, browser>>

\* A reset that has revoked the sessions it found and has not committed.
Resetting == \E x \in Request : At(x, "reset", "commit")

QueryUser(r) ==
  /\ At(r, "login", "query")
  /\ job' = [job EXCEPT ![r].pc = "verify", ![r].seen = password, ![r].calm = ~Resetting]
  /\ UNCHANGED <<user, session, mail, attempts, browser>>

\* verify_password, with the hash that was read, then record_failure or
\* record_success.
VerifyPassword(r) ==
  LET right == job[r].seen # None /\ job[r].typed = job[r].seen IN
  /\ At(r, "login", "verify")
  /\ attempts' = [k \in Key |-> IF k \notin Keys(r) THEN attempts[k]
                                ELSE IF right THEN 0 ELSE attempts[k] + 1]
  /\ IF right THEN Goto(r, "commit") ELSE Answer(r, FALSE, None)
  /\ UNCHANGED <<user, session, mail, browser>>

IssueSession(r, s) ==
  /\ At(r, "login", "commit") /\ session[s].state = "none"
  /\ session' = [session EXCEPT ![s] = [state |-> "live", password |-> job[r].seen,
                                        calm |-> job[r].calm]]
  /\ Answer(r, TRUE, s)
  /\ UNCHANGED <<user, mail, attempts, browser>>

\* _clean_window: a failure leaves the window.
Elapse(k) ==
  /\ attempts[k] > 0
  /\ attempts' = [attempts EXCEPT ![k] = @ - 1]
  /\ UNCHANGED <<user, session, mail, job, browser>>

-----------------------------------------------------------------------------
(* Refresh and logout                                                      *)

\* refresh_access_token: the refresh token stays the same.
Refresh(r) ==
  /\ At(r, "refresh", "sent")
  /\ Answer(r, job[r].token \in Session /\ session[job[r].token].state = "live", job[r].token)
  /\ UNCHANGED <<user, session, mail, attempts, browser>>

\* logout: a row that is revoked already, or unknown, is left alone; whether one
\* that has expired is revoked makes no difference.
FindSession(r) ==
  /\ At(r, "logout", "sent")
  /\ IF job[r].token \in Session /\ session[job[r].token].state = "live"
     THEN Goto(r, "commit") ELSE Answer(r, TRUE, job[r].token)
  /\ UNCHANGED <<user, session, mail, attempts, browser>>

Locked(s) == \E x \in Request : At(x, "reset", "commit") /\ s \in job[x].revoking

\* Faulty variant: the handler only asks for the cookie to be deleted.
LoggedOut_cookieOnly(s) == session
LoggedOut(s) == [session EXCEPT ![s].state = "ended"]

\* The answer names the token that the request carried.
Logout(r) ==
  /\ At(r, "logout", "commit") /\ ~Locked(job[r].token)
  /\ session' = LoggedOut(job[r].token)
  /\ Answer(r, TRUE, job[r].token)
  /\ UNCHANGED <<user, mail, attempts, browser>>

ExpireSession(s) ==
  /\ session[s].state = "live"
  /\ session' = [session EXCEPT ![s].state = "ended"]
  /\ UNCHANGED <<user, mail, attempts, job, browser>>

-----------------------------------------------------------------------------
(* Sign-up and mailed tokens                                               *)

NewMail(m, purpose) ==
  /\ mail[m].state = "none"
  /\ mail' = [mail EXCEPT ![m].state = "sent", ![m].purpose = purpose]

Begin(r, op, pc, m) ==
  /\ job[r] = Idle
  /\ job' = [job EXCEPT ![r] = [Idle EXCEPT !.op = op, !.pc = pc, !.token = m]]

\* signup: an email that is taken is refused.
StartSignup(r) ==
  /\ password = None /\ Begin(r, "signup", "commit", None)
  /\ UNCHANGED <<user, session, mail, attempts, browser>>

\* The email is unique: of two sign-ups at once the second insert fails (Fail).
Signup(r, m) ==
  /\ At(r, "signup", "commit") /\ password = None
  /\ password' = 0
  /\ NewMail(m, "email_verify")
  /\ Done(r)
  /\ UNCHANGED <<verified, session, attempts, browser>>

\* request_email_verification and request_password_reset: a read, and the
\* insert of a row that nothing else writes.
RequestVerification(m) ==
  /\ password # None /\ ~verified
  /\ NewMail(m, "email_verify")
  /\ UNCHANGED <<user, session, attempts, job, browser>>

RequestReset(m) ==
  /\ password # None
  /\ NewMail(m, "password_reset")
  /\ UNCHANGED <<user, session, attempts, job, browser>>

ExpireMail(m) ==
  /\ mail[m].state = "sent"
  /\ mail' = [mail EXCEPT ![m].state = "over"]
  /\ UNCHANGED <<user, session, attempts, job, browser>>

\* confirm_email_verification and confirm_password_reset, up to their commits:
\* a token that was used or has expired is refused.
StartConfirm(r, m) ==
  /\ mail[m].state = "sent"
  /\ IF mail[m].purpose = "email_verify"
     THEN Begin(r, "verify", "commit", m) ELSE Begin(r, "reset", "revoke", m)
  /\ UNCHANGED <<user, session, mail, attempts, browser>>

\* The commit that marks the token as used.  Faulty variant: used_at is not set.
Spent_unmarked(m) == [mail EXCEPT ![m].uses = @ + 1]
Spent(m) == [mail EXCEPT ![m].state = "over", ![m].uses = @ + 1]

VerifyEmail(r) ==
  /\ At(r, "verify", "commit")
  /\ verified' = TRUE /\ mail' = Spent(job[r].token)
  /\ Done(r)
  /\ UNCHANGED <<password, session, attempts, browser>>

-----------------------------------------------------------------------------
(* Password reset                                                          *)

\* What the bulk UPDATE finds to revoke.  Faulty variant: the browser's own session.
Unrevoked_own == {s \in Session : session[s].state = "live" /\ s = cookie}
Unrevoked == {s \in Session : session[s].state = "live"}

\* The UPDATE waits for rows that another reset has locked, and runs before the
\* commit: autoflush is off, so the other two writes come with the commit.
RevokeSessions(r) ==
  /\ At(r, "reset", "revoke") /\ ~\E s \in Unrevoked : Locked(s)
  /\ job' = [x \in Request |->
               IF x = r THEN [job[x] EXCEPT !.pc = "commit", !.revoking = Unrevoked]
               ELSE [job[x] EXCEPT !.calm = FALSE]]
  /\ UNCHANGED <<user, session, mail, attempts, browser>>

CommitReset(r) ==
  /\ At(r, "reset", "commit")
  /\ password' = password + 1
  /\ mail' = Spent(job[r].token)
  /\ session' = [s \in Session |-> IF s \in job[r].revoking
                                   THEN [session[s] EXCEPT !.state = "ended"] ELSE session[s]]
  /\ Done(r)
  /\ UNCHANGED <<verified, attempts, browser>>

\* A handler fails before its commit, which is rolled back.
Fail(r) ==
  /\ job[r].pc \in {"query", "verify", "revoke", "commit"}
  /\ IF job[r].op \in {"login", "logout"} THEN Answer(r, FALSE, None) ELSE Done(r)
  /\ UNCHANGED <<user, session, mail, attempts, browser>>

-----------------------------------------------------------------------------
Browser(r) ==
  \/ \E typed \in {None, 0} \cup ({password} \ {None}), ip \in Ip :
       SendLogin(r, typed, ip)
  \/ \E op \in {"refresh", "logout"} : Send(r, op)
  \/ Receive(r) \/ Lose(r)

Server(r) ==
  \/ CheckLimit(r) \/ QueryUser(r) \/ VerifyPassword(r) \/ \E s \in Session : IssueSession(r, s)
  \/ Refresh(r) \/ FindSession(r) \/ Logout(r)
  \/ StartSignup(r) \/ \E m \in Mail : Signup(r, m) \/ StartConfirm(r, m)
  \/ VerifyEmail(r) \/ RevokeSessions(r) \/ CommitReset(r) \/ Fail(r)

Time ==
  \/ \E k \in Key : Elapse(k)
  \/ \E s \in Session : ExpireSession(s)
  \/ \E m \in Mail : ExpireMail(m)

Next ==
  \/ \E r \in Request : Browser(r) \/ Server(r)
  \/ \E m \in Mail : RequestVerification(m) \/ RequestReset(m)
  \/ Time

Spec == Init /\ [][Next]_vars

-----------------------------------------------------------------------------
(* Properties that hold                                                    *)

\* A password reset ends the sessions: one that is still live was opened with
\* the current password, unless its login and a reset overlapped.
ResetEndsSessions ==
  \A s \in Session : session[s].state = "live" /\ session[s].calm => session[s].password = password

\* Although the limit is checked before the password and recorded after it, the
\* failures in a window exceed it by less than the requests in flight.
AttemptsBounded == \A k \in Key : attempts[k] < MaxAttempts + Cardinality(Request)

\* The confirmations that have found token m unused and have not committed.
Holding(m) == {r \in Request : job[r].op \in {"verify", "reset"} /\ job[r].token = m}

\* The uses of a mailed token end with the requests that overlapped the first:
\* once it has been used nobody takes it up again, and each of those that had
\* found it unused before uses it at most once more, whichever handler it is,
\* whatever fails and however long they take.
UsesEnd ==
  [][\A m \in Mail :
       mail[m].uses > 0
         => /\ Holding(m)' \subseteq Holding(m)
            /\ mail'[m].uses + Cardinality(Holding(m)')
                 <= mail[m].uses + Cardinality(Holding(m))]_vars

\* A logout lasts until somebody logs in again, whether or not the browser gave
\* up its cookie: the cookie that it may still have renews nothing, and the page
\* is signed in by nothing but the answer to a refresh that was on its way.
SignedOutStays ==
  /\ signedOut = "yes" => memory = None
  /\ signedOut # "no" /\ cookie # None => session[cookie].state # "live"
=============================================================================
