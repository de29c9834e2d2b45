--------------------------- MODULE SessionsProofs ---------------------------
(***************************************************************************)
(* What Sessions guarantees for any number of requests, sessions, mailed   *)
(* tokens and addresses: its types, what a password reset ends, what a     *)
(* logout leaves behind, when the uses of a mailed token end, and how far   *)
(* overlapping requests exceed the limit of the rate limiter.               *)
(***************************************************************************)
EXTENDS Sessions, FiniteSetTheorems, TLAPS

\* What a request holds: sessions for the browser's own, a mailed token and an
\* account for a confirmation.
HoldInv ==
  /\ \A m \in Mail : mail[m].state # "none" => password # None
  /\ \A s \in Session : session[s].state = "live" => session[s].password # None
  /\ \A r \in Request :
       LET h == job[r] IN
       /\ h.op \in {"login", "refresh", "logout"} => h.token \in Session \cup {None}
       /\ h.op \in {"login", "refresh"} /\ h.pc = "ok" => h.token \in Session
       /\ h.op = "logout" /\ h.pc = "commit" => h.token \in Session
       /\ h.op \in {"verify", "reset"} => h.token \in Mail /\ password # None
       /\ h.op = "login" /\ h.pc = "commit" => h.seen # None

\* A login that is calm has read the password that still holds, and a reset
\* that has not committed will end every calm session.
CalmInv ==
  \A r \in Request :
    /\ job[r].calm =>
         /\ job[r].op = "login" /\ ~Resetting
         /\ job[r].seen # None => job[r].seen = password
    /\ At(r, "reset", "commit") =>
         \A s \in Session : session[s].state = "live" /\ session[s].calm => s \in job[r].revoking

\* A token that the browser or a request of its carries names a session that was
\* issued, and a logout that has succeeded has ended its own.
Carried(h) ==
  /\ h.op \in {"refresh", "logout"} \/ (h.op = "login" /\ h.pc = "ok") =>
       (h.token # None => session[h.token].state # "none")
  /\ h.op = "logout" /\ h.pc = "ok" => (h.token # None => session[h.token].state = "ended")

TokenInv ==
  /\ cookie # None => session[cookie].state # "none"
  /\ \A r \in Request : Carried(job[r])

\* Nothing under way can sign the browser in: no login, and no refresh that has
\* succeeded or may still do so.
QuietInv ==
  /\ signedOut # "no" => \A r \in Request : job[r].op # "login"
  /\ signedOut = "yes" =>
       \A r \in Request : job[r].op = "refresh" =>
         job[r].pc # "ok" /\ (job[r].token # None => session[job[r].token].state # "live")

UsesInv == \A m \in Mail : mail[m].state # "over" => mail[m].uses = 0

\* The logins that have passed the limit and will still be counted.
Trying(k) == {r \in Request : job[r].op = "login" /\ job[r].pc \in {"query", "verify"} /\ k \in Keys(r)}

AttemptsInv ==
  \A k \in Key : attempts[k] + Cardinality(Trying(k)) < MaxAttempts + Cardinality(Request)

IInv ==
  /\ TypeOK /\ HoldInv /\ CalmInv /\ ResetEndsSessions /\ TokenInv /\ QuietInv /\ SignedOutStays
  /\ UsesInv /\ AttemptsInv

-----------------------------------------------------------------------------
(* Counting requests                                                       *)

LEMMA RequestsFinite ==
  ASSUME NEW S, S \subseteq Request
  PROVE  IsFiniteSet(S) /\ Cardinality(S) \in Nat /\ Cardinality(S) <= Cardinality(Request)
           /\ Cardinality(Request) \in Nat
BY FS_Subset, FS_CardinalityType, SessionsAssumption

LEMMA OneFewer ==
  ASSUME NEW S, S \subseteq Request, NEW r \in S
  PROVE  Cardinality(S \ {r}) = Cardinality(S) - 1
BY FS_RemoveElement, RequestsFinite

-----------------------------------------------------------------------------
(* Types                                                                   *)

LEMMA JobTypes ==
  /\ Idle \in Job
  /\ \A op \in Op, t \in Session \cup Mail \cup {None} :
       /\ [Idle EXCEPT !.op = op, !.pc = "sent", !.token = t] \in Job
       /\ \A pc \in {"ok", "denied", "commit", "revoke"} :
            [Idle EXCEPT !.op = op, !.pc = pc, !.token = t] \in Job
  /\ \A typed \in Nat \cup {None}, ip \in Ip :
       [Idle EXCEPT !.op = "login", !.pc = "sent", !.typed = typed, !.ip = ip] \in Job
BY DEF Idle, Job, Op

LEMMA AnswerType ==
  ASSUME TypeOK, NEW r \in Request, NEW ok \in BOOLEAN, NEW t,
         ok => t \in Session \cup Mail \cup {None}, Answer(r, ok, t)
  PROVE  job' \in [Request -> Job]
<1>1. job[r].op \in Op
  BY DEF TypeOK, Job
<1>2. (IF ok THEN t ELSE None) \in Session \cup Mail \cup {None}
  OBVIOUS
<1>3. (IF ok THEN "ok" ELSE "denied") \in {"ok", "denied", "commit", "revoke"}
  OBVIOUS
<1>. QED
  BY <1>1, <1>2, <1>3, JobTypes DEF TypeOK, Answer

LEMMA DoneType ==
  ASSUME TypeOK, NEW r \in Request, Done(r) PROVE job' \in [Request -> Job]
BY JobTypes DEF TypeOK, Done

LEMMA GotoType ==
  ASSUME TypeOK, NEW r \in Request, NEW pc \in {"query", "verify", "commit"}, Goto(r, pc)
  PROVE  job' \in [Request -> Job]
BY DEF TypeOK, Goto, Job

LEMMA TypeInit == Init => TypeOK
<1>. SUFFICES ASSUME Init PROVE TypeOK
  OBVIOUS
<1>1. session \in [Session -> SessionRow] /\ mail \in [Mail -> MailRow]
  BY DEF Init, SessionRow, MailRow
<1>2. attempts \in [Key -> Nat] /\ job \in [Request -> Job]
  BY JobTypes DEF Init
<1>. QED
  BY <1>1, <1>2 DEF Init, TypeOK

LEMMA TypeStep == TypeOK /\ HoldInv /\ [Next]_vars => TypeOK'
<1>. SUFFICES ASSUME TypeOK, HoldInv, [Next]_vars PROVE TypeOK'
  OBVIOUS
<1>. USE DEF user, browser
<1>s. ASSUME NEW r \in Request, NEW typed \in {None, 0} \cup ({password} \ {None}), NEW ip \in Ip,
             SendLogin(r, typed, ip)
      PROVE  TypeOK'
  <2>1. typed \in Nat \cup {None}
    BY DEF TypeOK
  <2>. QED
    BY <1>s, <2>1, JobTypes DEF TypeOK, SendLogin
<1>t. ASSUME NEW r \in Request, NEW op \in {"refresh", "logout"}, Send(r, op) PROVE TypeOK'
  <2>1. op \in Op /\ cookie \in Session \cup Mail \cup {None}
    BY DEF TypeOK, Op
  <2>. QED
    BY <1>t, <2>1, JobTypes DEF TypeOK, Send
<1>1. ASSUME NEW r \in Request, Receive(r) PROVE TypeOK'
  <2>1. cookie' \in Session \cup {None} /\ memory' \in Session \cup {None}
    BY <1>1 DEF TypeOK, HoldInv, Receive, CookieAfter, MemoryAfter
  <2>2. signedOut' \in {"no", "late", "yes"}
    BY <1>1 DEF TypeOK, Receive, SignedOutBy
  <2>. QED
    BY <1>1, <2>1, <2>2, JobTypes DEF TypeOK, Receive
<1>2. ASSUME NEW r \in Request, Lose(r) PROVE TypeOK'
  <2>1. memory' \in Session \cup {None}
    <3>1. [job[r] EXCEPT !.pc = "denied"].op = job[r].op /\ [job[r] EXCEPT !.pc = "denied"].pc = "denied"
      BY DEF TypeOK, Job
    <3>. QED
      BY <1>2, <3>1 DEF TypeOK, Lose, MemoryAfter
  <2>. QED
    BY <1>2, <2>1, JobTypes DEF TypeOK, Lose
<1>3. ASSUME NEW r \in Request, CheckLimit(r) PROVE TypeOK'
  <2>1. job' \in [Request -> Job]
    BY <1>3, AnswerType, GotoType DEF CheckLimit
  <2>. QED
    BY <1>3, <2>1 DEF TypeOK, CheckLimit
<1>4. ASSUME NEW r \in Request, QueryUser(r) PROVE TypeOK'
  <2>1. job' \in [Request -> Job]
    <3>1. (~Resetting) \in BOOLEAN
      BY DEF Resetting
    <3>2. [job[r] EXCEPT !.pc = "verify", !.seen = password, !.calm = ~Resetting] \in Job
      BY <3>1 DEF TypeOK, Job
    <3>. QED
      BY <1>4, <3>2 DEF TypeOK, QueryUser
  <2>. QED
    BY <1>4, <2>1 DEF TypeOK, QueryUser
<1>5. ASSUME NEW r \in Request, VerifyPassword(r) PROVE TypeOK'
  <2>1. job' \in [Request -> Job]
    BY <1>5, AnswerType, GotoType DEF VerifyPassword
  <2>2. attempts' \in [Key -> Nat]
    BY <1>5 DEF TypeOK, VerifyPassword
  <2>. QED
    BY <1>5, <2>1, <2>2 DEF TypeOK, VerifyPassword
<1>6. ASSUME NEW r \in Request, NEW s \in Session, IssueSession(r, s) PROVE TypeOK'
  <2>1. job' \in [Request -> Job]
    BY <1>6, AnswerType DEF IssueSession
  <2>2. session' \in [Session -> SessionRow]
    BY <1>6 DEF TypeOK, IssueSession, SessionRow, Job
  <2>. QED
    BY <1>6, <2>1, <2>2 DEF TypeOK, IssueSession
<1>7. ASSUME NEW r \in Request, Refresh(r) PROVE TypeOK'
  <2>1. job' \in [Request -> Job]
    BY <1>7, AnswerType DEF Refresh
  <2>. QED
    BY <1>7, <2>1 DEF TypeOK, Refresh
<1>8. ASSUME NEW r \in Request, FindSession(r) PROVE TypeOK'
  <2>1. job' \in [Request -> Job]
    <3>1. job[r].token \in Session \cup Mail \cup {None}
      BY DEF TypeOK, Job
    <3>. QED
      BY <1>8, <3>1, AnswerType, GotoType DEF FindSession
  <2>. QED
    BY <1>8, <2>1 DEF TypeOK, FindSession
<1>9. ASSUME NEW r \in Request, Logout(r) PROVE TypeOK'
  <2>1. job' \in [Request -> Job]
    <3>1. job[r].token \in Session \cup Mail \cup {None}
      BY DEF TypeOK, Job
    <3>. QED
      BY <1>9, <3>1, AnswerType DEF Logout
  <2>2. session' \in [Session -> SessionRow]
    BY <1>9 DEF TypeOK, Logout, LoggedOut, SessionRow
  <2>. QED
    BY <1>9, <2>1, <2>2 DEF TypeOK, Logout
<1>10. ASSUME NEW r \in Request, StartSignup(r) PROVE TypeOK'
  <2>1. job' \in [Request -> Job]
    BY <1>10, JobTypes DEF TypeOK, StartSignup, Begin, Op
  <2>. QED
    BY <1>10, <2>1 DEF TypeOK, StartSignup
<1>11. ASSUME NEW r \in Request, NEW m \in Mail, Signup(r, m) PROVE TypeOK'
  <2>1. job' \in [Request -> Job]
    BY <1>11, DoneType DEF Signup
  <2>2. mail' \in [Mail -> MailRow]
    BY <1>11 DEF TypeOK, Signup, NewMail, MailRow
  <2>. QED
    BY <1>11, <2>1, <2>2 DEF TypeOK, Signup
<1>12. ASSUME NEW r \in Request, NEW m \in Mail, StartConfirm(r, m) PROVE TypeOK'
  <2>1. job' \in [Request -> Job]
    <3>1. \A op \in {"verify", "reset"}, pc \in {"commit", "revoke"} :
            [Idle EXCEPT !.op = op, !.pc = pc, !.token = m] \in Job
      BY JobTypes DEF Op
    <3>. QED
      BY <1>12, <3>1 DEF TypeOK, StartConfirm, Begin
  <2>. QED
    BY <1>12, <2>1 DEF TypeOK, StartConfirm
<1>13. ASSUME NEW r \in Request, VerifyEmail(r) PROVE TypeOK'
  <2>1. job' \in [Request -> Job]
    BY <1>13, DoneType DEF VerifyEmail
  <2>2. mail' \in [Mail -> MailRow]
    BY <1>13 DEF TypeOK, HoldInv, VerifyEmail, At, Spent, MailRow
  <2>. QED
    BY <1>13, <2>1, <2>2 DEF TypeOK, VerifyEmail
<1>14. ASSUME NEW r \in Request, RevokeSessions(r) PROVE TypeOK'
  <2>1. job' \in [Request -> Job]
    <3>1. Unrevoked \in SUBSET Session
      BY DEF Unrevoked
    <3>2. [job[r] EXCEPT !.pc = "commit", !.revoking = Unrevoked] \in Job
      BY <3>1 DEF TypeOK, Job
    <3>3. \A x \in Request : [job[x] EXCEPT !.calm = FALSE] \in Job
      BY DEF TypeOK, Job
    <3>. QED
      BY <1>14, <3>2, <3>3 DEF TypeOK, RevokeSessions
  <2>. QED
    BY <1>14, <2>1 DEF TypeOK, RevokeSessions
<1>15. ASSUME NEW r \in Request, CommitReset(r) PROVE TypeOK'
  <2>1. job' \in [Request -> Job]
    BY <1>15, DoneType DEF CommitReset
  <2>2. mail' \in [Mail -> MailRow]
    BY <1>15 DEF TypeOK, HoldInv, CommitReset, At, Spent, MailRow
  <2>3. session' \in [Session -> SessionRow]
    BY <1>15 DEF TypeOK, CommitReset, SessionRow
  <2>4. password' \in Nat
    BY <1>15 DEF TypeOK, HoldInv, CommitReset, At
  <2>. QED
    BY <1>15, <2>1, <2>2, <2>3, <2>4 DEF TypeOK, CommitReset
<1>16. ASSUME NEW r \in Request, Fail(r) PROVE TypeOK'
  <2>1. job' \in [Request -> Job]
    BY <1>16, AnswerType, DoneType DEF Fail
  <2>. QED
    BY <1>16, <2>1 DEF TypeOK, Fail
<1>17. ASSUME NEW m \in Mail, RequestVerification(m) \/ RequestReset(m) PROVE TypeOK'
  <2>1. mail' \in [Mail -> MailRow]
    BY <1>17 DEF TypeOK, RequestVerification, RequestReset, NewMail, MailRow
  <2>. QED
    BY <1>17, <2>1 DEF TypeOK, RequestVerification, RequestReset
<1>18. ASSUME NEW k \in Key, Elapse(k) PROVE TypeOK'
  BY <1>18 DEF TypeOK, Elapse
<1>19. ASSUME NEW s \in Session, ExpireSession(s) PROVE TypeOK'
  <2>1. session' \in [Session -> SessionRow]
    BY <1>19 DEF TypeOK, ExpireSession, SessionRow
  <2>. QED
    BY <1>19, <2>1 DEF TypeOK, ExpireSession
<1>20. ASSUME NEW m \in Mail, ExpireMail(m) PROVE TypeOK'
  <2>1. mail' \in [Mail -> MailRow]
    BY <1>20 DEF TypeOK, ExpireMail, MailRow
  <2>. QED
    BY <1>20, <2>1 DEF TypeOK, ExpireMail
<1>21. CASE UNCHANGED vars
  BY <1>21 DEF TypeOK, vars
<1>. QED
  BY <1>s, <1>t, <1>1, <1>2, <1>3, <1>4, <1>5, <1>6, <1>7, <1>8, <1>9, <1>10, <1>11, <1>12, <1>13,
     <1>14, <1>15, <1>16, <1>17, <1>18, <1>19, <1>20, <1>21 DEF Next, Browser, Server, Time

-----------------------------------------------------------------------------
(* What requests hold                                                      *)

LEMMA AnswerHold ==
  ASSUME TypeOK, HoldInv, NEW r \in Request, job[r].op \in {"login", "logout"},
         Answer(r, FALSE, None), UNCHANGED <<password, mail, session>>
  PROVE  HoldInv'
<1>1. job' = [job EXCEPT ![r] = [Idle EXCEPT !.op = job[r].op, !.pc = "denied", !.token = None]]
  BY DEF Answer
<1>. QED
  BY <1>1 DEF TypeOK, HoldInv, Idle

LEMMA HoldStep == TypeOK /\ HoldInv /\ [Next]_vars => HoldInv'
<1>. SUFFICES ASSUME TypeOK, HoldInv, [Next]_vars PROVE HoldInv'
  OBVIOUS
<1>. USE DEF user, browser
<1>a. None \notin Session \cup Mail \cup Nat
  BY SessionsAssumption
<1>s. ASSUME NEW r \in Request, NEW typed, NEW ip, SendLogin(r, typed, ip) PROVE HoldInv'
  BY <1>s DEF TypeOK, HoldInv, SendLogin, Idle
<1>t. ASSUME NEW r \in Request, NEW op \in {"refresh", "logout"}, Send(r, op) PROVE HoldInv'
  BY <1>t DEF TypeOK, HoldInv, Send, Idle
<1>1. ASSUME NEW r \in Request, Receive(r) PROVE HoldInv'
  BY <1>1 DEF TypeOK, HoldInv, Receive, Idle
<1>2. ASSUME NEW r \in Request, Lose(r) PROVE HoldInv'
  BY <1>2 DEF TypeOK, HoldInv, Lose, Idle
<1>3. ASSUME NEW r \in Request, CheckLimit(r) PROVE HoldInv'
  <2>1. CASE Limited(r)
    BY <1>3, <2>1, AnswerHold DEF CheckLimit, At
  <2>2. CASE ~Limited(r)
    BY <1>3, <2>2 DEF TypeOK, HoldInv, CheckLimit, Goto, At, Job
  <2>. QED
    BY <2>1, <2>2
<1>4. ASSUME NEW r \in Request, QueryUser(r) PROVE HoldInv'
  BY <1>4 DEF TypeOK, HoldInv, QueryUser, At, Idle, Job
<1>5. ASSUME NEW r \in Request, VerifyPassword(r) PROVE HoldInv'
  <2>1. CASE job[r].seen # None /\ job[r].typed = job[r].seen
    BY <1>5, <2>1 DEF TypeOK, HoldInv, VerifyPassword, Goto, At, Job
  <2>2. CASE ~(job[r].seen # None /\ job[r].typed = job[r].seen)
    BY <1>5, <2>2, AnswerHold DEF VerifyPassword, At
  <2>. QED
    BY <2>1, <2>2
<1>6. ASSUME NEW r \in Request, NEW s \in Session, IssueSession(r, s) PROVE HoldInv'
  BY <1>6 DEF TypeOK, HoldInv, IssueSession, Answer, At, Idle, Job
<1>7. ASSUME NEW r \in Request, Refresh(r) PROVE HoldInv'
  BY <1>7 DEF TypeOK, HoldInv, Refresh, Answer, At, Idle, Job
<1>8. ASSUME NEW r \in Request, FindSession(r) PROVE HoldInv'
  <2> DEFINE found == job[r].token \in Session /\ session[job[r].token].state = "live"
  <2>1. CASE found
    BY <1>8, <2>1 DEF TypeOK, HoldInv, FindSession, Goto, At, Job
  <2>2. CASE ~found
    <3> DEFINE h == [Idle EXCEPT !.op = "logout", !.pc = "ok", !.token = job[r].token]
    <3>1. h.op = "logout" /\ h.pc = "ok" /\ h.token = job[r].token
      BY DEF Idle
    <3>2. job' = [job EXCEPT ![r] = h] /\ job[r].op = "logout"
      BY <1>8, <2>2 DEF FindSession, Answer, At
    <3>. HIDE DEF h
    <3>3. \A x \in Request : job'[x] = IF x = r THEN h ELSE job[x]
      BY <3>2 DEF TypeOK
    <3>. QED
      BY <1>8, <3>1, <3>2, <3>3 DEF HoldInv, FindSession
  <2>. QED
    BY <2>1, <2>2
<1>9. ASSUME NEW r \in Request, Logout(r) PROVE HoldInv'
  BY <1>9 DEF TypeOK, HoldInv, Logout, LoggedOut, Answer, At, Idle, Job
<1>10. ASSUME NEW r \in Request, StartSignup(r) PROVE HoldInv'
  BY <1>10 DEF TypeOK, HoldInv, StartSignup, Begin, Idle
<1>11. ASSUME NEW r \in Request, NEW m \in Mail, Signup(r, m) PROVE HoldInv'
  BY <1>a, <1>11 DEF TypeOK, HoldInv, Signup, NewMail, Done, Idle
<1>12. ASSUME NEW r \in Request, NEW m \in Mail, StartConfirm(r, m) PROVE HoldInv'
  <2>1. password # None
    BY <1>12 DEF HoldInv, StartConfirm
  <2>2. CASE mail[m].purpose = "email_verify"
    <3>1. job' = [job EXCEPT ![r] = [Idle EXCEPT !.op = "verify", !.pc = "commit", !.token = m]]
      BY <1>12, <2>2 DEF StartConfirm, Begin
    <3>. QED
      BY <1>12, <2>1, <3>1 DEF TypeOK, HoldInv, StartConfirm, Idle
  <2>3. CASE mail[m].purpose # "email_verify"
    <3>1. job' = [job EXCEPT ![r] = [Idle EXCEPT !.op = "reset", !.pc = "revoke", !.token = m]]
      BY <1>12, <2>3 DEF StartConfirm, Begin
    <3>. QED
      BY <1>12, <2>1, <3>1 DEF TypeOK, HoldInv, StartConfirm, Idle
  <2>. QED
    BY <2>2, <2>3
<1>13. ASSUME NEW r \in Request, VerifyEmail(r) PROVE HoldInv'
  <2>1. password # None
    BY <1>13 DEF HoldInv, VerifyEmail, At
  <2>. QED
    BY <1>13, <2>1 DEF TypeOK, HoldInv, VerifyEmail, Done, Idle
<1>14. ASSUME NEW r \in Request, RevokeSessions(r) PROVE HoldInv'
  BY <1>14 DEF TypeOK, HoldInv, RevokeSessions, At, Job
<1>15. ASSUME NEW r \in Request, CommitReset(r) PROVE HoldInv'
  <2>1. password # None /\ password' # None
    BY <1>a, <1>15 DEF TypeOK, HoldInv, CommitReset, At
  <2>. QED
    BY <1>15, <2>1 DEF TypeOK, HoldInv, CommitReset, Done, Idle
<1>16. ASSUME NEW r \in Request, Fail(r) PROVE HoldInv'
  <2>1. CASE job[r].op \in {"login", "logout"}
    BY <1>16, <2>1, AnswerHold DEF Fail
  <2>2. CASE job[r].op \notin {"login", "logout"}
    BY <1>16, <2>2 DEF TypeOK, HoldInv, Fail, Done, Idle
  <2>. QED
    BY <2>1, <2>2
<1>17. ASSUME NEW m \in Mail, RequestVerification(m) \/ RequestReset(m) PROVE HoldInv'
  BY <1>17 DEF HoldInv, RequestVerification, RequestReset
<1>18. ASSUME NEW k \in Key, Elapse(k) PROVE HoldInv'
  BY <1>18 DEF HoldInv, Elapse
<1>19. ASSUME NEW s \in Session, ExpireSession(s) PROVE HoldInv'
  BY <1>19 DEF HoldInv, ExpireSession
<1>20. ASSUME NEW m \in Mail, ExpireMail(m) PROVE HoldInv'
  BY <1>20 DEF TypeOK, HoldInv, ExpireMail, MailRow
<1>21. CASE UNCHANGED vars
  BY <1>21 DEF HoldInv, vars
<1>. QED
  BY <1>s, <1>t, <1>1, <1>2, <1>3, <1>4, <1>5, <1>6, <1>7, <1>8, <1>9, <1>10, <1>11, <1>12, <1>13,
     <1>14, <1>15, <1>16, <1>17, <1>18, <1>19, <1>20, <1>21 DEF Next, Browser, Server, Time

-----------------------------------------------------------------------------
(* What a reset ends                                                       *)

\* A step that changes one request, begins no login and no commit of a reset,
\* and opens no session.
LEMMA CalmFrame ==
  ASSUME TypeOK, CalmInv, ResetEndsSessions, NEW r \in Request, NEW h,
         job' = [job EXCEPT ![r] = h],
         h.calm => job[r].calm /\ h.op = job[r].op /\ h.seen = job[r].seen,
         ~(h.op = "reset" /\ h.pc = "commit"), password' = password,
         \A s \in Session : session'[s].state = "live" => session'[s] = session[s]
  PROVE  CalmInv' /\ ResetEndsSessions'
<1>1. \A x \in Request : job'[x] = IF x = r THEN h ELSE job[x]
  BY DEF TypeOK
<1>2. Resetting' => Resetting
  BY <1>1 DEF Resetting, At
<1>3. ResetEndsSessions'
  BY DEF ResetEndsSessions
<1>4. ASSUME NEW x \in Request, job'[x].calm
      PROVE  /\ job'[x].op = "login" /\ ~Resetting'
             /\ job'[x].seen # None => job'[x].seen = password'
  BY <1>1, <1>2, <1>4 DEF CalmInv
<1>5. ASSUME NEW x \in Request, job'[x].op = "reset" /\ job'[x].pc = "commit",
             NEW s \in Session, session'[s].state = "live" /\ session'[s].calm
      PROVE  s \in job'[x].revoking
  BY <1>1, <1>5 DEF CalmInv, At
<1>. QED
  BY <1>3, <1>4, <1>5 DEF CalmInv, At

LEMMA CalmAnswer ==
  ASSUME TypeOK, CalmInv, ResetEndsSessions, NEW r \in Request, NEW ok \in BOOLEAN, NEW t,
         Answer(r, ok, t), password' = password,
         \A s \in Session : session'[s].state = "live" => session'[s] = session[s]
  PROVE  CalmInv' /\ ResetEndsSessions'
<1> DEFINE h == [Idle EXCEPT !.op = job[r].op, !.pc = IF ok THEN "ok" ELSE "denied",
                             !.token = IF ok THEN t ELSE None]
<1>1. h.calm = FALSE /\ h.pc # "commit"
  BY DEF Idle
<1>2. job' = [job EXCEPT ![r] = h]
  BY DEF Answer
<1>. HIDE DEF h
<1>. QED
  BY <1>1, <1>2, CalmFrame

LEMMA CalmIdle ==
  ASSUME TypeOK, CalmInv, ResetEndsSessions, NEW r \in Request, NEW op, NEW pc, NEW t,
         op # "reset" \/ pc # "commit",
         job' = [job EXCEPT ![r] = [Idle EXCEPT !.op = op, !.pc = pc, !.token = t]]
           \/ job' = [job EXCEPT ![r] = Idle],
         password' = password,
         \A s \in Session : session'[s].state = "live" => session'[s] = session[s]
  PROVE  CalmInv' /\ ResetEndsSessions'
<1> DEFINE h == [Idle EXCEPT !.op = op, !.pc = pc, !.token = t]
<1>1. h.calm = FALSE /\ h.pc = pc /\ h.op = op /\ Idle.calm = FALSE /\ Idle.op = "none"
  BY DEF Idle
<1>2. CASE job' = [job EXCEPT ![r] = h]
  <2>. HIDE DEF h
  <2>. QED
    BY <1>1, <1>2, CalmFrame
<1>3. CASE job' = [job EXCEPT ![r] = Idle]
  BY <1>1, <1>3, CalmFrame
<1>. QED
  BY <1>2, <1>3

LEMMA CalmGoto ==
  ASSUME TypeOK, CalmInv, ResetEndsSessions, NEW r \in Request, NEW pc, job[r].op # "reset",
         Goto(r, pc), password' = password,
         \A s \in Session : session'[s].state = "live" => session'[s] = session[s]
  PROVE  CalmInv' /\ ResetEndsSessions'
<1> DEFINE h == [job[r] EXCEPT !.pc = pc]
<1>1. h.calm = job[r].calm /\ h.op = job[r].op /\ h.seen = job[r].seen
  BY DEF TypeOK, Job
<1>2. job' = [job EXCEPT ![r] = h]
  BY DEF Goto
<1>. HIDE DEF h
<1>. QED
  BY <1>1, <1>2, CalmFrame

LEMMA CalmStep ==
  TypeOK /\ HoldInv /\ CalmInv /\ ResetEndsSessions /\ [Next]_vars => CalmInv' /\ ResetEndsSessions'
<1>. SUFFICES ASSUME TypeOK, HoldInv, CalmInv, ResetEndsSessions, [Next]_vars
              PROVE  CalmInv' /\ ResetEndsSessions'
  OBVIOUS
<1>. USE DEF user, browser
<1> DEFINE P == CalmInv' /\ ResetEndsSessions'
<1>s. ASSUME NEW r \in Request, NEW typed, NEW ip, SendLogin(r, typed, ip) PROVE P
  <2> DEFINE h == [Idle EXCEPT !.op = "login", !.pc = "sent", !.typed = typed, !.ip = ip]
  <2>1. h.calm = FALSE /\ h.op = "login"
    BY DEF Idle
  <2>2. job' = [job EXCEPT ![r] = h] /\ password' = password /\ session' = session
    BY <1>s DEF SendLogin
  <2>. HIDE DEF h
  <2>. QED
    BY <2>1, <2>2, CalmFrame
<1>t. ASSUME NEW r \in Request, NEW op \in {"refresh", "logout"}, Send(r, op) PROVE P
  BY <1>t, CalmIdle DEF Send
<1>1. ASSUME NEW r \in Request, Receive(r) PROVE P
  BY <1>1, CalmIdle DEF Receive
<1>2. ASSUME NEW r \in Request, Lose(r) PROVE P
  BY <1>2, CalmIdle DEF Lose
<1>3. ASSUME NEW r \in Request, CheckLimit(r) PROVE P
  BY <1>3, CalmAnswer, CalmGoto DEF CheckLimit, At
<1>4. ASSUME NEW r \in Request, QueryUser(r) PROVE P
  <2> DEFINE h == [job[r] EXCEPT !.pc = "verify", !.seen = password, !.calm = ~Resetting]
  <2>1. h.calm = ~Resetting /\ h.op = "login" /\ h.seen = password
    BY <1>4 DEF TypeOK, Job, QueryUser, At
  <2>2. job' = [job EXCEPT ![r] = h] /\ password' = password /\ session' = session
    BY <1>4 DEF QueryUser
  <2>. HIDE DEF h
  <2>3. \A x \in Request : job'[x] = IF x = r THEN h ELSE job[x]
    BY <2>2 DEF TypeOK
  <2>4. Resetting' => Resetting
    BY <2>1, <2>3 DEF Resetting, At
  <2>5. ASSUME NEW x \in Request, job'[x].calm
        PROVE  /\ job'[x].op = "login" /\ ~Resetting'
               /\ job'[x].seen # None => job'[x].seen = password'
    BY <2>1, <2>2, <2>3, <2>4, <2>5 DEF CalmInv
  <2>6. ASSUME NEW x \in Request, At(x, "reset", "commit")',
               NEW s \in Session, session'[s].state = "live" /\ session'[s].calm
        PROVE  s \in job'[x].revoking
    BY <2>1, <2>2, <2>3, <2>6 DEF CalmInv, At
  <2>7. CalmInv'
    BY <2>5, <2>6 DEF CalmInv
  <2>8. ResetEndsSessions'
    BY <2>2 DEF ResetEndsSessions
  <2>. QED
    BY <2>7, <2>8
<1>5. ASSUME NEW r \in Request, VerifyPassword(r) PROVE P
  BY <1>5, CalmAnswer, CalmGoto DEF VerifyPassword, At
<1>6. ASSUME NEW r \in Request, NEW t \in Session, IssueSession(r, t) PROVE P
  <2> DEFINE h == [Idle EXCEPT !.op = "login", !.pc = "ok", !.token = t]
  <2>1. h.calm = FALSE /\ h.op = "login"
    BY DEF Idle
  <2>2. job' = [job EXCEPT ![r] = h] /\ password' = password
    BY <1>6 DEF IssueSession, Answer, At
  <2>. HIDE DEF h
  <2>3. \A x \in Request : job'[x] = IF x = r THEN h ELSE job[x]
    BY <2>2 DEF TypeOK
  <2>4. /\ \A s \in Session \ {t} : session'[s] = session[s]
        /\ session'[t].password = job[r].seen /\ session'[t].calm = job[r].calm
    BY <1>6 DEF IssueSession, TypeOK, SessionRow
  <2>5. job[r].calm => ~Resetting /\ job[r].seen = password
    BY <1>6 DEF CalmInv, HoldInv, IssueSession, At
  <2>6. ResetEndsSessions'
    BY <2>2, <2>4, <2>5 DEF ResetEndsSessions
  <2>7. Resetting' => Resetting
    BY <2>1, <2>3 DEF Resetting, At
  <2>8. ASSUME NEW x \in Request, job'[x].calm
        PROVE  /\ job'[x].op = "login" /\ ~Resetting'
               /\ job'[x].seen # None => job'[x].seen = password'
    BY <2>1, <2>2, <2>3, <2>7, <2>8 DEF CalmInv
  <2>9. ASSUME NEW x \in Request, At(x, "reset", "commit")',
               NEW s \in Session, session'[s].state = "live" /\ session'[s].calm
        PROVE  s \in job'[x].revoking
    <3>1. At(x, "reset", "commit") /\ job'[x] = job[x]
      BY <2>1, <2>3, <2>9 DEF At
    <3>2. s # t
      BY <2>4, <2>5, <2>9, <3>1 DEF Resetting
    <3>. QED
      BY <2>4, <2>9, <3>1, <3>2 DEF CalmInv
  <2>. QED
    BY <2>6, <2>8, <2>9 DEF CalmInv
<1>7. ASSUME NEW r \in Request, Refresh(r) PROVE P
  BY <1>7, CalmAnswer DEF Refresh
<1>8. ASSUME NEW r \in Request, FindSession(r) PROVE P
  BY <1>8, CalmAnswer, CalmGoto DEF FindSession, At
<1>9. ASSUME NEW r \in Request, Logout(r) PROVE P
  <2>1. \A s \in Session : session'[s].state = "live" => session'[s] = session[s]
    BY <1>9 DEF Logout, LoggedOut, TypeOK, SessionRow
  <2>. QED
    BY <1>9, <2>1, CalmAnswer DEF Logout
<1>10. ASSUME NEW r \in Request, StartSignup(r) PROVE P
  <2>1. job' = [job EXCEPT ![r] = [Idle EXCEPT !.op = "signup", !.pc = "commit", !.token = None]]
    BY <1>10 DEF StartSignup, Begin
  <2>2. session' = session /\ password' = password
    BY <1>10 DEF StartSignup
  <2> DEFINE h == [Idle EXCEPT !.op = "signup", !.pc = "commit", !.token = None]
  <2>3. h.calm = FALSE /\ h.op = "signup" /\ job' = [job EXCEPT ![r] = h]
    BY <2>1 DEF Idle
  <2>. HIDE DEF h
  <2>. QED
    BY <2>2, <2>3, CalmFrame
<1>11. ASSUME NEW r \in Request, NEW m \in Mail, Signup(r, m) PROVE P
  <2>1. job' = [job EXCEPT ![r] = Idle] /\ session' = session /\ password = None
    BY <1>11 DEF Signup, Done
  <2>2. \A x \in Request : job'[x] = IF x = r THEN Idle ELSE job[x]
    BY <2>1 DEF TypeOK
  <2>3. Idle.calm = FALSE /\ Idle.op = "none"
    BY DEF Idle
  <2>4. Resetting' => Resetting
    BY <2>2, <2>3 DEF Resetting, At
  <2>5. \A s \in Session : session[s].state = "live" /\ session[s].calm => session[s].password = None
    BY <2>1 DEF ResetEndsSessions
  <2>. QED
    <3>1. ResetEndsSessions'
      <4>1. \A s \in Session : session[s].state = "live" => session[s].password # None
        BY DEF HoldInv
      <4>. QED
        BY <2>1, <2>5, <4>1 DEF ResetEndsSessions
    <3>. QED
      BY <2>1, <2>2, <2>3, <2>4, <2>5, <1>11, <3>1 DEF CalmInv, At
<1>12. ASSUME NEW r \in Request, NEW m \in Mail, StartConfirm(r, m) PROVE P
  <2>1. session' = session /\ password' = password
    BY <1>12 DEF StartConfirm
  <2>2. \E op \in {"verify", "reset"}, pc \in {"commit", "revoke"} :
          /\ op # "reset" \/ pc # "commit"
          /\ job' = [job EXCEPT ![r] = [Idle EXCEPT !.op = op, !.pc = pc, !.token = m]]
    BY <1>12 DEF StartConfirm, Begin
  <2>. QED
    BY <2>1, <2>2, CalmIdle
<1>13. ASSUME NEW r \in Request, VerifyEmail(r) PROVE P
  BY <1>13, CalmIdle DEF VerifyEmail, Done
<1>14. ASSUME NEW r \in Request, RevokeSessions(r) PROVE P
  <2>1. \A x \in Request : job'[x] = IF x = r THEN [job[x] EXCEPT !.pc = "commit", !.revoking = Unrevoked]
                                    ELSE [job[x] EXCEPT !.calm = FALSE]
    BY <1>14 DEF RevokeSessions
  <2>2. job'[r].calm = FALSE /\ job'[r].revoking = Unrevoked
    BY <1>14, <2>1 DEF RevokeSessions, At, CalmInv, TypeOK, Job
  <2>3. \A x \in Request \ {r} : job'[x].calm = FALSE /\ job'[x].op = job[x].op
                                 /\ job'[x].pc = job[x].pc /\ job'[x].revoking = job[x].revoking
    <3>1. \A x \in Request \ {r} : job'[x] = [job[x] EXCEPT !.calm = FALSE] /\ job[x] \in Job
      BY <2>1 DEF TypeOK
    <3>. QED
      BY <3>1 DEF Job
  <2>4. session' = session /\ password' = password
    BY <1>14 DEF RevokeSessions
  <2>. QED
    BY <2>2, <2>3, <2>4 DEF CalmInv, ResetEndsSessions, At, Unrevoked
<1>15. ASSUME NEW r \in Request, CommitReset(r) PROVE P
  <2>1. job' = [job EXCEPT ![r] = Idle] /\ At(r, "reset", "commit")
    BY <1>15 DEF CommitReset, Done
  <2>2. \A x \in Request : job'[x] = IF x = r THEN Idle ELSE job[x]
    BY <2>1 DEF TypeOK
  <2>3. Idle.calm = FALSE /\ Idle.op = "none"
    BY DEF Idle
  <2>4. \A x \in Request : job[x].calm = FALSE
    BY <2>1 DEF CalmInv, Resetting, TypeOK, Job
  <2>5. \A s \in Session : ~(session'[s].state = "live" /\ session'[s].calm)
    <3>1. \A s \in Session : session[s].state = "live" /\ session[s].calm => s \in job[r].revoking
      BY <2>1 DEF CalmInv
    <3>. QED
      BY <1>15, <3>1 DEF CommitReset, TypeOK, SessionRow
  <2>. QED
    BY <2>2, <2>3, <2>4, <2>5 DEF CalmInv, ResetEndsSessions, At
<1>16. ASSUME NEW r \in Request, Fail(r) PROVE P
  BY <1>16, CalmAnswer, CalmIdle DEF Fail, Done
<1>17. ASSUME NEW m \in Mail, RequestVerification(m) \/ RequestReset(m) PROVE P
  BY <1>17 DEF CalmInv, ResetEndsSessions, Resetting, At, RequestVerification, RequestReset
<1>18. ASSUME NEW k \in Key, Elapse(k) PROVE P
  BY <1>18 DEF CalmInv, ResetEndsSessions, Resetting, At, Elapse
<1>19. ASSUME NEW s \in Session, ExpireSession(s) PROVE P
  <2>1. \A x \in Session : session'[x].state = "live" => session'[x] = session[x]
    BY <1>19 DEF ExpireSession, TypeOK, SessionRow
  <2>. QED
    BY <1>19, <2>1 DEF CalmInv, ResetEndsSessions, Resetting, At, ExpireSession
<1>20. ASSUME NEW m \in Mail, ExpireMail(m) PROVE P
  BY <1>20 DEF CalmInv, ResetEndsSessions, Resetting, At, ExpireMail
<1>21. CASE UNCHANGED vars
  BY <1>21 DEF CalmInv, ResetEndsSessions, Resetting, At, vars
<1>. QED
  BY <1>s, <1>t, <1>1, <1>2, <1>3, <1>4, <1>5, <1>6, <1>7, <1>8, <1>9, <1>10, <1>11, <1>12, <1>13,
     <1>14, <1>15, <1>16, <1>17, <1>18, <1>19, <1>20, <1>21 DEF Next, Browser, Server, Time

-----------------------------------------------------------------------------
(* What a logout leaves behind                                             *)

\* A step that opens no session and changes one request, which starts neither a
\* login nor a refresh, and ends a refresh well only if its session is live.
LEMMA QuietFrame ==
  ASSUME TypeOK, HoldInv, TokenInv, QuietInv, SignedOutStays, NEW r \in Request, NEW h,
         job' = [job EXCEPT ![r] = h], UNCHANGED browser,
         \A s \in Session : session'[s].state \in {session[s].state, "ended"},
         h.op = "login" => job[r].op = "login" /\ h.pc # "ok",
         h.op \in {"refresh", "logout"} => h.op = job[r].op /\ h.token \in {None, job[r].token},
         h.op = "refresh" /\ h.pc = "ok" =>
           h.token # None /\ h.token = job[r].token /\ session[h.token].state = "live",
         h.op = "logout" /\ h.pc = "ok" => (h.token # None => session'[h.token].state = "ended")
  PROVE  TokenInv' /\ QuietInv' /\ SignedOutStays'
<1>1. \A x \in Request : job'[x] = IF x = r THEN h ELSE job[x]
  BY DEF TypeOK
<1>2. UNCHANGED <<cookie, memory, signedOut>>
  BY DEF browser
<1>3. cookie \in Session \cup {None}
        /\ \A x \in Request : job[x].op \in {"login", "refresh", "logout"}
                                => job[x].token \in Session \cup {None}
  BY DEF TypeOK, HoldInv
<1>4. TokenInv'
  <2>1. cookie' # None => session'[cookie'].state # "none"
    BY <1>2, <1>3 DEF TokenInv
  <2>2. ASSUME NEW x \in Request PROVE Carried(job[x])'
    <3>1. CASE x = r
      <4>1. job'[x] = h
        BY <1>1, <3>1
      <4>2. h.op \in {"refresh", "logout"} /\ h.token # None => session'[h.token].state # "none"
        BY <1>3 DEF TokenInv, Carried
      <4>. QED
        BY <4>1, <4>2 DEF Carried
    <3>2. CASE x # r
      <4>1. job'[x] = job[x]
        BY <1>1, <3>2
      <4>2. Carried(job[x])
        BY DEF TokenInv
      <4>. QED
        BY <1>3, <4>1, <4>2 DEF Carried
    <3>. QED
      BY <3>1, <3>2
  <2>. QED
    BY <2>1, <2>2 DEF TokenInv
<1>5. QuietInv'
  <2>1. ASSUME signedOut = "yes", NEW x \in Request, job'[x].op = "refresh"
        PROVE  job'[x].pc # "ok" /\ (job'[x].token # None => session'[job'[x].token].state # "live")
    <3>1. job[x].op = "refresh"
      BY <1>1, <2>1
    <3>2. job[x].pc # "ok" /\ (job[x].token # None => session[job[x].token].state # "live")
      BY <2>1, <3>1 DEF QuietInv
    <3>. QED
      BY <1>1, <1>3, <2>1, <3>1, <3>2
  <2>. QED
    BY <1>1, <1>2, <2>1 DEF QuietInv
<1>6. SignedOutStays'
  BY <1>2, <1>3 DEF SignedOutStays
<1>. QED
  BY <1>4, <1>5, <1>6

LEMMA QuietAnswer ==
  ASSUME TypeOK, HoldInv, TokenInv, QuietInv, SignedOutStays, NEW r \in Request, NEW ok \in BOOLEAN,
         Answer(r, ok, job[r].token), UNCHANGED browser,
         \A s \in Session : session'[s].state \in {session[s].state, "ended"},
         job[r].op = "login" => ~ok,
         job[r].op = "refresh" /\ ok => job[r].token # None /\ session[job[r].token].state = "live",
         job[r].op = "logout" /\ ok => (job[r].token # None => session'[job[r].token].state = "ended")
  PROVE  TokenInv' /\ QuietInv' /\ SignedOutStays'
<1> DEFINE h == [Idle EXCEPT !.op = job[r].op, !.pc = IF ok THEN "ok" ELSE "denied",
                             !.token = IF ok THEN job[r].token ELSE None]
<1>1. h.op = job[r].op /\ h.token = (IF ok THEN job[r].token ELSE None)
        /\ h.pc = (IF ok THEN "ok" ELSE "denied")
  BY DEF Idle
<1>2. job' = [job EXCEPT ![r] = h]
  BY DEF Answer
<1>3. h.pc = "ok" => ok
  BY <1>1
<1>4. h.op = "login" => job[r].op = "login" /\ h.pc # "ok"
  BY <1>1, <1>3
<1>5. h.op = "refresh" /\ h.pc = "ok" =>
        h.token # None /\ h.token = job[r].token /\ session[h.token].state = "live"
  BY <1>1, <1>3
<1>6. h.op = "logout" /\ h.pc = "ok" => (h.token # None => session'[h.token].state = "ended")
  BY <1>1, <1>3
<1>7. h.token \in {None, job[r].token}
  BY <1>1
<1>. HIDE DEF h
<1>. QED
  BY <1>1, <1>2, <1>4, <1>5, <1>6, <1>7, QuietFrame

LEMMA QuietDeny ==
  ASSUME TypeOK, HoldInv, TokenInv, QuietInv, SignedOutStays, NEW r \in Request,
         Answer(r, FALSE, None), UNCHANGED browser, session' = session
  PROVE  TokenInv' /\ QuietInv' /\ SignedOutStays'
<1>1. Answer(r, FALSE, job[r].token)
  BY DEF Answer
<1>. QED
  BY <1>1, QuietAnswer

LEMMA QuietGoto ==
  ASSUME TypeOK, HoldInv, TokenInv, QuietInv, SignedOutStays, NEW r \in Request,
         NEW pc \in {"query", "commit"}, Goto(r, pc), UNCHANGED browser, session' = session
  PROVE  TokenInv' /\ QuietInv' /\ SignedOutStays'
<1> DEFINE h == [job[r] EXCEPT !.pc = pc]
<1>1. h.op = job[r].op /\ h.token = job[r].token /\ h.pc = pc
  BY DEF TypeOK, Job
<1>2. job' = [job EXCEPT ![r] = h]
  BY DEF Goto
<1>. HIDE DEF h
<1>. QED
  BY <1>1, <1>2, QuietFrame

LEMMA QuietIdle ==
  ASSUME TypeOK, HoldInv, TokenInv, QuietInv, SignedOutStays, NEW r \in Request,
         job' = [job EXCEPT ![r] = Idle], UNCHANGED browser,
         \A s \in Session : session'[s].state \in {session[s].state, "ended"}
  PROVE  TokenInv' /\ QuietInv' /\ SignedOutStays'
<1>1. Idle.op = "none"
  BY DEF Idle
<1>. QED
  BY <1>1, QuietFrame

LEMMA QuietBegin ==
  ASSUME TypeOK, HoldInv, TokenInv, QuietInv, SignedOutStays, NEW r \in Request,
         NEW op \in {"signup", "verify", "reset"}, NEW pc, NEW t, Begin(r, op, pc, t),
         UNCHANGED browser, session' = session
  PROVE  TokenInv' /\ QuietInv' /\ SignedOutStays'
<1> DEFINE h == [Idle EXCEPT !.op = op, !.pc = pc, !.token = t]
<1>1. h.op = op
  BY DEF Idle
<1>2. job' = [job EXCEPT ![r] = h]
  BY DEF Begin
<1>. HIDE DEF h
<1>. QED
  BY <1>1, <1>2, QuietFrame

\* A request that is sent carries the cookie.
LEMMA QuietSend ==
  ASSUME TypeOK, HoldInv, TokenInv, QuietInv, SignedOutStays, NEW r \in Request,
         NEW op \in {"refresh", "logout"}, Send(r, op)
  PROVE  TokenInv' /\ QuietInv' /\ SignedOutStays'
<1> DEFINE h == [Idle EXCEPT !.op = op, !.pc = "sent", !.token = cookie]
<1>1. h.op = op /\ h.token = cookie /\ h.pc = "sent"
  BY DEF Idle
<1>2. job' = [job EXCEPT ![r] = h] /\ UNCHANGED <<cookie, memory, signedOut, session>>
  BY DEF Send, browser
<1>. HIDE DEF h
<1>3. \A x \in Request : job'[x] = IF x = r THEN h ELSE job[x]
  BY <1>2 DEF TypeOK
<1>4. TokenInv'
  <2>1. ASSUME NEW x \in Request PROVE Carried(job[x])'
    BY <1>1, <1>2, <1>3 DEF TokenInv, Carried
  <2>. QED
    BY <1>2, <2>1 DEF TokenInv
<1>. QED
  BY <1>1, <1>2, <1>3, <1>4 DEF QuietInv, SignedOutStays

\* The answers: a logout leaves the browser with no cookie, or with one whose
\* session it has ended.
LEMMA QuietReceive ==
  ASSUME TypeOK, HoldInv, TokenInv, QuietInv, SignedOutStays, NEW r \in Request, Receive(r)
  PROVE  TokenInv' /\ QuietInv' /\ SignedOutStays'
<1>1. /\ job' = [job EXCEPT ![r] = Idle] /\ session' = session
      /\ cookie' \in CookieAfter(job[r]) /\ memory' = MemoryAfter(job[r])
      /\ signedOut' = IF At(r, "logout", "ok") THEN SignedOutBy(r, cookie') ELSE signedOut
  BY DEF Receive
<1>2. \A x \in Request : job'[x] = IF x = r THEN Idle ELSE job[x]
  BY <1>1 DEF TypeOK
<1>3. Idle.op = "none"
  BY DEF Idle
<1>4. TokenInv'
  <2>1. cookie' # None => session'[cookie'].state # "none"
    <3>1. cookie' \in {cookie, None} \/ (job[r].op = "login" /\ job[r].pc = "ok" /\ cookie' = job[r].token)
      BY <1>1 DEF CookieAfter
    <3>. QED
      BY <1>1, <3>1 DEF TokenInv, Carried
  <2>2. ASSUME NEW x \in Request PROVE Carried(job[x])'
    BY <1>1, <1>2, <1>3 DEF TokenInv, Carried
  <2>. QED
    BY <2>1, <2>2 DEF TokenInv
<1>5. CASE At(r, "logout", "ok")
  <2>1. memory' = None /\ cookie' \in {cookie, None} /\ signedOut' = SignedOutBy(r, cookie')
    BY <1>1, <1>5 DEF CookieAfter, MemoryAfter, At
  <2>2. signedOut' # "no" => cookie' \in {job[r].token, None} /\ ~Beside(r, "login")
    BY <2>1 DEF SignedOutBy
  <2>3. signedOut' = "yes" => ~Beside(r, "refresh")
    BY <2>1 DEF SignedOutBy
  <2>4. QuietInv'
    BY <1>2, <1>3, <2>2, <2>3 DEF QuietInv, Beside
  <2>5. signedOut' # "no" /\ cookie' # None => session'[cookie'].state # "live"
    BY <1>1, <1>5, <2>2 DEF TokenInv, Carried, At
  <2>. QED
    BY <1>4, <2>1, <2>4, <2>5 DEF SignedOutStays
<1>6. CASE ~At(r, "logout", "ok")
  <2>1. signedOut' = signedOut
    BY <1>1, <1>6
  <2>2. signedOut # "no" => cookie' = cookie
    BY <1>1, <1>6 DEF CookieAfter, At, QuietInv
  <2>3. signedOut = "yes" => memory' = None
    BY <1>1, <1>6 DEF MemoryAfter, At, QuietInv, SignedOutStays
  <2>4. QuietInv'
    BY <1>1, <1>2, <1>3, <2>1 DEF QuietInv
  <2>. QED
    BY <1>1, <1>4, <2>1, <2>2, <2>3, <2>4 DEF SignedOutStays
<1>. QED
  BY <1>5, <1>6

\* A login opens its session in a row of its own, and there is none once the
\* browser is signed out.
LEMMA QuietIssue ==
  ASSUME TypeOK, HoldInv, TokenInv, QuietInv, SignedOutStays, NEW r \in Request, NEW s \in Session,
         IssueSession(r, s)
  PROVE  TokenInv' /\ QuietInv' /\ SignedOutStays'
<1> DEFINE h == [Idle EXCEPT !.op = "login", !.pc = "ok", !.token = s]
<1>1. h.op = "login" /\ h.token = s
  BY DEF Idle
<1>2. job' = [job EXCEPT ![r] = h] /\ UNCHANGED <<cookie, memory, signedOut>>
  BY DEF IssueSession, Answer, At, browser
<1>. HIDE DEF h
<1>3. \A x \in Request : job'[x] = IF x = r THEN h ELSE job[x]
  BY <1>2 DEF TypeOK
<1>4. /\ session[s].state = "none" /\ session'[s].state = "live"
      /\ \A t \in Session \ {s} : session'[t] = session[t]
  BY DEF IssueSession, TypeOK
<1>5. signedOut = "no"
  BY DEF IssueSession, At, QuietInv
<1>6. TokenInv'
  <2>1. cookie' # None => session'[cookie'].state # "none"
    BY <1>2, <1>4 DEF TokenInv, TypeOK
  <2>2. ASSUME NEW x \in Request PROVE Carried(job[x])'
    <3>1. CASE x = r
      BY <1>1, <1>3, <1>4, <3>1 DEF Carried
    <3>2. CASE x # r
      <4>1. job'[x] = job[x] /\ Carried(job[x])
        BY <1>3, <3>2 DEF TokenInv
      <4>2. job[x].op \in {"login", "refresh", "logout"} => job[x].token \in Session \cup {None}
        BY DEF HoldInv
      <4>. QED
        BY <1>4, <4>1, <4>2 DEF Carried
    <3>. QED
      BY <3>1, <3>2
  <2>. QED
    BY <2>1, <2>2 DEF TokenInv
<1>. QED
  BY <1>2, <1>5, <1>6 DEF QuietInv, SignedOutStays

LEMMA QuietStep ==
  TypeOK /\ HoldInv /\ TokenInv /\ QuietInv /\ SignedOutStays /\ [Next]_vars
    => TokenInv' /\ QuietInv' /\ SignedOutStays'
<1>. SUFFICES ASSUME TypeOK, HoldInv, TokenInv, QuietInv, SignedOutStays, [Next]_vars
              PROVE  TokenInv' /\ QuietInv' /\ SignedOutStays'
  OBVIOUS
<1> DEFINE P == TokenInv' /\ QuietInv' /\ SignedOutStays'
<1>s. ASSUME NEW r \in Request, NEW typed, NEW ip, SendLogin(r, typed, ip) PROVE P
  <2> DEFINE h == [Idle EXCEPT !.op = "login", !.pc = "sent", !.typed = typed, !.ip = ip]
  <2>1. h.op = "login" /\ h.pc = "sent"
    BY DEF Idle
  <2>2. job' = [job EXCEPT ![r] = h] /\ signedOut' = "no" /\ UNCHANGED <<cookie, session>>
    BY <1>s DEF SendLogin
  <2>. HIDE DEF h
  <2>3. \A x \in Request : job'[x] = IF x = r THEN h ELSE job[x]
    BY <2>2 DEF TypeOK
  <2>4. \A x \in Request : Carried(job[x])'
    BY <2>1, <2>2, <2>3 DEF TokenInv, Carried
  <2>. QED
    BY <2>2, <2>4 DEF TokenInv, QuietInv, SignedOutStays
<1>t. ASSUME NEW r \in Request, NEW op \in {"refresh", "logout"}, Send(r, op) PROVE P
  BY <1>t, QuietSend
<1>1. ASSUME NEW r \in Request, Receive(r) PROVE P
  BY <1>1, QuietReceive
<1>2. ASSUME NEW r \in Request, Lose(r) PROVE P
  <2> DEFINE d == [job[r] EXCEPT !.pc = "denied"]
  <2>1. job' = [job EXCEPT ![r] = Idle] /\ Idle.op = "none" /\ session' = session
    BY <1>2 DEF Lose, Idle
  <2>2. \A x \in Request : job'[x] = IF x = r THEN Idle ELSE job[x]
    BY <2>1 DEF TypeOK
  <2>3. d.pc = "denied" /\ memory' = MemoryAfter(d) /\ UNCHANGED <<cookie, signedOut>>
    BY <1>2 DEF Lose, TypeOK, Job
  <2>. HIDE DEF d
  <2>4. memory = None => memory' = None
    BY <2>3 DEF MemoryAfter
  <2>5. \A x \in Request : Carried(job[x])'
    BY <2>1, <2>2 DEF TokenInv, Carried
  <2>. QED
    BY <2>1, <2>2, <2>3, <2>4, <2>5 DEF TokenInv, QuietInv, SignedOutStays
<1>3. ASSUME NEW r \in Request, CheckLimit(r) PROVE P
  BY <1>3, QuietDeny, QuietGoto DEF CheckLimit
<1>4. ASSUME NEW r \in Request, QueryUser(r) PROVE P
  <2> DEFINE h == [job[r] EXCEPT !.pc = "verify", !.seen = password, !.calm = ~Resetting]
  <2>1. h.op = "login" /\ job[r].op = "login" /\ h.pc = "verify"
    BY <1>4 DEF QueryUser, At, TypeOK, Job
  <2>2. job' = [job EXCEPT ![r] = h] /\ UNCHANGED browser /\ session' = session
    BY <1>4 DEF QueryUser
  <2>. HIDE DEF h
  <2>. QED
    BY <2>1, <2>2, QuietFrame
<1>5. ASSUME NEW r \in Request, VerifyPassword(r) PROVE P
  BY <1>5, QuietDeny, QuietGoto DEF VerifyPassword
<1>6. ASSUME NEW r \in Request, NEW s \in Session, IssueSession(r, s) PROVE P
  BY <1>6, QuietIssue
<1>7. ASSUME NEW r \in Request, Refresh(r) PROVE P
  <2> DEFINE ok == job[r].token \in Session /\ session[job[r].token].state = "live"
  <2>1. Answer(r, ok, job[r].token) /\ UNCHANGED browser /\ session' = session /\ job[r].op = "refresh"
    BY <1>7 DEF Refresh, At
  <2>2. ok \in BOOLEAN /\ (ok => job[r].token # None /\ session[job[r].token].state = "live")
    BY SessionsAssumption
  <2>. HIDE DEF ok
  <2>. QED
    BY <2>1, <2>2, QuietAnswer
<1>8. ASSUME NEW r \in Request, FindSession(r) PROVE P
  <2> DEFINE found == job[r].token \in Session /\ session[job[r].token].state = "live"
  <2>1. CASE found
    BY <1>8, <2>1, QuietGoto DEF FindSession
  <2>2. CASE ~found
    <3>1. Answer(r, TRUE, job[r].token) /\ UNCHANGED browser /\ session' = session /\ job[r].op = "logout"
      BY <1>8, <2>2 DEF FindSession, At
    <3>2. job[r].token # None => session[job[r].token].state = "ended"
      <4>1. job[r].token # None => job[r].token \in Session /\ session[job[r].token].state # "none"
        BY <3>1 DEF HoldInv, TokenInv, Carried
      <4>2. \A s \in Session : session[s].state \in {"none", "live", "ended"}
        BY DEF TypeOK, SessionRow
      <4>. QED
        BY <2>2, <4>1, <4>2
    <3>. QED
      BY <3>1, <3>2, QuietAnswer
  <2>. QED
    BY <2>1, <2>2
<1>9. ASSUME NEW r \in Request, Logout(r) PROVE P
  <2>1. Answer(r, TRUE, job[r].token) /\ UNCHANGED browser /\ job[r].op = "logout" /\ job[r].token \in Session
    BY <1>9 DEF Logout, At, HoldInv
  <2>2. session'[job[r].token].state = "ended"
          /\ \A s \in Session : session'[s].state \in {session[s].state, "ended"}
    BY <1>9, <2>1 DEF Logout, LoggedOut, TypeOK, SessionRow
  <2>. QED
    BY <2>1, <2>2, QuietAnswer
<1>10. ASSUME NEW r \in Request, StartSignup(r) PROVE P
  BY <1>10, QuietBegin DEF StartSignup
<1>11. ASSUME NEW r \in Request, NEW m \in Mail, Signup(r, m) PROVE P
  BY <1>11, QuietIdle DEF Signup, Done
<1>12. ASSUME NEW r \in Request, NEW m \in Mail, StartConfirm(r, m) PROVE P
  BY <1>12, QuietBegin DEF StartConfirm
<1>13. ASSUME NEW r \in Request, VerifyEmail(r) PROVE P
  BY <1>13, QuietIdle DEF VerifyEmail, Done
<1>14. ASSUME NEW r \in Request, RevokeSessions(r) PROVE P
  <2>1. \A x \in Request : job'[x].op = job[x].op /\ job'[x].token = job[x].token
                            /\ (job'[x].pc = job[x].pc \/ job'[x].op = "reset")
    <3>1. \A x \in Request : job'[x] = IF x = r THEN [job[x] EXCEPT !.pc = "commit", !.revoking = Unrevoked]
                                      ELSE [job[x] EXCEPT !.calm = FALSE]
      BY <1>14 DEF RevokeSessions
    <3>2. \A x \in Request : /\ [job[x] EXCEPT !.calm = FALSE].op = job[x].op
                              /\ [job[x] EXCEPT !.calm = FALSE].token = job[x].token
                              /\ [job[x] EXCEPT !.calm = FALSE].pc = job[x].pc
      BY DEF TypeOK, Job
    <3>3. \A x \in Request :
            /\ [job[x] EXCEPT !.pc = "commit", !.revoking = Unrevoked].op = job[x].op
            /\ [job[x] EXCEPT !.pc = "commit", !.revoking = Unrevoked].token = job[x].token
      BY DEF TypeOK, Job
    <3>4. job[r].op = "reset"
      BY <1>14 DEF RevokeSessions, At
    <3>. QED
      BY <3>1, <3>2, <3>3, <3>4
  <2>2. UNCHANGED <<cookie, memory, signedOut, session>>
    BY <1>14 DEF RevokeSessions, browser
  <2>3. \A x \in Request : Carried(job[x])'
    BY <2>1, <2>2 DEF TokenInv, Carried
  <2>. QED
    BY <2>1, <2>2, <2>3 DEF TokenInv, QuietInv, SignedOutStays
<1>15. ASSUME NEW r \in Request, CommitReset(r) PROVE P
  <2>1. \A s \in Session : session'[s].state \in {session[s].state, "ended"}
    BY <1>15 DEF CommitReset, TypeOK, SessionRow
  <2>. QED
    BY <1>15, <2>1, QuietIdle DEF CommitReset, Done
<1>16. ASSUME NEW r \in Request, Fail(r) PROVE P
  BY <1>16, QuietDeny, QuietIdle DEF Fail, Done
<1>17. ASSUME NEW m \in Mail, RequestVerification(m) \/ RequestReset(m) PROVE P
  BY <1>17 DEF TokenInv, Carried, QuietInv, SignedOutStays, RequestVerification, RequestReset, browser
<1>18. ASSUME NEW k \in Key, Elapse(k) PROVE P
  BY <1>18 DEF TokenInv, Carried, QuietInv, SignedOutStays, Elapse, browser
<1>19. ASSUME NEW s \in Session, ExpireSession(s) PROVE P
  <2>1. \A t \in Session : session'[t].state \in {session[t].state, "ended"}
    BY <1>19 DEF ExpireSession, TypeOK, SessionRow
  <2>2. UNCHANGED <<cookie, memory, signedOut, job>>
    BY <1>19 DEF ExpireSession, browser
  <2>3. cookie \in Session \cup {None}
          /\ \A x \in Request : job[x].op \in {"login", "refresh", "logout"}
                                  => job[x].token \in Session \cup {None}
    BY DEF TypeOK, HoldInv
  <2>4. \A x \in Request : Carried(job[x])'
    BY <2>1, <2>2, <2>3 DEF TokenInv, Carried
  <2>. QED
    BY <2>1, <2>2, <2>3, <2>4 DEF TokenInv, QuietInv, SignedOutStays
<1>20. ASSUME NEW m \in Mail, ExpireMail(m) PROVE P
  BY <1>20 DEF TokenInv, Carried, QuietInv, SignedOutStays, ExpireMail, browser
<1>21. CASE UNCHANGED vars
  BY <1>21 DEF TokenInv, Carried, QuietInv, SignedOutStays, vars
<1>. QED
  BY <1>s, <1>t, <1>1, <1>2, <1>3, <1>4, <1>5, <1>6, <1>7, <1>8, <1>9, <1>10, <1>11, <1>12, <1>13,
     <1>14, <1>15, <1>16, <1>17, <1>18, <1>19, <1>20, <1>21 DEF Next, Browser, Server, Time

-----------------------------------------------------------------------------
(* The uses of a mailed token                                              *)

\* What a step does to a token that has been used.
Ends ==
  \A m \in Mail :
    mail[m].uses > 0
      => /\ Holding(m)' \subseteq Holding(m)
         /\ mail'[m].uses + Cardinality(Holding(m)')
              <= mail[m].uses + Cardinality(Holding(m))

\* A step after which no request holds a token that it did not hold before.
LEMMA UsesFrame ==
  ASSUME TypeOK, UsesInv,
         \A m \in Mail : /\ mail'[m].uses = mail[m].uses
                         /\ mail'[m].state # "over" => mail[m].state # "over",
         \A r \in Request : job'[r].op \in {"verify", "reset"} =>
                             job[r].op \in {"verify", "reset"} /\ job'[r].token = job[r].token
  PROVE  UsesInv' /\ Ends
<1>1. UsesInv'
  BY DEF UsesInv
<1>. SUFFICES ASSUME NEW m \in Mail
              PROVE  /\ Holding(m)' \subseteq Holding(m)
                     /\ mail'[m].uses + Cardinality(Holding(m)')
                          <= mail[m].uses + Cardinality(Holding(m))
  BY <1>1 DEF Ends
<1>2. Holding(m)' \subseteq Holding(m) /\ Holding(m) \subseteq Request
  BY DEF Holding
<1>3. Cardinality(Holding(m)') <= Cardinality(Holding(m)) /\ Cardinality(Holding(m)') \in Nat
        /\ Cardinality(Holding(m)) \in Nat
  BY <1>2, FS_Subset, FS_CardinalityType, RequestsFinite
<1>4. mail[m].uses \in Nat /\ mail'[m].uses = mail[m].uses
  BY DEF TypeOK, MailRow
<1>. QED
  BY <1>2, <1>3, <1>4

LEMMA UsesOne ==
  ASSUME TypeOK, UsesInv, mail' = mail, NEW r \in Request, NEW h, job' = [job EXCEPT ![r] = h],
         h.op \notin {"verify", "reset"} \/ (h.op = job[r].op /\ h.token = job[r].token)
  PROVE  UsesInv' /\ Ends
<1>1. \A x \in Request : job'[x] = IF x = r THEN h ELSE job[x]
  BY DEF TypeOK
<1>. QED
  BY <1>1, UsesFrame

LEMMA UsesAnswer ==
  ASSUME TypeOK, UsesInv, mail' = mail, NEW r \in Request, NEW ok, NEW t, Answer(r, ok, t),
         job[r].op \in {"login", "refresh", "logout"}
  PROVE  UsesInv' /\ Ends
<1> DEFINE h == [Idle EXCEPT !.op = job[r].op, !.pc = IF ok THEN "ok" ELSE "denied",
                             !.token = IF ok THEN t ELSE None]
<1>1. h.op = job[r].op /\ job' = [job EXCEPT ![r] = h]
  BY DEF Answer, Idle
<1>. HIDE DEF h
<1>. QED
  BY <1>1, UsesOne

LEMMA UsesGoto ==
  ASSUME TypeOK, UsesInv, mail' = mail, NEW r \in Request, NEW pc, Goto(r, pc)
  PROVE  UsesInv' /\ Ends
<1> DEFINE h == [job[r] EXCEPT !.pc = pc]
<1>1. h.op = job[r].op /\ h.token = job[r].token /\ job' = [job EXCEPT ![r] = h]
  BY DEF Goto, TypeOK, Job
<1>. HIDE DEF h
<1>. QED
  BY <1>1, UsesOne

LEMMA UsesIdle ==
  ASSUME TypeOK, UsesInv, mail' = mail, NEW r \in Request, job' = [job EXCEPT ![r] = Idle]
  PROVE  UsesInv' /\ Ends
<1>1. Idle.op = "none"
  BY DEF Idle
<1>. QED
  BY <1>1, UsesOne

\* A confirmation that commits is one use more and one request fewer.
LEMMA UsesSpent ==
  ASSUME TypeOK, UsesInv, NEW r \in Request, job[r].op \in {"verify", "reset"}, NEW t \in Mail,
         job[r].token = t, mail' = Spent(t), Done(r)
  PROVE  UsesInv' /\ Ends
<1>1. \A x \in Request : job'[x] = IF x = r THEN Idle ELSE job[x]
  BY DEF TypeOK, Done
<1>2. Idle.op = "none"
  BY DEF Idle
<1>3. /\ mail'[t].state = "over" /\ mail'[t].uses = mail[t].uses + 1
      /\ \A m \in Mail \ {t} : mail'[m] = mail[m]
  BY DEF Spent, TypeOK, MailRow
<1>4. Holding(t)' = Holding(t) \ {r} /\ r \in Holding(t) /\ Holding(t) \subseteq Request
  BY <1>1, <1>2 DEF Holding
<1>5. \A m \in Mail \ {t} : Holding(m)' = Holding(m)
  BY <1>1, <1>2 DEF Holding
<1>6. Cardinality(Holding(t)') = Cardinality(Holding(t)) - 1 /\ Cardinality(Holding(t)) \in Nat
  BY <1>4, OneFewer, RequestsFinite
<1>7. mail[t].uses \in Nat
  BY DEF TypeOK, MailRow
<1>8. UsesInv'
  BY <1>3 DEF UsesInv
<1>. SUFFICES ASSUME NEW m \in Mail
              PROVE  /\ Holding(m)' \subseteq Holding(m)
                     /\ mail'[m].uses + Cardinality(Holding(m)')
                          <= mail[m].uses + Cardinality(Holding(m))
  BY <1>8 DEF Ends
<1>9. CASE m = t
  <2>1. mail'[m].uses + Cardinality(Holding(t)') <= mail[m].uses + Cardinality(Holding(t))
    BY <1>3, <1>6, <1>7, <1>9
  <2>. QED
    BY <1>4, <1>9, <2>1
<1>10. CASE m # t
  <2>1. mail[m].uses \in Nat /\ Cardinality(Holding(m)) \in Nat
    BY RequestsFinite DEF TypeOK, MailRow, Holding
  <2>. QED
    BY <1>3, <1>5, <1>10, <2>1
<1>. QED
  BY <1>9, <1>10

\* Only a token that has not been used is taken up.
LEMMA UsesTaken ==
  ASSUME TypeOK, UsesInv, NEW r \in Request, NEW t \in Mail, StartConfirm(r, t)
  PROVE  UsesInv' /\ Ends
<1>1. \E op \in {"verify", "reset"}, pc \in {"commit", "revoke"} :
        job' = [job EXCEPT ![r] = [Idle EXCEPT !.op = op, !.pc = pc, !.token = t]]
  BY DEF StartConfirm, Begin
<1>2. PICK op \in {"verify", "reset"}, pc \in {"commit", "revoke"} :
        job' = [job EXCEPT ![r] = [Idle EXCEPT !.op = op, !.pc = pc, !.token = t]]
  BY <1>1
<1> DEFINE h == [Idle EXCEPT !.op = op, !.pc = pc, !.token = t]
<1>3. h.token = t /\ job' = [job EXCEPT ![r] = h]
  BY <1>2 DEF Idle
<1>. HIDE DEF h
<1>4. \A x \in Request : job'[x] = IF x = r THEN h ELSE job[x]
  BY <1>3 DEF TypeOK
<1>5. mail' = mail /\ mail[t].state = "sent" /\ job[r] = Idle /\ Idle.op = "none"
  BY DEF StartConfirm, Begin, Idle
<1>6. UsesInv' /\ mail[t].uses = 0
  BY <1>5 DEF UsesInv
<1>. SUFFICES ASSUME NEW m \in Mail, mail[m].uses > 0
              PROVE  /\ Holding(m)' \subseteq Holding(m)
                     /\ mail'[m].uses + Cardinality(Holding(m)')
                          <= mail[m].uses + Cardinality(Holding(m))
  BY <1>6 DEF Ends
<1>7. m # t
  BY <1>6
<1>8. Holding(m)' = Holding(m)
  BY <1>3, <1>4, <1>5, <1>7 DEF Holding
<1>9. mail[m].uses \in Nat /\ Cardinality(Holding(m)) \in Nat
  BY RequestsFinite DEF TypeOK, MailRow, Holding
<1>. QED
  BY <1>5, <1>8, <1>9

LEMMA UsesStep == TypeOK /\ HoldInv /\ UsesInv /\ [Next]_vars => UsesInv' /\ Ends
<1>. SUFFICES ASSUME TypeOK, HoldInv, UsesInv, [Next]_vars PROVE UsesInv' /\ Ends
  OBVIOUS
<1> DEFINE P == UsesInv' /\ Ends
<1>s. ASSUME NEW r \in Request, NEW typed, NEW ip, SendLogin(r, typed, ip) PROVE P
  <2> DEFINE h == [Idle EXCEPT !.op = "login", !.pc = "sent", !.typed = typed, !.ip = ip]
  <2>1. h.op = "login" /\ job' = [job EXCEPT ![r] = h] /\ mail' = mail
    BY <1>s DEF SendLogin, Idle
  <2>. HIDE DEF h
  <2>. QED
    BY <2>1, UsesOne
<1>t. ASSUME NEW r \in Request, NEW op \in {"refresh", "logout"}, Send(r, op) PROVE P
  <2> DEFINE h == [Idle EXCEPT !.op = op, !.pc = "sent", !.token = cookie]
  <2>1. h.op = op /\ job' = [job EXCEPT ![r] = h] /\ mail' = mail
    BY <1>t DEF Send, Idle
  <2>. HIDE DEF h
  <2>. QED
    BY <2>1, UsesOne
<1>1. ASSUME NEW r \in Request, Receive(r) PROVE P
  BY <1>1, UsesIdle DEF Receive
<1>2. ASSUME NEW r \in Request, Lose(r) PROVE P
  BY <1>2, UsesIdle DEF Lose
<1>3. ASSUME NEW r \in Request, CheckLimit(r) PROVE P
  BY <1>3, UsesAnswer, UsesGoto DEF CheckLimit, At
<1>4. ASSUME NEW r \in Request, QueryUser(r) PROVE P
  <2> DEFINE h == [job[r] EXCEPT !.pc = "verify", !.seen = password, !.calm = ~Resetting]
  <2>1. h.op = "login" /\ job' = [job EXCEPT ![r] = h] /\ mail' = mail
    BY <1>4 DEF QueryUser, At, TypeOK, Job
  <2>. HIDE DEF h
  <2>. QED
    BY <2>1, UsesOne
<1>5. ASSUME NEW r \in Request, VerifyPassword(r) PROVE P
  BY <1>5, UsesAnswer, UsesGoto DEF VerifyPassword, At
<1>6. ASSUME NEW r \in Request, NEW t \in Session, IssueSession(r, t) PROVE P
  BY <1>6, UsesAnswer DEF IssueSession, At
<1>7. ASSUME NEW r \in Request, Refresh(r) PROVE P
  BY <1>7, UsesAnswer DEF Refresh, At
<1>8. ASSUME NEW r \in Request, FindSession(r) PROVE P
  BY <1>8, UsesAnswer, UsesGoto DEF FindSession, At
<1>9. ASSUME NEW r \in Request, Logout(r) PROVE P
  BY <1>9, UsesAnswer DEF Logout, At
<1>10. ASSUME NEW r \in Request, StartSignup(r) PROVE P
  <2> DEFINE h == [Idle EXCEPT !.op = "signup", !.pc = "commit", !.token = None]
  <2>1. h.op = "signup" /\ job' = [job EXCEPT ![r] = h] /\ mail' = mail
    BY <1>10 DEF StartSignup, Begin, Idle
  <2>. HIDE DEF h
  <2>. QED
    BY <2>1, UsesOne
<1>m. ASSUME NEW m \in Mail, NEW purpose, NewMail(m, purpose)
      PROVE  \A x \in Mail : /\ mail'[x].uses = mail[x].uses
                             /\ mail'[x].state # "over" => mail[x].state # "over"
  BY <1>m DEF NewMail, TypeOK, MailRow
<1>11. ASSUME NEW r \in Request, NEW m \in Mail, Signup(r, m) PROVE P
  <2>1. \A x \in Request : job'[x] = IF x = r THEN Idle ELSE job[x]
    BY <1>11 DEF Signup, Done, TypeOK
  <2>2. Idle.op = "none"
    BY DEF Idle
  <2>. QED
    BY <1>11, <1>m, <2>1, <2>2, UsesFrame DEF Signup
<1>12. ASSUME NEW r \in Request, NEW t \in Mail, StartConfirm(r, t) PROVE P
  BY <1>12, UsesTaken
<1>13. ASSUME NEW r \in Request, VerifyEmail(r) PROVE P
  BY <1>13, UsesSpent DEF VerifyEmail, At, HoldInv
<1>14. ASSUME NEW r \in Request, RevokeSessions(r) PROVE P
  <2>1. \A x \in Request : job'[x] = IF x = r THEN [job[x] EXCEPT !.pc = "commit", !.revoking = Unrevoked]
                                    ELSE [job[x] EXCEPT !.calm = FALSE]
    BY <1>14 DEF RevokeSessions
  <2>2. \A x \in Request : /\ [job[x] EXCEPT !.calm = FALSE].op = job[x].op
                            /\ [job[x] EXCEPT !.calm = FALSE].token = job[x].token
    BY DEF TypeOK, Job
  <2>3. \A x \in Request :
          /\ [job[x] EXCEPT !.pc = "commit", !.revoking = Unrevoked].op = job[x].op
          /\ [job[x] EXCEPT !.pc = "commit", !.revoking = Unrevoked].token = job[x].token
    BY DEF TypeOK, Job
  <2>4. \A x \in Request : job'[x].op = job[x].op /\ job'[x].token = job[x].token
    BY <2>1, <2>2, <2>3
  <2>5. mail' = mail
    BY <1>14 DEF RevokeSessions
  <2>. QED
    BY <2>4, <2>5, UsesFrame
<1>15. ASSUME NEW r \in Request, CommitReset(r) PROVE P
  BY <1>15, UsesSpent DEF CommitReset, At, HoldInv
<1>16. ASSUME NEW r \in Request, Fail(r) PROVE P
  BY <1>16, UsesAnswer, UsesIdle DEF Fail, Done
<1>17. ASSUME NEW m \in Mail, RequestVerification(m) \/ RequestReset(m) PROVE P
  BY <1>17, <1>m, UsesFrame DEF RequestVerification, RequestReset
<1>18. ASSUME NEW k \in Key, Elapse(k) PROVE P
  BY <1>18, UsesFrame DEF Elapse
<1>19. ASSUME NEW s \in Session, ExpireSession(s) PROVE P
  BY <1>19, UsesFrame DEF ExpireSession
<1>20. ASSUME NEW m \in Mail, ExpireMail(m) PROVE P
  <2>1. \A x \in Mail : /\ mail'[x].uses = mail[x].uses
                         /\ mail'[x].state # "over" => mail[x].state # "over"
    BY <1>20 DEF ExpireMail, TypeOK, MailRow
  <2>. QED
    BY <1>20, <2>1, UsesFrame DEF ExpireMail
<1>21. CASE UNCHANGED vars
  BY <1>21, UsesFrame DEF vars
<1>. QED
  BY <1>s, <1>t, <1>1, <1>2, <1>3, <1>4, <1>5, <1>6, <1>7, <1>8, <1>9, <1>10, <1>11, <1>12, <1>13,
     <1>14, <1>15, <1>16, <1>17, <1>18, <1>19, <1>20, <1>21 DEF Next, Browser, Server, Time

-----------------------------------------------------------------------------
(* The failures in a window                                                *)

\* A step after which no login is being tried that was not tried before.
LEMMA AttemptsFrame ==
  ASSUME TypeOK, AttemptsInv,
         \A k \in Key : attempts'[k] \in Nat /\ attempts'[k] <= attempts[k],
         \A r \in Request : job'[r].op = "login" /\ job'[r].pc \in {"query", "verify"} =>
                             /\ job[r].op = "login" /\ job[r].pc \in {"query", "verify"}
                             /\ job'[r].ip = job[r].ip
  PROVE  AttemptsInv'
<1>. SUFFICES ASSUME NEW k \in Key
              PROVE  attempts'[k] + Cardinality(Trying(k)') < MaxAttempts + Cardinality(Request)
  BY DEF AttemptsInv
<1>1. Trying(k)' \subseteq Trying(k) /\ Trying(k) \subseteq Request
  BY DEF Trying, Keys
<1>2. Cardinality(Trying(k)') <= Cardinality(Trying(k)) /\ Cardinality(Trying(k)') \in Nat
        /\ Cardinality(Trying(k)) \in Nat /\ Cardinality(Request) \in Nat
  BY <1>1, FS_Subset, FS_CardinalityType, RequestsFinite
<1>3. attempts[k] \in Nat /\ attempts'[k] \in Nat /\ MaxAttempts \in Nat
  BY SessionsAssumption DEF TypeOK
<1>. QED
  BY <1>2, <1>3 DEF AttemptsInv

LEMMA AttemptsOne ==
  ASSUME TypeOK, AttemptsInv, attempts' = attempts, NEW r \in Request, NEW h,
         job' = [job EXCEPT ![r] = h],
         h.op # "login" \/ h.pc \notin {"query", "verify"}
  PROVE  AttemptsInv'
<1>1. \A x \in Request : job'[x] = IF x = r THEN h ELSE job[x]
  BY DEF TypeOK
<1>2. \A k \in Key : attempts'[k] \in Nat /\ attempts'[k] <= attempts[k]
  BY DEF TypeOK
<1>. QED
  BY <1>1, <1>2, AttemptsFrame

LEMMA AttemptsAnswer ==
  ASSUME TypeOK, AttemptsInv, attempts' = attempts, NEW r \in Request, NEW ok, NEW t, Answer(r, ok, t)
  PROVE  AttemptsInv'
<1> DEFINE h == [Idle EXCEPT !.op = job[r].op, !.pc = IF ok THEN "ok" ELSE "denied",
                             !.token = IF ok THEN t ELSE None]
<1>1. h.pc \notin {"query", "verify"} /\ job' = [job EXCEPT ![r] = h]
  BY DEF Answer, Idle
<1>. HIDE DEF h
<1>. QED
  BY <1>1, AttemptsOne

LEMMA AttemptsIdle ==
  ASSUME TypeOK, AttemptsInv, attempts' = attempts, NEW r \in Request, NEW op, NEW pc, NEW t,
         op # "login" \/ pc \notin {"query", "verify"},
         job' = [job EXCEPT ![r] = [Idle EXCEPT !.op = op, !.pc = pc, !.token = t]]
           \/ job' = [job EXCEPT ![r] = Idle]
  PROVE  AttemptsInv'
<1> DEFINE h == [Idle EXCEPT !.op = op, !.pc = pc, !.token = t]
<1>1. h.op = op /\ h.pc = pc /\ Idle.op = "none"
  BY DEF Idle
<1>2. CASE job' = [job EXCEPT ![r] = h]
  <2>. HIDE DEF h
  <2>. QED
    BY <1>1, <1>2, AttemptsOne
<1>3. CASE job' = [job EXCEPT ![r] = Idle]
  BY <1>1, <1>3, AttemptsOne
<1>. QED
  BY <1>2, <1>3

\* A login passes the limit only below it.
LEMMA AttemptsPass ==
  ASSUME TypeOK, AttemptsInv, attempts' = attempts, NEW r \in Request, ~Limited(r), Goto(r, "query")
  PROVE  AttemptsInv'
<1>1. \A x \in Request : x # r => job'[x] = job[x]
  BY DEF TypeOK, Goto
<1>2. job'[r].ip = job[r].ip
  BY DEF TypeOK, Job, Goto
<1>. SUFFICES ASSUME NEW k \in Key
              PROVE  attempts[k] + Cardinality(Trying(k)') < MaxAttempts + Cardinality(Request)
  BY DEF AttemptsInv
<1>3. attempts[k] \in Nat /\ MaxAttempts \in Nat
  BY SessionsAssumption DEF TypeOK
<1>4. CASE k \in Keys(r)
  <2>1. attempts[k] < MaxAttempts
    BY <1>3, <1>4 DEF Limited
  <2>2. Trying(k)' \subseteq Request
    BY DEF Trying
  <2>. QED
    BY <1>3, <2>1, <2>2, RequestsFinite
<1>5. CASE k \notin Keys(r)
  <2>1. Trying(k)' \subseteq Trying(k) /\ Trying(k) \subseteq Request
    BY <1>1, <1>2, <1>5 DEF Trying, Keys
  <2>2. Cardinality(Trying(k)') <= Cardinality(Trying(k)) /\ Cardinality(Trying(k)') \in Nat
          /\ Cardinality(Trying(k)) \in Nat /\ Cardinality(Request) \in Nat
    BY <2>1, FS_Subset, FS_CardinalityType, RequestsFinite
  <2>. QED
    BY <1>3, <2>2 DEF AttemptsInv
<1>. QED
  BY <1>4, <1>5

\* A failure that is recorded is a login that is not tried any more.
LEMMA AttemptsRecord ==
  ASSUME TypeOK, AttemptsInv, NEW r \in Request, VerifyPassword(r)
  PROVE  AttemptsInv'
<1>1. \A x \in Request : x # r => job'[x] = job[x]
  BY DEF TypeOK, VerifyPassword, Goto, Answer
<1>2. job'[r].pc \notin {"query", "verify"}
  <2>1. CASE job[r].seen # None /\ job[r].typed = job[r].seen
    BY <2>1 DEF VerifyPassword, Goto, TypeOK, Job
  <2>2. CASE ~(job[r].seen # None /\ job[r].typed = job[r].seen)
    <3> DEFINE h == [Idle EXCEPT !.op = job[r].op, !.pc = "denied", !.token = None]
    <3>1. job' = [job EXCEPT ![r] = h]
      BY <2>2 DEF VerifyPassword, Answer
    <3>2. h.pc = "denied"
      BY DEF Idle
    <3>. HIDE DEF h
    <3>. QED
      BY <3>1, <3>2 DEF TypeOK
  <2>. QED
    BY <2>1, <2>2
<1>. SUFFICES ASSUME NEW k \in Key
              PROVE  attempts'[k] + Cardinality(Trying(k)') < MaxAttempts + Cardinality(Request)
  BY DEF AttemptsInv
<1>3. attempts[k] \in Nat /\ MaxAttempts \in Nat \ {0}
  BY SessionsAssumption DEF TypeOK
<1>4. Trying(k)' \subseteq Trying(k) \ {r} /\ Trying(k) \subseteq Request
  BY <1>1, <1>2 DEF Trying, Keys
<1>5. Cardinality(Trying(k)') <= Cardinality(Trying(k)) /\ Cardinality(Trying(k)') \in Nat
        /\ Cardinality(Trying(k)') <= Cardinality(Request)
        /\ Cardinality(Trying(k)) \in Nat /\ Cardinality(Request) \in Nat
  <2>1. Trying(k)' \subseteq Trying(k) /\ Trying(k)' \subseteq Request
    BY <1>4
  <2>. QED
    BY <1>4, <2>1, FS_Subset, FS_CardinalityType, RequestsFinite
<1>6. CASE k \notin Keys(r)
  BY <1>3, <1>5, <1>6 DEF VerifyPassword, AttemptsInv
<1>7. CASE k \in Keys(r) /\ job[r].seen # None /\ job[r].typed = job[r].seen
  BY <1>3, <1>5, <1>7 DEF VerifyPassword
<1>8. CASE k \in Keys(r) /\ ~(job[r].seen # None /\ job[r].typed = job[r].seen)
  <2>1. attempts'[k] = attempts[k] + 1
    BY <1>8 DEF VerifyPassword
  <2>2. r \in Trying(k)
    BY <1>8 DEF VerifyPassword, At, Trying
  <2>3. Cardinality(Trying(k) \ {r}) = Cardinality(Trying(k)) - 1
    BY <1>4, <2>2, OneFewer
  <2>4. Cardinality(Trying(k)') <= Cardinality(Trying(k) \ {r})
    BY <1>4, FS_Subset, RequestsFinite
  <2>. QED
    BY <1>3, <1>5, <2>1, <2>3, <2>4 DEF AttemptsInv
<1>. QED
  BY <1>6, <1>7, <1>8

LEMMA AttemptsStep == TypeOK /\ AttemptsInv /\ [Next]_vars => AttemptsInv'
<1>. SUFFICES ASSUME TypeOK, AttemptsInv, [Next]_vars PROVE AttemptsInv'
  OBVIOUS
<1>a. attempts' = attempts => \A k \in Key : attempts'[k] \in Nat /\ attempts'[k] <= attempts[k]
  BY DEF TypeOK
<1>s. ASSUME NEW r \in Request, NEW typed, NEW ip, SendLogin(r, typed, ip) PROVE AttemptsInv'
  <2> DEFINE h == [Idle EXCEPT !.op = "login", !.pc = "sent", !.typed = typed, !.ip = ip]
  <2>1. h.pc = "sent" /\ job' = [job EXCEPT ![r] = h] /\ attempts' = attempts
    BY <1>s DEF SendLogin, Idle
  <2>. HIDE DEF h
  <2>. QED
    BY <2>1, AttemptsOne
<1>t. ASSUME NEW r \in Request, NEW op \in {"refresh", "logout"}, Send(r, op) PROVE AttemptsInv'
  <2> DEFINE h == [Idle EXCEPT !.op = op, !.pc = "sent", !.token = cookie]
  <2>1. h.op = op /\ job' = [job EXCEPT ![r] = h] /\ attempts' = attempts
    BY <1>t DEF Send, Idle
  <2>. HIDE DEF h
  <2>. QED
    BY <2>1, AttemptsOne
<1>1. ASSUME NEW r \in Request, Receive(r) PROVE AttemptsInv'
  BY <1>1, AttemptsIdle DEF Receive
<1>2. ASSUME NEW r \in Request, Lose(r) PROVE AttemptsInv'
  BY <1>2, AttemptsIdle DEF Lose
<1>3. ASSUME NEW r \in Request, CheckLimit(r) PROVE AttemptsInv'
  BY <1>3, AttemptsAnswer, AttemptsPass DEF CheckLimit
<1>4. ASSUME NEW r \in Request, QueryUser(r) PROVE AttemptsInv'
  <2>1. \A x \in Request : x # r => job'[x] = job[x]
    BY <1>4 DEF QueryUser, TypeOK
  <2>2. job[r].op = "login" /\ job[r].pc = "query" /\ job'[r].ip = job[r].ip /\ attempts' = attempts
    BY <1>4 DEF QueryUser, At, TypeOK, Job
  <2>. QED
    BY <1>a, <2>1, <2>2, AttemptsFrame
<1>5. ASSUME NEW r \in Request, VerifyPassword(r) PROVE AttemptsInv'
  BY <1>5, AttemptsRecord
<1>6. ASSUME NEW r \in Request, NEW t \in Session, IssueSession(r, t) PROVE AttemptsInv'
  BY <1>6, AttemptsAnswer DEF IssueSession
<1>7. ASSUME NEW r \in Request, Refresh(r) PROVE AttemptsInv'
  BY <1>7, AttemptsAnswer DEF Refresh
<1>8. ASSUME NEW r \in Request, FindSession(r) PROVE AttemptsInv'
  <2>1. CASE Goto(r, "commit")
    <3> DEFINE h == [job[r] EXCEPT !.pc = "commit"]
    <3>1. h.pc = "commit" /\ job' = [job EXCEPT ![r] = h]
      BY <2>1 DEF Goto, TypeOK, Job
    <3>. HIDE DEF h
    <3>. QED
      BY <1>8, <3>1, AttemptsOne DEF FindSession
  <2>2. CASE Answer(r, TRUE, job[r].token)
    BY <1>8, <2>2, AttemptsAnswer DEF FindSession
  <2>. QED
    BY <1>8, <2>1, <2>2 DEF FindSession
<1>9. ASSUME NEW r \in Request, Logout(r) PROVE AttemptsInv'
  BY <1>9, AttemptsAnswer DEF Logout
<1>10. ASSUME NEW r \in Request, StartSignup(r) PROVE AttemptsInv'
  <2> DEFINE h == [Idle EXCEPT !.op = "signup", !.pc = "commit", !.token = None]
  <2>1. h.op = "signup" /\ job' = [job EXCEPT ![r] = h] /\ attempts' = attempts
    BY <1>10 DEF StartSignup, Begin, Idle
  <2>. HIDE DEF h
  <2>. QED
    BY <2>1, AttemptsOne
<1>11. ASSUME NEW r \in Request, NEW m \in Mail, Signup(r, m) PROVE AttemptsInv'
  BY <1>11, AttemptsIdle DEF Signup, Done
<1>12. ASSUME NEW r \in Request, NEW m \in Mail, StartConfirm(r, m) PROVE AttemptsInv'
  <2>1. \E op \in {"verify", "reset"}, pc \in {"commit", "revoke"} :
          job' = [job EXCEPT ![r] = [Idle EXCEPT !.op = op, !.pc = pc, !.token = m]]
    BY <1>12 DEF StartConfirm, Begin
  <2>2. attempts' = attempts
    BY <1>12 DEF StartConfirm
  <2>3. PICK op \in {"verify", "reset"}, pc \in {"commit", "revoke"} :
          job' = [job EXCEPT ![r] = [Idle EXCEPT !.op = op, !.pc = pc, !.token = m]]
    BY <2>1
  <2> DEFINE h == [Idle EXCEPT !.op = op, !.pc = pc, !.token = m]
  <2>4. h.op # "login" /\ job' = [job EXCEPT ![r] = h]
    BY <2>3 DEF Idle
  <2>. HIDE DEF h
  <2>. QED
    BY <2>2, <2>4, AttemptsOne
<1>13. ASSUME NEW r \in Request, VerifyEmail(r) PROVE AttemptsInv'
  BY <1>13, AttemptsIdle DEF VerifyEmail, Done
<1>14. ASSUME NEW r \in Request, RevokeSessions(r) PROVE AttemptsInv'
  <2>1. \A x \in Request : job'[x] = IF x = r THEN [job[x] EXCEPT !.pc = "commit", !.revoking = Unrevoked]
                                    ELSE [job[x] EXCEPT !.calm = FALSE]
    BY <1>14 DEF RevokeSessions
  <2>2. \A x \in Request : /\ [job[x] EXCEPT !.calm = FALSE].op = job[x].op
                            /\ [job[x] EXCEPT !.calm = FALSE].pc = job[x].pc
                            /\ [job[x] EXCEPT !.calm = FALSE].ip = job[x].ip
    BY DEF TypeOK, Job
  <2>3. [job[r] EXCEPT !.pc = "commit", !.revoking = Unrevoked].pc = "commit"
    BY DEF TypeOK, Job
  <2>4. attempts' = attempts
    BY <1>14 DEF RevokeSessions
  <2>. QED
    BY <1>a, <2>1, <2>2, <2>3, <2>4, AttemptsFrame
<1>15. ASSUME NEW r \in Request, CommitReset(r) PROVE AttemptsInv'
  BY <1>15, AttemptsIdle DEF CommitReset, Done
<1>16. ASSUME NEW r \in Request, Fail(r) PROVE AttemptsInv'
  BY <1>16, AttemptsAnswer, AttemptsIdle DEF Fail, Done
<1>17. ASSUME NEW m \in Mail, RequestVerification(m) \/ RequestReset(m) PROVE AttemptsInv'
  BY <1>a, <1>17, AttemptsFrame DEF RequestVerification, RequestReset
<1>18. ASSUME NEW k \in Key, Elapse(k) PROVE AttemptsInv'
  <2>1. \A x \in Key : attempts'[x] \in Nat /\ attempts'[x] <= attempts[x]
    BY <1>18 DEF Elapse, TypeOK
  <2>. QED
    BY <1>18, <2>1, AttemptsFrame DEF Elapse
<1>19. ASSUME NEW s \in Session, ExpireSession(s) PROVE AttemptsInv'
  BY <1>a, <1>19, AttemptsFrame DEF ExpireSession
<1>20. ASSUME NEW m \in Mail, ExpireMail(m) PROVE AttemptsInv'
  BY <1>a, <1>20, AttemptsFrame DEF ExpireMail
<1>21. CASE UNCHANGED vars
  BY <1>a, <1>21, AttemptsFrame DEF vars
<1>. QED
  BY <1>s, <1>t, <1>1, <1>2, <1>3, <1>4, <1>5, <1>6, <1>7, <1>8, <1>9, <1>10, <1>11, <1>12, <1>13,
     <1>14, <1>15, <1>16, <1>17, <1>18, <1>19, <1>20, <1>21 DEF Next, Browser, Server, Time

-----------------------------------------------------------------------------
(* The theorems                                                            *)

LEMMA NobodyTries == Init => \A k \in Key : Cardinality(Trying(k)) = 0
<1>. SUFFICES ASSUME Init PROVE \A k \in Key : Trying(k) = {}
  BY FS_EmptySet
<1>1. \A r \in Request : job[r].op = "none"
  BY DEF Init, Idle
<1>. QED
  BY <1>1 DEF Trying

LEMMA Inductive == Spec => []IInv
<1>1. Init => IInv
  <2>. SUFFICES ASSUME Init PROVE IInv
    OBVIOUS
  <2>1. TypeOK
    BY TypeInit
  <2>2. \A r \in Request : job[r].op = "none" /\ job[r].calm = FALSE
    BY DEF Init, Idle
  <2>3. HoldInv /\ TokenInv /\ QuietInv /\ SignedOutStays
    BY <2>2 DEF Init, HoldInv, TokenInv, Carried, QuietInv, SignedOutStays
  <2>4. CalmInv /\ ResetEndsSessions
    BY <2>2 DEF Init, CalmInv, ResetEndsSessions, At
  <2>5. Cardinality(Request) \in Nat \ {0}
    BY SessionsAssumption, FS_EmptySet, RequestsFinite
  <2>6. UsesInv
    BY DEF Init, UsesInv
  <2>7. AttemptsInv
    <3>1. \A k \in Key : attempts[k] = 0
      BY DEF Init
    <3>2. \A k \in Key : Cardinality(Trying(k)) = 0
      BY NobodyTries
    <3>3. MaxAttempts \in Nat \ {0}
      BY SessionsAssumption
    <3>. QED
      BY <2>5, <3>1, <3>2, <3>3 DEF AttemptsInv
  <2>. QED
    BY <2>1, <2>3, <2>4, <2>6, <2>7 DEF IInv
<1>2. IInv /\ [Next]_vars => IInv'
  BY TypeStep, HoldStep, CalmStep, QuietStep, UsesStep, AttemptsStep DEF IInv
<1>. QED
  BY <1>1, <1>2, PTL DEF Spec

\* Every variable keeps its type.
THEOREM TypeCorrect == Spec => []TypeOK
<1>1. IInv => TypeOK
  BY DEF IInv
<1>. QED
  BY <1>1, Inductive, PTL

\* A session that outlives a password reset belongs to a login that overlapped
\* with it (confirm_password_reset, login).
THEOREM ResetEndsSessionsHolds == Spec => []ResetEndsSessions
<1>1. IInv => ResetEndsSessions
  BY DEF IInv
<1>. QED
  BY <1>1, Inductive, PTL

\* After a logout the cookie that the browser may have kept renews nothing, and
\* the page is signed in by nothing but the late answer to a refresh
\* (logout, silentRefresh).
THEOREM SignedOutStaysHolds == Spec => []SignedOutStays
<1>1. IInv => SignedOutStays
  BY DEF IInv
<1>. QED
  BY <1>1, Inductive, PTL

\* Once a mailed token has been used only the confirmations that overlapped its
\* first use still use it, each at most once (confirm_email_verification,
\* confirm_password_reset).
THEOREM UsesEndHolds == Spec => UsesEnd
<1>1. IInv /\ [Next]_vars => [Ends]_vars
  BY UsesStep DEF IInv
<1>. QED
  BY <1>1, Inductive, PTL DEF Spec, UsesEnd, Ends

\* The failures in a window exceed the limit by less than the requests in
\* flight (LoginRateLimiter, login).
THEOREM AttemptsBoundedHolds == Spec => []AttemptsBounded
<1>1. TypeOK /\ AttemptsInv => AttemptsBounded
  <2>. SUFFICES ASSUME TypeOK, AttemptsInv, NEW k \in Key
                PROVE  attempts[k] < MaxAttempts + Cardinality(Request)
    BY DEF AttemptsBounded
  <2>1. Trying(k) \subseteq Request /\ attempts[k] \in Nat /\ MaxAttempts \in Nat
    BY SessionsAssumption DEF Trying, TypeOK
  <2>2. Cardinality(Trying(k)) \in Nat /\ Cardinality(Request) \in Nat
    BY <2>1, RequestsFinite
  <2>. QED
    BY <2>1, <2>2 DEF AttemptsInv
<1>2. IInv => AttemptsBounded
  BY <1>1 DEF IInv
<1>. QED
  BY <1>2, Inductive, PTL
=============================================================================
