--------------------------- MODULE AdmissionProofs ---------------------------
(***************************************************************************)
(* What Admission guarantees for any number of requests, users, codes,     *)
(* keys and deployments: one admin for a code, the bound on wrong guesses, *)
(* and how long a retired key is trusted.  At the end, what GitHubLink     *)
(* guarantees for any number of requests, accounts and codes: the last     *)
(* notification and the row agree.  The two modules, both of the auth      *)
(* service, have no variable in common.                                    *)
(***************************************************************************)
EXTENDS Admission, GitHubLink, FiniteSetTheorems, TLAPS

\* What a request holds at each of its steps.
HoldInv ==
  \A w \in Worker :
    LET h == job[w] IN
    /\ Provisioning(w) => h.user \in User /\ h.ip \in Ip
    /\ At(w, "refuse") => h.reason \in Reason
    /\ Installing(w) => h.answer \in Key /\ h.since <= Delay

\* A key was out of use for some time at most, or is not out of use at all.
Within(k, n) == k = key \/ (retired[k] # None /\ retired[k] <= n)

\* The cached key, and an answer on its way, were current when auth gave them.
RecentInv ==
  /\ cached # None /\ age <= Ttl => Within(cached, age + Delay)
  /\ \A w \in Worker : Installing(w) => Within(job[w].answer, job[w].since)

\* The wrong codes of a user in the window, and the requests that have passed the
\* limit and may still add one.
Wrong(u) ==
  {x \in Row : audit[x] # None /\ audit[x].user = u /\ audit[x].reason = "invalid_code"}
Guessing(u) ==
  {w \in Worker : /\ job[w].user = u
                  /\ \/ job[w].pc \in {"state", "verify"}
                     \/ job[w].pc = "refuse" /\ job[w].reason = "invalid_code"}

GuessInv ==
  \A u \in User : Cardinality(Wrong(u)) + Cardinality(Guessing(u)) < MaxAttempts + Cardinality(Worker)

IInv == TypeOK /\ HoldInv /\ OneAdminPerCode /\ RecentInv /\ GuessInv

-----------------------------------------------------------------------------
(* Types                                                                   *)

LEMMA IdleType == Idle \in Job
BY DEF Idle, Job

LEMMA DecodeType ==
  ASSUME NEW failed \in BOOLEAN, NEW k \in Key \cup {None} PROVE Decode(failed, k) \in Job
BY DEF Decode, Idle, Job

LEMMA ReasonType ==
  ASSUME TypeOK, NEW w \in Worker, NEW pc \in {"refuse", "verify", "elevate"},
         NEW why \in Reason \cup {None},
         job' = [job EXCEPT ![w].pc = pc, ![w].reason = why]
  PROVE  job' \in [Worker -> Job]
<1>1. [job[w] EXCEPT !.pc = pc, !.reason = why] \in Job
  BY DEF TypeOK, Job
<1>2. job' = [job EXCEPT ![w] = [job[w] EXCEPT !.pc = pc, !.reason = why]]
  BY DEF TypeOK
<1>. QED
  BY <1>1, <1>2 DEF TypeOK

LEMMA AnswerType ==
  ASSUME TypeOK, NEW w \in Worker, NEW pc \in {"install", "installAgain"},
         job' = [job EXCEPT ![w].pc = pc, ![w].answer = key, ![w].since = 0]
  PROVE  job' \in [Worker -> Job]
<1>1. [job[w] EXCEPT !.pc = pc, !.answer = key, !.since = 0] \in Job
  BY DEF TypeOK, Job
<1>2. job' = [job EXCEPT ![w] = [job[w] EXCEPT !.pc = pc, !.answer = key, !.since = 0]]
  BY DEF TypeOK
<1>. QED
  BY <1>1, <1>2 DEF TypeOK

LEMMA TypeInit == Init => TypeOK
BY AdmissionAssumption, IdleType DEF Init, TypeOK

LEMMA TypeStep == TypeOK /\ HoldInv /\ [Next]_vars => TypeOK'
<1>. SUFFICES ASSUME TypeOK, HoldInv, [Next]_vars PROVE TypeOK'
  OBVIOUS
<1>. USE AdmissionAssumption DEF deployed, roles, cache
<1>1. ASSUME NEW w \in Worker, NEW u \in User, NEW ip \in Ip, NEW typed \in Code,
             CheckLimit(w, u, ip, typed)
      PROVE  TypeOK'
  <2>. DEFINE new == [Idle EXCEPT !.user = u, !.ip = ip, !.typed = typed,
                            !.pc = IF Limited(u, ip) THEN "refuse" ELSE "state",
                            !.reason = IF Limited(u, ip) THEN "refused" ELSE None]
  <2>1. new \in Job
    BY DEF Idle, Job, Reason
  <2>2. job' = [job EXCEPT ![w] = new]
    BY <1>1 DEF CheckLimit
  <2>. QED
    BY <1>1, <2>1, <2>2 DEF TypeOK, CheckLimit
<1>2. ASSUME NEW w \in Worker, LookUpCode(w) PROVE TypeOK'
  <2>1. CASE usedBy[code] # None
    <3>1. job' = [job EXCEPT ![w].pc = "refuse", ![w].reason = "refused"]
      BY <1>2, <2>1 DEF LookUpCode
    <3>2. job' \in [Worker -> Job]
      BY <3>1, ReasonType DEF Reason
    <3>. QED
      BY <1>2, <3>2 DEF TypeOK, LookUpCode
  <2>2. CASE usedBy[code] = None
    <3>1. job' = [job EXCEPT ![w].pc = "verify", ![w].reason = None]
      BY <1>2, <2>2 DEF LookUpCode
    <3>2. job' \in [Worker -> Job]
      BY <3>1, ReasonType
    <3>. QED
      BY <1>2, <3>2 DEF TypeOK, LookUpCode
  <2>. QED
    BY <2>1, <2>2
<1>3. ASSUME NEW w \in Worker, VerifyCode(w) PROVE TypeOK'
  <2>1. CASE job[w].typed = code
    <3>1. job' = [job EXCEPT ![w].pc = "elevate", ![w].reason = None]
      BY <1>3, <2>1 DEF VerifyCode
    <3>2. job' \in [Worker -> Job]
      BY <3>1, ReasonType
    <3>. QED
      BY <1>3, <3>2 DEF TypeOK, VerifyCode
  <2>2. CASE job[w].typed # code
    <3>1. job' = [job EXCEPT ![w].pc = "refuse", ![w].reason = "invalid_code"]
      BY <1>3, <2>2 DEF VerifyCode
    <3>2. job' \in [Worker -> Job]
      BY <3>1, ReasonType DEF Reason
    <3>. QED
      BY <1>3, <3>2 DEF TypeOK, VerifyCode
  <2>. QED
    BY <2>1, <2>2
<1>4. ASSUME NEW w \in Worker, Elevate(w) PROVE TypeOK'
  <2>1. job[w].user \in User
    BY <1>4 DEF HoldInv, Elevate, Provisioning, At
  <2>. QED
    BY <1>4, <2>1, IdleType DEF TypeOK, Elevate, Done
<1>5. ASSUME NEW w \in Worker, NEW x \in Row, Refuse(w, x) PROVE TypeOK'
  <2>1. [user |-> job[w].user, ip |-> job[w].ip, reason |-> job[w].reason] \in AuditRow
    BY <1>5 DEF HoldInv, Refuse, Provisioning, At, AuditRow
  <2>. QED
    BY <1>5, <2>1, IdleType DEF TypeOK, Refuse, Done
<1>6. ASSUME NEW w \in Worker, GetKey(w) PROVE TypeOK'
  <2>1. [Idle EXCEPT !.pc = "fetch"] \in Job
    BY DEF Idle, Job
  <2>. QED
    BY <1>6, <2>1, DecodeType DEF TypeOK, GetKey
<1>7. ASSUME NEW w \in Worker, AnswerKeys(w) PROVE TypeOK'
  <2>1. CASE At(w, "fetch")
    <3>1. job' = [job EXCEPT ![w].pc = "install", ![w].answer = key, ![w].since = 0]
      BY <1>7, <2>1 DEF AnswerKeys
    <3>2. job' \in [Worker -> Job]
      BY <3>1, AnswerType
    <3>. QED
      BY <1>7, <3>2 DEF TypeOK, AnswerKeys
  <2>2. CASE ~At(w, "fetch")
    <3>1. job' = [job EXCEPT ![w].pc = "installAgain", ![w].answer = key, ![w].since = 0]
      BY <1>7, <2>2 DEF AnswerKeys
    <3>2. job' \in [Worker -> Job]
      BY <3>1, AnswerType
    <3>. QED
      BY <1>7, <3>2 DEF TypeOK, AnswerKeys
  <2>. QED
    BY <2>1, <2>2
<1>8. ASSUME NEW w \in Worker, InstallKeys(w) PROVE TypeOK'
  <2>1. job[w].answer \in Key /\ job[w].failed \in BOOLEAN
    BY <1>8 DEF HoldInv, TypeOK, Job, InstallKeys, Installing, At
  <2>2. Decode(job[w].failed, job[w].answer) \in Job
    BY <2>1, DecodeType
  <2>. QED
    BY <1>8, <2>1, <2>2 DEF TypeOK, InstallKeys
<1>9. ASSUME NEW w \in Worker, FetchFails(w) PROVE TypeOK'
  <2>1. [Idle EXCEPT !.pc = "again", !.failed = TRUE] \in Job
    BY DEF Idle, Job
  <2>2. Decode(TRUE, cached) \in Job
    BY DecodeType DEF TypeOK
  <2>. QED
    BY <1>9, <2>1, <2>2 DEF TypeOK, FetchFails
<1>10. ASSUME NEW w \in Worker, DecodeToken(w) \/ Fail(w) PROVE TypeOK'
  BY <1>10, IdleType DEF TypeOK, DecodeToken, Fail, Done
<1>11. ASSUME NEW c \in Code, NEW k \in Key, Redeploy(c, k) PROVE TypeOK'
  BY <1>11, IdleType DEF TypeOK, Redeploy
<1>12. ASSUME NEW x \in Row, Elapse(x) PROVE TypeOK'
  BY <1>12 DEF TypeOK, Elapse
<1>13. CASE Restart
  BY <1>13, IdleType DEF TypeOK, Restart
<1>14. CASE Tick
  <2>1. \A w \in Worker : [job[w] EXCEPT !.since = @ + 1] \in Job
    BY DEF TypeOK, Job
  <2>2. retired' \in [Key -> Nat \cup {None}]
    BY <1>14 DEF TypeOK, Tick
  <2>. QED
    BY <1>14, <2>1, <2>2 DEF TypeOK, Tick
<1>15. CASE UNCHANGED vars
  BY <1>15 DEF TypeOK, vars
<1>. QED
  BY <1>1, <1>2, <1>3, <1>4, <1>5, <1>6, <1>7, <1>8, <1>9, <1>10, <1>11, <1>12, <1>13, <1>14, <1>15
     DEF Next, Provision, RequireAuth

-----------------------------------------------------------------------------
(* What a request holds, and the keys                                      *)

LEMMA HoldStep == TypeOK /\ HoldInv /\ [Next]_vars => HoldInv'
<1>. SUFFICES ASSUME TypeOK, HoldInv, [Next]_vars PROVE HoldInv'
  OBVIOUS
<1>. USE AdmissionAssumption DEF HoldInv, Provisioning, Installing, At
<1>1. ASSUME NEW w \in Worker, NEW u \in User, NEW ip \in Ip, NEW typed \in Code,
             CheckLimit(w, u, ip, typed)
      PROVE  HoldInv'
  BY <1>1 DEF TypeOK, CheckLimit, Idle, Reason
<1>2. ASSUME NEW w \in Worker, LookUpCode(w) \/ VerifyCode(w) PROVE HoldInv'
  BY <1>2 DEF TypeOK, Job, LookUpCode, VerifyCode, Reason
<1>3. ASSUME NEW w \in Worker, \/ Elevate(w) \/ (\E x \in Row : Refuse(w, x))
                               \/ DecodeToken(w) \/ Fail(w)
      PROVE  HoldInv'
  <2>1. job' = [job EXCEPT ![w] = Idle]
    BY <1>3 DEF Elevate, Refuse, DecodeToken, Fail, Done
  <2>. QED
    BY <2>1 DEF TypeOK, Idle
<1>4. ASSUME NEW w \in Worker, GetKey(w) PROVE HoldInv'
  BY <1>4 DEF TypeOK, GetKey, Decode, Idle
<1>5. ASSUME NEW w \in Worker, AnswerKeys(w) PROVE HoldInv'
  BY <1>5 DEF TypeOK, Job, AnswerKeys
<1>6. ASSUME NEW w \in Worker, InstallKeys(w) \/ FetchFails(w) PROVE HoldInv'
  <2>1. job'[w].pc \in {"again", "decode"} /\ \A v \in Worker \ {w} : job'[v] = job[v]
    <3>1. CASE InstallKeys(w)
      BY <3>1 DEF TypeOK, InstallKeys, Decode, Idle
    <3>2. CASE FetchFails(w)
      BY <3>2 DEF TypeOK, FetchFails, Decode, Idle
    <3>. QED
      BY <1>6, <3>1, <3>2
  <2>. QED
    BY <2>1
<1>7. ASSUME NEW c \in Code, NEW k \in Key, Redeploy(c, k) PROVE HoldInv'
  BY <1>7 DEF TypeOK, Redeploy, Idle
<1>8. CASE Restart
  BY <1>8 DEF TypeOK, Restart, Idle
<1>9. CASE Tick
  BY <1>9 DEF TypeOK, Job, Tick
<1>10. CASE UNCHANGED vars \/ \E x \in Row : Elapse(x)
  BY <1>10 DEF vars, Elapse
<1>. QED
  BY <1>1, <1>2, <1>3, <1>4, <1>5, <1>6, <1>7, <1>8, <1>9, <1>10 DEF Next, Provision, RequireAuth

\* A step that leaves the keys, the cache and the clock alone keeps what is known
\* of the answers that are still on their way.
LEMMA RecentFrame ==
  ASSUME RecentInv, UNCHANGED <<deployed, cache>>,
         \A w \in Worker : Installing(w)' => /\ Installing(w)
                                             /\ job'[w].answer = job[w].answer
                                             /\ job'[w].since = job[w].since
  PROVE  RecentInv'
BY DEF RecentInv, Within, deployed, cache

LEMMA RecentStep == TypeOK /\ HoldInv /\ RecentInv /\ [Next]_vars => RecentInv'
<1>. SUFFICES ASSUME TypeOK, HoldInv, RecentInv, [Next]_vars PROVE RecentInv'
  OBVIOUS
<1>. USE AdmissionAssumption DEF deployed, roles, cache
<1>1. ASSUME NEW w \in Worker, Provision(w) \/ Fail(w) \/ GetKey(w) \/ DecodeToken(w)
                               \/ FetchFails(w)
      PROVE  RecentInv'
  <2>1. UNCHANGED <<deployed, cache>>
    BY <1>1 DEF Provision, CheckLimit, LookUpCode, VerifyCode, Elevate, Refuse, Fail, GetKey,
                DecodeToken, FetchFails
  <2>2. \A v \in Worker \ {w} : job'[v] = job[v]
    BY <1>1 DEF TypeOK, Provision, CheckLimit, LookUpCode, VerifyCode, Elevate, Refuse, Fail, GetKey,
                DecodeToken, FetchFails, Done
  <2>3. ~Installing(w)'
    <3>1. CASE \E u \in User, ip \in Ip, typed \in Code : CheckLimit(w, u, ip, typed)
      BY <3>1 DEF TypeOK, CheckLimit, Idle, Installing, At
    <3>2. CASE LookUpCode(w)
      BY <3>2 DEF TypeOK, Job, LookUpCode, Installing, At
    <3>3. CASE VerifyCode(w)
      BY <3>3 DEF TypeOK, Job, VerifyCode, Installing, At
    <3>4. CASE Elevate(w) \/ (\E x \in Row : Refuse(w, x)) \/ Fail(w) \/ DecodeToken(w)
      BY <3>4 DEF TypeOK, Elevate, Refuse, Fail, DecodeToken, Done, Idle, Installing, At
    <3>5. CASE GetKey(w)
      BY <3>5 DEF TypeOK, GetKey, Decode, Idle, Installing, At
    <3>6. CASE FetchFails(w)
      BY <3>6 DEF TypeOK, FetchFails, Decode, Idle, Installing, At
    <3>. QED
      BY <1>1, <3>1, <3>2, <3>3, <3>4, <3>5, <3>6 DEF Provision
  <2>. QED
    BY <2>1, <2>2, <2>3, RecentFrame DEF Installing, At
<1>2. ASSUME NEW w \in Worker, AnswerKeys(w) PROVE RecentInv'
  <2>1. UNCHANGED <<key, retired, cached, age>> /\ \A v \in Worker \ {w} : job'[v] = job[v]
    BY <1>2 DEF TypeOK, AnswerKeys
  <2>2. job'[w].answer = key
    BY <1>2 DEF TypeOK, Job, AnswerKeys
  <2>3. cached' # None /\ age' <= Ttl => Within(cached, age + Delay)'
    BY <2>1 DEF RecentInv, Within
  <2>4. \A v \in Worker : Installing(v)' => Within(job[v].answer, job[v].since)'
    <3>1. Within(job[w].answer, job[w].since)'
      BY <2>1, <2>2 DEF Within
    <3>2. ASSUME NEW v \in Worker \ {w}, Installing(v)' PROVE Within(job[v].answer, job[v].since)'
      BY <2>1, <3>2 DEF RecentInv, Within, Installing, At
    <3>. QED
      BY <3>1, <3>2
  <2>. QED
    BY <2>3, <2>4 DEF RecentInv
<1>3. ASSUME NEW w \in Worker, InstallKeys(w) PROVE RecentInv'
  <2>1. Installing(w) /\ job[w].answer \in Key /\ job[w].since \in Nat /\ job[w].since <= Delay
    BY <1>3 DEF InstallKeys, HoldInv, TypeOK, Job, Installing, At
  <2>2. UNCHANGED <<key, retired>> /\ cached' = job[w].answer /\ age' = 0
    BY <1>3 DEF InstallKeys
  <2>3. Within(cached, age + Delay)'
    <3>1. Within(job[w].answer, job[w].since)
      BY <2>1 DEF RecentInv
    <3>2. retired[job[w].answer] \in Nat \cup {None}
      BY <2>1 DEF TypeOK
    <3>3. age' + Delay = Delay
      BY <2>2
    <3>. QED
      BY <2>1, <2>2, <3>1, <3>2, <3>3 DEF Within
  <2>4. ~Installing(w)' /\ \A v \in Worker \ {w} : job'[v] = job[v]
    BY <1>3 DEF TypeOK, InstallKeys, Decode, Idle, Installing, At
  <2>. QED
    BY <2>2, <2>3, <2>4 DEF RecentInv, Within, Installing, At
<1>4. ASSUME NEW c \in Code, NEW k \in Key, Redeploy(c, k) PROVE RecentInv'
  <2>1. \A j \in Key, n \in Nat : Within(j, n) => Within(j, n)'
    BY <1>4 DEF Redeploy, Within, TypeOK
  <2>2. \A w \in Worker : Installing(w)' => Installing(w) /\ job'[w] = job[w]
    BY <1>4 DEF Redeploy, Idle, Installing, At
  <2>3. cached' # None /\ age' <= Ttl => Within(cached, age + Delay)'
    <3>1. cached' = cached /\ age' = age
      BY <1>4 DEF Redeploy
    <3>2. age + Delay \in Nat /\ cached \in Key \cup {None}
      BY DEF TypeOK
    <3>. QED
      BY <1>4, <3>1, <3>2 DEF RecentInv, Redeploy, Within, TypeOK
  <2>4. \A w \in Worker : Installing(w)' => Within(job[w].answer, job[w].since)'
    <3>. SUFFICES ASSUME NEW w \in Worker, Installing(w)' PROVE Within(job[w].answer, job[w].since)'
      OBVIOUS
    <3>1. job'[w] = job[w] /\ Within(job[w].answer, job[w].since)
      BY <2>2 DEF RecentInv
    <3>2. job[w].answer \in Key /\ job[w].since \in Nat
      BY <2>2 DEF HoldInv, TypeOK, Job
    <3>. QED
      BY <1>4, <3>1, <3>2 DEF Redeploy, Within, TypeOK
  <2>. QED
    BY <2>3, <2>4 DEF RecentInv
<1>5. CASE Restart
  <2>1. \A w \in Worker : Installing(w)' => Installing(w) /\ job'[w] = job[w]
    BY <1>5 DEF Restart, Idle, Installing, At, TypeOK
  <2>. QED
    BY <1>5, <2>1 DEF RecentInv, Within, Restart
<1>6. CASE Tick
  <2>1. ASSUME NEW j \in Key, NEW n \in Nat, Within(j, n)
        PROVE  key' = key /\ (j = key \/ (retired'[j] # None /\ retired'[j] <= n + 1))
    <3>1. key' = key /\ retired[j] \in Nat \cup {None}
      BY <1>6 DEF Tick, TypeOK
    <3>2. retired'[j] = IF retired[j] # None /\ retired[j] <= Ttl + Delay
                        THEN retired[j] + 1 ELSE retired[j]
      BY <1>6 DEF Tick
    <3>. QED
      BY <2>1, <3>1, <3>2 DEF Within
  <2>2. cached' # None /\ age' <= Ttl => Within(cached, age + Delay)'
    <3>. SUFFICES ASSUME cached' # None, age' <= Ttl PROVE Within(cached, age + Delay)'
      OBVIOUS
    <3>1. age \in Nat /\ age' = age + 1 /\ age <= Ttl /\ cached' = cached
      BY <1>6 DEF Tick, TypeOK
    <3>2. cached \in Key /\ age + Delay \in Nat /\ Within(cached, age + Delay)
      BY <3>1 DEF RecentInv, TypeOK
    <3>3. age' + Delay = age + Delay + 1
      BY <3>1
    <3>. QED
      BY <2>1, <3>1, <3>2, <3>3 DEF Within
  <2>3. ASSUME NEW w \in Worker, Installing(w)' PROVE Within(job[w].answer, job[w].since)'
    <3>1. Installing(w) /\ job'[w] = [job[w] EXCEPT !.since = @ + 1]
      BY <1>6, <2>3 DEF Tick, Installing, At, TypeOK, Job
    <3>2. job[w].answer \in Key /\ job[w].since \in Nat
      BY <3>1 DEF HoldInv, TypeOK, Job
    <3>3. job'[w].answer = job[w].answer /\ job'[w].since = job[w].since + 1
      BY <3>1 DEF TypeOK, Job
    <3>4. Within(job[w].answer, job[w].since)
      BY <3>1 DEF RecentInv
    <3>. QED
      BY <2>1, <3>2, <3>3, <3>4 DEF Within
  <2>. QED
    BY <2>2, <2>3 DEF RecentInv
<1>7. CASE UNCHANGED vars \/ \E x \in Row : Elapse(x)
  BY <1>7 DEF RecentInv, Within, Installing, At, vars, Elapse
<1>. QED
  BY <1>1, <1>2, <1>3, <1>4, <1>5, <1>6, <1>7 DEF Next, RequireAuth

-----------------------------------------------------------------------------
(* Admins                                                                  *)

LEMMA AdminStep == TypeOK /\ HoldInv /\ OneAdminPerCode /\ [Next]_vars => OneAdminPerCode'
<1>. SUFFICES ASSUME TypeOK, HoldInv, OneAdminPerCode, [Next]_vars PROVE OneAdminPerCode'
  OBVIOUS
<1>1. ASSUME NEW w \in Worker, Elevate(w) PROVE OneAdminPerCode'
  <2>1. CASE Insertable(code)
    <3>1. code \in Code /\ usedBy[code] = None /\ admins' = admins \cup {job[w].user}
            /\ usedBy' = [usedBy EXCEPT ![code] = job[w].user]
      BY <1>1, <2>1 DEF TypeOK, Elevate, Insertable
    <3>2. \A u \in admins : u # None
      BY AdmissionAssumption DEF TypeOK
    <3>. QED
      BY <3>1, <3>2 DEF TypeOK, OneAdminPerCode
  <2>2. CASE ~Insertable(code)
    BY <1>1, <2>2 DEF Elevate, OneAdminPerCode
  <2>. QED
    BY <2>1, <2>2
<1>2. CASE UNCHANGED <<usedBy, admins>>
  BY <1>2 DEF OneAdminPerCode
<1>. QED
  BY <1>1, <1>2 DEF Next, Provision, RequireAuth, CheckLimit, LookUpCode, VerifyCode, Refuse, GetKey,
    AnswerKeys, InstallKeys, FetchFails, DecodeToken, Redeploy, Restart, Fail, Elapse, Tick, roles, vars

-----------------------------------------------------------------------------
(* Guesses                                                                 *)

LEMMA CountTypes ==
  ASSUME NEW u
  PROVE  /\ IsFiniteSet(Wrong(u)) /\ IsFiniteSet(Guessing(u)) /\ IsFiniteSet(Worker)
         /\ Cardinality(Wrong(u)) \in Nat /\ Cardinality(Guessing(u)) \in Nat
         /\ Cardinality(Worker) \in Nat /\ Cardinality(Guessing(u)) <= Cardinality(Worker)
<1>1. Wrong(u) \subseteq Row /\ Guessing(u) \subseteq Worker
  BY DEF Wrong, Guessing
<1>. QED
  BY <1>1, FS_Subset, FS_CardinalityType, AdmissionAssumption

\* Nothing is added to the window, and no request to those past the limit.
LEMMA GuessFrame ==
  ASSUME GuessInv, \A u \in User : Wrong(u)' \subseteq Wrong(u) /\ Guessing(u)' \subseteq Guessing(u)
  PROVE  GuessInv'
<1>. SUFFICES ASSUME NEW u \in User
              PROVE  Cardinality(Wrong(u)') + Cardinality(Guessing(u)') < MaxAttempts + Cardinality(Worker)
  BY DEF GuessInv
<1>1. /\ Cardinality(Wrong(u)') <= Cardinality(Wrong(u)) /\ Cardinality(Wrong(u)') \in Nat
      /\ Cardinality(Guessing(u)') <= Cardinality(Guessing(u)) /\ Cardinality(Guessing(u)') \in Nat
  BY CountTypes, FS_Subset, FS_CardinalityType
<1>2. Cardinality(Wrong(u)) + Cardinality(Guessing(u)) < MaxAttempts + Cardinality(Worker)
  BY DEF GuessInv
<1>. QED
  BY <1>1, <1>2, CountTypes, AdmissionAssumption

\* A request passes the limit only while the window is below it.
LEMMA GuessPass ==
  ASSUME TypeOK, GuessInv, NEW w \in Worker, NEW u \in User, NEW ip \in Ip, NEW typed \in Code,
         CheckLimit(w, u, ip, typed), ~Limited(u, ip)
  PROVE  GuessInv'
<1>. SUFFICES ASSUME NEW x \in User
              PROVE  Cardinality(Wrong(x)') + Cardinality(Guessing(x)') < MaxAttempts + Cardinality(Worker)
  BY DEF GuessInv
<1>1. Wrong(x)' = Wrong(x)
  BY DEF CheckLimit, roles, Wrong
<1>2. CASE x = u
  <2>1. Wrong(u) \subseteq Failures(u, ip) /\ Failures(u, ip) \subseteq Row
    BY DEF Wrong, Failures
  <2>2. Cardinality(Wrong(u)) <= Cardinality(Failures(u, ip)) /\ Cardinality(Failures(u, ip)) \in Nat
    BY <2>1, FS_Subset, FS_CardinalityType, AdmissionAssumption
  <2>3. Cardinality(Failures(u, ip)) < MaxAttempts
    BY <2>2, AdmissionAssumption DEF Limited
  <2>4. Guessing(u)' \subseteq Worker
    BY DEF Guessing
  <2>5. Cardinality(Guessing(u)') <= Cardinality(Worker) /\ Cardinality(Guessing(u)') \in Nat
    BY <2>4, FS_Subset, FS_CardinalityType, AdmissionAssumption
  <2>. QED
    BY <1>1, <1>2, <2>2, <2>3, <2>5, CountTypes, AdmissionAssumption
<1>3. CASE x # u
  <2>1. Guessing(x)' \subseteq Guessing(x)
    BY <1>3 DEF TypeOK, CheckLimit, Idle, Guessing
  <2>2. Cardinality(Guessing(x)') <= Cardinality(Guessing(x)) /\ Cardinality(Guessing(x)') \in Nat
    BY <2>1, CountTypes, FS_Subset, FS_CardinalityType
  <2>3. Cardinality(Wrong(x)) + Cardinality(Guessing(x)) < MaxAttempts + Cardinality(Worker)
    BY DEF GuessInv
  <2>. QED
    BY <1>1, <2>2, <2>3, CountTypes, AdmissionAssumption
<1>. QED
  BY <1>2, <1>3

\* A wrong code that enters the window takes its request with it.
LEMMA GuessLogged ==
  ASSUME TypeOK, GuessInv, NEW w \in Worker, NEW x \in Row, Refuse(w, x)
  PROVE  GuessInv'
<1>. SUFFICES ASSUME NEW u \in User
              PROVE  Cardinality(Wrong(u)') + Cardinality(Guessing(u)') < MaxAttempts + Cardinality(Worker)
  BY DEF GuessInv
<1>1. job' = [job EXCEPT ![w] = Idle]
  BY DEF Refuse, Done
<1>2. Guessing(u)' \subseteq Guessing(u) \ {w}
  BY <1>1 DEF TypeOK, Idle, Guessing
<1>3. audit' = [audit EXCEPT ![x] = [user |-> job[w].user, ip |-> job[w].ip, reason |-> job[w].reason]]
        /\ job[w].pc = "refuse" /\ audit[x] = None
  BY DEF Refuse, At
<1>4. Cardinality(Wrong(u)) + Cardinality(Guessing(u)) < MaxAttempts + Cardinality(Worker)
  BY DEF GuessInv
<1>5. Cardinality(Guessing(u)') <= Cardinality(Guessing(u) \ {w}) /\ Cardinality(Guessing(u)') \in Nat
        /\ Cardinality(Guessing(u) \ {w}) \in Nat
        /\ Cardinality(Guessing(u) \ {w}) <= Cardinality(Guessing(u))
  BY <1>2, CountTypes, FS_Subset, FS_CardinalityType
<1>6. CASE job[w].user = u /\ job[w].reason = "invalid_code"
  <2>1. w \in Guessing(u)
    BY <1>3, <1>6 DEF Guessing
  <2>2. Cardinality(Guessing(u) \ {w}) = Cardinality(Guessing(u)) - 1
    BY <2>1, CountTypes, FS_RemoveElement
  <2>3. Wrong(u)' \subseteq Wrong(u) \cup {x}
    BY <1>3 DEF TypeOK, Wrong
  <2>4. IsFiniteSet(Wrong(u) \cup {x}) /\ Cardinality(Wrong(u) \cup {x}) <= Cardinality(Wrong(u)) + 1
          /\ Cardinality(Wrong(u) \cup {x}) \in Nat
    <3>1. x \notin Wrong(u)
      BY <1>3 DEF Wrong
    <3>2. IsFiniteSet(Wrong(u) \cup {x}) /\ Cardinality(Wrong(u) \cup {x}) = Cardinality(Wrong(u)) + 1
      BY <3>1, CountTypes, FS_AddElement
    <3>. QED
      BY <3>2, CountTypes
  <2>5. Cardinality(Wrong(u)') <= Cardinality(Wrong(u)) + 1 /\ Cardinality(Wrong(u)') \in Nat
    BY <2>3, <2>4, CountTypes, FS_Subset, FS_CardinalityType
  <2>. QED
    BY <1>4, <1>5, <2>2, <2>5, CountTypes, AdmissionAssumption
<1>7. CASE ~(job[w].user = u /\ job[w].reason = "invalid_code")
  <2>1. Wrong(u)' \subseteq Wrong(u)
    BY <1>3, <1>7 DEF TypeOK, Wrong
  <2>2. Cardinality(Wrong(u)') <= Cardinality(Wrong(u)) /\ Cardinality(Wrong(u)') \in Nat
    BY <2>1, CountTypes, FS_Subset, FS_CardinalityType
  <2>. QED
    BY <1>4, <1>5, <2>2, CountTypes, AdmissionAssumption
<1>. QED
  BY <1>6, <1>7

LEMMA GuessStep == TypeOK /\ GuessInv /\ [Next]_vars => GuessInv'
<1>. SUFFICES ASSUME TypeOK, GuessInv, [Next]_vars PROVE GuessInv'
  OBVIOUS
<1>1. ASSUME NEW w \in Worker, NEW u \in User, NEW ip \in Ip, NEW typed \in Code,
             CheckLimit(w, u, ip, typed)
      PROVE  GuessInv'
  <2>1. CASE Limited(u, ip)
    <3>1. \A x \in User : Wrong(x)' = Wrong(x)
      BY <1>1 DEF CheckLimit, roles, Wrong
    <3>2. \A x \in User : Guessing(x)' \subseteq Guessing(x)
      BY <1>1, <2>1 DEF TypeOK, CheckLimit, Idle, Guessing
    <3>. QED
      BY <3>1, <3>2, GuessFrame
  <2>. QED
    BY <1>1, <2>1, GuessPass
<1>2. ASSUME NEW w \in Worker, NEW x \in Row, Refuse(w, x) PROVE GuessInv'
  BY <1>2, GuessLogged
<1>3. ASSUME NEW w \in Worker, LookUpCode(w) \/ VerifyCode(w) PROVE GuessInv'
  <2>1. \A u \in User : Wrong(u)' = Wrong(u)
    BY <1>3 DEF LookUpCode, VerifyCode, roles, Wrong
  <2>2. job'[w].user = job[w].user /\ job[w].pc \in {"state", "verify"}
          /\ \A v \in Worker \ {w} : job'[v] = job[v]
    BY <1>3 DEF TypeOK, Job, LookUpCode, VerifyCode, At
  <2>3. \A u \in User : Guessing(u)' \subseteq Guessing(u)
    BY <2>2 DEF Guessing
  <2>. QED
    BY <2>1, <2>3, GuessFrame
<1>4. ASSUME NEW w \in Worker, Elevate(w) \/ DecodeToken(w) \/ Fail(w) PROVE GuessInv'
  <2>1. \A u \in User : Wrong(u)' = Wrong(u)
    BY <1>4 DEF Elevate, DecodeToken, Fail, roles, Wrong
  <2>2. job' = [job EXCEPT ![w] = Idle]
    BY <1>4 DEF Elevate, DecodeToken, Fail, Done
  <2>3. \A u \in User : Guessing(u)' \subseteq Guessing(u)
    BY <2>2 DEF TypeOK, Idle, Guessing
  <2>. QED
    BY <2>1, <2>3, GuessFrame
<1>5. ASSUME NEW w \in Worker, GetKey(w) \/ AnswerKeys(w) \/ InstallKeys(w) \/ FetchFails(w)
      PROVE  GuessInv'
  <2>1. \A u \in User : Wrong(u)' = Wrong(u)
    BY <1>5 DEF GetKey, AnswerKeys, InstallKeys, FetchFails, roles, Wrong
  <2>2. job'[w].pc \in {"fetch", "install", "again", "installAgain", "decode"}
    <3>1. CASE GetKey(w)
      BY <3>1 DEF TypeOK, GetKey, Decode, Idle
    <3>2. CASE AnswerKeys(w)
      BY <3>2 DEF TypeOK, Job, AnswerKeys
    <3>3. CASE InstallKeys(w)
      BY <3>3 DEF TypeOK, InstallKeys, Decode, Idle
    <3>4. CASE FetchFails(w)
      BY <3>4 DEF TypeOK, FetchFails, Decode, Idle
    <3>. QED
      BY <1>5, <3>1, <3>2, <3>3, <3>4
  <2>3. \A v \in Worker \ {w} : job'[v] = job[v]
    BY <1>5 DEF TypeOK, GetKey, AnswerKeys, InstallKeys, FetchFails
  <2>4. \A u \in User : Guessing(u)' \subseteq Guessing(u)
    BY <2>2, <2>3 DEF Guessing
  <2>. QED
    BY <2>1, <2>4, GuessFrame
<1>6. ASSUME NEW x \in Row, Elapse(x) PROVE GuessInv'
  <2>1. \A u \in User : Wrong(u)' \subseteq Wrong(u)
    BY <1>6 DEF TypeOK, Elapse, Wrong
  <2>2. \A u \in User : Guessing(u)' = Guessing(u)
    BY <1>6 DEF Elapse, Guessing
  <2>. QED
    BY <2>1, <2>2, GuessFrame
<1>7. CASE Restart \/ \E c \in Code, k \in Key : Redeploy(c, k)
  <2>1. \A u \in User : Wrong(u)' = Wrong(u)
    BY <1>7 DEF Restart, Redeploy, roles, Wrong
  <2>2. \A w \in Worker : job'[w] \in {job[w], Idle}
    BY <1>7 DEF TypeOK, Restart, Redeploy
  <2>3. \A u \in User : Guessing(u)' \subseteq Guessing(u)
    BY <2>2 DEF Idle, Guessing
  <2>. QED
    BY <2>1, <2>3, GuessFrame
<1>8. CASE Tick
  <2>1. \A u \in User : Wrong(u)' = Wrong(u)
    BY <1>8 DEF Tick, roles, Wrong
  <2>2. \A w \in Worker : /\ job'[w].user = job[w].user /\ job'[w].pc = job[w].pc
                          /\ job'[w].reason = job[w].reason
    BY <1>8 DEF TypeOK, Job, Tick
  <2>3. \A u \in User : Guessing(u)' = Guessing(u)
    BY <2>2 DEF Guessing
  <2>. QED
    BY <2>1, <2>3, GuessFrame
<1>9. CASE UNCHANGED vars
  BY <1>9, GuessFrame DEF vars, Wrong, Guessing
<1>. QED
  BY <1>1, <1>2, <1>3, <1>4, <1>5, <1>6, <1>7, <1>8, <1>9 DEF Next, Provision, RequireAuth

-----------------------------------------------------------------------------
(* Results                                                                 *)

LEMMA Initial == Init => IInv
<1>. SUFFICES ASSUME Init PROVE IInv
  OBVIOUS
<1>1. HoldInv /\ RecentInv /\ OneAdminPerCode
  BY DEF Init, HoldInv, RecentInv, OneAdminPerCode, Idle, At, Provisioning, Installing
<1>2. GuessInv
  <2>. SUFFICES ASSUME NEW u \in User
                PROVE  Cardinality(Wrong(u)) + Cardinality(Guessing(u)) < MaxAttempts + Cardinality(Worker)
    BY DEF GuessInv
  <2>1. Wrong(u) = {} /\ Guessing(u) = {}
    BY DEF Init, Wrong, Guessing, Idle
  <2>2. Cardinality(Worker) \in Nat
    BY CountTypes
  <2>. QED
    BY <2>1, <2>2, FS_EmptySet, AdmissionAssumption
<1>. QED
  BY <1>1, <1>2, TypeInit DEF IInv

LEMMA Inductive == Spec => []IInv
<1>1. IInv /\ [Next]_vars => IInv'
  BY TypeStep, HoldStep, RecentStep, AdminStep, GuessStep DEF IInv
<1>. QED
  BY <1>1, Initial, PTL DEF Spec

\* Every variable has its type in every reachable state: what provision_admin_role
\* logs is complete, and only answers that hold a key are installed.
THEOREM TypeCorrect == Spec => []TypeOK
<1>1. IInv => TypeOK
  BY DEF IInv
<1>. QED
  BY <1>1, Inductive, PTL

\* However many requests of however many users overlap with the same code, it
\* makes one of them an admin.
THEOREM OneAdminPerCodeHolds == Spec => []OneAdminPerCode
<1>1. IInv => OneAdminPerCode
  BY DEF IInv
<1>. QED
  BY <1>1, Inductive, PTL

\* The wrong codes of a user in the window stay below the limit and the requests
\* in flight together, for any limit.
THEOREM GuessesBoundedHolds == Spec => []GuessesBounded
<1>1. IInv => GuessesBounded
  <2>. SUFFICES ASSUME GuessInv, NEW u \in User
                PROVE  Cardinality(Wrong(u)) < MaxAttempts + Cardinality(Worker)
    BY DEF IInv, GuessesBounded, Wrong
  <2>1. Cardinality(Wrong(u)) + Cardinality(Guessing(u)) < MaxAttempts + Cardinality(Worker)
    BY DEF GuessInv
  <2>. QED
    BY <2>1, CountTypes, AdmissionAssumption
<1>. QED
  BY <1>1, Inductive, PTL

\* A key that a service verifies a token with is current, or went out of use no
\* longer ago than the cache's lifetime and the slowest answer together, whatever
\* the deployments.
THEOREM KeyIsRecentHolds == Spec => KeyIsRecent
<1>1. IInv /\ [Next]_vars =>
        [\A w \in Worker :
           job'[w].with # None /\ job[w].with = None /\ ~job'[w].failed =>
             job'[w].with = key \/ retired[job'[w].with] <= Ttl + Delay]_vars
  <2>. SUFFICES ASSUME TypeOK, HoldInv, RecentInv, Next, NEW w \in Worker,
                       job'[w].with # None, job[w].with = None, ~job'[w].failed
                PROVE  job'[w].with = key \/ retired[job'[w].with] <= Ttl + Delay
    BY DEF IInv
  <2>. USE AdmissionAssumption
  <2>1. CASE GetKey(w)
    <3>1. cached # None /\ age <= Ttl /\ job'[w].with = cached
      BY <2>1 DEF TypeOK, GetKey, Fresh, Decode, Idle
    <3>2. Within(cached, age + Delay) /\ cached \in Key /\ age \in Nat
      BY <3>1 DEF RecentInv, TypeOK
    <3>3. retired[cached] \in Nat \cup {None}
      BY <3>2 DEF TypeOK
    <3>. QED
      BY <3>1, <3>2, <3>3 DEF Within
  <2>2. CASE InstallKeys(w)
    <3>1. Installing(w) /\ job'[w].with = job[w].answer
      BY <2>2 DEF TypeOK, InstallKeys, Decode, Idle, Installing
    <3>2. Within(job[w].answer, job[w].since) /\ job[w].answer \in Key
            /\ job[w].since \in Nat /\ job[w].since <= Delay
      BY <3>1 DEF RecentInv, HoldInv, TypeOK, Job
    <3>3. retired[job[w].answer] \in Nat \cup {None}
      BY <3>2 DEF TypeOK
    <3>. QED
      BY <3>1, <3>2, <3>3 DEF Within
  <2>3. CASE job'[w] = job[w] \/ job'[w].with \in {None, job[w].with}
    BY <2>3
  <2>4. CASE FetchFails(w)
    BY <2>4 DEF TypeOK, FetchFails, Decode, Idle
  <2>5. ASSUME NEW v \in Worker, v # w, Provision(v) \/ RequireAuth(v) \/ Fail(v) PROVE job'[w] = job[w]
    BY <2>5 DEF TypeOK, Provision, RequireAuth, CheckLimit, LookUpCode, VerifyCode, Elevate, Refuse,
                GetKey, AnswerKeys, InstallKeys, FetchFails, DecodeToken, Fail, Done
  <2>6. CASE (\E u \in User, ip \in Ip, typed \in Code : CheckLimit(w, u, ip, typed))
               \/ Elevate(w) \/ (\E x \in Row : Refuse(w, x)) \/ DecodeToken(w) \/ Fail(w)
    <3>1. job'[w].with = None
      <4>1. CASE \E u \in User, ip \in Ip, typed \in Code : CheckLimit(w, u, ip, typed)
        BY <4>1 DEF TypeOK, CheckLimit, Idle
      <4>2. CASE ~\E u \in User, ip \in Ip, typed \in Code : CheckLimit(w, u, ip, typed)
        <5>1. job' = [job EXCEPT ![w] = Idle]
          BY <2>6, <4>2 DEF Elevate, Refuse, DecodeToken, Fail, Done
        <5>. QED
          BY <5>1 DEF TypeOK, Idle
      <4>. QED
        BY <4>1, <4>2
    <3>. QED
      BY <3>1
  <2>7. CASE LookUpCode(w) \/ VerifyCode(w) \/ AnswerKeys(w)
    <3>1. job'[w].with = job[w].with
      BY <2>7 DEF TypeOK, Job, LookUpCode, VerifyCode, AnswerKeys
    <3>. QED
      BY <3>1
  <2>8. CASE Restart \/ (\E c \in Code, k \in Key : Redeploy(c, k)) \/ (\E x \in Row : Elapse(x)) \/ Tick
    <3>1. job'[w].with \in {None, job[w].with}
      BY <2>8 DEF TypeOK, Job, Restart, Redeploy, Elapse, Tick, Idle
    <3>. QED
      BY <3>1
  <2>. QED
    BY <2>1, <2>2, <2>3, <2>4, <2>5, <2>6, <2>7, <2>8 DEF Next, Provision, RequireAuth
<1>. QED
  BY <1>1, Inductive, PTL DEF KeyIsRecent, Spec

-----------------------------------------------------------------------------
(* The GitHub connection                                                   *)

\* What a callback has when it comes to the row.
CallbackInv ==
  \A r \in Request :
    /\ request[r].pc \in {"exchange", "fetch"} =>
         request[r].grant \in Grant /\ given[request[r].grant] # Nil
    /\ request[r].pc \in {"load", "store"} => request[r].profile \in Profile

\* Of callbacks that are apart at most one is about to store, and the row it has
\* loaded is still there unless it was deleted.
ApartInv ==
  apart =>
    \A r \in Request : request[r].pc = "store" =>
      /\ connection \in {Nil, request[r].seen}
      /\ \A q \in Request : request[q].pc = "store" => q = r

LinkInv == LinkTypeOK /\ CallbackInv /\ ApartInv /\ NoticeAgrees /\ ShownIsTold

LEMMA FreeType == Free \in Handler
BY DEF Free, Handler

\* A request goes on, and leaves the row alone.
LEMMA OnStep ==
  ASSUME LinkInv, NEW r \in Request, NEW h \in Handler, Set(r, h), UNCHANGED stored,
         invited' \in BOOLEAN, apart' \in BOOLEAN, given' = given, used' \subseteq Grant,
         h.pc \in {"exchange", "fetch"} => h.grant \in Grant /\ given[h.grant] # Nil,
         h.pc \in {"load", "store"} => h.profile \in Profile,
         apart' => apart,
         h.pc = "store" /\ apart' =>
           h.seen = connection /\ \A q \in Request : request[q].pc # "store"
  PROVE  LinkInv'
<1>1. request' \in [Request -> Handler] /\ request'[r] = h
        /\ \A q \in Request \ {r} : request'[q] = request[q]
  BY DEF LinkInv, LinkTypeOK, Set
<1>2. connection' = connection /\ notice' = notice
  BY DEF stored
<1>3. LinkTypeOK'
  BY <1>1, <1>2 DEF LinkInv, LinkTypeOK
<1>4. CallbackInv'
  BY <1>1 DEF LinkInv, CallbackInv
<1>5. ApartInv'
  BY <1>1, <1>2 DEF LinkInv, ApartInv
<1>6. NoticeAgrees' /\ ShownIsTold'
  BY <1>2 DEF LinkInv, NoticeAgrees, ShownIsTold, Shown
<1>. QED
  BY <1>3, <1>4, <1>5, <1>6 DEF LinkInv

\* A request commits, and is over.
LEMMA CommitStep ==
  ASSUME LinkInv, NEW r \in Request, Over(r), UNCHANGED <<invited, github, apart>>,
         connection' \in Profile \cup {Nil}, notice' \in Notice, NoticeAgrees', ShownIsTold',
         apart => connection' \in {Nil, connection} \/ request[r].pc = "store"
  PROVE  LinkInv'
<1>1. request' \in [Request -> Handler] /\ request'[r] = Free
        /\ \A q \in Request \ {r} : request'[q] = request[q]
  BY FreeType DEF LinkInv, LinkTypeOK, Set, Over
<1>2. LinkTypeOK'
  BY <1>1 DEF LinkInv, LinkTypeOK, github
<1>3. CallbackInv'
  BY <1>1 DEF LinkInv, CallbackInv, github, Free
<1>4. ApartInv'
  BY <1>1 DEF LinkInv, ApartInv, Free
<1>. QED
  BY <1>2, <1>3, <1>4 DEF LinkInv

\* An update writes the whole profile if the row is still the one that was loaded.
LEMMA UpdatedType ==
  ASSUME LinkInv, NEW r \in Request, request[r].pc = "store",
         request[r].seen # Nil, connection # Nil
  PROVE  /\ Updated(request[r]) \in Profile
         /\ apart => Updated(request[r]) = request[r].profile
<1>1. /\ request[r].profile \in Profile /\ request[r].seen \in Profile /\ connection \in Profile
  BY DEF LinkInv, LinkTypeOK, CallbackInv, Handler
<1>2. apart => connection = request[r].seen
  BY DEF LinkInv, ApartInv
<1>. QED
  BY <1>1, <1>2 DEF Updated, Profile

LEMMA StoreStep == ASSUME LinkInv, NEW r \in Request, Store(r) PROVE LinkInv'
<1>1. request[r].pc = "store" /\ request[r].profile \in Profile /\ Over(r)
        /\ UNCHANGED <<invited, github, apart>>
  BY DEF Store, LinkInv, CallbackInv
<1>2. CASE UNCHANGED stored
  BY <1>1, <1>2, CommitStep DEF LinkInv, LinkTypeOK, stored, NoticeAgrees, ShownIsTold, Shown
<1>3. CASE /\ (request[r].seen = Nil) <=> (connection = Nil)
           /\ connection' = IF request[r].seen = Nil THEN request[r].profile ELSE Updated(request[r])
           /\ notice' = [type |-> "github_connected", profile |-> request[r].profile]
  <2>1. connection' \in Profile /\ (apart => connection' = request[r].profile)
    BY <1>1, <1>3, UpdatedType
  <2>2. connection' # Nil
    BY <2>1, GitHubLinkAssumption
  <2>3. notice' \in Notice /\ notice'.type = "github_connected" /\ notice'.profile = request[r].profile
    BY <1>1, <1>3 DEF Notice
  <2>4. NoticeAgrees' /\ ShownIsTold'
    BY <1>1, <2>1, <2>2, <2>3 DEF NoticeAgrees, ShownIsTold, Shown
  <2>. QED
    BY <1>1, <2>1, <2>3, <2>4, CommitStep
<1>. QED
  BY <1>2, <1>3 DEF Store

LEMMA DeleteStep == ASSUME LinkInv, NEW r \in Request, Delete(r) PROVE LinkInv'
<1>1. Over(r) /\ UNCHANGED <<invited, github, apart>>
  BY DEF Delete
<1>2. CASE UNCHANGED stored
  BY <1>1, <1>2, CommitStep DEF LinkInv, LinkTypeOK, stored, NoticeAgrees, ShownIsTold, Shown
<1>3. CASE /\ connection' = Deleted(request[r])
           /\ notice' = [type |-> "github_disconnected", profile |-> Nil]
  BY <1>1, <1>3, CommitStep DEF Deleted, Notice, NoticeAgrees, ShownIsTold, Shown
<1>. QED
  BY <1>2, <1>3 DEF Delete

\* What a request becomes on its way to the row has a type.
LEMMA HandlerTypes ==
  ASSUME LinkInv, NEW r \in Request
  PROVE  /\ request[r] \in Handler /\ connection \in Profile \cup {Nil}
         /\ \A g \in Grant : [Free EXCEPT !.pc = "exchange", !.grant = g] \in Handler
         /\ \A p \in Profile : [Free EXCEPT !.pc = "load", !.profile = p] \in Handler
         /\ [Free EXCEPT !.pc = "delete", !.seen = connection] \in Handler
         /\ [request[r] EXCEPT !.pc = "fetch"] \in Handler
         /\ \A p \in Profile : [request[r] EXCEPT !.pc = "load", !.profile = p] \in Handler
         /\ [request[r] EXCEPT !.pc = "store", !.seen = connection] \in Handler
BY DEF LinkInv, LinkTypeOK, Handler, Free

LEMMA RequestStep ==
  ASSUME LinkInv, NEW r \in Request,
         \/ \E g \in Grant : Callback(r, g)
         \/ \E p \in Profile : CallbackWithProfile(r, p)
         \/ Exchange(r) \/ Fetch(r) \/ Load(r) \/ Disconnect(r)
  PROVE  LinkInv'
<1>. invited \in BOOLEAN /\ apart \in BOOLEAN /\ used \subseteq Grant /\ request[r] \in Handler
  BY DEF LinkInv, LinkTypeOK
<1>1. ASSUME NEW g \in Grant, Callback(r, g) PROVE LinkInv'
  <2>. DEFINE h == [Free EXCEPT !.pc = "exchange", !.grant = g]
  <2>1. h \in Handler /\ h.pc = "exchange" /\ h.grant = g
    BY HandlerTypes DEF Free
  <2>2. Set(r, h) /\ given[g] # Nil /\ UNCHANGED <<stored, invited, given, used, apart>>
    BY <1>1 DEF Callback, Redirected, Posted, Called, github
  <2>. HIDE DEF h
  <2>. QED
    BY <2>1, <2>2, OnStep
<1>2. ASSUME NEW p \in Profile, CallbackWithProfile(r, p) PROVE LinkInv'
  <2>. DEFINE h == [Free EXCEPT !.pc = "load", !.profile = p]
  <2>1. h \in Handler /\ h.pc = "load" /\ h.profile = p
    BY HandlerTypes DEF Free
  <2>2. Set(r, h) /\ UNCHANGED <<stored, invited, given, used, apart>>
    BY <1>2 DEF CallbackWithProfile, github
  <2>. HIDE DEF h
  <2>. QED
    BY <2>1, <2>2, OnStep
<1>3. ASSUME Over(r), UNCHANGED <<stored, invited, given, apart>>, used' \subseteq Grant PROVE LinkInv'
  BY <1>3, FreeType, OnStep DEF Over, Free
<1>4. CASE Exchange(r)
  <2>1. request[r].grant \in Grant /\ given[request[r].grant] # Nil
    BY <1>4 DEF Exchange, LinkInv, CallbackInv
  <2>. DEFINE h == [request[r] EXCEPT !.pc = "fetch"]
  <2>2. h \in Handler /\ h.pc = "fetch" /\ h.grant = request[r].grant
    BY HandlerTypes DEF Handler
  <2>3. used' \subseteq Grant /\ UNCHANGED <<stored, invited, given, apart>>
    BY <1>4, <2>1 DEF Exchange
  <2>4. Set(r, h) \/ Over(r)
    BY <1>4 DEF Exchange
  <2>. HIDE DEF h
  <2>. QED
    BY <1>3, <2>1, <2>2, <2>3, <2>4, OnStep
<1>5. CASE Fetch(r)
  <2>1. UNCHANGED <<stored, invited, given, used, apart>>
    BY <1>5 DEF Fetch, github
  <2>2. ASSUME NEW n \in Count,
               Set(r, [request[r] EXCEPT !.pc = "load",
                         !.profile = [account |-> given[request[r].grant], repos |-> n]])
        PROVE  LinkInv'
    <3>. DEFINE p == [account |-> given[request[r].grant], repos |-> n]
                h == [request[r] EXCEPT !.pc = "load", !.profile = p]
    <3>1. given[request[r].grant] \in Account
      BY <1>5 DEF Fetch, LinkInv, LinkTypeOK, CallbackInv
    <3>2. p \in Profile
      BY <3>1 DEF Profile
    <3>. HIDE DEF p
    <3>3. h \in Handler /\ h.pc = "load" /\ h.profile = p
      BY <3>2, HandlerTypes DEF Handler
    <3>4. Set(r, h)
      BY <2>2 DEF p
    <3>. HIDE DEF h
    <3>. QED
      BY <2>1, <3>2, <3>3, <3>4, OnStep
  <2>. QED
    BY <1>3, <1>5, <2>1, <2>2 DEF Fetch
<1>6. CASE Load(r)
  <2>. DEFINE h == [request[r] EXCEPT !.pc = "store", !.seen = connection]
  <2>1. h \in Handler /\ h.pc = "store" /\ h.seen = connection /\ h.profile = request[r].profile
    BY HandlerTypes DEF Handler
  <2>2. request[r].profile \in Profile
    BY <1>6 DEF Load, LinkInv, CallbackInv
  <2>3. /\ Set(r, h) /\ UNCHANGED <<stored, invited, given, used>>
        /\ apart' = (apart /\ \A q \in Request : request[q].pc # "store")
    BY <1>6 DEF Load, github
  <2>4. apart' \in BOOLEAN
    BY <2>3
  <2>. HIDE DEF h
  <2>. QED
    BY <2>1, <2>2, <2>3, <2>4, OnStep
<1>7. CASE Disconnect(r)
  <2>. DEFINE h == [Free EXCEPT !.pc = "delete", !.seen = connection]
  <2>1. h \in Handler /\ h.pc = "delete"
    BY HandlerTypes DEF Free
  <2>2. Set(r, h) /\ UNCHANGED <<stored, invited, given, used, apart>>
    BY <1>7 DEF Disconnect, github
  <2>. HIDE DEF h
  <2>. QED
    BY <2>1, <2>2, OnStep
<1>. QED
  BY <1>1, <1>2, <1>4, <1>5, <1>6, <1>7

LEMMA OutsideStep ==
  ASSUME LinkInv,
         Authorize \/ StateExpires \/ (\E g \in Grant, a \in Account : Consent(g, a))
           \/ UNCHANGED linkVars
  PROVE  LinkInv'
<1>1. UNCHANGED <<connection, notice, request, apart>>
  BY DEF Authorize, StateExpires, Consent, linkVars, stored, github
<1>2. invited' \in BOOLEAN /\ used' = used /\ given' \in [Grant -> Account \cup {Nil}]
        /\ \A g \in Grant : given[g] # Nil => given'[g] # Nil
  BY DEF Authorize, StateExpires, Consent, linkVars, github, LinkInv, LinkTypeOK
<1>3. LinkTypeOK' /\ CallbackInv'
  BY <1>1, <1>2 DEF LinkInv, LinkTypeOK, CallbackInv
<1>4. ApartInv' /\ NoticeAgrees' /\ ShownIsTold'
  BY <1>1 DEF LinkInv, ApartInv, NoticeAgrees, ShownIsTold, Shown
<1>. QED
  BY <1>3, <1>4 DEF LinkInv

LEMMA LinkInitial == LinkInit => LinkInv
<1>. SUFFICES ASSUME LinkInit PROVE LinkInv
  OBVIOUS
<1>1. request \in [Request -> Handler] /\ \A r \in Request : request[r].pc = "idle"
  BY FreeType DEF LinkInit, Free
<1>2. notice \in Notice /\ given \in [Grant -> Account \cup {Nil}]
  BY DEF LinkInit, Notice
<1>3. LinkTypeOK
  BY <1>1, <1>2 DEF LinkInit, LinkTypeOK
<1>4. CallbackInv /\ ApartInv
  BY <1>1 DEF CallbackInv, ApartInv
<1>5. NoticeAgrees /\ ShownIsTold
  BY DEF LinkInit, NoticeAgrees, ShownIsTold, Shown
<1>. QED
  BY <1>3, <1>4, <1>5 DEF LinkInv

LEMMA LinkInductive == LinkSpec => []LinkInv
<1>1. LinkInv /\ [LinkNext]_linkVars => LinkInv'
  BY StoreStep, DeleteStep, RequestStep, OutsideStep DEF LinkNext
<1>. QED
  BY <1>1, LinkInitial, PTL DEF LinkSpec

\* However callbacks and disconnects of a seller overlap, repeat and fail, the
\* notification that was committed last says whether a connection is shown.
THEOREM NoticeAgreesHolds == LinkSpec => []NoticeAgrees
<1>1. LinkInv => NoticeAgrees
  BY DEF LinkInv
<1>. QED
  BY <1>1, LinkInductive, PTL

\* Unless two callbacks overlap between load and commit, the badge shows the whole
\* profile that the seller was told of, although an update writes only the columns
\* that differ from the row it has loaded.
THEOREM ShownIsToldHolds == LinkSpec => []ShownIsTold
<1>1. LinkInv => ShownIsTold
  BY DEF LinkInv
<1>. QED
  BY <1>1, LinkInductive, PTL
==============================================================================
