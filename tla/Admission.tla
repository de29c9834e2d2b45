------------------------------ MODULE Admission ------------------------------
(***************************************************************************)
(* Who is let in, and on which evidence: the code that makes a user an     *)
(* admin of the auth service, once, behind a limit kept in its audit log;  *)
(* and the signing key of the auth service, which the other services fetch *)
(* from it and keep for a while to verify access tokens on their own.      *)
(*                                                                         *)
(* Both change when the operator deploys the auth service anew.  Handlers  *)
(* run on threads; each database access and each HTTP call is a step.      *)
(* Time passes in ticks, in which the audit log's window moves, the cache  *)
(* grows old and a call gets slower, by Delay ticks at most (its timeout). *)
(***************************************************************************)
EXTENDS Integers, FiniteSets

CONSTANTS
  Worker,       \* requests in flight at most
  User, Ip,     \* who asks for the role, and from where
  Code, Key,    \* provisioning codes and RSA key pairs that the operator deploys
  Row,          \* rows of the audit log inside the window, at most
  MaxAttempts,  \* ADMIN_PROVISION_MAX_ATTEMPTS
  Ttl,          \* JWKS_CACHE_TTL_SECONDS
  Delay,        \* the longest time from auth's answer to its use
  None

VARIABLES
  code, key,  \* what auth runs with: the provisioning code and the key pair
  retired,    \* for how long each key has been out of use; None before its first
  usedBy,     \* admin_provisioning_state: who used each code
  admins,     \* users whose roles include admin
  audit,      \* admin_provision_audit_logs: the failures inside the window
  cached,     \* the key in a service's JWKSKeyManager, or None
  age,        \* for how long it has been there
  job         \* the requests

vars == <<code, key, retired, usedBy, admins, audit, cached, age, job>>
deployed == <<code, key, retired>>
roles == <<usedBy, admins, audit>>
cache == <<cached, age>>

ASSUME AdmissionAssumption ==
  /\ IsFiniteSet(Worker) /\ Worker # {} /\ IsFiniteSet(Row)
  /\ Code # {} /\ Key # {}
  /\ MaxAttempts \in Nat \ {0} /\ Ttl \in Nat /\ Delay \in Nat
  /\ None \notin Code \cup Key \cup User \cup Ip \cup Nat

\* "refused" is rate_limit_exceeded or code_already_consumed: the code was not
\* compared.
Reason == {"refused", "invalid_code"}
AuditRow == [user : User, ip : Ip, reason : Reason]

\* A request to become an admin: user, ip and what was typed, and why it is about
\* to be refused.  A request to another service: the key that auth answered with,
\* for how long that is known, whether a fetch failed, and in the end the key for
\* its token, which is accepted if it was signed with that key.
Job == [pc : {"idle", "state", "verify", "refuse", "elevate",
              "fetch", "install", "again", "installAgain", "decode"},
        user : User \cup {None}, ip : Ip \cup {None}, typed : Code \cup {None},
        reason : Reason \cup {None},
        answer : Key \cup {None}, since : Nat, failed : BOOLEAN, with : Key \cup {None}]
Idle == [pc |-> "idle", user |-> None, ip |-> None, typed |-> None, reason |-> None,
         answer |-> None, since |-> 0, failed |-> FALSE, with |-> None]

TypeOK ==
  /\ code \in Code /\ key \in Key
  /\ retired \in [Key -> Nat \cup {None}]
  /\ usedBy \in [Code -> User \cup {None}] /\ admins \subseteq User
  /\ audit \in [Row -> AuditRow \cup {None}]
  /\ cached \in Key \cup {None} /\ age \in 0 .. Ttl + 1
  /\ job \in [Worker -> Job]

Init ==
  /\ code \in Code /\ key \in Key
  /\ retired = [k \in Key |-> None]
  /\ usedBy = [c \in Code |-> None] /\ admins = {}
  /\ audit = [x \in Row |-> None]
  /\ cached = None /\ age = 0
  /\ job = [w \in Worker |-> Idle]

At(w, pc) == job[w].pc = pc
Goto(w, pc) == job' = [job EXCEPT ![w].pc = pc]
Done(w) == job' = [job EXCEPT ![w] = Idle]

-----------------------------------------------------------------------------
(* provision_admin_role                                                    *)

\* Rows of the same user or from the same address count, whatever the reason.
Failures(u, ip) == {x \in Row : audit[x] # None /\ (audit[x].user = u \/ audit[x].ip = ip)}

\* Faulty variant: the limit has to be exceeded.
Limited_late(u, ip) == Cardinality(Failures(u, ip)) > MaxAttempts
Limited(u, ip) == Cardinality(Failures(u, ip)) >= MaxAttempts

CheckLimit(w, u, ip, typed) ==
  /\ job[w] = Idle
  /\ job' = [job EXCEPT ![w] =
               [Idle EXCEPT !.user = u, !.ip = ip, !.typed = typed,
                            !.pc = IF Limited(u, ip) THEN "refuse" ELSE "state",
                            !.reason = IF Limited(u, ip) THEN "refused" ELSE None]]
  /\ UNCHANGED <<deployed, roles, cache>>

LookUpCode(w) ==
  /\ At(w, "state")
  /\ job' = [job EXCEPT
       ![w].pc = IF usedBy[code] # None THEN "refuse" ELSE "verify",
       ![w].reason = IF usedBy[code] # None THEN "refused" ELSE None]
  /\ UNCHANGED <<deployed, roles, cache>>

VerifyCode(w) ==
  /\ At(w, "verify")
  /\ job' = [job EXCEPT
       ![w].pc = IF job[w].typed = code THEN "elevate" ELSE "refuse",
       ![w].reason = IF job[w].typed = code THEN None ELSE "invalid_code"]
  /\ UNCHANGED <<deployed, roles, cache>>

\* The failure is logged, and so is a refusal by the limit: asking again
\* prolongs it.
Refuse(w, x) ==
  /\ At(w, "refuse") /\ audit[x] = None
  /\ audit' = [audit EXCEPT ![x] = [user |-> job[w].user, ip |-> job[w].ip,
                                    reason |-> job[w].reason]]
  /\ Done(w)
  /\ UNCHANGED <<deployed, usedBy, admins, cache>>

\* One commit inserts the state of the code and elevates the user.  Two requests
\* may both have found no state: code_hash is the primary key, so the second
\* insert fails, and its transaction leaves nothing, not even a row in the audit
\* log.  Faulty variant: the state is written over (a merge).
Insertable_merged(c) == TRUE
Insertable(c) == usedBy[c] = None

Elevate(w) ==
  /\ At(w, "elevate")
  /\ IF Insertable(code)
     THEN usedBy' = [usedBy EXCEPT ![code] = job[w].user] /\ admins' = admins \cup {job[w].user}
     ELSE UNCHANGED <<usedBy, admins>>
  /\ Done(w)
  /\ UNCHANGED <<deployed, audit, cache>>

-----------------------------------------------------------------------------
(* require_auth of another service: the token is decoded with the cached   *)
(* key.  Every key pair is published under the same kid, so the cache has  *)
(* the kid of any token as soon as it has a key at all.                    *)

\* Faulty variant: what is there is good for ever.
Fresh_forever == cached # None
Fresh == cached # None /\ age <= Ttl

Decode(failed, k) == [Idle EXCEPT !.pc = "decode", !.failed = failed, !.with = k]

GetKey(w) ==
  /\ job[w] = Idle
  /\ job' = [job EXCEPT ![w] = IF Fresh THEN Decode(FALSE, cached) ELSE [Idle EXCEPT !.pc = "fetch"]]
  /\ UNCHANGED <<deployed, roles, cache>>

\* refresh_keys: get_jwks answers with auth's only key ...
AnswerKeys(w) ==
  /\ At(w, "fetch") \/ At(w, "again")
  /\ job' = [job EXCEPT ![w].pc = IF At(w, "fetch") THEN "install" ELSE "installAgain",
                        ![w].answer = key, ![w].since = 0]
  /\ UNCHANGED <<deployed, roles, cache>>

\* ... which replaces what is cached, even by an answer that another request got
\* later.
InstallKeys(w) ==
  /\ At(w, "install") \/ At(w, "installAgain")
  /\ cached' = job[w].answer /\ age' = 0
  /\ job' = [job EXCEPT ![w] = Decode(job[w].failed, job[w].answer)]
  /\ UNCHANGED <<deployed, roles>>

\* The fetch fails, before or after auth has answered: the keys that there are
\* serve on.  If there is none, a second fetch is tried, once; then the token is
\* refused without a key.
FetchFails(w) ==
  /\ job[w].pc \in {"fetch", "install", "again", "installAgain"}
  /\ job' = [job EXCEPT ![w] =
       IF cached = None /\ job[w].pc \in {"fetch", "install"}
       THEN [Idle EXCEPT !.pc = "again", !.failed = TRUE] ELSE Decode(TRUE, cached)]
  /\ UNCHANGED <<deployed, roles, cache>>

\* jwt.decode with that key, and the answer.
DecodeToken(w) ==
  /\ At(w, "decode")
  /\ Done(w)
  /\ UNCHANGED <<deployed, roles, cache>>

-----------------------------------------------------------------------------
(* Deployments, crashes and time                                           *)

Provisioning(w) == job[w].pc \in {"state", "verify", "refuse", "elevate"}

\* The operator starts auth with another code, another key pair or both.  Its
\* requests are cut off.
Redeploy(c, k) ==
  /\ <<c, k>> # <<code, key>>
  /\ k # key => retired[k] = None
  /\ code' = c /\ key' = k
  /\ retired' = IF k = key THEN retired ELSE [retired EXCEPT ![key] = 0]
  /\ job' = [w \in Worker |-> IF Provisioning(w) THEN Idle ELSE job[w]]
  /\ UNCHANGED <<roles, cache>>

\* Another service restarts with an empty cache.
Restart ==
  /\ cached # None
  /\ cached' = None /\ age' = 0
  /\ job' = [w \in Worker |-> IF Provisioning(w) THEN job[w] ELSE Idle]
  /\ UNCHANGED <<deployed, roles>>

\* A handler of auth fails before its commit.
Fail(w) ==
  /\ Provisioning(w)
  /\ Done(w)
  /\ UNCHANGED <<deployed, roles, cache>>

\* A failure leaves the window.
Elapse(x) ==
  /\ audit[x] # None
  /\ audit' = [audit EXCEPT ![x] = None]
  /\ UNCHANGED <<deployed, usedBy, admins, cache, job>>

Installing(w) == At(w, "install") \/ At(w, "installAgain")

\* Ages that make no difference any more stop growing.
Tick ==
  /\ \A w \in Worker : Installing(w) => job[w].since < Delay
  /\ job' = [w \in Worker |-> IF Installing(w) THEN [job[w] EXCEPT !.since = @ + 1] ELSE job[w]]
  /\ age' = IF age <= Ttl THEN age + 1 ELSE age
  /\ retired' = [k \in Key |-> IF retired[k] # None /\ retired[k] <= Ttl + Delay
                               THEN retired[k] + 1 ELSE retired[k]]
  /\ UNCHANGED <<code, key, roles, cached>>

-----------------------------------------------------------------------------
Provision(w) ==
  \/ \E u \in User, ip \in Ip, typed \in Code : CheckLimit(w, u, ip, typed)
  \/ LookUpCode(w) \/ VerifyCode(w) \/ Elevate(w) \/ \E x \in Row : Refuse(w, x)

RequireAuth(w) ==
  GetKey(w) \/ AnswerKeys(w) \/ InstallKeys(w) \/ FetchFails(w) \/ DecodeToken(w)

Next ==
  \/ \E w \in Worker : Provision(w) \/ RequireAuth(w) \/ Fail(w)
  \/ \E c \in Code, k \in Key : Redeploy(c, k)
  \/ \E x \in Row : Elapse(x)
  \/ Restart \/ Tick

Spec == Init /\ [][Next]_vars

-----------------------------------------------------------------------------
(* Properties                                                              *)

\* A code makes one user an admin, and nothing else does: however requests with
\* the same code overlap, every admin has used a code of his own.
OneAdminPerCode == \A u \in admins : \E c \in Code : usedBy[c] = u

\* Although the audit log is counted before the code is compared and written
\* after, the wrong codes tried by one user in a window exceed the limit by less
\* than the requests in flight.  Within the limit itself, "Strict rate limiting: max
\* 3 failed attempts per hour" (admin.py:84), they do not stay (README.md).
GuessesBounded ==
  \A u \in User :
    Cardinality({x \in Row : audit[x] # None /\ audit[x].user = u /\ audit[x].reason = "invalid_code"})
      < MaxAttempts + Cardinality(Worker)

\* A service verifies tokens with the current key, or with one that went out of
\* use no longer ago than the cache's lifetime and the longest answer together:
\* a retired key is not trusted, and the tokens of a new key are not refused, for
\* longer than that, unless auth could not be reached.
KeyIsRecent ==
  [][\A w \in Worker :
       job'[w].with # None /\ job[w].with = None /\ ~job'[w].failed =>
         job'[w].with = key \/ retired[job'[w].with] <= Ttl + Delay]_vars
=============================================================================
