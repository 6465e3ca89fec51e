------------------------------ MODULE Sessions ------------------------------
(***************************************************************************)
(* Sessions of the employees, and the task that keeps their TechPortal     *)
(* sessions alive.                                                         *)
(*                                                                         *)
(* A session is a key of Redis with a time to live.  A request reads the   *)
(* key, checks the absolute limit against its own clock and extends the    *)
(* key in a third step; logout deletes it.  Every API process runs a       *)
(* keepalive: it lists the sessions, claims each for a day, asks TechPortal*)
(* with the cookies it has read and stores the answer by a script that     *)
(* runs as one step in Redis.                                              *)
(***************************************************************************)
EXTENDS Naturals, FiniteSetsExt

CONSTANTS Session, Request, Keeper,
          NoSession,  \* what an idle request or keeper is at
          Idle,       \* session_idle_ttl_seconds
          Absolute,   \* session_absolute_ttl_seconds
          Interval,   \* KEEPALIVE_INTERVAL_SECONDS
          Horizon,    \* bound: the clock
          MaxCookies  \* bound: versions of the upstream cookies

ASSUME TtlAssumption ==
  /\ Idle \in Nat \ {0} /\ Absolute \in Nat \ {0} /\ Interval \in Nat \ {0}
  /\ Horizon \in Nat /\ MaxCookies \in Nat
  /\ NoSession \notin Session

VARIABLES
  clock,
  opened,            \* the login has stored the session
  stored,            \* its value in Redis: "none", "good", or one that no longer validates
  expires,           \* when Redis drops the key
  limit,             \* absolute_expires_at
  seen,              \* when a request last extended it
  cookies,           \* version of upstream_cookies, 0 for none
  claimed,           \* until when techportal-keepalive:<id> is set
  rPc, rAt, rTtl,    \* requests: step, session, seconds to extend it by
  kPc, kTodo, kRead, \* keepers: step, sessions still to visit, cookies read with them
  kAt, kGot          \* the session a keeper is at, the cookies TechPortal returned

sessionVars == <<opened, stored, expires, limit, seen, cookies>>
requestVars == <<rPc, rAt, rTtl>>
keeperVars  == <<kPc, kTodo, kRead, kAt, kGot>>
sessVars    == <<clock, sessionVars, claimed, requestVars, keeperVars>>

SessionsInit ==
  /\ clock = 0
  /\ opened = [s \in Session |-> FALSE]
  /\ stored = [s \in Session |-> "none"]
  /\ expires = [s \in Session |-> 0]
  /\ limit = [s \in Session |-> 0]
  /\ seen = [s \in Session |-> 0]
  /\ cookies = [s \in Session |-> 0]
  /\ claimed = [s \in Session |-> 0]
  /\ rPc = [r \in Request |-> "idle"]
  /\ rAt = [r \in Request |-> NoSession]
  /\ rTtl = [r \in Request |-> 0]
  /\ kPc = [k \in Keeper |-> "idle"]
  /\ kTodo = [k \in Keeper |-> {}]
  /\ kRead = [k \in Keeper |-> [s \in Session |-> 0]]
  /\ kAt = [k \in Keeper |-> NoSession]
  /\ kGot = [k \in Keeper |-> 0]

Least(a, b) == Min({a, b})

-----------------------------------------------------------------------------
\* Time passes and Redis drops the keys that are due.
Tick ==
  /\ clock < Horizon
  /\ clock' = clock + 1
  /\ stored' = [s \in Session |-> IF expires[s] <= clock' THEN "none" ELSE stored[s]]
  /\ UNCHANGED <<opened, expires, limit, seen, cookies, claimed, requestVars, keeperVars>>

\* login, create: a fresh id, whatever cookies TechPortal gave.
Create(s) ==
  /\ ~opened[s]
  /\ opened' = [opened EXCEPT ![s] = TRUE]
  /\ stored' = [stored EXCEPT ![s] = "good"]
  /\ limit' = [limit EXCEPT ![s] = clock + Absolute]
  /\ expires' = [expires EXCEPT ![s] = clock + Least(Absolute, Idle)]
  /\ seen' = [seen EXCEPT ![s] = clock]
  /\ \E c \in 0..Least(1, MaxCookies) : cookies' = [cookies EXCEPT ![s] = c]
  /\ UNCHANGED <<clock, claimed, requestVars, keeperVars>>

\* A new version of the program reads stored sessions by another schema.
Redeploy(s) ==
  /\ stored[s] = "good"
  /\ stored' = [stored EXCEPT ![s] = "bad"]
  /\ UNCHANGED <<clock, opened, expires, limit, seen, cookies, claimed, requestVars, keeperVars>>

Drop(s) == stored' = [stored EXCEPT ![s] = "none"]

-----------------------------------------------------------------------------
\* A request ends: served, refused (SESSION_EXPIRED) or failed (no Redis).
RequestEnds(r) ==
  /\ rPc' = [rPc EXCEPT ![r] = "idle"]
  /\ rAt' = [rAt EXCEPT ![r] = NoSession]
  /\ rTtl' = [rTtl EXCEPT ![r] = 0]

\* get reads the key; a missing one is an expired session, an unreadable one
\* is deleted.
Get(r, s) ==
  /\ rPc[r] = "idle"
  /\ opened[s] /\ stored[s] # "none"
  /\ rPc' = [rPc EXCEPT ![r] = IF stored[s] = "good" THEN "read" ELSE "deleting"]
  /\ rAt' = [rAt EXCEPT ![r] = s]
  /\ UNCHANGED <<clock, sessionVars, claimed, rTtl, keeperVars>>

\* The absolute limit, by the clock of the process.
CheckLimit(r) ==
  /\ rPc[r] = "read"
  /\ IF limit[rAt[r]] <= clock
     THEN rPc' = [rPc EXCEPT ![r] = "deleting"] /\ UNCHANGED rTtl
     ELSE /\ rPc' = [rPc EXCEPT ![r] = "extending"]
          /\ rTtl' = [rTtl EXCEPT ![r] = Least(limit[rAt[r]] - clock, Idle)]
  /\ UNCHANGED <<clock, sessionVars, claimed, rAt, keeperVars>>

\* EXPIRE: nothing happens to a key that is gone, and the request is served.
Extend(r) ==
  /\ rPc[r] = "extending"
  /\ LET s == rAt[r] IN
     IF stored[s] = "none" THEN UNCHANGED <<expires, seen>>
     ELSE /\ expires' = [expires EXCEPT ![s] = clock + rTtl[r]]
          /\ seen' = [seen EXCEPT ![s] = clock]
  /\ rPc' = [rPc EXCEPT ![r] = "serving"]
  /\ UNCHANGED <<clock, opened, stored, limit, cookies, claimed, rAt, rTtl, keeperVars>>

\* delete of a session that may not be used any more.
Discard(r) ==
  /\ rPc[r] = "deleting"
  /\ Drop(rAt[r])
  /\ RequestEnds(r)
  /\ UNCHANGED <<clock, opened, expires, limit, seen, cookies, claimed, keeperVars>>

\* logout, past require_csrf.
Logout(r) ==
  /\ rPc[r] = "serving"
  /\ Drop(rAt[r])
  /\ RequestEnds(r)
  /\ UNCHANGED <<clock, opened, expires, limit, seen, cookies, claimed, keeperVars>>

\* Any other request is answered; Redis may fail it at each step.
Answer(r) ==
  /\ rPc[r] # "idle"
  /\ RequestEnds(r)
  /\ UNCHANGED <<clock, sessionVars, claimed, keeperVars>>

-----------------------------------------------------------------------------
\* active_sessions: sessions of past limits and unreadable ones are deleted.
Scan(k) ==
  /\ kPc[k] = "idle"
  /\ \E s \in Session : stored[s] # "none"
  /\ LET dead == {s \in Session : stored[s] = "bad" \/ limit[s] <= clock} IN
     /\ stored' = [s \in Session |-> IF s \in dead THEN "none" ELSE stored[s]]
     /\ kTodo' = [kTodo EXCEPT ![k] = {s \in Session \ dead : stored[s] = "good"}]
  /\ kRead' = [kRead EXCEPT ![k] = cookies]
  /\ kPc' = [kPc EXCEPT ![k] = "visiting"]
  /\ UNCHANGED <<clock, opened, expires, limit, seen, cookies, claimed, requestVars, kAt, kGot>>

\* The next session: without cookies, without a claim or gone in the meantime it
\* is passed over.
Visit(k, s) ==
  /\ kPc[k] = "visiting" /\ s \in kTodo[k]
  /\ kTodo' = [kTodo EXCEPT ![k] = @ \ {s}]
  /\ IF kRead[k][s] > 0 /\ stored[s] # "none" /\ claimed[s] <= clock
     THEN /\ claimed' = [claimed EXCEPT ![s] = clock + Interval]
          /\ kPc' = [kPc EXCEPT ![k] = "calling"]
          /\ kAt' = [kAt EXCEPT ![k] = s]
     ELSE UNCHANGED <<claimed, kPc, kAt>>
  /\ UNCHANGED <<clock, sessionVars, requestVars, kRead, kGot>>

ScanEnds(k) ==
  /\ kPc[k] = "visiting" /\ kTodo[k] = {}
  /\ kPc' = [kPc EXCEPT ![k] = "idle"]
  /\ UNCHANGED <<clock, sessionVars, claimed, requestVars, kTodo, kRead, kAt, kGot>>

\* client.keepalive: TechPortal answers with the cookies to keep, or not at all.
\* After a failure the claim stays and the session is left alone for a day.
Touch(k) ==
  /\ kPc[k] = "calling"
  /\ \/ /\ kRead[k][kAt[k]] < MaxCookies
        /\ kGot' = [kGot EXCEPT ![k] = kRead[k][kAt[k]] + 1]
        /\ kPc' = [kPc EXCEPT ![k] = "storing"]
        /\ UNCHANGED kAt
     \/ /\ kPc' = [kPc EXCEPT ![k] = "visiting"]
        /\ kAt' = [kAt EXCEPT ![k] = NoSession]
        /\ UNCHANGED kGot
  /\ UNCHANGED <<clock, sessionVars, claimed, requestVars, kTodo, kRead>>

KeeperLeaves(k) ==
  /\ kPc' = [kPc EXCEPT ![k] = "visiting"]
  /\ kAt' = [kAt EXCEPT ![k] = NoSession]
  /\ kGot' = [kGot EXCEPT ![k] = 0]

\* Mutant of StoreCookies: what was read is written back, whatever happened since.
StoreCookiesAlways(k) ==
  /\ kPc[k] = "storing"
  /\ stored' = [stored EXCEPT ![kAt[k]] = "good"]
  /\ cookies' = [cookies EXCEPT ![kAt[k]] = kGot[k]]
  /\ KeeperLeaves(k)
  /\ UNCHANGED <<clock, opened, expires, limit, seen, claimed, requestVars, kTodo, kRead>>

\* Mutant of StoreCookies: the session is written with the idle time to live.
StoreCookiesExtends(k) ==
  /\ kPc[k] = "storing"
  /\ IF stored[kAt[k]] = "none" THEN UNCHANGED <<cookies, expires>>
     ELSE /\ cookies' = [cookies EXCEPT ![kAt[k]] = kGot[k]]
          /\ expires' = [expires EXCEPT ![kAt[k]] = clock + Idle]
  /\ KeeperLeaves(k)
  /\ UNCHANGED <<clock, opened, stored, limit, seen, claimed, requestVars, kTodo, kRead>>

\* update_upstream_cookies_if_active: only what still is there, for as long as it
\* was to live.
StoreCookies(k) ==
  /\ kPc[k] = "storing"
  /\ IF stored[kAt[k]] = "none" THEN UNCHANGED cookies
     ELSE cookies' = [cookies EXCEPT ![kAt[k]] = kGot[k]]
  /\ KeeperLeaves(k)
  /\ UNCHANGED <<clock, opened, stored, expires, limit, seen, claimed, requestVars, kTodo, kRead>>

\* Redis fails (the rest of the scan is given up) or the process is restarted.
KeeperFails(k) ==
  /\ kPc[k] # "idle"
  /\ kPc' = [kPc EXCEPT ![k] = "idle"]
  /\ kTodo' = [kTodo EXCEPT ![k] = {}]
  /\ kAt' = [kAt EXCEPT ![k] = NoSession]
  /\ kGot' = [kGot EXCEPT ![k] = 0]
  /\ UNCHANGED <<clock, sessionVars, claimed, requestVars, kRead>>

-----------------------------------------------------------------------------
SessionsNext ==
  \/ Tick
  \/ \E s \in Session : Create(s) \/ Redeploy(s)
  \/ \E r \in Request :
       \/ \E s \in Session : Get(r, s)
       \/ CheckLimit(r) \/ Extend(r) \/ Discard(r) \/ Logout(r) \/ Answer(r)
  \/ \E k \in Keeper :
       \/ Scan(k) \/ (\E s \in Session : Visit(k, s)) \/ ScanEnds(k)
       \/ Touch(k) \/ StoreCookies(k) \/ KeeperFails(k)

SessionsSpec == SessionsInit /\ [][SessionsNext]_sessVars

-----------------------------------------------------------------------------
\* Every variable holds a value of its kind.
SessionsTypeOK ==
  /\ clock \in 0..Horizon
  /\ opened \in [Session -> BOOLEAN]
  /\ stored \in [Session -> {"none", "good", "bad"}]
  /\ expires \in [Session -> Nat] /\ limit \in [Session -> Nat] /\ seen \in [Session -> Nat]
  /\ cookies \in [Session -> Nat] /\ claimed \in [Session -> Nat]
  /\ rPc \in [Request -> {"idle", "read", "extending", "serving", "deleting"}]
  /\ rAt \in [Request -> Session \cup {NoSession}]
  /\ rTtl \in [Request -> Nat]
  /\ kPc \in [Keeper -> {"idle", "visiting", "calling", "storing"}]
  /\ kTodo \in [Keeper -> SUBSET Session]
  /\ kRead \in [Keeper -> [Session -> Nat]]
  /\ kAt \in [Keeper -> Session \cup {NoSession}]
  /\ kGot \in [Keeper -> Nat]

\* architecture-decisions: "After the session expired or was revoked the
\* keepalive stops".  A session that ended, by logout, by its limits or because it
\* could not be read, never comes back: not by the request that has read it
\* before, not by cookies that arrive after the logout.
EndedStaysEnded ==
  [][\A s \in Session : opened[s] /\ stored[s] = "none" => stored'[s] = "none"]_sessVars

\* "Each request extends the idle timeout, the background request does not": a
\* session that nobody used for the idle time is gone, and the delay between a
\* request's check and its EXPIRE is all by which it may outlive that.
IdleSessionsEnd ==
  \A s \in Session : stored[s] # "none" => clock < seen[s] + Idle
=============================================================================
