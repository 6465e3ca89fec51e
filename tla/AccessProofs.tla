----------------------------- MODULE AccessProofs -----------------------------
(***************************************************************************)
(* Safety of the three services that decide who is let in: the sessions of *)
(* the employees, the links of their messenger accounts, and the access to *)
(* the bot; for any number of users, accounts, sessions, requests and      *)
(* updates.                                                                *)
(***************************************************************************)
EXTENDS Sessions, MessengerLinks, TelegramAccess, TLAPS

-----------------------------------------------------------------------------
(* Sessions: IdleSessionsEnd and EndedStaysEnded.                           *)

\* Who works on a session knows which; a request that extends it does so by no more
\* than the idle time.
WorkIsKnown ==
  /\ \A r \in Request : rPc[r] # "idle" => rAt[r] \in Session
  /\ \A r \in Request : rPc[r] = "extending" => rTtl[r] \in 1..Idle
  /\ \A k \in Keeper : kPc[k] \in {"calling", "storing"} => kAt[k] \in Session

\* Redis drops a key in time, and was never told to keep it longer than the idle time
\* after a request.
KeysAreDue ==
  \A s \in Session : stored[s] # "none" => clock < expires[s] /\ expires[s] <= seen[s] + Idle

\* IdleSessionsEnd says nothing of what a request between its check and EXPIRE will do.
SInv == SessionsTypeOK /\ WorkIsKnown /\ KeysAreDue

\* Least is the smaller one.
LEMMA LeastFacts ==
  ASSUME NEW a \in Nat, NEW b \in Nat
  PROVE  Least(a, b) \in {a, b} /\ Least(a, b) <= a /\ Least(a, b) <= b
<1>1. \E m \in {a, b} : \A n \in {a, b} : m <= n
  <2>1. CASE a <= b
    BY <2>1
  <2>2. CASE b <= a
    BY <2>2
  <2> QED BY <2>1, <2>2
<1>2. Least(a, b) = CHOOSE m \in {a, b} : \A n \in {a, b} : m <= n
  BY DEF Least, Min
<1> QED BY <1>1, <1>2

LEMMA InitSInv == SessionsInit => SInv
  BY TtlAssumption DEF SessionsInit, SInv, SessionsTypeOK, WorkIsKnown, KeysAreDue

\* Logins, time and new versions of the program.
LEMMA StoreSteps ==
  ASSUME SInv, Tick \/ \E s \in Session : Create(s) \/ Redeploy(s)
  PROVE  SInv'
<1> USE TtlAssumption DEF SInv
<1>1. UNCHANGED <<claimed, requestVars, keeperVars>>
  BY DEF Tick, Create, Redeploy
<1>2. WorkIsKnown'
  BY <1>1 DEF WorkIsKnown, requestVars, keeperVars
<1>3. CASE Tick
  <2>1. SessionsTypeOK'
    BY <1>1, <1>3 DEF Tick, SessionsTypeOK, requestVars, keeperVars
  <2>2. KeysAreDue'
    BY <1>3 DEF Tick, KeysAreDue, SessionsTypeOK
  <2> QED BY <1>2, <2>1, <2>2
<1>4. ASSUME NEW s \in Session, Create(s) PROVE SInv'
  <2>1. Least(Absolute, Idle) \in {Absolute, Idle} /\ Least(Absolute, Idle) <= Idle
    BY LeastFacts
  <2>2. clock \in Nat /\ clock + Least(Absolute, Idle) \in Nat /\ clock < clock + Least(Absolute, Idle)
    BY <2>1 DEF SessionsTypeOK
  <2>3. Least(1, MaxCookies) \in Nat
    BY LeastFacts
  <2>4. SessionsTypeOK'
    <3>1. cookies' \in [Session -> Nat]
      BY <1>4, <2>3 DEF Create, SessionsTypeOK
    <3>2. limit' \in [Session -> Nat] /\ expires' \in [Session -> Nat] /\ seen' \in [Session -> Nat]
      BY <1>4, <2>2 DEF Create, SessionsTypeOK
    <3>3. opened' \in [Session -> BOOLEAN] /\ stored' \in [Session -> {"none", "good", "bad"}]
      BY <1>4 DEF Create, SessionsTypeOK
    <3> QED BY <1>1, <1>4, <3>1, <3>2, <3>3 DEF Create, SessionsTypeOK, requestVars, keeperVars
  <2>5. KeysAreDue'
    BY <1>4, <2>1, <2>2 DEF Create, KeysAreDue, SessionsTypeOK
  <2> QED BY <1>2, <2>4, <2>5
<1>5. ASSUME NEW s \in Session, Redeploy(s) PROVE SInv'
  <2>1. SessionsTypeOK'
    BY <1>1, <1>5 DEF Redeploy, SessionsTypeOK, requestVars, keeperVars
  <2>2. KeysAreDue'
    BY <1>5 DEF Redeploy, KeysAreDue, SessionsTypeOK
  <2> QED BY <1>2, <2>1, <2>2
<1> QED BY <1>3, <1>4, <1>5

\* A request that ends is at no session.
LEMMA RequestEndsFacts ==
  ASSUME SessionsTypeOK, NEW r \in Request, RequestEnds(r)
  PROVE  /\ rPc' \in [Request -> {"idle", "read", "extending", "serving", "deleting"}]
         /\ rAt' \in [Request -> Session \cup {NoSession}] /\ rTtl' \in [Request -> Nat]
         /\ rPc'[r] = "idle"
         /\ \A q \in Request \ {r} : rPc'[q] = rPc[q] /\ rAt'[q] = rAt[q] /\ rTtl'[q] = rTtl[q]
<1>1. 0 \in Nat
  OBVIOUS
<1> QED BY <1>1 DEF RequestEnds, SessionsTypeOK

\* Requests read, extend and delete; only the extension moves a due time.
LEMMA RequestSteps ==
  ASSUME SInv, NEW r \in Request,
         \/ \E s \in Session : Get(r, s)
         \/ CheckLimit(r) \/ Extend(r) \/ Discard(r) \/ Logout(r) \/ Answer(r)
  PROVE  SInv'
<1> USE TtlAssumption DEF SInv
<1>1. UNCHANGED <<clock, opened, limit, cookies, claimed, keeperVars>>
  BY DEF Get, CheckLimit, Extend, Discard, Logout, Answer, sessionVars
<1>2. ASSUME NEW s \in Session, Get(r, s) PROVE SInv'
  <2>1. SessionsTypeOK'
    BY <1>1, <1>2 DEF Get, SessionsTypeOK, sessionVars, keeperVars
  <2>2. WorkIsKnown'
    BY <1>1, <1>2 DEF Get, WorkIsKnown, SessionsTypeOK, keeperVars
  <2>3. KeysAreDue'
    BY <1>2 DEF Get, KeysAreDue, sessionVars
  <2> QED BY <2>1, <2>2, <2>3
<1>3. CASE CheckLimit(r)
  <2>1. rAt[r] \in Session /\ limit[rAt[r]] \in Nat /\ clock \in Nat
    BY <1>3 DEF CheckLimit, WorkIsKnown, SessionsTypeOK
  <2>2. limit[rAt[r]] > clock => Least(limit[rAt[r]] - clock, Idle) \in 1..Idle
    <3> SUFFICES ASSUME limit[rAt[r]] > clock
                 PROVE  Least(limit[rAt[r]] - clock, Idle) \in 1..Idle
      OBVIOUS
    <3>1. limit[rAt[r]] - clock \in Nat \ {0}
      BY <2>1
    <3> QED BY <3>1, LeastFacts
  <2>3. /\ rPc' \in [Request -> {"idle", "read", "extending", "serving", "deleting"}]
        /\ rTtl' \in [Request -> Nat]
        /\ rPc'[r] = "extending" => rTtl'[r] \in 1..Idle
        /\ \A q \in Request \ {r} : rPc'[q] = rPc[q] /\ rTtl'[q] = rTtl[q]
    BY SMTT(30), <1>3, <2>1, <2>2 DEF CheckLimit, SessionsTypeOK
  <2>4. SessionsTypeOK'
    BY <1>1, <1>3, <2>3 DEF CheckLimit, SessionsTypeOK, sessionVars, keeperVars
  <2>5. WorkIsKnown'
    BY <1>1, <1>3, <2>1, <2>3 DEF CheckLimit, WorkIsKnown, keeperVars
  <2>6. KeysAreDue'
    BY <1>3 DEF CheckLimit, KeysAreDue, sessionVars
  <2> QED BY <2>4, <2>5, <2>6
<1>4. CASE Extend(r)
  <2>1. rAt[r] \in Session /\ rTtl[r] \in 1..Idle /\ rTtl[r] \in Nat /\ clock \in Nat
    BY <1>4 DEF Extend, WorkIsKnown, SessionsTypeOK
  <2>2. SessionsTypeOK'
    <3>1. expires' \in [Session -> Nat] /\ seen' \in [Session -> Nat]
      <4>1. clock + rTtl[r] \in Nat
        BY <2>1
      <4>2. CASE stored[rAt[r]] = "none"
        BY <1>4, <4>2 DEF Extend, SessionsTypeOK
      <4>3. CASE stored[rAt[r]] # "none"
        <5>1. /\ expires' = [expires EXCEPT ![rAt[r]] = clock + rTtl[r]]
              /\ seen' = [seen EXCEPT ![rAt[r]] = clock]
          BY <1>4, <4>3 DEF Extend
        <5>2. expires' \in [Session -> Nat]
          BY <4>1, <5>1 DEF SessionsTypeOK
        <5>3. seen' \in [Session -> Nat]
          BY <2>1, <5>1 DEF SessionsTypeOK
        <5> QED BY <5>2, <5>3
      <4> QED BY <4>2, <4>3
    <3>2. rPc' \in [Request -> {"idle", "read", "extending", "serving", "deleting"}]
      BY <1>4 DEF Extend, SessionsTypeOK
    <3> QED BY <1>1, <1>4, <3>1, <3>2 DEF Extend, SessionsTypeOK, keeperVars
  <2>3. WorkIsKnown'
    BY <1>1, <1>4 DEF Extend, WorkIsKnown, SessionsTypeOK, keeperVars
  <2>4. KeysAreDue'
    BY <1>4, <2>1 DEF Extend, KeysAreDue, SessionsTypeOK
  <2> QED BY <2>2, <2>3, <2>4
<1>5. CASE Discard(r) \/ Logout(r) \/ Answer(r)
  <2>1. RequestEnds(r) /\ UNCHANGED <<expires, seen>>
    BY <1>5 DEF Discard, Logout, Answer, sessionVars
  <2>2. /\ stored' \in [Session -> {"none", "good", "bad"}]
        /\ \A s \in Session : stored'[s] # "none" => stored[s] # "none"
    BY <1>5 DEF Discard, Logout, Answer, Drop, sessionVars, SessionsTypeOK
  <2>3. SessionsTypeOK'
    BY <1>1, <2>1, <2>2, RequestEndsFacts DEF SessionsTypeOK, keeperVars
  <2>4. WorkIsKnown'
    BY <1>1, <2>1, RequestEndsFacts DEF WorkIsKnown, keeperVars
  <2>5. KeysAreDue'
    BY <1>1, <2>1, <2>2 DEF KeysAreDue
  <2> QED BY <2>3, <2>4, <2>5
<1> QED BY <1>2, <1>3, <1>4, <1>5

\* Keepers delete what is over, claim what they visit and write cookies; no due time moves.
LEMMA KeeperSteps ==
  ASSUME SInv, NEW k \in Keeper,
         \/ Scan(k) \/ (\E s \in Session : Visit(k, s)) \/ ScanEnds(k)
         \/ Touch(k) \/ StoreCookies(k) \/ KeeperFails(k)
  PROVE  SInv'
<1> USE TtlAssumption DEF SInv
<1>1. UNCHANGED <<clock, opened, expires, limit, seen, requestVars>>
  BY DEF Scan, Visit, ScanEnds, Touch, StoreCookies, KeeperFails, sessionVars
<1>2. /\ stored' \in [Session -> {"none", "good", "bad"}]
      /\ \A s \in Session : stored'[s] # "none" => stored[s] # "none"
  BY DEF Scan, Visit, ScanEnds, Touch, StoreCookies, KeeperFails, sessionVars, SessionsTypeOK
<1>3. KeysAreDue'
  BY <1>1, <1>2 DEF KeysAreDue
<1> DEFINE Types ==
             /\ claimed' \in [Session -> Nat] /\ cookies' \in [Session -> Nat]
             /\ kTodo' \in [Keeper -> SUBSET Session] /\ kRead' \in [Keeper -> [Session -> Nat]]
             /\ kPc' \in [Keeper -> {"idle", "visiting", "calling", "storing"}]
             /\ kAt' \in [Keeper -> Session \cup {NoSession}] /\ kGot' \in [Keeper -> Nat]
             /\ \A q \in Keeper : kPc'[q] \in {"calling", "storing"} => kAt'[q] \in Session
<1>4. ASSUME Scan(k) PROVE Types
  <2>1. kTodo' \in [Keeper -> SUBSET Session] /\ kRead' \in [Keeper -> [Session -> Nat]]
    BY <1>4 DEF Scan, SessionsTypeOK
  <2> QED BY <1>4, <2>1 DEF Scan, SessionsTypeOK, WorkIsKnown
<1>5. ASSUME NEW s \in Session, Visit(k, s) PROVE Types
  <2>1. clock + Interval \in Nat
    BY DEF SessionsTypeOK
  <2>2. kTodo' \in [Keeper -> SUBSET Session]
    BY <1>5 DEF Visit, SessionsTypeOK
  <2>3. /\ claimed' \in [Session -> Nat]
        /\ kPc' \in [Keeper -> {"idle", "visiting", "calling", "storing"}]
        /\ kAt' \in [Keeper -> Session \cup {NoSession}]
    <3>1. CASE UNCHANGED <<claimed, kPc, kAt>>
      BY <3>1 DEF SessionsTypeOK
    <3>2. CASE /\ claimed' = [claimed EXCEPT ![s] = clock + Interval]
               /\ kPc' = [kPc EXCEPT ![k] = "calling"] /\ kAt' = [kAt EXCEPT ![k] = s]
      BY <2>1, <3>2 DEF SessionsTypeOK
    <3> QED BY <1>5, <3>1, <3>2 DEF Visit
  <2>4. \A q \in Keeper : kPc'[q] \in {"calling", "storing"} => kAt'[q] \in Session
    BY SMTT(30), <1>5 DEF Visit, SessionsTypeOK, WorkIsKnown
  <2> QED BY <1>5, <2>2, <2>3, <2>4 DEF Visit, SessionsTypeOK, sessionVars
<1>6. ASSUME ScanEnds(k) PROVE Types
  BY <1>6 DEF ScanEnds, SessionsTypeOK, WorkIsKnown, sessionVars
<1>7. ASSUME Touch(k) PROVE Types
  <2>1. kAt[k] \in Session /\ kRead[k][kAt[k]] + 1 \in Nat
    BY <1>7 DEF Touch, WorkIsKnown, SessionsTypeOK
  <2>2. kGot' \in [Keeper -> Nat]
    BY <1>7, <2>1 DEF Touch, SessionsTypeOK
  <2>3. kPc' \in [Keeper -> {"idle", "visiting", "calling", "storing"}]
        /\ kAt' \in [Keeper -> Session \cup {NoSession}]
    BY <1>7 DEF Touch, SessionsTypeOK
  <2>4. \A q \in Keeper : kPc'[q] \in {"calling", "storing"} => kAt'[q] \in Session
    BY <1>7, <2>1 DEF Touch, SessionsTypeOK, WorkIsKnown
  <2> QED BY <1>7, <2>2, <2>3, <2>4 DEF Touch, SessionsTypeOK, sessionVars
<1>8. ASSUME StoreCookies(k) PROVE Types
  <2>1. cookies' \in [Session -> Nat]
    BY <1>8 DEF StoreCookies, SessionsTypeOK
  <2>2. KeeperLeaves(k) /\ UNCHANGED <<claimed, kTodo, kRead>>
    BY <1>8 DEF StoreCookies
  <2>3. /\ kPc' \in [Keeper -> {"idle", "visiting", "calling", "storing"}]
        /\ kAt' \in [Keeper -> Session \cup {NoSession}] /\ kGot' \in [Keeper -> Nat]
    BY <2>2 DEF KeeperLeaves, SessionsTypeOK
  <2>4. \A q \in Keeper : kPc'[q] \in {"calling", "storing"} => kAt'[q] \in Session
    BY <2>2 DEF KeeperLeaves, SessionsTypeOK, WorkIsKnown
  <2> QED BY <2>1, <2>2, <2>3, <2>4 DEF SessionsTypeOK
<1>9. ASSUME KeeperFails(k) PROVE Types
  <2>1. /\ kTodo' \in [Keeper -> SUBSET Session] /\ kGot' \in [Keeper -> Nat]
        /\ kPc' \in [Keeper -> {"idle", "visiting", "calling", "storing"}]
        /\ kAt' \in [Keeper -> Session \cup {NoSession}]
    BY <1>9 DEF KeeperFails, SessionsTypeOK
  <2>2. \A q \in Keeper : kPc'[q] \in {"calling", "storing"} => kAt'[q] \in Session
    BY <1>9 DEF KeeperFails, SessionsTypeOK, WorkIsKnown
  <2> QED BY <1>9, <2>1, <2>2 DEF KeeperFails, SessionsTypeOK, sessionVars
<1>10. Types
  BY <1>4, <1>5, <1>6, <1>7, <1>8, <1>9
<1>11. SessionsTypeOK' /\ WorkIsKnown'
  BY <1>1, <1>2, <1>10 DEF SessionsTypeOK, WorkIsKnown, requestVars
<1> QED BY <1>3, <1>11

LEMMA StepSInv == SInv /\ [SessionsNext]_sessVars => SInv'
<1> SUFFICES ASSUME SInv, [SessionsNext]_sessVars PROVE SInv'
  OBVIOUS
<1>1. CASE SessionsNext
  BY <1>1, StoreSteps, RequestSteps, KeeperSteps DEF SessionsNext
<1>2. CASE UNCHANGED sessVars
  BY <1>2 DEF SInv, SessionsTypeOK, WorkIsKnown, KeysAreDue, sessVars, sessionVars, requestVars,
     keeperVars
<1> QED BY <1>1, <1>2

\* The invariant holds whatever requests, keepers and the clock do.
THEOREM SessionsInvariance == SessionsSpec => []SInv
  BY InitSInv, StepSInv, PTL DEF SessionsSpec

\* Type correctness of sessions, requests and keepers.
THEOREM SessionsTypeCorrect == SessionsSpec => []SessionsTypeOK
<1>1. SInv => SessionsTypeOK
  BY DEF SInv
<1> QED BY <1>1, SessionsInvariance, PTL

\* A session nobody used for the idle time is gone (get, update_upstream_cookies_if_active).
THEOREM IdleSessionsAreOver == SessionsSpec => []IdleSessionsEnd
<1>1. SInv => IdleSessionsEnd
  BY TtlAssumption DEF SInv, KeysAreDue, IdleSessionsEnd, SessionsTypeOK
<1> QED BY <1>1, SessionsInvariance, PTL

\* A session that ended never comes back (delete, _expire, update_upstream_cookies_if_active).
THEOREM EndedForGood == SessionsSpec => EndedStaysEnded
<1>1. SInv /\ [SessionsNext]_sessVars
        => \A s \in Session : opened[s] /\ stored[s] = "none" => stored'[s] = "none"
  <2> SUFFICES ASSUME SInv, [SessionsNext]_sessVars, NEW s \in Session, opened[s], stored[s] = "none"
               PROVE  stored'[s] = "none"
    OBVIOUS
  <2>1. stored \in [Session -> {"none", "good", "bad"}]
    BY DEF SInv, SessionsTypeOK
  <2>2. CASE Tick \/ \E z \in Session : Create(z) \/ Redeploy(z)
    BY <2>1, <2>2 DEF Tick, Create, Redeploy
  <2>3. CASE \E r \in Request : \/ \E z \in Session : Get(r, z)
                                \/ CheckLimit(r) \/ Extend(r) \/ Discard(r) \/ Logout(r) \/ Answer(r)
    BY <2>1, <2>3 DEF Get, CheckLimit, Extend, Discard, Logout, Answer, Drop, sessionVars
  <2>4. CASE \E k \in Keeper : \/ Scan(k) \/ (\E z \in Session : Visit(k, z)) \/ ScanEnds(k)
                               \/ Touch(k) \/ StoreCookies(k) \/ KeeperFails(k)
    BY <2>1, <2>4 DEF Scan, Visit, ScanEnds, Touch, StoreCookies, KeeperFails, sessionVars
  <2>5. CASE UNCHANGED sessVars
    BY <2>5 DEF sessVars, sessionVars
  <2> QED BY <2>2, <2>3, <2>4, <2>5 DEF SessionsNext
<1> QED BY <1>1, SessionsInvariance, PTL DEF SessionsSpec, EndedStaysEnded

-----------------------------------------------------------------------------
(* The links of the messenger accounts, and the access to the bot.          *)


Live(x) == pc[x] \notin {"new", "done"}

\* Which statements a transaction of each kind has; without one it waits for no row.
StatementsOfKind ==
  \A x \in Txn :
    /\ ~Live(x) => todo[x] = {}
    /\ op[x] = "none" => pc[x] = "new"
    /\ op[x] = "create" => pc[x] \in {"check", "checked", "invalidate", "commit", "done"}
    /\ op[x] = "consume" => pc[x] \in {"token", "byUser", "byAccount", "insert", "commit", "done"}
    /\ op[x] = "revoke" => pc[x] \in {"identity", "invalidate", "commit", "done"}

\* Only live transactions hold rows, a consume no token but its own, and a row that is
\* to be changed is as it was found.
LocksAreHeld ==
  \A x \in Txn, t \in Token :
    /\ tLock[t] = x => /\ Live(x)
                       /\ op[x] = "consume" => t = token[x]
                       /\ op[x] # "consume" => tState[t] = "open"
    /\ iLock[t] = x => Live(x) /\ iState[t] = "active"

\* A consume past its check holds its open token; once it has inserted, nobody else has
\* its employee or its account, now or by another insert.
ConsumesHold ==
  \A x \in Txn : op[x] = "consume" =>
    /\ token[x] \in Token /\ tState[token[x]] # "none" /\ user[x] = tUser[token[x]]
    /\ pc[x] = "token" => todo[x] \subseteq {token[x]}
                          /\ (todo[x] = {} => tLock[token[x]] = x)
    /\ pc[x] \in {"byUser", "byAccount", "insert", "commit"}
         => tLock[token[x]] = x /\ tState[token[x]] = "open"
    /\ pc[x] = "commit" =>
         /\ \A t \in Token : iState[t] = "active" => tUser[t] # user[x] /\ iAccount[t] # account[x]
         /\ \A y \in Txn \ {x} : op[y] = "consume" /\ pc[y] = "commit"
                                   => user[y] # user[x] /\ account[y] # account[x]

\* A token that is being made is nobody else's.
CreatesAreFresh ==
  \A x \in Txn : op[x] = "create" /\ pc[x] # "done" =>
    /\ token[x] \in Token /\ tState[token[x]] = "none"
    /\ \A y \in Txn \ {x} : token[y] # token[x]

Dead(t) == tState[t] \in {"consumed", "invalidated"}

\* A revocation that looks for tokens finds those that were open when it began, unless
\* they are dead, holds them until it commits, and dead they stay.
RevokesReach ==
  /\ \A x \in Txn : op[x] = "revoke" => \A t \in before[x] :
       /\ tState[t] # "none" /\ tUser[t] = user[x]
       /\ pc[x] = "invalidate" => t \in todo[x] \/ tLock[t] = x \/ Dead(t)
       /\ pc[x] = "commit" => tLock[t] = x \/ Dead(t)
  /\ \A t \in doomed : Dead(t)

\* OneLinkEach alone does not say why the next commit keeps it.
LInv ==
  /\ LinksTypeOK /\ OneLinkEach
  /\ StatementsOfKind /\ LocksAreHeld /\ ConsumesHold /\ CreatesAreFresh /\ RevokesReach

LEMMA InitLInv == LinksInit => LInv
<1> SUFFICES ASSUME LinksInit PROVE LInv
  OBVIOUS
<1> USE LinksAssumption DEF LinksInit
<1>1. LinksTypeOK
  BY DEF LinksTypeOK
<1>2. \A x \in Txn : x # 0
  BY DEF Txn
<1>3. StatementsOfKind /\ LocksAreHeld /\ ConsumesHold /\ CreatesAreFresh /\ RevokesReach
  BY <1>2 DEF StatementsOfKind, LocksAreHeld, ConsumesHold, CreatesAreFresh, RevokesReach, Live
<1> QED BY <1>1, <1>3 DEF LInv

-----------------------------------------------------------------------------
\* A transaction begins: it holds nothing yet.
LEMMA BeginCreateStep ==
  ASSUME LInv, NEW x \in Txn, NEW u \in User, NEW t \in Token, BeginCreate(x, u, t)
  PROVE  LInv'
<1> USE LinksAssumption DEF LInv, BeginCreate, Begin, rowVars, lockVars
<1>1. tState[t] = "none" /\ \A y \in Txn : token[y] # t
  BY DEF Token
<1>2. op[x] = "none"
  BY DEF LinksTypeOK, StatementsOfKind
<1>3. LinksTypeOK'
  BY DEF LinksTypeOK, Token
<1>4. OneLinkEach'
  BY DEF OneLinkEach
<1>5. StatementsOfKind'
  BY DEF StatementsOfKind, LinksTypeOK, Live
<1>6. LocksAreHeld'
  BY DEF LocksAreHeld, LinksTypeOK, Live
<1>7. ConsumesHold'
  BY DEF ConsumesHold, LinksTypeOK
<1>8. CreatesAreFresh'
  BY <1>1 DEF CreatesAreFresh, LinksTypeOK
<1>9. RevokesReach'
  BY DEF RevokesReach, Dead, LinksTypeOK
<1> QED BY <1>3, <1>4, <1>5, <1>6, <1>7, <1>8, <1>9

LEMMA BeginConsumeStep ==
  ASSUME LInv, NEW x \in Txn, NEW t \in Token, NEW a \in Account, BeginConsume(x, t, a)
  PROVE  LInv'
<1> USE LinksAssumption DEF LInv, BeginConsume, Begin, rowVars, lockVars
<1>1. op[x] = "none"
  BY DEF LinksTypeOK, StatementsOfKind
<1>2. LinksTypeOK'
  BY SMTT(30) DEF LinksTypeOK, Token
<1>3. OneLinkEach'
  BY DEF OneLinkEach
<1>4. StatementsOfKind'
  BY DEF StatementsOfKind, LinksTypeOK, Live
<1>5. LocksAreHeld'
  BY DEF LocksAreHeld, LinksTypeOK, Live
<1>6. ConsumesHold'
  BY DEF ConsumesHold, LinksTypeOK
<1>7. CreatesAreFresh'
  BY DEF CreatesAreFresh, LinksTypeOK
<1>8. RevokesReach'
  BY DEF RevokesReach, Dead, LinksTypeOK
<1> QED BY <1>2, <1>3, <1>4, <1>5, <1>6, <1>7, <1>8

LEMMA BeginRevokeStep ==
  ASSUME LInv, NEW x \in Txn, NEW u \in User, BeginRevoke(x, u)
  PROVE  LInv'
<1> USE LinksAssumption DEF LInv, BeginRevoke, Begin, rowVars, lockVars
<1>1. op[x] = "none"
  BY DEF LinksTypeOK, StatementsOfKind
<1>2. LinksTypeOK'
  BY DEF LinksTypeOK, OpenTokens, ActiveOf
<1>3. OneLinkEach'
  BY DEF OneLinkEach
<1>4. StatementsOfKind'
  BY DEF StatementsOfKind, LinksTypeOK, Live
<1>5. LocksAreHeld'
  BY DEF LocksAreHeld, LinksTypeOK, Live
<1>6. ConsumesHold'
  BY DEF ConsumesHold, LinksTypeOK
<1>7. CreatesAreFresh'
  <2>1. 0 \notin Token
    BY DEF Token
  <2> QED BY <2>1 DEF CreatesAreFresh, LinksTypeOK
<1>8. RevokesReach'
  BY DEF RevokesReach, Dead, LinksTypeOK, OpenTokens
<1> QED BY <1>2, <1>3, <1>4, <1>5, <1>6, <1>7, <1>8

-----------------------------------------------------------------------------
\* What all steps but Begin and Commit leave alone.
Kept == UNCHANGED <<tState, tUser, iState, iAccount, tExpired, op, user, token, account, onTime,
                    before, doomed>>

\* A row is locked as the statement finds it.
LEMMA LockTokenStep ==
  ASSUME LInv, NEW x \in Txn, NEW t \in Token, LockToken(x, t)
  PROVE  LInv'
<1> USE LinksAssumption DEF LInv
<1>1. /\ UNCHANGED <<tState, tUser, iState, iAccount, tExpired, op, user, token, account, onTime>>
      /\ UNCHANGED <<before, doomed, iLock, pc>>
      /\ pc[x] \in {"token", "invalidate"} /\ t \in todo[x] /\ tLock[t] = 0
      /\ todo' = [todo EXCEPT ![x] = @ \ {t}]
  BY DEF LockToken, rowVars, histVars
<1>2. \/ /\ pc[x] = "token" \/ tState[t] = "open"
         /\ tLock' = [tLock EXCEPT ![t] = x] /\ hits' = [hits EXCEPT ![x] = TRUE]
      \/ /\ pc[x] # "token" /\ tState[t] # "open"
         /\ tLock' = tLock /\ hits' = hits
  BY DEF LockToken
<1>3. x # 0 /\ x \in 0..MaxTxns
  BY DEF Txn
<1>4. LinksTypeOK'
  <2>1. tLock' \in [Token -> 0..MaxTxns] /\ hits' \in [Txn -> BOOLEAN]
    BY ZenonT(40), <1>2, <1>3 DEF LinksTypeOK
  <2>2. todo' \in [Txn -> SUBSET Token]
    BY <1>1 DEF LinksTypeOK
  <2> QED BY <1>1, <2>1, <2>2 DEF LinksTypeOK
<1>5. OneLinkEach' /\ CreatesAreFresh'
  BY <1>1 DEF OneLinkEach, CreatesAreFresh
<1>9. StatementsOfKind'
  BY <1>1 DEF StatementsOfKind, Live, LinksTypeOK
<1>6. LocksAreHeld'
  <2>1. pc[x] = "token" => op[x] = "consume" /\ t = token[x]
    BY <1>1 DEF StatementsOfKind, ConsumesHold, LinksTypeOK
  <2>2. pc[x] = "invalidate" => op[x] # "consume"
    BY DEF StatementsOfKind
  <2> QED BY <1>1, <1>2, <2>1, <2>2 DEF LocksAreHeld, LinksTypeOK, Live
<1>7. ConsumesHold'
  <2>1. \A y \in Txn, s \in Token : tLock[s] = y => tLock'[s] = y
    BY <1>1, <1>2, <1>3 DEF LinksTypeOK, Txn
  <2>2. \A y \in Txn \ {x} : todo'[y] = todo[y]
    BY <1>1 DEF LinksTypeOK
  <2>3. pc[x] = "token" /\ op[x] = "consume"
          => todo'[x] \subseteq {token[x]} /\ tLock'[token[x]] = x
    BY <1>1, <1>2 DEF ConsumesHold, LinksTypeOK
  <2> QED BY <1>1, <2>1, <2>2, <2>3 DEF ConsumesHold
<1>8. RevokesReach'
  <2>1. \A y \in Txn, s \in Token : tLock[s] = y => tLock'[s] = y
    BY <1>1, <1>2, <1>3 DEF LinksTypeOK, Txn
  <2>2. \A y \in Txn, s \in Token : s \in todo[y] => s \in todo'[y] \/ (y = x /\ s = t)
    BY <1>1 DEF LinksTypeOK
  <2>3. op[x] = "revoke" /\ t \in before[x] => tLock'[t] = x \/ Dead(t)
    BY <1>1, <1>2 DEF RevokesReach, LinksTypeOK, StatementsOfKind, Dead
  <2>4. \A y \in Txn : before[y] \subseteq Token
    BY DEF LinksTypeOK
  <2> QED BY <1>1, <2>1, <2>2, <2>3, <2>4 DEF RevokesReach, Dead
<1> QED BY <1>4, <1>5, <1>6, <1>7, <1>8, <1>9

LEMMA LockIdentityStep ==
  ASSUME LInv, NEW x \in Txn, NEW t \in Token, LockIdentity(x, t)
  PROVE  LInv'
<1> USE LinksAssumption DEF LInv
<1>1. /\ UNCHANGED <<tState, tUser, iState, iAccount, tExpired, op, user, token, account, onTime>>
      /\ UNCHANGED <<before, doomed, tLock, pc>>
      /\ pc[x] \in {"identity", "byUser", "byAccount"}
      /\ todo' = [todo EXCEPT ![x] = @ \ {t}]
  BY DEF LockIdentity, rowVars, histVars
<1>2. \/ /\ iState[t] = "active"
         /\ iLock' = [iLock EXCEPT ![t] = x] /\ hits' = [hits EXCEPT ![x] = TRUE]
      \/ iLock' = iLock /\ hits' = hits
  BY DEF LockIdentity
<1>3. x \in 0..MaxTxns
  BY DEF Txn
<1>4. LinksTypeOK'
  <2>1. iLock' \in [Token -> 0..MaxTxns] /\ hits' \in [Txn -> BOOLEAN]
    BY ZenonT(40), <1>2, <1>3 DEF LinksTypeOK
  <2>2. todo' \in [Txn -> SUBSET Token]
    BY <1>1 DEF LinksTypeOK
  <2> QED BY <1>1, <2>1, <2>2 DEF LinksTypeOK
<1>5. OneLinkEach' /\ CreatesAreFresh'
  BY <1>1 DEF OneLinkEach, CreatesAreFresh
<1>9. StatementsOfKind'
  BY <1>1 DEF StatementsOfKind, Live, LinksTypeOK
<1>6. LocksAreHeld'
  BY <1>1, <1>2 DEF LocksAreHeld, LinksTypeOK, Live
<1>7. \A y \in Txn : pc[y] \in {"token", "invalidate"} => todo'[y] = todo[y]
  BY <1>1 DEF LinksTypeOK
<1>8. ConsumesHold' /\ RevokesReach'
  BY <1>1, <1>7 DEF ConsumesHold, RevokesReach, Dead
<1> QED BY <1>4, <1>5, <1>6, <1>8, <1>9

-----------------------------------------------------------------------------
\* A transaction that is rolled back holds nothing and changes nothing.
LEMMA RollbackStep ==
  ASSUME LInv, NEW x \in Txn, Live(x), Rollback(x), Kept
  PROVE  LInv'
<1> USE LinksAssumption DEF LInv, Kept
<1>1. /\ UNCHANGED <<tState, tUser, iState, iAccount, tExpired, op, user, token, account, onTime>>
      /\ UNCHANGED <<before, doomed>>
  OBVIOUS
<1>2. /\ pc' = [pc EXCEPT ![x] = "done"] /\ todo' = [todo EXCEPT ![x] = {}]
      /\ hits' = [hits EXCEPT ![x] = FALSE]
      /\ tLock' = [t \in Token |-> IF tLock[t] = x THEN 0 ELSE tLock[t]]
      /\ iLock' = [t \in Token |-> IF iLock[t] = x THEN 0 ELSE iLock[t]]
  BY DEF Rollback, Statement, Unlock
<1>3. x # 0 /\ op[x] # "none"
  BY DEF Txn, StatementsOfKind, Live
<1>4. LinksTypeOK'
  BY <1>1, <1>2 DEF LinksTypeOK
<1>5. OneLinkEach'
  BY <1>1 DEF OneLinkEach
<1>6. StatementsOfKind'
  BY <1>1, <1>2, <1>3 DEF StatementsOfKind, Live, LinksTypeOK
<1>7. LocksAreHeld'
  <2>1. \A y \in Txn, t \in Token : /\ tLock'[t] = y => y # x /\ tLock[t] = y
                                    /\ iLock'[t] = y => y # x /\ iLock[t] = y
    BY <1>2, <1>3 DEF Txn
  <2>2. ASSUME NEW y \in Txn, y # x PROVE Live(y) => Live(y)'
    BY <1>2, <2>2 DEF LinksTypeOK, Live
  <2>3. ASSUME NEW y \in Txn, NEW t \in Token, tLock'[t] = y
        PROVE  /\ Live(y)' /\ (op'[y] = "consume" => t = token'[y])
               /\ (op'[y] # "consume" => tState'[t] = "open")
    BY <1>1, <2>1, <2>2, <2>3 DEF LocksAreHeld
  <2>4. ASSUME NEW y \in Txn, NEW t \in Token, iLock'[t] = y
        PROVE  Live(y)' /\ iState'[t] = "active"
    BY <1>1, <2>1, <2>2, <2>4 DEF LocksAreHeld
  <2> QED BY <2>3, <2>4 DEF LocksAreHeld
<1>8. \A y \in Txn \ {x} : /\ pc'[y] = pc[y] /\ todo'[y] = todo[y]
                           /\ \A t \in Token : tLock[t] = y => tLock'[t] = y
  BY <1>2 DEF LinksTypeOK
<1>9. pc'[x] = "done"
  BY <1>2 DEF LinksTypeOK
<1>10. ConsumesHold'
  BY <1>1, <1>8, <1>9 DEF ConsumesHold
<1>11. CreatesAreFresh'
  BY <1>1, <1>8, <1>9 DEF CreatesAreFresh
<1>12. RevokesReach'
  <2>1. \A y \in Txn : before[y] \subseteq Token
    BY DEF LinksTypeOK
  <2> QED BY <1>1, <1>8, <1>9, <2>1 DEF RevokesReach, Dead
<1> QED BY <1>4, <1>5, <1>6, <1>7, <1>10, <1>11, <1>12

\* What a transaction must have to go on to its next statement.
MayGoOn(x, next, rows) ==
  /\ rows \subseteq Token
  /\ \/ op[x] = "create" /\ next \in {"checked", "invalidate", "commit"}
     \/ op[x] = "consume" /\ next \in {"byUser", "byAccount", "insert", "commit"}
     \/ op[x] = "revoke" /\ next \in {"invalidate", "commit"}
  /\ op[x] = "consume" => tLock[token[x]] = x /\ tState[token[x]] = "open"
  /\ op[x] = "consume" /\ next = "commit" =>
       /\ \A t \in Token : iState[t] = "active" => tUser[t] # user[x] /\ iAccount[t] # account[x]
       /\ \A y \in Txn \ {x} : op[y] = "consume" /\ pc[y] = "commit"
                                 => user[y] # user[x] /\ account[y] # account[x]
  /\ op[x] = "revoke" => \A t \in before[x] :
       /\ next = "invalidate" => t \in rows \/ Dead(t)
       /\ next = "commit" => tLock[t] = x \/ Dead(t)

LEMMA GoOnStep ==
  ASSUME LInv, NEW x \in Txn, NEW next, NEW rows, Live(x), MayGoOn(x, next, rows),
         Statement(x, next, rows), UNCHANGED lockVars, Kept
  PROVE  LInv'
<1> USE LinksAssumption DEF LInv, Kept
<1>1. /\ UNCHANGED <<tState, tUser, iState, iAccount, tExpired, op, user, token, account, onTime>>
      /\ UNCHANGED <<before, doomed>> /\ UNCHANGED <<tLock, iLock>>
  BY DEF lockVars
<1>2. /\ pc' = [pc EXCEPT ![x] = next] /\ todo' = [todo EXCEPT ![x] = rows]
      /\ hits' = [hits EXCEPT ![x] = FALSE]
  BY DEF Statement
<1>3. /\ pc'[x] = next /\ todo'[x] = rows
      /\ \A y \in Txn \ {x} : pc'[y] = pc[y] /\ todo'[y] = todo[y]
  BY <1>2 DEF LinksTypeOK
<1>4. LinksTypeOK'
  <2>1. pc' \in [Txn -> {"new", "check", "checked", "token", "byUser", "byAccount", "insert",
                         "identity", "invalidate", "commit", "done"}]
    BY <1>2 DEF LinksTypeOK, MayGoOn
  <2>2. todo' \in [Txn -> SUBSET Token] /\ hits' \in [Txn -> BOOLEAN]
    BY <1>2 DEF LinksTypeOK, MayGoOn
  <2> QED BY <1>1, <2>1, <2>2 DEF LinksTypeOK
<1>5. OneLinkEach'
  BY <1>1 DEF OneLinkEach
<1>6. StatementsOfKind'
  BY <1>1, <1>3 DEF StatementsOfKind, Live, MayGoOn
<1>7. LocksAreHeld'
  BY <1>1, <1>3 DEF LocksAreHeld, Live, MayGoOn
<1>8. ConsumesHold'
  BY <1>1, <1>3 DEF ConsumesHold, MayGoOn
<1>9. CreatesAreFresh'
  BY <1>1, <1>3 DEF CreatesAreFresh, Live
<1>10. RevokesReach'
  BY <1>1, <1>3 DEF RevokesReach, MayGoOn, Dead
<1> QED BY <1>4, <1>5, <1>6, <1>7, <1>8, <1>9, <1>10

\* Every check either refuses or has what the next statement needs.
LEMMA CheckingStep ==
  ASSUME LInv, NEW x \in Txn, Checking(x)
  PROVE  LInv'
<1> USE LinksAssumption DEF LInv
<1>1. Kept /\ Live(x)
  BY DEF Checking, Kept, rowVars, histVars, Live, CheckActive, Invalidate, Invalidated,
         CheckToken, CheckUser, CheckAccount, Insert, CheckRevoked
<1>2. ASSUME NEW refused \in BOOLEAN, NEW next, NEW rows, Go(x, refused, next, rows),
             ~refused => MayGoOn(x, next, rows)
      PROVE  LInv'
  BY <1>1, <1>2, RollbackStep, GoOnStep DEF Go
<1>3. /\ OpenTokens(user[x]) \subseteq Token /\ ActiveOf(user[x]) \subseteq Token
      /\ ActiveAt(account[x]) \subseteq Token
  BY DEF OpenTokens, ActiveOf, ActiveAt
<1>4. CASE CheckActive(x)
  <2>1. op[x] = "create"
    BY <1>4 DEF CheckActive, StatementsOfKind, LinksTypeOK
  <2>2. MayGoOn(x, "checked", {})
    BY <2>1 DEF MayGoOn
  <2>3. Go(x, ActiveOf(user[x]) # {}, "checked", {})
    BY <1>4 DEF CheckActive
  <2> QED BY <1>2, <2>2, <2>3
<1>5. CASE Invalidate(x)
  <2>1. op[x] = "create"
    BY <1>5 DEF Invalidate, StatementsOfKind, LinksTypeOK
  <2>2. MayGoOn(x, "invalidate", OpenTokens(user[x]))
    BY <1>3, <2>1 DEF MayGoOn
  <2>3. Go(x, FALSE, "invalidate", OpenTokens(user[x]))
    BY <1>5 DEF Invalidate
  <2> QED BY <1>2, <2>2, <2>3
<1>6. CASE Invalidated(x)
  <2>1. op[x] \in {"create", "revoke"}
    BY <1>6 DEF Invalidated, StatementsOfKind, LinksTypeOK
  <2>2. op[x] = "revoke" => \A t \in before[x] : tLock[t] = x \/ Dead(t)
    BY <1>6 DEF Invalidated, RevokesReach
  <2>3. MayGoOn(x, "commit", {})
    BY <2>1, <2>2 DEF MayGoOn
  <2> QED BY <1>2, <1>6, <2>3 DEF Invalidated
<1>7. CASE CheckToken(x)
  <2>1. op[x] = "consume" /\ tLock[token[x]] = x
    BY SMTT(30), <1>7 DEF CheckToken, StatementsOfKind, LinksTypeOK, ConsumesHold
  <2>2. tState[token[x]] = "open" /\ onTime[x] => MayGoOn(x, "byUser", ActiveOf(user[x]))
    BY <1>3, <2>1 DEF MayGoOn
  <2>3. Go(x, ~(tState[token[x]] = "open" /\ onTime[x]), "byUser", ActiveOf(user[x]))
    BY <1>7 DEF CheckToken
  <2>4. CASE tState[token[x]] = "open" /\ onTime[x]
    <3>1. Go(x, FALSE, "byUser", ActiveOf(user[x]))
      BY <2>3, <2>4 DEF Go
    <3> QED BY <1>2, <2>2, <2>4, <3>1
  <2>5. CASE ~(tState[token[x]] = "open" /\ onTime[x])
    BY <1>1, <2>3, <2>5, RollbackStep DEF Go
  <2> QED BY <2>4, <2>5
<1>8. CASE CheckUser(x)
  <2>1. op[x] = "consume" /\ tLock[token[x]] = x /\ tState[token[x]] = "open"
    BY <1>8 DEF CheckUser, StatementsOfKind, LinksTypeOK, ConsumesHold
  <2>2. MayGoOn(x, "byAccount", ActiveAt(account[x])) /\ hits[x] \in BOOLEAN
    BY <1>3, <2>1 DEF MayGoOn, LinksTypeOK
  <2>3. Go(x, hits[x], "byAccount", ActiveAt(account[x]))
    BY <1>8 DEF CheckUser
  <2> QED BY <1>2, <2>2, <2>3
<1>9. CASE CheckAccount(x)
  <2>1. op[x] = "consume" /\ tLock[token[x]] = x /\ tState[token[x]] = "open"
    BY <1>9 DEF CheckAccount, StatementsOfKind, LinksTypeOK, ConsumesHold
  <2>2. MayGoOn(x, "insert", {}) /\ hits[x] \in BOOLEAN
    BY <2>1 DEF MayGoOn, LinksTypeOK
  <2>3. Go(x, hits[x], "insert", {})
    BY <1>9 DEF CheckAccount
  <2> QED BY <1>2, <2>2, <2>3
<1>10. CASE Insert(x)
  <2>1. op[x] = "consume" /\ tLock[token[x]] = x /\ tState[token[x]] = "open"
    BY <1>10 DEF Insert, StatementsOfKind, LinksTypeOK, ConsumesHold
  <2>2. ActiveOf(user[x]) \cup ActiveAt(account[x]) = {}
          => \A t \in Token : iState[t] = "active"
               => tUser[t] # user[x] /\ iAccount[t] # account[x]
    BY DEF ActiveOf, ActiveAt
  <2>3. \A y \in Txn \ {x} : op[y] = "consume" /\ pc[y] = "commit"
          => user[y] # user[x] /\ account[y] # account[x]
    BY <1>10 DEF Insert
  <2>4. ~(ActiveOf(user[x]) \cup ActiveAt(account[x]) # {}) => MayGoOn(x, "commit", {})
    BY <2>1, <2>2, <2>3 DEF MayGoOn
  <2>5. Go(x, ActiveOf(user[x]) \cup ActiveAt(account[x]) # {}, "commit", {})
    BY <1>10 DEF Insert
  <2> QED BY <1>2, <2>4, <2>5
<1>11. CASE CheckRevoked(x)
  <2>1. op[x] = "revoke"
    BY <1>11 DEF CheckRevoked, StatementsOfKind, LinksTypeOK
  <2>2. \A t \in before[x] : t \in OpenTokens(user[x]) \/ Dead(t)
    BY <2>1 DEF RevokesReach, OpenTokens, Dead, LinksTypeOK
  <2>3. MayGoOn(x, "invalidate", OpenTokens(user[x])) /\ hits[x] \in BOOLEAN
    BY <1>3, <2>1, <2>2 DEF MayGoOn, LinksTypeOK
  <2> QED BY <1>2, <1>11, <2>3 DEF CheckRevoked
<1> QED BY <1>4, <1>5, <1>6, <1>7, <1>8, <1>9, <1>10, <1>11 DEF Checking
-----------------------------------------------------------------------------
\* What a commit does to a token and to an identity.
LEMMA CommitFacts ==
  ASSUME LInv, NEW x \in Txn, Commit(x)
  PROVE  /\ \A t \in Token :
              \/ tState'[t] = tState[t]
              \/ /\ op[x] = "consume" /\ t = token[x]
                 /\ tState[t] = "open" /\ tState'[t] = "consumed"
              \/ /\ op[x] = "create" /\ t = token[x]
                 /\ tState[t] = "none" /\ tState'[t] = "open"
              \/ /\ op[x] # "consume" /\ tLock[t] = x
                 /\ tState[t] = "open" /\ tState'[t] = "invalidated"
         /\ \A t \in Token : op[x] # "consume" /\ tLock[t] = x => tState'[t] = "invalidated"
         /\ \A t \in Token : op[x] = "consume" /\ t = token[x] => tState'[t] = "consumed"
         /\ \A t \in Token :
              IF op[x] = "consume" /\ t = token[x]
              THEN iState'[t] = "active" /\ iAccount'[t] = account[x] /\ tUser[t] = user[x]
              ELSE /\ \/ iState'[t] = iState[t]
                      \/ iLock[t] = x /\ iState[t] = "active" /\ iState'[t] = "revoked"
                   /\ iAccount'[t] = iAccount[t]
         /\ \A t \in Token : iState[t] # "none" \/ tState[t] # "none" => tUser'[t] = tUser[t]
         /\ pc'[x] = "done" /\ todo'[x] = {}
         /\ \A y \in Txn \ {x} : pc'[y] = pc[y] /\ todo'[y] = todo[y]
         /\ \A t \in Token : /\ tLock'[t] = IF tLock[t] = x THEN 0 ELSE tLock[t]
                             /\ iLock'[t] = IF iLock[t] = x THEN 0 ELSE iLock[t]
<1> USE LinksAssumption DEF LInv
<1>1. /\ pc[x] = "commit"
      /\ tState' = [t \in Token |->
                      IF op[x] = "consume" /\ t = token[x] THEN "consumed"
                      ELSE IF op[x] = "create" /\ t = token[x] THEN "open"
                      ELSE IF tLock[t] = x THEN "invalidated" ELSE tState[t]]
      /\ tUser' = IF op[x] = "create" THEN [tUser EXCEPT ![token[x]] = user[x]] ELSE tUser
      /\ iState' = [t \in Token |->
                      IF op[x] = "consume" /\ t = token[x] THEN "active"
                      ELSE IF iLock[t] = x THEN "revoked" ELSE iState[t]]
      /\ iAccount' = IF op[x] = "consume" THEN [iAccount EXCEPT ![token[x]] = account[x]]
                     ELSE iAccount
      /\ pc' = [pc EXCEPT ![x] = "done"] /\ todo' = [todo EXCEPT ![x] = {}]
      /\ tLock' = [t \in Token |-> IF tLock[t] = x THEN 0 ELSE tLock[t]]
      /\ iLock' = [t \in Token |-> IF iLock[t] = x THEN 0 ELSE iLock[t]]
  BY DEF Commit, Statement, Unlock
<1>2. op[x] = "consume" =>
        /\ token[x] \in Token /\ tLock[token[x]] = x /\ tState[token[x]] = "open"
        /\ user[x] = tUser[token[x]]
        /\ \A t \in Token : tLock[t] = x => t = token[x]
  BY <1>1 DEF ConsumesHold, LocksAreHeld
<1>3. op[x] # "consume" => \A t \in Token : tLock[t] = x => tState[t] = "open"
  BY DEF LocksAreHeld
<1>4. op[x] = "create" => /\ token[x] \in Token /\ tState[token[x]] = "none"
                          /\ iState[token[x]] = "none"
  BY <1>1 DEF CreatesAreFresh, OneLinkEach
<1>5. \A t \in Token : iLock[t] = x => iState[t] = "active"
  BY DEF LocksAreHeld
<1>6. \A t \in Token :
        \/ tState'[t] = tState[t]
        \/ /\ op[x] = "consume" /\ t = token[x]
           /\ tState[t] = "open" /\ tState'[t] = "consumed"
        \/ /\ op[x] = "create" /\ t = token[x]
           /\ tState[t] = "none" /\ tState'[t] = "open"
        \/ /\ op[x] # "consume" /\ tLock[t] = x
           /\ tState[t] = "open" /\ tState'[t] = "invalidated"
  BY <1>1, <1>2, <1>3, <1>4
<1>7. /\ \A t \in Token : op[x] # "consume" /\ tLock[t] = x => tState'[t] = "invalidated"
      /\ \A t \in Token : op[x] = "consume" /\ t = token[x] => tState'[t] = "consumed"
  BY <1>1, <1>3, <1>4
<1>8. \A t \in Token :
        IF op[x] = "consume" /\ t = token[x]
        THEN iState'[t] = "active" /\ iAccount'[t] = account[x] /\ tUser[t] = user[x]
        ELSE /\ \/ iState'[t] = iState[t]
                \/ iLock[t] = x /\ iState[t] = "active" /\ iState'[t] = "revoked"
             /\ iAccount'[t] = iAccount[t]
  BY <1>1, <1>2, <1>5 DEF LinksTypeOK
<1>9. \A t \in Token : iState[t] # "none" \/ tState[t] # "none" => tUser'[t] = tUser[t]
  BY <1>1, <1>4 DEF LinksTypeOK
<1>10. /\ pc'[x] = "done" /\ todo'[x] = {}
       /\ \A y \in Txn \ {x} : pc'[y] = pc[y] /\ todo'[y] = todo[y]
       /\ \A t \in Token : /\ tLock'[t] = IF tLock[t] = x THEN 0 ELSE tLock[t]
                           /\ iLock'[t] = IF iLock[t] = x THEN 0 ELSE iLock[t]
  BY <1>1 DEF LinksTypeOK
<1> QED BY <1>6, <1>7, <1>8, <1>9, <1>10

\* A commit makes one link, one token or dead tokens, and lets go of its rows.
LEMMA CommitStep ==
  ASSUME LInv, NEW x \in Txn, Commit(x)
  PROVE  LInv'
<1> USE LinksAssumption DEF LInv
<1>1. /\ UNCHANGED <<tExpired, op, user, token, account, onTime, before>> /\ pc[x] = "commit"
      /\ doomed' = IF op[x] = "revoke" THEN doomed \cup before[x] ELSE doomed
  BY DEF Commit
<1>2. x # 0 /\ op[x] # "none"
  BY <1>1 DEF Txn, StatementsOfKind
<1>3. LinksTypeOK'
  <2>1. token[x] \in Token => user[x] \in User \cup {NoUser} /\ account[x] \in Account \cup {NoAccount}
    BY DEF LinksTypeOK
  <2>2. tState' \in [Token -> {"none", "open", "consumed", "invalidated"}]
        /\ iState' \in [Token -> {"none", "active", "revoked"}]
    BY DEF Commit, LinksTypeOK
  <2>3. tUser' \in [Token -> User \cup {NoUser}] /\ iAccount' \in [Token -> Account \cup {NoAccount}]
    BY DEF Commit, LinksTypeOK
  <2>4. tLock' \in [Token -> 0..MaxTxns] /\ iLock' \in [Token -> 0..MaxTxns]
    BY DEF Commit, Unlock, LinksTypeOK
  <2>5. /\ pc' \in [Txn -> {"new", "check", "checked", "token", "byUser", "byAccount", "insert",
                            "identity", "invalidate", "commit", "done"}]
        /\ todo' \in [Txn -> SUBSET Token] /\ hits' \in [Txn -> BOOLEAN]
    BY DEF Commit, Statement, LinksTypeOK
  <2>6. doomed' \subseteq Token
    BY <1>1 DEF LinksTypeOK
  <2> QED BY <1>1, <2>2, <2>3, <2>4, <2>5, <2>6 DEF LinksTypeOK
<1>4. OneLinkEach'
  <2>1. \A t \in Token : iState'[t] # "none" <=> tState'[t] = "consumed"
    BY CommitFacts DEF OneLinkEach
  <2>2. \A s \in Token : iState'[s] = "active" =>
          \/ op[x] = "consume" /\ s = token[x] /\ tUser'[s] = user[x] /\ iAccount'[s] = account[x]
          \/ /\ iState[s] = "active" /\ tUser'[s] = tUser[s] /\ iAccount'[s] = iAccount[s]
             /\ op[x] = "consume" => tUser[s] # user[x] /\ iAccount[s] # account[x]
    <3>1. op[x] = "consume" =>
            /\ tState[token[x]] = "open"
            /\ \A t \in Token : iState[t] = "active" => tUser[t] # user[x] /\ iAccount[t] # account[x]
      BY <1>1 DEF ConsumesHold
    <3> QED BY CommitFacts, <3>1
  <2>3. ASSUME NEW s \in Token, NEW t \in Token,
               iState'[s] = "active", iState'[t] = "active", s # t
        PROVE  tUser'[s] # tUser'[t] /\ iAccount'[s] # iAccount'[t]
    BY <2>2, <2>3 DEF OneLinkEach
  <2> QED BY <2>1, <2>3 DEF OneLinkEach
<1>5. StatementsOfKind'
  BY <1>1, <1>2, CommitFacts DEF StatementsOfKind, Live
<1>6. LocksAreHeld'
  <2>1. \A y \in Txn, t \in Token : /\ tLock'[t] = y => y # x /\ tLock[t] = y
                                    /\ iLock'[t] = y => y # x /\ iLock[t] = y
    BY <1>2, CommitFacts DEF Txn
  <2>2. \A y \in Txn, t \in Token : tLock'[t] = y /\ op[y] # "consume" => tState'[t] = "open"
    <3> SUFFICES ASSUME NEW y \in Txn, NEW t \in Token, tLock'[t] = y, op[y] # "consume"
                 PROVE  tState'[t] = "open"
      OBVIOUS
    <3>1. tLock[t] = y /\ y # x
      BY <2>1
    <3>3. tState[t] = "open"
      BY <3>1 DEF LocksAreHeld
    <3>2. op[x] = "consume" => tLock[token[x]] = x
      BY <1>1 DEF ConsumesHold
    <3> QED BY <3>1, <3>2, <3>3, CommitFacts
  <2>3. \A y \in Txn, t \in Token : iLock'[t] = y => iState'[t] = "active"
    BY <2>1, CommitFacts DEF LocksAreHeld
  <2>4. ASSUME NEW y \in Txn, y # x PROVE Live(y) => Live(y)'
    BY <2>4, CommitFacts DEF Live
  <2>5. ASSUME NEW y \in Txn, NEW t \in Token, tLock'[t] = y
        PROVE  /\ Live(y)' /\ (op'[y] = "consume" => t = token'[y])
               /\ (op'[y] # "consume" => tState'[t] = "open")
    BY <1>1, <2>1, <2>2, <2>4, <2>5 DEF LocksAreHeld
  <2>6. ASSUME NEW y \in Txn, NEW t \in Token, iLock'[t] = y PROVE Live(y)'
    BY <2>1, <2>4, <2>6 DEF LocksAreHeld
  <2> QED BY <2>3, <2>5, <2>6 DEF LocksAreHeld
<1>7. \A y \in Txn : op[y] = "consume" => token[y] \in Token /\ tState[token[y]] # "none"
  BY DEF ConsumesHold
<1>8. ConsumesHold'
  <2> SUFFICES ASSUME NEW y \in Txn, op[y] = "consume"
               PROVE  /\ tState'[token[y]] # "none" /\ user[y] = tUser'[token[y]]
                      /\ pc'[y] = "token" => todo'[y] \subseteq {token[y]}
                                             /\ (todo'[y] = {} => tLock'[token[y]] = y)
                      /\ pc'[y] \in {"byUser", "byAccount", "insert", "commit"}
                           => tLock'[token[y]] = y /\ tState'[token[y]] = "open"
                      /\ pc'[y] = "commit" =>
                           /\ \A t \in Token : iState'[t] = "active"
                                => tUser'[t] # user[y] /\ iAccount'[t] # account[y]
                           /\ \A z \in Txn \ {y} : op[z] = "consume" /\ pc'[z] = "commit"
                                => user[z] # user[y] /\ account[z] # account[y]
    BY <1>1, <1>7 DEF ConsumesHold
  <2>1. tState'[token[y]] # "none" /\ user[y] = tUser'[token[y]]
    BY <1>7, CommitFacts DEF ConsumesHold
  <2>2. CASE y = x
    BY <2>1, <2>2, CommitFacts
  <2>3. CASE y # x
    <3>1. pc'[y] = pc[y] /\ todo'[y] = todo[y]
      BY <2>3, CommitFacts
    <3>2. tLock[token[y]] = y => tLock'[token[y]] = y
      BY <1>7, <2>3, CommitFacts
    <3>3. tLock[token[y]] = y /\ tState[token[y]] = "open" => tState'[token[y]] = "open"
      <4>1. op[x] = "consume" => tLock[token[x]] = x
        BY <1>1 DEF ConsumesHold
      <4> QED BY <1>7, <2>3, <4>1, CommitFacts
    <3>4. ASSUME pc[y] = "commit", NEW t \in Token, iState'[t] = "active"
          PROVE  tUser'[t] # user[y] /\ iAccount'[t] # account[y]
      <4>1. CASE op[x] = "consume" /\ t = token[x]
        <5>1. user[x] # user[y] /\ account[x] # account[y]
          BY <1>1, <2>3, <3>4, <4>1 DEF ConsumesHold
        <5>2. tUser'[t] = user[x] /\ iAccount'[t] = account[x]
          BY <1>7, <4>1, CommitFacts
        <5> QED BY <5>1, <5>2
      <4>2. CASE ~(op[x] = "consume" /\ t = token[x])
        <5>1. iState[t] = "active" /\ iAccount'[t] = iAccount[t] /\ tUser'[t] = tUser[t]
          BY <3>4, <4>2, CommitFacts
        <5> QED BY <3>4, <5>1 DEF ConsumesHold
      <4> QED BY <4>1, <4>2
    <3>5. pc[y] = "commit" => \A z \in Txn \ {y} : op[z] = "consume" /\ pc'[z] = "commit"
                                => user[z] # user[y] /\ account[z] # account[y]
      BY CommitFacts DEF ConsumesHold
    <3> QED BY <2>1, <3>1, <3>2, <3>3, <3>4, <3>5 DEF ConsumesHold
  <2> QED BY <2>2, <2>3
<1>9. CreatesAreFresh'
  <2>1. \A y \in Txn : op[y] = "create" /\ pc'[y] # "done" => y # x /\ pc[y] # "done"
    BY CommitFacts
  <2>2. ASSUME NEW y \in Txn \ {x}, token[y] \in Token, tState[token[y]] = "none",
               token[x] # token[y]
        PROVE  tState'[token[y]] = "none"
    BY <2>2, CommitFacts
  <2> QED BY <1>1, <2>1, <2>2 DEF CreatesAreFresh
<1>10. RevokesReach'
  <2>1. \A t \in Token : Dead(t) => Dead(t)'
    BY CommitFacts DEF Dead
  <2>2. \A y \in Txn : before[y] \subseteq Token /\ doomed \subseteq Token
    BY DEF LinksTypeOK
  <2>3. \A t \in Token : tState[t] # "none" => tState'[t] # "none" /\ tUser'[t] = tUser[t]
    BY CommitFacts
  <2>4. ASSUME NEW y \in Txn, op[y] = "revoke", NEW t \in before[y]
        PROVE  /\ tState'[t] # "none" /\ tUser'[t] = user[y]
               /\ pc'[y] = "invalidate" => t \in todo'[y] \/ tLock'[t] = y \/ Dead(t)'
               /\ pc'[y] = "commit" => tLock'[t] = y \/ Dead(t)'
    <3>1. t \in Token
      BY <2>2
    <3>2. tState'[t] # "none" /\ tUser'[t] = user[y]
      BY <2>3, <2>4, <3>1 DEF RevokesReach
    <3>3. CASE y = x
      BY <3>2, <3>3, CommitFacts
    <3>4. CASE y # x
      <4>1. pc'[y] = pc[y] /\ todo'[y] = todo[y] /\ (tLock[t] = y => tLock'[t] = y)
        BY <3>1, <3>4, CommitFacts
      <4> QED BY <2>1, <2>4, <3>1, <3>2, <4>1 DEF RevokesReach
    <3> QED BY <3>3, <3>4
  <2>5. \A t \in doomed' : Dead(t)'
    <3>1. ASSUME op[x] = "revoke", NEW t \in before[x] PROVE Dead(t)'
      <4>1. tLock[t] = x \/ Dead(t)
        BY <1>1, <3>1 DEF RevokesReach
      <4>2. t \in Token
        BY <2>2
      <4>3. tLock[t] = x => tState'[t] = "invalidated"
        BY <3>1, <4>2, CommitFacts
      <4> QED BY <2>1, <4>1, <4>2, <4>3 DEF Dead
    <3>2. \A t \in doomed : Dead(t)'
      BY <2>1, <2>2 DEF RevokesReach
    <3> QED BY <1>1, <3>1, <3>2
  <2> QED BY <1>1, <2>4, <2>5 DEF RevokesReach, Dead
<1> QED BY <1>3, <1>4, <1>5, <1>6, <1>8, <1>9, <1>10

\* All steps; and no step revives a dead token.
LEMMA StepLInv ==
  ASSUME LInv, [LinksNext]_linkVars
  PROVE  LInv' /\ \A t \in doomed : tState'[t] = "consumed" => tState[t] = "consumed"
<1>1. \A t \in doomed : t \in Token /\ Dead(t)
  BY DEF LInv, RevokesReach, LinksTypeOK
<1>2. ASSUME tState' = tState, LInv' PROVE LInv' /\ \A t \in doomed : tState'[t] = "consumed" => tState[t] = "consumed"
  BY <1>2
<1>3. CASE UNCHANGED linkVars
  <2>1. LInv'
    BY <1>3 DEF linkVars, rowVars, lockVars, txnVars, histVars, LInv, LinksTypeOK, OneLinkEach,
                StatementsOfKind, LocksAreHeld, ConsumesHold, CreatesAreFresh, RevokesReach,
                Live, Dead
  <2> QED BY <1>2, <1>3, <2>1 DEF linkVars, rowVars
<1>4. ASSUME NEW x \in Txn, NEW u \in User, NEW t \in Token, BeginCreate(x, u, t)
      PROVE  LInv' /\ tState' = tState
  BY <1>4, BeginCreateStep DEF BeginCreate, Begin, rowVars
<1>5. ASSUME NEW x \in Txn, NEW t \in Token, NEW a \in Account, BeginConsume(x, t, a)
      PROVE  LInv' /\ tState' = tState
  BY <1>5, BeginConsumeStep DEF BeginConsume, Begin, rowVars
<1>6. ASSUME NEW x \in Txn, NEW u \in User, BeginRevoke(x, u)
      PROVE  LInv' /\ tState' = tState
  BY <1>6, BeginRevokeStep DEF BeginRevoke, Begin, rowVars
<1>7. ASSUME NEW x \in Txn, NEW t \in Token, LockToken(x, t) \/ LockIdentity(x, t)
      PROVE  LInv' /\ tState' = tState
  BY <1>7, LockTokenStep, LockIdentityStep DEF LockToken, LockIdentity, rowVars
<1>8. ASSUME NEW x \in Txn, Checking(x) PROVE LInv' /\ tState' = tState
  BY <1>8, CheckingStep DEF Checking, rowVars
<1>9. ASSUME NEW x \in Txn, Commit(x)
      PROVE  LInv' /\ \A t \in doomed : tState'[t] = "consumed" => tState[t] = "consumed"
  <2>1. \A t \in doomed : tState[t] # "open"
    BY <1>1 DEF Dead
  <2> QED BY <1>1, <1>9, <2>1, CommitStep, CommitFacts
<1>10. ASSUME NEW x \in Txn, Abort(x) \/ DeadlockAbort(x) PROVE LInv' /\ tState' = tState
  <2>1. Rollback(x) /\ Kept
    BY <1>10 DEF Abort, DeadlockAbort, Kept, rowVars, histVars
  <2>2. Live(x)
    BY <1>10 DEF Abort, DeadlockAbort, Live, Stuck, LInv, StatementsOfKind
  <2> QED BY <2>1, <2>2, RollbackStep DEF Kept
<1>11. ASSUME NEW t \in Token, Expire(t) PROVE LInv' /\ tState' = tState
  BY <1>11 DEF Expire, rowVars, lockVars, txnVars, histVars, LInv, LinksTypeOK, OneLinkEach,
               StatementsOfKind, LocksAreHeld, ConsumesHold, CreatesAreFresh, RevokesReach,
               Live, Dead
<1>12. CASE LinksNext
  BY <1>2, <1>4, <1>5, <1>6, <1>7, <1>8, <1>9, <1>10, <1>11, <1>12 DEF LinksNext, Running
<1> QED BY <1>3, <1>12

\* The invariant holds however the transactions interleave, wait and are aborted.
THEOREM LinksInvariance == LinksSpec => []LInv
  BY InitLInv, StepLInv, PTL DEF LinksSpec

\* Type correctness of tokens, identities and transactions.
THEOREM LinksTypeCorrect == LinksSpec => []LinksTypeOK
<1>1. LInv => LinksTypeOK
  BY DEF LInv
<1> QED BY <1>1, LinksInvariance, PTL

\* One account has one employee and one employee one account, each link by a token of
\* its own (create, consume, revoke).
THEOREM LinksAreUnique == LinksSpec => []OneLinkEach
<1>1. LInv => OneLinkEach
  BY DEF LInv
<1> QED BY <1>1, LinksInvariance, PTL

\* A token that was open when a committed revocation began links nobody any more.
THEOREM RevocationReaches == LinksSpec => RevokedTokensDie
<1>1. LInv /\ [LinksNext]_linkVars
        => [\A t \in doomed : tState'[t] = "consumed" => tState[t] = "consumed"]_linkVars
  BY StepLInv
<1> QED BY <1>1, LinksInvariance, PTL DEF LinksSpec, RevokedTokensDie

-----------------------------------------------------------------------------
\* A list of groups is let in by a group of its own, that was asked no longer ago than
\* the cache remembers; what an update asks or stores is about the current list.
AnswersAreProved ==
  /\ \A l \in Lists : cached[l] # "none" => now < dropAt[l]
  /\ \A l \in Lists : cached[l] = "allow" =>
       \E g \in l : proved[g] > 0 /\ dropAt[l] <= proved[g] + CacheTtl
  /\ \A g \in Group : proved[g] <= now
  /\ \A u \in Update : at[u] \in {"asking", "storing"} =>
       toAsk[u] \subseteq groups /\ verdict[u] \subseteq groups
  /\ \A u \in Update : at[u] = "new" => verdict[u] = {}

\* MembersOnly is about the update; the cache carries it from one update to another.
AInv == AccessTypeOK /\ AnswersAreProved /\ MembersOnly

LEMMA InitAInv == AccessInit => AInv
<1> SUFFICES ASSUME AccessInit PROVE AInv
  OBVIOUS
<1> USE AccessAssumption DEF AccessInit
<1>1. AccessTypeOK
  BY DEF AccessTypeOK
<1> QED BY <1>1 DEF AInv, AnswersAreProved, MembersOnly

\* Time, members and the bot's configuration.
LEMMA SurroundingsStep ==
  ASSUME AInv, Pass \/ (\E g \in Group : JoinOrLeave(g)) \/ RestartBot \/ UNCHANGED accessVars
  PROVE  AInv'
<1> USE AccessAssumption DEF AInv, cacheVars, updateVars
<1>1. CASE Pass
  BY <1>1 DEF Pass, AccessTypeOK, AnswersAreProved, MembersOnly
<1>2. CASE \E g \in Group : JoinOrLeave(g)
  BY <1>2 DEF JoinOrLeave, AccessTypeOK, AnswersAreProved, MembersOnly
<1>3. CASE RestartBot
  <2>1. AccessTypeOK'
    BY <1>3 DEF RestartBot, AccessTypeOK
  <2> QED BY <1>3, <2>1 DEF RestartBot, AnswersAreProved, MembersOnly
<1>4. CASE UNCHANGED accessVars
  BY <1>4 DEF accessVars, AccessTypeOK, AnswersAreProved, MembersOnly
<1> QED BY <1>1, <1>2, <1>3, <1>4

\* An update that is over, or was never begun, is nobody's membership.
LEMMA OverFacts ==
  ASSUME AccessTypeOK, NEW u \in Update, Over(u)
  PROVE  /\ at' \in [Update -> {"new", "asking", "storing", "handling"}]
         /\ toAsk' \in [Update -> SUBSET Group] /\ verdict' \in [Update -> SUBSET Group]
         /\ letIn' \in [Update -> Nat] /\ at'[u] = "new" /\ verdict'[u] = {}
         /\ \A v \in Update \ {u} : /\ at'[v] = at[v] /\ toAsk'[v] = toAsk[v]
                                     /\ verdict'[v] = verdict[v] /\ letIn'[v] = letIn[v]
  BY DEF Over, AccessTypeOK

LEMMA LetInFacts ==
  ASSUME AccessTypeOK, NEW u \in Update, LetIn(u)
  PROVE  /\ at' \in [Update -> {"new", "asking", "storing", "handling"}]
         /\ toAsk' \in [Update -> SUBSET Group] /\ verdict' \in [Update -> SUBSET Group]
         /\ letIn' \in [Update -> Nat] /\ at'[u] = "handling" /\ letIn'[u] = now
         /\ \A v \in Update \ {u} : /\ at'[v] = at[v] /\ toAsk'[v] = toAsk[v]
                                     /\ verdict'[v] = verdict[v] /\ letIn'[v] = letIn[v]
<1>1. now \in Nat
  BY AccessAssumption DEF AccessTypeOK
<1> QED BY <1>1 DEF LetIn, AccessTypeOK

LEMMA AskingStep ==
  ASSUME AInv, NEW u \in Update,
         LookUp(u) \/ (\E g \in Group : AskGroup(u, g)) \/ Handled(u)
  PROVE  AInv'
<1> USE AccessAssumption DEF AInv, cacheVars
<1>1. groups \in Lists /\ groups \subseteq Group /\ now \in Nat
  BY DEF AccessTypeOK, Lists
<1>2. UNCHANGED <<now, groups, inGroups, cached, dropAt, proved, restarts>>
  BY DEF LookUp, AskGroup, Handled
<1>3. CASE LookUp(u)
  <2>1. CASE cached[Key] = "allow" /\ LetIn(u)
    <3>1. \E g \in groups : proved[g] > 0 /\ now < proved[g] + CacheTtl
      BY <1>1, <2>1 DEF AnswersAreProved, Key, AccessTypeOK
    <3> QED BY <1>2, <2>1, <3>1, LetInFacts DEF AccessTypeOK, AnswersAreProved, MembersOnly
  <2>2. CASE ~(cached[Key] = "allow" /\ LetIn(u))
    <3>1. /\ at' = [at EXCEPT ![u] = "asking"] /\ toAsk' = [toAsk EXCEPT ![u] = groups]
          /\ verdict' = verdict /\ letIn' = letIn /\ at[u] = "new"
      BY <1>3, <2>2 DEF LookUp
    <3>2. AccessTypeOK'
      BY <1>1, <1>2, <3>1 DEF AccessTypeOK
    <3>3. /\ at'[u] = "asking" /\ toAsk'[u] = groups /\ verdict'[u] = verdict[u]
          /\ \A v \in Update \ {u} : at'[v] = at[v] /\ toAsk'[v] = toAsk[v]
      BY <3>1 DEF AccessTypeOK
    <3>4. verdict[u] = {}
      BY <3>1 DEF AnswersAreProved
    <3>5. AnswersAreProved'
      BY <1>1, <1>2, <3>1, <3>3, <3>4 DEF AnswersAreProved
    <3>6. MembersOnly'
      BY <1>2, <3>1, <3>3 DEF MembersOnly
    <3> QED BY <3>2, <3>5, <3>6
  <2> QED BY <2>1, <2>2
<1>4. ASSUME NEW g \in Group, AskGroup(u, g) PROVE AInv'
  <2>1. CASE Over(u)
    BY <1>2, <2>1, OverFacts DEF AccessTypeOK, AnswersAreProved, MembersOnly
  <2>2. CASE ~Over(u)
    <3>1. /\ at[u] = "asking" /\ g \in toAsk[u] /\ letIn' = letIn
          /\ toAsk' = [toAsk EXCEPT ![u] = IF IsMember(g) THEN {} ELSE @ \ {g}]
          /\ verdict' = [verdict EXCEPT ![u] = IF IsMember(g) THEN {g} ELSE {}]
          /\ at' = [at EXCEPT ![u] = IF toAsk'[u] = {} THEN "storing" ELSE "asking"]
      BY <1>4, <2>2 DEF AskGroup
    <3>2. AccessTypeOK'
      BY <1>2, <3>1 DEF AccessTypeOK
    <3>3. toAsk'[u] \subseteq groups /\ verdict'[u] \subseteq groups
      BY <3>1 DEF AccessTypeOK, AnswersAreProved
    <3> QED BY <1>2, <3>1, <3>2, <3>3 DEF AccessTypeOK, AnswersAreProved, MembersOnly
  <2> QED BY <2>1, <2>2
<1>5. CASE Handled(u)
  BY <1>2, <1>5, OverFacts DEF Handled, AccessTypeOK, AnswersAreProved, MembersOnly
<1> QED BY <1>3, <1>4, <1>5

\* The answer replaces whatever is cached for the list; older proofs stay.
LEMMA StoreAnswerStep ==
  ASSUME AInv, NEW u \in Update, StoreAnswer(u)
  PROVE  AInv'
<1> USE AccessAssumption DEF AInv
<1>1. /\ groups \in Lists /\ now \in Nat /\ now > 0 /\ at[u] = "storing"
      /\ UNCHANGED <<now, groups, inGroups, restarts>>
      /\ verdict[u] \subseteq groups
  BY DEF StoreAnswer, AccessTypeOK, AnswersAreProved
<1>2. CASE Over(u) /\ UNCHANGED cacheVars
  BY <1>1, <1>2, OverFacts DEF cacheVars, AccessTypeOK, AnswersAreProved, MembersOnly
<1>3. CASE Remembered(u) /\ (Over(u) \/ (verdict[u] # {} /\ LetIn(u)))
  <2>1. /\ cached' = [cached EXCEPT ![groups] = IF verdict[u] = {} THEN "deny" ELSE "allow"]
        /\ dropAt' = [dropAt EXCEPT ![groups] = now + CacheTtl]
        /\ proved' = [g \in Group |-> IF g \in verdict[u] THEN now ELSE proved[g]]
    BY <1>3 DEF Remembered, Key
  <2>2. /\ cached' \in [Lists -> {"none", "allow", "deny"}] /\ dropAt' \in [Lists -> Nat]
        /\ proved' \in [Group -> Nat]
    BY <1>1, <2>1 DEF AccessTypeOK
  <2>3. \A g \in Group : proved[g] <= proved'[g] /\ proved'[g] <= now
    BY <1>1, <2>1 DEF AccessTypeOK, AnswersAreProved
  <2>4. \A g \in verdict[u] : proved'[g] = now
    BY <1>1, <2>1 DEF AccessTypeOK
  <2>5. \A l \in Lists : cached'[l] # "none" => now < dropAt'[l]
    BY <1>1, <2>1 DEF AccessTypeOK, AnswersAreProved
  <2>6. ASSUME NEW l \in Lists, cached'[l] = "allow"
        PROVE  \E g \in l : proved'[g] > 0 /\ dropAt'[l] <= proved'[g] + CacheTtl
    <3>1. CASE l = groups
      BY <1>1, <2>1, <2>4, <2>6, <3>1 DEF AccessTypeOK
    <3>2. CASE l # groups
      <4>1. cached[l] = "allow" /\ dropAt'[l] = dropAt[l]
        BY <2>1, <2>6, <3>2 DEF AccessTypeOK
      <4>2. PICK g \in l : proved[g] > 0 /\ dropAt[l] <= proved[g] + CacheTtl
        BY <4>1 DEF AnswersAreProved
      <4>3. g \in Group /\ proved[g] \in Nat /\ proved'[g] \in Nat /\ dropAt[l] \in Nat
        BY <2>2 DEF AccessTypeOK, Lists
      <4> QED BY <2>3, <4>1, <4>2, <4>3
    <3> QED BY <3>1, <3>2
  <2>7. ASSUME NEW v \in Update, v # u, at[v] = "handling"
        PROVE  \E g \in groups : proved'[g] > 0 /\ letIn[v] < proved'[g] + CacheTtl
    <3>1. PICK g \in groups : proved[g] > 0 /\ letIn[v] < proved[g] + CacheTtl
      BY <2>7 DEF MembersOnly
    <3>2. g \in Group /\ proved[g] \in Nat /\ proved'[g] \in Nat /\ letIn[v] \in Nat
      BY <2>2 DEF AccessTypeOK, Lists
    <3> QED BY <2>3, <3>1, <3>2
  <2>8. verdict[u] # {} => \E g \in groups : proved'[g] > 0 /\ now < proved'[g] + CacheTtl
    BY <1>1, <2>4
  <2>9. /\ at' \in [Update -> {"new", "asking", "storing", "handling"}]
        /\ toAsk' \in [Update -> SUBSET Group] /\ verdict' \in [Update -> SUBSET Group]
        /\ letIn' \in [Update -> Nat]
        /\ \/ at'[u] = "new" /\ verdict'[u] = {}
           \/ at'[u] = "handling" /\ verdict[u] # {} /\ letIn'[u] = now
        /\ \A v \in Update \ {u} : /\ at'[v] = at[v] /\ toAsk'[v] = toAsk[v]
                                    /\ verdict'[v] = verdict[v] /\ letIn'[v] = letIn[v]
    BY <1>3, OverFacts, LetInFacts
  <2>10. AccessTypeOK'
    BY <1>1, <2>2, <2>9 DEF AccessTypeOK
  <2>11. AnswersAreProved'
    BY <1>1, <2>3, <2>5, <2>6, <2>9 DEF AnswersAreProved
  <2>12. MembersOnly'
    BY <1>1, <2>7, <2>8, <2>9 DEF MembersOnly
  <2> QED BY <2>10, <2>11, <2>12
<1> QED BY <1>2, <1>3 DEF StoreAnswer

LEMMA StepAInv ==
  ASSUME AInv, [AccessNext]_accessVars
  PROVE  AInv'
  BY SurroundingsStep, AskingStep, StoreAnswerStep DEF AccessNext

\* The invariant holds whatever updates, members and configurations do.
THEOREM AccessInvariance == AccessSpec => []AInv
  BY InitAInv, StepAInv, PTL DEF AccessSpec

\* Whoever is let in was proved a member of a group configured now, less than the time
\* to live of the cache before (TelegramAccessService.is_allowed).
THEOREM AccessIsProved == AccessSpec => []MembersOnly
<1>1. AInv => MembersOnly
  BY DEF AInv
<1> QED BY <1>1, AccessInvariance, PTL
===============================================================================
