--------------------------- MODULE MessengerLinks ---------------------------
(***************************************************************************)
(* Links between employees and their messenger accounts.                   *)
(*                                                                         *)
(* The application issues a token, the bot consumes it for the account     *)
(* that sent it, the application revokes the link.  Each is a transaction  *)
(* of several statements at READ COMMITTED: a statement sees what was      *)
(* committed when it started, locks the rows it found one by one, waiting  *)
(* for other holders, and looks at a row again once it has its lock.       *)
(* PostgreSQL aborts a transaction of a deadlock and refuses a row that    *)
(* breaks a unique index.                                                  *)
(*                                                                         *)
(* One provider.  An identity is named by the token it was made with.      *)
(***************************************************************************)
EXTENDS Naturals

CONSTANTS User, Account,
          NoUser, NoAccount,
          MaxTokens,  \* bound: tokens, numbered as they are made
          MaxTxns     \* bound: transactions, numbered as they begin

Token == 1..MaxTokens
Txn   == 1..MaxTxns

ASSUME LinksAssumption ==
  NoUser \notin User /\ NoAccount \notin Account /\ MaxTokens \in Nat /\ MaxTxns \in Nat

VARIABLES
  tState,    \* messenger_link_tokens: "none", "open", "consumed", "invalidated"
  tUser,
  tExpired,  \* expires_at has passed
  iState,    \* messenger_identities: "none", "active", "revoked"
  iAccount,
  tLock, iLock,  \* which transaction holds a row, 0 for none
  op, pc, user, token, account,  \* transactions
  onTime,    \* the token was not expired when the transaction began
  todo,      \* rows the current statement found and has still to lock
  hits,      \* it has locked one that qualified
  before,    \* a revocation's: tokens that were open when it began
  doomed     \* the same of every revocation that has committed

rowVars  == <<tState, tUser, iState, iAccount>>
lockVars == <<tLock, iLock>>
txnVars  == <<op, pc, user, token, account, onTime, todo, hits>>
histVars == <<before, doomed>>
linkVars == <<rowVars, tExpired, lockVars, txnVars, histVars>>

OpenTokens(u) == {t \in Token : tState[t] = "open" /\ tUser[t] = u}
ActiveOf(u)   == {t \in Token : iState[t] = "active" /\ tUser[t] = u}
ActiveAt(a)   == {t \in Token : iState[t] = "active" /\ iAccount[t] = a}

\* messengers-architecture: an account has one employee and an employee one
\* account; every link was made with a token, which was consumed then and for
\* nothing else.
OneLinkEach ==
  /\ \A t \in Token : iState[t] # "none" <=> tState[t] = "consumed"
  /\ \A s, t \in Token :
       iState[s] = "active" /\ iState[t] = "active" /\ s # t
         => tUser[s] # tUser[t] /\ iAccount[s] # iAccount[t]

\* Whatever earlier transactions have left, two open tokens of one user included:
\* concurrent creates do not see each other's.
LinksInit ==
  /\ tState \in [Token -> {"none", "open", "consumed", "invalidated"}]
  /\ \A s, t \in Token : s < t /\ tState[s] = "none" => tState[t] = "none"
  /\ tUser \in [Token -> User \cup {NoUser}]
  /\ \A t \in Token : tUser[t] = NoUser <=> tState[t] = "none"
  /\ tExpired \in [Token -> BOOLEAN]
  /\ \A t \in Token : tExpired[t] => tState[t] = "open"
  /\ iState \in [Token -> {"none", "active", "revoked"}]
  /\ iAccount \in [Token -> Account \cup {NoAccount}]
  /\ \A t \in Token : iAccount[t] = NoAccount <=> iState[t] = "none"
  /\ OneLinkEach
  /\ tLock = [t \in Token |-> 0]
  /\ iLock = [t \in Token |-> 0]
  /\ op = [x \in Txn |-> "none"]
  /\ pc = [x \in Txn |-> "new"]
  /\ user = [x \in Txn |-> NoUser]
  /\ token = [x \in Txn |-> 0]
  /\ account = [x \in Txn |-> NoAccount]
  /\ onTime = [x \in Txn |-> FALSE]
  /\ todo = [x \in Txn |-> {}]
  /\ hits = [x \in Txn |-> FALSE]
  /\ before = [x \in Txn |-> {}]
  /\ doomed = {}

-----------------------------------------------------------------------------
Begin(x, kind, u, t, a, first, rows) ==
  /\ pc[x] = "new" /\ \A y \in Txn : y < x => pc[y] # "new"
  /\ op' = [op EXCEPT ![x] = kind]
  /\ user' = [user EXCEPT ![x] = u]
  /\ token' = [token EXCEPT ![x] = t]
  /\ account' = [account EXCEPT ![x] = a]
  /\ pc' = [pc EXCEPT ![x] = first]
  /\ todo' = [todo EXCEPT ![x] = rows]
  /\ UNCHANGED <<rowVars, tExpired, lockVars, hits, doomed>>

\* create: secrets.token_urlsafe makes a token nobody else has.
BeginCreate(x, u, t) ==
  /\ \A s \in Token : s < t <=> tState[s] # "none" \/ \E y \in Txn : token[y] = s
  /\ Begin(x, "create", u, t, NoAccount, "check", {})
  /\ UNCHANGED <<onTime, before>>

\* consume: whether the token is in time is decided by the clock of this moment,
\* however long the transaction waits for its row.
BeginConsume(x, t, a) ==
  /\ tState[t] # "none"
  /\ Begin(x, "consume", tUser[t], t, a, "token", {t})
  /\ onTime' = [onTime EXCEPT ![x] = ~tExpired[t]]
  /\ UNCHANGED before

BeginRevoke(x, u) ==
  /\ Begin(x, "revoke", u, 0, NoAccount, "identity", ActiveOf(u))
  /\ before' = [before EXCEPT ![x] = OpenTokens(u)]
  /\ UNCHANGED onTime

\* Time passes: the token runs out.
Expire(t) ==
  /\ tState[t] = "open" /\ ~tExpired[t]
  /\ tExpired' = [tExpired EXCEPT ![t] = TRUE]
  /\ UNCHANGED <<rowVars, lockVars, txnVars, histVars>>

\* The next statement, and the rows it finds.
Statement(x, next, rows) ==
  /\ pc' = [pc EXCEPT ![x] = next]
  /\ todo' = [todo EXCEPT ![x] = rows]
  /\ hits' = [hits EXCEPT ![x] = FALSE]

Unlock(x) ==
  /\ tLock' = [t \in Token |-> IF tLock[t] = x THEN 0 ELSE tLock[t]]
  /\ iLock' = [t \in Token |-> IF iLock[t] = x THEN 0 ELSE iLock[t]]

\* Mutant of Rollback: a refusal returns inside the transaction.
RollbackKeepsLocks(x) ==
  /\ Statement(x, "done", {})
  /\ UNCHANGED lockVars

\* An exception leaves the block of the transaction.
Rollback(x) ==
  /\ Statement(x, "done", {})
  /\ Unlock(x)

Go(x, refused, next, rows) ==
  IF refused THEN Rollback(x) ELSE Statement(x, next, rows) /\ UNCHANGED lockVars

-----------------------------------------------------------------------------
\* UPDATE and SELECT ... FOR UPDATE of tokens.
LockToken(x, t) ==
  /\ pc[x] \in {"token", "invalidate"} /\ t \in todo[x]
  /\ tLock[t] = 0
  /\ todo' = [todo EXCEPT ![x] = @ \ {t}]
  /\ IF pc[x] = "token" \/ tState[t] = "open"
     THEN tLock' = [tLock EXCEPT ![t] = x] /\ hits' = [hits EXCEPT ![x] = TRUE]
     ELSE UNCHANGED <<tLock, hits>>
  /\ UNCHANGED <<rowVars, tExpired, iLock, op, pc, user, token, account, onTime, histVars>>

\* UPDATE and SELECT ... FOR UPDATE of active identities.
LockIdentity(x, t) ==
  /\ pc[x] \in {"identity", "byUser", "byAccount"} /\ t \in todo[x]
  /\ iLock[t] = 0
  /\ todo' = [todo EXCEPT ![x] = @ \ {t}]
  /\ IF iState[t] = "active"
     THEN iLock' = [iLock EXCEPT ![t] = x] /\ hits' = [hits EXCEPT ![x] = TRUE]
     ELSE UNCHANGED <<iLock, hits>>
  /\ UNCHANGED <<rowVars, tExpired, tLock, op, pc, user, token, account, onTime, histVars>>

\* create: an employee with a link gets no token.  Nothing is locked here.
CheckActive(x) ==
  /\ pc[x] = "check"
  /\ Go(x, ActiveOf(user[x]) # {}, "checked", {})

\* Earlier tokens of the user are invalidated.
Invalidate(x) ==
  /\ pc[x] = "checked"
  /\ Go(x, FALSE, "invalidate", OpenTokens(user[x]))

Invalidated(x) ==
  /\ pc[x] = "invalidate" /\ todo[x] = {}
  /\ Go(x, FALSE, "commit", {})

\* consume holds the token: consumed, invalidated or expired it links nothing.
CheckToken(x) ==
  /\ pc[x] = "token" /\ todo[x] = {}
  /\ Go(x, ~(tState[token[x]] = "open" /\ onTime[x]), "byUser", ActiveOf(user[x]))

\* MESSENGER_ALREADY_LINKED
CheckUser(x) ==
  /\ pc[x] = "byUser" /\ todo[x] = {}
  /\ Go(x, hits[x], "byAccount", ActiveAt(account[x]))

\* MESSENGER_IDENTITY_IN_USE
CheckAccount(x) ==
  /\ pc[x] = "byAccount" /\ todo[x] = {}
  /\ Go(x, hits[x], "insert", {})

\* Mutant of Insert: the code's own two checks are all there is.
InsertUnchecked(x) ==
  /\ pc[x] = "insert"
  /\ Go(x, FALSE, "commit", {})

\* The unique indexes wait for an insert that is not committed yet, and refuse
\* one that meets an active identity (IntegrityError, caught by nobody).
Insert(x) ==
  /\ pc[x] = "insert"
  /\ \A y \in Txn \ {x} : pc[y] = "commit" /\ op[y] = "consume"
                            => user[y] # user[x] /\ account[y] # account[x]
  /\ Go(x, ActiveOf(user[x]) \cup ActiveAt(account[x]) # {}, "commit", {})

\* Mutant of CheckRevoked: the waiting tokens are left alone.
CheckRevokedOnly(x) ==
  /\ pc[x] = "identity" /\ todo[x] = {}
  /\ Go(x, ~hits[x], "commit", {})

\* revoke: no row updated is MESSENGER_NOT_LINKED, else its tokens follow.
CheckRevoked(x) ==
  /\ pc[x] = "identity" /\ todo[x] = {}
  /\ Go(x, ~hits[x], "invalidate", OpenTokens(user[x]))

Checking(x) ==
  /\ \/ CheckActive(x) \/ Invalidate(x) \/ Invalidated(x) \/ CheckToken(x)
     \/ CheckUser(x) \/ CheckAccount(x) \/ Insert(x) \/ CheckRevoked(x)
  /\ UNCHANGED <<rowVars, tExpired, op, user, token, account, onTime, histVars>>

\* What the statements wrote becomes visible.
Commit(x) ==
  /\ pc[x] = "commit"
  /\ tState' = [t \in Token |->
                  IF op[x] = "consume" /\ t = token[x] THEN "consumed"
                  ELSE IF op[x] = "create" /\ t = token[x] THEN "open"
                  ELSE IF tLock[t] = x THEN "invalidated" ELSE tState[t]]
  /\ tUser' = IF op[x] = "create" THEN [tUser EXCEPT ![token[x]] = user[x]] ELSE tUser
  /\ iState' = [t \in Token |->
                  IF op[x] = "consume" /\ t = token[x] THEN "active"
                  ELSE IF iLock[t] = x THEN "revoked" ELSE iState[t]]
  /\ iAccount' = IF op[x] = "consume" THEN [iAccount EXCEPT ![token[x]] = account[x]]
                 ELSE iAccount
  /\ doomed' = IF op[x] = "revoke" THEN doomed \cup before[x] ELSE doomed
  /\ Statement(x, "done", {})
  /\ Unlock(x)
  /\ UNCHANGED <<tExpired, op, user, token, account, onTime, before>>

\* The connection or the process is lost, at any statement.
Abort(x) ==
  /\ pc[x] \notin {"new", "done"}
  /\ Rollback(x)
  /\ UNCHANGED <<rowVars, tExpired, op, user, token, account, onTime, histVars>>

\* Who holds the rows x is waiting for.
Holders(x) ==
  IF pc[x] \in {"token", "invalidate"} THEN {tLock[t] : t \in todo[x]}
                                       ELSE {iLock[t] : t \in todo[x]}

Stuck(x) == todo[x] # {} /\ 0 \notin Holders(x)

\* PostgreSQL: of transactions that wait for each other one is aborted.
DeadlockAbort(x) ==
  /\ \E D \in SUBSET Txn :
       x \in D /\ \A y \in D : Stuck(y) /\ Holders(y) \cap D # {}
  /\ Rollback(x)
  /\ UNCHANGED <<rowVars, tExpired, op, user, token, account, onTime, histVars>>

-----------------------------------------------------------------------------
Running(x) ==
  \/ \E t \in Token : LockToken(x, t) \/ LockIdentity(x, t)
  \/ Checking(x)
  \/ Commit(x)
  \/ DeadlockAbort(x)

LinksNext ==
  \/ \E x \in Txn :
       \/ \E u \in User, t \in Token : BeginCreate(x, u, t)
       \/ \E t \in Token, a \in Account : BeginConsume(x, t, a)
       \/ \E u \in User : BeginRevoke(x, u)
       \/ Running(x)
       \/ Abort(x)
  \/ \E t \in Token : Expire(t)

LinksSpec == LinksInit /\ [][LinksNext]_linkVars

-----------------------------------------------------------------------------
\* Every variable holds a value of its kind.
LinksTypeOK ==
  /\ tState \in [Token -> {"none", "open", "consumed", "invalidated"}]
  /\ tUser \in [Token -> User \cup {NoUser}]
  /\ tExpired \in [Token -> BOOLEAN]
  /\ iState \in [Token -> {"none", "active", "revoked"}]
  /\ iAccount \in [Token -> Account \cup {NoAccount}]
  /\ tLock \in [Token -> 0..MaxTxns]
  /\ iLock \in [Token -> 0..MaxTxns]
  /\ op \in [Txn -> {"none", "create", "consume", "revoke"}]
  /\ pc \in [Txn -> {"new", "check", "checked", "token", "byUser", "byAccount", "insert",
                     "identity", "invalidate", "commit", "done"}]
  /\ user \in [Txn -> User \cup {NoUser}]
  /\ token \in [Txn -> 0..MaxTokens]
  /\ account \in [Txn -> Account \cup {NoAccount}]
  /\ onTime \in [Txn -> BOOLEAN]
  /\ hits \in [Txn -> BOOLEAN]
  /\ todo \in [Txn -> SUBSET Token]
  /\ before \in [Txn -> SUBSET Token]
  /\ doomed \subseteq Token

\* "Revoking a link invalidates all its waiting tokens": once a revocation has
\* committed, no token that was open when it began links anybody, also not one
\* whose consume began before it.
RevokedTokensDie ==
  [][\A t \in doomed : tState'[t] = "consumed" => tState[t] = "consumed"]_linkVars

\* consume locks the token and then the identity, revoke the identity and then
\* the tokens: whoever waits for whom, all transactions come to an end.
TransactionsEnd ==
  (\E x \in Txn : pc[x] \notin {"new", "done"}) ~> (\A x \in Txn : pc[x] \in {"new", "done"})
=============================================================================
