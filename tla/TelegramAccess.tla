---------------------------- MODULE TelegramAccess ----------------------------
(***************************************************************************)
(* Who may talk to the Telegram bot: members of the configured groups.     *)
(*                                                                         *)
(* The bot handles updates concurrently.  Each looks into a cache of Redis *)
(* first and else asks Telegram group by group; the answer is cached, under*)
(* a key that names the list of groups, and whatever fails refuses the     *)
(* update.  Updates of one account.                                        *)
(***************************************************************************)
EXTENDS Naturals

CONSTANTS Group, Update,
          CacheTtl,    \* tg_access_cache_ttl_seconds
          MaxNow,      \* bound: the clock
          MaxRestarts  \* bound: restarts of the bot

ASSUME AccessAssumption == CacheTtl \in Nat \ {0} /\ MaxNow \in Nat /\ MaxRestarts \in Nat

VARIABLES
  now,
  groups,          \* telegram_access_group_ids of the running bot
  inGroups,          \* groups the account is in
  cached, dropAt,  \* Redis, by list of groups: "none", "allow" or "deny", and until when
  at,              \* of an update: "new", "looking", "asking", "storing", "handling"
  toAsk, verdict,  \* groups not asked yet; what they said
  letIn,           \* when the update was let in
  proved,          \* when an "allow" was last stored because of a group, 0 for never
  restarts

cacheVars  == <<cached, dropAt, proved>>
updateVars == <<at, toAsk, verdict, letIn>>
accessVars == <<now, groups, inGroups, cacheVars, updateVars, restarts>>

Lists == SUBSET Group \ {{}}

\* Mutant of Key: telegram:access:v1:<user_id>
KeyOfUser == CHOOSE l \in Lists : TRUE

\* telegram:access:v1:<groups_hash>:<user_id>
Key == groups

AccessInit ==
  /\ now = 1
  /\ groups \in Lists /\ inGroups \in SUBSET Group
  /\ cached = [l \in Lists |-> "none"]
  /\ dropAt = [l \in Lists |-> 0]
  /\ at = [u \in Update |-> "new"]
  /\ toAsk = [u \in Update |-> {}]
  /\ verdict = [u \in Update |-> {}]
  /\ letIn = [u \in Update |-> 0]
  /\ proved = [g \in Group |-> 0]
  /\ restarts = 0

-----------------------------------------------------------------------------
\* Time passes and Redis drops what is due.
Pass ==
  /\ now < MaxNow
  /\ now' = now + 1
  /\ cached' = [l \in Lists |-> IF dropAt[l] <= now' THEN "none" ELSE cached[l]]
  /\ UNCHANGED <<groups, inGroups, dropAt, proved, updateVars, restarts>>

\* The account joins a group or leaves it.
JoinOrLeave(g) ==
  /\ inGroups' = IF g \in inGroups THEN inGroups \ {g} ELSE inGroups \cup {g}
  /\ UNCHANGED <<now, groups, cacheVars, updateVars, restarts>>

\* The bot is started with another TG_ACCESS_GROUPS; what it was handling is lost
\* and Telegram sends it again.
RestartBot ==
  /\ restarts < MaxRestarts
  /\ restarts' = restarts + 1
  /\ groups' \in Lists
  /\ at' = [u \in Update |-> "new"]
  /\ toAsk' = [u \in Update |-> {}]
  /\ verdict' = [u \in Update |-> {}]
  /\ letIn' = [u \in Update |-> 0]
  /\ UNCHANGED <<now, inGroups, cacheVars>>

-----------------------------------------------------------------------------
\* The middleware does not call the handler, or the handler is done.
Over(u) ==
  /\ at' = [at EXCEPT ![u] = "new"]
  /\ toAsk' = [toAsk EXCEPT ![u] = {}]
  /\ verdict' = [verdict EXCEPT ![u] = {}]
  /\ letIn' = [letIn EXCEPT ![u] = 0]

LetIn(u) ==
  /\ at' = [at EXCEPT ![u] = "handling"]
  /\ letIn' = [letIn EXCEPT ![u] = now]
  /\ toAsk' = [toAsk EXCEPT ![u] = {}]
  /\ verdict' = [verdict EXCEPT ![u] = {}]

\* The look into the cache: an answer counts as it is, without one the groups are
\* asked, and an error of Redis refuses.
LookUp(u) ==
  /\ at[u] = "new"
  /\ \/ cached[Key] = "allow" /\ LetIn(u)
     \/ /\ cached[Key] = "none"
        /\ at' = [at EXCEPT ![u] = "asking"]
        /\ toAsk' = [toAsk EXCEPT ![u] = groups]
        /\ UNCHANGED <<verdict, letIn>>
  /\ UNCHANGED <<now, groups, inGroups, cacheVars, restarts>>

\* _is_member of the answer of get_chat_member
IsMember(g) == g \in inGroups

\* get_chat_member of the next group: the first membership ends the loop, an error
\* refuses and leaves nothing in the cache.
AskGroup(u, g) ==
  /\ at[u] = "asking" /\ g \in toAsk[u]
  /\ \/ /\ toAsk' = [toAsk EXCEPT ![u] = IF IsMember(g) THEN {} ELSE @ \ {g}]
        /\ verdict' = [verdict EXCEPT ![u] = IF IsMember(g) THEN {g} ELSE {}]
        /\ at' = [at EXCEPT ![u] = IF toAsk'[u] = {} THEN "storing" ELSE "asking"]
        /\ UNCHANGED letIn
     \/ Over(u)
  /\ UNCHANGED <<now, groups, inGroups, cacheVars, restarts>>

Remembered(u) ==
  /\ cached' = [cached EXCEPT ![Key] = IF verdict[u] = {} THEN "deny" ELSE "allow"]
  /\ dropAt' = [dropAt EXCEPT ![Key] = now + CacheTtl]
  /\ proved' = [g \in Group |-> IF g \in verdict[u] THEN now ELSE proved[g]]

\* SET of the answer, which replaces what another update has stored meanwhile.  When
\* it fails, whether it arrived or not, the update is refused.
StoreAnswer(u) ==
  /\ at[u] = "storing"
  /\ \/ Remembered(u) /\ IF verdict[u] = {} THEN Over(u) ELSE LetIn(u)
     \/ Remembered(u) /\ Over(u)
     \/ Over(u) /\ UNCHANGED cacheVars
  /\ UNCHANGED <<now, groups, inGroups, restarts>>

\* The handler has answered.
Handled(u) ==
  /\ at[u] = "handling"
  /\ Over(u)
  /\ UNCHANGED <<now, groups, inGroups, cacheVars, restarts>>

AccessNext ==
  \/ Pass
  \/ \E g \in Group : JoinOrLeave(g)
  \/ RestartBot
  \/ \E u \in Update :
       \/ LookUp(u)
       \/ \E g \in Group : AskGroup(u, g)
       \/ StoreAnswer(u)
       \/ Handled(u)

AccessSpec == AccessInit /\ [][AccessNext]_accessVars

-----------------------------------------------------------------------------
\* Every variable holds a value of its kind.
AccessTypeOK ==
  /\ now \in 1..MaxNow + 1 /\ restarts \in 0..MaxRestarts
  /\ groups \in Lists /\ inGroups \subseteq Group
  /\ cached \in [Lists -> {"none", "allow", "deny"}]
  /\ dropAt \in [Lists -> Nat]
  /\ at \in [Update -> {"new", "asking", "storing", "handling"}]
  /\ toAsk \in [Update -> SUBSET Group]
  /\ verdict \in [Update -> SUBSET Group]
  /\ letIn \in [Update -> Nat]
  /\ proved \in [Group -> Nat]

\* messengers-implementation-plan: "no update reaches the handlers without a confirmed
\* membership or a current cache; a change of the list of groups invalidates the
\* former cache".  Whoever is let in was a member of one of the groups configured now,
\* by an answer that was stored less than the cache's time to live before, whatever
\* other updates store meanwhile.
MembersOnly ==
  \A u \in Update : at[u] = "handling" =>
    \E g \in groups : proved[g] > 0 /\ letIn[u] < proved[g] + CacheTtl
=============================================================================
