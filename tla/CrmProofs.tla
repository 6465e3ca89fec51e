------------------------------ MODULE CrmProofs ------------------------------
(***************************************************************************)
(* Safety of what a payment asks of the CRM: the budget of its requests,   *)
(* for any callers, spacing and cooldown, and the client it is made for,   *)
(* for any cards and whatever happens to them meanwhile.                   *)
(***************************************************************************)
EXTENDS RequestBudget, ClientResolution, FiniteSetTheorems, TLAPS

-----------------------------------------------------------------------------
(* The request budget.                                                      *)

\* The row remembers the last slot and the last 429 for those who come later.
RowRemembers ==
  /\ granted + Spacing <= nextSlot
  /\ limited + Cooldown <= cooldownUntil

\* SlotsAreSpaced looks at one step; the row carries what it needs from one to the next.
BInv == BudgetTypeOK /\ RowRemembers

\* The greatest of two and of three numbers.
LEMMA MaxOfTwo ==
  ASSUME NEW a \in Nat, NEW b \in Nat
  PROVE  Max({a, b}) \in {a, b} /\ a <= Max({a, b}) /\ b <= Max({a, b})
<1>1. \E m \in {a, b} : \A n \in {a, b} : m >= n
  <2>1. CASE a <= b
    BY <2>1
  <2>2. CASE b <= a
    BY <2>2
  <2> QED BY <2>1, <2>2
<1>2. Max({a, b}) = CHOOSE m \in {a, b} : \A n \in {a, b} : m >= n
  BY DEF Max
<1> QED BY <1>1, <1>2

LEMMA MaxOfThree ==
  ASSUME NEW a \in Nat, NEW b \in Nat, NEW c \in Nat
  PROVE  /\ Max({a, b, c}) \in {a, b, c}
         /\ a <= Max({a, b, c}) /\ b <= Max({a, b, c}) /\ c <= Max({a, b, c})
<1>1. \E m \in {a, b, c} : \A n \in {a, b, c} : m >= n
  <2>1. CASE a >= b /\ a >= c
    BY <2>1
  <2>2. CASE b >= a /\ b >= c
    BY <2>2
  <2>3. CASE c >= a /\ c >= b
    BY <2>3
  <2> QED BY <2>1, <2>2, <2>3
<1>2. Max({a, b, c}) = CHOOSE m \in {a, b, c} : \A n \in {a, b, c} : m >= n
  BY DEF Max
<1> QED BY <1>1, <1>2

\* The smaller of two numbers.
LEMMA MinOfTwo ==
  ASSUME NEW a \in Nat, NEW b \in Nat
  PROVE  Min({a, b}) \in {a, b}
<1>1. \E m \in {a, b} : \A n \in {a, b} : m <= n
  <2>1. CASE a <= b
    BY <2>1
  <2>2. CASE b <= a
    BY <2>2
  <2> QED BY <2>1, <2>2
<1>2. Min({a, b}) = CHOOSE m \in {a, b} : \A n \in {a, b} : m <= n
  BY DEF Min
<1> QED BY <1>1, <1>2

LEMMA InitBInv == BudgetInit => BInv
  BY BudgetAssumption DEF BudgetInit, BInv, BudgetTypeOK, RowRemembers

\* A slot is granted when the row says it is free, and the row is put off by it.
LEMMA ReserveStep ==
  ASSUME BInv, NEW c \in Caller, Reserve(c)
  PROVE  /\ BInv'
         /\ \A d \in Caller : step[d] = "acquiring" /\ step'[d] = "posting"
              => time >= granted + Spacing /\ time >= limited + Cooldown
<1> USE BudgetAssumption DEF BInv
<1> DEFINE slot == Max({time, nextSlot, cooldownUntil})
<1>1. time \in Nat /\ nextSlot \in Nat /\ cooldownUntil \in Nat /\ granted \in Nat /\ limited \in Nat
  BY DEF BudgetTypeOK
<1>2. slot \in Nat /\ time <= slot /\ nextSlot <= slot /\ cooldownUntil <= slot
  BY <1>1, MaxOfThree
<1> HIDE DEF slot
<1>3. UNCHANGED <<time, cooldownUntil, left, limited>>
  BY DEF Reserve
<1>4. ASSUME slot = time
      PROVE  /\ nextSlot' = time + Spacing /\ granted' = time
             /\ step' = [step EXCEPT ![c] = "posting"] /\ wakeAt' = wakeAt
  BY <1>4 DEF Reserve, slot
<1>5. ASSUME slot # time
      PROVE  /\ wakeAt' = [wakeAt EXCEPT ![c] = time + Min({slot - time, MaxSleep})]
             /\ nextSlot' = nextSlot /\ granted' = granted /\ step' = step
  BY <1>5 DEF Reserve, slot
<1>6. slot # time => time + Min({slot - time, MaxSleep}) \in Nat
  <2> SUFFICES ASSUME slot # time PROVE time + Min({slot - time, MaxSleep}) \in Nat
    OBVIOUS
  <2>1. slot - time \in Nat
    BY <1>1, <1>2
  <2> QED BY <1>1, <2>1, MinOfTwo
<1>7. BudgetTypeOK'
  <2>1. CASE slot = time
    BY <1>1, <1>3, <1>4, <2>1 DEF BudgetTypeOK
  <2>2. CASE slot # time
    BY <1>1, <1>3, <1>5, <1>6, <2>2 DEF BudgetTypeOK
  <2> QED BY <2>1, <2>2
<1>8. RowRemembers'
  BY <1>1, <1>3, <1>4, <1>5 DEF RowRemembers
<1>9. slot = time => time >= granted + Spacing /\ time >= limited + Cooldown
  BY <1>1, <1>2 DEF RowRemembers
<1>10. \A d \in Caller : step[d] = "acquiring" /\ step'[d] = "posting" => slot = time
  BY <1>5
<1> QED BY <1>7, <1>8, <1>9, <1>10

\* A failed attempt grants no slot.
LEMMA RetryFacts ==
  ASSUME BudgetTypeOK, NEW c \in Caller, Retry(c)
  PROVE  /\ step' \in [Caller -> {"idle", "acquiring", "posting", "limited"}]
         /\ step'[c] # "posting" /\ \A d \in Caller \ {c} : step'[d] = step[d]
         /\ wakeAt' \in [Caller -> Nat] /\ left' \in [Caller -> 0..MaxAttempts]
<1> USE BudgetAssumption
<1>1. CASE left[c] > 1
  <2>1. left[c] - 1 \in 0..MaxAttempts /\ time \in Nat
    BY <1>1 DEF BudgetTypeOK
  <2> QED BY <1>1, <2>1 DEF Retry, BudgetTypeOK
<1>2. CASE ~(left[c] > 1)
  BY <1>2 DEF Retry, BudgetTypeOK
<1> QED BY <1>1, <1>2

\* Nobody else grants one, and a 429 is remembered.
LEMMA OtherSteps ==
  ASSUME BInv,
         \/ Advance
         \/ \E c \in Caller : Call(c) \/ Post(c) \/ Limited(c) \/ GiveUp(c)
         \/ UNCHANGED budgetVars
  PROVE  /\ BInv'
         /\ \A d \in Caller : ~(step[d] = "acquiring" /\ step'[d] = "posting")
<1> USE BudgetAssumption DEF BInv
<1>1. CASE Advance \/ UNCHANGED budgetVars
  BY <1>1 DEF Advance, budgetVars, callVars, BudgetTypeOK, RowRemembers
<1>2. ASSUME NEW c \in Caller, Call(c) \/ GiveUp(c)
      PROVE  /\ BInv'
             /\ \A d \in Caller : ~(step[d] = "acquiring" /\ step'[d] = "posting")
  <2>1. left' \in [Caller -> 0..MaxAttempts]
    BY <1>2 DEF Call, GiveUp, BudgetTypeOK
  <2>2. wakeAt' \in [Caller -> Nat]
    BY <1>2 DEF Call, GiveUp, BudgetTypeOK
  <2> QED BY <1>2, <2>1, <2>2 DEF Call, GiveUp, BudgetTypeOK, RowRemembers
<1>3. ASSUME NEW c \in Caller, Post(c)
      PROVE  /\ BInv'
             /\ \A d \in Caller : ~(step[d] = "acquiring" /\ step'[d] = "posting")
  <2>1. CASE Retry(c)
    BY <1>3, <2>1, RetryFacts DEF Post, BudgetTypeOK, RowRemembers
  <2>2. CASE ~Retry(c)
    BY <1>3, <2>2 DEF Post, BudgetTypeOK, RowRemembers
  <2> QED BY <2>1, <2>2
<1>4. ASSUME NEW c \in Caller, Limited(c)
      PROVE  /\ BInv'
             /\ \A d \in Caller : ~(step[d] = "acquiring" /\ step'[d] = "posting")
  <2>1. /\ time \in Nat /\ time + Cooldown \in Nat /\ cooldownUntil \in Nat
        /\ Retry(c) /\ step[c] = "limited"
        /\ cooldownUntil' = Max({cooldownUntil, time + Cooldown})
        /\ limited' = time /\ time' = time /\ nextSlot' = nextSlot /\ granted' = granted
    BY <1>4 DEF Limited, BudgetTypeOK
  <2>2. cooldownUntil' \in Nat /\ time + Cooldown <= cooldownUntil'
    BY <2>1, MaxOfTwo
  <2> QED BY <2>1, <2>2, RetryFacts DEF BudgetTypeOK, RowRemembers
<1> QED BY <1>1, <1>2, <1>3, <1>4

LEMMA StepBInv ==
  ASSUME BInv, [BudgetNext]_budgetVars
  PROVE  /\ BInv'
         /\ \A c \in Caller : step[c] = "acquiring" /\ step'[c] = "posting"
              => time >= granted + Spacing /\ time >= limited + Cooldown
<1>1. CASE \E c \in Caller : Reserve(c)
  BY <1>1, ReserveStep
<1>2. CASE ~\E c \in Caller : Reserve(c)
  BY <1>2, OtherSteps DEF BudgetNext
<1> QED BY <1>1, <1>2

\* Whoever calls and fails, the row of the budget remembers the last slot and the last
\* 429 (reserve_request, cooldown).
THEOREM BudgetInvariance == BudgetSpec => []BInv
  BY InitBInv, StepBInv, PTL DEF BudgetSpec

\* The variables of the budget and of its callers keep their kind.
THEOREM BudgetTypeCorrect == BudgetSpec => []BudgetTypeOK
<1>1. BInv => BudgetTypeOK
  BY DEF BInv
<1> QED BY <1>1, BudgetInvariance, PTL

\* Slots are Spacing apart and never within the cooldown after a 429, for any number of
\* processes that call the CRM (PaymentRequestLimiter.acquire, limited).
THEOREM BudgetIsKept == BudgetSpec => SlotsAreSpaced
<1>1. BInv /\ [BudgetNext]_budgetVars
        => [\A c \in Caller : step[c] = "acquiring" /\ step'[c] = "posting"
              => time >= granted + Spacing /\ time >= limited + Cooldown]_budgetVars
  BY StepBInv
<1> QED BY <1>1, BudgetInvariance, PTL DEF BudgetSpec, SlotsAreSpaced

-----------------------------------------------------------------------------
(* The client of a payment: the inductive invariant.                        *)

LeadCandidates == [kind : {"lead"}, id : OldLead, act : {"none"}, byAddress : BOOLEAN]
ContactCandidates ==
  [kind : {"contact"}, id : OldContact, act : {"none", "keep", "apply"}, byAddress : {FALSE}]
Candidates == LeadCandidates \cup ContactCandidates

\* A search finds the cards of others only, and only they are put to the employee.
CrmHolds ==
  /\ phoneContacts \subseteq OldContact /\ phoneLeads \subseteq OldLead
  /\ addressLeads \subseteq OldLead /\ conflicting \subseteq OldContact
  /\ asked \subseteq Candidates /\ chosen \in Candidates \cup {NoChoice}

\* What is remembered names its card; nobody is asked once a client is to be made.
SavedKnows ==
  /\ saved.type = "none" => saved = Nothing
  /\ saved.type = "lead" => saved.lead \in OldLead
  /\ saved.type \in {"contact", "contact_address"} => saved.contact \in OldContact
  /\ saved.type = "new" => chosen = NoChoice /\ status # "client_selection_required"
  /\ status = "none" => saved = Nothing /\ chosen = NoChoice

\* The leads whose contact may be made: the remembered one and those that were picked.
MadeFor(l) == l \in picked \/ (saved.type = "lead" /\ saved.lead = l)

\* Nothing is made before the resolution is remembered, and then for it.
MadeOnce ==
  /\ ~madeTwice
  /\ saved.type = "none" => contactsMade = {} /\ ~leadMade
  /\ saved.type = "new" => contactsMade \subseteq {None}
  /\ saved.type \notin {"none", "new"} => ~leadMade /\ \A l \in contactsMade : MadeFor(l)
  /\ chosen.kind = "lead" => chosen.id \in picked

\* A card with another address may get the selected one.
Agreed(c) == c \in conflicting => c \in approved \cup entered

Agreement ==
  /\ OverwriteIsChosen
  /\ saved.type = "contact_address" => Agreed(saved.contact)
  /\ chosen.act = "apply" => chosen.id \in approved

Searching == {"phone", "phoneLead", "address", "compare"}
Places == {"phone", "phoneLead", "address", "compare", "keep", "use", "apply", "applyLead", "lead",
           "compareLead", "leadContact", "new", "newContact", "link", "done"}

\* What a worker knows that is at a place with a contact and a lead.
MayBeAt(place, c, l) ==
  /\ place # "idle" => status = "resolving_client"
  /\ place \in Searching => saved = Nothing
  /\ place \in Searching \cup {"new"} => chosen = NoChoice
  /\ place = "new" => saved.type \in {"none", "new"}
  /\ place = "newContact" => saved.type = "new" /\ l = NewLead
  /\ saved.type = "new" => place \in {"idle", "new", "newContact", "link", "done"}
  /\ place \in {"compare", "keep", "use", "apply"} => c \in OldContact
  /\ place \in {"use", "apply", "applyLead"} => Agreed(c)
  /\ place \in {"lead", "leadContact"} => l \in OldLead
  /\ place = "lead" => saved = Nothing \/ MadeFor(l)
  /\ place = "leadContact" => saved # Nothing /\ MadeFor(l)
  /\ place \in {"compareLead", "applyLead"} => <<l, c>> \in linked
  /\ place = "link" => c \in Contacts /\ l \in Leads
  /\ place = "done" => c \in Contacts /\ (l # None => <<l, c>> \in linked)

WorkerKnows == MayBeAt(doing, atContact, atLead)

RInv ==
  /\ ResolutionTypeOK /\ CrmHolds /\ SavedKnows /\ MadeOnce /\ Agreement /\ WorkerKnows
  /\ ClientIsWhole

Resolutions == [type : {"none", "new", "lead", "contact_address", "contact"},
                contact : Contacts \cup {None}, lead : Leads \cup {None}, byAddress : BOOLEAN]

-----------------------------------------------------------------------------
(* The cards, and what is remembered of them.                               *)

LEMMA CardFacts ==
  /\ OldContact \subseteq Contacts /\ OldLead \subseteq Leads /\ NewLead \in Leads
  /\ NewContact \in Contacts /\ OldContact \subseteq Cards /\ OldLead \subseteq Cards
  /\ None \notin Contacts /\ None \notin Leads /\ None \in Cards
  BY CardAssumption DEF OldContact, OldLead, Contacts, Leads, Cards, None, NewLead, NewContact

\* A candidate is a lead, or a contact with what to do about its address.
LEMMA CandidateFacts ==
  ASSUME NEW x \in Candidates
  PROVE  /\ x.kind \in {"lead", "contact"} /\ x.act \in {"none", "keep", "apply"}
         /\ x.byAddress \in BOOLEAN /\ x # NoChoice
         /\ x.kind = "lead" => x.id \in OldLead /\ x.act = "none"
         /\ x.kind = "contact" => x.id \in OldContact
         /\ x \in [kind : {"none", "contact", "lead"}, id : Cards, act : {"none", "keep", "apply"},
                   byAddress : BOOLEAN]
<1>1. CASE x \in LeadCandidates
  BY <1>1, CardFacts DEF LeadCandidates, NoChoice
<1>2. CASE x \in ContactCandidates
  <2>1. x.kind = "contact" /\ x.id \in OldContact /\ x.act \in {"none", "keep", "apply"}
    BY <1>2 DEF ContactCandidates
  <2>2. x.byAddress = FALSE
    BY <1>2 DEF ContactCandidates
  <2>3. x \in [kind : {"none", "contact", "lead"}, id : Cards, act : {"none", "keep", "apply"},
              byAddress : BOOLEAN]
    <3>1. ContactCandidates \subseteq [kind : {"none", "contact", "lead"}, id : Cards,
                                     act : {"none", "keep", "apply"}, byAddress : BOOLEAN]
      BY CardFacts DEF ContactCandidates
    <3> QED BY <1>2, <3>1
  <2>4. x # NoChoice
    BY <2>1 DEF NoChoice
  <2> QED BY <2>1, <2>2, <2>3, <2>4
<1> QED BY <1>1, <1>2 DEF Candidates

LEMMA CandidatesAre ==
  /\ \A l \in OldLead, near \in BOOLEAN : Candidate("lead", l, "none", near) \in Candidates
  /\ \A c \in OldContact, act \in {"none", "keep", "apply"} :
       Candidate("contact", c, act, FALSE) \in Candidates
<1>1. \A l \in OldLead, near \in BOOLEAN : Candidate("lead", l, "none", near) \in LeadCandidates
  BY DEF Candidate, LeadCandidates
<1>2. \A c \in OldContact, act \in {"none", "keep", "apply"} :
        Candidate("contact", c, act, FALSE) \in ContactCandidates
  BY DEF Candidate, ContactCandidates
<1> QED BY <1>1, <1>2 DEF Candidates

LEMMA ChoicesTyped ==
  ASSUME NEW shown, shown \subseteq Candidates, NEW choice \in Candidates \cup {NoChoice}
  PROVE  shown \cup {choice} \subseteq [kind : {"none", "contact", "lead"}, id : Cards,
                                      act : {"none", "keep", "apply"}, byAddress : BOOLEAN]
<1>1. NoChoice \in [kind : {"none", "contact", "lead"}, id : Cards,
                   act : {"none", "keep", "apply"}, byAddress : BOOLEAN]
  BY CardFacts DEF NoChoice
<1> QED BY <1>1, CandidateFacts

LEMMA NothingFacts ==
  /\ Nothing \in Resolutions /\ Nothing.type = "none"
  /\ NoChoice.kind = "none" /\ NoChoice.act = "none"
  BY DEF Nothing, Resolutions, NoChoice

\* What a lookup leaves alone, one by one.
LEMMA LookupFacts ==
  ASSUME Lookup
  PROVE  /\ UNCHANGED <<phoneContacts, phoneLeads, addressLeads, conflicting, leadMade, contactsMade,
                        madeTwice, hasAddress, contact, lead, overwritten>>
         /\ UNCHANGED <<picked, approved, entered, edits, failures>>
  BY DEF Lookup, crmVars, madeVars, clientVars, historyVars, boundVars

\* A worker moves on; what it remembers and links is for somebody else to say.
LEMMA Moved ==
  ASSUME RInv, Lookup, UNCHANGED <<asked, chosen>>, status' \in {status, "resolving_client"},
         NEW place \in Places, NEW c \in Contacts \cup {None}, NEW l \in Leads \cup {None},
         NEW near \in BOOLEAN, Goto(place, c, l, near),
         linked \subseteq linked', linked' \subseteq Leads \X Contacts,
         saved' \in Resolutions, SavedKnows', MadeOnce',
         saved'.type = "contact_address" => Agreed(saved'.contact),
         MayBeAt(place, c, l)'
  PROVE  RInv'
<1> USE DEF RInv
<1>1. /\ UNCHANGED <<phoneContacts, phoneLeads, addressLeads, conflicting, leadMade, contactsMade,
                     madeTwice, hasAddress, contact, lead, overwritten>>
      /\ UNCHANGED <<picked, approved, entered, edits, failures>>
  BY LookupFacts
<1>2. doing' = place /\ atContact' = c /\ atLead' = l /\ byAddress' = near
  BY DEF Goto
<1>3. ResolutionTypeOK'
  BY <1>1, <1>2 DEF ResolutionTypeOK, Places, Resolutions
<1>4. CrmHolds'
  BY <1>1 DEF CrmHolds
<1>5. Agreement'
  BY <1>1 DEF Agreement, OverwriteIsChosen, Agreed
<1>6. WorkerKnows'
  BY <1>2 DEF WorkerKnows, MayBeAt
<1>7. ClientIsWhole'
  BY <1>1 DEF ClientIsWhole
<1> QED BY <1>3, <1>4, <1>5, <1>6, <1>7

\* The usual case: nothing is remembered and nothing linked.
LEMMA Stepped ==
  ASSUME RInv, doing # "idle", Lookup,
         NEW place \in Places, NEW c \in Contacts \cup {None}, NEW l \in Leads \cup {None},
         NEW near \in BOOLEAN, Step(place, c, l, near), MayBeAt(place, c, l)
  PROVE  RInv'
<1> USE DEF RInv
<1>1. Goto(place, c, l, near) /\ UNCHANGED <<linked, status, saved, asked, chosen>>
  BY DEF Step
<1>2. UNCHANGED <<conflicting, leadMade, contactsMade, madeTwice, picked, approved, entered>>
  BY LookupFacts
<1>3. SavedKnows' /\ MadeOnce'
  BY <1>1, <1>2 DEF SavedKnows, MadeOnce, MadeFor
<1>4. MayBeAt(place, c, l)'
  BY <1>1, <1>2 DEF MayBeAt, MadeFor, Agreed
<1>5. /\ saved' \in Resolutions /\ linked' \subseteq Leads \X Contacts
      /\ saved'.type = "contact_address" => Agreed(saved'.contact)
  BY <1>1 DEF ResolutionTypeOK, Resolutions, Agreement
<1> QED BY <1>1, <1>3, <1>4, <1>5, Moved

\* The employee is asked, and the worker leaves.
LEMMA Asked ==
  ASSUME RInv, doing # "idle", saved.type # "new", Lookup, NEW shown, shown \subseteq Candidates,
         Ask(shown)
  PROVE  RInv'
<1> USE DEF RInv
<1>1. /\ UNCHANGED <<phoneContacts, phoneLeads, addressLeads, conflicting, leadMade, contactsMade,
                     madeTwice, hasAddress, contact, lead, overwritten>>
      /\ UNCHANGED <<picked, approved, entered, edits, failures>>
  BY LookupFacts
<1>2. /\ status' = "client_selection_required" /\ asked' = shown /\ chosen' = NoChoice
      /\ UNCHANGED <<linked, saved>>
      /\ doing' = "idle" /\ atContact' = None /\ atLead' = None /\ byAddress' = FALSE
  BY DEF Ask, Leave, Goto
<1>3. ResolutionTypeOK'
  <2>1. asked' \cup {chosen'} \subseteq [kind : {"none", "contact", "lead"}, id : Cards,
                                      act : {"none", "keep", "apply"}, byAddress : BOOLEAN]
    BY <1>2, ChoicesTyped
  <2>2. /\ status' \in {"none", "draft", "resolving_client", "client_selection_required",
                       "client_resolved"}
        /\ doing' \in {"idle", "phone", "phoneLead", "address", "compare", "keep", "use", "apply",
                     "applyLead", "lead", "compareLead", "leadContact", "new", "newContact", "link", "done"}
        /\ atContact' \in Contacts \cup {None} /\ atLead' \in Leads \cup {None}
        /\ byAddress' \in BOOLEAN
    BY <1>2
  <2> QED BY SMTT(30), <1>1, <1>2, <2>1, <2>2 DEF ResolutionTypeOK
<1>4. CrmHolds'
  BY <1>1, <1>2 DEF CrmHolds
<1>5. SavedKnows' /\ MadeOnce' /\ Agreement'
  BY <1>1, <1>2, NothingFacts DEF SavedKnows, MadeOnce, MadeFor, Agreement, OverwriteIsChosen, Agreed
<1>6. WorkerKnows'
  BY <1>1, <1>2 DEF WorkerKnows, MayBeAt, Searching
<1>7. ClientIsWhole'
  BY <1>2 DEF ClientIsWhole
<1> QED BY <1>3, <1>4, <1>5, <1>6, <1>7

\* The first resolution is remembered; nothing was made before it.
LEMMA RememberedFirst ==
  ASSUME RInv, doing # "idle", saved.type # "new", Lookup, UNCHANGED <<status, chosen>>,
         NEW type \in {"lead", "contact", "contact_address"},
         NEW c \in Contacts \cup {None}, NEW l \in Leads \cup {None}, NEW near \in BOOLEAN,
         Remember(type, c, l, near),
         type = "lead" => l \in OldLead, type # "lead" => c \in OldContact,
         type = "contact_address" => Agreed(c)
  PROVE  /\ saved' \in Resolutions /\ SavedKnows' /\ MadeOnce'
         /\ saved'.type = "contact_address" => Agreed(saved'.contact)
         /\ saved'.type \notin {"none", "new"} /\ saved' # Nothing
         /\ IF saved = Nothing THEN saved'.type = type /\ saved'.lead = l ELSE saved' = saved
<1> USE DEF RInv
<1>1. UNCHANGED <<conflicting, leadMade, contactsMade, madeTwice, picked, approved, entered>>
  BY LookupFacts
<1>2. status = "resolving_client"
  BY DEF WorkerKnows, MayBeAt
<1>3. CASE saved = Nothing
  <2>1. saved' = [type |-> type, contact |-> c, lead |-> l, byAddress |-> near]
    BY <1>3 DEF Remember
  <2>2. /\ saved' \in Resolutions /\ saved'.type = type /\ saved'.contact = c /\ saved'.lead = l
        /\ saved' # Nothing
    BY <2>1, NothingFacts DEF Resolutions
  <2>3. SavedKnows'
    BY <1>2, <2>2 DEF SavedKnows
  <2>4. MadeOnce'
    BY <1>1, <1>3, <2>2, NothingFacts DEF MadeOnce
  <2> QED BY <1>3, <2>2, <2>3, <2>4
<1>4. CASE saved # Nothing
  <2>1. saved' = saved /\ saved.type \notin {"none", "new"}
    BY <1>4 DEF Remember, SavedKnows
  <2>2. SavedKnows' /\ MadeOnce'
    BY <1>1, <2>1 DEF SavedKnows, MadeOnce, MadeFor
  <2> QED BY <1>4, <2>1, <2>2 DEF ResolutionTypeOK, Resolutions, Agreement
<1> QED BY <1>3, <1>4

-----------------------------------------------------------------------------
(* The steps of a worker.                                                   *)

LEMMA AttemptStep == ASSUME RInv, Attempt PROVE RInv'
<1> USE DEF RInv
<1>1. /\ Lookup /\ UNCHANGED <<linked, saved, asked, chosen>> /\ status' = "resolving_client"
      /\ status \in {"draft", "resolving_client"} /\ doing = "idle"
  BY DEF Attempt
<1>2. UNCHANGED <<conflicting, leadMade, contactsMade, madeTwice, picked, approved, entered>>
  BY <1>1, LookupFacts
<1>3. SavedKnows' /\ MadeOnce'
  BY <1>1, <1>2 DEF SavedKnows, MadeOnce, MadeFor
<1>4. /\ saved' \in Resolutions /\ linked' \subseteq Leads \X Contacts
      /\ saved'.type = "contact_address" => Agreed(saved'.contact)
      /\ saved.contact \in Contacts \cup {None} /\ saved.lead \in Leads \cup {None}
      /\ saved.byAddress \in BOOLEAN
      /\ saved.type \in {"none", "new", "lead", "contact_address", "contact"}
  BY <1>1 DEF ResolutionTypeOK, Resolutions, Agreement
<1>5. ASSUME NEW place \in Places, NEW c \in Contacts \cup {None}, NEW l \in Leads \cup {None},
             NEW near \in BOOLEAN, Goto(place, c, l, near), MayBeAt(place, c, l)'
      PROVE  RInv'
  BY <1>1, <1>3, <1>4, <1>5, Moved
<1>6. CASE chosen # NoChoice
  <2>1. chosen \in Candidates /\ saved.type # "new"
    BY <1>6 DEF CrmHolds, SavedKnows
  <2>2. CASE chosen.kind = "lead"
    <3>1. /\ chosen.id \in OldLead /\ chosen.id \in picked /\ chosen.act # "apply"
          /\ chosen.byAddress \in BOOLEAN
      BY <2>1, <2>2, CandidateFacts DEF MadeOnce
    <3>2. PICK l \in OldLead, near \in BOOLEAN :
            Goto("lead", None, l, near) /\ l \in picked
      BY <1>6, <2>2, <3>1 DEF Attempt
    <3>3. MayBeAt("lead", None, l)'
      BY <1>1, <1>2, <2>1, <3>1, <3>2 DEF MayBeAt, MadeFor, Searching
    <3>4. "lead" \in Places /\ l \in Leads
      BY CardFacts DEF Places
    <3> QED BY <1>5, <3>2, <3>3, <3>4
  <2>3. CASE chosen.kind # "lead" /\ chosen.act = "apply"
    <3>1. chosen.id \in OldContact /\ chosen.id \in approved
      BY <2>1, <2>3, CandidateFacts DEF Agreement
    <3>2. PICK c \in OldContact : Goto("use", c, None, FALSE) /\ c \in approved
      BY <1>6, <2>3, <3>1 DEF Attempt
    <3>3. MayBeAt("use", c, None)'
      BY <1>1, <1>2, <2>1, <3>2 DEF MayBeAt, Agreed, Searching
    <3>4. "use" \in Places /\ c \in Contacts
      BY CardFacts DEF Places
    <3> QED BY <1>5, <3>2, <3>3, <3>4
  <2>4. CASE chosen.kind # "lead" /\ chosen.act # "apply"
    <3>1. chosen.id \in OldContact
      BY <2>1, <2>4, CandidateFacts
    <3>2. PICK c \in OldContact : Goto("keep", c, None, FALSE)
      BY <1>6, <2>4, <3>1 DEF Attempt
    <3>3. MayBeAt("keep", c, None)'
      BY <1>1, <2>1 DEF MayBeAt, Searching
    <3>4. "keep" \in Places /\ c \in Contacts
      BY CardFacts DEF Places
    <3> QED BY <1>5, <3>2, <3>3, <3>4
  <2> QED BY <2>2, <2>3, <2>4
<1>7. CASE chosen = NoChoice
  <2>1. CASE saved.type = "new"
    <3>1. Goto("new", None, None, FALSE)
      BY <1>7, <2>1 DEF Attempt
    <3>2. MayBeAt("new", None, None)' /\ "new" \in Places
      BY <1>1, <1>7, <2>1 DEF MayBeAt, Searching, Places
    <3> QED BY <1>5, <3>1, <3>2
  <2>2. CASE saved.type = "lead"
    <3>1. PICK l \in OldLead, near \in BOOLEAN :
            Goto("lead", None, l, near) /\ l = saved.lead
      BY <1>4, <1>7, <2>2 DEF Attempt, SavedKnows
    <3>2. MayBeAt("lead", None, l)' /\ "lead" \in Places /\ l \in Leads
      BY <1>1, <2>2, <3>1, CardFacts DEF MayBeAt, MadeFor, Searching, Places
    <3> QED BY <1>5, <3>1, <3>2
  <2>3. CASE saved.type = "contact_address"
    <3>1. PICK c \in OldContact, l \in Leads \cup {None} :
            Goto("use", c, l, FALSE) /\ c = saved.contact
      BY <1>4, <1>7, <2>3 DEF Attempt, SavedKnows
    <3>2. MayBeAt("use", c, l)' /\ "use" \in Places /\ c \in Contacts
      BY <1>1, <1>2, <2>3, <3>1, CardFacts DEF MayBeAt, Agreed, Agreement, Searching, Places
    <3> QED BY <1>5, <3>1, <3>2
  <2>4. CASE saved.type = "contact"
    <3>1. PICK c \in OldContact : Goto("keep", c, None, FALSE)
      BY <1>7, <2>4 DEF Attempt, SavedKnows
    <3>2. MayBeAt("keep", c, None)' /\ "keep" \in Places /\ c \in Contacts
      BY <1>1, <2>4, <3>1, CardFacts DEF MayBeAt, Searching, Places
    <3> QED BY <1>5, <3>1, <3>2
  <2>5. CASE saved.type = "none"
    <3>1. Goto("phone", None, None, FALSE)
      BY <1>7, <2>5 DEF Attempt
    <3>2. MayBeAt("phone", None, None)' /\ "phone" \in Places
      BY <1>1, <1>7, <2>5, NothingFacts DEF MayBeAt, Searching, Places, SavedKnows
    <3> QED BY <1>5, <3>1, <3>2
  <2> QED BY <1>4, <2>1, <2>2, <2>3, <2>4, <2>5
<1> QED BY <1>6, <1>7

\* A search goes on with the card it found, or asks.
LEMMA SearchSteps ==
  ASSUME RInv, SearchContacts \/ SearchLeads \/ SearchAddress
  PROVE  RInv'
<1> USE DEF RInv
<1>1. /\ doing \in {"phone", "phoneLead", "address"} /\ Lookup
      /\ status = "resolving_client" /\ saved = Nothing /\ chosen = NoChoice
  BY DEF SearchContacts, SearchLeads, SearchAddress, WorkerKnows, MayBeAt, Searching
<1>2. saved.type = "none" /\ FALSE \in BOOLEAN /\ TRUE \in BOOLEAN
  BY <1>1, NothingFacts
<1>3. ASSUME NEW shown, shown \subseteq Candidates, Ask(shown) PROVE RInv'
  BY <1>1, <1>2, <1>3, Asked
<1>4. ASSUME NEW place \in {"phoneLead", "address", "new"}, Step(place, None, None, FALSE) PROVE RInv'
  <2>1. MayBeAt(place, None, None) /\ place \in Places
    BY <1>1, <1>2 DEF MayBeAt, Searching, Places
  <2> QED BY <1>1, <1>2, <1>4, <2>1, Stepped
<1>5. ASSUME NEW c \in OldContact, NEW place \in {"compare", "keep"}, Step(place, c, None, FALSE)
      PROVE  RInv'
  <2>1. MayBeAt(place, c, None) /\ place \in Places /\ c \in Contacts
    BY <1>1, <1>2, <1>5, CardFacts DEF MayBeAt, Searching, Places
  <2> QED BY <1>1, <1>2, <1>5, <2>1, Stepped
<1>6. ASSUME NEW l \in OldLead, NEW near \in BOOLEAN, Step("lead", None, l, near) PROVE RInv'
  <2>1. MayBeAt("lead", None, l) /\ "lead" \in Places /\ l \in Leads
    BY <1>1, <1>2, <1>6, CardFacts DEF MayBeAt, Searching, Places
  <2> QED BY <1>1, <1>6, <2>1, Stepped
<1>7. CASE SearchContacts
  <2>1. CASE Cardinality(phoneContacts) > 1
    <3>1. Ask({Candidate("contact", c, "none", FALSE) : c \in phoneContacts})
      <4>1. phoneContacts # {}
        BY <2>1, FS_EmptySet
      <4> QED BY <1>7, <2>1, <4>1, Zenon DEF SearchContacts
    <3>2. {Candidate("contact", c, "none", FALSE) : c \in phoneContacts} \subseteq Candidates
      BY CandidatesAre DEF CrmHolds
    <3> QED BY <1>3, <3>1, <3>2
  <2>2. CASE ~(Cardinality(phoneContacts) > 1) /\ phoneContacts = {}
    BY <1>4, <1>7, <2>2 DEF SearchContacts
  <2>3. CASE ~(Cardinality(phoneContacts) > 1) /\ phoneContacts # {}
    BY <1>5, <1>7, <2>3 DEF SearchContacts, CrmHolds
  <2> QED BY <2>1, <2>2, <2>3
<1>8. CASE SearchLeads
  <2>1. CASE Cardinality(phoneLeads) > 1
    <3>1. Ask({Candidate("lead", l, "none", FALSE) : l \in phoneLeads})
      <4>1. phoneLeads # {}
        BY <2>1, FS_EmptySet
      <4> QED BY <1>8, <2>1, <4>1, Zenon DEF SearchLeads
    <3>2. {Candidate("lead", l, "none", FALSE) : l \in phoneLeads} \subseteq Candidates
      BY <1>2, CandidatesAre DEF CrmHolds
    <3> QED BY <1>3, <3>1, <3>2
  <2>2. CASE ~(Cardinality(phoneLeads) > 1) /\ phoneLeads = {}
    BY <1>4, <1>8, <2>2 DEF SearchLeads
  <2>3. CASE ~(Cardinality(phoneLeads) > 1) /\ phoneLeads # {}
    <3>1. PICK l \in phoneLeads : Step("lead", None, l, FALSE)
      BY <1>8, <2>3 DEF SearchLeads
    <3> QED BY <1>2, <1>6, <3>1 DEF CrmHolds
  <2> QED BY <2>1, <2>2, <2>3
<1>9. CASE SearchAddress
  <2>1. CASE Cardinality(addressLeads) > 1
    <3>1. Ask({Candidate("lead", l, "none", TRUE) : l \in addressLeads})
      <4>1. addressLeads # {}
        BY <2>1, FS_EmptySet
      <4> QED BY <1>9, <2>1, <4>1, Zenon DEF SearchAddress, AskLeads
    <3>2. {Candidate("lead", l, "none", TRUE) : l \in addressLeads} \subseteq Candidates
      BY <1>2, CandidatesAre DEF CrmHolds
    <3> QED BY <1>3, <3>1, <3>2
  <2>2. CASE ~(Cardinality(addressLeads) > 1) /\ addressLeads = {}
    BY <1>4, <1>9, <2>2 DEF SearchAddress
  <2>3. CASE ~(Cardinality(addressLeads) > 1) /\ addressLeads # {}
    <3>1. PICK l \in addressLeads : Step("lead", None, l, TRUE)
      BY <1>9, <2>3 DEF SearchAddress
    <3> QED BY <1>2, <1>6, <3>1 DEF CrmHolds
  <2> QED BY <2>1, <2>2, <2>3
<1> QED BY <1>7, <1>8, <1>9

\* A card that says otherwise is a question unless the employee answered it before.
LEMMA CompareSteps == ASSUME RInv, Compare \/ CompareLead PROVE RInv'
<1> USE DEF RInv
<1>1. /\ doing \in {"compare", "compareLead"} /\ Lookup /\ status = "resolving_client"
      /\ saved.type # "new" /\ atContact \in Contacts /\ FALSE \in BOOLEAN
      /\ doing = "compare" => atContact \in OldContact /\ saved = Nothing /\ chosen = NoChoice
      /\ doing = "compareLead" => <<atLead, atContact>> \in linked /\ atLead \in Leads
  <2>1. linked \subseteq Leads \X Contacts
    BY DEF ResolutionTypeOK
  <2> QED BY <2>1, CardFacts DEF Compare, CompareLead, WorkerKnows, MayBeAt, Searching
<1>2. CASE atContact \in conflicting
  <2> DEFINE shown == {Candidate("contact", atContact, "keep", FALSE),
                       Candidate("contact", atContact, "apply", FALSE)}
  <2>1. Ask(shown)
    BY <1>2 DEF Compare, CompareLead, AskAddress
  <2>2. shown \subseteq Candidates
    BY <1>2, CandidatesAre DEF CrmHolds
  <2> HIDE DEF shown
  <2> QED BY <1>1, <2>1, <2>2, Asked
<1>3. CASE atContact \notin conflicting /\ doing = "compare"
  <2>1. PICK c \in OldContact : Step("use", c, None, FALSE) /\ c = atContact
    BY <1>1, <1>3 DEF Compare, CompareLead
  <2>2. MayBeAt("use", c, None) /\ "use" \in Places /\ c \in Contacts
    BY <1>1, <1>3, <2>1, CardFacts DEF MayBeAt, Agreed, Searching, Places
  <2> QED BY <1>1, <2>1, <2>2, Stepped
<1>4. CASE atContact \notin conflicting /\ doing = "compareLead"
  <2>1. PICK c \in Contacts, l \in Leads, near \in BOOLEAN :
          Step("applyLead", c, l, near) /\ c = atContact /\ l = atLead
    BY <1>1, <1>4 DEF Compare, CompareLead, ResolutionTypeOK
  <2>2. MayBeAt("applyLead", c, l) /\ "applyLead" \in Places
    BY <1>1, <1>4, <2>1 DEF MayBeAt, Agreed, Searching, Places
  <2> QED BY <1>1, <2>1, <2>2, Stepped
<1> QED BY <1>1, <1>2, <1>3, <1>4

\* The client is decided and remembered: the contact, with its address or without, or
\* the lead.
LEMMA DecidingSteps == ASSUME RInv, KeepContact \/ UseContact \/ ResolveLead PROVE RInv'
<1> USE DEF RInv
<1>1. /\ doing \in {"keep", "use", "lead"} /\ Lookup /\ status = "resolving_client"
      /\ saved.type # "new" /\ linked \subseteq Leads \X Contacts
      /\ atContact \in Contacts \cup {None} /\ atLead \in Leads \cup {None}
      /\ byAddress \in BOOLEAN /\ FALSE \in BOOLEAN
  BY DEF KeepContact, UseContact, ResolveLead, WorkerKnows, MayBeAt, ResolutionTypeOK
<1>2. UNCHANGED <<conflicting, picked, approved, entered>>
  BY <1>1, LookupFacts
<1>3. CASE KeepContact
  <2>1. /\ UNCHANGED <<linked, status, asked, chosen>> /\ atContact \in OldContact
        /\ Remember("contact", atContact, None, FALSE) /\ Goto("done", atContact, None, FALSE)
    BY <1>3 DEF KeepContact, WorkerKnows, MayBeAt
  <2>2. /\ saved' \in Resolutions /\ SavedKnows' /\ MadeOnce'
        /\ saved'.type = "contact_address" => Agreed(saved'.contact)
        /\ saved'.type # "new"
    BY <1>1, <2>1, RememberedFirst
  <2>3. PICK c \in OldContact : Goto("done", c, None, FALSE)
    BY <2>1
  <2>4. MayBeAt("done", c, None)' /\ "done" \in Places /\ c \in Contacts
    BY <1>1, <2>1, <2>2, CardFacts DEF MayBeAt, Searching, Places
  <2> QED BY <1>1, <2>1, <2>2, <2>3, <2>4, Moved
<1>4. CASE UseContact
  <2>1. atContact \in OldContact /\ Agreed(atContact)
    BY <1>4 DEF UseContact, WorkerKnows, MayBeAt
  <2>2. CASE atLead = None /\ Cardinality(addressLeads) > 1
    <3>1. Ask({Candidate("lead", l, "none", TRUE) : l \in addressLeads})
      BY <1>4, <2>2 DEF UseContact, AskLeads
    <3>2. {Candidate("lead", l, "none", TRUE) : l \in addressLeads} \subseteq Candidates
      BY <1>1, CandidatesAre DEF CrmHolds
    <3> QED BY <1>1, <3>1, <3>2, Asked
  <2>3. CASE ~(atLead = None /\ Cardinality(addressLeads) > 1)
    <3>1. PICK l \in IF atLead = None /\ addressLeads # {} THEN addressLeads ELSE {atLead} :
            /\ Remember("contact_address", atContact, l, FALSE)
            /\ Goto("apply", atContact, l, FALSE)
      BY <1>4, <2>3 DEF UseContact
    <3>2. UNCHANGED <<linked, status, asked, chosen>> /\ l \in Leads \cup {None}
      BY <1>1, <1>4, <2>3, <3>1, CardFacts DEF UseContact, CrmHolds
    <3>3. /\ saved' \in Resolutions /\ SavedKnows' /\ MadeOnce'
          /\ saved'.type = "contact_address" => Agreed(saved'.contact)
          /\ saved'.type # "new"
      BY <1>1, <2>1, <3>1, <3>2, RememberedFirst
    <3>4. PICK c \in OldContact : Goto("apply", c, l, FALSE) /\ c = atContact
      BY <2>1, <3>1
    <3>5. MayBeAt("apply", c, l)' /\ "apply" \in Places /\ c \in Contacts
      BY <1>1, <1>2, <2>1, <3>2, <3>3, <3>4, CardFacts DEF MayBeAt, Agreed, Searching, Places
    <3> QED BY <1>1, <3>2, <3>3, <3>4, <3>5, Moved
  <2> QED BY <2>2, <2>3
<1>5. CASE ResolveLead
  <2>1. /\ UNCHANGED <<linked, status, asked, chosen>> /\ atLead \in OldLead
        /\ Remember("lead", None, atLead, byAddress)
        /\ saved = Nothing \/ MadeFor(atLead)
    BY <1>5 DEF ResolveLead, WorkerKnows, MayBeAt
  <2>2. /\ saved' \in Resolutions /\ SavedKnows' /\ MadeOnce'
        /\ saved'.type = "contact_address" => Agreed(saved'.contact)
        /\ saved'.type # "new" /\ saved' # Nothing
        /\ IF saved = Nothing THEN saved'.type = "lead" /\ saved'.lead = atLead ELSE saved' = saved
    BY <1>1, <2>1, RememberedFirst
  <2>3. CASE ContactsOf(atLead) = {}
    <3>1. PICK l \in OldLead, near \in BOOLEAN : Goto("leadContact", None, l, near) /\ l = atLead
      BY <1>1, <1>5, <2>1, <2>3 DEF ResolveLead
    <3>2. MayBeAt("leadContact", None, l)' /\ "leadContact" \in Places /\ l \in Leads
      BY <1>1, <1>2, <2>1, <2>2, <3>1, CardFacts DEF MayBeAt, MadeFor, Searching, Places
    <3> QED BY <1>1, <2>1, <2>2, <3>1, <3>2, Moved
  <2>4. CASE ContactsOf(atLead) # {}
    <3>1. PICK c \in ContactsOf(atLead) :
            Goto(IF byAddress THEN "compareLead" ELSE "done", c, atLead, byAddress)
      BY <1>5, <2>4 DEF ResolveLead
    <3>2. PICK l \in OldLead, near \in BOOLEAN, place \in {"compareLead", "done"} :
            Goto(place, c, l, near) /\ l = atLead
      BY <1>1, <2>1, <3>1
    <3>3. c \in Contacts /\ <<l, c>> \in linked
      BY <3>1, <3>2 DEF ContactsOf
    <3>4. MayBeAt(place, c, l)' /\ place \in Places /\ l \in Leads
      BY <1>1, <2>1, <2>2, <3>3, CardFacts DEF MayBeAt, Searching, Places
    <3> QED BY <1>1, <2>1, <2>2, <3>2, <3>3, <3>4, Moved
  <2> QED BY <2>3, <2>4
<1> QED BY <1>3, <1>4, <1>5

LEMMA LinkStep == ASSUME RInv, Link PROVE RInv'
<1> USE DEF RInv
<1>1. /\ doing = "link" /\ Lookup /\ status = "resolving_client"
      /\ UNCHANGED <<status, saved, asked, chosen>>
      /\ atContact \in Contacts /\ atLead \in Leads
      /\ linked' = linked \cup {<<atLead, atContact>>} /\ linked \subseteq Leads \X Contacts
  BY DEF Link, WorkerKnows, MayBeAt, ResolutionTypeOK
<1>2. UNCHANGED <<conflicting, leadMade, contactsMade, madeTwice, picked, approved, entered>>
  BY <1>1, LookupFacts
<1>3. SavedKnows' /\ MadeOnce'
  BY <1>1, <1>2 DEF SavedKnows, MadeOnce, MadeFor
<1>4. /\ saved' \in Resolutions /\ linked \subseteq linked' /\ linked' \subseteq Leads \X Contacts
      /\ saved'.type = "contact_address" => Agreed(saved'.contact)
  BY <1>1 DEF ResolutionTypeOK, Resolutions, Agreement
<1>5. PICK c \in Contacts, l \in Leads : Goto("done", c, l, FALSE) /\ <<l, c>> \in linked'
  BY <1>1 DEF Link
<1>6. MayBeAt("done", c, l)' /\ "done" \in Places
  BY <1>1, <1>5 DEF MayBeAt, Searching, Places
<1> QED BY <1>1, <1>3, <1>4, <1>5, <1>6, Moved

\* Only an address is replaced that may be.
LEMMA ApplyAddressStep == ASSUME RInv, ApplyAddress PROVE RInv'
<1> USE DEF RInv
<1>1. /\ UNCHANGED <<phoneContacts, phoneLeads, addressLeads, linked, leadMade, contactsMade, madeTwice,
                     status, hasAddress, saved, asked, contact, lead, chosen>>
      /\ UNCHANGED <<picked, approved, entered, edits, failures>>
  BY DEF ApplyAddress, Step, crmVars, madeVars, clientVars, historyVars, boundVars
<1>2. /\ doing \in {"apply", "applyLead"} /\ atContact \in Contacts /\ Agreed(atContact)
      /\ doing = "applyLead" => <<atLead, atContact>> \in linked
      /\ status = "resolving_client" /\ saved.type # "new"
  <2>1. linked \subseteq Leads \X Contacts
    BY DEF ResolutionTypeOK
  <2> QED BY <2>1, CardFacts DEF ApplyAddress, WorkerKnows, MayBeAt
<1>3. /\ conflicting' = conflicting \ {atContact}
      /\ overwritten' = overwritten \cup ({atContact} \cap conflicting)
      /\ doing' = (IF atLead = None \/ doing = "applyLead" THEN "done" ELSE "link")
      /\ atContact' = atContact /\ atLead' = atLead /\ byAddress' = FALSE
  BY DEF ApplyAddress, Step, Goto
<1>4. ResolutionTypeOK'
  <2>1. conflicting' \subseteq Contacts /\ approved' \cup entered' \cup overwritten' \subseteq Contacts
    BY <1>1, <1>3 DEF ResolutionTypeOK
  <2>2. doing' \in {"idle", "phone", "phoneLead", "address", "compare", "keep", "use", "apply",
                   "applyLead", "lead", "compareLead", "leadContact", "new", "newContact", "link", "done"}
    BY <1>3
  <2>3. /\ atContact' \in Contacts \cup {None} /\ atLead' \in Leads \cup {None}
        /\ byAddress' \in BOOLEAN
    BY <1>3 DEF ResolutionTypeOK
  <2>4. asked' \cup {chosen'} = asked \cup {chosen}
    BY <1>1
  <2> QED BY <1>1, <2>1, <2>2, <2>3, <2>4 DEF ResolutionTypeOK
<1>5. CrmHolds' /\ SavedKnows' /\ MadeOnce'
  BY <1>1, <1>3 DEF CrmHolds, SavedKnows, MadeOnce, MadeFor
<1>6. Agreement'
  BY <1>1, <1>2, <1>3 DEF Agreement, OverwriteIsChosen, Agreed
<1>7. WorkerKnows'
  <2>1. atContact \in Contacts /\ atLead \in Leads \cup {None}
    BY <1>2, CardFacts DEF ResolutionTypeOK
  <2> QED BY <1>1, <1>2, <1>3, <2>1 DEF WorkerKnows, MayBeAt, Searching
<1>8. ClientIsWhole'
  BY <1>1 DEF ClientIsWhole
<1> QED BY <1>4, <1>5, <1>6, <1>7, <1>8

\* A contact, or a lead, is made for what is remembered or was picked.
LEMMA MakingSteps == ASSUME RInv, LeadContact \/ CreateLead \/ CreateContact PROVE RInv'
<1> USE DEF RInv
<1>1. /\ UNCHANGED <<phoneContacts, phoneLeads, addressLeads, linked, conflicting, status, hasAddress,
                     asked, contact, lead, chosen, overwritten>>
      /\ UNCHANGED <<picked, approved, entered, edits, failures>>
  BY DEF LeadContact, CreateLead, CreateContact, Step, crmVars, clientVars, historyVars, boundVars
<1>2. CASE LeadContact
  <2>1. /\ doing = "leadContact" /\ atLead \in OldLead /\ MadeFor(atLead) /\ saved # Nothing
        /\ status = "resolving_client" /\ saved.type \notin {"none", "new"}
    BY <1>2 DEF LeadContact, WorkerKnows, MayBeAt, SavedKnows
  <2>2. /\ UNCHANGED <<leadMade, saved, madeTwice>> /\ contactsMade' = contactsMade \cup {atLead}
        /\ doing' = "link" /\ atContact' = NewContact /\ atLead' = atLead /\ byAddress' = FALSE
    BY <1>2 DEF LeadContact, MakeContact, Step, Goto, MadeOnce, ResolutionTypeOK
  <2>3. ResolutionTypeOK'
    <3>1. contactsMade' \subseteq OldLead \cup {None}
      BY <2>1, <2>2 DEF ResolutionTypeOK
    <3>2. /\ doing' \in {"idle", "phone", "phoneLead", "address", "compare", "keep", "use", "apply",
                       "applyLead", "lead", "compareLead", "leadContact", "new", "newContact", "link", "done"}
          /\ atContact' \in Contacts \cup {None} /\ atLead' \in Leads \cup {None}
          /\ byAddress' \in BOOLEAN
      BY <2>1, <2>2, CardFacts
    <3>3. asked' \cup {chosen'} = asked \cup {chosen}
      BY <1>1, <1>2 DEF LeadContact, Step
    <3> QED BY SMTT(30), <1>1, <2>2, <3>1, <3>2, <3>3 DEF ResolutionTypeOK
  <2>4. CrmHolds' /\ SavedKnows' /\ Agreement' /\ ClientIsWhole'
    BY <1>1, <2>2 DEF CrmHolds, SavedKnows, Agreement, OverwriteIsChosen, Agreed, ClientIsWhole
  <2>5. MadeOnce'
    BY <1>1, <2>1, <2>2 DEF MadeOnce, MadeFor
  <2>6. WorkerKnows'
    BY <1>1, <2>1, <2>2, CardFacts DEF WorkerKnows, MayBeAt, Searching
  <2> QED BY <2>3, <2>4, <2>5, <2>6
<1>3. CASE CreateLead
  <2>1. /\ doing = "new" /\ saved.type \in {"none", "new"} /\ chosen = NoChoice
        /\ status = "resolving_client" /\ contactsMade \subseteq {None}
    BY <1>3 DEF CreateLead, WorkerKnows, MayBeAt, MadeOnce
  <2>2. /\ UNCHANGED <<contactsMade, madeTwice>> /\ leadMade' = TRUE
        /\ doing' = "newContact" /\ atContact' = None /\ atLead' = NewLead /\ byAddress' = FALSE
    BY <1>3 DEF CreateLead, Goto
  <2>3. saved' \in Resolutions /\ saved'.type = "new"
    <3>1. CASE saved = Nothing
      <4>1. saved' = [type |-> "new", contact |-> None, lead |-> None, byAddress |-> FALSE]
        BY <1>3, <3>1 DEF CreateLead, Remember
      <4> QED BY <4>1 DEF Resolutions
    <3>2. CASE saved # Nothing
      BY <1>3, <2>1, <3>2 DEF CreateLead, Remember, SavedKnows, ResolutionTypeOK, Resolutions
    <3> QED BY <3>1, <3>2
  <2>4. ResolutionTypeOK'
    BY <1>1, <2>2, <2>3, CardFacts DEF ResolutionTypeOK, Resolutions
  <2>5. CrmHolds' /\ SavedKnows' /\ Agreement' /\ ClientIsWhole'
    BY <1>1, <2>1, <2>3 DEF CrmHolds, SavedKnows, Agreement, OverwriteIsChosen, Agreed, ClientIsWhole
  <2>6. MadeOnce'
    BY <1>1, <2>1, <2>2, <2>3 DEF MadeOnce
  <2>7. WorkerKnows'
    BY <1>1, <2>1, <2>2, <2>3 DEF WorkerKnows, MayBeAt, Searching
  <2> QED BY <2>4, <2>5, <2>6, <2>7
<1>4. CASE CreateContact
  <2>1. doing = "newContact" /\ saved.type = "new" /\ atLead = NewLead /\ status = "resolving_client"
    BY <1>4 DEF CreateContact, WorkerKnows, MayBeAt
  <2>2. /\ UNCHANGED <<leadMade, saved, madeTwice>> /\ contactsMade' = contactsMade \cup {None}
        /\ doing' = "link" /\ atContact' = NewContact /\ atLead' = atLead /\ byAddress' = FALSE
    BY <1>4 DEF CreateContact, MakeContact, Step, Goto, MadeOnce, ResolutionTypeOK
  <2>3. ResolutionTypeOK'
    <3>1. /\ contactsMade' \subseteq OldLead \cup {None}
          /\ asked' \cup {chosen'} = asked \cup {chosen}
      BY <1>1, <2>2 DEF ResolutionTypeOK
    <3>2. /\ doing' \in {"idle", "phone", "phoneLead", "address", "compare", "keep", "use", "apply",
                       "applyLead", "lead", "compareLead", "leadContact", "new", "newContact", "link", "done"}
          /\ atContact' \in Contacts \cup {None} /\ atLead' \in Leads \cup {None}
          /\ byAddress' \in BOOLEAN
      BY <2>1, <2>2, CardFacts
    <3> QED BY SMTT(30), <1>1, <2>2, <3>1, <3>2 DEF ResolutionTypeOK
  <2>4. CrmHolds' /\ SavedKnows' /\ Agreement' /\ ClientIsWhole'
    BY <1>1, <2>2 DEF CrmHolds, SavedKnows, Agreement, OverwriteIsChosen, Agreed, ClientIsWhole
  <2>5. MadeOnce'
    BY <1>1, <2>1, <2>2 DEF MadeOnce
  <2>6. WorkerKnows'
    BY <1>1, <2>1, <2>2, CardFacts DEF WorkerKnows, MayBeAt, Searching
  <2> QED BY <2>3, <2>4, <2>5, <2>6
<1> QED BY <1>2, <1>3, <1>4

\* The payment gets its client, or the attempt ends without one.
LEMMA LeavingSteps == ASSUME RInv, Resolved \/ AttemptFails PROVE RInv'
<1> USE DEF RInv
<1>1. /\ UNCHANGED <<phoneContacts, phoneLeads, addressLeads, linked, conflicting, leadMade, contactsMade,
                     madeTwice, hasAddress, saved, asked, overwritten, picked, approved, entered, edits>>
      /\ chosen' \in {chosen, NoChoice} /\ failures' \in 0..MaxFailures
      /\ doing' = "idle" /\ atContact' = None /\ atLead' = None /\ byAddress' = FALSE
  <2>1. failures \in 0..MaxFailures /\ MaxFailures \in Nat
    BY CardAssumption DEF ResolutionTypeOK
  <2> QED BY <2>1 DEF Resolved, AttemptFails, Leave, Goto, crmVars, madeVars, historyVars, boundVars
<1>2. \/ UNCHANGED <<status, contact, lead>>
      \/ /\ status' = "client_resolved" /\ contact' = atContact /\ lead' = atLead
         /\ atContact \in Contacts /\ (atLead # None => <<atLead, atContact>> \in linked)
  BY DEF Resolved, AttemptFails, clientVars, WorkerKnows, MayBeAt
<1>3. ResolutionTypeOK'
  <2>1. asked' \cup {chosen'} \subseteq [kind : {"none", "contact", "lead"}, id : Cards,
                                      act : {"none", "keep", "apply"}, byAddress : BOOLEAN]
    BY <1>1, ChoicesTyped DEF CrmHolds
  <2>2. /\ status' \in {"none", "draft", "resolving_client", "client_selection_required",
                       "client_resolved"}
        /\ contact' \in Contacts \cup {None} /\ lead' \in Leads \cup {None}
    BY <1>2 DEF ResolutionTypeOK
  <2> QED BY <1>1, <2>1, <2>2 DEF ResolutionTypeOK
<1>4. CrmHolds' /\ SavedKnows' /\ MadeOnce' /\ Agreement'
  BY <1>1, <1>2, NothingFacts
     DEF CrmHolds, SavedKnows, MadeOnce, MadeFor, Agreement, OverwriteIsChosen, Agreed
<1>5. WorkerKnows'
  BY <1>1 DEF WorkerKnows, MayBeAt, Searching
<1>6. ClientIsWhole'
  BY <1>1, <1>2, CardFacts DEF ClientIsWhole
<1> QED BY <1>3, <1>4, <1>5, <1>6

-----------------------------------------------------------------------------
(* The steps of others.                                                     *)

\* The employee picks a candidate: a lead, or that its address may be replaced.
LEMMA SelectStep == ASSUME RInv, Answering PROVE RInv'
<1> USE DEF RInv
<1>1. PICK x \in asked : Select(x)
  BY DEF Answering
<1>2. x \in Candidates
  BY DEF CrmHolds
<1>3. /\ UNCHANGED <<phoneContacts, phoneLeads, addressLeads, linked, conflicting, leadMade, contactsMade,
                     madeTwice, hasAddress, saved, asked, contact, lead, doing, overwritten>>
      /\ UNCHANGED <<atContact, atLead, byAddress, entered, edits, failures>>
      /\ status = "client_selection_required" /\ doing = "idle"
      /\ status' = "resolving_client" /\ chosen' = x
      /\ picked' = (IF x.kind = "lead" THEN picked \cup {x.id} ELSE picked)
      /\ approved' = (IF x.act = "apply" THEN approved \cup {x.id} ELSE approved)
  BY <1>1 DEF Select, crmVars, madeVars, clientVars, workVars, boundVars
<1>4. /\ x.kind = "lead" => x.id \in OldLead /\ x.act = "none"
      /\ x.act = "apply" => x.id \in Contacts
  BY <1>2, CandidateFacts, CardFacts
<1>5. ResolutionTypeOK'
  <2>1. asked' \cup {chosen'} \subseteq [kind : {"none", "contact", "lead"}, id : Cards,
                                      act : {"none", "keep", "apply"}, byAddress : BOOLEAN]
    BY <1>2, <1>3, ChoicesTyped DEF CrmHolds
  <2> QED BY <1>3, <1>4, <2>1 DEF ResolutionTypeOK
<1>6. CrmHolds' /\ SavedKnows'
  BY <1>2, <1>3 DEF CrmHolds, SavedKnows
<1>7. MadeOnce'
  BY <1>3 DEF MadeOnce, MadeFor, SavedKnows
<1>8. Agreement'
  BY <1>3 DEF Agreement, OverwriteIsChosen, Agreed
<1>9. WorkerKnows'
  BY <1>3 DEF WorkerKnows, MayBeAt, Searching
<1>10. ClientIsWhole'
  BY <1>3 DEF ClientIsWhole
<1> QED BY <1>5, <1>6, <1>7, <1>8, <1>9, <1>10

\* Before the payment nothing is remembered, so the CRM may hold whatever it does.
LEMMA NewPaymentStep == ASSUME RInv, NewPayment PROVE RInv'
<1> USE DEF RInv
<1>1. /\ UNCHANGED <<leadMade, contactsMade, madeTwice, saved, asked, contact, lead, chosen, doing,
                     atContact, atLead, byAddress, overwritten>>
      /\ UNCHANGED <<picked, approved, entered, edits, failures>>
      /\ status = "none" /\ status' = "draft" /\ hasAddress' \in BOOLEAN
  BY DEF NewPayment, madeVars, clientVars, workVars, historyVars, boundVars
<1>2. /\ phoneContacts' \subseteq OldContact /\ phoneLeads' \subseteq OldLead
      /\ addressLeads' \subseteq OldLead /\ conflicting' \subseteq OldContact
  <2>1. phoneContacts' \subseteq OldContact
    BY CardAssumption DEF NewPayment, OldContact
  <2>2. phoneLeads' \subseteq OldLead
    BY CardAssumption DEF NewPayment, OldLead
  <2> QED BY <2>1, <2>2 DEF NewPayment
<1>3. linked' \subseteq Leads \X Contacts
  <2>1. PICK f \in [OldLead -> OldContact \cup {None}] :
          linked' = {<<l, f[l]>> : l \in {k \in OldLead : f[k] # None}}
    BY DEF NewPayment
  <2> QED BY <2>1, CardFacts
<1>4. saved = Nothing /\ chosen = NoChoice /\ doing = "idle"
  BY <1>1 DEF SavedKnows, WorkerKnows, MayBeAt
<1>5. ResolutionTypeOK'
  BY <1>1, <1>2, <1>3, CardFacts DEF ResolutionTypeOK
<1>6. CrmHolds' /\ SavedKnows' /\ MadeOnce' /\ Agreement' /\ ClientIsWhole'
  BY <1>1, <1>2, <1>4, NothingFacts
     DEF CrmHolds, SavedKnows, MadeOnce, Agreement, OverwriteIsChosen, ClientIsWhole
<1>7. WorkerKnows'
  BY <1>1, <1>4, NothingFacts DEF WorkerKnows, MayBeAt, Searching
<1> QED BY <1>5, <1>6, <1>7

\* Cards only turn up; another address on one counts as entered meanwhile.
LEMMA CrmEditStep == ASSUME RInv, CrmEdit PROVE RInv'
<1> USE DEF RInv
<1>1. /\ UNCHANGED <<leadMade, contactsMade, madeTwice, status, hasAddress, saved, asked, contact, lead,
                     chosen, doing, atContact, atLead, byAddress>>
      /\ UNCHANGED <<picked, approved, overwritten, failures>>
      /\ edits' \in 0..MaxEdits
  <2>1. edits \in 0..MaxEdits /\ MaxEdits \in Nat
    BY CardAssumption DEF ResolutionTypeOK
  <2> QED BY <2>1 DEF CrmEdit, madeVars, clientVars, workVars
<1>2. /\ phoneContacts' \subseteq OldContact /\ phoneLeads' \subseteq OldLead
      /\ addressLeads' \subseteq OldLead /\ conflicting' \subseteq OldContact
      /\ linked' \subseteq Leads \X Contacts /\ linked \subseteq linked'
      /\ entered' \subseteq Contacts /\ entered \subseteq entered'
      /\ \A c \in conflicting' : c \in conflicting \cup entered'
  <2>1. /\ phoneContacts \subseteq OldContact /\ phoneLeads \subseteq OldLead
        /\ addressLeads \subseteq OldLead /\ conflicting \subseteq OldContact
        /\ linked \subseteq Leads \X Contacts /\ entered \subseteq Contacts
    BY DEF CrmHolds, ResolutionTypeOK
  <2> QED BY <2>1, CardFacts DEF CrmEdit, crmVars
<1>3. ResolutionTypeOK'
  BY <1>1, <1>2, CardFacts DEF ResolutionTypeOK
<1>4. CrmHolds' /\ SavedKnows' /\ MadeOnce'
  BY <1>1, <1>2 DEF CrmHolds, SavedKnows, MadeOnce, MadeFor
<1>5. Agreement'
  BY <1>1, <1>2 DEF Agreement, OverwriteIsChosen, Agreed
<1>6. WorkerKnows'
  BY <1>1, <1>2 DEF WorkerKnows, MayBeAt, MadeFor, Agreed
<1>7. ClientIsWhole'
  BY <1>1, <1>2 DEF ClientIsWhole
<1> QED BY <1>3, <1>4, <1>5, <1>6, <1>7

-----------------------------------------------------------------------------
(* The client of a payment: the theorems.                                   *)

LEMMA InitRInv == ResolutionInit => RInv
<1> SUFFICES ASSUME ResolutionInit PROVE RInv
  OBVIOUS
<1>1. ResolutionTypeOK
  <2>1. asked \cup {chosen} \subseteq [kind : {"none", "contact", "lead"}, id : Cards,
                                     act : {"none", "keep", "apply"}, byAddress : BOOLEAN]
    BY ChoicesTyped DEF ResolutionInit
  <2>2. saved \in Resolutions
    BY NothingFacts DEF ResolutionInit
  <2>3. edits \in 0..MaxEdits /\ failures \in 0..MaxFailures
    BY CardAssumption DEF ResolutionInit
  <2>4. contactsMade \subseteq OldLead \cup {None} /\ linked \subseteq Leads \X Contacts
    BY DEF ResolutionInit
  <2> QED BY <2>1, <2>2, <2>3, <2>4 DEF ResolutionInit, ResolutionTypeOK, Resolutions
<1>2. CrmHolds /\ SavedKnows /\ MadeOnce /\ Agreement
  BY NothingFacts DEF ResolutionInit, CrmHolds, SavedKnows, MadeOnce, Agreement, OverwriteIsChosen
<1>3. WorkerKnows /\ ClientIsWhole
  BY NothingFacts DEF ResolutionInit, WorkerKnows, MayBeAt, Searching, ClientIsWhole
<1> QED BY <1>1, <1>2, <1>3 DEF RInv

LEMMA StillRInv == ASSUME RInv, UNCHANGED resVars PROVE RInv'
<1>1. /\ UNCHANGED <<phoneContacts, phoneLeads, addressLeads, linked, conflicting, leadMade,
                     contactsMade, madeTwice, status, hasAddress, saved, asked, contact, lead>>
      /\ UNCHANGED <<chosen, doing, atContact, atLead, byAddress, picked, approved, entered,
                     overwritten, edits, failures>>
  BY DEF resVars, crmVars, madeVars, clientVars, workVars, historyVars, boundVars
<1>2. ResolutionTypeOK' /\ CrmHolds' /\ ClientIsWhole'
  BY <1>1 DEF RInv, ResolutionTypeOK, CrmHolds, ClientIsWhole
<1>3. SavedKnows' /\ MadeOnce' /\ Agreement'
  BY <1>1 DEF RInv, SavedKnows, MadeOnce, MadeFor, Agreement, OverwriteIsChosen, Agreed
<1>4. WorkerKnows'
  BY <1>1 DEF RInv, WorkerKnows, MayBeAt, MadeFor, Agreed
<1> QED BY <1>2, <1>3, <1>4 DEF RInv

LEMMA StepRInv == RInv /\ [ResolutionNext]_resVars => RInv'
<1> SUFFICES ASSUME RInv, [ResolutionNext]_resVars PROVE RInv'
  OBVIOUS
<1>1. CASE NewPayment
  BY <1>1, NewPaymentStep
<1>2. CASE CrmEdit
  BY <1>2, CrmEditStep
<1>3. CASE Resolving
  BY <1>3, AttemptStep, SearchSteps, CompareSteps, DecidingSteps, ApplyAddressStep, MakingSteps,
     LinkStep, LeavingSteps DEF Resolving
<1>4. CASE AttemptFails
  BY <1>4, LeavingSteps
<1>5. CASE Answering
  BY <1>5, SelectStep
<1>6. CASE UNCHANGED resVars
  BY <1>6, StillRInv
<1> QED BY <1>1, <1>2, <1>3, <1>4, <1>5, <1>6 DEF ResolutionNext

\* A set with one element at most, as OneNewClient counts.
LEMMA AtMostOne == ASSUME NEW S, NEW x, S \subseteq {x} PROVE Cardinality(S) <= 1
<1>1. S = {} \/ S = {x}
  OBVIOUS
<1>2. Cardinality({}) = 0 /\ Cardinality({x}) = 1
  BY FS_EmptySet, FS_Singleton
<1> QED BY <1>1, <1>2

\* A contact was made for the new client, or for the lead that is remembered, or for
\* leads that were picked.
LEMMA RInvCounts == ASSUME RInv PROVE OneNewClient
<1>1. leadMade => contactsMade \subseteq {None}
  BY DEF RInv, MadeOnce, ResolutionTypeOK
<1>2. \E x : contactsMade \ picked \subseteq {x}
  <2>1. CASE saved.type \in {"none", "new"}
    BY <2>1 DEF RInv, MadeOnce
  <2>2. CASE saved.type \notin {"none", "new"}
    <3>1. contactsMade \ picked \subseteq {saved.lead}
      BY <2>2 DEF RInv, MadeOnce, MadeFor
    <3> QED BY <3>1
  <2> QED BY <2>1, <2>2
<1>3. Cardinality(contactsMade \ picked) <= 1
  BY <1>2, AtMostOne
<1> QED BY <1>1, <1>3 DEF RInv, MadeOnce, OneNewClient

\* The invariant holds whatever the CRM holds and however often an attempt fails.
THEOREM ResolutionInvariance == ResolutionSpec => []RInv
  BY InitRInv, StepRInv, PTL DEF ResolutionSpec

\* Type correctness of the resolver's state, the CRM's cards included.
THEOREM ResolutionTypeCorrect == ResolutionSpec => []ResolutionTypeOK
<1>1. RInv => ResolutionTypeOK
  BY DEF RInv
<1> QED BY <1>1, ResolutionInvariance, PTL

\* No repetition of an attempt creates a second client (the ORIGIN_ID of
\* _create_client and of _find_or_create_contact).
THEOREM ClientMadeOnce == ResolutionSpec => []OneNewClient
  BY RInvCounts, ResolutionInvariance, PTL

\* A payment's lead and contact belong together (resolve_lead, ensure_contact_on_lead).
THEOREM ClientWhole == ResolutionSpec => []ClientIsWhole
<1>1. RInv => ClientIsWhole
  BY DEF RInv
<1> QED BY <1>1, ResolutionInvariance, PTL

\* No address is replaced without the employee's choice (_contact_address_conflicts,
\* _apply_contact_address).
THEOREM OverwritesAreChosen == ResolutionSpec => []OverwriteIsChosen
<1>1. RInv => OverwriteIsChosen
  BY DEF RInv, Agreement
<1> QED BY <1>1, ResolutionInvariance, PTL
===============================================================================
