-------------------------- MODULE ClientResolution --------------------------
(***************************************************************************)
(* Which contact and lead of the CRM a payment is made for.                *)
(*                                                                         *)
(* A worker searches by phone and by the selected address, asks the        *)
(* employee when it finds several clients or another address on the card,  *)
(* fills in what is missing and creates what is not there.  Any step may   *)
(* be its last: what it decided is remembered in the payment, the rest is  *)
(* found again in the CRM.                                                 *)
(*                                                                         *)
(* One payment, one worker at a time and each write once: PaymentFencing   *)
(* has the lease and the journal of writes.  E-mails and phones that are   *)
(* added to a card are left out.  The cards it created itself are not      *)
(* among those a search finds: what was remembered goes before a search.   *)
(***************************************************************************)
EXTENDS Naturals, FiniteSets

CONSTANTS MaxContacts, MaxLeads,  \* bound: cards of the CRM
          MaxEdits,               \* bound: cards that turn up meanwhile
          MaxFailures             \* bound: attempts that do not end

ASSUME CardAssumption ==
  /\ MaxContacts \in Nat /\ MaxLeads \in Nat /\ MaxEdits \in Nat /\ MaxFailures \in Nat

None       == 0
OldContact == 1..MaxContacts
OldLead    == 1..MaxLeads
NewContact == MaxContacts + 1    \* the one this payment creates
NewLead    == MaxLeads + 1
Contacts   == OldContact \cup {NewContact}
Leads      == OldLead \cup {NewLead}
Cards      == 0..(MaxContacts + MaxLeads + 1)

VARIABLES
  \* the CRM
  phoneContacts, phoneLeads,  \* what a search for the phone finds
  addressLeads,               \* leads at the selected address
  linked,                     \* contacts on leads
  conflicting,                \* contacts whose address differs from the selected one
  leadMade,                   \* a lead with the payment's ORIGIN_ID exists
  contactsMade,               \* for which origins a contact exists: a lead, or None
  madeTwice,
  \* the payment
  status,
  hasAddress,                 \* the employee selected an address
  saved,                      \* client_resolution
  asked,                      \* candidate_snapshot
  contact, lead,
  \* the command and the worker that executes it
  chosen,                     \* the candidate the command carries
  doing, atContact, atLead, byAddress,
  \* history
  picked,                     \* leads the employee picked
  approved,                   \* contacts whose address the employee agreed to replace
  entered,                    \* contacts that got another address meanwhile
  overwritten,                \* contacts whose other address was replaced
  edits, failures

crmVars     == <<phoneContacts, phoneLeads, addressLeads>>
madeVars    == <<leadMade, contactsMade, madeTwice>>
clientVars  == <<contact, lead>>
workVars    == <<atContact, atLead, byAddress>>
historyVars == <<picked, approved, entered>>
boundVars   == <<edits, failures>>
resVars == <<crmVars, linked, conflicting, madeVars, status, hasAddress, saved, asked,
             clientVars, chosen, doing, workVars, historyVars, overwritten, boundVars>>

NoChoice == [kind |-> "none", id |-> None, act |-> "none", byAddress |-> FALSE]
Nothing  == [type |-> "none", contact |-> None, lead |-> None, byAddress |-> FALSE]

Candidate(kind, id, act, near) == [kind |-> kind, id |-> id, act |-> act, byAddress |-> near]

ContactsOf(l) == {c \in Contacts : <<l, c>> \in linked}

ResolutionInit ==
  /\ phoneContacts = {} /\ phoneLeads = {} /\ addressLeads = {}
  /\ linked = {} /\ conflicting = {}
  /\ leadMade = FALSE /\ contactsMade = {} /\ madeTwice = FALSE
  /\ status = "none" /\ hasAddress = FALSE /\ saved = Nothing /\ asked = {}
  /\ contact = None /\ lead = None /\ chosen = NoChoice
  /\ doing = "idle" /\ atContact = None /\ atLead = None /\ byAddress = FALSE
  /\ picked = {} /\ approved = {} /\ entered = {} /\ overwritten = {}
  /\ edits = 0 /\ failures = 0

-----------------------------------------------------------------------------
\* The payment is created, whatever the CRM holds.  Cards are numbered so that
\* those with the phone come first.
NewPayment ==
  /\ status = "none"
  /\ status' = "draft"
  /\ hasAddress' \in BOOLEAN
  /\ \E n \in 0..MaxContacts : phoneContacts' = 1..n
  /\ \E n \in 0..MaxLeads : phoneLeads' = 1..n
  /\ addressLeads' \in IF hasAddress' THEN SUBSET OldLead ELSE {{}}
  /\ conflicting' \in IF hasAddress' THEN SUBSET OldContact ELSE {{}}
  /\ \E f \in [OldLead -> OldContact \cup {None}] :
       linked' = {<<l, f[l]>> : l \in {k \in OldLead : f[k] # None}}
  /\ UNCHANGED <<madeVars, saved, asked, clientVars, chosen, doing, workVars, historyVars,
                 overwritten, boundVars>>

\* Somebody enters a card with the same phone or address, a contact of a lead, or an
\* address on a card.
CrmEdit ==
  /\ status # "none" /\ edits < MaxEdits
  /\ edits' = edits + 1
  /\ \/ /\ \E c \in OldContact \ phoneContacts : phoneContacts' = phoneContacts \cup {c}
        /\ UNCHANGED <<phoneLeads, addressLeads, linked, conflicting, entered>>
     \/ /\ hasAddress
        /\ \E l \in OldLead \ addressLeads : addressLeads' = addressLeads \cup {l}
        /\ UNCHANGED <<phoneContacts, phoneLeads, linked, conflicting, entered>>
     \/ /\ \E l \in OldLead, c \in OldContact : linked' = linked \cup {<<l, c>>}
        /\ UNCHANGED <<crmVars, conflicting, entered>>
     \/ /\ hasAddress
        /\ \E c \in OldContact \ conflicting :
             conflicting' = conflicting \cup {c} /\ entered' = entered \cup {c}
        /\ UNCHANGED <<crmVars, linked>>
  /\ UNCHANGED <<madeVars, status, hasAddress, saved, asked, clientVars, chosen, doing, workVars,
                 picked, approved, overwritten, failures>>

Goto(step, c, l, near) ==
  /\ doing' = step
  /\ atContact' = c /\ atLead' = l /\ byAddress' = near

Leave == Goto("idle", None, None, FALSE)

\* set_resolution: the first resolution of a payment stays.
Remember(type, c, l, near) ==
  saved' = IF saved = Nothing
           THEN [type |-> type, contact |-> c, lead |-> l, byAddress |-> near] ELSE saved

\* What a step of the resolver leaves alone, whatever it finds out.
Lookup == UNCHANGED <<crmVars, conflicting, madeVars, hasAddress, clientVars, overwritten,
                      historyVars, boundVars>>

\* process: an unresolved payment, by the command's choice, else by what is
\* remembered, else by a search.
Attempt ==
  /\ doing = "idle" /\ status \in {"draft", "resolving_client"}
  /\ status' = "resolving_client"
  /\ IF chosen # NoChoice
     THEN CASE chosen.kind = "lead" -> Goto("lead", None, chosen.id, chosen.byAddress)
            [] chosen.act = "apply" -> Goto("use", chosen.id, None, FALSE)
            [] OTHER -> Goto("keep", chosen.id, None, FALSE)
     ELSE CASE saved.type = "new" -> Goto("new", None, None, FALSE)
            [] saved.type = "lead" -> Goto("lead", None, saved.lead, saved.byAddress)
            [] saved.type = "contact_address" -> Goto("use", saved.contact, saved.lead, FALSE)
            [] saved.type = "contact" -> Goto("keep", saved.contact, None, FALSE)
            [] OTHER -> Goto("phone", None, None, FALSE)
  /\ Lookup /\ UNCHANGED <<linked, saved, asked, chosen>>

\* AmbiguousClient: the employee is asked and the attempt ends.
Ask(candidates) ==
  /\ status' = "client_selection_required"
  /\ asked' = candidates
  /\ chosen' = NoChoice
  /\ Leave
  /\ UNCHANGED <<linked, saved>>

AskAddress(c) == Ask({Candidate("contact", c, "keep", FALSE), Candidate("contact", c, "apply", FALSE)})

Step(next, c, l, near) == Goto(next, c, l, near) /\ UNCHANGED <<linked, status, saved, asked, chosen>>

-----------------------------------------------------------------------------
\* Contacts with the phone: one is the client, several are a question.
SearchContacts ==
  /\ doing = "phone"
  /\ Lookup
  /\ CASE Cardinality(phoneContacts) > 1 ->
            Ask({Candidate("contact", c, "none", FALSE) : c \in phoneContacts})
       [] phoneContacts = {} -> Step("phoneLead", None, None, FALSE)
       [] OTHER -> \E c \in phoneContacts :
                     Step(IF hasAddress THEN "compare" ELSE "keep", c, None, FALSE)

SearchLeads ==
  /\ doing = "phoneLead"
  /\ Lookup
  /\ CASE Cardinality(phoneLeads) > 1 ->
            Ask({Candidate("lead", l, "none", FALSE) : l \in phoneLeads})
       [] phoneLeads = {} -> Step("address", None, None, FALSE)
       [] OTHER -> \E l \in phoneLeads : Step("lead", None, l, FALSE)

AskLeads == Ask({Candidate("lead", l, "none", TRUE) : l \in addressLeads})

SearchAddress ==
  /\ doing = "address"
  /\ Lookup
  /\ CASE Cardinality(addressLeads) > 1 -> AskLeads
       [] addressLeads = {} -> Step("new", None, None, FALSE)
       [] OTHER -> \E l \in addressLeads : Step("lead", None, l, TRUE)

\* A card with another address: the employee decides which one is right.
Compare ==
  /\ doing = "compare"
  /\ Lookup
  /\ IF atContact \in conflicting THEN AskAddress(atContact)
     ELSE Step("use", atContact, None, FALSE)

\* The contact as it is.
KeepContact ==
  /\ doing = "keep"
  /\ Lookup
  /\ Remember("contact", atContact, None, FALSE)
  /\ Goto("done", atContact, None, FALSE)
  /\ UNCHANGED <<linked, status, asked, chosen>>

\* The contact with the selected address, and the lead found at that address:
\* several leads are a question here too.
UseContact ==
  /\ doing = "use"
  /\ Lookup
  /\ IF atLead = None /\ Cardinality(addressLeads) > 1 THEN AskLeads
     ELSE /\ \E l \in IF atLead = None /\ addressLeads # {} THEN addressLeads ELSE {atLead} :
               /\ Remember("contact_address", atContact, l, FALSE)
               /\ Goto("apply", atContact, l, FALSE)
          /\ UNCHANGED <<linked, status, asked, chosen>>

\* _apply_contact_address: the card is read once more and the selected address written
\* on it.  The contact of a lead that was found by its address is on that lead already.
ApplyAddress ==
  /\ doing \in {"apply", "applyLead"}
  /\ conflicting' = conflicting \ {atContact}
  /\ overwritten' = overwritten \cup ({atContact} \cap conflicting)
  /\ Step(IF atLead = None \/ doing = "applyLead" THEN "done" ELSE "link", atContact, atLead, FALSE)
  /\ UNCHANGED <<crmVars, madeVars, hasAddress, clientVars, historyVars, boundVars>>

\* resolve_lead: the lead's primary contact, which CRM users may change any time.
ResolveLead ==
  /\ doing = "lead"
  /\ Lookup
  /\ Remember("lead", None, atLead, byAddress)
  /\ IF ContactsOf(atLead) = {} THEN Goto("leadContact", None, atLead, byAddress)
     ELSE \E c \in ContactsOf(atLead) :
            Goto(IF byAddress THEN "compareLead" ELSE "done", c, atLead, byAddress)
  /\ UNCHANGED <<linked, status, asked, chosen>>

\* Mutant of CompareLead: the card of a lead's contact is not looked at.
CompareLeadNothing ==
  /\ doing = "compareLead"
  /\ Lookup
  /\ Step("applyLead", atContact, atLead, byAddress)

\* The contact of a lead found by its address gets the address too, unless its card says
\* otherwise: then the employee decides.
CompareLead ==
  /\ doing = "compareLead"
  /\ Lookup
  /\ IF atContact \in conflicting THEN AskAddress(atContact)
     ELSE Step("applyLead", atContact, atLead, byAddress)

\* find_or_create_contact for an origin.
MakeContact(origin, known) ==
  /\ contactsMade' = contactsMade \cup {origin}
  /\ madeTwice' = (madeTwice \/ (origin \in contactsMade /\ ~known))

\* Mutant of LeadContact: a contact of an earlier attempt is not looked for.
LeadContactAnew ==
  /\ doing = "leadContact"
  /\ MakeContact(atLead, FALSE)
  /\ Step("link", NewContact, atLead, FALSE)
  /\ UNCHANGED <<crmVars, conflicting, leadMade, hasAddress, clientVars, overwritten,
                 historyVars, boundVars>>

\* The contact a lead without contacts gets.
LeadContact ==
  /\ doing = "leadContact"
  /\ MakeContact(atLead, atLead \in contactsMade)
  /\ Step("link", NewContact, atLead, FALSE)
  /\ UNCHANGED <<crmVars, conflicting, leadMade, hasAddress, clientVars, overwritten,
                 historyVars, boundVars>>

\* Nobody was found: a lead, and then its contact.
CreateLead ==
  /\ doing = "new"
  /\ Remember("new", None, None, FALSE)
  /\ leadMade' = TRUE
  /\ Goto("newContact", None, NewLead, FALSE)
  /\ UNCHANGED <<crmVars, linked, conflicting, contactsMade, madeTwice, status, hasAddress,
                 asked, clientVars, chosen, overwritten, historyVars, boundVars>>

CreateContact ==
  /\ doing = "newContact"
  /\ MakeContact(None, None \in contactsMade)
  /\ Step("link", NewContact, atLead, FALSE)
  /\ UNCHANGED <<crmVars, conflicting, leadMade, hasAddress, clientVars, overwritten,
                 historyVars, boundVars>>

\* Mutant of Link: the contact is given to the lead only if the lead has none.
LinkIfEmpty ==
  /\ doing = "link"
  /\ Lookup
  /\ linked' = IF ContactsOf(atLead) = {} THEN linked \cup {<<atLead, atContact>>} ELSE linked
  /\ Goto("done", atContact, atLead, FALSE)
  /\ UNCHANGED <<status, saved, asked, chosen>>

\* ensure_contact_on_lead
Link ==
  /\ doing = "link"
  /\ Lookup
  /\ linked' = linked \cup {<<atLead, atContact>>}
  /\ Goto("done", atContact, atLead, FALSE)
  /\ UNCHANGED <<status, saved, asked, chosen>>

\* process stores the client; the documents are formed for it.
Resolved ==
  /\ doing = "done"
  /\ status' = "client_resolved"
  /\ contact' = atContact /\ lead' = atLead
  /\ chosen' = NoChoice
  /\ Leave
  /\ UNCHANGED <<crmVars, linked, conflicting, madeVars, hasAddress, saved, asked,
                 historyVars, overwritten, boundVars>>

-----------------------------------------------------------------------------
\* An attempt does not end.  A crash leaves the job with its choice to another
\* worker; after an error of the CRM the job that follows carries no choice.
AttemptFails ==
  /\ doing # "idle" /\ failures < MaxFailures
  /\ failures' = failures + 1
  /\ Leave
  /\ chosen' \in {chosen, NoChoice}
  /\ UNCHANGED <<crmVars, linked, conflicting, madeVars, status, hasAddress, saved, asked,
                 clientVars, historyVars, overwritten, edits>>

\* queue_command("select"): only a candidate that was shown.
Select(x) ==
  /\ status = "client_selection_required" /\ doing = "idle"
  /\ x \in asked
  /\ status' = "resolving_client"
  /\ chosen' = x
  /\ picked' = IF x.kind = "lead" THEN picked \cup {x.id} ELSE picked
  /\ approved' = IF x.act = "apply" THEN approved \cup {x.id} ELSE approved
  /\ UNCHANGED <<crmVars, linked, conflicting, madeVars, hasAddress, saved, asked,
                 clientVars, doing, workVars, entered, overwritten, boundVars>>

Resolving ==
  \/ Attempt \/ SearchContacts \/ SearchLeads \/ SearchAddress
  \/ Compare \/ KeepContact \/ UseContact \/ ApplyAddress
  \/ ResolveLead \/ CompareLead \/ LeadContact
  \/ CreateLead \/ CreateContact \/ Link \/ Resolved

Answering == \E x \in asked : Select(x)

ResolutionNext == NewPayment \/ CrmEdit \/ Resolving \/ AttemptFails \/ Answering

ResolutionSpec == ResolutionInit /\ [][ResolutionNext]_resVars

-----------------------------------------------------------------------------
\* Every variable holds a value of its kind.
ResolutionTypeOK ==
  /\ phoneContacts \subseteq Contacts /\ phoneLeads \subseteq Leads /\ addressLeads \subseteq Leads
  /\ linked \subseteq Leads \X Contacts /\ conflicting \subseteq Contacts
  /\ leadMade \in BOOLEAN /\ contactsMade \subseteq OldLead \cup {None} /\ madeTwice \in BOOLEAN
  /\ status \in {"none", "draft", "resolving_client", "client_selection_required", "client_resolved"}
  /\ hasAddress \in BOOLEAN
  /\ saved \in [type : {"none", "new", "lead", "contact_address", "contact"},
                contact : Contacts \cup {None}, lead : Leads \cup {None}, byAddress : BOOLEAN]
  /\ asked \cup {chosen} \subseteq [kind : {"none", "contact", "lead"}, id : Cards,
                                    act : {"none", "keep", "apply"}, byAddress : BOOLEAN]
  /\ contact \in Contacts \cup {None} /\ lead \in Leads \cup {None}
  /\ doing \in {"idle", "phone", "phoneLead", "address", "compare", "keep", "use", "apply",
             "applyLead", "lead", "compareLead", "leadContact", "new", "newContact", "link", "done"}
  /\ atContact \in Contacts \cup {None} /\ atLead \in Leads \cup {None} /\ byAddress \in BOOLEAN
  /\ picked \subseteq OldLead
  /\ approved \cup entered \cup overwritten \subseteq Contacts
  /\ edits \in 0..MaxEdits /\ failures \in 0..MaxFailures

\* payments-goal-plan: "A repetition does not create a second lead or contact",
\* wherever the attempt before it ended: each further contact is for a lead the
\* employee picked meanwhile.
OneNewClient ==
  /\ ~madeTwice
  /\ leadMade => contactsMade \subseteq {None}
  /\ Cardinality(contactsMade \ picked) <= 1

\* The documents of a payment name a lead together with a contact of that lead,
\* also when the lead was found before a crash and the contact after it.
ClientIsWhole ==
  status = "client_resolved" =>
    contact # None /\ (lead # None => <<lead, contact>> \in linked)

\* "Choose which address to use": the address of a card that says otherwise is
\* replaced only after the employee chose so, by no search and by no retry.  Only an
\* address that was entered while the payment was under way goes unasked: nothing
\* compares again what was compared before.
OverwriteIsChosen == overwritten \subseteq approved \cup entered

\* "Choose which address to use": the answer settles the question.  Nobody is asked
\* again about a card whose address they agreed to replace, unless the answer was
\* lost with an attempt.
AnsweredOnce ==
  status = "client_selection_required" /\ failures = 0
    => \A x \in asked : x.act = "apply" => x.id \notin approved
=============================================================================
