------------------------------ MODULE Services ------------------------------
(***************************************************************************)
(* The services beside the execution of payments that share no state with  *)
(* each other (create_application_services hands each its own tables and   *)
(* keys): the interlock of the modes, sessions, messenger links, the       *)
(* client of a payment, the request budget of the CRM, the photos of a     *)
(* report and the access to the bot.  As their steps commute, each         *)
(* behaviour here runs one of them and leaves the others at rest, which    *)
(* has TLC explore the sum of their states and not the product.            *)
(***************************************************************************)
EXTENDS RuntimeMode, Sessions, MessengerLinks, ClientResolution, RequestBudget, ReportPhotos,
        TelegramAccess

VARIABLE service  \* which one runs

Service == {"runtime", "sessions", "links", "resolution", "budget", "photos", "access"}

restOfRuntime == <<mode, conf, procVars, leaseVars, faults>>
servicesVars == <<service, restOfRuntime, sessVars, linkVars, resVars, budgetVars, photoVars,
                  accessVars>>

ServicesInit ==
  /\ service \in Service
  /\ Init /\ SessionsInit /\ LinksInit /\ ResolutionInit /\ BudgetInit /\ PhotosInit
  /\ AccessInit
  /\ service # "runtime" => conf = [x \in Process |-> mode]
  /\ service # "links" => tState = [t \in Token |-> "none"]
  /\ service # "photos" => storage = "off" /\ ~attaching
  /\ service # "access" => groups = Group /\ inGroups = {}

RuntimeRuns ==
  /\ service = "runtime" /\ Next
  /\ UNCHANGED <<service, sessVars, linkVars, resVars, budgetVars, photoVars, accessVars>>

SessionsRun ==
  /\ service = "sessions" /\ SessionsNext
  /\ UNCHANGED <<service, vars, linkVars, resVars, budgetVars, photoVars, accessVars>>

LinksRun ==
  /\ service = "links" /\ LinksNext
  /\ UNCHANGED <<service, vars, sessVars, resVars, budgetVars, photoVars, accessVars>>

ResolutionRuns ==
  /\ service = "resolution" /\ ResolutionNext
  /\ UNCHANGED <<service, vars, sessVars, linkVars, budgetVars, photoVars, accessVars>>

BudgetRuns ==
  /\ service = "budget" /\ BudgetNext
  /\ UNCHANGED <<service, vars, sessVars, linkVars, resVars, photoVars, accessVars>>

PhotosRun ==
  /\ service = "photos" /\ PhotosNext
  /\ UNCHANGED <<service, vars, sessVars, linkVars, resVars, budgetVars, accessVars>>

AccessRuns ==
  /\ service = "access" /\ AccessNext
  /\ UNCHANGED <<service, vars, sessVars, linkVars, resVars, budgetVars, photoVars>>

ServicesNext ==
  \/ RuntimeRuns \/ SessionsRun \/ LinksRun \/ ResolutionRuns \/ BudgetRuns \/ PhotosRun
  \/ AccessRuns

\* The fairness of each service while it runs.
RuntimeFairness ==
  /\ \A x \in Process :
       WF_vars(service = "runtime" /\ (Heartbeat(x) \/ Exit(x) \/ MemberExpires(x)))
  /\ \A t \in Payment : WF_vars(service = "runtime" /\ (EndRenew(t) \/ LeaseExpires(t)))

ServicesSpec ==
  /\ ServicesInit /\ [][ServicesNext]_servicesVars
  /\ RuntimeFairness
  /\ WF_linkVars(service = "links" /\ \E x \in Txn : Running(x))

-----------------------------------------------------------------------------
\* Every variable of every service holds a value of its kind.
ServicesTypeOK ==
  /\ service \in Service
  /\ TypeOK /\ SessionsTypeOK /\ LinksTypeOK /\ ResolutionTypeOK /\ BudgetTypeOK
  /\ PhotosTypeOK /\ AccessTypeOK
=============================================================================
