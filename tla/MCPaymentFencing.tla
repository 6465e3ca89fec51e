-------------------------- MODULE MCPaymentFencing --------------------------
(* Instances of PaymentFencing small enough for TLC. *)
EXTENDS PaymentFencing, TLC

CONSTANTS lead, contact, document, activity, paid

\* Column 1 is the client, which takes two writes, 2 the document, 3 the activity
\* of the formation; a status check of a paid payment fills 4 and then passes 5,
\* which no column of the row records.
ClientColumns ==
  (lead :> 1) @@ (contact :> 1) @@ (document :> 2) @@ (activity :> 3) @@ (paid :> 4)

\* Workers are interchangeable: nothing orders or names them.
WorkerSymmetry == Permutations(Worker)
=============================================================================
