------------------------- MODULE CompletionContract -------------------------
(* What completing a ticket promises about the two systems outside: the GIS  *)
(* receives a report only of a ticket whose mark TechPortal holds, and       *)
(* TechPortal receives a link only to a report the GIS holds.  Nothing that  *)
(* was written is taken back.                                                *)

VARIABLES marked, reported, linked

Init == marked = FALSE /\ reported = FALSE /\ linked = FALSE

Mark == marked' = TRUE /\ UNCHANGED <<reported, linked>>

Report == marked /\ reported' = TRUE /\ UNCHANGED <<marked, linked>>

Link == reported /\ linked' = TRUE /\ UNCHANGED <<marked, reported>>

Next == Mark \/ Report \/ Link

Spec == Init /\ [][Next]_<<marked, reported, linked>>
=============================================================================
