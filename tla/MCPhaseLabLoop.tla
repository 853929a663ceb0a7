-------------------------- MODULE MCPhaseLabLoop ----------------------------
(* Instances of PhaseLabLoop for TLC. *)
EXTENDS PhaseLabLoop

CONSTANTS dSeed, dLink, dQuery, dRumour, dStale

By(d)     == [body |-> d, pos |-> None]
AsEvent(d, n) == [body |-> d, pos |-> n]

Plain(d) == [body |-> d, kind |-> "report", marks |-> {}, accepted |-> TRUE, candidate |-> FALSE,
             blocked |-> FALSE, missing |-> 0, residual |-> 0, edges |-> <<>>]

(* An accepted report; one that makes it a witness, with an edge from a    *)
(* report that may come later; one not accepted, nor its edge; a rumour,   *)
(* not accepted, whose edge says it is; a stale one with an edge of its    *)
(* own and one that lacks evidence.                                        *)
Edge(acc, src, tgt) == [accepted |-> acc, evidence |-> TRUE, sources |-> src, target |-> tgt]

Seed == Plain(dSeed)
Link == [Plain(dLink) EXCEPT !.kind = "alt",
           !.edges = <<Edge(TRUE, {By(dSeed)}, By(dSeed)), Edge(FALSE, {By(dQuery)}, None)>>]
Query == [Plain(dQuery) EXCEPT !.accepted = FALSE, !.missing = 1, !.residual = 1,
           !.edges = <<Edge(FALSE, {By(dSeed)}, By(dSeed))>>]
Rumour == [Plain(dRumour) EXCEPT !.accepted = FALSE, !.edges = <<Edge(TRUE, {AsEvent(dSeed, 0)}, By(dLink))>>]
Stale == [Plain(dStale) EXCEPT !.marks = {"stale"},
           !.edges = <<[Edge(TRUE, {}, By(dSeed)) EXCEPT !.evidence = FALSE], Edge(TRUE, {}, None)>>]

MCReports == {Seed, Link, Query, Rumour, Stale}

(* The defaults of buildPhaseThresholdStatus, and a file that can be met:  *)
(* with the default path density no certificate is ever a candidate.       *)
DefaultThreshold ==
  [maximum_false_liquidity_load |-> <<1, 2>>, maximum_residual_debt |-> 0,
   maximum_salience_obstruction |-> <<1, 2>>, minimum_accepted_packet_count |-> 1,
   minimum_alt_to_ecpt_lift_count |-> 0, minimum_closure_witness_count |-> 1,
   minimum_effective_edge_count |-> 1, minimum_execution_available_path_density |-> <<1, 10>>,
   minimum_verification_throughput |-> <<1, 10>>]
AttainableThreshold ==
  [DefaultThreshold EXCEPT !.maximum_residual_debt = 1, !.minimum_accepted_packet_count = 2,
                           !.minimum_execution_available_path_density = <<0, 1>>]

MCThresholds == {DefaultThreshold, AttainableThreshold}
=============================================================================
