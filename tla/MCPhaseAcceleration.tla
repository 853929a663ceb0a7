------------------------ MODULE MCPhaseAcceleration ------------------------
(* Instances of PhaseAcceleration for TLC. *)
EXTENDS PhaseAcceleration, TLC

CONSTANTS cx, cy, transport, hazard

(* Packets: one declares its surplus, one leaves it to its bounds, one is  *)
(* worth little; and those that are not admitted.                          *)
Declared == [coordinate |-> cx, refs |-> TRUE, verified |-> Checks, surplus |-> 5,
             capital |-> None, cost |-> None, hazard |-> None, transport |-> None,
             proxy_only |-> FALSE, negative_liquidity |-> FALSE, lifecycle_stale |-> FALSE,
             authority_fresh |-> TRUE]
Computed == [Declared EXCEPT !.coordinate = cy, !.surplus = Garbage, !.capital = 7, !.cost = 1,
                             !.hazard = 1, !.transport = Garbage]
MCPackets == {Declared, Computed, [Declared EXCEPT !.surplus = 1],
              [Declared EXCEPT !.proxy_only = TRUE],
              [Computed EXCEPT !.cost = 5], [Computed EXCEPT !.cost = 6],
              [Declared EXCEPT !.verified = Checks \ {"finality_valid"}, !.lifecycle_stale = TRUE]}

NoCharges == [f \in Charge |-> None]
Nothing   == [confidence_budget |-> FALSE, time_uniform_evidence |-> FALSE,
              charge |-> NoCharges, declared_missing_charge |-> None]

Accepted == [complete |-> TRUE, status |-> [f \in Laws \cup Envelopes |-> "accepted"],
             observed |-> TRUE, locked |-> TRUE, changed |-> FALSE,
             thresholds |-> cx :> 3 @@ cy :> None, raw_net_capital_floor |-> 4,
             evidence |-> [Nothing EXCEPT !.time_uniform_evidence = TRUE,
                                          !.charge = transport :> 1 @@ hazard :> Garbage]]
MCTargets ==
  {Accepted,
   [Accepted EXCEPT !.thresholds = cx :> 2 @@ cy :> 3, !.raw_net_capital_floor = Garbage,
                    !.evidence.declared_missing_charge = 2],
   [Accepted EXCEPT !.thresholds = cx :> None @@ cy :> Garbage],
   [Accepted EXCEPT !.thresholds = [c \in Coordinate |-> None]],
   [Accepted EXCEPT !.locked = FALSE, !.status["hazard_envelope"] = "fresh"]}

Envelope == [complete |-> TRUE, stale |-> FALSE, baseline_stale |-> FALSE, lifecycle_stale |-> FALSE,
             resource_matched |-> None, control_observability |-> "accepted",
             envelope_coordinates |-> cx :> 2 @@ cy :> None,
             evidence |-> [Nothing EXCEPT !.confidence_budget = TRUE, !.charge = transport :> 2 @@ hazard :> 0]]
MCBaselines ==
  {Envelope, [Envelope EXCEPT !.evidence.declared_missing_charge = 1],
   [Envelope EXCEPT !.envelope_coordinates = cx :> 2 @@ cy :> 1, !.evidence.declared_missing_charge = 1],
   [Envelope EXCEPT !.envelope_coordinates = cx :> Garbage @@ cy :> 3, !.lifecycle_stale = TRUE],
   [Envelope EXCEPT !.resource_matched = FALSE, !.control_observability = "text"]}
=============================================================================
