-------------------------- MODULE MCOperationGate --------------------------
(* Instances of OperationGate for TLC. *)
EXTENDS OperationGate

CONSTANTS readScope, writeScope, operator, stranger, energy

Good    == [version |-> 1, sound |-> TRUE, signed |-> FALSE, changed |-> FALSE]
Swapped == [Good EXCEPT !.version = 2, !.changed = TRUE]

MCDescriptors == {Good, Swapped}
MCCards       == {[sound |-> TRUE, signed |-> FALSE]}
MCHandoffs    == {[sound |-> TRUE]}

(* Reports of other programs: without `ok`, with a hash at top level. *)
Hand == [Blank EXCEPT !.ok = FALSE, !.accepted = TRUE]
MCForeign == [kind \in Kinds |->
  CASE kind = "descriptor" -> {[Hand EXCEPT !.hash = Good, !.accepted = FALSE]}
    [] kind = "preflight"  -> {[Hand EXCEPT !.named = Good]}
    [] kind = "card"       -> {[Hand EXCEPT !.hash = Good]}
    [] kind = "handoff"    -> {[Hand EXCEPT !.named = Swapped]}]

(* A step with everything, valid until 2, and the ones that lack something. *)
Authority == [status |-> "approved", issuer |-> operator, expires |-> 2, scopes |-> {readScope}]
Full == [witness |-> TRUE, rollback |-> TRUE, resource |-> TRUE, tolerance |-> TRUE,
         schedule |-> TRUE, hazard |-> TRUE, certificates |-> TRUE,
         authority |-> Authority, domain |-> {readScope}, clock |-> None]
Plain == [Full EXCEPT !.hazard = FALSE, !.certificates = FALSE]

Trace(steps) == [steps |-> steps, clock |-> 1, fixture |-> FALSE, policy |-> None, target |-> None]

MCTraces ==
  {Trace(<<>>), Trace(<<Full, Plain>>),
   Trace(<<[Full EXCEPT !.witness = FALSE, !.rollback = FALSE, !.resource = FALSE, !.tolerance = FALSE]>>),
   Trace(<<Full, [Full EXCEPT !.authority = None]>>),
   Trace(<<[Full EXCEPT !.authority.status = "revoked"]>>),
   Trace(<<[Full EXCEPT !.authority.issuer = stranger, !.authority.scopes = {Wildcard}]>>),
   [Trace(<<[Full EXCEPT !.authority.expires = None]>>)
      EXCEPT !.fixture = TRUE, !.policy = "dry_run_only"],
   [Trace(<<[Full EXCEPT !.authority.expires = 0, !.schedule = FALSE]>>) EXCEPT !.fixture = TRUE, !.clock = None],
   [Trace(<<[Full EXCEPT !.clock = 1], [Full EXCEPT !.clock = 2]>>) EXCEPT !.clock = Garbage],
   [Trace(<<[Full EXCEPT !.authority = None]>>) EXCEPT !.clock = None],
   [Trace(<<Full>>) EXCEPT !.clock = 2, !.target = writeScope]}

Dispatch == [NoProfile EXCEPT !.policy = "provider_webhook_allowed", !.allow_execute = TRUE,
                              !.explicit_execute = TRUE, !.trusted_issuers = {operator}]
WithMcp  == [Dispatch EXCEPT !.uses = {"descriptor", "preflight"}]
WithA2a  == [Dispatch EXCEPT !.uses = {"card", "handoff"}, !.requires_a2a_agent = TRUE]

(* Evidence good until 2 wherever it can expire. *)
Until2   == [status |-> "approved", expires |-> 2, fresh |-> FALSE]
Physical == [Dispatch EXCEPT
  !.policy = "physical_provider_allowed", !.physical_domain_profile = Until2, !.actuator_allowed = TRUE,
  !.human_operator_authority = Until2, !.emergency_stop = [Until2 EXCEPT !.status = "tested"],
  !.runtime_assurance_certificate = [Until2 EXCEPT !.status = "fresh"],
  !.rollback_escrow = [Until2 EXCEPT !.status = "verified"],
  !.hazard_envelope = [Until2 EXCEPT !.fresh = TRUE],
  !.observation_window = TRUE, !.lifecycle_recomputed = TRUE]

MCProfiles ==
  {NoProfile, Dispatch, WithMcp, WithA2a, Physical,
   [NoProfile EXCEPT !.fixture = TRUE],
   [Dispatch EXCEPT !.policy = "dry_run_only", !.fixture = TRUE],
   [Dispatch EXCEPT !.fixture = TRUE, !.clock = 0],
   [Dispatch EXCEPT !.trusted_issuers = {}, !.policy = None],
   [Dispatch EXCEPT !.requires_mcp_tool = TRUE],
   [Dispatch EXCEPT !.requires_mcp_tool = TRUE, !.mcp_tool_gate_accepted = TRUE],
   [WithMcp EXCEPT !.mcp_tool_gate_accepted = TRUE],
   [WithMcp EXCEPT !.mcp_tool_gate_accepted = FALSE],
   [WithMcp EXCEPT !.uses = {"descriptor"}],
   [WithMcp EXCEPT !.uses = {"preflight"}, !.mcp_tool_gate_accepted = TRUE],
   [WithA2a EXCEPT !.a2a_agent_gate_accepted = TRUE],
   [WithA2a EXCEPT !.uses = {"handoff"}],
   [Physical EXCEPT !.clock = 2],
   [Physical EXCEPT !.physical_dispatch_requested = FALSE],
   [Physical EXCEPT !.shield_certificate = Until2, !.lifecycle_certificate = Until2],
   [Physical EXCEPT !.runtime_assurance_certificate.status = "present"],
   [Physical EXCEPT !.hazard_envelope = None, !.hazard_envelope_certificate = Until2],
   [Physical EXCEPT !.resource_use = [n \in Resource |-> <<1, None>>],
                    !.tolerance_ledger = [n \in Resource |-> <<2, 1>>]]}
=============================================================================
