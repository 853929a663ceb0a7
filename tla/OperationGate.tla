---------------------------- MODULE OperationGate ----------------------------
(***************************************************************************)
(* The gates an agent passes before it may hand an operation over, and the *)
(* commands that make what they read: `mcp descriptor-check`, `mcp         *)
(* invocation-preflight`, `a2a card-check`, `a2a handoff-check` and `trc   *)
(* trace-normalize` each write a report to a file; `trc trace-check` and   *)
(* `trc operation-gate` read the trace, and the gate also a provider       *)
(* profile the agent puts together from the reports it has.  Between two   *)
(* commands a tool server may change its descriptor.                       *)
(*                                                                         *)
(* Residuals are the set of their kinds.  Every kind below blocks          *)
(* readiness, though not all are `blocking`.                               *)
(***************************************************************************)
EXTENDS Integers, Sequences, FiniteSetsExt

CONSTANTS
  Token, Issuer,          \* scope tokens (with the wildcard), issuers
  Wildcard,
  Resource,               \* names of resources and of tolerances
  Descriptor,             \* tool descriptors; a descriptor is its digest
  Card, Handoff,          \* agent cards and task handoffs
  RawTrace, Profile,      \* traces and provider profiles there are
  Foreign,                \* reports of other programs, by kind
  Garbage, None

Time    == Nat                       \* 0 is FIXED_CREATED_AT, the fixtures' time
Instant == Time \cup {None, Garbage}
Kinds   == {"descriptor", "preflight", "card", "handoff"}
Policy  == {"dry_run_only", "none_without_execute_flag", "provider_webhook_allowed",
            "physical_provider_allowed"}

(* A structured report: flags, whether its status is one of the accepting  *)
(* words, the hash it gives of its subject (else its own digest), and the  *)
(* hash of the descriptor (card) it names at top level or in a nested      *)
(* report.                                                                 *)
Report == [ok : BOOLEAN, accepted : BOOLEAN, ready : BOOLEAN, approved : BOOLEAN,
           hash : Descriptor \cup {None}, named : Descriptor \cup {None},
           nested : Descriptor \cup {None}]

(* `missing`: an envelope without a key, or of status "missing". *)
Envelope == [status : {"missing", "active", "approved", "revoked"}, issuer : Issuer \cup {None},
             expires : Instant, scopes : SUBSET Token]

RawStep == [witness : BOOLEAN, rollback : BOOLEAN, resource : BOOLEAN, tolerance : BOOLEAN,
            schedule : BOOLEAN, hazard : BOOLEAN, certificates : BOOLEAN,
            authority : Envelope \cup {None}, domain : SUBSET Token, clock : Time \cup {None}]
RawTraceData == [steps : Seq(RawStep), clock : Instant, fixture : BOOLEAN,
                 policy : Policy \cup {None}, target : Token \cup {None}]

(* An evidence record of a physical profile. *)
Evidence == [status : {"accepted", "approved", "active", "available", "tested", "verified",
                       "fresh", "recomputed", "present"},
             expires : Instant, fresh : BOOLEAN]

(* What is used or observed, with its limit or budget where one is given. *)
Usage == [Resource -> (Nat \X (Nat \cup {None})) \cup {None}]

ProfileData ==
  [clock : Instant, fixture : BOOLEAN \cup {None}, policy : Policy \cup {None},
   target : Token \cup {None}, trusted_issuers : SUBSET Issuer,
   allow_execute : BOOLEAN, explicit_execute : BOOLEAN, certificates : BOOLEAN,
   uses : SUBSET Kinds, requires_mcp_tool : BOOLEAN, requires_a2a_agent : BOOLEAN,
   mcp_tool_gate_accepted : BOOLEAN \cup {None}, a2a_agent_gate_accepted : BOOLEAN \cup {None},
   physical_dispatch_requested : BOOLEAN \cup {None},
   physical_domain_profile : Evidence \cup {None}, actuator_allowed : BOOLEAN \cup {None},
   human_operator_authority : Evidence \cup {None}, emergency_stop : Evidence \cup {None},
   runtime_assurance_certificate : Evidence \cup {None},
   requires_shield_certificate : BOOLEAN, shield_certificate : Evidence \cup {None},
   rollback_escrow : Evidence \cup {None}, hazard_envelope : Evidence \cup {None},
   hazard_envelope_certificate : Evidence \cup {None}, observation_window : BOOLEAN \cup {None},
   resource_use : Usage, tolerance_ledger : Usage,
   lifecycle_certificate : Evidence \cup {None}, lifecycle_recomputed : BOOLEAN]

ASSUME GateAssumption ==
  /\ Descriptor \subseteq [version : Nat, sound : BOOLEAN, signed : BOOLEAN, changed : BOOLEAN]
  /\ Card \subseteq [sound : BOOLEAN, signed : BOOLEAN] /\ Handoff \subseteq [sound : BOOLEAN]
  /\ RawTrace \subseteq RawTraceData /\ Profile \subseteq ProfileData
  /\ Foreign \in [Kinds -> SUBSET Report]
  /\ None # Garbage /\ {None, Garbage} \cap (Nat \cup BOOLEAN \cup Token \cup Issuer) = {}

VARIABLES
  tool,      \* the descriptor the tool server gives now
  reports,   \* the report files, by kind
  trace,     \* the trace normal form
  printed    \* what the last gate or trace check printed

vars == <<tool, reports, trace, printed>>

When(condition, kind) == IF condition THEN {kind} ELSE {}

(***************************************************************************)
(* mcpToolDescriptorReport, mcpToolInvocationPreflight, a2aAgentCardReport *)
(* and a2aTaskHandoffReport.  `sound` sums up the checks that only compare *)
(* one field with a list; the strict profiles ask for signatures.          *)
(***************************************************************************)
Blank == [ok |-> TRUE, accepted |-> FALSE, ready |-> FALSE, approved |-> FALSE,
          hash |-> None, named |-> None, nested |-> None]

DescriptorAccepted(d, strict) == d.sound /\ (strict => d.signed) /\ ~d.changed

DescriptorReport(d, strict) ==
  [Blank EXCEPT !.accepted = DescriptorAccepted(d, strict), !.hash = d]

(* mutant: the report is nested where its hash is looked for *)
PreflightReportWhole(d, callSound, strict) ==
  [Blank EXCEPT !.ready = DescriptorAccepted(d, strict) /\ callSound,
                !.nested = DescriptorReport(d, strict)]
PreflightReport(d, callSound, strict) ==
  [Blank EXCEPT !.ready = DescriptorAccepted(d, strict) /\ callSound, !.nested = d]

(* What `--compact` leaves of a preflight: `ok`, and no hash. *)
CompactReport(r) == [r EXCEPT !.ready = FALSE, !.nested = None]

CardReport(c, strict) == [Blank EXCEPT !.accepted = c.sound /\ (strict => c.signed)]
HandoffReport(h)      == [Blank EXCEPT !.accepted = h.sound]

(***************************************************************************)
(* traceNormalFormReport.                                                  *)
(***************************************************************************)
NoEnvelope == [status |-> "missing", issuer |-> None, expires |-> None, scopes |-> {}]

NormalStep(raw) ==
  [residuals |-> When(~raw.witness, "missing_step_witness")
                   \cup When(raw.authority = None, "missing_authority_envelope")
                   \cup When(~raw.rollback, "missing_rollback_escrow_obligation")
                   \cup When(~raw.resource, "missing_resource_ledger")
                   \cup When(~raw.tolerance, "missing_tolerance_ledger"),
   authority |-> IF raw.authority # None THEN raw.authority ELSE NoEnvelope,
   schedule |-> raw.schedule, hazard |-> raw.hazard, certificates |-> raw.certificates,
   domain |-> raw.domain, clock |-> raw.clock]

NormalForm(t) == [t EXCEPT !.steps = [i \in DOMAIN t.steps |-> NormalStep(t.steps[i])]]

(***************************************************************************)
(* contextValue and its users: the profile speaks before the trace.        *)
(***************************************************************************)
ContextValue(nf, profile, key) == IF profile[key] # None THEN profile[key] ELSE nf[key]

SideEffectPolicy(nf, profile) ==
  LET policy == ContextValue(nf, profile, "policy")
  IN  IF policy # None THEN policy ELSE "none_without_execute_flag"

FixtureDryRun(nf, profile) ==
  ContextValue(nf, profile, "fixture") /\ SideEffectPolicy(nf, profile) = "dry_run_only"

(* The clock of the profile or the trace if it can be parsed, else that of *)
(* the first step that has one.                                            *)
ReferenceTime(nf, profile) ==
  LET clock == ContextValue(nf, profile, "clock")
      timed == {i \in DOMAIN nf.steps : nf.steps[i].clock # None}
  IN  IF clock \notin {None, Garbage} THEN clock
      ELSE IF timed # {} THEN nf.steps[Min(timed)].clock
      ELSE None

(***************************************************************************)
(* authorityResiduals, for one step: a missing envelope is passed over.    *)
(***************************************************************************)
(* mutant: an envelope without scopes is not restricted *)
ScopeMatchesUnscoped(envelope, required) ==
  envelope.scopes = {} \/ Wildcard \in envelope.scopes \/ required \subseteq envelope.scopes
ScopeMatches(envelope, required) == Wildcard \in envelope.scopes \/ required \subseteq envelope.scopes

(* mutant: an envelope without an expiry never expires *)
TimeResidualsForever(expires, reference, dry) ==
  IF expires = None THEN {}
  ELSE IF expires = Garbage THEN {"authority_time_unknown"}
  ELSE (IF reference = None THEN When(~dry, "authority_time_unknown")
        ELSE When(expires <= reference, "expired_authority_envelope"))
       \cup When(expires = 0 /\ dry, "fixture_only_authority_non_executable")

TimeResiduals(expires, reference, dry) ==
  IF expires = None THEN When(~dry, "authority_time_unknown")
  ELSE IF expires = Garbage THEN {"authority_time_unknown"}
  ELSE (IF reference = None THEN When(~dry, "authority_time_unknown")
        ELSE When(expires <= reference, "expired_authority_envelope"))
       \cup When(expires = 0 /\ dry, "fixture_only_authority_non_executable")

AuthorityResiduals(nf, profile, step) ==
  LET a == step.authority
      required == step.domain \cup ({ContextValue(nf, profile, "target")} \ {None})
  IN  IF a.status = "missing" THEN {}
      ELSE When(a.status \notin {"active", "approved"}, "authority_status_not_active")
             \cup When(profile.trusted_issuers # {} /\ a.issuer \notin profile.trusted_issuers,
                       "authority_issuer_untrusted")
             \cup TimeResiduals(a.expires, ReferenceTime(nf, profile), FixtureDryRun(nf, profile))
             \cup When(~ScopeMatches(a, required), "authority_scope_mismatch")

AuthorityKinds == {"authority_issuer_untrusted", "authority_scope_mismatch",
                   "authority_status_not_active", "authority_time_unknown",
                   "expired_authority_envelope", "fixture_only_authority_non_executable",
                   "missing_authority_envelope"}

AllAuthorityResiduals(nf, profile) ==
  UNION {AuthorityResiduals(nf, profile, nf.steps[i]) : i \in DOMAIN nf.steps}

StepResiduals(nf) ==
  (UNION {nf.steps[i].residuals : i \in DOMAIN nf.steps}) \cup When(nf.steps = <<>>, "missing_steps")

(***************************************************************************)
(* traceCheckReport, which has no profile.                                 *)
(***************************************************************************)
NoProfile ==
  [clock |-> None, fixture |-> None, policy |-> None, target |-> None, trusted_issuers |-> {},
   allow_execute |-> FALSE, explicit_execute |-> FALSE, certificates |-> FALSE,
   uses |-> {}, requires_mcp_tool |-> FALSE, requires_a2a_agent |-> FALSE,
   mcp_tool_gate_accepted |-> None, a2a_agent_gate_accepted |-> None,
   physical_dispatch_requested |-> None, physical_domain_profile |-> None,
   actuator_allowed |-> None, human_operator_authority |-> None, emergency_stop |-> None,
   runtime_assurance_certificate |-> None, requires_shield_certificate |-> FALSE,
   shield_certificate |-> None, rollback_escrow |-> None, hazard_envelope |-> None,
   hazard_envelope_certificate |-> None, observation_window |-> None,
   resource_use |-> [n \in Resource |-> None], tolerance_ledger |-> [n \in Resource |-> None],
   lifecycle_certificate |-> None, lifecycle_recomputed |-> FALSE]

TraceCheckResiduals(nf) == StepResiduals(nf) \cup AllAuthorityResiduals(nf, NoProfile)

TraceCheckReport(nf) ==
  [execution_available |-> nf.steps # <<>> /\ TraceCheckResiduals(nf) = {},
   accepted |-> /\ nf.steps # <<>>
                /\ TraceCheckResiduals(nf) \cap (AuthorityKinds \cup {"missing_steps"}) = {}]

(***************************************************************************)
(* mcpToolGateReport and a2aAgentGateReport: two structured reports, or    *)
(* else the legacy flag, TRUE, FALSE or not given.                         *)
(***************************************************************************)
StructuredReportAccepted(r) == r.ok \/ r.accepted \/ r.ready \/ r.approved

(* `k` names the blockers; `subject` is the hash the second report names. *)
PairBlockers(k, first, second, subject) ==
  When(first = None, k.first_required)
    \cup (IF first = None THEN {} ELSE When(~StructuredReportAccepted(first), k.first_rejected))
    \cup When(second = None, k.second_required)
    \cup (IF second = None THEN {} ELSE When(~StructuredReportAccepted(second), k.second_rejected))
    \cup (IF first = None \/ subject = None \/ first.hash = subject THEN {} ELSE {k.hash_mismatch})

(* mutant: the legacy flag is asked first *)
GateReportLegacyFirst(k, first, second, subject, asked, legacy) ==
  LET found == IF legacy = TRUE THEN {}
               ELSE IF first # None \/ second # None THEN PairBlockers(k, first, second, subject)
               ELSE When(asked, k.not_accepted)
  IN  [ok |-> found = {}, blockers |-> found]

GateReport(k, first, second, subject, asked, legacy) ==
  LET structured == first # None \/ second # None
      found == IF structured THEN PairBlockers(k, first, second, subject)
               ELSE When(asked /\ legacy # TRUE, k.not_accepted)
      mismatch == structured /\ legacy # None /\ (found = {}) # (legacy = TRUE)
  IN  [ok |-> (IF structured THEN found = {} ELSE ~asked \/ legacy = TRUE) /\ ~mismatch,
       blockers |-> found \cup When(mismatch, k.legacy_mismatch)]

(* The report of a kind the profile takes from the files. *)
Used(files, profile, kind) == IF kind \in profile.uses THEN files[kind] ELSE None

(* mutant: only the top level of the preflight is searched for a hash *)
InvocationDescriptorHashTop(p) == IF p = None THEN None ELSE p.named
InvocationDescriptorHash(p) ==
  IF p = None THEN None ELSE IF p.named # None THEN p.named ELSE p.nested

McpToolGate(files, profile, legacy) ==
  GateReport([first_required |-> "mcp_tool_descriptor_report_required",
              first_rejected |-> "mcp_tool_descriptor_report_not_accepted",
              second_required |-> "mcp_tool_invocation_preflight_required",
              second_rejected |-> "mcp_tool_invocation_preflight_not_accepted",
              hash_mismatch |-> "mcp_descriptor_invocation_hash_mismatch",
              not_accepted |-> "mcp_tool_gate_not_accepted",
              legacy_mismatch |-> "mcp_gate_structured_legacy_mismatch"],
             Used(files, profile, "descriptor"), Used(files, profile, "preflight"),
             InvocationDescriptorHash(Used(files, profile, "preflight")),
             profile.requires_mcp_tool, legacy)

A2aAgentGate(files, profile, legacy) ==
  LET handoff == Used(files, profile, "handoff")
  IN  GateReport([first_required |-> "a2a_agent_card_report_required",
                  first_rejected |-> "a2a_agent_card_report_not_accepted",
                  second_required |-> "a2a_task_handoff_report_required",
                  second_rejected |-> "a2a_task_handoff_report_not_accepted",
                  hash_mismatch |-> "a2a_agent_card_handoff_hash_mismatch",
                  not_accepted |-> "a2a_agent_gate_not_accepted",
                  legacy_mismatch |-> "a2a_gate_structured_legacy_mismatch"],
                 Used(files, profile, "card"), handoff, IF handoff = None THEN None ELSE handoff.named,
                 profile.requires_a2a_agent, legacy)

(***************************************************************************)
(* physicalDispatchResiduals and its certificates.                         *)
(***************************************************************************)
HasStatus(e, statuses) == e # None /\ e.status \in statuses

(* mutant: without a clock nothing counts as expired *)
FreshUntilNoClock(e, reference) ==
  e # None /\ e.expires \notin {None, Garbage} /\ (reference = None \/ e.expires > reference)
FreshUntil(e, reference) ==
  e # None /\ reference # None /\ e.expires \notin {None, Garbage} /\ e.expires > reference

CertificateFresh(e, reference) ==
  \/ HasStatus(e, {"fresh", "recomputed"})
  \/ /\ HasStatus(e, {"accepted", "approved", "available", "tested", "verified", "active"})
     /\ FreshUntil(e, reference) \/ e.fresh

Certified(e, reference) ==
  CertificateFresh(e, reference) /\ HasStatus(e, {"accepted", "fresh", "approved"})

WithinBudget(usage) ==
  \A n \in Resource : usage[n] # None /\ usage[n][2] # None => usage[n][1] <= usage[n][2]

LifecycleFresh(profile, reference) ==
  IF profile.lifecycle_certificate = None THEN profile.lifecycle_recomputed
  ELSE CertificateFresh(profile.lifecycle_certificate, reference)

PhysicalRequested(p) ==
  IF p.physical_dispatch_requested # None THEN p.physical_dispatch_requested
  ELSE p.physical_domain_profile # None \/ p.actuator_allowed # None

HazardEnvelope(p) == IF p.hazard_envelope # None THEN p.hazard_envelope ELSE p.hazard_envelope_certificate

PhysicalFields == {"actuator_allowed", "emergency_stop", "hazard_envelope", "human_operator_authority",
                   "observation_window", "physical_domain_profile", "rollback_escrow",
                   "runtime_assurance_certificate"}

PhysicalResiduals(p, reference, policy) ==
  {<<"missing", field>> : field \in {f \in PhysicalFields : p[f] = None}}
    \cup {<<"failed", check>> : check \in
            When(~HasStatus(p.physical_domain_profile, {"accepted", "approved"}), "physical_domain_profile")
              \cup When(p.actuator_allowed = FALSE, "actuator_class")
              \cup When(~(HasStatus(p.human_operator_authority, {"approved", "active"})
                            /\ FreshUntil(p.human_operator_authority, reference)), "human_operator_authority")
              \cup When(~HasStatus(p.emergency_stop, {"accepted", "tested", "available"}), "emergency_stop")
              \cup When(~Certified(p.runtime_assurance_certificate, reference), "runtime_assurance")
              \cup When((p.requires_shield_certificate \/ p.shield_certificate # None)
                          /\ ~Certified(p.shield_certificate, reference), "shield_certificate")
              \cup When(~HasStatus(p.rollback_escrow, {"available", "verified"}), "rollback_escrow")
              \cup When(~Certified(HazardEnvelope(p), reference), "hazard_envelope")
              \cup When(p.observation_window # TRUE, "observation_verifier")
              \cup When(~WithinBudget(p.resource_use), "resource_use")
              \cup When(~WithinBudget(p.tolerance_ledger), "tolerance_budget")
              \cup When(~LifecycleFresh(p, reference), "lifecycle_certificate")
              \cup When(policy # "physical_provider_allowed", "side_effect_policy")}

(***************************************************************************)
(* operationGateReport.                                                    *)
(***************************************************************************)

(* A dry run of a fixture need not give a schedule, a hazard envelope or a *)
(* certificate version; the last two, any step may give for all.           *)
StructureResiduals(nf, p) ==
  When(\E i \in DOMAIN nf.steps : ~nf.steps[i].schedule, "missing_causal_schedule_block")
    \cup When(HazardEnvelope(p) = None /\ ~\E i \in DOMAIN nf.steps : nf.steps[i].hazard,
              "missing_hazard_envelope")
    \cup When(~p.certificates /\ ~\E i \in DOMAIN nf.steps : nf.steps[i].certificates,
              "missing_certificate_lifecycle")

(* mutant: all that the trace check found is left to the gate's own checks *)
BaseResidualsNone(nf) == {}
BaseResiduals(nf)     == StepResiduals(nf) \ AuthorityKinds

ExecutionBlockers(files, nf, p, legacyMcp, legacyA2a) ==
  BaseResiduals(nf)
    \cup AllAuthorityResiduals(nf, p)
    \cup (IF FixtureDryRun(nf, p) THEN {} ELSE StructureResiduals(nf, p))
    \cup McpToolGate(files, p, legacyMcp).blockers
    \cup A2aAgentGate(files, p, legacyA2a).blockers

GateOf(files, nf, p, legacyMcp, legacyA2a) ==
  LET blockers == ExecutionBlockers(files, nf, p, legacyMcp, legacyA2a)
      policy == SideEffectPolicy(nf, p)
      operation_ready == nf.steps # <<>> /\ blockers = {}
      provider_dispatch_ready ==
        /\ operation_ready
        /\ ~FixtureDryRun(nf, p)
        /\ policy \notin {"dry_run_only", "none_without_execute_flag"}
        /\ p.allow_execute /\ p.explicit_execute
        /\ McpToolGate(files, p, legacyMcp).ok /\ A2aAgentGate(files, p, legacyA2a).ok
  IN  [execution_blockers |-> blockers,
       operation_ready |-> operation_ready,
       provider_dispatch_ready |-> provider_dispatch_ready,
       physical_dispatch_ready |->
         /\ provider_dispatch_ready
         /\ PhysicalRequested(p)
         /\ PhysicalResiduals(p, ReferenceTime(nf, p), policy) = {}]

OperationGateReport(files, nf, p) == GateOf(files, nf, p, p.mcp_tool_gate_accepted, p.a2a_agent_gate_accepted)

(***************************************************************************)
(* Commands.                                                               *)
(***************************************************************************)
Init ==
  /\ tool \in Descriptor
  /\ reports = [kind \in Kinds |-> None]
  /\ trace = None
  /\ printed = None

(* The tool server gives another descriptor from now on. *)
ChangeDescriptor(d) ==
  /\ tool' = d /\ tool' # tool
  /\ printed' = None
  /\ UNCHANGED <<reports, trace>>

Write(kind, r) ==
  /\ reports' = [reports EXCEPT ![kind] = r]
  /\ printed' = None
  /\ UNCHANGED <<tool, trace>>

CheckDescriptor(strict)      == Write("descriptor", DescriptorReport(tool, strict))
Preflight(callSound, strict, compact) ==
  LET r == PreflightReport(tool, callSound, strict)
  IN  Write("preflight", IF compact THEN CompactReport(r) ELSE r)
CheckCard(c, strict)         == Write("card", CardReport(c, strict))
CheckHandoff(h)              == Write("handoff", HandoffReport(h))
Receive(kind, r)             == Write(kind, r)

TraceNormalize(raw) ==
  /\ trace' = NormalForm(raw)
  /\ printed' = None
  /\ UNCHANGED <<tool, reports>>

TraceCheck ==
  /\ trace # None
  /\ printed' = [command |-> "trace-check", report |-> TraceCheckReport(trace)]
  /\ UNCHANGED <<tool, reports, trace>>

OperationGate(p) ==
  /\ trace # None
  /\ \A kind \in p.uses : reports[kind] # None
  /\ printed' = [command |-> "operation-gate", profile |-> p, report |-> OperationGateReport(reports, trace, p)]
  /\ UNCHANGED <<tool, reports, trace>>

Next ==
  \/ \E d \in Descriptor : ChangeDescriptor(d)
  \/ \E strict \in BOOLEAN :
       \/ CheckDescriptor(strict)
       \/ \E callSound, compact \in BOOLEAN : Preflight(callSound, strict, compact)
       \/ \E c \in Card : CheckCard(c, strict)
  \/ \E h \in Handoff : CheckHandoff(h)
  \/ \E kind \in Kinds : \E r \in Foreign[kind] : Receive(kind, r)
  \/ \E raw \in RawTrace : TraceNormalize(raw)
  \/ TraceCheck
  \/ \E p \in Profile : OperationGate(p)

Spec == Init /\ [][Next]_vars

(***************************************************************************)
(* Type invariant.                                                         *)
(***************************************************************************)
NormalFormData ==
  [steps : Seq([residuals : SUBSET {"missing_step_witness", "missing_authority_envelope",
                                    "missing_rollback_escrow_obligation", "missing_resource_ledger",
                                    "missing_tolerance_ledger"},
                authority : Envelope, schedule : BOOLEAN, hazard : BOOLEAN, certificates : BOOLEAN,
                domain : SUBSET Token, clock : Time \cup {None}]),
   clock : Instant, fixture : BOOLEAN, policy : Policy \cup {None}, target : Token \cup {None}]

Blocker ==
  AuthorityKinds
    \cup {"missing_steps", "missing_step_witness", "missing_rollback_escrow_obligation",
          "missing_resource_ledger", "missing_tolerance_ledger", "missing_causal_schedule_block",
          "missing_hazard_envelope", "missing_certificate_lifecycle"}
    \cup {"mcp_tool_descriptor_report_required", "mcp_tool_descriptor_report_not_accepted",
          "mcp_tool_invocation_preflight_required", "mcp_tool_invocation_preflight_not_accepted",
          "mcp_descriptor_invocation_hash_mismatch", "mcp_tool_gate_not_accepted",
          "mcp_gate_structured_legacy_mismatch"}
    \cup {"a2a_agent_card_report_required", "a2a_agent_card_report_not_accepted",
          "a2a_task_handoff_report_required", "a2a_task_handoff_report_not_accepted",
          "a2a_agent_card_handoff_hash_mismatch", "a2a_agent_gate_not_accepted",
          "a2a_gate_structured_legacy_mismatch"}

(* The files hold reports of their kinds and a trace in normal form. *)
TypeOK ==
  /\ tool \in Descriptor
  /\ reports \in [Kinds -> Report \cup {None}]
  /\ trace \in NormalFormData \cup {None}
  /\ \/ printed = None
     \/ printed \in [command : {"trace-check"}, report : [execution_available : BOOLEAN, accepted : BOOLEAN]]
     \/ printed \in [command : {"operation-gate"}, profile : Profile,
                     report : [execution_blockers : SUBSET Blocker, operation_ready : BOOLEAN,
                               provider_dispatch_ready : BOOLEAN, physical_dispatch_ready : BOOLEAN]]

(***************************************************************************)
(* Properties of what the gate printed.                                    *)
(***************************************************************************)
Gated == printed # None /\ printed.command = "operation-gate"

(* A descriptor report and an invocation preflight made before and after   *)
(* the server changed its descriptor never pass together, where the        *)
(* preflight was kept in full.                                             *)
MixedReportsBlock ==
  Gated /\ {"descriptor", "preflight"} \subseteq printed.profile.uses =>
    LET d == reports["descriptor"]
        p == reports["preflight"]
    IN  p.named = None /\ p.nested # None /\ d.hash # p.nested => ~printed.report.operation_ready

(* "Structured MCP/A2A reports are primary when supplied": where a report  *)
(* of a route is given, its legacy flag never opens what would be closed   *)
(* without the flag.                                                       *)
LegacyNeverOpens ==
  Gated /\ printed.report.operation_ready =>
    LET p == printed.profile
        without(route) == GateOf(reports, trace, p, IF route = "mcp" THEN None ELSE p.mcp_tool_gate_accepted,
                                                    IF route = "a2a" THEN None ELSE p.a2a_agent_gate_accepted)
    IN  /\ p.uses \cap {"descriptor", "preflight"} # {} => without("mcp").operation_ready
        /\ p.uses \cap {"card", "handoff"} # {} => without("a2a").operation_ready

(* What a fixture's dry run is let off with (a schedule, a hazard          *)
(* envelope, certificate versions, knowing the time) is there whenever a   *)
(* dispatch is, whichever of profile and trace gave mode and policy.       *)
WaiversNeverDispatch ==
  Gated /\ printed.report.provider_dispatch_ready =>
    /\ StructureResiduals(trace, printed.profile) = {}
    /\ \A i \in DOMAIN trace.steps : LET a == trace.steps[i].authority IN
         a.status # "missing" => /\ a.expires \notin {None, Garbage}
                                 /\ ReferenceTime(trace, printed.profile) # None
                                 /\ a.expires > ReferenceTime(trace, printed.profile)

(* Taking from a step its witness, rollback escrow, a ledger, its          *)
(* schedule, hazard envelope or certificates, or from its authority        *)
(* envelope the status, issuer, expiry or scopes, makes nothing ready that *)
(* was not, but for one case: a fixture's dry run is let off knowing the   *)
(* expiry, so that without it an expired envelope no longer closes the     *)
(* operation (and still dispatches nothing).  Taking one of the two        *)
(* reports of a route closes it.                                           *)
(* Taking the envelope as a whole may open a dispatch, since a missing one *)
(* is passed over (AuthorityRequired); it does away with what that         *)
(* envelope itself was blocked for and with no other blocker.              *)
WeakerSteps(s) ==
  {[s EXCEPT !.residuals = @ \cup {kind}] :
     kind \in {"missing_step_witness", "missing_rollback_escrow_obligation",
              "missing_resource_ledger", "missing_tolerance_ledger"}}
    \cup {[s EXCEPT !.schedule = FALSE], [s EXCEPT !.hazard = FALSE], [s EXCEPT !.certificates = FALSE]}
    \cup (IF s.authority.status = "missing" THEN {}
          ELSE {[s EXCEPT !.authority.status = "revoked"], [s EXCEPT !.authority.expires = None],
                [s EXCEPT !.authority.issuer = None], [s EXCEPT !.authority.scopes = {}]})

WithoutEnvelope(s) ==
  [s EXCEPT !.residuals = @ \cup {"missing_authority_envelope"}, !.authority = NoEnvelope]

Partner == [descriptor |-> "preflight", preflight |-> "descriptor", card |-> "handoff", handoff |-> "card"]

WeakerEvidenceNeverOpens ==
  Gated =>
    LET p == printed.profile
        before == printed.report
        With(i, s) == OperationGateReport(reports, [trace EXCEPT !.steps[i] = s], p)
    IN  /\ \A i \in DOMAIN trace.steps : \A s \in WeakerSteps(trace.steps[i]) :
             LET after == With(i, s) IN
             /\ after.operation_ready =>
                  \/ before.operation_ready
                  \/ FixtureDryRun(trace, p) /\ s.authority.expires # trace.steps[i].authority.expires
             /\ after.provider_dispatch_ready => before.provider_dispatch_ready
             /\ after.physical_dispatch_ready => before.physical_dispatch_ready
        /\ \A kind \in p.uses : Partner[kind] \in p.uses =>
             ~OperationGateReport(reports, trace, [p EXCEPT !.uses = @ \ {kind}]).operation_ready
        /\ \A i \in DOMAIN trace.steps :
             With(i, WithoutEnvelope(trace.steps[i])).operation_ready =>
               before.execution_blockers \subseteq AuthorityResiduals(trace, p, trace.steps[i])

(* Time only takes readiness away: what is ready at a clock is ready at    *)
(* every earlier one, and nothing physical is ready without a clock.       *)
ReadinessOnlyExpires ==
  Gated =>
    LET now == ReferenceTime(trace, printed.profile) IN
    /\ printed.report.physical_dispatch_ready => now # None
    /\ now # None => \A t \in 0 .. now :
         LET then == OperationGateReport(reports, trace, [printed.profile EXCEPT !.clock = t]) IN
         /\ printed.report.operation_ready => then.operation_ready
         /\ printed.report.provider_dispatch_ready => then.provider_dispatch_ready
         /\ printed.report.physical_dispatch_ready => then.physical_dispatch_ready

(* "The stricter operation-gate": under a profile that does not answer for *)
(* the trace, what it finds ready the trace check finds available, but for *)
(* a step without an envelope.                                             *)
GateIsStricter ==
  Gated /\ printed.report.operation_ready
    /\ (\A key \in {"clock", "fixture", "policy", "target"} : printed.profile[key] = None) =>
    \/ TraceCheckReport(trace).execution_available
    \/ \E i \in DOMAIN trace.steps : "missing_authority_envelope" \in trace.steps[i].residuals

(* "operation_ready means a finite trace has the required authority".  The *)
(* code does not keep this: the gate drops the trace's own authority       *)
(* residuals, to judge authority again, and then passes a missing envelope *)
(* over.                                                                   *)
AuthorityRequired ==
  Gated /\ printed.report.operation_ready =>
    \A i \in DOMAIN trace.steps : trace.steps[i].authority.status \in {"active", "approved"}
=============================================================================
