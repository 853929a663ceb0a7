------------------------- MODULE OperationGateProofs -------------------------
(***************************************************************************)
(* For any descriptors, reports, traces and profiles: what the operation   *)
(* gate prints stands for the files as they are, and what follows of it.   *)
(***************************************************************************)
EXTENDS OperationGate, NumberLemmas, TLAPS

StepData ==
  [residuals : SUBSET {"missing_step_witness", "missing_authority_envelope",
                       "missing_rollback_escrow_obligation", "missing_resource_ledger",
                       "missing_tolerance_ledger"},
   authority : Envelope, schedule : BOOLEAN, hazard : BOOLEAN, certificates : BOOLEAN,
   domain : SUBSET Token, clock : Time \cup {None}]

(* The files hold reports and a trace in normal form.                      *)
FilesTyped ==
  /\ tool \in Descriptor
  /\ reports \in [Kinds -> Report \cup {None}]
  /\ trace \in NormalFormData \cup {None}

(* A printed gate report is the gate of the present files.                 *)
GatePrinted ==
  Gated => /\ printed.profile \in Profile
           /\ trace # None
           /\ \A kind \in printed.profile.uses : reports[kind] # None
           /\ printed.report = OperationGateReport(reports, trace, printed.profile)

GateInv == FilesTyped /\ GatePrinted

(***************************************************************************)
(* The reports written are reports, the trace written is in normal form.   *)
(***************************************************************************)
LEMMA WrittenReports ==
  ASSUME GateAssumption, tool \in Descriptor
  PROVE  \A strict, callSound, compact \in BOOLEAN :
           /\ DescriptorReport(tool, strict) \in Report
           /\ PreflightReport(tool, callSound, strict) \in Report
           /\ CompactReport(PreflightReport(tool, callSound, strict)) \in Report
           /\ \A c \in Card : CardReport(c, strict) \in Report
           /\ \A h \in Handoff : HandoffReport(h) \in Report
<1>1. \A d \in Descriptor : d.sound \in BOOLEAN /\ d.signed \in BOOLEAN /\ d.changed \in BOOLEAN
  BY DEF GateAssumption
<1>2. \A c \in Card : c.sound \in BOOLEAN /\ c.signed \in BOOLEAN
  BY DEF GateAssumption
<1>3. \A h \in Handoff : h.sound \in BOOLEAN
  BY DEF GateAssumption
<1> SUFFICES ASSUME NEW strict \in BOOLEAN, NEW callSound \in BOOLEAN
             PROVE  /\ DescriptorReport(tool, strict) \in Report
                    /\ PreflightReport(tool, callSound, strict) \in Report
                    /\ CompactReport(PreflightReport(tool, callSound, strict)) \in Report
                    /\ \A c \in Card : CardReport(c, strict) \in Report
                    /\ \A h \in Handoff : HandoffReport(h) \in Report
  OBVIOUS
<1>4. DescriptorAccepted(tool, strict) \in BOOLEAN  BY <1>1 DEF DescriptorAccepted
<1>5. DescriptorReport(tool, strict) \in Report  BY <1>4 DEF DescriptorReport, Blank, Report
<1>6. PreflightReport(tool, callSound, strict) \in Report  BY <1>4 DEF PreflightReport, Blank, Report
<1>7. CompactReport(PreflightReport(tool, callSound, strict)) \in Report
  BY <1>6 DEF CompactReport, Report
<1>8. \A c \in Card : CardReport(c, strict) \in Report  BY <1>2 DEF CardReport, Blank, Report
<1>9. \A h \in Handoff : HandoffReport(h) \in Report  BY <1>3 DEF HandoffReport, Blank, Report
<1>10. QED  BY <1>5, <1>6, <1>7, <1>8, <1>9

(* A step of the normal form.                                              *)
LEMMA NormalStepTyped ==
  ASSUME NEW raw \in RawStep
  PROVE  NormalStep(raw) \in StepData
<1>1. raw.authority # None => raw.authority \in Envelope  BY DEF RawStep
<1>2. NoEnvelope \in Envelope
  BY DEF NoEnvelope, Envelope, Instant
<1>3. NormalStep(raw).authority \in Envelope  BY <1>1, <1>2 DEF NormalStep
<1>4. NormalStep(raw).residuals \in SUBSET {"missing_step_witness", "missing_authority_envelope",
         "missing_rollback_escrow_obligation", "missing_resource_ledger", "missing_tolerance_ledger"}
  BY DEF NormalStep, When
<1>5. /\ NormalStep(raw).schedule \in BOOLEAN /\ NormalStep(raw).hazard \in BOOLEAN
      /\ NormalStep(raw).certificates \in BOOLEAN /\ NormalStep(raw).domain \in SUBSET Token
      /\ NormalStep(raw).clock \in Time \cup {None}
  BY DEF NormalStep, RawStep
<1>6. NormalStep(raw) = [residuals |-> NormalStep(raw).residuals, authority |-> NormalStep(raw).authority,
         schedule |-> NormalStep(raw).schedule, hazard |-> NormalStep(raw).hazard,
         certificates |-> NormalStep(raw).certificates, domain |-> NormalStep(raw).domain,
         clock |-> NormalStep(raw).clock]
  BY DEF NormalStep
<1> HIDE DEF NormalStep
<1>7. QED  BY <1>3, <1>4, <1>5, <1>6 DEF StepData

(* The normal form of a trace.                                             *)
LEMMA NormalFormTyped ==
  ASSUME GateAssumption, NEW raw \in RawTrace
  PROVE  NormalForm(raw) \in NormalFormData
<1>1. raw \in RawTraceData  BY DEF GateAssumption
<1>2. raw.steps \in Seq(RawStep)  BY <1>1 DEF RawTraceData
<1> DEFINE steps == [i \in DOMAIN raw.steps |-> NormalStep(raw.steps[i])]
<1>3. steps \in Seq(StepData)
  <2>1. \A i \in DOMAIN raw.steps : NormalStep(raw.steps[i]) \in StepData
    <3>1. \A i \in DOMAIN raw.steps : raw.steps[i] \in RawStep  BY <1>2
    <3>2. QED  BY <3>1, NormalStepTyped
  <2>2. DOMAIN raw.steps = 1 .. Len(raw.steps) /\ Len(raw.steps) \in Nat  BY <1>2
  <2>3. QED  BY <2>1, <2>2
<1> HIDE DEF steps
<1>4. NormalForm(raw) = [raw EXCEPT !.steps = steps]  BY DEF NormalForm, steps
<1>5. QED  BY <1>1, <1>3, <1>4 DEF NormalFormData, RawTraceData, StepData

(***************************************************************************)
(* The invariant.                                                          *)
(***************************************************************************)
(* No file is there and nothing is printed.                                *)
LEMMA InitGate == Init => GateInv
BY DEF Init, GateInv, FilesTyped, GatePrinted, Gated

(* A step that changes a file leaves nothing printed.                      *)
LEMMA NextGate ==
  ASSUME GateAssumption, GateInv, [Next]_vars
  PROVE  GateInv'
<1>1. ASSUME NEW d \in Descriptor, ChangeDescriptor(d) PROVE GateInv'
  BY <1>1 DEF ChangeDescriptor, GateInv, FilesTyped, GatePrinted, Gated
<1>2. ASSUME NEW kind \in Kinds, NEW r \in Report, Write(kind, r) PROVE GateInv'
  BY <1>2 DEF Write, GateInv, FilesTyped, GatePrinted, Gated
<1>3. ASSUME NEW strict \in BOOLEAN, CheckDescriptor(strict) PROVE GateInv'
  BY <1>2, <1>3, WrittenReports DEF CheckDescriptor, GateInv, FilesTyped, Kinds
<1>4. ASSUME NEW strict \in BOOLEAN, NEW callSound \in BOOLEAN, NEW compact \in BOOLEAN,
              Preflight(callSound, strict, compact)
       PROVE  GateInv'
  BY <1>2, <1>4, WrittenReports DEF Preflight, GateInv, FilesTyped, Kinds
<1>5. ASSUME NEW c \in Card, NEW strict \in BOOLEAN, CheckCard(c, strict) PROVE GateInv'
  BY <1>2, <1>5, WrittenReports DEF CheckCard, GateInv, FilesTyped, Kinds
<1>6. ASSUME NEW h \in Handoff, CheckHandoff(h) PROVE GateInv'
  BY <1>2, <1>6, WrittenReports DEF CheckHandoff, GateInv, FilesTyped, Kinds
<1>7. ASSUME NEW kind \in Kinds, NEW r \in Foreign[kind], Receive(kind, r) PROVE GateInv'
  <2>1. r \in Report  BY DEF GateAssumption
  <2>2. QED  BY <1>2, <1>7, <2>1 DEF Receive
<1>8. ASSUME NEW raw \in RawTrace, TraceNormalize(raw) PROVE GateInv'
  BY <1>8, NormalFormTyped DEF TraceNormalize, GateInv, FilesTyped, GatePrinted, Gated
<1>9. ASSUME TraceCheck PROVE GateInv'
  BY <1>9 DEF TraceCheck, GateInv, FilesTyped, GatePrinted, Gated
<1>10. ASSUME NEW p \in Profile, OperationGate(p) PROVE GateInv'
  <2>1. FilesTyped'  BY <1>10 DEF OperationGate, GateInv, FilesTyped
  <2>2. /\ printed'.profile = p /\ printed'.report = OperationGateReport(reports, trace, p)
        /\ UNCHANGED <<reports, trace>>
        /\ trace # None /\ \A kind \in p.uses : reports[kind] # None
    BY <1>10 DEF OperationGate
  <2>3. QED  BY <2>1, <2>2 DEF GateInv, GatePrinted
<1>11. ASSUME UNCHANGED vars PROVE GateInv'
  BY <1>11 DEF vars, GateInv, FilesTyped, GatePrinted, Gated
<1>12. QED  BY <1>1, <1>3, <1>4, <1>5, <1>6, <1>7, <1>8, <1>9, <1>10, <1>11 DEF Next

(* What the gate printed last stands for the files as they are.            *)
THEOREM GateInvariant == Spec => []GateInv
<1>1. GateInv /\ [Next]_vars => GateInv'  BY NextGate, GateAssumption
<1>2. QED  BY InitGate, <1>1, PTL DEF Spec

(***************************************************************************)
(* A printed gate report, and what its flags say.                          *)
(***************************************************************************)

(* A ready operation has steps and no blockers of any group.               *)
LEMMA ReadyMeans ==
  ASSUME NEW files, NEW nf, NEW p, NEW mcp, NEW a2a,
         GateOf(files, nf, p, mcp, a2a).operation_ready
  PROVE  /\ nf.steps # <<>>
         /\ BaseResiduals(nf) = {}
         /\ AllAuthorityResiduals(nf, p) = {}
         /\ ~FixtureDryRun(nf, p) => StructureResiduals(nf, p) = {}
         /\ McpToolGate(files, p, mcp).blockers = {}
         /\ A2aAgentGate(files, p, a2a).blockers = {}
<1>1. nf.steps # <<>> /\ ExecutionBlockers(files, nf, p, mcp, a2a) = {}  BY DEF GateOf
<1>2. QED  BY <1>1 DEF ExecutionBlockers

(* And conversely.                                                         *)
LEMMA ReadyIs ==
  ASSUME NEW files, NEW nf, NEW p, NEW mcp, NEW a2a
  PROVE  GateOf(files, nf, p, mcp, a2a).operation_ready
           <=> nf.steps # <<>> /\ ExecutionBlockers(files, nf, p, mcp, a2a) = {}
BY DEF GateOf

(* A report pair without blockers has none but for its legacy flag either. *)
LEMMA WithoutLegacy ==
  ASSUME NEW k, NEW first, NEW second, NEW subject, NEW asked, NEW legacy,
         first # None \/ second # None,
         GateReport(k, first, second, subject, asked, legacy).blockers = {}
  PROVE  GateReport(k, first, second, subject, asked, None).blockers = {}
<1>1. PairBlockers(k, first, second, subject) = {}  BY DEF GateReport
<1>2. QED  BY <1>1 DEF GateReport, When

(***************************************************************************)
(* The properties.                                                         *)
(***************************************************************************)
(* A hash that differs is a blocker, which a ready operation lacks.        *)
LEMMA MixedBlocks == GateInv => MixedReportsBlock
<1> SUFFICES ASSUME GateInv, Gated, {"descriptor", "preflight"} \subseteq printed.profile.uses,
                    reports["preflight"].named = None, reports["preflight"].nested # None,
                    reports["descriptor"].hash # reports["preflight"].nested,
                    printed.report.operation_ready
             PROVE  FALSE
  BY DEF MixedReportsBlock
<1> DEFINE p == printed.profile
           d == reports["descriptor"]
           f == reports["preflight"]
<1>1. d # None /\ f # None /\ printed.report = OperationGateReport(reports, trace, p)
  BY DEF GateInv, GatePrinted
<1>2. Used(reports, p, "descriptor") = d /\ Used(reports, p, "preflight") = f  BY DEF Used
<1>3. InvocationDescriptorHash(f) = f.nested  BY <1>1 DEF InvocationDescriptorHash
<1> HIDE DEF p, d, f
<1>4. McpToolGate(reports, p, p.mcp_tool_gate_accepted).blockers = {}
  BY <1>1, ReadyMeans DEF OperationGateReport, p
<1>5. "mcp_descriptor_invocation_hash_mismatch" \in McpToolGate(reports, p, p.mcp_tool_gate_accepted).blockers
  BY <1>1, <1>2, <1>3 DEF McpToolGate, GateReport, PairBlockers, d, f
<1>6. QED  BY <1>4, <1>5

(* Each route, with a report, is judged the same without its flag.         *)
LEMMA LegacyCloses == GateInv => LegacyNeverOpens
<1> SUFFICES ASSUME GateInv, Gated, printed.report.operation_ready
             PROVE  LegacyNeverOpens
  BY DEF LegacyNeverOpens
<1> DEFINE p == printed.profile
           mcp == p.mcp_tool_gate_accepted
           a2a == p.a2a_agent_gate_accepted
<1>1. /\ \A kind \in p.uses : reports[kind] # None
      /\ GateOf(reports, trace, p, mcp, a2a).operation_ready
  BY DEF GateInv, GatePrinted, OperationGateReport
<1>2. \A kind \in p.uses : Used(reports, p, kind) # None  BY <1>1 DEF Used
<1> HIDE DEF p, mcp, a2a
<1>3. /\ trace.steps # <<>> /\ ExecutionBlockers(reports, trace, p, mcp, a2a) = {}
      /\ McpToolGate(reports, p, mcp).blockers = {} /\ A2aAgentGate(reports, p, a2a).blockers = {}
  BY <1>1, ReadyMeans, ReadyIs
<1>4. ASSUME p.uses \cap {"descriptor", "preflight"} # {}
      PROVE  GateOf(reports, trace, p, None, a2a).operation_ready
  <2>1. Used(reports, p, "descriptor") # None \/ Used(reports, p, "preflight") # None  BY <1>2, <1>4
  <2>2. McpToolGate(reports, p, None).blockers = {}  BY <1>3, <2>1, WithoutLegacy DEF McpToolGate
  <2>3. ExecutionBlockers(reports, trace, p, None, a2a) = {}  BY <1>3, <2>2 DEF ExecutionBlockers
  <2>4. QED  BY <1>3, <2>3, ReadyIs
<1>5. ASSUME p.uses \cap {"card", "handoff"} # {}
      PROVE  GateOf(reports, trace, p, mcp, None).operation_ready
  <2>1. Used(reports, p, "card") # None \/ Used(reports, p, "handoff") # None  BY <1>2, <1>5
  <2>2. A2aAgentGate(reports, p, None).blockers = {}  BY <1>3, <2>1, WithoutLegacy DEF A2aAgentGate
  <2>3. ExecutionBlockers(reports, trace, p, mcp, None) = {}  BY <1>3, <2>2 DEF ExecutionBlockers
  <2>4. QED  BY <1>3, <2>3, ReadyIs
<1>6. QED  BY <1>4, <1>5 DEF LegacyNeverOpens, p, mcp, a2a

(* The reference time is a time, or there is none.                         *)
LEMMA ReferenceTyped ==
  ASSUME GateAssumption, NEW nf \in NormalFormData, NEW p \in Profile
  PROVE  ReferenceTime(nf, p) \in Time \cup {None} /\ FixtureDryRun(nf, p) \in BOOLEAN
<1> DEFINE timed == {i \in DOMAIN nf.steps : nf.steps[i].clock # None}
<1>1. p \in ProfileData  BY DEF GateAssumption
<1>2. nf.steps \in Seq(StepData) /\ nf.clock \in Instant /\ nf.fixture \in BOOLEAN
  BY DEF NormalFormData, StepData
<1>3. p.clock \in Instant /\ p.fixture \in BOOLEAN \cup {None}  BY <1>1 DEF ProfileData
<1>4. ContextValue(nf, p, "clock") \in Instant /\ ContextValue(nf, p, "fixture") \in BOOLEAN
  BY <1>2, <1>3 DEF ContextValue
<1>5. ASSUME timed # {} PROVE nf.steps[Min(timed)].clock \in Time \cup {None}
  <2>1. timed \subseteq DOMAIN nf.steps /\ DOMAIN nf.steps \subseteq Nat  BY <1>2
  <2>2. \E i \in timed : \A j \in timed : i <= j  BY <1>5, <2>1, NatLeast
  <2>3. Min(timed) \in timed  BY <2>2 DEF Min
  <2>4. \A i \in DOMAIN nf.steps : nf.steps[i].clock \in Time \cup {None}
    <3>1. \A i \in DOMAIN nf.steps : nf.steps[i] \in StepData  BY <1>2
    <3>2. QED  BY <3>1 DEF StepData
  <2>5. QED  BY <2>1, <2>3, <2>4
<1>6. ReferenceTime(nf, p) \in Time \cup {None}
  BY <1>4, <1>5 DEF ReferenceTime, Instant
<1>7. QED  BY <1>4, <1>6 DEF FixtureDryRun

(* A dispatch is no dry run, so every check was made in full.              *)
LEMMA NoWaivers == GateInv => WaiversNeverDispatch
<1> SUFFICES ASSUME GateInv, Gated, printed.report.provider_dispatch_ready
             PROVE  WaiversNeverDispatch
  BY DEF WaiversNeverDispatch
<1> DEFINE p == printed.profile
           now == ReferenceTime(trace, p)
<1>1. /\ p \in Profile /\ trace \in NormalFormData
      /\ GateOf(reports, trace, p, p.mcp_tool_gate_accepted, p.a2a_agent_gate_accepted).provider_dispatch_ready
  BY DEF GateInv, FilesTyped, GatePrinted, OperationGateReport
<1> HIDE DEF p
<1>2. /\ GateOf(reports, trace, p, p.mcp_tool_gate_accepted, p.a2a_agent_gate_accepted).operation_ready
      /\ ~FixtureDryRun(trace, p)
  BY <1>1 DEF GateOf
<1>3. StructureResiduals(trace, p) = {} /\ AllAuthorityResiduals(trace, p) = {}
  BY <1>2, ReadyMeans
<1>4. now \in Time \cup {None} /\ FixtureDryRun(trace, p) = FALSE
  BY <1>1, <1>2, ReferenceTyped, GateAssumption
<1>5. ASSUME NEW i \in DOMAIN trace.steps, trace.steps[i].authority.status # "missing"
      PROVE  LET a == trace.steps[i].authority IN
             a.expires \notin {None, Garbage} /\ now # None /\ a.expires > now
  <2> DEFINE a == trace.steps[i].authority
  <2>1. a \in Envelope
    <3>1. trace.steps \in Seq(StepData)  BY <1>1 DEF NormalFormData, StepData
    <3>2. trace.steps[i] \in StepData  BY <3>1
    <3>3. QED  BY <3>2 DEF StepData
  <2>2. a.expires \in Time \cup {None, Garbage}  BY <2>1 DEF Envelope, Instant
  <2>3. AuthorityResiduals(trace, p, trace.steps[i]) = {}  BY <1>3 DEF AllAuthorityResiduals
  <2> HIDE DEF now
  <2>4. TimeResiduals(a.expires, now, FALSE) = {}
    BY <1>4, <1>5, <2>3 DEF AuthorityResiduals, now
  <2>5. a.expires \notin {None, Garbage} /\ now # None  BY <2>4 DEF TimeResiduals, When
  <2>6. ~(a.expires <= now)  BY <2>4, <2>5 DEF TimeResiduals, When
  <2>7. a.expires \in Nat /\ now \in Nat  BY <1>4, <2>2, <2>5 DEF Time
  <2>8. a.expires > now  BY <2>6, <2>7
  <2>9. QED  BY <2>5, <2>8
<1>6. QED  BY <1>3, <1>5 DEF WaiversNeverDispatch, p

(* A profile that gives none of the four leaves each to the trace, as the  *)
(* trace check does.                                                       *)
LEMMA SameContext ==
  ASSUME NEW nf, NEW p, \A key \in {"clock", "fixture", "policy", "target"} : p[key] = None
  PROVE  /\ ReferenceTime(nf, p) = ReferenceTime(nf, NoProfile)
         /\ FixtureDryRun(nf, p) = FixtureDryRun(nf, NoProfile)
         /\ ContextValue(nf, p, "target") = ContextValue(nf, NoProfile, "target")
<1>1. \A key \in {"clock", "fixture", "policy", "target"} : NoProfile[key] = None  BY DEF NoProfile
<1>2. \A key \in {"clock", "fixture", "policy", "target"} :
        ContextValue(nf, p, key) = nf[key] /\ ContextValue(nf, NoProfile, key) = nf[key]
  BY <1>1 DEF ContextValue
<1>3. QED  BY <1>2 DEF ReferenceTime, FixtureDryRun, SideEffectPolicy

(* The trace check judges with less than the gate, but for the envelope.   *)
LEMMA Stricter == GateInv => GateIsStricter
<1> SUFFICES ASSUME GateInv, Gated, printed.report.operation_ready,
                    \A key \in {"clock", "fixture", "policy", "target"} : printed.profile[key] = None,
                    ~ \E i \in DOMAIN trace.steps :
                        "missing_authority_envelope" \in trace.steps[i].residuals
             PROVE  TraceCheckReport(trace).execution_available
  BY DEF GateIsStricter
<1> DEFINE p == printed.profile
<1>1. /\ trace.steps \in Seq(StepData)
      /\ GateOf(reports, trace, p, p.mcp_tool_gate_accepted, p.a2a_agent_gate_accepted).operation_ready
  BY DEF GateInv, FilesTyped, GatePrinted, OperationGateReport, NormalFormData, StepData
<1>2. \A key \in {"clock", "fixture", "policy", "target"} : p[key] = None  OBVIOUS
<1> HIDE DEF p
<1>3. /\ trace.steps # <<>> /\ BaseResiduals(trace) = {} /\ AllAuthorityResiduals(trace, p) = {}
  BY <1>1, ReadyMeans
<1>4. StepResiduals(trace) = {}
  <2>1. \A i \in DOMAIN trace.steps : trace.steps[i].residuals \subseteq
          {"missing_step_witness", "missing_rollback_escrow_obligation", "missing_resource_ledger",
           "missing_tolerance_ledger"}
    <3>1. \A i \in DOMAIN trace.steps : trace.steps[i] \in StepData  BY <1>1
    <3>2. QED  BY <3>1 DEF StepData
  <2>2. StepResiduals(trace) \subseteq {"missing_step_witness", "missing_rollback_escrow_obligation",
          "missing_resource_ledger", "missing_tolerance_ledger"}
    BY <1>3, <2>1 DEF StepResiduals, When
  <2>3. StepResiduals(trace) \cap AuthorityKinds = {}  BY <2>2 DEF AuthorityKinds
  <2>4. QED  BY <1>3, <2>3 DEF BaseResiduals
<1>5. AllAuthorityResiduals(trace, NoProfile) = {}
  <2>1. ASSUME NEW i \in DOMAIN trace.steps
        PROVE  AuthorityResiduals(trace, NoProfile, trace.steps[i]) = {}
    <3>1. AuthorityResiduals(trace, p, trace.steps[i]) = {}  BY <1>3 DEF AllAuthorityResiduals
    <3>2. NoProfile.trusted_issuers = {}  BY DEF NoProfile
    <3>3. AuthorityResiduals(trace, NoProfile, trace.steps[i])
            \subseteq AuthorityResiduals(trace, p, trace.steps[i])
      BY <1>2, <3>2, SameContext DEF AuthorityResiduals, When
    <3>4. QED  BY <3>1, <3>3
  <2>2. QED  BY <2>1 DEF AllAuthorityResiduals
<1>6. QED  BY <1>3, <1>4, <1>5 DEF TraceCheckReport, TraceCheckResiduals

(* A profile with another clock is the same in every other respect.        *)
LEMMA OtherClock ==
  ASSUME GateAssumption, NEW p \in Profile, NEW t
  PROVE  LET q == [p EXCEPT !.clock = t] IN
         /\ q.clock = t
         /\ q.fixture = p.fixture /\ q.policy = p.policy /\ q.target = p.target
         /\ q.trusted_issuers = p.trusted_issuers
         /\ q.allow_execute = p.allow_execute /\ q.explicit_execute = p.explicit_execute
         /\ q.certificates = p.certificates /\ q.uses = p.uses
         /\ q.requires_mcp_tool = p.requires_mcp_tool /\ q.requires_a2a_agent = p.requires_a2a_agent
         /\ q.mcp_tool_gate_accepted = p.mcp_tool_gate_accepted
         /\ q.a2a_agent_gate_accepted = p.a2a_agent_gate_accepted
         /\ q.physical_dispatch_requested = p.physical_dispatch_requested
         /\ q.physical_domain_profile = p.physical_domain_profile
         /\ q.actuator_allowed = p.actuator_allowed
         /\ q.human_operator_authority = p.human_operator_authority
         /\ q.emergency_stop = p.emergency_stop
         /\ q.runtime_assurance_certificate = p.runtime_assurance_certificate
         /\ q.requires_shield_certificate = p.requires_shield_certificate
         /\ q.shield_certificate = p.shield_certificate /\ q.rollback_escrow = p.rollback_escrow
         /\ q.hazard_envelope = p.hazard_envelope
         /\ q.hazard_envelope_certificate = p.hazard_envelope_certificate
         /\ q.observation_window = p.observation_window
         /\ q.resource_use = p.resource_use /\ q.tolerance_ledger = p.tolerance_ledger
         /\ q.lifecycle_certificate = p.lifecycle_certificate
         /\ q.lifecycle_recomputed = p.lifecycle_recomputed
<1>1. p \in ProfileData  BY DEF GateAssumption
<1>2. QED  BY <1>1 DEF ProfileData

(* Evidence that is fresh at a time is fresh at an earlier one.            *)
LEMMA FreshEarlier ==
  ASSUME GateAssumption, NEW e \in Evidence \cup {None}, NEW now \in Nat, NEW t \in 0 .. now
  PROVE  /\ FreshUntil(e, now) => FreshUntil(e, t)
         /\ CertificateFresh(e, now) => CertificateFresh(e, t)
         /\ Certified(e, now) => Certified(e, t)
<1>1. t # None  BY DEF GateAssumption
<1>2. FreshUntil(e, now) => FreshUntil(e, t)
  <2>1. SUFFICES ASSUME FreshUntil(e, now) PROVE FreshUntil(e, t)  OBVIOUS
  <2>2. e # None /\ e.expires \notin {None, Garbage} /\ e.expires > now  BY <2>1 DEF FreshUntil
  <2>3. e.expires \in Nat  BY <2>2 DEF Evidence, Instant, Time
  <2>4. e.expires > t  BY <2>2, <2>3
  <2>5. QED  BY <1>1, <2>2, <2>4 DEF FreshUntil
<1>3. CertificateFresh(e, now) => CertificateFresh(e, t)  BY <1>2 DEF CertificateFresh
<1>4. QED  BY <1>2, <1>3 DEF Certified

(* Authority that suffices at a time suffices at an earlier one.           *)
LEMMA AuthorityEarlier ==
  ASSUME GateAssumption, NEW nf \in NormalFormData, NEW p \in Profile,
         ReferenceTime(nf, p) # None, NEW t \in 0 .. ReferenceTime(nf, p)
  PROVE  LET q == [p EXCEPT !.clock = t] IN
         /\ ReferenceTime(nf, q) = t
         /\ FixtureDryRun(nf, q) = FixtureDryRun(nf, p)
         /\ SideEffectPolicy(nf, q) = SideEffectPolicy(nf, p)
         /\ AllAuthorityResiduals(nf, q) \subseteq AllAuthorityResiduals(nf, p)
<1> DEFINE q == [p EXCEPT !.clock = t]
           now == ReferenceTime(nf, p)
<1>1. now \in Nat /\ t \in Nat /\ t <= now  BY ReferenceTyped DEF Time
<1>2. t \notin {None, Garbage}  BY <1>1 DEF GateAssumption
<1>3. /\ q.clock = t /\ q.fixture = p.fixture /\ q.policy = p.policy /\ q.target = p.target
      /\ q.trusted_issuers = p.trusted_issuers
  BY OtherClock
<1> HIDE DEF q, now
<1>4. ContextValue(nf, q, "clock") = t /\ ContextValue(nf, q, "fixture") = ContextValue(nf, p, "fixture")
        /\ ContextValue(nf, q, "policy") = ContextValue(nf, p, "policy")
        /\ ContextValue(nf, q, "target") = ContextValue(nf, p, "target")
  BY <1>2, <1>3 DEF ContextValue
<1>5. ReferenceTime(nf, q) = t  BY <1>2, <1>4 DEF ReferenceTime
<1>6. SideEffectPolicy(nf, q) = SideEffectPolicy(nf, p)  BY <1>4 DEF SideEffectPolicy
<1>7. FixtureDryRun(nf, q) = FixtureDryRun(nf, p)  BY <1>4, <1>6 DEF FixtureDryRun
<1>8. ASSUME NEW i \in DOMAIN nf.steps
      PROVE  AuthorityResiduals(nf, q, nf.steps[i]) \subseteq AuthorityResiduals(nf, p, nf.steps[i])
  <2> DEFINE expires == nf.steps[i].authority.expires
  <2>1. expires \in Nat \cup {None, Garbage}
    <3>1. nf.steps \in Seq(StepData)  BY DEF NormalFormData, StepData
    <3>2. nf.steps[i] \in StepData  BY <3>1
    <3>3. nf.steps[i].authority \in Envelope  BY <3>2 DEF StepData
    <3>4. QED  BY <3>3 DEF Envelope, Instant, Time
  <2> HIDE DEF expires
  <2>2. expires \in Nat => expires \notin {None, Garbage}  BY DEF GateAssumption
  <2>3. expires \in Nat /\ expires <= t => expires <= now  BY <1>1
  <2>4. now # None /\ t # None  BY <1>2 DEF now
  <2>5. TimeResiduals(expires, t, FixtureDryRun(nf, p)) \subseteq TimeResiduals(expires, now, FixtureDryRun(nf, p))
    BY <2>1, <2>2, <2>3, <2>4 DEF TimeResiduals, When
  <2>6. QED  BY <1>3, <1>4, <1>5, <1>7, <2>5 DEF AuthorityResiduals, now, expires
<1>9. AllAuthorityResiduals(nf, q) \subseteq AllAuthorityResiduals(nf, p)
  BY <1>8 DEF AllAuthorityResiduals
<1>10. QED  BY <1>5, <1>6, <1>7, <1>9 DEF q

(* No physical residual of any kind.                                       *)
PhysicalOk(p, reference, policy) ==
  /\ \A field \in PhysicalFields : p[field] # None
  /\ HasStatus(p.physical_domain_profile, {"accepted", "approved"})
  /\ ~(p.actuator_allowed = FALSE)
  /\ HasStatus(p.human_operator_authority, {"approved", "active"})
  /\ FreshUntil(p.human_operator_authority, reference)
  /\ HasStatus(p.emergency_stop, {"accepted", "tested", "available"})
  /\ Certified(p.runtime_assurance_certificate, reference)
  /\ ~((p.requires_shield_certificate \/ p.shield_certificate # None)
         /\ ~Certified(p.shield_certificate, reference))
  /\ HasStatus(p.rollback_escrow, {"available", "verified"})
  /\ Certified(HazardEnvelope(p), reference)
  /\ p.observation_window = TRUE
  /\ WithinBudget(p.resource_use)
  /\ WithinBudget(p.tolerance_ledger)
  /\ LifecycleFresh(p, reference)
  /\ policy = "physical_provider_allowed"

(* The residuals, group by group.                                          *)
LEMMA PhysicalClear ==
  ASSUME NEW p, NEW reference, NEW policy
  PROVE  PhysicalResiduals(p, reference, policy) = {} <=> PhysicalOk(p, reference, policy)
<1> DEFINE missing == {f \in PhysicalFields : p[f] = None}
           people == When(~HasStatus(p.physical_domain_profile, {"accepted", "approved"}), "physical_domain_profile")
              \cup When(p.actuator_allowed = FALSE, "actuator_class")
              \cup When(~(HasStatus(p.human_operator_authority, {"approved", "active"})
                            /\ FreshUntil(p.human_operator_authority, reference)), "human_operator_authority")
              \cup When(~HasStatus(p.emergency_stop, {"accepted", "tested", "available"}), "emergency_stop")
           certificates == When(~Certified(p.runtime_assurance_certificate, reference), "runtime_assurance")
              \cup When((p.requires_shield_certificate \/ p.shield_certificate # None)
                          /\ ~Certified(p.shield_certificate, reference), "shield_certificate")
              \cup When(~HasStatus(p.rollback_escrow, {"available", "verified"}), "rollback_escrow")
              \cup When(~Certified(HazardEnvelope(p), reference), "hazard_envelope")
           budgets == When(p.observation_window # TRUE, "observation_verifier")
              \cup When(~WithinBudget(p.resource_use), "resource_use")
              \cup When(~WithinBudget(p.tolerance_ledger), "tolerance_budget")
              \cup When(~LifecycleFresh(p, reference), "lifecycle_certificate")
              \cup When(policy # "physical_provider_allowed", "side_effect_policy")
<1>1. PhysicalResiduals(p, reference, policy)
        = {<<"missing", f>> : f \in missing} \cup {<<"failed", f>> : f \in people \cup certificates \cup budgets}
  BY DEF PhysicalResiduals
<1>2. missing = {} <=> \A field \in PhysicalFields : p[field] # None  OBVIOUS
<1>3. people = {} <=>
        /\ HasStatus(p.physical_domain_profile, {"accepted", "approved"})
        /\ ~(p.actuator_allowed = FALSE)
        /\ HasStatus(p.human_operator_authority, {"approved", "active"})
        /\ FreshUntil(p.human_operator_authority, reference)
        /\ HasStatus(p.emergency_stop, {"accepted", "tested", "available"})
  BY DEF When
<1>4. certificates = {} <=>
        /\ Certified(p.runtime_assurance_certificate, reference)
        /\ ~((p.requires_shield_certificate \/ p.shield_certificate # None)
               /\ ~Certified(p.shield_certificate, reference))
        /\ HasStatus(p.rollback_escrow, {"available", "verified"})
        /\ Certified(HazardEnvelope(p), reference)
  BY DEF When
<1>5. budgets = {} <=>
        /\ p.observation_window = TRUE
        /\ WithinBudget(p.resource_use)
        /\ WithinBudget(p.tolerance_ledger)
        /\ LifecycleFresh(p, reference)
        /\ policy = "physical_provider_allowed"
  BY DEF When
<1> HIDE DEF missing, people, certificates, budgets
<1>6. PhysicalResiduals(p, reference, policy) = {}
        <=> missing = {} /\ people = {} /\ certificates = {} /\ budgets = {}
  BY <1>1
<1>7. QED  BY <1>2, <1>3, <1>4, <1>5, <1>6 DEF PhysicalOk

(* Physical evidence that suffices at a time suffices at an earlier one.   *)
LEMMA PhysicalEarlier ==
  ASSUME GateAssumption, NEW p \in Profile, NEW now \in Nat, NEW t \in 0 .. now, NEW policy,
         PhysicalResiduals(p, now, policy) = {}
  PROVE  PhysicalResiduals([p EXCEPT !.clock = t], t, policy) = {}
<1> DEFINE q == [p EXCEPT !.clock = t]
<1>1. /\ p.human_operator_authority \in Evidence \cup {None}
      /\ p.runtime_assurance_certificate \in Evidence \cup {None}
      /\ p.shield_certificate \in Evidence \cup {None}
      /\ HazardEnvelope(p) \in Evidence \cup {None}
      /\ p.lifecycle_certificate \in Evidence \cup {None}
  BY DEF GateAssumption, ProfileData, HazardEnvelope
<1>2. /\ FreshUntil(p.human_operator_authority, now) => FreshUntil(p.human_operator_authority, t)
      /\ Certified(p.runtime_assurance_certificate, now) => Certified(p.runtime_assurance_certificate, t)
      /\ Certified(p.shield_certificate, now) => Certified(p.shield_certificate, t)
      /\ Certified(HazardEnvelope(p), now) => Certified(HazardEnvelope(p), t)
      /\ CertificateFresh(p.lifecycle_certificate, now) => CertificateFresh(p.lifecycle_certificate, t)
  BY <1>1, FreshEarlier
<1>3. LifecycleFresh(p, now) => LifecycleFresh(p, t)  BY <1>2 DEF LifecycleFresh
<1>4. PhysicalOk(p, t, policy)
  <2>1. PhysicalOk(p, now, policy)  BY PhysicalClear
  <2>2. QED  BY <1>2, <1>3, <2>1 DEF PhysicalOk
<1>5. PhysicalResiduals(q, t, policy) = {}
  <2>1. ASSUME NEW field \in PhysicalFields PROVE q[field] = p[field]
    <3>1. p \in ProfileData /\ field # "clock"  BY DEF GateAssumption, PhysicalFields
    <3>2. field \in DOMAIN p  BY <3>1 DEF ProfileData, PhysicalFields
    <3>3. p = [x \in DOMAIN p |-> p[x]]  BY <3>1 DEF ProfileData
    <3>4. QED  BY <3>1, <3>2, <3>3
  <2>2. HazardEnvelope(q) = HazardEnvelope(p) /\ LifecycleFresh(q, t) = LifecycleFresh(p, t)
    BY OtherClock DEF HazardEnvelope, LifecycleFresh
  <2>3. /\ q.physical_domain_profile = p.physical_domain_profile
        /\ q.actuator_allowed = p.actuator_allowed
        /\ q.human_operator_authority = p.human_operator_authority
        /\ q.emergency_stop = p.emergency_stop
        /\ q.runtime_assurance_certificate = p.runtime_assurance_certificate
        /\ q.requires_shield_certificate = p.requires_shield_certificate
        /\ q.shield_certificate = p.shield_certificate /\ q.rollback_escrow = p.rollback_escrow
        /\ q.observation_window = p.observation_window
        /\ q.resource_use = p.resource_use /\ q.tolerance_ledger = p.tolerance_ledger
    BY OtherClock
  <2> HIDE DEF q
  <2>4. PhysicalOk(q, t, policy)  BY <1>4, <2>1, <2>2, <2>3 DEF PhysicalOk
  <2>5. QED  BY <2>4, PhysicalClear
<1>6. QED  BY <1>5

(* Nothing the gate reads but the clock depends on time.                   *)
LEMMA OnlyExpires == GateInv => ReadinessOnlyExpires
<1> SUFFICES ASSUME GateInv, Gated PROVE ReadinessOnlyExpires
  BY DEF ReadinessOnlyExpires
<1> DEFINE p == printed.profile
           now == ReferenceTime(trace, p)
           mcp == p.mcp_tool_gate_accepted
           a2a == p.a2a_agent_gate_accepted
           G == GateOf(reports, trace, p, mcp, a2a)
<1>1. p \in Profile /\ trace \in NormalFormData /\ printed.report = G
  BY DEF GateInv, FilesTyped, GatePrinted, OperationGateReport
<1> HIDE DEF p, G
<1>2. now \in Nat \cup {None}  BY <1>1, ReferenceTyped, GateAssumption DEF Time
<1>3. G.physical_dispatch_ready => now # None
  <2>1. G.physical_dispatch_ready => PhysicalResiduals(p, now, SideEffectPolicy(trace, p)) = {}
    BY DEF G, GateOf
  <2>2. PhysicalResiduals(p, now, SideEffectPolicy(trace, p)) = {}
          => FreshUntil(p.human_operator_authority, now)
    BY PhysicalClear DEF PhysicalOk
  <2>3. QED  BY <2>1, <2>2 DEF FreshUntil
<1>4. ASSUME now # None, NEW t \in 0 .. now
      PROVE  LET then == OperationGateReport(reports, trace, [p EXCEPT !.clock = t]) IN
             /\ G.operation_ready => then.operation_ready
             /\ G.provider_dispatch_ready => then.provider_dispatch_ready
             /\ G.physical_dispatch_ready => then.physical_dispatch_ready
  <2> DEFINE q == [p EXCEPT !.clock = t]
             H == GateOf(reports, trace, q, mcp, a2a)
  <2>1. /\ ReferenceTime(trace, q) = t
        /\ FixtureDryRun(trace, q) = FixtureDryRun(trace, p)
        /\ SideEffectPolicy(trace, q) = SideEffectPolicy(trace, p)
        /\ AllAuthorityResiduals(trace, q) \subseteq AllAuthorityResiduals(trace, p)
    BY <1>1, <1>4, AuthorityEarlier, GateAssumption
  <2>2. StructureResiduals(trace, q) = StructureResiduals(trace, p)
    BY <1>1, OtherClock, GateAssumption DEF StructureResiduals, HazardEnvelope
  <2>3. McpToolGate(reports, q, mcp) = McpToolGate(reports, p, mcp)
        /\ A2aAgentGate(reports, q, a2a) = A2aAgentGate(reports, p, a2a)
    BY <1>1, OtherClock, GateAssumption DEF McpToolGate, A2aAgentGate, Used
  <2>4. q.allow_execute = p.allow_execute /\ q.explicit_execute = p.explicit_execute
        /\ PhysicalRequested(q) = PhysicalRequested(p)
        /\ OperationGateReport(reports, trace, q) = H
    BY <1>1, OtherClock, GateAssumption DEF PhysicalRequested, OperationGateReport
  <2> HIDE DEF q
  <2>5. ExecutionBlockers(reports, trace, q, mcp, a2a) \subseteq ExecutionBlockers(reports, trace, p, mcp, a2a)
    BY <2>1, <2>2, <2>3 DEF ExecutionBlockers
  <2>6. G.operation_ready => H.operation_ready  BY <2>5, ReadyIs DEF G
  <2>7. G.provider_dispatch_ready => H.provider_dispatch_ready
    BY <2>1, <2>3, <2>4, <2>6 DEF G, GateOf
  <2>8. G.physical_dispatch_ready => H.physical_dispatch_ready
    <3>1. SUFFICES ASSUME G.physical_dispatch_ready PROVE H.physical_dispatch_ready  OBVIOUS
    <3>2. G.provider_dispatch_ready /\ PhysicalRequested(p)
            /\ PhysicalResiduals(p, now, SideEffectPolicy(trace, p)) = {}
      BY <3>1 DEF G, GateOf
    <3>3. PhysicalResiduals(q, t, SideEffectPolicy(trace, p)) = {}
      BY <1>1, <1>2, <1>4, <3>2, PhysicalEarlier, GateAssumption DEF q
    <3>4. QED  BY <2>1, <2>4, <2>7, <3>2, <3>3 DEF GateOf
  <2>9. QED  BY <2>4, <2>6, <2>7, <2>8 DEF q
<1>5. QED  BY <1>1, <1>3, <1>4 DEF ReadinessOnlyExpires, p

(* A descriptor report and a full preflight made before and after the tool *)
(* server changed its descriptor are never ready together: the hash        *)
(* comparison of mcpToolGateReport.                                        *)
THEOREM MixedReportsNeverPass == Spec => []MixedReportsBlock
<1>1. QED  BY GateInvariant, MixedBlocks, PTL

(* Where a report is given, the legacy flag of its route opens nothing:    *)
(* the order of the two in mcpToolGateReport and a2aAgentGateReport.       *)
THEOREM StructuredReportsArePrimary == Spec => []LegacyNeverOpens
<1>1. QED  BY GateInvariant, LegacyCloses, PTL

(* The schedule, hazard, certificate and expiry checks that                *)
(* operationGateReport and authorityResiduals waive in a fixture's dry run *)
(* have passed whenever a provider dispatch is ready.                      *)
THEOREM NoWaiverDispatches == Spec => []WaiversNeverDispatch
<1>1. QED  BY GateInvariant, NoWaivers, PTL

(* What operationGateReport finds ready under a profile that gives no      *)
(* clock, mode, policy or target, traceCheckReport finds available, but    *)
(* for a missing envelope.                                                 *)
THEOREM TheGateIsStricter == Spec => []GateIsStricter
<1>1. QED  BY GateInvariant, Stricter, PTL

(* A later clock never opens what operationGateReport had closed, and a    *)
(* physical dispatch needs a clock.                                        *)
THEOREM TimeOnlyTakesAway == Spec => []ReadinessOnlyExpires
<1>1. QED  BY GateInvariant, OnlyExpires, PTL

(***************************************************************************)
(* The type invariant.                                                     *)
(***************************************************************************)
(* What a command prints.                                                  *)
PrintedTyped ==
  \/ printed = None
  \/ printed \in [command : {"trace-check"}, report : [execution_available : BOOLEAN, accepted : BOOLEAN]]
  \/ printed \in [command : {"operation-gate"}, profile : Profile,
                  report : [execution_blockers : SUBSET Blocker, operation_ready : BOOLEAN,
                            provider_dispatch_ready : BOOLEAN, physical_dispatch_ready : BOOLEAN]]

(* The blockers of a pair of reports are the names given.                  *)
LEMMA PairTyped ==
  ASSUME NEW k, NEW first, NEW second, NEW subject, NEW asked, NEW legacy,
         k.first_required \in Blocker, k.first_rejected \in Blocker,
         k.second_required \in Blocker, k.second_rejected \in Blocker,
         k.hash_mismatch \in Blocker, k.not_accepted \in Blocker, k.legacy_mismatch \in Blocker
  PROVE  GateReport(k, first, second, subject, asked, legacy).blockers \in SUBSET Blocker
<1>1. PairBlockers(k, first, second, subject) \in SUBSET Blocker  BY DEF PairBlockers, When
<1>2. QED  BY <1>1 DEF GateReport, When

(* Every blocker is one of the kinds.                                      *)
LEMMA BlockersTyped ==
  ASSUME NEW files, NEW nf \in NormalFormData, NEW p, NEW mcp, NEW a2a
  PROVE  ExecutionBlockers(files, nf, p, mcp, a2a) \in SUBSET Blocker
<1>1. nf.steps \in Seq(StepData)  BY DEF NormalFormData, StepData
<1>2. \A i \in DOMAIN nf.steps : nf.steps[i].residuals \in SUBSET Blocker
  <2>1. \A i \in DOMAIN nf.steps : nf.steps[i] \in StepData  BY <1>1
  <2>2. QED  BY <2>1 DEF StepData, Blocker, AuthorityKinds
<1>3. StepResiduals(nf) \in SUBSET Blocker  BY <1>2 DEF StepResiduals, When, Blocker
<1>4. BaseResiduals(nf) \in SUBSET Blocker  BY <1>3 DEF BaseResiduals
<1>5. \A i \in DOMAIN nf.steps : AuthorityResiduals(nf, p, nf.steps[i]) \in SUBSET Blocker
  <2>1. \A expires, reference, dry : TimeResiduals(expires, reference, dry) \in SUBSET Blocker
    BY DEF TimeResiduals, When, Blocker, AuthorityKinds
  <2>2. QED  BY <2>1 DEF AuthorityResiduals, When, Blocker, AuthorityKinds
<1>6. AllAuthorityResiduals(nf, p) \in SUBSET Blocker  BY <1>5 DEF AllAuthorityResiduals
<1>7. StructureResiduals(nf, p) \in SUBSET Blocker  BY DEF StructureResiduals, When, Blocker
<1>8. McpToolGate(files, p, mcp).blockers \in SUBSET Blocker  BY PairTyped DEF McpToolGate, Blocker
<1>9. A2aAgentGate(files, p, a2a).blockers \in SUBSET Blocker  BY PairTyped DEF A2aAgentGate, Blocker
<1>10. QED  BY <1>4, <1>6, <1>7, <1>8, <1>9 DEF ExecutionBlockers

(* So the report of the gate is one.                                       *)
LEMMA GateReportTyped ==
  ASSUME NEW files, NEW nf \in NormalFormData, NEW p, NEW mcp, NEW a2a
  PROVE  GateOf(files, nf, p, mcp, a2a) \in
           [execution_blockers : SUBSET Blocker, operation_ready : BOOLEAN,
            provider_dispatch_ready : BOOLEAN, physical_dispatch_ready : BOOLEAN]
BY BlockersTyped DEF GateOf

LEMMA NextPrinted ==
  ASSUME GateAssumption, GateInv, PrintedTyped, [Next]_vars
  PROVE  PrintedTyped'
<1>1. ASSUME NEW d \in Descriptor, ChangeDescriptor(d) PROVE PrintedTyped'
  BY <1>1 DEF ChangeDescriptor, PrintedTyped
<1>2. ASSUME NEW kind, NEW r, Write(kind, r) PROVE PrintedTyped'
  BY <1>2 DEF Write, PrintedTyped
<1>3. ASSUME NEW raw \in RawTrace, TraceNormalize(raw) PROVE PrintedTyped'
  BY <1>3 DEF TraceNormalize, PrintedTyped
<1>4. ASSUME TraceCheck PROVE PrintedTyped'
  <2>1. TraceCheckReport(trace) \in [execution_available : BOOLEAN, accepted : BOOLEAN]
    BY DEF TraceCheckReport
  <2>2. QED  BY <1>4, <2>1 DEF TraceCheck, PrintedTyped
<1>5. ASSUME NEW p \in Profile, OperationGate(p) PROVE PrintedTyped'
  <2>1. trace \in NormalFormData  BY <1>5 DEF OperationGate, GateInv, FilesTyped
  <2>2. OperationGateReport(reports, trace, p) \in
           [execution_blockers : SUBSET Blocker, operation_ready : BOOLEAN,
            provider_dispatch_ready : BOOLEAN, physical_dispatch_ready : BOOLEAN]
    BY <2>1, GateReportTyped DEF OperationGateReport
  <2>3. QED  BY <1>5, <2>2 DEF OperationGate, PrintedTyped
<1>6. ASSUME UNCHANGED vars PROVE PrintedTyped'
  BY <1>6 DEF vars, PrintedTyped
<1>7. QED
  BY <1>1, <1>2, <1>3, <1>4, <1>5, <1>6
  DEF Next, CheckDescriptor, Preflight, CheckCard, CheckHandoff, Receive

(* The reports, the trace normal form and what the commands print have     *)
(* their types, whatever the commands are given.                           *)
THEOREM TypeCorrect == Spec => []TypeOK
<1>1. Init => PrintedTyped  BY DEF Init, PrintedTyped
<1>2. PrintedTyped /\ GateInv /\ [Next]_vars => PrintedTyped'  BY NextPrinted, GateAssumption
<1>3. GateInv /\ PrintedTyped => TypeOK  BY DEF GateInv, FilesTyped, PrintedTyped, TypeOK
<1>4. QED  BY GateInvariant, <1>1, <1>2, <1>3, PTL DEF Spec

(***************************************************************************)
(* Weaker evidence: every default that stands for something missing is the *)
(* closed one.                                                             *)
(***************************************************************************)
(* A weaker envelope: revoked, without an expiry, of no issuer, without    *)
(* scopes.                                                                 *)
WeakerEnvelopes(a) ==
  {[a EXCEPT !.status = "revoked"], [a EXCEPT !.expires = None],
   [a EXCEPT !.issuer = None], [a EXCEPT !.scopes = {}]}

(* What a weaker step keeps and what it loses.                             *)
LEMMA WeakerStep ==
  ASSUME NEW step \in StepData, NEW s \in WeakerSteps(step)
  PROVE  /\ s.clock = step.clock /\ s.domain = step.domain
         /\ step.residuals \subseteq s.residuals
         /\ s.schedule => step.schedule
         /\ s.hazard => step.hazard
         /\ s.certificates => step.certificates
         /\ \/ s.authority = step.authority
            \/ step.authority.status # "missing" /\ s.authority \in WeakerEnvelopes(step.authority)
<1>1. CASE \E kind \in {"missing_step_witness", "missing_rollback_escrow_obligation",
                        "missing_resource_ledger", "missing_tolerance_ledger"} :
             s = [step EXCEPT !.residuals = @ \cup {kind}]
  BY <1>1 DEF StepData
<1>2. CASE s \in {[step EXCEPT !.schedule = FALSE], [step EXCEPT !.hazard = FALSE],
                  [step EXCEPT !.certificates = FALSE]}
  BY <1>2 DEF StepData
<1>3. CASE step.authority.status # "missing"
             /\ s \in {[step EXCEPT !.authority.status = "revoked"], [step EXCEPT !.authority.expires = None],
                       [step EXCEPT !.authority.issuer = None], [step EXCEPT !.authority.scopes = {}]}
  BY <1>3 DEF StepData, WeakerEnvelopes
<1>4. QED  BY <1>1, <1>2, <1>3 DEF WeakerSteps

(* Where an envelope weakened passes, so did the envelope; on a dry run,   *)
(* unless its expiry was taken.                                            *)
LEMMA WeakerEnvelope ==
  ASSUME GateAssumption, NEW nf, NEW p \in Profile, NEW step \in StepData, NEW s,
         s.domain = step.domain, step.authority.status # "missing",
         s.authority \in WeakerEnvelopes(step.authority),
         FixtureDryRun(nf, p) \in BOOLEAN,
         FixtureDryRun(nf, p) => s.authority.expires = step.authority.expires,
         AuthorityResiduals(nf, p, s) = {}
  PROVE  AuthorityResiduals(nf, p, step) = {}
<1> DEFINE a == step.authority
           b == s.authority
           dry == FixtureDryRun(nf, p)
           required == step.domain \cup ({ContextValue(nf, p, "target")} \ {None})
           Passes(e) == /\ e.status \in {"active", "approved"}
                        /\ p.trusted_issuers # {} => e.issuer \in p.trusted_issuers
                        /\ TimeResiduals(e.expires, ReferenceTime(nf, p), dry) = {}
                        /\ ScopeMatches(e, required)
<1>1. a \in Envelope /\ None \notin p.trusted_issuers
  BY DEF StepData, GateAssumption, ProfileData
<1>2. b.status # "missing"
  BY <1>1 DEF WeakerEnvelopes, Envelope
<1>3. Passes(b)  BY <1>2 DEF AuthorityResiduals, When
<1>4. Passes(a) => AuthorityResiduals(nf, p, step) = {}  BY DEF AuthorityResiduals, When
<1> HIDE DEF dry
<1>5. CASE b = [a EXCEPT !.status = "revoked"]
  BY <1>1, <1>3, <1>5 DEF Envelope
<1>6. CASE b = [a EXCEPT !.expires = None]
  <2>1. b.expires = None /\ b.status = a.status /\ b.issuer = a.issuer /\ b.scopes = a.scopes
    BY <1>1, <1>6 DEF Envelope
  <2>2. dry = FALSE => TimeResiduals(None, ReferenceTime(nf, p), dry) # {}
    BY DEF TimeResiduals, When
  <2>3. b.expires = a.expires  BY <1>3, <2>1, <2>2 DEF dry
  <2>4. Passes(a)  BY <1>3, <2>1, <2>3 DEF ScopeMatches
  <2>5. QED  BY <1>4, <2>4
<1>7. CASE b = [a EXCEPT !.issuer = None]
  <2>1. b.issuer = None /\ b.status = a.status /\ b.expires = a.expires /\ b.scopes = a.scopes
    BY <1>1, <1>7 DEF Envelope
  <2>2. Passes(a)  BY <1>1, <1>3, <2>1 DEF ScopeMatches
  <2>3. QED  BY <1>4, <2>2
<1>8. CASE b = [a EXCEPT !.scopes = {}]
  <2>1. b.scopes = {} /\ b.status = a.status /\ b.expires = a.expires /\ b.issuer = a.issuer
    BY <1>1, <1>8 DEF Envelope
  <2>2. required = {}  BY <1>3, <2>1 DEF ScopeMatches
  <2>3. Passes(a)  BY <1>3, <2>1, <2>2 DEF ScopeMatches
  <2>4. QED  BY <1>4, <2>3
<1>9. QED  BY <1>5, <1>6, <1>7, <1>8 DEF WeakerEnvelopes

(* A trace with a step replaced by one of the same clock.                  *)
LEMMA WeakerTrace ==
  ASSUME NEW nf \in NormalFormData, NEW i \in DOMAIN nf.steps, NEW s, s.clock = nf.steps[i].clock,
         NEW p
  PROVE  LET w == [nf EXCEPT !.steps[i] = s] IN
         /\ w.steps = [nf.steps EXCEPT ![i] = s]
         /\ \A key \in {"clock", "fixture", "policy", "target"} :
              ContextValue(w, p, key) = ContextValue(nf, p, key)
         /\ ReferenceTime(w, p) = ReferenceTime(nf, p)
         /\ SideEffectPolicy(w, p) = SideEffectPolicy(nf, p)
         /\ FixtureDryRun(w, p) = FixtureDryRun(nf, p)
<1> DEFINE w == [nf EXCEPT !.steps[i] = s]
           times == {j \in DOMAIN nf.steps : nf.steps[j].clock # None}
<1>1. /\ w.steps = [nf.steps EXCEPT ![i] = s]
      /\ w.clock = nf.clock /\ w.fixture = nf.fixture /\ w.policy = nf.policy /\ w.target = nf.target
  BY DEF NormalFormData
<1>2. nf.steps \in Seq(StepData)  BY DEF NormalFormData, StepData
<1> HIDE DEF w
<1>3. \A key \in {"clock", "fixture", "policy", "target"} : ContextValue(w, p, key) = ContextValue(nf, p, key)
  BY <1>1 DEF ContextValue
<1>4. DOMAIN w.steps = DOMAIN nf.steps
      /\ \A j \in DOMAIN nf.steps : w.steps[j].clock = nf.steps[j].clock
  BY <1>1, <1>2
<1>5. {j \in DOMAIN w.steps : w.steps[j].clock # None} = times  BY <1>4
<1>6. ReferenceTime(w, p) = ReferenceTime(nf, p)
  <2>1. ContextValue(w, p, "clock") = ContextValue(nf, p, "clock")  BY <1>3
  <2>2. times # {} => w.steps[Min(times)].clock = nf.steps[Min(times)].clock
    <3>1. SUFFICES ASSUME times # {} PROVE Min(times) \in DOMAIN nf.steps  BY <1>4
    <3>2. times \subseteq Nat  BY <1>2
    <3>3. \E j \in times : \A k \in times : j <= k  BY <3>1, <3>2, NatLeast
    <3>4. QED  BY <3>3 DEF Min
  <2>3. QED  BY <1>5, <2>1, <2>2 DEF ReferenceTime
<1>7. SideEffectPolicy(w, p) = SideEffectPolicy(nf, p)  BY <1>3 DEF SideEffectPolicy
<1>8. FixtureDryRun(w, p) = FixtureDryRun(nf, p)  BY <1>3, <1>7 DEF FixtureDryRun
<1>9. QED  BY <1>1, <1>3, <1>6, <1>7, <1>8 DEF w

(* What is ready with a weaker step is ready with the step; on a dry run,  *)
(* unless its expiry was taken.                                            *)
LEMMA WeakerStepCloses ==
  ASSUME GateAssumption, NEW files, NEW nf \in NormalFormData, NEW p \in Profile, NEW mcp, NEW a2a,
         NEW i \in DOMAIN nf.steps, NEW s \in WeakerSteps(nf.steps[i]),
         GateOf(files, [nf EXCEPT !.steps[i] = s], p, mcp, a2a).operation_ready,
         FixtureDryRun(nf, p) => s.authority.expires = nf.steps[i].authority.expires
  PROVE  LET after == GateOf(files, [nf EXCEPT !.steps[i] = s], p, mcp, a2a)
             before == GateOf(files, nf, p, mcp, a2a)
         IN  /\ before.operation_ready
             /\ after.provider_dispatch_ready => before.provider_dispatch_ready
             /\ after.physical_dispatch_ready => before.physical_dispatch_ready
<1> DEFINE step == nf.steps[i]
           w == [nf EXCEPT !.steps[i] = s]
<1>1. nf.steps \in Seq(StepData)  BY DEF NormalFormData, StepData
<1>2. step \in StepData  BY <1>1
<1>3. /\ s.clock = step.clock /\ s.domain = step.domain
      /\ step.residuals \subseteq s.residuals
      /\ s.schedule => step.schedule
      /\ s.hazard => step.hazard
      /\ s.certificates => step.certificates
      /\ \/ s.authority = step.authority
         \/ step.authority.status # "missing" /\ s.authority \in WeakerEnvelopes(step.authority)
  BY <1>2, WeakerStep
<1>4. /\ w.steps = [nf.steps EXCEPT ![i] = s]
      /\ \A key \in {"clock", "fixture", "policy", "target"} :
           ContextValue(w, p, key) = ContextValue(nf, p, key)
      /\ ReferenceTime(w, p) = ReferenceTime(nf, p)
      /\ SideEffectPolicy(w, p) = SideEffectPolicy(nf, p)
      /\ FixtureDryRun(w, p) = FixtureDryRun(nf, p)
  BY <1>3, WeakerTrace
<1>5. ContextValue(w, p, "target") = ContextValue(nf, p, "target")  BY <1>4
<1>6. GateOf(files, w, p, mcp, a2a).operation_ready  OBVIOUS
<1> HIDE DEF w
<1>7. /\ DOMAIN w.steps = DOMAIN nf.steps /\ w.steps[i] = s
      /\ \A j \in DOMAIN nf.steps : j # i => w.steps[j] = nf.steps[j]
  BY <1>1, <1>4
<1>8. FixtureDryRun(nf, p) \in BOOLEAN  BY ReferenceTyped
<1>9. FixtureDryRun(nf, p) => s.authority.expires = step.authority.expires  OBVIOUS
<1>10. /\ BaseResiduals(w) = {} /\ AllAuthorityResiduals(w, p) = {}
       /\ ~FixtureDryRun(nf, p) => StructureResiduals(w, p) = {}
       /\ McpToolGate(files, p, mcp).blockers = {} /\ A2aAgentGate(files, p, a2a).blockers = {}
  BY <1>4, <1>6, ReadyMeans
<1>11. nf.steps # <<>>  BY <1>1
<1>12. BaseResiduals(nf) = {}
  <2>1. \A j \in DOMAIN nf.steps : nf.steps[j].residuals \subseteq w.steps[j].residuals
    BY <1>3, <1>7
  <2>2. StepResiduals(nf) \subseteq StepResiduals(w)  BY <1>7, <1>11, <2>1 DEF StepResiduals, When
  <2>3. QED  BY <1>10, <2>2 DEF BaseResiduals
<1>13. AllAuthorityResiduals(nf, p) = {}
  <2>1. ASSUME NEW j \in DOMAIN nf.steps PROVE AuthorityResiduals(nf, p, nf.steps[j]) = {}
    <3>1. AuthorityResiduals(w, p, w.steps[j]) = {}  BY <1>7, <1>10 DEF AllAuthorityResiduals
    <3>2. \A x : AuthorityResiduals(w, p, x) = AuthorityResiduals(nf, p, x)
      BY <1>4, <1>5 DEF AuthorityResiduals
    <3>3. CASE j # i  BY <1>7, <3>1, <3>2, <3>3
    <3>4. CASE j = i /\ s.authority = step.authority
      <4>1. AuthorityResiduals(nf, p, s) = {}  BY <1>7, <3>1, <3>2, <3>4
      <4>2. AuthorityResiduals(nf, p, s) = AuthorityResiduals(nf, p, step)
        BY <1>3, <3>4 DEF AuthorityResiduals
      <4>3. QED  BY <3>4, <4>1, <4>2
    <3>5. CASE j = i /\ step.authority.status # "missing" /\ s.authority \in WeakerEnvelopes(step.authority)
      <4>1. AuthorityResiduals(nf, p, s) = {}  BY <1>7, <3>1, <3>2, <3>5
      <4>2. QED  BY <1>2, <1>3, <1>8, <1>9, <3>5, <4>1, WeakerEnvelope
    <3>6. QED  BY <1>3, <3>3, <3>4, <3>5
  <2>2. QED  BY <2>1 DEF AllAuthorityResiduals
<1>14. ~FixtureDryRun(nf, p) => StructureResiduals(nf, p) = {}
  <2>1. \A j \in DOMAIN nf.steps : /\ w.steps[j].schedule => nf.steps[j].schedule
                                   /\ w.steps[j].hazard => nf.steps[j].hazard
                                   /\ w.steps[j].certificates => nf.steps[j].certificates
    BY <1>3, <1>7
  <2>2. StructureResiduals(nf, p) \subseteq StructureResiduals(w, p)
    BY <1>7, <2>1 DEF StructureResiduals, When
  <2>3. QED  BY <1>10, <2>2
<1>15. ExecutionBlockers(files, nf, p, mcp, a2a) = {}
  BY <1>10, <1>12, <1>13, <1>14 DEF ExecutionBlockers
<1>16. GateOf(files, nf, p, mcp, a2a).operation_ready  BY <1>11, <1>15, ReadyIs
<1>17. GateOf(files, w, p, mcp, a2a).provider_dispatch_ready
         => GateOf(files, nf, p, mcp, a2a).provider_dispatch_ready
  BY <1>4, <1>16 DEF GateOf
<1>18. GateOf(files, w, p, mcp, a2a).physical_dispatch_ready
         => GateOf(files, nf, p, mcp, a2a).physical_dispatch_ready
  BY <1>4, <1>16 DEF GateOf
<1>19. QED  BY <1>16, <1>17, <1>18 DEF w

(* Without its envelope a step is ready unless something else blocks it:   *)
(* all that goes with the envelope is what it was itself blocked for.      *)
LEMMA EnvelopeGone ==
  ASSUME NEW files, NEW nf \in NormalFormData, NEW p, NEW mcp, NEW a2a, NEW i \in DOMAIN nf.steps,
         GateOf(files, [nf EXCEPT !.steps[i] = WithoutEnvelope(nf.steps[i])], p, mcp, a2a).operation_ready
  PROVE  GateOf(files, nf, p, mcp, a2a).execution_blockers \subseteq AuthorityResiduals(nf, p, nf.steps[i])
<1> DEFINE step == nf.steps[i]
           s == WithoutEnvelope(step)
           w == [nf EXCEPT !.steps[i] = s]
<1>1. nf.steps \in Seq(StepData)  BY DEF NormalFormData, StepData
<1>2. step \in StepData  BY <1>1
<1>3. /\ s.clock = step.clock /\ step.residuals \subseteq s.residuals
      /\ s.schedule = step.schedule /\ s.hazard = step.hazard /\ s.certificates = step.certificates
  BY <1>2 DEF WithoutEnvelope, StepData
<1>4. GateOf(files, w, p, mcp, a2a).operation_ready  OBVIOUS
<1> HIDE DEF s
<1>5. /\ w.steps = [nf.steps EXCEPT ![i] = s]
      /\ \A key \in {"clock", "fixture", "policy", "target"} :
           ContextValue(w, p, key) = ContextValue(nf, p, key)
      /\ ReferenceTime(w, p) = ReferenceTime(nf, p)
      /\ FixtureDryRun(w, p) = FixtureDryRun(nf, p)
  BY <1>3, WeakerTrace
<1> HIDE DEF w
<1>6. /\ DOMAIN w.steps = DOMAIN nf.steps /\ w.steps[i] = s
      /\ \A j \in DOMAIN nf.steps : j # i => w.steps[j] = nf.steps[j]
  BY <1>1, <1>5
<1>7. /\ BaseResiduals(w) = {} /\ AllAuthorityResiduals(w, p) = {}
      /\ ~FixtureDryRun(nf, p) => StructureResiduals(w, p) = {}
      /\ McpToolGate(files, p, mcp).blockers = {} /\ A2aAgentGate(files, p, a2a).blockers = {}
  BY <1>4, <1>5, ReadyMeans
<1>8. BaseResiduals(nf) = {}
  <2>1. \A j \in DOMAIN nf.steps : nf.steps[j].residuals \subseteq w.steps[j].residuals
    BY <1>3, <1>6
  <2>2. nf.steps # <<>>  BY <1>1
  <2>3. StepResiduals(nf) \subseteq StepResiduals(w)  BY <1>6, <2>1, <2>2 DEF StepResiduals, When
  <2>4. QED  BY <1>7, <2>3 DEF BaseResiduals
<1>9. AllAuthorityResiduals(nf, p) \subseteq AuthorityResiduals(nf, p, step)
  <2>1. ASSUME NEW j \in DOMAIN nf.steps, j # i PROVE AuthorityResiduals(nf, p, nf.steps[j]) = {}
    <3>1. AuthorityResiduals(w, p, w.steps[j]) = {}  BY <1>6, <1>7 DEF AllAuthorityResiduals
    <3>2. ContextValue(w, p, "target") = ContextValue(nf, p, "target")  BY <1>5
    <3>3. \A x : AuthorityResiduals(w, p, x) = AuthorityResiduals(nf, p, x)
      BY <1>5, <3>2 DEF AuthorityResiduals
    <3>4. QED  BY <1>6, <2>1, <3>1, <3>3
  <2>2. QED  BY <2>1 DEF AllAuthorityResiduals
<1>10. ~FixtureDryRun(nf, p) => StructureResiduals(nf, p) = {}
  <2>1. \A j \in DOMAIN nf.steps : /\ w.steps[j].schedule = nf.steps[j].schedule
                                   /\ w.steps[j].hazard = nf.steps[j].hazard
                                   /\ w.steps[j].certificates = nf.steps[j].certificates
    BY <1>3, <1>6
  <2>2. StructureResiduals(nf, p) = StructureResiduals(w, p)
    BY <1>6, <2>1 DEF StructureResiduals
  <2>3. QED  BY <1>7, <2>2
<1>11. ExecutionBlockers(files, nf, p, mcp, a2a) \subseteq AuthorityResiduals(nf, p, step)
  BY <1>7, <1>8, <1>9, <1>10 DEF ExecutionBlockers
<1>12. QED  BY <1>11 DEF GateOf

(* With one report of a pair the other is asked for.                       *)
LEMMA PairNeeded ==
  ASSUME NEW k, NEW first, NEW second, NEW subject, NEW asked, NEW legacy,
         (first = None) # (second = None)
  PROVE  GateReport(k, first, second, subject, asked, legacy).blockers # {}
<1>1. PairBlockers(k, first, second, subject) # {}  BY DEF PairBlockers, When
<1>2. QED  BY <1>1 DEF GateReport

LEMMA WeakerCloses == GateInv => WeakerEvidenceNeverOpens
<1> SUFFICES ASSUME GateInv, Gated PROVE WeakerEvidenceNeverOpens
  BY DEF WeakerEvidenceNeverOpens
<1> DEFINE p == printed.profile
           mcp == p.mcp_tool_gate_accepted
           a2a == p.a2a_agent_gate_accepted
           before == printed.report
           With(i, s) == OperationGateReport(reports, [trace EXCEPT !.steps[i] = s], p)
<1>1. /\ p \in Profile /\ trace \in NormalFormData
      /\ \A kind \in p.uses : reports[kind] # None
      /\ before = GateOf(reports, trace, p, mcp, a2a)
  BY DEF GateInv, FilesTyped, GatePrinted, OperationGateReport
<1>2. \A i, s : With(i, s) = GateOf(reports, [trace EXCEPT !.steps[i] = s], p, mcp, a2a)
  BY DEF OperationGateReport
<1> HIDE DEF p, mcp, a2a, before, With
<1>3. ASSUME NEW i \in DOMAIN trace.steps, NEW s \in WeakerSteps(trace.steps[i])
      PROVE  /\ With(i, s).operation_ready =>
                  \/ before.operation_ready
                  \/ FixtureDryRun(trace, p) /\ s.authority.expires # trace.steps[i].authority.expires
             /\ With(i, s).provider_dispatch_ready => before.provider_dispatch_ready
             /\ With(i, s).physical_dispatch_ready => before.physical_dispatch_ready
  <2> DEFINE w == [trace EXCEPT !.steps[i] = s]
             after == GateOf(reports, w, p, mcp, a2a)
  <2>1. With(i, s) = after  BY <1>2
  <2>2. ASSUME after.operation_ready,
               FixtureDryRun(trace, p) => s.authority.expires = trace.steps[i].authority.expires
        PROVE  /\ before.operation_ready
               /\ after.provider_dispatch_ready => before.provider_dispatch_ready
               /\ after.physical_dispatch_ready => before.physical_dispatch_ready
    BY <1>1, <1>3, <2>2, WeakerStepCloses, GateAssumption
  <2>3. FixtureDryRun(w, p) = FixtureDryRun(trace, p)
    <3>1. trace.steps \in Seq(StepData)  BY <1>1 DEF NormalFormData, StepData
    <3>2. trace.steps[i] \in StepData  BY <3>1
    <3>3. s.clock = trace.steps[i].clock  BY <3>2, WeakerStep
    <3>4. QED  BY <1>1, <3>3, WeakerTrace
  <2> HIDE DEF w
  <2>4. after.physical_dispatch_ready => after.provider_dispatch_ready  BY DEF GateOf
  <2>5. after.provider_dispatch_ready => after.operation_ready /\ ~FixtureDryRun(trace, p)
    BY <2>3 DEF GateOf
  <2> HIDE DEF after
  <2>6. QED  BY <2>1, <2>2, <2>4, <2>5
<1>4. ASSUME NEW kind \in p.uses, Partner[kind] \in p.uses
      PROVE  ~OperationGateReport(reports, trace, [p EXCEPT !.uses = @ \ {kind}]).operation_ready
  <2> DEFINE q == [p EXCEPT !.uses = @ \ {kind}]
             G == GateOf(reports, trace, q, q.mcp_tool_gate_accepted, q.a2a_agent_gate_accepted)
  <2>1. p \in ProfileData  BY <1>1, GateAssumption DEF GateAssumption
  <2>2. q.uses = p.uses \ {kind} /\ kind \in Kinds  BY <2>1 DEF ProfileData
  <2>3. Partner[kind] # kind /\ Partner[kind] \in q.uses  BY <1>4, <2>2 DEF Kinds, Partner
  <2>4. Used(reports, q, kind) = None /\ Used(reports, q, Partner[kind]) # None
    BY <1>1, <1>4, <2>2, <2>3 DEF Used
  <2> HIDE DEF q
  <2>5. CASE kind \in {"descriptor", "preflight"}
    <3>1. (Used(reports, q, "descriptor") = None) # (Used(reports, q, "preflight") = None)
      BY <2>4, <2>5 DEF Partner
    <3>2. McpToolGate(reports, q, q.mcp_tool_gate_accepted).blockers # {}
      BY <3>1, PairNeeded DEF McpToolGate
    <3>3. ~G.operation_ready  BY <3>2, ReadyMeans
    <3>4. QED  BY <3>3 DEF OperationGateReport, q
  <2>6. CASE kind \in {"card", "handoff"}
    <3>1. (Used(reports, q, "card") = None) # (Used(reports, q, "handoff") = None)
      BY <2>4, <2>6 DEF Partner
    <3>2. A2aAgentGate(reports, q, q.a2a_agent_gate_accepted).blockers # {}
      BY <3>1, PairNeeded DEF A2aAgentGate
    <3>3. ~G.operation_ready  BY <3>2, ReadyMeans
    <3>4. QED  BY <3>3 DEF OperationGateReport, q
  <2>7. QED  BY <2>2, <2>5, <2>6 DEF Kinds
<1>5. ASSUME NEW i \in DOMAIN trace.steps, With(i, WithoutEnvelope(trace.steps[i])).operation_ready
      PROVE  before.execution_blockers \subseteq AuthorityResiduals(trace, p, trace.steps[i])
  BY <1>1, <1>2, <1>5, EnvelopeGone
<1>6. QED  BY <1>3, <1>4, <1>5 DEF WeakerEvidenceNeverOpens, p, before, With

(* When a step loses its witness, escrow, a ledger, schedule, hazard       *)
(* envelope or certificates, or its envelope the status, issuer, expiry or *)
(* scopes, no operation and no dispatch becomes ready that was not, but    *)
(* for a fixture's dry run without the expiry; a route without one of its  *)
(* two reports is closed.  An envelope removed as a whole takes with it    *)
(* what it was blocked for, and no other blocker.                          *)
THEOREM WeakerNeverOpens == Spec => []WeakerEvidenceNeverOpens
<1>1. QED  BY GateInvariant, WeakerCloses, PTL
=============================================================================
