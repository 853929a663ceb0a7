--------------------------- MODULE PacketExchange ---------------------------
(***************************************************************************)
(* Reports handed on as files.  `runtime step` makes a runtime report;     *)
(* `agent intake`, `agent check` and `phase plan` wrap one; `packet        *)
(* export` puts one into an envelope; `packet merge` puts envelopes        *)
(* together; `packet lineage` and `packet inspect` print what envelopes    *)
(* say; `phase lab ingest` takes any of them.  The identity context is one *)
(* more file, which others may rewrite at any time.                        *)
(*                                                                         *)
(* A digest is the report it is the digest of, and names its packet.  A    *)
(* residual ledger is a set of coordinates, its summary a sum by kind.     *)
(***************************************************************************)
EXTENDS Integers, Sequences, FiniteSets, FiniteSetsExt, SequencesExt

CONSTANTS
  Output,           \* agent outputs given with --text or --text-file
  Obligation,       \* names of missing obligations
  ResidualKind,     \* kinds of residuals
  Coordinate,       \* [name, kind, value]: the coordinates of ledgers
  StepMissing, StepLedger,     \* obligations and ledger of the runtime step
  StoredMissing, StoredLedger, \* of the runtime report intake and plan hold ready
  ForeignReport,    \* runtime reports made by others
  ForeignEnvelope,  \* envelopes made by others
  MaxFiles,         \* bound: runtime reports and envelopes on disk
  MaxMerged,        \* bound: envelopes given to one merge
  None

(* "adversarial" is asked the same as "production". *)
Profile  == {"development", "production"}
Identity == {"absent", "broken", "refused", "accepted"}
Reason   == {"exported as diagnostic data", "does not route promotion checks", "stated by others"}
Blocker  == Obligation \cup {"sidecar-only", "source settled=false"}
Summary  == [ResidualKind -> Int]
Ledger   == {l \in SUBSET Coordinate : IsFiniteSet(l)}

(* `context`: carries an identity context of its own that is accepted;     *)
(* `verified`: identity_verified; `words`: holds command-like text.        *)
RuntimeReport ==
  [schema : {"RuntimeStepReport"}, output : Output \cup {None}, accepted : BOOLEAN,
   settled : BOOLEAN, operational : BOOLEAN, verified : BOOLEAN \cup {None},
   context : BOOLEAN, missing : SUBSET Obligation, ledger : Ledger, words : BOOLEAN]
IntakeReport ==
  [schema : {"AgentIntakeReport"}, runtime : RuntimeReport, operational : BOOLEAN, residual : Summary]
CheckReport ==
  [schema : {"AgentCheckReport"}, runtime : RuntimeReport, operational : BOOLEAN,
   missing : SUBSET Obligation, residual : Summary]
Plan ==
  [schema : {"PhaseAccelerationPlan"}, profile : Profile, operational : BOOLEAN,
   runtime : RuntimeReport \cup {None}, missing : SUBSET Obligation, residual : Summary]
Envelope ==
  [schema : {"PacketExchangeEnvelope"}, digest : RuntimeReport, accepted : BOOLEAN,
   usable : BOOLEAN, settled : BOOLEAN, missing : SUBSET Obligation, reasons : SUBSET Reason,
   blockers : SUBSET Blocker, residual : Summary, words : BOOLEAN]
MergeReport ==
  [schema : {"PacketMergeReport"}, packets : SUBSET Envelope, accepted : BOOLEAN,
   usable : BOOLEAN, preserved : BOOLEAN, duplicates : SUBSET RuntimeReport,
   missing : SUBSET Obligation, reasons : SUBSET Reason, blockers : SUBSET Blocker,
   residual : Summary]

(* A `phase plan` under way or done: what it was asked, the runtime report *)
(* it works on, whether that was supplied, its plan; and (history) whether *)
(* the identity file has stayed the same since it began.                   *)
PlanRun ==
  [schema : {"phase plan"}, profile : Profile, given : BOOLEAN, report : RuntimeReport,
   supplied : BOOLEAN, plan : Plan \cup {None}, steady : BOOLEAN]

ASSUME ExchangeAssumption ==
  /\ StepMissing \in (SUBSET Obligation) \ {{}}
  /\ StoredMissing \in (SUBSET StepMissing) \ {{}}
  /\ Coordinate \subseteq [name : STRING, kind : ResidualKind, value : Int]
  /\ IsFiniteSet(StepMissing) /\ StepLedger \in Ledger /\ StoredLedger \in Ledger
  /\ ForeignReport \subseteq RuntimeReport /\ ForeignEnvelope \subseteq Envelope
  /\ MaxFiles \in Nat /\ MaxMerged \in Nat
  /\ None \notin Output \cup BOOLEAN \cup RuntimeReport

VARIABLES
  identity,  \* content of the identity context file
  files,     \* runtime reports and envelopes on disk: what commands read
  shown      \* what the last of the other commands printed, or its run

vars == <<identity, files, shown>>

Of(schema) == {d \in files : d.schema = schema}
RuntimeReports == Of("RuntimeStepReport")
Envelopes      == Of("PacketExchangeEnvelope")

Planning == shown # None /\ shown.schema = "phase plan" /\ shown.plan = None
Planned  == shown # None /\ shown.schema = "phase plan" /\ shown.plan # None
Shown    == IF shown = None \/ Planning THEN {} ELSE IF Planned THEN {shown.plan} ELSE {shown}

(***************************************************************************)
(* summarizeLedger.                                                        *)
(***************************************************************************)
Summarize(ledger) ==
  [k \in ResidualKind |-> SumFunctionOnSet([c \in ledger |-> c.value], {c \in ledger : c.kind = k})]
SummaryTotal(summary) == SumFunction(summary)
NoResidual == [k \in ResidualKind |-> 0]

(***************************************************************************)
(* buildRuntimeStep: the verdict on the identity is all a request changes, *)
(* and a step is never operationally usable.                               *)
(***************************************************************************)
OwnReport(output, verified, missing, ledger) ==
  [schema |-> "RuntimeStepReport", output |-> output, accepted |-> TRUE, settled |-> FALSE,
   operational |-> FALSE, verified |-> verified, context |-> FALSE, missing |-> missing,
   ledger |-> ledger, words |-> FALSE]

Step(prof, output, given) ==
  OwnReport(output,
            CASE given -> identity = "accepted"
              [] ~given /\ prof = "production" -> FALSE
              [] OTHER -> None,
            StepMissing, StepLedger)

StoredReport == OwnReport(None, None, StoredMissing, StoredLedger)

(* A file that is absent or no JSON object ends the command. *)
CanRead(given) == given => identity \in {"refused", "accepted"}

(* A request that asks for nothing is answered from what is held ready;    *)
(* --no-allow-live-connectors asks for something as a text does, and       *)
(* stands here for one more output.                                        *)
Dynamic(prof, output, given) == output # None \/ prof # "development" \/ given
RuntimeFor(prof, output, given) ==
  IF Dynamic(prof, output, given) THEN Step(prof, output, given) ELSE StoredReport

(***************************************************************************)
(* runAgentIntake, runAgentCheck.                                          *)
(***************************************************************************)
IntakeOf(runtime) ==
  [schema |-> "AgentIntakeReport", runtime |-> runtime, operational |-> runtime.operational,
   residual |-> Summarize(runtime.ledger)]

CheckSilent(runtime) ==   \* mutant: the obligations stay in the intake report
  [schema |-> "AgentCheckReport", runtime |-> runtime, operational |-> runtime.operational,
   missing |-> {}, residual |-> Summarize(runtime.ledger)]
CheckOf(runtime) ==
  [schema |-> "AgentCheckReport", runtime |-> runtime, operational |-> runtime.operational,
   missing |-> runtime.missing, residual |-> Summarize(runtime.ledger)]

(***************************************************************************)
(* buildPhaseAccelerationPlan.  Its obligations and residuals are those    *)
(* held ready, whatever its runtime report says.                           *)
(***************************************************************************)
IdentityAcceptedAny(given, report) == given \/ report.context   \* mutant: any file will do
IdentityAccepted(given, report) == (given /\ identity = "accepted") \/ report.context

PlanOf(prof, given, report, compact) ==
  [schema |-> "PhaseAccelerationPlan", profile |-> prof,
   operational |-> prof = "production" => IdentityAccepted(given, report),
   runtime |-> IF compact THEN None ELSE report,
   missing |-> StoredMissing, residual |-> Summarize(StoredLedger)]

(***************************************************************************)
(* packetEnvelopeFromRuntimeReport.                                        *)
(***************************************************************************)
ExportMixed(report) ==   \* mutant: what blocks settlement is listed as an obligation
  [schema |-> "PacketExchangeEnvelope", digest |-> report,
   accepted |-> report.accepted, usable |-> report.accepted, settled |-> FALSE,
   missing |-> {"sidecar-only"} \cup report.missing,
   reasons |-> {"exported as diagnostic data", "does not route promotion checks"},
   blockers |-> {"sidecar-only"} \cup report.missing,
   residual |-> Summarize(report.ledger), words |-> report.words]
Export(report) ==
  [schema |-> "PacketExchangeEnvelope", digest |-> report,
   accepted |-> report.accepted, usable |-> report.accepted, settled |-> FALSE,
   missing |-> report.missing,
   reasons |-> {"exported as diagnostic data", "does not route promotion checks"},
   blockers |-> {"sidecar-only"} \cup (IF report.settled THEN {} ELSE {"source settled=false"})
                                \cup report.missing,
   residual |-> Summarize(report.ledger), words |-> report.words]

(***************************************************************************)
(* mergePacketEnvelopes: of the envelopes of one digest the first is kept; *)
(* obligations, reasons, blockers and residuals are those of all of them.  *)
(***************************************************************************)
Kept(s) == {i \in DOMAIN s : \A j \in 1 .. i - 1 : s[j].digest # s[i].digest}

(* mutants: what is carried is that of the kept ones; the verdict is the   *)
(* first one's                                                             *)
MergeOfKept(s) ==
  LET packets == {s[i] : i \in Kept(s)}
  IN  [schema |-> "PacketMergeReport", packets |-> packets,
       accepted |-> packets # {} /\ (\A p \in packets : p.accepted),
       usable |-> \E p \in packets : p.usable,
       preserved |-> \A p \in packets : ~p.settled,
       duplicates |-> {s[i].digest : i \in DOMAIN s \ Kept(s)},
       missing |-> UNION {p.missing : p \in packets},
       reasons |-> UNION {p.reasons : p \in packets},
       blockers |-> UNION {p.blockers : p \in packets},
       residual |-> [k \in ResidualKind |-> SumFunction([i \in Kept(s) |-> s[i].residual[k]])]]
MergeByFirst(s) ==
  LET packets == {s[i] : i \in Kept(s)}
  IN  [schema |-> "PacketMergeReport", packets |-> packets,
       accepted |-> s # <<>> /\ s[1].accepted,
       usable |-> \E p \in packets : p.usable,
       preserved |-> \A p \in packets : ~p.settled,
       duplicates |-> {s[i].digest : i \in DOMAIN s \ Kept(s)},
       missing |-> UNION {s[i].missing : i \in DOMAIN s},
       reasons |-> UNION {s[i].reasons : i \in DOMAIN s},
       blockers |-> UNION {s[i].blockers : i \in DOMAIN s},
       residual |-> [k \in ResidualKind |-> SumFunction([i \in DOMAIN s |-> s[i].residual[k]])]]

Merge(s) ==
  LET packets == {s[i] : i \in Kept(s)}
  IN  [schema |-> "PacketMergeReport", packets |-> packets,
       accepted |-> packets # {} /\ (\A p \in packets : p.accepted),
       usable |-> \E p \in packets : p.usable,
       preserved |-> \A p \in packets : ~p.settled,
       duplicates |-> {s[i].digest : i \in DOMAIN s \ Kept(s)},
       missing |-> UNION {s[i].missing : i \in DOMAIN s},
       reasons |-> UNION {s[i].reasons : i \in DOMAIN s},
       blockers |-> UNION {s[i].blockers : i \in DOMAIN s},
       residual |-> [k \in ResidualKind |-> SumFunction([i \in DOMAIN s |-> s[i].residual[k]])]]

(* A merge report lacks what the schema of an envelope requires, so merges *)
(* are of envelopes only.                                                  *)
MergeInputs == SeqOf(Envelopes, MaxMerged)

(***************************************************************************)
(* packetLineageDigest of an envelope or of a merge report, and            *)
(* inspectPacketEnvelope: neither shows obligations.                       *)
(***************************************************************************)
PacketsOf(d) == IF d.schema = "PacketMergeReport" THEN d.packets ELSE {d}

LineageByOne(d) ==   \* mutant: one accepted packet is enough
  LET packets == PacketsOf(d)
  IN  [accepted |-> \E p \in packets : p.accepted,
       usable |-> \E p \in packets : p.usable,
       digests |-> {p.digest : p \in packets},
       residual |-> [k \in ResidualKind |-> SumFunction([p \in packets |-> p.residual[k]])]]

Lineage(d) ==
  LET packets == PacketsOf(d)
  IN  [accepted |-> packets # {} /\ (\A p \in packets : p.accepted),
       usable |-> \E p \in packets : p.usable,
       digests |-> {p.digest : p \in packets},
       residual |-> [k \in ResidualKind |-> SumFunction([p \in packets |-> p.residual[k]])]]

Inspect(e) == [accepted |-> e.accepted, usable |-> e.usable, digest |-> e.digest]

(***************************************************************************)
(* What `phase lab ingest` looks at in each of them: the fields of its top *)
(* level, and words anywhere in it.  A merge report carries its debts one  *)
(* level down, an intake report its runtime report.  Which words of the    *)
(* graph's blockers an obligation holds is left out: an event with an      *)
(* obligation does not contribute in any case.                             *)
(***************************************************************************)
Lab == INSTANCE EffectiveGraph WITH Body <- {}, Report <- {}, Threshold <- {}

LabReport(d, accepted, candidate, blocked, missing, residual) ==
  [body |-> d, kind |-> "report", marks |-> {}, accepted |-> accepted, candidate |-> candidate,
   blocked |-> blocked, missing |-> Cardinality(missing), residual |-> SummaryTotal(residual),
   edges |-> <<>>]

AsReport(d) ==
  CASE d.schema = "RuntimeStepReport" ->
         LabReport(d, d.accepted, FALSE, d.settled \/ d.words, d.missing, Summarize(d.ledger))
    [] d.schema = "AgentIntakeReport" ->
         LabReport(d, d.runtime.accepted, FALSE, d.runtime.words, {}, d.residual)
    [] d.schema = "AgentCheckReport" ->
         LabReport(d, TRUE, FALSE, d.runtime.words, d.missing, d.residual)
    [] d.schema = "PhaseAccelerationPlan" ->   \* it holds safe_commands
         LabReport(d, TRUE, TRUE, TRUE, d.missing, d.residual)
    [] d.schema = "PacketExchangeEnvelope" ->
         LabReport(d, d.accepted, d.reasons # {}, d.settled \/ d.blockers # {} \/ d.words,
                   d.missing, d.residual)
    [] d.schema = "PacketMergeReport" ->
         LabReport(d, d.accepted, FALSE, \E p \in d.packets : p.words, {}, NoResidual)

LineageReport(d) ==
  LET l == Lineage(d) IN LabReport(d, l.accepted, TRUE, FALSE, {}, l.residual)

InspectionReport(e) ==
  LET i == Inspect(e) IN LabReport(e, i.accepted, TRUE, e.words, {}, NoResidual)

Contributes(r) == Lab!Eligible(Lab!EventOf(r, FALSE, 0, 0))

(***************************************************************************)
(* Commands, and what others do to the files.                              *)
(***************************************************************************)
Init ==
  /\ identity \in Identity
  /\ files = {}
  /\ shown = None

Save(d) ==
  /\ Cardinality(files) < MaxFiles
  /\ files' = files \cup {d}
  /\ UNCHANGED <<identity, shown>>

Show(d) ==
  /\ ~Planning
  /\ shown' = d
  /\ UNCHANGED <<identity, files>>

RewriteIdentity(content) ==
  /\ identity' = content
  /\ shown' = IF Planning THEN [shown EXCEPT !.steady = @ /\ content = identity] ELSE shown
  /\ UNCHANGED files

Receive(d) == Save(d)

RuntimeStep(prof, given) == CanRead(given) /\ Save(Step(prof, None, given))

ExportPacket(report) == Save(Export(report))

AgentIntake(prof, output, given) ==
  CanRead(given) /\ Show(IntakeOf(RuntimeFor(prof, output, given)))

AgentCheck(prof, output, given) ==
  CanRead(given) /\ Show(CheckOf(RuntimeFor(prof, output, given)))

MergePackets(s) == Show(Merge(s))

(* `phase plan` and `agent accelerate` read the identity file twice: for   *)
(* the runtime step, unless a report is supplied, and for their own        *)
(* verdict, for which a file that cannot be read is not an error.          *)
StartPlan(prof, given, report, supplied) ==
  Show([schema |-> "phase plan", profile |-> prof, given |-> given, report |-> report,
        supplied |-> supplied, plan |-> None, steady |-> TRUE])

BeginPlan(prof, output, given) ==
  CanRead(given) /\ StartPlan(prof, given, RuntimeFor(prof, output, given), FALSE)

BeginPlanOn(prof, report, given) == StartPlan(prof, given, report, TRUE)

FinishPlan(compact) ==
  /\ Planning
  /\ shown' = [shown EXCEPT !.plan = PlanOf(shown.profile, shown.given, shown.report, compact)]
  /\ UNCHANGED <<identity, files>>

Next ==
  \/ \E content \in Identity : RewriteIdentity(content)
  \/ \E d \in ForeignReport \cup ForeignEnvelope : Receive(d)
  \/ \E prof \in Profile, given \in BOOLEAN : RuntimeStep(prof, given)
  \/ \E prof \in Profile, output \in Output \cup {None}, given \in BOOLEAN :
       \/ AgentIntake(prof, output, given)
       \/ AgentCheck(prof, output, given)
       \/ BeginPlan(prof, output, given)
  \/ \E prof \in Profile, report \in RuntimeReports, given \in BOOLEAN :
       BeginPlanOn(prof, report, given)
  \/ \E compact \in BOOLEAN : FinishPlan(compact)
  \/ \E report \in RuntimeReports : ExportPacket(report)
  \/ \E s \in MergeInputs : MergePackets(s)

Spec == Init /\ [][Next]_vars

(***************************************************************************)
(* Type invariant.                                                         *)
(***************************************************************************)
TypeOK ==
  /\ identity \in Identity
  /\ files \subseteq RuntimeReport \cup Envelope
  /\ shown \in IntakeReport \cup CheckReport \cup MergeReport \cup PlanRun \cup {None}

(***************************************************************************)
(* Properties of the identity file.                                        *)
(***************************************************************************)

(* A plan and the runtime report it made are two answers about one         *)
(* identity file: if nobody rewrote it between the two reads, a production *)
(* plan is usable exactly when its report says the identity was verified.  *)
PlanAgreesWithStep ==
  Planned /\ shown.steady /\ ~shown.supplied /\ shown.profile = "production" =>
    (shown.plan.operational <=> shown.report.verified = TRUE)

(* An identity that was withdrawn stays so: a report saved while it was    *)
(* accepted, and supplied to a production plan later, does not make the    *)
(* plan usable.                                                            *)
WithdrawnStaysOut ==
  [][Planning /\ shown.profile = "production" /\ Planned' /\ shown'.plan.operational =>
       identity = "accepted" \/ shown.report \in ForeignReport]_vars

(***************************************************************************)
(* Properties of what is carried along.                                    *)
(***************************************************************************)

(* "residuals and blockers are preserved during packet export": what a     *)
(* report leaves open is among the debts of every merge its packet goes    *)
(* into, also when another packet with its digest came first and was kept. *)
NoDebtLost ==
  \A report \in RuntimeReports, s \in MergeInputs :
    Export(report) \in Range(s) =>
      report.missing \subseteq Merge(s).missing \cap Merge(s).blockers

(* What a merge carries is what its lineage shows and what the packets it  *)
(* dropped carried; both give the same verdict.                            *)
LineageAccountsForMerge ==
  \A s \in MergeInputs :
    LET merge == Merge(s)
        lineage == Lineage(merge)
        dropped == DOMAIN s \ Kept(s)
    IN  /\ lineage.accepted = merge.accepted /\ lineage.usable = merge.usable
        /\ \A k \in ResidualKind :
             merge.residual[k] = lineage.residual[k] + SumFunction([i \in dropped |-> s[i].residual[k]])

(* Neither the order of the packets nor a packet given twice changes the   *)
(* obligations, reasons and blockers of a merge; nor, when packets of one  *)
(* digest are the same packet, what is kept and the verdict.               *)
SameCopies(s) == \A i, j \in DOMAIN s : s[i].digest = s[j].digest => s[i] = s[j]

MergeOrderIrrelevant ==
  \A s, t \in MergeInputs : Range(s) = Range(t) =>
    LET x == Merge(s)
        y == Merge(t)
    IN  /\ x.missing = y.missing /\ x.reasons = y.reasons /\ x.blockers = y.blockers
        /\ SameCopies(s) => x.packets = y.packets /\ x.accepted = y.accepted
                            /\ x.usable = y.usable /\ x.preserved = y.preserved

(***************************************************************************)
(* Properties of what is ingested.                                         *)
(***************************************************************************)

(* A runtime report of the program, a check or a plan made from one, and   *)
(* what was exported or listed of any, never contribute to the effective   *)
(* graph when they are ingested.                                           *)
Exports == {Export(report) : report \in RuntimeReports}

OpenReportsHeld ==
  /\ \A d \in (RuntimeReports \ ForeignReport) \cup Exports : ~Contributes(AsReport(d))
  /\ \A d \in Shown :
       d.schema \in {"AgentCheckReport", "PhaseAccelerationPlan"} => ~Contributes(AsReport(d))
  /\ \A d \in Envelopes :
       ~Contributes(LineageReport(d)) /\ ~Contributes(InspectionReport(d))

(* "A packet can contribute to positive phase metrics only when it is ...  *)
(* not carrying unresolved residuals that prevent promotion": a report     *)
(* that wraps a runtime report with open obligations, or packets of such   *)
(* reports, does not contribute.  The code does not keep this for intake   *)
(* and merge reports, whose obligations are not at their top level.        *)
OpenObligations(d) ==
  CASE d.schema = "AgentIntakeReport" -> d.runtime.missing
    [] d.schema = "PacketMergeReport" -> d.missing
    [] d.schema \in {"AgentCheckReport", "PhaseAccelerationPlan"} -> d.missing

OpenObligationsAddNothing ==
  \A d \in Shown : OpenObligations(d) # {} => ~Contributes(AsReport(d))
=============================================================================
