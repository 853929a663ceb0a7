------------------------ MODULE PacketExchangeProofs ------------------------
(***************************************************************************)
(* For any reports, packets and identity files: what a merge keeps and     *)
(* adds up, that it does not depend on the order of its packets, what the  *)
(* identity file has to do with a production plan, and that what lists     *)
(* open obligations does not contribute.                                   *)
(***************************************************************************)
EXTENDS PacketExchange, NumberLemmas, TLAPS

-----------------------------------------------------------------------------
(* Merges. *)

(* The fields of a merge. *)
LEMMA MergeFields ==
  ASSUME NEW s
  PROVE  /\ Merge(s).packets = {s[i] : i \in Kept(s)}
         /\ Merge(s).accepted = (Merge(s).packets # {} /\ (\A p \in Merge(s).packets : p.accepted))
         /\ Merge(s).usable = (\E p \in Merge(s).packets : p.usable)
         /\ Merge(s).preserved = (\A p \in Merge(s).packets : ~p.settled)
         /\ Merge(s).missing = UNION {s[i].missing : i \in DOMAIN s}
         /\ Merge(s).reasons = UNION {s[i].reasons : i \in DOMAIN s}
         /\ Merge(s).blockers = UNION {s[i].blockers : i \in DOMAIN s}
         /\ Merge(s).schema = "PacketMergeReport"
         /\ Merge(s).duplicates = {s[i].digest : i \in DOMAIN s \ Kept(s)}
         /\ Merge(s).residual = [k \in ResidualKind |-> SumFunction([i \in DOMAIN s |-> s[i].residual[k]])]
         /\ Merge(s) = [schema |-> "PacketMergeReport", packets |-> Merge(s).packets,
                       accepted |-> Merge(s).accepted, usable |-> Merge(s).usable,
                       preserved |-> Merge(s).preserved, duplicates |-> Merge(s).duplicates,
                       missing |-> Merge(s).missing, reasons |-> Merge(s).reasons,
                       blockers |-> Merge(s).blockers, residual |-> Merge(s).residual]
<1> DEFINE residual == [k \in ResidualKind |-> SumFunction([i \in DOMAIN s |-> s[i].residual[k]])]
           packets == {s[i] : i \in Kept(s)}
           duplicates == {s[i].digest : i \in DOMAIN s \ Kept(s)}
<1>1. Merge(s) =
        [schema |-> "PacketMergeReport", packets |-> packets,
         accepted |-> packets # {} /\ (\A p \in packets : p.accepted),
         usable |-> \E p \in packets : p.usable,
         preserved |-> \A p \in packets : ~p.settled,
         duplicates |-> duplicates,
         missing |-> UNION {s[i].missing : i \in DOMAIN s},
         reasons |-> UNION {s[i].reasons : i \in DOMAIN s},
         blockers |-> UNION {s[i].blockers : i \in DOMAIN s},
         residual |-> residual]
  BY DEF Merge
<1> HIDE DEF residual, duplicates, packets
<1>2. QED  BY <1>1 DEF packets, duplicates, residual

(* The inputs of a merge are envelopes on disk, numbered from 1. *)
LEMMA InputsAreSequences ==
  ASSUME NEW s \in MergeInputs
  PROVE  \E n \in Nat : DOMAIN s = 1 .. n
BY DEF MergeInputs, SeqOf

(* Of the envelopes of one digest the first is kept: one, never none.      *)
LEMMA FirstOfDigestKept ==
  ASSUME NEW s, NEW n \in Nat, DOMAIN s = 1 .. n, NEW i \in DOMAIN s
  PROVE  \E j \in Kept(s) : s[j].digest = s[i].digest
<1> DEFINE T == {j \in DOMAIN s : s[j].digest = s[i].digest}
<1>1. T \subseteq Nat /\ T # {}  OBVIOUS
<1>2. PICK j \in T : \A k \in T : j <= k
  <2> HIDE DEF T
  <2> QED  BY <1>1, NatLeast
<1>3. \A k \in 1 .. j - 1 : s[k].digest # s[j].digest
  <2> SUFFICES ASSUME NEW k \in 1 .. j - 1, s[k].digest = s[j].digest PROVE FALSE  OBVIOUS
  <2>1. k \in T  OBVIOUS
  <2>2. QED  BY <1>2, <2>1
<1>4. j \in Kept(s)  BY <1>3 DEF Kept
<1>5. QED  BY <1>4

LEMMA KeptDigestsDiffer ==
  ASSUME NEW s, NEW n \in Nat, DOMAIN s = 1 .. n,
         NEW i \in Kept(s), NEW j \in Kept(s), s[i].digest = s[j].digest
  PROVE  i = j
BY DEF Kept

(* Packets of one digest being the same, what is kept is what was given.   *)
LEMMA KeptIsGiven ==
  ASSUME NEW s \in MergeInputs, SameCopies(s)
  PROVE  Merge(s).packets = Range(s)
<1>1. PICK n \in Nat : DOMAIN s = 1 .. n  BY InputsAreSequences
<1>2. Merge(s).packets = {s[i] : i \in Kept(s)}  BY MergeFields
<1>3. ASSUME NEW i \in DOMAIN s PROVE s[i] \in {s[j] : j \in Kept(s)}
  <2>1. PICK j \in Kept(s) : s[j].digest = s[i].digest  BY <1>1, FirstOfDigestKept
  <2>2. j \in DOMAIN s  BY DEF Kept
  <2>3. s[j] = s[i]  BY <2>1, <2>2 DEF SameCopies
  <2>4. QED  BY <2>1, <2>3
<1>4. Kept(s) \subseteq DOMAIN s  BY DEF Kept
<1>5. QED  BY <1>2, <1>3, <1>4 DEF Range

(* What a report leaves open stays among the debts of every merge its      *)
(* packet goes into.                                                       *)
LEMMA DebtsCarried == NoDebtLost
<1> SUFFICES ASSUME NEW report \in RuntimeReports, NEW s \in MergeInputs,
                    Export(report) \in Range(s)
             PROVE  report.missing \subseteq Merge(s).missing \cap Merge(s).blockers
  BY DEF NoDebtLost
<1>1. PICK i \in DOMAIN s : s[i] = Export(report)  BY DEF Range
<1>2. report.missing \subseteq Export(report).missing
      /\ report.missing \subseteq Export(report).blockers
  <2> DEFINE residual == Summarize(report.ledger)
  <2> HIDE DEF residual
  <2>1. Export(report).missing = report.missing  BY DEF Export
  <2>2. report.missing \subseteq Export(report).blockers  BY DEF Export
  <2>3. QED  BY <2>1, <2>2
<1>3. s[i].missing \subseteq Merge(s).missing
  <2>1. Merge(s).missing = UNION {s[j].missing : j \in DOMAIN s}  BY MergeFields
  <2>2. QED  BY <2>1
<1>4. s[i].blockers \subseteq Merge(s).blockers
  <2>1. Merge(s).blockers = UNION {s[j].blockers : j \in DOMAIN s}  BY MergeFields
  <2>2. QED  BY <2>1
<1>5. QED  BY <1>1, <1>2, <1>3, <1>4

THEOREM NoDebtIsLost == Spec => []NoDebtLost
<1>1. NoDebtLost  BY DebtsCarried
<1>2. QED  BY <1>1, PTL

(* Neither order nor repetition of the packets matters, sums apart.        *)
LEMMA SameInputsSameMerge == MergeOrderIrrelevant
<1> SUFFICES ASSUME NEW s \in MergeInputs, NEW t \in MergeInputs, Range(s) = Range(t)
             PROVE  /\ Merge(s).missing = Merge(t).missing
                    /\ Merge(s).reasons = Merge(t).reasons
                    /\ Merge(s).blockers = Merge(t).blockers
                    /\ SameCopies(s) => /\ Merge(s).packets = Merge(t).packets
                                        /\ Merge(s).accepted = Merge(t).accepted
                                        /\ Merge(s).usable = Merge(t).usable
                                        /\ Merge(s).preserved = Merge(t).preserved
  BY DEF MergeOrderIrrelevant
<1>1. \A i \in DOMAIN s : \E j \in DOMAIN t : s[i] = t[j]  BY DEF Range
<1>2. \A j \in DOMAIN t : \E i \in DOMAIN s : t[j] = s[i]  BY DEF Range
<1>3. {s[i].missing : i \in DOMAIN s} = {t[j].missing : j \in DOMAIN t}  BY <1>1, <1>2
<1>4. {s[i].reasons : i \in DOMAIN s} = {t[j].reasons : j \in DOMAIN t}  BY <1>1, <1>2
<1>5. {s[i].blockers : i \in DOMAIN s} = {t[j].blockers : j \in DOMAIN t}  BY <1>1, <1>2
<1>6. ASSUME SameCopies(s)
      PROVE  Merge(s).packets = Merge(t).packets
  <2>1. SameCopies(t)
    <3> SUFFICES ASSUME NEW i \in DOMAIN t, NEW j \in DOMAIN t, t[i].digest = t[j].digest
                 PROVE  t[i] = t[j]
      BY DEF SameCopies
    <3>1. PICK k \in DOMAIN s, l \in DOMAIN s : t[i] = s[k] /\ t[j] = s[l]  BY <1>2
    <3>2. QED  BY <1>6, <3>1 DEF SameCopies
  <2>2. QED  BY <1>6, <2>1, KeptIsGiven
<1>7. Merge(s).missing = Merge(t).missing
  <2>1. Merge(s).missing = UNION {s[i].missing : i \in DOMAIN s}  BY MergeFields
  <2>2. Merge(t).missing = UNION {t[i].missing : i \in DOMAIN t}  BY MergeFields
  <2>3. QED  BY <1>3, <2>1, <2>2
<1>8. Merge(s).reasons = Merge(t).reasons
  <2>1. Merge(s).reasons = UNION {s[i].reasons : i \in DOMAIN s}  BY MergeFields
  <2>2. Merge(t).reasons = UNION {t[i].reasons : i \in DOMAIN t}  BY MergeFields
  <2>3. QED  BY <1>4, <2>1, <2>2
<1>9. Merge(s).blockers = Merge(t).blockers
  <2>1. Merge(s).blockers = UNION {s[i].blockers : i \in DOMAIN s}  BY MergeFields
  <2>2. Merge(t).blockers = UNION {t[i].blockers : i \in DOMAIN t}  BY MergeFields
  <2>3. QED  BY <1>5, <2>1, <2>2
<1>10. ASSUME Merge(s).packets = Merge(t).packets
       PROVE  /\ Merge(s).accepted = Merge(t).accepted
              /\ Merge(s).usable = Merge(t).usable
              /\ Merge(s).preserved = Merge(t).preserved
  <2>1. Merge(s).accepted = (Merge(t).packets # {} /\ (\A p \in Merge(t).packets : p.accepted))
    BY <1>10, MergeFields
  <2>2. Merge(s).usable = (\E p \in Merge(t).packets : p.usable)  BY <1>10, MergeFields
  <2>3. Merge(s).preserved = (\A p \in Merge(t).packets : ~p.settled)  BY <1>10, MergeFields
  <2>4. QED  BY <2>1, <2>2, <2>3, MergeFields
<1>11. QED  BY <1>6, <1>7, <1>8, <1>9, <1>10

THEOREM MergeIgnoresOrder == Spec => []MergeOrderIrrelevant
<1>1. MergeOrderIrrelevant  BY SameInputsSameMerge
<1>2. QED  BY <1>1, PTL

-----------------------------------------------------------------------------
(* The identity file.  A report of the program carries no identity context *)
(* of its own, and one that a plan made says it was verified exactly when  *)
(* the file, as long as it stays the same, is accepted.                    *)
OwnWithoutContext == \A d \in RuntimeReports : d \in ForeignReport \/ ~d.context

WellFormedRun ==
  /\ DOMAIN shown = {"schema", "profile", "given", "report", "supplied", "plan", "steady"}
  /\ shown = [x \in DOMAIN shown |-> shown[x]]
  /\ shown.profile \in Profile /\ shown.given \in BOOLEAN
  /\ shown.supplied \in BOOLEAN /\ shown.steady \in BOOLEAN

VerdictOfStep ==
  ~shown.supplied /\ shown.profile = "production" =>
    /\ ~shown.report.context
    /\ shown.report.verified \in BOOLEAN
    /\ Planning /\ shown.steady => (shown.report.verified <=> shown.given /\ identity = "accepted")
    /\ Planned /\ shown.steady => (shown.plan.operational <=> shown.report.verified)

RunInv ==
  /\ OwnWithoutContext
  /\ shown # None /\ shown.schema = "phase plan" =>
       /\ WellFormedRun
       /\ VerdictOfStep
       /\ shown.report \in ForeignReport \/ ~shown.report.context

(* Nothing has run at first. *)
LEMMA InitRun == Init => RunInv
BY DEF Init, RunInv, OwnWithoutContext, RuntimeReports, Of

(* What the program makes carries no context. *)
LEMMA OwnHasNoContext ==
  ASSUME NEW prof, NEW output, NEW given
  PROVE  /\ ~Step(prof, output, given).context
         /\ ~RuntimeFor(prof, output, given).context
BY DEF Step, RuntimeFor, StoredReport, OwnReport

(* Under production it says whether the identity was verified. *)
LEMMA StepVerdict ==
  ASSUME NEW output, NEW given \in BOOLEAN
  PROVE  /\ RuntimeFor("production", output, given).verified \in BOOLEAN
         /\ RuntimeFor("production", output, given).verified <=> given /\ identity = "accepted"
<1>1. RuntimeFor("production", output, given) = Step("production", output, given)
  BY DEF RuntimeFor, Dynamic
<1>2. CASE given
  <2>1. Step("production", output, given).verified = (identity = "accepted")  BY <1>2 DEF Step, OwnReport
  <2>2. QED  BY <1>1, <1>2, <2>1
<1>3. CASE ~given
  <2>1. Step("production", output, given).verified = FALSE  BY <1>3 DEF Step, OwnReport
  <2>2. QED  BY <1>1, <1>3, <2>1
<1>4. QED  BY <1>2, <1>3

(* A saved document: a report that is not made by others has no context.   *)
LEMMA SavePreserves ==
  ASSUME NEW d, RunInv, Save(d), d.schema = "RuntimeStepReport" => d \in ForeignReport \/ ~d.context
  PROVE  RunInv'
<1>1. UNCHANGED <<identity, shown>>  BY DEF Save
<1>2. OwnWithoutContext'  BY DEF RunInv, Save, OwnWithoutContext, RuntimeReports, Of
<1>3. QED
  BY <1>1, <1>2 DEF RunInv, WellFormedRun, VerdictOfStep, Planning, Planned

(* A printed report leaves no run behind. *)
LEMMA ShowPreserves ==
  ASSUME NEW d, RunInv, Show(d), d.schema # "phase plan"
  PROVE  RunInv'
BY DEF RunInv, Show, OwnWithoutContext, RuntimeReports, Of

(* A plan begins with the verdict of its own step, or with a report that   *)
(* was supplied.                                                           *)
LEMMA StartPreserves ==
  ASSUME NEW prof \in Profile, NEW given \in BOOLEAN, NEW report, NEW supplied \in BOOLEAN,
         RunInv, StartPlan(prof, given, report, supplied),
         report \in ForeignReport \/ ~report.context,
         ~supplied /\ prof = "production" =>
           /\ ~report.context
           /\ report.verified \in BOOLEAN
           /\ report.verified <=> given /\ identity = "accepted"
  PROVE  RunInv'
<1> DEFINE new == [schema |-> "phase plan", profile |-> prof, given |-> given, report |-> report,
                   supplied |-> supplied, plan |-> None, steady |-> TRUE]
<1>1. shown' = new /\ UNCHANGED <<identity, files>>  BY DEF StartPlan, Show
<1>2. OwnWithoutContext'  BY <1>1 DEF RunInv, OwnWithoutContext, RuntimeReports, Of
<1>3. WellFormedRun'  BY <1>1 DEF WellFormedRun
<1>4. ~Planned'  BY <1>1 DEF Planned
<1>5. VerdictOfStep'  BY <1>1, <1>4 DEF VerdictOfStep
<1>6. shown'.report \in ForeignReport \/ ~shown'.report.context  BY <1>1
<1>7. QED  BY <1>2, <1>3, <1>5, <1>6 DEF RunInv

(* An identity file that gets other content ends the steadiness of the     *)
(* plan under way.                                                         *)
LEMMA RewritePreserves ==
  ASSUME NEW content \in Identity, RunInv, RewriteIdentity(content)
  PROVE  RunInv'
<1>1. OwnWithoutContext'
  BY DEF RunInv, RewriteIdentity, OwnWithoutContext, RuntimeReports, Of
<1>2. CASE ~Planning
  <2>1. shown' = shown /\ UNCHANGED files  BY <1>2 DEF RewriteIdentity
  <2>2. Planned' = Planned /\ ~Planning'  BY <1>2, <2>1 DEF Planned, Planning
  <2>3. QED  BY <1>1, <2>1, <2>2 DEF RunInv, WellFormedRun, VerdictOfStep
<1>3. CASE Planning
  <2>1. WellFormedRun /\ VerdictOfStep /\ (shown.report \in ForeignReport \/ ~shown.report.context)
    BY <1>3 DEF RunInv, Planning
  <2>2. shown' = [shown EXCEPT !.steady = @ /\ content = identity] /\ identity' = content
    BY <1>3 DEF RewriteIdentity
  <2>3. /\ shown'.profile = shown.profile /\ shown'.given = shown.given
        /\ shown'.report = shown.report /\ shown'.supplied = shown.supplied
        /\ shown'.plan = shown.plan /\ shown'.schema = shown.schema
        /\ shown'.steady = (shown.steady /\ content = identity)
    BY <2>1, <2>2 DEF WellFormedRun
  <2>4. WellFormedRun'
    <3>1. DOMAIN shown' = DOMAIN shown /\ shown' = [x \in DOMAIN shown' |-> shown'[x]]
      BY <2>2
    <3>2. QED  BY <2>1, <2>3, <3>1 DEF WellFormedRun
  <2>5. ~Planned'  BY <1>3, <2>3 DEF Planned, Planning
  <2>6. VerdictOfStep'
    <3>1. shown'.steady => shown.steady /\ identity' = identity  BY <2>1, <2>2, <2>3 DEF WellFormedRun
    <3>2. QED  BY <1>3, <2>1, <2>3, <2>5, <3>1 DEF VerdictOfStep
  <2>7. QED  BY <1>1, <2>1, <2>3, <2>4, <2>6 DEF RunInv
<1>4. QED  BY <1>2, <1>3

(* The plan asks the file again, at the end.                               *)
LEMMA FinishPreserves ==
  ASSUME NEW compact \in BOOLEAN, RunInv, FinishPlan(compact)
  PROVE  RunInv'
<1> DEFINE plan == PlanOf(shown.profile, shown.given, shown.report, compact)
<1>1. Planning /\ shown' = [shown EXCEPT !.plan = plan] /\ UNCHANGED <<identity, files>>
  BY DEF FinishPlan
<1>2. WellFormedRun /\ VerdictOfStep /\ (shown.report \in ForeignReport \/ ~shown.report.context)
  BY <1>1 DEF RunInv, Planning
<1>3. plan.operational = (shown.profile = "production" =>
                            (shown.given /\ identity = "accepted") \/ shown.report.context)
  BY DEF PlanOf, IdentityAccepted
<1> HIDE DEF plan
<1>4. /\ shown'.profile = shown.profile /\ shown'.given = shown.given
      /\ shown'.report = shown.report /\ shown'.supplied = shown.supplied
      /\ shown'.plan = plan /\ shown'.schema = shown.schema /\ shown'.steady = shown.steady
  BY <1>1, <1>2 DEF WellFormedRun
<1>5. WellFormedRun'
  <2>1. DOMAIN shown' = DOMAIN shown /\ shown' = [x \in DOMAIN shown' |-> shown'[x]]
    BY <1>1
  <2>2. QED  BY <1>2, <1>4, <2>1 DEF WellFormedRun
<1>6. VerdictOfStep'
  <2> SUFFICES ASSUME ~shown.supplied, shown.profile = "production"
               PROVE  /\ ~shown.report.context
                      /\ shown.report.verified \in BOOLEAN
                      /\ shown.steady => (shown.report.verified <=> shown.given /\ identity = "accepted")
                      /\ shown.steady => (plan.operational <=> shown.report.verified)
    BY <1>1, <1>4 DEF VerdictOfStep
  <2>1. /\ ~shown.report.context
        /\ shown.report.verified \in BOOLEAN
        /\ shown.steady => (shown.report.verified <=> shown.given /\ identity = "accepted")
    BY <1>1, <1>2 DEF VerdictOfStep
  <2>2. QED  BY <1>3, <2>1
<1>7. OwnWithoutContext'  BY <1>1 DEF RunInv, OwnWithoutContext, RuntimeReports, Of
<1>8. QED  BY <1>2, <1>4, <1>5, <1>6, <1>7 DEF RunInv

LEMMA NextRun == RunInv /\ [Next]_vars => RunInv'
<1> SUFFICES ASSUME RunInv, [Next]_vars PROVE RunInv'  OBVIOUS
<1>1. ASSUME NEW content \in Identity, RewriteIdentity(content) PROVE RunInv'
  BY <1>1, RewritePreserves
<1>2. ASSUME NEW d \in ForeignReport \cup ForeignEnvelope, Receive(d) PROVE RunInv'
  <2>1. d.schema = "RuntimeStepReport" => d \in ForeignReport
    BY ExchangeAssumption DEF ExchangeAssumption, Envelope
  <2>2. QED  BY <1>2, <2>1, SavePreserves DEF Receive
<1>3. ASSUME NEW prof \in Profile, NEW given \in BOOLEAN, RuntimeStep(prof, given)
      PROVE  RunInv'
  BY <1>3, OwnHasNoContext, SavePreserves DEF RuntimeStep
<1>4. ASSUME NEW prof \in Profile, NEW output \in Output \cup {None}, NEW given \in BOOLEAN,
             AgentIntake(prof, output, given)
      PROVE  RunInv'
  <2>1. IntakeOf(RuntimeFor(prof, output, given)).schema # "phase plan"  BY DEF IntakeOf
  <2>2. QED  BY <1>4, <2>1, ShowPreserves DEF AgentIntake
<1>5. ASSUME NEW prof \in Profile, NEW output \in Output \cup {None}, NEW given \in BOOLEAN,
             AgentCheck(prof, output, given)
      PROVE  RunInv'
  <2>1. CheckOf(RuntimeFor(prof, output, given)).schema # "phase plan"  BY DEF CheckOf
  <2>2. QED  BY <1>5, <2>1, ShowPreserves DEF AgentCheck
<1>6. ASSUME NEW prof \in Profile, NEW output \in Output \cup {None}, NEW given \in BOOLEAN,
             BeginPlan(prof, output, given)
      PROVE  RunInv'
  <2>1. StartPlan(prof, given, RuntimeFor(prof, output, given), FALSE)  BY <1>6 DEF BeginPlan
  <2>2. ~RuntimeFor(prof, output, given).context  BY OwnHasNoContext
  <2>3. prof = "production" =>
          /\ RuntimeFor(prof, output, given).verified \in BOOLEAN
          /\ RuntimeFor(prof, output, given).verified <=> given /\ identity = "accepted"
    BY StepVerdict
  <2>4. QED  BY <2>1, <2>2, <2>3, StartPreserves
<1>7. ASSUME NEW prof \in Profile, NEW report \in RuntimeReports, NEW given \in BOOLEAN,
             BeginPlanOn(prof, report, given)
      PROVE  RunInv'
  <2>1. report \in ForeignReport \/ ~report.context  BY DEF RunInv, OwnWithoutContext
  <2>2. QED  BY <1>7, <2>1, StartPreserves DEF BeginPlanOn
<1>8. ASSUME NEW compact \in BOOLEAN, FinishPlan(compact) PROVE RunInv'
  BY <1>8, FinishPreserves
<1>9. ASSUME NEW report \in RuntimeReports, ExportPacket(report) PROVE RunInv'
  <2>1. Export(report).schema # "RuntimeStepReport"  BY DEF Export
  <2>2. QED  BY <1>9, <2>1, SavePreserves DEF ExportPacket
<1>10. ASSUME NEW s \in MergeInputs, MergePackets(s) PROVE RunInv'
  <2>1. Merge(s).schema # "phase plan"  BY DEF Merge
  <2>2. QED  BY <1>10, <2>1, ShowPreserves DEF MergePackets
<1>11. CASE UNCHANGED vars
  BY <1>11 DEF vars, RunInv, OwnWithoutContext, RuntimeReports, Of, WellFormedRun, VerdictOfStep,
               Planning, Planned
<1>12. QED
  BY <1>1, <1>2, <1>3, <1>4, <1>5, <1>6, <1>7, <1>8, <1>9, <1>10, <1>11 DEF Next

LEMMA RunInvariant == Spec => []RunInv
BY InitRun, NextRun, PTL DEF Spec

(* A plan and the report it made agree, unless the file was rewritten      *)
(* between its two reads.                                                  *)
THEOREM PlanAndStepAgree == Spec => []PlanAgreesWithStep
<1>1. RunInv => PlanAgreesWithStep
  BY DEF RunInv, VerdictOfStep, PlanAgreesWithStep, Planned
<1>2. QED  BY <1>1, RunInvariant, PTL

(* No saved report replaces an identity that was withdrawn.                *)
THEOREM WithdrawnIdentityStaysOut == Spec => WithdrawnStaysOut
<1>1. RunInv /\ [Next]_vars =>
        [Planning /\ shown.profile = "production" /\ Planned' /\ shown'.plan.operational =>
           identity = "accepted" \/ shown.report \in ForeignReport]_vars
  <2> SUFFICES ASSUME RunInv, [Next]_vars, Planning, shown.profile = "production", Planned',
                      shown'.plan.operational, ~(UNCHANGED vars)
               PROVE  identity = "accepted" \/ shown.report \in ForeignReport
    OBVIOUS
  <2>1. WellFormedRun /\ (shown.report \in ForeignReport \/ ~shown.report.context)
    BY DEF RunInv, Planning
  <2>2. ASSUME NEW content \in Identity, RewriteIdentity(content) PROVE FALSE
    <3>1. shown' = [shown EXCEPT !.steady = @ /\ content = identity]
      BY <2>2 DEF RewriteIdentity
    <3>2. shown'.plan = shown.plan  BY <2>1, <3>1 DEF WellFormedRun
    <3>3. QED  BY <3>2 DEF Planning, Planned
  <2>3. ASSUME NEW d, Save(d) PROVE FALSE
    BY <2>3 DEF Save, Planning, Planned
  <2>4. ASSUME NEW compact \in BOOLEAN, FinishPlan(compact)
        PROVE  identity = "accepted" \/ shown.report \in ForeignReport
    <3> DEFINE plan == PlanOf(shown.profile, shown.given, shown.report, compact)
    <3>1. shown' = [shown EXCEPT !.plan = plan]  BY <2>4 DEF FinishPlan
    <3>2. plan.operational => identity = "accepted" \/ shown.report.context
      BY DEF PlanOf, IdentityAccepted
    <3> HIDE DEF plan
    <3>3. shown'.plan = plan  BY <2>1, <3>1 DEF WellFormedRun
    <3>4. QED  BY <2>1, <3>2, <3>3
  <2>5. QED
    BY <2>2, <2>3, <2>4
    DEF Next, Receive, RuntimeStep, ExportPacket, AgentIntake, AgentCheck, MergePackets,
        BeginPlan, BeginPlanOn, StartPlan, Show
<1>2. QED  BY <1>1, RunInvariant, PTL DEF Spec, WithdrawnStaysOut

-----------------------------------------------------------------------------
(* The type invariant. *)

(* A sum over a finite set. *)
LEMMA SumTyped ==
  ASSUME NEW S, IsFiniteSet(S), NEW f, \A x \in S : f[x] \in Int
  PROVE  SumFunctionOnSet(f, S) \in Int
<1>1. /\ SumFunctionOnSet(f, {}) = 0
      /\ \A T \in SUBSET S : SumFunctionOnSet(f, T) \in Int
      /\ \A T \in SUBSET S : \A y \in T : SumFunctionOnSet(f, T) = f[y] + SumFunctionOnSet(f, T \ {y})
  BY SumRemove
<1>2. S \in SUBSET S  OBVIOUS
<1>3. QED  BY <1>1, <1>2

(* The summary of a ledger, whose coordinates of one kind are summed.      *)
LEMMA SummarizeTyped ==
  ASSUME ExchangeAssumption, NEW ledger \in Ledger
  PROVE  Summarize(ledger) \in Summary
<1>1. ledger \subseteq Coordinate /\ IsFiniteSet(ledger)  BY DEF Ledger
<1>2. ASSUME NEW k \in ResidualKind
      PROVE  SumFunctionOnSet([c \in ledger |-> c.value], {c \in ledger : c.kind = k}) \in Int
  <2> DEFINE f == [c \in ledger |-> c.value]
             S == {c \in ledger : c.kind = k}
  <2>1. IsFiniteSet(S)  BY <1>1, FS_Subset
  <2>2. \A c \in S : f[c] \in Int  BY <1>1 DEF ExchangeAssumption
  <2> HIDE DEF f, S
  <2>3. SumFunctionOnSet(f, S) \in Int  BY <2>1, <2>2, SumTyped
  <2>4. QED  BY <2>3 DEF f, S
<1>3. QED  BY <1>2 DEF Summarize, Summary

LEMMA OwnTyped ==
  ASSUME NEW output \in Output \cup {None}, NEW verified \in BOOLEAN \cup {None},
         NEW missing \in SUBSET Obligation, NEW ledger \in Ledger
  PROVE  OwnReport(output, verified, missing, ledger) \in RuntimeReport
BY DEF OwnReport, RuntimeReport

(* What the program makes, and what it holds ready.                        *)
LEMMA RuntimeTyped ==
  ASSUME ExchangeAssumption, NEW prof, NEW output \in Output \cup {None}, NEW given
  PROVE  /\ Step(prof, output, given) \in RuntimeReport
         /\ Step(prof, output, given).missing = StepMissing
         /\ RuntimeFor(prof, output, given) \in RuntimeReport
         /\ RuntimeFor(prof, output, given).missing \in {StepMissing, StoredMissing}
<1> DEFINE v == CASE given -> identity = "accepted"
                  [] ~given /\ prof = "production" -> FALSE
                  [] OTHER -> None
<1>1. v \in BOOLEAN \cup {None}
  <2>1. CASE given  BY <2>1
  <2>2. CASE ~given /\ prof = "production"  BY <2>2
  <2>3. CASE ~given /\ prof # "production"  BY <2>3
  <2>4. QED  BY <2>1, <2>2, <2>3
<1>2. Step(prof, output, given) = OwnReport(output, v, StepMissing, StepLedger)  BY DEF Step
<1> HIDE DEF v
<1>3. /\ StepMissing \in SUBSET Obligation /\ StoredMissing \in SUBSET Obligation
      /\ StepLedger \in Ledger /\ StoredLedger \in Ledger
  BY DEF ExchangeAssumption
<1>4. Step(prof, output, given) \in RuntimeReport  BY <1>1, <1>2, <1>3, OwnTyped
<1>5. StoredReport \in RuntimeReport  BY <1>3, OwnTyped DEF StoredReport
<1>6. Step(prof, output, given).missing = StepMissing /\ StoredReport.missing = StoredMissing
  BY <1>2 DEF StoredReport, OwnReport
<1>7. QED  BY <1>4, <1>5, <1>6 DEF RuntimeFor

LEMMA WrappedTyped ==
  ASSUME ExchangeAssumption, NEW runtime \in RuntimeReport
  PROVE  /\ IntakeOf(runtime) \in IntakeReport /\ IntakeOf(runtime).schema = "AgentIntakeReport"
         /\ CheckOf(runtime) \in CheckReport /\ CheckOf(runtime).schema = "AgentCheckReport"
         /\ CheckOf(runtime).missing = runtime.missing
<1> DEFINE residual == Summarize(runtime.ledger)
<1>1. runtime.ledger \in Ledger /\ runtime.operational \in BOOLEAN /\ runtime.missing \in SUBSET Obligation
  BY DEF RuntimeReport
<1>2. residual \in Summary  BY <1>1, SummarizeTyped
<1>3. IntakeOf(runtime) = [schema |-> "AgentIntakeReport", runtime |-> runtime,
                           operational |-> runtime.operational, residual |-> residual]
  BY DEF IntakeOf
<1>4. CheckOf(runtime) = [schema |-> "AgentCheckReport", runtime |-> runtime,
                          operational |-> runtime.operational, missing |-> runtime.missing,
                          residual |-> residual]
  BY DEF CheckOf
<1> HIDE DEF residual
<1>5. QED  BY <1>1, <1>2, <1>3, <1>4 DEF IntakeReport, CheckReport

LEMMA PlanTyped ==
  ASSUME ExchangeAssumption, NEW prof \in Profile, NEW given \in BOOLEAN, NEW report \in RuntimeReport, NEW compact
  PROVE  PlanOf(prof, given, report, compact) \in Plan
<1> DEFINE residual == Summarize(StoredLedger)
           operational == prof = "production" => IdentityAccepted(given, report)
           runtime == IF compact THEN None ELSE report
<1>1. residual \in Summary  BY SummarizeTyped DEF ExchangeAssumption
<1>2. operational \in BOOLEAN /\ runtime \in RuntimeReport \cup {None}  OBVIOUS
<1>3. StoredMissing \in SUBSET Obligation  BY DEF ExchangeAssumption
<1>4. PlanOf(prof, given, report, compact) =
        [schema |-> "PhaseAccelerationPlan", profile |-> prof, operational |-> operational,
         runtime |-> runtime, missing |-> StoredMissing, residual |-> residual]
  BY DEF PlanOf
<1> HIDE DEF residual, operational, runtime
<1>5. QED  BY <1>1, <1>2, <1>3, <1>4 DEF Plan

LEMMA ExportTyped ==
  ASSUME ExchangeAssumption, NEW report \in RuntimeReport
  PROVE  /\ Export(report) \in Envelope /\ Export(report).blockers # {}
         /\ Export(report).schema = "PacketExchangeEnvelope"
<1> DEFINE residual == Summarize(report.ledger)
           blockers == {"sidecar-only"} \cup (IF report.settled THEN {} ELSE {"source settled=false"})
                                        \cup report.missing
           reasons == {"exported as diagnostic data", "does not route promotion checks"}
<1>1. /\ report.ledger \in Ledger /\ report.missing \in SUBSET Obligation
      /\ report.accepted \in BOOLEAN /\ report.words \in BOOLEAN
  BY DEF RuntimeReport
<1>2. residual \in Summary  BY <1>1, SummarizeTyped
<1>3. blockers \in SUBSET Blocker /\ blockers # {}  BY <1>1 DEF Blocker
<1>4. Export(report) =
        [schema |-> "PacketExchangeEnvelope", digest |-> report, accepted |-> report.accepted,
         usable |-> report.accepted, settled |-> FALSE, missing |-> report.missing,
         reasons |-> reasons, blockers |-> blockers, residual |-> residual, words |-> report.words]
  BY DEF Export
<1>5. reasons \in SUBSET Reason  BY DEF Reason
<1> HIDE DEF residual, blockers, reasons
<1>6. QED  BY <1>1, <1>2, <1>3, <1>4, <1>5 DEF Envelope

(* What the files on disk are, by their schema.                            *)
LEMMA FilesBySchema ==
  ASSUME files \subseteq RuntimeReport \cup Envelope
  PROVE  RuntimeReports \subseteq RuntimeReport /\ Envelopes \subseteq Envelope
BY DEF RuntimeReports, Envelopes, Of, RuntimeReport, Envelope

LEMMA InputsTyped ==
  ASSUME files \subseteq RuntimeReport \cup Envelope, NEW s \in MergeInputs
  PROVE  /\ \A i \in DOMAIN s : s[i] \in Envelope
         /\ Kept(s) \subseteq DOMAIN s /\ IsFiniteSet(DOMAIN s)
<1>1. PICK n \in Nat : DOMAIN s = 1 .. n  BY InputsAreSequences
<1>2. IsFiniteSet(DOMAIN s)  BY <1>1, FS_Interval
<1>3. \A i \in DOMAIN s : s[i] \in Envelopes  BY DEF MergeInputs, SeqOf
<1>4. QED  BY <1>2, <1>3, FilesBySchema DEF Kept

LEMMA MergeTyped ==
  ASSUME files \subseteq RuntimeReport \cup Envelope, NEW s \in MergeInputs
  PROVE  Merge(s) \in MergeReport /\ Merge(s).residual \in Summary
<1>1. (\A i \in DOMAIN s : s[i] \in Envelope) /\ Kept(s) \subseteq DOMAIN s /\ IsFiniteSet(DOMAIN s)
  BY InputsTyped
<1>2. \A i \in DOMAIN s : /\ s[i].digest \in RuntimeReport /\ s[i].missing \in SUBSET Obligation
                          /\ s[i].reasons \in SUBSET Reason /\ s[i].blockers \in SUBSET Blocker
                          /\ s[i].residual \in Summary
  BY <1>1 DEF Envelope
<1>3. Merge(s).packets \in SUBSET Envelope
  <2>1. Merge(s).packets = {s[i] : i \in Kept(s)}  BY MergeFields
  <2>2. QED  BY <1>1, <2>1
<1>4. Merge(s).duplicates \in SUBSET RuntimeReport
  <2>1. Merge(s).duplicates = {s[i].digest : i \in DOMAIN s \ Kept(s)}  BY MergeFields
  <2>2. QED  BY <1>2, <2>1
<1>5. Merge(s).missing \in SUBSET Obligation
  <2>1. Merge(s).missing = UNION {s[i].missing : i \in DOMAIN s}  BY MergeFields
  <2>2. QED  BY <1>2, <2>1
<1>6. Merge(s).reasons \in SUBSET Reason
  <2>1. Merge(s).reasons = UNION {s[i].reasons : i \in DOMAIN s}  BY MergeFields
  <2>2. QED  BY <1>2, <2>1
<1>7. Merge(s).blockers \in SUBSET Blocker
  <2>1. Merge(s).blockers = UNION {s[i].blockers : i \in DOMAIN s}  BY MergeFields
  <2>2. QED  BY <1>2, <2>1
<1>8. Merge(s).residual \in Summary
  <2>1. ASSUME NEW k \in ResidualKind PROVE SumFunction([i \in DOMAIN s |-> s[i].residual[k]]) \in Int
    <3> DEFINE f == [i \in DOMAIN s |-> s[i].residual[k]]
    <3>1. \A i \in DOMAIN s : f[i] \in Int  BY <1>2 DEF Summary
    <3>2. SumFunction(f) = SumFunctionOnSet(f, DOMAIN s)  BY DEF SumFunction
    <3> HIDE DEF f
    <3>3. SumFunction(f) \in Int  BY <1>1, <3>1, <3>2, SumTyped
    <3>4. QED  BY <3>3 DEF f
  <2>2. Merge(s).residual = [k \in ResidualKind |-> SumFunction([i \in DOMAIN s |-> s[i].residual[k]])]
    BY MergeFields
  <2>3. QED  BY <2>1, <2>2 DEF Summary
<1>9. Merge(s).accepted \in BOOLEAN /\ Merge(s).usable \in BOOLEAN /\ Merge(s).preserved \in BOOLEAN
  <2>1. Merge(s).accepted = (Merge(s).packets # {} /\ (\A p \in Merge(s).packets : p.accepted))  BY MergeFields
  <2>2. Merge(s).usable = (\E p \in Merge(s).packets : p.usable)  BY MergeFields
  <2>3. Merge(s).preserved = (\A p \in Merge(s).packets : ~p.settled)  BY MergeFields
  <2>4. QED  BY <2>1, <2>2, <2>3
<1>10. Merge(s) = [schema |-> "PacketMergeReport", packets |-> Merge(s).packets,
                   accepted |-> Merge(s).accepted, usable |-> Merge(s).usable,
                   preserved |-> Merge(s).preserved, duplicates |-> Merge(s).duplicates,
                   missing |-> Merge(s).missing, reasons |-> Merge(s).reasons,
                   blockers |-> Merge(s).blockers, residual |-> Merge(s).residual]
  BY MergeFields
<1>11. QED  BY <1>3, <1>4, <1>5, <1>6, <1>7, <1>8, <1>9, <1>10 DEF MergeReport

LEMMA InitTyped == Init => TypeOK
BY DEF Init, TypeOK

(* A saved document is a runtime report or an envelope, one that is shown  *)
(* a wrapper of either.                                                    *)
LEMMA SaveTyped ==
  ASSUME TypeOK, NEW d \in RuntimeReport \cup Envelope, Save(d)
  PROVE  TypeOK'
BY DEF TypeOK, Save

LEMMA ShowTyped ==
  ASSUME TypeOK, NEW d \in IntakeReport \cup CheckReport \cup MergeReport \cup PlanRun, Show(d)
  PROVE  TypeOK'
BY DEF TypeOK, Show

LEMMA RunTyped ==
  ASSUME TypeOK, Planning \/ Planned
  PROVE  shown \in PlanRun
BY DEF TypeOK, Planning, Planned, IntakeReport, CheckReport, MergeReport, PlanRun

LEMMA StartTyped ==
  ASSUME NEW prof \in Profile, NEW given \in BOOLEAN, NEW report \in RuntimeReport, NEW supplied \in BOOLEAN,
         TypeOK, StartPlan(prof, given, report, supplied)
  PROVE  TypeOK'
<1> DEFINE d == [schema |-> "phase plan", profile |-> prof, given |-> given, report |-> report,
                 supplied |-> supplied, plan |-> None, steady |-> TRUE]
<1>1. d \in PlanRun  BY DEF PlanRun
<1>2. Show(d)  BY DEF StartPlan
<1> HIDE DEF d
<1>3. QED  BY <1>1, <1>2, ShowTyped

LEMMA NextTyped == ExchangeAssumption /\ TypeOK /\ [Next]_vars => TypeOK'
<1> SUFFICES ASSUME ExchangeAssumption, TypeOK, [Next]_vars PROVE TypeOK'  OBVIOUS
<1>0. files \subseteq RuntimeReport \cup Envelope  BY DEF TypeOK
<1>1. ASSUME NEW content \in Identity, RewriteIdentity(content) PROVE TypeOK'
  <2>1. identity' = content /\ UNCHANGED files  BY <1>1 DEF RewriteIdentity
  <2>2. shown' \in IntakeReport \cup CheckReport \cup MergeReport \cup PlanRun \cup {None}
    <3>1. CASE ~Planning  BY <1>1, <3>1 DEF RewriteIdentity, TypeOK
    <3>2. CASE Planning
      <4>1. shown \in PlanRun  BY <3>2, RunTyped
      <4>2. shown' = [shown EXCEPT !.steady = @ /\ content = identity]  BY <1>1, <3>2 DEF RewriteIdentity
      <4>3. shown' \in PlanRun  BY <4>1, <4>2 DEF PlanRun
      <4>4. QED  BY <4>3
    <3>3. QED  BY <3>1, <3>2
  <2>3. QED  BY <2>1, <2>2 DEF TypeOK
<1>2. ASSUME NEW d \in ForeignReport \cup ForeignEnvelope, Receive(d) PROVE TypeOK'
  <2>1. d \in RuntimeReport \cup Envelope  BY DEF ExchangeAssumption
  <2>2. QED  BY <1>2, <2>1, SaveTyped DEF Receive
<1>3. ASSUME NEW prof \in Profile, NEW given \in BOOLEAN, RuntimeStep(prof, given)
      PROVE  TypeOK'
  BY <1>3, RuntimeTyped, SaveTyped DEF RuntimeStep
<1>4. ASSUME NEW prof \in Profile, NEW output \in Output \cup {None}, NEW given \in BOOLEAN,
             AgentIntake(prof, output, given)
      PROVE  TypeOK'
  <2>1. IntakeOf(RuntimeFor(prof, output, given)) \in IntakeReport  BY RuntimeTyped, WrappedTyped
  <2>2. QED  BY <1>4, <2>1, ShowTyped DEF AgentIntake
<1>5. ASSUME NEW prof \in Profile, NEW output \in Output \cup {None}, NEW given \in BOOLEAN,
             AgentCheck(prof, output, given)
      PROVE  TypeOK'
  <2>1. CheckOf(RuntimeFor(prof, output, given)) \in CheckReport  BY RuntimeTyped, WrappedTyped
  <2>2. QED  BY <1>5, <2>1, ShowTyped DEF AgentCheck
<1>6. ASSUME NEW prof \in Profile, NEW output \in Output \cup {None}, NEW given \in BOOLEAN,
             BeginPlan(prof, output, given)
      PROVE  TypeOK'
  <2>1. RuntimeFor(prof, output, given) \in RuntimeReport  BY RuntimeTyped
  <2>2. QED  BY <1>6, <2>1, StartTyped DEF BeginPlan
<1>7. ASSUME NEW prof \in Profile, NEW report \in RuntimeReports, NEW given \in BOOLEAN,
             BeginPlanOn(prof, report, given)
      PROVE  TypeOK'
  <2>1. report \in RuntimeReport  BY <1>0, FilesBySchema
  <2>2. QED  BY <1>7, <2>1, StartTyped DEF BeginPlanOn
<1>8. ASSUME NEW compact \in BOOLEAN, FinishPlan(compact) PROVE TypeOK'
  <2> DEFINE plan == PlanOf(shown.profile, shown.given, shown.report, compact)
  <2>1. Planning /\ shown' = [shown EXCEPT !.plan = plan] /\ UNCHANGED <<identity, files>>
    BY <1>8 DEF FinishPlan
  <2>2. shown \in PlanRun  BY <2>1, RunTyped
  <2>3. shown.profile \in Profile /\ shown.given \in BOOLEAN /\ shown.report \in RuntimeReport
    BY <2>2 DEF PlanRun
  <2>4. plan \in Plan  BY <2>3, PlanTyped
  <2> HIDE DEF plan
  <2>5. shown' \in PlanRun  BY <2>1, <2>2, <2>4 DEF PlanRun
  <2>6. QED  BY <2>1, <2>5 DEF TypeOK
<1>9. ASSUME NEW report \in RuntimeReports, ExportPacket(report) PROVE TypeOK'
  <2>1. Export(report) \in Envelope  BY <1>0, FilesBySchema, ExportTyped
  <2>2. QED  BY <1>9, <2>1, SaveTyped DEF ExportPacket
<1>10. ASSUME NEW s \in MergeInputs, MergePackets(s) PROVE TypeOK'
  <2>1. Merge(s) \in MergeReport  BY <1>0, MergeTyped
  <2>2. QED  BY <1>10, <2>1, ShowTyped DEF MergePackets
<1>11. CASE UNCHANGED vars  BY <1>11 DEF vars, TypeOK
<1>12. QED
  BY <1>1, <1>2, <1>3, <1>4, <1>5, <1>6, <1>7, <1>8, <1>9, <1>10, <1>11 DEF Next

(* Everything the commands save or print has its type: summaries of any    *)
(* ledger are numbers by kind, and what is listed as an obligation, reason *)
(* or blocker is one (summarizeLedger, packetEnvelopeFromRuntimeReport,    *)
(* mergePacketEnvelopes and the reports that wrap a runtime report).       *)
THEOREM TypeCorrect == Spec => []TypeOK
BY InitTyped, NextTyped, ExchangeAssumption, PTL DEF Spec

-----------------------------------------------------------------------------
(* What a merge carries.  Its lineage counts each packet kept once, under  *)
(* the packet instead of its number.                                       *)
LEMMA LineageOfMerge ==
  ASSUME NEW s
  PROVE  LET merge == Merge(s)
             lineage == Lineage(merge)
         IN  /\ lineage.accepted = merge.accepted /\ lineage.usable = merge.usable
             /\ lineage.residual = [k \in ResidualKind |-> SumFunction([p \in merge.packets |-> p.residual[k]])]
<1> DEFINE packets == Merge(s).packets
           residual == [k \in ResidualKind |-> SumFunction([p \in packets |-> p.residual[k]])]
<1>1. PacketsOf(Merge(s)) = packets  BY MergeFields DEF PacketsOf
<1>2. Lineage(Merge(s)) = [accepted |-> packets # {} /\ (\A p \in packets : p.accepted),
                           usable |-> \E p \in packets : p.usable,
                           digests |-> {p.digest : p \in packets}, residual |-> residual]
  BY <1>1 DEF Lineage
<1>3. /\ Merge(s).accepted = (packets # {} /\ (\A p \in packets : p.accepted))
      /\ Merge(s).usable = (\E p \in packets : p.usable)
  BY MergeFields
<1> HIDE DEF packets, residual
<1>4. /\ Lineage(Merge(s)).accepted = Merge(s).accepted /\ Lineage(Merge(s)).usable = Merge(s).usable
      /\ Lineage(Merge(s)).residual = residual
  BY <1>2, <1>3
<1>5. QED  BY <1>4 DEF residual, packets

LEMMA LineageAccounts ==
  ASSUME files \subseteq RuntimeReport \cup Envelope
  PROVE  LineageAccountsForMerge
<1> SUFFICES ASSUME NEW s \in MergeInputs, NEW k \in ResidualKind
             PROVE  Merge(s).residual[k] =
                      Lineage(Merge(s)).residual[k] + SumFunction([i \in DOMAIN s \ Kept(s) |-> s[i].residual[k]])
  BY LineageOfMerge DEF LineageAccountsForMerge
<1> DEFINE D == DOMAIN s
           K == Kept(s)
           all == [i \in D |-> s[i].residual[k]]
           kept == [p \in Merge(s).packets |-> p.residual[k]]
           dropped == [i \in D \ K |-> s[i].residual[k]]
<1>1. (\A i \in D : s[i] \in Envelope) /\ K \subseteq D /\ IsFiniteSet(D)  BY InputsTyped
<1>2. Merge(s).packets = {s[i] : i \in K}  BY MergeFields
<1>3. \A i \in D : s[i].residual[k] \in Int  BY <1>1 DEF Envelope, Summary
<1>4. \A i, j \in K : s[i] = s[j] => i = j
  <2>1. PICK n \in Nat : DOMAIN s = 1 .. n  BY InputsAreSequences
  <2>2. QED  BY <2>1, KeptDigestsDiffer
<1>5. Merge(s).residual[k] = SumFunctionOnSet(all, D)
  <2>1. Merge(s).residual = [x \in ResidualKind |-> SumFunction([i \in DOMAIN s |-> s[i].residual[x]])]
    BY MergeFields
  <2>2. Merge(s).residual[k] = SumFunction(all)  BY <2>1
  <2>3. DOMAIN all = D  OBVIOUS
  <2> HIDE DEF all
  <2>4. QED  BY <2>2, <2>3 DEF SumFunction
<1>6. Lineage(Merge(s)).residual[k] = SumFunctionOnSet(kept, Merge(s).packets)
  <2>1. Lineage(Merge(s)).residual = [x \in ResidualKind |-> SumFunction([p \in Merge(s).packets |-> p.residual[x]])]
    BY LineageOfMerge
  <2>2. Lineage(Merge(s)).residual[k] = SumFunction(kept)  BY <2>1
  <2>3. DOMAIN kept = Merge(s).packets  OBVIOUS
  <2> HIDE DEF kept
  <2>4. QED  BY <2>2, <2>3 DEF SumFunction
<1>7. SumFunction(dropped) = SumFunctionOnSet(dropped, D \ K)
  <2>1. DOMAIN dropped = D \ K  OBVIOUS
  <2> HIDE DEF dropped
  <2>2. QED  BY <2>1 DEF SumFunction
<1>8. \A i \in D : all[i] \in Int /\ all[i] = s[i].residual[k]  BY <1>3
<1>9. \A i \in K : kept[s[i]] = all[i] /\ all[i] \in Int  BY <1>1, <1>2, <1>8
<1>10. \A i \in D \ K : dropped[i] = all[i] /\ all[i] \in Int  BY <1>8
<1>11. IsFiniteSet(K) /\ IsFiniteSet(D \ K)  BY <1>1, FS_Subset, FS_Difference
<1> HIDE DEF D, K, all, kept, dropped
<1>12. SumFunctionOnSet(all, D) = SumFunctionOnSet(all, K) + SumFunctionOnSet(all, D \ K)
  BY <1>1, <1>8, SumSplit
<1>13. SumFunctionOnSet(kept, {s[i] : i \in K}) = SumFunctionOnSet(all, K)
  BY <1>4, <1>9, <1>11, SumRenamed
<1>14. SumFunctionOnSet(all, D \ K) = SumFunctionOnSet(dropped, D \ K)  BY <1>10, <1>11, SumEqual
<1>15. Merge(s).residual[k] = Lineage(Merge(s)).residual[k] + SumFunction(dropped)
  BY <1>2, <1>5, <1>6, <1>7, <1>12, <1>13, <1>14
<1>16. QED  BY <1>15 DEF dropped, D, K

(* What a merge carries is what the lineage of its packets shows and what  *)
(* the dropped copies carried, kind by kind: nothing of a residual is lost *)
(* and nothing counted twice (mergePacketEnvelopes, packetLineageDigest).  *)
THEOREM LineageAddsUp == Spec => []LineageAccountsForMerge
<1>1. TypeOK => LineageAccountsForMerge  BY LineageAccounts DEF TypeOK
<1>2. QED  BY <1>1, TypeCorrect, PTL

-----------------------------------------------------------------------------
(* What is ingested.  An event with an obligation, a candidate or one that *)
(* is blocked does not contribute.                                         *)
LEMMA HeldBack ==
  ASSUME NEW d, NEW accepted, NEW candidate, NEW blocked, NEW missing, NEW residual,
         candidate \/ blocked \/ Cardinality(missing) # 0
  PROVE  ~Contributes(LabReport(d, accepted, candidate, blocked, missing, residual))
<1> DEFINE r == LabReport(d, accepted, candidate, blocked, missing, residual)
<1>1. r.candidate = candidate /\ r.blocked = blocked /\ r.missing = Cardinality(missing)
  BY DEF LabReport
<1> HIDE DEF r
<1>2. ~(~(r.candidate \/ ~r.accepted \/ r.kind \in Lab!CandidateKind) /\ ~r.blocked /\ r.missing = 0)
  BY <1>1
<1>3. ~Lab!EventOf(r, FALSE, 0, 0).allowed  BY <1>2 DEF Lab!EventOf
<1>4. ~Contributes(r)  BY <1>3 DEF Contributes, Lab!Eligible
<1>5. QED  BY <1>4 DEF r

(* What the program made of its own lists the obligations of the step.     *)
OwnObligations ==
  /\ \A d \in RuntimeReports : d \in ForeignReport \/ d.missing = StepMissing
  /\ shown # None /\ shown.schema = "AgentCheckReport" => shown.missing \in {StepMissing, StoredMissing}

LEMMA InitObligations == Init => OwnObligations
BY DEF Init, OwnObligations, RuntimeReports, Of

LEMMA SaveObligations ==
  ASSUME NEW d, OwnObligations, Save(d),
         d.schema = "RuntimeStepReport" => d \in ForeignReport \/ d.missing = StepMissing
  PROVE  OwnObligations'
BY DEF OwnObligations, Save, RuntimeReports, Of

LEMMA ShowObligations ==
  ASSUME NEW d, OwnObligations, Show(d),
         d.schema = "AgentCheckReport" => d.missing \in {StepMissing, StoredMissing}
  PROVE  OwnObligations'
BY DEF OwnObligations, Show, RuntimeReports, Of

LEMMA NextObligations == ExchangeAssumption /\ TypeOK /\ OwnObligations /\ [Next]_vars => OwnObligations'
<1> SUFFICES ASSUME ExchangeAssumption, TypeOK, OwnObligations, [Next]_vars PROVE OwnObligations'  OBVIOUS
<1>0. files \subseteq RuntimeReport \cup Envelope  BY DEF TypeOK
(* A plan under way stays one.                                             *)
<1>1. ASSUME Planning, UNCHANGED files, shown'.schema = shown.schema PROVE OwnObligations'
  <2>1. shown'.schema # "AgentCheckReport"  BY <1>1 DEF Planning
  <2>2. QED  BY <1>1, <2>1 DEF OwnObligations, RuntimeReports, Of
<1>2. ASSUME NEW content \in Identity, RewriteIdentity(content) PROVE OwnObligations'
  <2>1. CASE ~Planning  BY <1>2, <2>1 DEF RewriteIdentity, OwnObligations, RuntimeReports, Of
  <2>2. CASE Planning
    <3>1. shown' = [shown EXCEPT !.steady = @ /\ content = identity] /\ UNCHANGED files
      BY <1>2, <2>2 DEF RewriteIdentity
    <3>2. shown \in PlanRun  BY <2>2, RunTyped
    <3>3. shown'.schema = shown.schema  BY <3>1, <3>2 DEF PlanRun
    <3>4. QED  BY <1>1, <2>2, <3>1, <3>3
  <2>3. QED  BY <2>1, <2>2
<1>3. ASSUME NEW d \in ForeignReport \cup ForeignEnvelope, Receive(d) PROVE OwnObligations'
  <2>1. d.schema = "RuntimeStepReport" => d \in ForeignReport  BY DEF ExchangeAssumption, Envelope
  <2>2. QED  BY <1>3, <2>1, SaveObligations DEF Receive
<1>4. ASSUME NEW prof \in Profile, NEW given \in BOOLEAN, RuntimeStep(prof, given)
      PROVE  OwnObligations'
  <2>1. Step(prof, None, given).missing = StepMissing  BY RuntimeTyped
  <2>2. QED  BY <1>4, <2>1, SaveObligations DEF RuntimeStep
<1>5. ASSUME NEW prof \in Profile, NEW output \in Output \cup {None}, NEW given \in BOOLEAN,
             AgentIntake(prof, output, given)
      PROVE  OwnObligations'
  <2>1. IntakeOf(RuntimeFor(prof, output, given)).schema # "AgentCheckReport"  BY DEF IntakeOf
  <2>2. QED  BY <1>5, <2>1, ShowObligations DEF AgentIntake
<1>6. ASSUME NEW prof \in Profile, NEW output \in Output \cup {None}, NEW given \in BOOLEAN,
             AgentCheck(prof, output, given)
      PROVE  OwnObligations'
  <2>1. CheckOf(RuntimeFor(prof, output, given)).missing \in {StepMissing, StoredMissing}
    BY RuntimeTyped, WrappedTyped
  <2>2. QED  BY <1>6, <2>1, ShowObligations DEF AgentCheck
<1>7. ASSUME NEW prof, NEW report, NEW given, NEW supplied, StartPlan(prof, given, report, supplied)
      PROVE  OwnObligations'
  <2> DEFINE d == [schema |-> "phase plan", profile |-> prof, given |-> given, report |-> report,
                   supplied |-> supplied, plan |-> None, steady |-> TRUE]
  <2>1. Show(d) /\ d.schema # "AgentCheckReport"  BY <1>7 DEF StartPlan
  <2> HIDE DEF d
  <2>2. QED  BY <2>1, ShowObligations
<1>8. ASSUME NEW compact \in BOOLEAN, FinishPlan(compact) PROVE OwnObligations'
  <2> DEFINE plan == PlanOf(shown.profile, shown.given, shown.report, compact)
  <2>1. Planning /\ shown' = [shown EXCEPT !.plan = plan] /\ UNCHANGED files
    BY <1>8 DEF FinishPlan
  <2>2. shown \in PlanRun  BY <2>1, RunTyped
  <2> HIDE DEF plan
  <2>3. shown'.schema = shown.schema  BY <2>1, <2>2 DEF PlanRun
  <2>4. QED  BY <1>1, <2>1, <2>3
<1>9. ASSUME NEW report \in RuntimeReports, ExportPacket(report) PROVE OwnObligations'
  <2>1. Export(report).schema # "RuntimeStepReport"  BY DEF Export
  <2>2. QED  BY <1>9, <2>1, SaveObligations DEF ExportPacket
<1>10. ASSUME NEW s \in MergeInputs, MergePackets(s) PROVE OwnObligations'
  <2>1. Merge(s).schema # "AgentCheckReport"  BY DEF Merge
  <2>2. QED  BY <1>10, <2>1, ShowObligations DEF MergePackets
<1>11. CASE UNCHANGED vars  BY <1>11 DEF vars, OwnObligations, RuntimeReports, Of
<1>12. QED
  BY <1>2, <1>3, <1>4, <1>5, <1>6, <1>7, <1>8, <1>9, <1>10, <1>11 DEF Next, BeginPlan, BeginPlanOn

(* Runtime reports of the program, the checks and plans made of one, and   *)
(* packets, lineages and inspections of any report never count as progress *)
(* when `phase lab ingest` reads them again (eventFromPayload of the Phase *)
(* Lab on what runtime, agent, phase and packet print).                    *)
THEOREM OpenReportsAreHeld == Spec => []OpenReportsHeld
<1>1. ASSUME ExchangeAssumption, TypeOK, OwnObligations PROVE OpenReportsHeld
  <2>1. Cardinality(StepMissing) # 0 /\ Cardinality(StoredMissing) # 0
    <3>1. IsFiniteSet(StepMissing) /\ StepMissing # {} /\ StoredMissing \subseteq StepMissing /\ StoredMissing # {}
      BY <1>1 DEF ExchangeAssumption
    <3>2. IsFiniteSet(StoredMissing)  BY <3>1, FS_Subset
    <3>3. QED  BY <3>1, <3>2, FS_EmptySet
  <2>2. ASSUME NEW d \in RuntimeReports \ ForeignReport PROVE ~Contributes(AsReport(d))
    <3>1. d.missing = StepMissing  BY <1>1 DEF OwnObligations
    <3>2. AsReport(d) = LabReport(d, d.accepted, FALSE, d.settled \/ d.words, d.missing, Summarize(d.ledger))
      BY DEF RuntimeReports, Of, AsReport
    <3>3. QED  BY <2>1, <3>1, <3>2, HeldBack
  <2>3. ASSUME NEW d \in Exports PROVE ~Contributes(AsReport(d))
    <3>1. PICK report \in RuntimeReports : d = Export(report)  BY DEF Exports
    <3>2. d.schema = "PacketExchangeEnvelope" /\ d.blockers # {}
      BY <1>1, <3>1, FilesBySchema, ExportTyped DEF TypeOK
    <3>3. AsReport(d) = LabReport(d, d.accepted, d.reasons # {}, d.settled \/ d.blockers # {} \/ d.words,
                                  d.missing, d.residual)
      BY <3>2 DEF AsReport
    <3>4. QED  BY <3>2, <3>3, HeldBack
  <2>4. ASSUME NEW d \in Shown, d.schema = "AgentCheckReport" PROVE ~Contributes(AsReport(d))
    <3>1. d.missing \in {StepMissing, StoredMissing}
      <4>1. CASE Planned
        <5>1. d = shown.plan /\ shown.plan # None /\ shown.schema = "phase plan"
          BY <4>1 DEF Shown, Planned, Planning
        <5>2. shown \in PlanRun  BY <1>1, <4>1, RunTyped
        <5>3. d \in Plan  BY <5>1, <5>2 DEF PlanRun
        <5>4. QED  BY <2>4, <5>3 DEF Plan
      <4>2. CASE ~Planned  BY <1>1, <2>4, <4>2 DEF Shown, OwnObligations
      <4>3. QED  BY <4>1, <4>2
    <3>2. AsReport(d) = LabReport(d, TRUE, FALSE, d.runtime.words, d.missing, d.residual)
      BY <2>4 DEF AsReport
    <3>3. QED  BY <2>1, <3>1, <3>2, HeldBack
  <2>5. ASSUME NEW d \in Shown, d.schema = "PhaseAccelerationPlan" PROVE ~Contributes(AsReport(d))
    <3>1. AsReport(d) = LabReport(d, TRUE, TRUE, TRUE, d.missing, d.residual)  BY <2>5 DEF AsReport
    <3>2. QED  BY <3>1, HeldBack
  <2>6. ASSUME NEW d \in Envelopes PROVE ~Contributes(LineageReport(d)) /\ ~Contributes(InspectionReport(d))
    <3>1. LineageReport(d) = LabReport(d, Lineage(d).accepted, TRUE, FALSE, {}, Lineage(d).residual)
      BY DEF LineageReport
    <3>2. InspectionReport(d) = LabReport(d, Inspect(d).accepted, TRUE, d.words, {}, NoResidual)
      BY DEF InspectionReport
    <3>3. QED  BY <3>1, <3>2, HeldBack
  <2>7. QED  BY <2>2, <2>3, <2>4, <2>5, <2>6 DEF OpenReportsHeld
<1>2. Init => TypeOK /\ OwnObligations  BY InitTyped, InitObligations
<1>3. TypeOK /\ OwnObligations /\ [Next]_vars => TypeOK' /\ OwnObligations'
  BY NextTyped, NextObligations, ExchangeAssumption
<1>4. TypeOK /\ OwnObligations => OpenReportsHeld  BY <1>1, ExchangeAssumption
<1>5. QED  BY <1>2, <1>3, <1>4, PTL DEF Spec
=============================================================================
