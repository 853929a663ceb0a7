------------------------- MODULE PhaseAcceleration -------------------------
(***************************************************************************)
(* The comparison of admitted capital with a baseline: an agent writes a   *)
(* target, a baseline upper envelope and a file of capital, one line for   *)
(* each ALT packet or for the witness that `alt capital-witness` made of   *)
(* it; `phase acceleration-report` reads the three and says whether the    *)
(* capital is a certified acceleration candidate, at a point and with the  *)
(* charges of an interval.                                                 *)
(*                                                                         *)
(* Residuals are the set of their kinds: every kind here is blocking.      *)
(***************************************************************************)
EXTENDS Integers, Sequences, FiniteSetsExt, Functions

CONSTANTS
  Coordinate, Charge,          \* of capital; PHASE_CHARGE_FIELDS
  Packet, Target, Baseline,    \* contents of the input files
  MaxLines,                    \* bound on the lines of the capital file
  Garbage, None                \* a value that is no number, or is not given

Amount == Int \cup {Garbage, None}

Laws      == {"mission_law", "generated_law", "externality_law"}
Envelopes == {"hazard_envelope", "authority_envelope", "capability_envelope", "viability_set"}
Checks    == {"mission_valid", "transport_valid", "finality_valid", "hazard_constrained",
              "gauge_compatible", "raw_net_solvent"}

(* `refs`: the required references are given; `surplus`: as declared.      *)
PacketData ==
  [coordinate : Coordinate, refs : BOOLEAN, verified : SUBSET Checks, surplus : Amount,
   capital : Amount, cost : Amount, hazard : Amount, transport : Amount, proxy_only : BOOLEAN,
   negative_liquidity : BOOLEAN, lifecycle_stale : BOOLEAN, authority_fresh : BOOLEAN]

(* What target and baseline may both give; the target is asked first.      *)
Evidence == [confidence_budget : BOOLEAN, time_uniform_evidence : BOOLEAN,
             charge : [Charge -> Amount], declared_missing_charge : Amount]

(* `complete`: every other required field is given. *)
TargetData ==
  [complete : BOOLEAN, status : [Laws \cup Envelopes -> {"accepted", "approved", "fresh", "active", "present"}],
   observed : BOOLEAN, locked : BOOLEAN, changed : BOOLEAN,
   thresholds : [Coordinate -> Amount], raw_net_capital_floor : Amount, evidence : Evidence]

BaselineData ==
  [complete : BOOLEAN, stale : BOOLEAN, baseline_stale : BOOLEAN, lifecycle_stale : BOOLEAN,
   resource_matched : BOOLEAN \cup {None}, control_observability : {"accepted", "rejected", "text"},
   envelope_coordinates : [Coordinate -> Amount], evidence : Evidence]

ASSUME AccelerationAssumption ==
  /\ IsFiniteSet(Coordinate) /\ IsFiniteSet(Charge) /\ MaxLines \in Nat
  /\ Packet \subseteq PacketData /\ Target \subseteq TargetData /\ Baseline \subseteq BaselineData
  /\ None # Garbage /\ {None, Garbage} \cap (Int \cup BOOLEAN) = {}

VARIABLES
  target, baseline,  \* the files
  capital,           \* the lines of the capital file
  printed            \* the last acceleration report

vars == <<target, baseline, capital, printed>>

When(condition, kind) == IF condition THEN {<<kind>>} ELSE {}

(* A text, or nothing, counts as 0. *)
FloatValue(v) == IF v \in {Garbage, None} THEN 0 ELSE v

(***************************************************************************)
(* capitalWitnessReport.                                                   *)
(***************************************************************************)
SignedSurplus(p) ==
  IF p.surplus \notin {Garbage, None} THEN p.surplus
  ELSE FloatValue(p.capital) - FloatValue(p.cost) - FloatValue(p.hazard) - FloatValue(p.transport)

CapitalResiduals(p) ==
  {<<check, "not_verified">> : check \in Checks \ p.verified}
    \cup When(~p.refs, "missing_reference")
    \cup When(p.proxy_only, "proxy_only_not_admitted")
    \cup When(SignedSurplus(p) <= 0, "nonpositive_signed_surplus")
    \cup When(p.negative_liquidity, "negative_liquidity")
    \cup When(p.lifecycle_stale, "stale_lifecycle")
    \cup When(~p.authority_fresh, "authority_not_fresh")

(* mutant: the value estimand type is left out of the report *)
CapitalWitnessShort(p) ==
  [coordinate |-> p.coordinate, capital_admitted |-> CapitalResiduals(p) = {}, surplus |-> SignedSurplus(p)]
CapitalWitness(p) ==
  [coordinate |-> p.coordinate, capital_admitted |-> CapitalResiduals(p) = {},
   surplus |-> SignedSurplus(p), proxy_only |-> p.proxy_only]

(* A line is a packet, or a witness, which then speaks for the packet it   *)
(* was made of.                                                            *)
WitnessData == [coordinate : Coordinate, capital_admitted : BOOLEAN, surplus : Int, proxy_only : BOOLEAN]
Line == [packet : PacketData, witness : WitnessData \cup {None}]

(* mutant: a recorded witness is checked again, and lacks the references *)
WitnessesAgain(lines) ==
  [i \in DOMAIN lines |-> IF lines[i].witness # None
                          THEN [lines[i].witness EXCEPT !.capital_admitted = FALSE]
                          ELSE CapitalWitness(lines[i].packet)]
Witnesses(lines) ==
  [i \in DOMAIN lines |-> IF lines[i].witness # None THEN lines[i].witness
                          ELSE CapitalWitness(lines[i].packet)]

(***************************************************************************)
(* targetValidityCheck and baselineEnvelopeCheck.                          *)
(***************************************************************************)
TargetResiduals(t) ==
  When(~t.complete \/ t.raw_net_capital_floor = None, "missing_field")
    \cup {<<law, "not_accepted">> : law \in
            {l \in Laws : t.status[l] \notin {"accepted", "approved", "fresh", "active"}}}
    \cup {<<envelope, "not_accepted">> : envelope \in
            {e \in Envelopes : t.status[e] \notin {"accepted", "approved", "active"}}}
    \cup When((t.observed /\ ~t.locked) \/ t.changed, "target_changed_after_observation")

(* A control observability that is only a text is not asked for a status.  *)
BaselineResiduals(b) ==
  When(~b.complete \/ ~b.evidence.confidence_budget
         \/ \A c \in Coordinate : b.envelope_coordinates[c] = None, "missing_field")
    \cup When(b.stale, "baseline_refresh_required")
    \cup When(b.resource_matched = FALSE, "baseline_not_resource_matched")
    \cup When(b.control_observability = "rejected", "control_observability_not_accepted")

(***************************************************************************)
(* The point comparison of phaseAccelerationReport.                        *)
(***************************************************************************)
Admitted(ws, c) ==
  {i \in DOMAIN ws : ws[i].capital_admitted /\ ws[i].coordinate = c}

(* mutant: a second witness takes the place of the first *)
CapitalLast(ws, c) ==
  IF Admitted(ws, c) = {} THEN 0 ELSE ws[Max(Admitted(ws, c))].surplus
Capital(ws, c) == SumFunctionOnSet([i \in DOMAIN ws |-> ws[i].surplus], Admitted(ws, c))

Named(amounts) == {c \in Coordinate : amounts[c] # None}

(* mutant: only coordinates of the capital and the target are compared *)
CoordinatesWithoutBaseline(t, b, ws) ==
  {c \in Coordinate : Admitted(ws, c) # {}} \cup Named(t.thresholds)
Coordinates(t, b, ws) ==
  {c \in Coordinate : Admitted(ws, c) # {}} \cup Named(b.envelope_coordinates) \cup Named(t.thresholds)

Margins(t, b, ws) ==
  {Capital(ws, c) - FloatValue(b.envelope_coordinates[c]) : c \in Coordinates(t, b, ws)}

MarginDelta(t, b, ws) == IF Margins(t, b, ws) = {} THEN None ELSE Min(Margins(t, b, ws))

(* The coordinates whose threshold is reached: tau is 0 there. *)
Reached(t, amounts) == {c \in Named(t.thresholds) : amounts[c] >= FloatValue(t.thresholds[c])}

(* mutant: a proxy-only witness is passed over without a residual *)
ProxyResidualsNone(ws) == {}
ProxyResiduals(ws) ==
  When(\E i \in DOMAIN ws : ~ws[i].capital_admitted /\ ws[i].proxy_only, "proxy_only_non_contributing")

Residuals(t, b, ws) ==
  TargetResiduals(t) \cup BaselineResiduals(b) \cup ProxyResiduals(ws)
    \cup When(\A c \in Coordinate : Admitted(ws, c) = {}, "runtime_capital_witness_required")
    \cup When(SumFunction([c \in Coordinate |-> Capital(ws, c)]) < FloatValue(t.raw_net_capital_floor),
              "raw_net_capital_floor_not_met")
    \cup When(Named(t.thresholds) = {}, "target_set_evaluator_required")

Certified(t, b, ws) ==
  LET margin == MarginDelta(t, b, ws) IN
  /\ Named(t.thresholds) # {}
  /\ Residuals(t, b, ws) = {}
  /\ margin # None /\ margin > 0
  /\ Reached(t, [c \in Coordinate |-> Capital(ws, c)]) # {}
  /\ Reached(t, [c \in Coordinate |-> FloatValue(b.envelope_coordinates[c])]) # Named(t.thresholds)

(***************************************************************************)
(* phaseIntervalEvidence.                                                  *)
(***************************************************************************)
FirstValue(v, w) == IF v # None THEN v ELSE w

DeclaredMissing(t, b) ==
  FirstValue(t.evidence.declared_missing_charge, b.evidence.declared_missing_charge)

(* The upper bound used for a charge, None where there is none. *)
ChargeUpperBound(t, b, field) ==
  LET value == FirstValue(t.evidence.charge[field], b.evidence.charge[field])
  IN  IF value \notin {Garbage, None} THEN value
      ELSE IF DeclaredMissing(t, b) \notin {Garbage, None} THEN DeclaredMissing(t, b)
      ELSE None

IntervalResiduals(t, b) ==
  When(~t.evidence.confidence_budget /\ ~b.evidence.confidence_budget, "missing_confidence_budget")
    \cup When(b.baseline_stale \/ b.stale \/ b.lifecycle_stale, "baseline_stale")
    \cup When(~t.evidence.time_uniform_evidence /\ ~b.evidence.time_uniform_evidence,
              "missing_time_uniform_evidence")
    \cup {<<"missing", field>> : field \in {f \in Charge : ChargeUpperBound(t, b, f) = None}}

TotalCharge(t, b) == SumFunction([f \in Charge |-> FloatValue(ChargeUpperBound(t, b, f))])

IntervalCandidate(t, b, ws) ==
  /\ Certified(t, b, ws)
  /\ MarginDelta(t, b, ws) - TotalCharge(t, b) > 0
  /\ IntervalResiduals(t, b) = {}

PhaseAccelerationReport(t, b, lines) ==
  LET ws == Witnesses(lines)
  IN  [ok |-> Residuals(t, b, ws) = {},
       certified_acceleration_candidate |-> Certified(t, b, ws),
       certified_acceleration_interval_candidate |-> IntervalCandidate(t, b, ws),
       margin_delta |-> MarginDelta(t, b, ws)]

(***************************************************************************)
(* Commands, and what the agent does to the files.                         *)
(***************************************************************************)
Init ==
  /\ target \in Target /\ baseline \in Baseline
  /\ capital = <<>>
  /\ printed = None

WriteTarget(t) ==
  /\ target' = t /\ target' # target
  /\ printed' = None
  /\ UNCHANGED <<baseline, capital>>

WriteBaseline(b) ==
  /\ baseline' = b /\ baseline' # baseline
  /\ printed' = None
  /\ UNCHANGED <<target, capital>>

AddPacket(p) ==
  /\ Len(capital) < MaxLines
  /\ capital' = Append(capital, [packet |-> p, witness |-> None])
  /\ printed' = None
  /\ UNCHANGED <<target, baseline>>

(* The report of `alt capital-witness` goes into the file. *)
AddWitness(p) ==
  /\ Len(capital) < MaxLines
  /\ capital' = Append(capital, [packet |-> p, witness |-> CapitalWitness(p)])
  /\ printed' = None
  /\ UNCHANGED <<target, baseline>>

AccelerationReport ==
  /\ printed' = PhaseAccelerationReport(target, baseline, capital)
  /\ UNCHANGED <<target, baseline, capital>>

Next ==
  \/ \E t \in Target : WriteTarget(t)
  \/ \E b \in Baseline : WriteBaseline(b)
  \/ \E p \in Packet : AddPacket(p) \/ AddWitness(p)
  \/ AccelerationReport

Spec == Init /\ [][Next]_vars

(***************************************************************************)
(* Type invariant.                                                         *)
(***************************************************************************)
TypeOK ==
  /\ target \in Target /\ baseline \in Baseline
  /\ capital \in Seq(Line) /\ Len(capital) <= MaxLines
  /\ printed \in {None} \cup [ok : BOOLEAN, certified_acceleration_candidate : BOOLEAN,
                               certified_acceleration_interval_candidate : BOOLEAN,
                               margin_delta : Int \cup {None}]

(***************************************************************************)
(* Properties of what the report printed.                                  *)
(***************************************************************************)

(* A witness recorded by `alt capital-witness` counts for exactly what its *)
(* packet would have counted for: nothing is asked of it that it does not  *)
(* carry, and nothing is admitted that the packet would not be.            *)
RecordingChangesNothing ==
  printed # None =>
    printed = PhaseAccelerationReport(target, baseline,
                [i \in DOMAIN capital |-> [capital[i] EXCEPT !.witness = None]])

(* "Proxy-only evidence cannot increase safe capital": with a proxy-only   *)
(* line, raw or recorded, there is no candidate, and without these lines   *)
(* the capital has the same margin.                                        *)
ProxyBlocks ==
  printed # None /\ printed.certified_acceleration_candidate =>
    \A i \in DOMAIN capital : ~capital[i].packet.proxy_only

ProxyAddsNothing ==
  /\ ProxyBlocks
  /\ printed # None =>
       printed.margin_delta = MarginDelta(target, baseline,
         Witnesses(Restrict(capital, {i \in DOMAIN capital : ~capital[i].packet.proxy_only})))

(* A candidate is ahead of the baseline on every coordinate that baseline  *)
(* or target names, those for which no capital was admitted included, by   *)
(* the capital its packets would be admitted for when read again.          *)
ReadAgain(lines) == [i \in DOMAIN lines |-> CapitalWitness(lines[i].packet)]

AheadEverywhere ==
  printed # None /\ printed.certified_acceleration_candidate =>
    \A c \in Named(target.thresholds) \cup Named(baseline.envelope_coordinates) :
      Capital(ReadAgain(capital), c) > FloatValue(baseline.envelope_coordinates[c])

(* A candidate stays one with one more admitted packet, on whatever        *)
(* coordinate, and an interval candidate does where that coordinate was    *)
(* compared before or the packet is worth more than all charges: capital   *)
(* on a coordinate nobody named is compared with nothing, and its surplus  *)
(* may be the least margin.  And nothing that weakens the evidence makes a *)
(* candidate of what was none: a higher envelope, a higher charge, no      *)
(* declared bound for the charges that are missing, no confidence budget,  *)
(* no time-uniform evidence.                                               *)
Raised(amounts)   == {[amounts EXCEPT ![x] = @ + 1] : x \in {y \in DOMAIN amounts : amounts[y] \notin {Garbage, None}}}
WeakerEvidence(e) == {[e EXCEPT !.charge = charge] : charge \in Raised(e.charge)}
Unfounded(e)      == [e EXCEPT !.confidence_budget = FALSE, !.time_uniform_evidence = FALSE]
Undeclared(e)     == [e EXCEPT !.declared_missing_charge = None]

Weaker(t, b) ==
  {<<t, [b EXCEPT !.envelope_coordinates = higher]>> : higher \in Raised(b.envelope_coordinates)}
    \cup {<<[t EXCEPT !.evidence = e], b>> : e \in WeakerEvidence(t.evidence)}
    \cup {<<t, [b EXCEPT !.evidence = e]>> : e \in WeakerEvidence(b.evidence)}
    \cup {<<[t EXCEPT !.evidence = Undeclared(@)], [b EXCEPT !.evidence = Undeclared(@)]>>,
          <<[t EXCEPT !.evidence = Unfounded(@)], [b EXCEPT !.evidence = Unfounded(@)]>>}

WeakerEvidenceNeverCertifies ==
  printed # None =>
    /\ \A p \in Packet : CapitalResiduals(p) = {} =>
         LET more == PhaseAccelerationReport(target, baseline, Append(capital, [packet |-> p, witness |-> None]))
         IN  /\ printed.certified_acceleration_candidate => more.certified_acceleration_candidate
             /\ \/ p.coordinate \in Coordinates(target, baseline, Witnesses(capital))
                \/ SignedSurplus(p) > TotalCharge(target, baseline)
                => (printed.certified_acceleration_interval_candidate
                      => more.certified_acceleration_interval_candidate)
    /\ \A pair \in Weaker(target, baseline) :
         LET weaker == PhaseAccelerationReport(pair[1], pair[2], capital)
         IN  /\ weaker.certified_acceleration_candidate => printed.certified_acceleration_candidate
             /\ weaker.certified_acceleration_interval_candidate
                  => printed.certified_acceleration_interval_candidate
=============================================================================
