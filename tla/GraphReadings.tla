---------------------------- MODULE GraphReadings ----------------------------
(***************************************************************************)
(* What is read off an effective graph: the bottlenecks and inversions of  *)
(* the BIT engine, the queue reports of the SQOT controller, the ALT lift, *)
(* the comparison of two observations; and what such a reading is when it  *)
(* is given to `phase lab ingest` as a report.  `es` are the events of the *)
(* graph, one node each, in their order.                                   *)
(***************************************************************************)
EXTENDS EffectiveGraph

(***************************************************************************)
(* BIT engine: diagnose, invert, certificate.                              *)
(***************************************************************************)
BottleneckClass(b) ==
  CASE b = "authority-invalid"    -> "missing_authority"
    [] b = "rollback-missing"     -> "missing_rollback_support"
    [] b = "salience-obstruction" -> "salience_obstruction"
    [] b = "stale"                -> "stale_packet"
    [] b = "verification-blocked" -> "missing_verifier_route"
    [] OTHER                      -> "external_domain_obligation"

(* One for each blocker of each node; two of one class share an id.        *)
NodeBottlenecks(es) ==
  UNION {{[node |-> i, blocker |-> b, id |-> <<es[i].body, BottleneckClass(b)>>] : b \in Blockers(es[i])} :
         i \in DOMAIN es}

(* One for each accepted edge that lacks evidence. *)
EdgeBottlenecks(es) == {[edge |-> x, class |-> "missing_semantic_edge"] : x \in ClosureDefects(es)}

(* A lower bound, in tenths. *)
ActivationGain(class) == IF class = "missing_semantic_edge" THEN 2 ELSE 1

InversionCandidates(es) ==
  {[of |-> x, expected_activation_gain |-> ActivationGain(BottleneckClass(x.blocker)), settled |-> FALSE] :
     x \in NodeBottlenecks(es)}
  \cup {[of |-> x, expected_activation_gain |-> ActivationGain(x.class), settled |-> FALSE] :
     x \in EdgeBottlenecks(es)}

(***************************************************************************)
(* SQOT controller.  Occupation is that of the attention by nodes that do  *)
(* not contribute; nothing is deleted or applied.                          *)
(***************************************************************************)
CandidateNodesDiagnostic(es) == {i \in DOMAIN es : ~Eligible(es[i]) /\ ~es[i].candidate_only}  \* mutant
CandidateNodes(es)           == {i \in DOMAIN es : ~Eligible(es[i])}

QueueOccupation(es) == <<Cardinality(CandidateNodes(es)), Max({1, Len(es)})>>

Obstructions  == {"candidate-only", "salience-obstruction", "stale", "raw-external-volume"}
Obstructed(es) == {i \in DOMAIN es : Blockers(es[i]) \cap Obstructions # {}}

RebalancePlan(es) ==
  [i \in DOMAIN es |-> IF Blockers(es[i]) # {} THEN "preserve_residual" ELSE "inspect"]

(* The node ids in quarantine: a node id is the digest of the report. *)
Quarantined(es) == {es[i].body : i \in CandidateNodes(es)}

(* More than a tenth of the attention is free. *)
ReserveAvailable(es) == LET o == QueueOccupation(es) IN 10 * (o[2] - o[1]) > o[2]

(***************************************************************************)
(* ALT lift of packets over a graph, and the paths liquidity maps to.      *)
(***************************************************************************)
AltPacket == [accepted : BOOLEAN, positive_ecpt_component_lift : BOOLEAN]

PositiveLifts(es, packets) ==
  {p \in packets : p.accepted /\ p.positive_ecpt_component_lift /\ Count(es, Eligible) > 0}
LiftStatus(es, packets) ==
  IF PositiveLifts(es, packets) # {} THEN "candidate" ELSE "diagnostic_only"

MappedPaths(es) ==
  [observed |-> Cardinality({x \in EdgePlaces(es) : EdgeOf(es, x[1], x[2]).accepted}), mapped |-> 0]

(***************************************************************************)
(* compare-window and bit compare-baseline, over two observations.         *)
(***************************************************************************)
MetricDelta(baseline, candidate) ==
  [c \in {"closure_witness_count", "effective_edge_count", "effective_node_count",
          "execution_available_path_count", "residual_debt"} |-> candidate[c] - baseline[c]]

PositiveProgress(baseline, candidate) ==
  LET delta == MetricDelta(baseline, candidate)
  IN  {c \in DOMAIN delta \ {"residual_debt"} : delta[c] > 0}

(***************************************************************************)
(* A reading as a report.  None says candidate_only or lists obligations   *)
(* at its top, where eventFromPayload looks.                               *)
(***************************************************************************)
PlainReport(digest, accepted) ==
  [body |-> digest, kind |-> "report", marks |-> {}, accepted |-> accepted, candidate |-> FALSE,
   blocked |-> FALSE, missing |-> 0, residual |-> 0, edges |-> <<>>]

(* A printed graph has edges of its own, found again by extractEdges; what *)
(* they join and their evidence stand under other names.  Its residual     *)
(* summary is read as one: the missing obligations count as residual.      *)
EdgeAgainSupported(es, i, j) ==                    \* mutant: evidence found again
  [accepted |-> EdgeOf(es, i, j).accepted, evidence |-> EdgeOf(es, i, j).evidence_supported,
   sources |-> {}, target |-> None]
EdgeAgain(es, i, j) ==
  [accepted |-> EdgeOf(es, i, j).accepted, evidence |-> FALSE, sources |-> {}, target |-> None]

Before(x, y) == x[1] < y[1] \/ (x[1] = y[1] /\ x[2] < y[2])

EdgesAgain(es) ==
  LET places == EdgePlaces(es)
  IN  [k \in 1 .. Cardinality(places) |->
         LET x == CHOOSE x \in places : Cardinality({y \in places : Before(y, x)}) = k - 1
         IN  EdgeAgain(es, x[1], x[2])]

GraphReport(es, digest) ==
  [PlainReport(digest, es # <<>>) EXCEPT
     !.residual = SumFunction([i \in DOMAIN es |-> es[i].missing + es[i].residual]),
     !.edges = EdgesAgain(es)]

ClosureReport(es, digest)     == PlainReport(digest, ClosureAccepted(es))
ObservationReport(es, digest) == PlainReport(digest, es # <<>>)

(* Its reasons say "node is blocked by", which is found to be a command.   *)
BottleneckReport(es, digest) == [PlainReport(digest, TRUE) EXCEPT !.blocked = NodeBottlenecks(es) # {}]
QueueReport(digest)          == PlainReport(digest, TRUE)

ReadingOf(es, digest) ==
  CASE digest.by = "graph"   -> GraphReport(es, digest)
    [] digest.by = "closure" -> ClosureReport(es, digest)
    [] digest.by = "observe" -> ObservationReport(es, digest)
    [] digest.by = "bit"     -> BottleneckReport(es, digest)
    [] digest.by = "sqot"    -> QueueReport(digest)
=============================================================================
