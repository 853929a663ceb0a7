--------------------------- MODULE EffectiveGraph ---------------------------
(***************************************************************************)
(* The effective packet graph of the Phase Lab and what is counted on it:  *)
(* a report becomes an event of the log; `graph`, `closure`, `observe`,    *)
(* `threshold-status` and `certify` rebuild the graph of the selected      *)
(* window's events each time and print.  The log itself is in PhaseLabLoop.*)
(*                                                                         *)
(* A report is reduced to what the graph looks at.  Its content digest is  *)
(* its identity, and a node is identified by the digest of its report.     *)
(***************************************************************************)
EXTENDS Integers, Sequences, FiniteSets, FiniteSetsExt, Functions

CONSTANTS
  Body,        \* content digests of the reports given
  Report,      \* the reports there are to ingest
  Threshold,   \* the threshold files there are
  None

(* What the program prints of a window (of it alone, or with every window  *)
(* before it) is a report too, and has a digest.                           *)
Reading == {"graph", "closure", "observe", "bit", "sqot"}
Digest  == Body \cup [by : Reading, win : Nat, whole : BOOLEAN]

(* Source kinds: an ordinary one; one of the ALT family; and those that    *)
(* make an event candidate-only, the last of them set by `--packet`.       *)
Kind          == {"report", "alt", "raw-external", "packet-exchange"}
CandidateKind == {"raw-external", "packet-exchange"}

(* What keeps a node from contributing. *)
Blocker == {"authority-invalid", "candidate-only", "hash-invalid", "raw-external-volume",
            "rollback-missing", "salience-obstruction", "stale", "verification-blocked"}

(* A reference names a digest (in full or as the node id), or, with a      *)
(* position, the event of that number and digest.                          *)
Ref      == [body : Body, pos : Nat \cup {None}]
EdgeData == [accepted : BOOLEAN, evidence : BOOLEAN, sources : SUBSET Ref, target : Ref \cup {None}]

(* `marks`: the blockers whose words the source kind, an obligation or a   *)
(* reason holds.  `blocked`: settled, settled_blockers, command-like text. *)
ReportData == [body : Digest, kind : Kind \ {"packet-exchange"}, marks : SUBSET Blocker,
               accepted : BOOLEAN, candidate : BOOLEAN, blocked : BOOLEAN,
               missing : Nat, residual : Int, edges : Seq(EdgeData)]
Event == [body : Digest, kind : Kind, marks : SUBSET Blocker, accepted : BOOLEAN,
          candidate_only : BOOLEAN, allowed : BOOLEAN, missing : Nat, residual : Int,
          edges : Seq(EdgeData), pos : Nat, win : Nat]

(* Ratios are pairs of a numerator and a positive denominator. *)
Ratio == Nat \X (Nat \ {0})
ThresholdData ==
  [maximum_false_liquidity_load : Ratio, maximum_residual_debt : Int,
   maximum_salience_obstruction : Ratio, minimum_accepted_packet_count : Nat,
   minimum_alt_to_ecpt_lift_count : Nat, minimum_closure_witness_count : Nat,
   minimum_effective_edge_count : Nat, minimum_execution_available_path_density : Ratio,
   minimum_verification_throughput : Ratio]

Mentions(r) == UNION {LET e == r.edges[j] IN
                        {x.body : x \in e.sources \cup ({e.target} \ {None})} : j \in DOMAIN r.edges}

(* A digest is of one content, so a given report's is none of a reading.   *)
(* A report cannot hold its own digest, nor that of one that holds its.    *)
ASSUME GraphAssumption ==
  /\ Report \subseteq ReportData /\ Threshold \subseteq ThresholdData
  /\ \A r \in Report : r.body \in Body
  /\ \A r, s \in Report : r.body = s.body => r = s
  /\ \A d \in Body : d \notin [by : Reading, win : Nat, whole : BOOLEAN]
  /\ \E rank \in [Body -> 0 .. Cardinality(Body)] :
       \A r \in Report : \A d \in Mentions(r) : rank[d] < rank[r.body]
  /\ None \notin Nat \cup Ref

(***************************************************************************)
(* eventFromPayload.                                                       *)
(***************************************************************************)
EventOf(r, packet, pos, win) ==
  LET kind == IF packet THEN "packet-exchange" ELSE r.kind
      candidate_only == r.candidate \/ ~r.accepted \/ kind \in CandidateKind
  IN  [body |-> r.body, kind |-> kind, marks |-> r.marks, accepted |-> r.accepted,
       candidate_only |-> candidate_only,
       allowed |-> ~candidate_only /\ ~r.blocked /\ r.missing = 0,
       missing |-> r.missing, residual |-> r.residual, edges |-> r.edges,
       pos |-> pos, win |-> win]

(***************************************************************************)
(* nodeFromEvent, nodeIdForRef, edgesFromEvents, over the events `es`.     *)
(***************************************************************************)
Blockers(e) == e.marks \cup (IF e.candidate_only THEN {"candidate-only"} ELSE {})
                       \cup (IF e.kind = "raw-external" THEN {"raw-external-volume"} ELSE {})

Eligible(e)       == e.allowed /\ Blockers(e) = {}

(* Among events of one digest the first one stands for the node. *)
First(es, d) == CHOOSE i \in DOMAIN es : es[i].body = d /\ \A k \in 1 .. i - 1 : es[k].body # d

(* mutant: only nodes that came before the edge are found *)
ResolvesBefore(es, i, ref) == \E k \in 1 .. i : es[k].body = ref.body

Resolves(es, i, ref) ==
  /\ \E k \in DOMAIN es : es[k].body = ref.body
  /\ ref.pos # None => es[First(es, ref.body)].pos = ref.pos

NodePositive(es, d) == Eligible(es[First(es, d)])

(* Unresolved sources are dropped and an unresolved target is the edge's   *)
(* own node, which is also the source shown when no source resolves.       *)
SourceIds(es, i, x) == {ref.body : ref \in {y \in x.sources : Resolves(es, i, y)}}
TargetId(es, i, x)  == IF x.target # None /\ Resolves(es, i, x.target) THEN x.target.body ELSE es[i].body

(* mutant: only the sources are asked whether they contribute *)
EdgeOfUncheckedTarget(es, i, j) ==
  LET x == es[i].edges[j]
      accepted == x.accepted \/ es[i].accepted
      sources == SourceIds(es, i, x)
  IN  [accepted |-> accepted, evidence_supported |-> accepted /\ x.evidence,
       positive |-> accepted /\ x.evidence /\ (\A d \in sources : NodePositive(es, d)),
       source_node_ids |-> IF sources = {} THEN {es[i].body} ELSE sources,
       target_node_id |-> TargetId(es, i, x)]

EdgeOf(es, i, j) ==
  LET x == es[i].edges[j]
      accepted == x.accepted \/ es[i].accepted
      supported == accepted /\ x.evidence
      sources == SourceIds(es, i, x)
      target == TargetId(es, i, x)
  IN  [accepted |-> accepted, evidence_supported |-> supported,
       positive |-> supported /\ (\A d \in sources \cup {target} : NodePositive(es, d)),
       source_node_ids |-> IF sources = {} THEN {es[i].body} ELSE sources,
       target_node_id |-> target]

EdgePlaces(es) == UNION {{<<i, j>> : j \in DOMAIN es[i].edges} : i \in DOMAIN es}
PositiveEdges(es) == {x \in EdgePlaces(es) : EdgeOf(es, x[1], x[2]).positive}

(* detectAutocatalyticClosure: the positive edges that lead to one of      *)
(* their own sources.                                                      *)
ClosureWitnesses(es) ==
  {x \in PositiveEdges(es) : LET e == EdgeOf(es, x[1], x[2]) IN e.target_node_id \in e.source_node_ids}

(* An accepted edge without evidence is a defect, and one defect anywhere  *)
(* withdraws the closure certificate.                                      *)
ClosureDefects(es) ==
  {x \in EdgePlaces(es) : LET e == EdgeOf(es, x[1], x[2]) IN e.accepted /\ ~e.evidence_supported}
ClosureAccepted(es) == ClosureWitnesses(es) # {} /\ ClosureDefects(es) = {}

(***************************************************************************)
(* observePhaseWindow and buildPhaseThresholdStatus.                       *)
(***************************************************************************)
Count(es, P(_)) == Cardinality({i \in DOMAIN es : P(es[i])})
TotalExact(es)   == Len(es)                        \* mutant: no lower bound
Total(es)        == Max({1, Len(es)})

AcceptedAny(e)   == TRUE                           \* mutant: raw volume counted
Accepted(e)      == e.accepted
CandidateOnly(e) == e.candidate_only

Observation(es) ==
  [accepted_packet_count |-> Count(es, Accepted),
   alt_certified_capital_count |-> Count(es, LAMBDA e : e.kind = "alt" /\ e.allowed),
   closure_witness_count |-> Cardinality(ClosureWitnesses(es)),
   effective_edge_count |-> Cardinality(PositiveEdges(es)),
   effective_node_count |-> Count(es, Eligible),
   execution_available_path_count |-> 0,
   reachability_proxy |-> <<0, Max({1, Count(es, Eligible)})>>,
   false_liquidity_load |-> <<Count(es, CandidateOnly), Total(es)>>,
   salience_obstruction_load |-> <<Count(es, CandidateOnly), Total(es)>>,
   throughput_ratio |-> <<Count(es, Accepted), Total(es)>>,
   residual_debt |-> SumFunction([i \in DOMAIN es |-> es[i].residual])]

AtMost(x, y) == x[1] * y[2] <= y[1] * x[2]

FailedComponents(o, t) ==
  {c \in DOMAIN t :
     ~ CASE c = "maximum_false_liquidity_load" -> AtMost(o.false_liquidity_load, t[c])
         [] c = "maximum_residual_debt" -> o.residual_debt <= t[c]
         [] c = "maximum_salience_obstruction" -> AtMost(o.salience_obstruction_load, t[c])
         [] c = "minimum_accepted_packet_count" -> o.accepted_packet_count >= t[c]
         [] c = "minimum_alt_to_ecpt_lift_count" -> o.alt_certified_capital_count >= t[c]
         [] c = "minimum_closure_witness_count" -> o.closure_witness_count >= t[c]
         [] c = "minimum_effective_edge_count" -> o.effective_edge_count >= t[c]
         [] c = "minimum_execution_available_path_density" -> AtMost(t[c], o.reachability_proxy)
         [] c = "minimum_verification_throughput" -> AtMost(t[c], o.throughput_ratio)}

CertificateStatus(o, t) == IF FailedComponents(o, t) = {} THEN "candidate" ELSE "abstain"

ObservationData ==
  [accepted_packet_count : Nat, alt_certified_capital_count : Nat, closure_witness_count : Nat,
   effective_edge_count : Nat, effective_node_count : Nat, execution_available_path_count : {0},
   reachability_proxy : Ratio, false_liquidity_load : Ratio, salience_obstruction_load : Ratio,
   throughput_ratio : Ratio, residual_debt : Int]
=============================================================================
