---------------------------- MODULE PhaseLabLoop ----------------------------
(***************************************************************************)
(* The Phase Lab used in a loop: `phase lab ingest` turns reports into     *)
(* events, readings of the log are printed to files, and files that were   *)
(* printed, now or earlier, are ingested again beside other reports.       *)
(* Ingests are whole here: PhaseLabStore has their file-system calls.      *)
(***************************************************************************)
EXTENDS GraphReadings

CONSTANTS
  Readings,    \* the readings that are printed
  MaxEvents,   \* bound: events ever ingested
  MaxWindows,  \* bound: ingests
  MaxBatch     \* bound: reports given to one ingest

ASSUME LoopAssumption ==
  Readings \subseteq Reading /\ MaxEvents \in Nat /\ MaxWindows \in Nat /\ MaxBatch \in Nat

VARIABLES
  events,    \* the log of events
  windows    \* number of windows

vars == <<events, windows>>

(* The events of window `w`, or of that window and all before it, which is *)
(* what `--window all` selected when `w` was the last one.                 *)
Within(w, whole) == {i \in DOMAIN events : events[i].win = w \/ (whole /\ events[i].win < w)}
InOrder(S) == CHOOSE f \in [1 .. Cardinality(S) -> S] : \A i, j \in DOMAIN f : i < j => f[i] < f[j]
Window(w, whole) ==
  LET places == Within(w, whole)
      place == InOrder(places)
  IN  [k \in 1 .. Cardinality(places) |-> events[place[k]]]

(* Windows never change once they are ingested, so a file printed at any   *)
(* time before is found from the log as it is now.                         *)
Printed ==
  {ReadingOf(Window(w, whole), [by |-> by, win |-> w, whole |-> whole]) :
     by \in Readings, w \in 0 .. windows - 1, whole \in BOOLEAN}

(* Files are read as JSON: what is not a report's data is refused. *)
Files == {r \in Report \cup Printed : r \in ReportData}

Init == events = <<>> /\ windows = 0

(* One ingest makes one window of its reports, then its packets; that of   *)
(* an empty directory makes an empty window.                               *)
Ingest ==
  /\ windows < MaxWindows
  /\ \E n \in 0 .. MaxBatch : \E reports \in [1 .. n -> Files], firstPacket \in 1 .. n + 1 :
       /\ Len(events) + n <= MaxEvents
       /\ events' = events \o [k \in 1 .. n |-> EventOf(reports[k], k >= firstPacket,
                                                       Len(events) + k - 1, windows)]
  /\ windows' = windows + 1

(* The readings print, and leave the log as it is. *)
Read == windows > 0 /\ UNCHANGED vars

Next == Ingest \/ Read

Spec == Init /\ [][Next]_vars

(***************************************************************************)
(* Type invariant.                                                         *)
(***************************************************************************)

(* Events are numbered as they are logged, what is printed can be ingested *)
(* and no observed ratio divides by zero, also for the empty window of an  *)
(* empty directory.                                                        *)
TypeOK ==
  /\ events \in Seq(Event) /\ windows \in Nat
  /\ \A i \in DOMAIN events : events[i].pos = i - 1 /\ events[i].win < windows
  /\ Printed \subseteq ReportData
  /\ \A w \in 0 .. windows - 1, whole \in BOOLEAN : Observation(Window(w, whole)) \in ObservationData

(***************************************************************************)
(* Properties.                                                             *)
(***************************************************************************)

(* "candidate-only cycles do not count": every packet of a closure witness *)
(* is a node that contributes positively, whatever the event the edge came *)
(* from says of itself and whichever references resolve.                   *)
ClosureOnPositiveNodes ==
  \A x \in ClosureWitnesses(events) :
    LET e == EdgeOf(events, x[1], x[2])
    IN  \A d \in e.source_node_ids \cup {e.target_node_id} : NodePositive(events, d)

(* The positive counts depend on what was ingested, not on the order: an   *)
(* edge finds nodes that come after it.  It takes that no content was      *)
(* ingested both as a report and as a packet (the first one would decide)  *)
(* and that edges refer by digest.                                         *)
Reversed(es) == [i \in DOMAIN es |-> es[Len(es) + 1 - i]]

OrderIrrelevant ==
  (/\ \A i, j \in DOMAIN events : events[i].body = events[j].body => events[i].kind = events[j].kind
   /\ \A x \in EdgePlaces(events) : LET e == events[x[1]].edges[x[2]] IN
        \A ref \in e.sources \cup ({e.target} \ {None}) : ref.pos = None)
  => /\ Cardinality(PositiveEdges(Reversed(events))) = Cardinality(PositiveEdges(events))
     /\ Cardinality(ClosureWitnesses(Reversed(events))) = Cardinality(ClosureWitnesses(events))

(* Raw volume: an event that is not accepted and whose edges are not. *)
Raw(e) == ~e.accepted /\ \A j \in DOMAIN e.edges : ~e.edges[j].accepted

RawIngest == Len(events') > Len(events) /\ \A i \in Len(events) + 1 .. Len(events') : Raw(events'[i])

Progress(es) == <<Count(es, Eligible), Cardinality(PositiveEdges(es)), Cardinality(ClosureWitnesses(es))>>

(* "Raw packet count and raw external volume are diagnostic only": raw     *)
(* events, though earlier edges may now resolve to them, raise none of the *)
(* counts of positive contribution.  They only occupy the queue: the free  *)
(* attention does not grow, no node leaves quarantine or is no longer      *)
(* obstructed, and no ALT lift over the graph becomes a candidate ...      *)
Occupies(es, more) ==
  /\ AtMost(QueueOccupation(es), QueueOccupation(more))
  /\ ReserveAvailable(more) => ReserveAvailable(es)
  /\ Quarantined(es) \subseteq Quarantined(more)
  /\ Obstructed(es) \subseteq Obstructed(more)
  /\ \A packets \in SUBSET AltPacket :
       LiftStatus(more, packets) = "candidate" => LiftStatus(es, packets) = "candidate"

RawVolumeAddsNothing ==
  [][RawIngest => /\ \A n \in 1 .. 3 : Progress(events')[n] <= Progress(events)[n]
                  /\ Occupies(events, events')]_vars

(* ... nor turn the abstention of either certificate into a candidate, as  *)
(* long as no raw event carries a negative residual.                       *)
RawVolumeNeverCertifies ==
  [][RawIngest /\ (\A i \in DOMAIN events' : events'[i].residual >= 0) =>
       /\ ClosureAccepted(events') => ClosureAccepted(events)
       /\ \A t \in Threshold : CertificateStatus(Observation(events), t) = "abstain" =>
                                CertificateStatus(Observation(events'), t) = "abstain"]_vars

(* The readings of a graph do not contradict one another: a closure        *)
(* witness stands on contributing nodes only, none of its packets is in    *)
(* quarantine, obstructed or to be preserved as a residual, no inversion   *)
(* is recommended for one or for the edge, the paths ALT maps to are at    *)
(* least the positive edges and the defects, and the queue is occupied by  *)
(* at least the false liquidity observed.  For packets it takes that no    *)
(* content was ingested both as a report and as a packet: then one node id *)
(* is counted for its first copy, quarantined for the other.               *)
NothingCountedIsHeld ==
  \A w \in 0 .. windows - 1, whole \in BOOLEAN :
    LET es == Window(w, whole)
        counted == UNION {LET e == EdgeOf(es, x[1], x[2])
                          IN  e.source_node_ids \cup {e.target_node_id} : x \in ClosureWitnesses(es)}
        inverted == {c.of : c \in InversionCandidates(es)}
    IN  /\ \A d \in counted : NodePositive(es, d)
        /\ AtMost(Observation(es).false_liquidity_load, QueueOccupation(es))
        /\ MappedPaths(es).observed >= Cardinality(PositiveEdges(es)) + Cardinality(ClosureDefects(es))
        /\ {x.edge : x \in inverted \cap EdgeBottlenecks(es)} \cap ClosureWitnesses(es) = {}
        /\ (\A i, j \in DOMAIN es : es[i].body = es[j].body => es[i].kind = es[j].kind)
           => /\ counted \cap Quarantined(es) = {}
              /\ counted \cap {x.id[1] : x \in inverted \cap NodeBottlenecks(es)} = {}
              /\ \A i \in DOMAIN es : es[i].body \in counted
                   => i \notin Obstructed(es) /\ RebalancePlan(es)[i] = "inspect"

(* Readings that come back. *)
Feedback == Len(events') > Len(events) /\ \A i \in Len(events) + 1 .. Len(events') : events'[i].body \notin Body

(* A graph that is printed and ingested again has all its edges extracted  *)
(* again: none of them counts a second time, no edge that was there counts *)
(* because of it, and a closure certificate that abstained still does.  It *)
(* takes that no report names a reading (Ref): an edge into a queue report *)
(* would count once that report, which says accepted of itself, is in.     *)
FeedbackAddsNoEdge ==
  [][Feedback => /\ PositiveEdges(events') = PositiveEdges(events)
                 /\ ClosureWitnesses(events') = ClosureWitnesses(events)
                 /\ ClosureAccepted(events') => ClosureAccepted(events)]_vars

(* "Candidate-only packets ... do not increase accepted phase progress".   *)
(* The code does not keep this: an edge of a candidate-only event counts   *)
(* when the edge says of itself that it is accepted.                       *)
CandidateOnlyAddsNothing ==
  [][Len(events') > Len(events)
       /\ (\A i \in Len(events) + 1 .. Len(events') : events'[i].candidate_only)
     => \A n \in 1 .. 3 : Progress(events')[n] <= Progress(events)[n]]_vars
=============================================================================
