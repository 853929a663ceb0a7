------------------------ MODULE EffectiveGraphProofs ------------------------
(***************************************************************************)
(* Theorems about the effective graph of PhaseLabLoop's log, for any       *)
(* reports, readings, thresholds and bounds.                               *)
(***************************************************************************)
EXTENDS PhaseLabLoop, NumberLemmas, TLAPS, FiniteSetTheorems, SequenceTheorems

-----------------------------------------------------------------------------
(* The first event of a digest. *)

(* A digest that occurs has a first occurrence. *)
LEMMA FirstOccurrence ==
  ASSUME NEW es \in Seq(Event), NEW d, NEW k \in DOMAIN es, es[k].body = d
  PROVE  /\ First(es, d) \in DOMAIN es
         /\ es[First(es, d)].body = d
         /\ \A n \in 1 .. First(es, d) - 1 : es[n].body # d
<1> DEFINE T == {n \in DOMAIN es : es[n].body = d}
<1>1. T \subseteq Nat /\ T # {}  OBVIOUS
<1>2. PICK i \in T : \A n \in T : i <= n
  <2> HIDE DEF T
  <2> QED  BY <1>1, NatLeast
<1>3. \A n \in 1 .. i - 1 : es[n].body # d
  <2> SUFFICES ASSUME NEW n \in 1 .. i - 1, es[n].body = d PROVE FALSE  OBVIOUS
  <2>1. i \in DOMAIN es /\ DOMAIN es = 1 .. Len(es) /\ Len(es) \in Nat  OBVIOUS
  <2>2. n \in T  BY <2>1
  <2>3. QED  BY <1>2, <2>1, <2>2
<1>4. i \in DOMAIN es /\ es[i].body = d  OBVIOUS
<1>5. QED  BY <1>3, <1>4 DEF First

(* `all` continues `es`. *)
Continues(all, es) ==
  Len(es) <= Len(all) /\ \A i \in 1 .. Len(es) : all[i] = es[i]

(* It stays the first one when events are added. *)
LEMMA FirstStays ==
  ASSUME NEW es \in Seq(Event), NEW all \in Seq(Event), Continues(all, es),
         NEW d, NEW k \in DOMAIN es, es[k].body = d
  PROVE  First(all, d) = First(es, d)
<1> DEFINE a == First(es, d)
           b == First(all, d)
<1>1. /\ DOMAIN es = 1 .. Len(es) /\ Len(es) \in Nat
      /\ DOMAIN all = 1 .. Len(all) /\ Len(all) \in Nat
  OBVIOUS
<1>2. a \in 1 .. Len(es) /\ es[a].body = d /\ \A n \in 1 .. a - 1 : es[n].body # d
  BY <1>1, FirstOccurrence
<1>3. k \in DOMAIN all /\ all[k].body = d  BY <1>1 DEF Continues
<1>4. b \in 1 .. Len(all) /\ all[b].body = d /\ \A n \in 1 .. b - 1 : all[n].body # d
  BY <1>1, <1>3, FirstOccurrence
<1> HIDE DEF a, b
<1>5. all[a].body = d /\ a \in 1 .. Len(all)  BY <1>1, <1>2 DEF Continues
<1>6. ~(a < b)  BY <1>2, <1>4, <1>5
<1>7. ~(b < a)  BY <1>1, <1>2, <1>4 DEF Continues
<1>8. a = b  BY <1>2, <1>4, <1>6, <1>7
<1>9. QED  BY <1>8 DEF a, b

-----------------------------------------------------------------------------
(* Raw volume. *)

(* `all` continues `es` with events that are not accepted, hold no         *)
(* accepted edge and are candidates, not allowed to contribute.            *)
RawAfter(all, es) ==
  /\ Continues(all, es)
  /\ \A i \in Len(es) + 1 .. Len(all) : Raw(all[i]) /\ ~all[i].allowed /\ all[i].candidate_only

(* A node that contributes after raw events were added was there before,   *)
(* with the same first event.                                              *)
LEMMA PositiveWasThere ==
  ASSUME NEW es \in Seq(Event), NEW all \in Seq(Event), RawAfter(all, es),
         NEW d, NEW k \in DOMAIN all, all[k].body = d, NodePositive(all, d)
  PROVE  /\ \E n \in DOMAIN es : es[n].body = d
         /\ First(all, d) = First(es, d)
         /\ es[First(es, d)] = all[First(all, d)]
         /\ NodePositive(es, d)
<1> DEFINE b == First(all, d)
<1>1. /\ DOMAIN es = 1 .. Len(es) /\ Len(es) \in Nat
      /\ DOMAIN all = 1 .. Len(all) /\ Len(all) \in Nat
  OBVIOUS
<1>2. b \in 1 .. Len(all) /\ all[b].body = d  BY <1>1, FirstOccurrence
<1>3. all[b].allowed  BY DEF NodePositive, Eligible
<1> HIDE DEF b
<1>4. b \in 1 .. Len(es)  BY <1>1, <1>2, <1>3 DEF RawAfter
<1>5. es[b] = all[b] /\ b \in DOMAIN es /\ es[b].body = d  BY <1>1, <1>2, <1>4 DEF RawAfter, Continues
<1>6. b = First(es, d)  BY <1>5, FirstStays DEF RawAfter, b
<1>7. QED  BY <1>5, <1>6 DEF NodePositive, b

(* A reference that resolves stays resolved. *)
LEMMA ResolvesStays ==
  ASSUME NEW es \in Seq(Event), NEW all \in Seq(Event), Continues(all, es),
         NEW i, NEW ref, Resolves(es, i, ref)
  PROVE  Resolves(all, i, ref)
<1>1. PICK k \in DOMAIN es : es[k].body = ref.body  BY DEF Resolves
<1>2. /\ DOMAIN es = 1 .. Len(es) /\ Len(es) \in Nat
      /\ DOMAIN all = 1 .. Len(all) /\ Len(all) \in Nat
  OBVIOUS
<1>3. First(all, ref.body) = First(es, ref.body)  BY <1>1, FirstStays
<1>4. First(es, ref.body) \in DOMAIN es  BY <1>1, FirstOccurrence
<1>5. all[First(all, ref.body)] = es[First(es, ref.body)]  BY <1>2, <1>3, <1>4 DEF Continues
<1>6. k \in DOMAIN all /\ all[k].body = ref.body  BY <1>1, <1>2 DEF Continues
<1>7. QED  BY <1>5, <1>6 DEF Resolves

(* A reference that resolves to a contributing node resolved before.       *)
LEMMA ResolvedBefore ==
  ASSUME NEW es \in Seq(Event), NEW all \in Seq(Event), RawAfter(all, es),
         NEW i, NEW ref, Resolves(all, i, ref), NodePositive(all, ref.body)
  PROVE  Resolves(es, i, ref)
<1>1. PICK k \in DOMAIN all : all[k].body = ref.body  BY DEF Resolves
<1>2. /\ \E n \in DOMAIN es : es[n].body = ref.body
      /\ es[First(es, ref.body)] = all[First(all, ref.body)]
  BY <1>1, PositiveWasThere
<1>3. QED  BY <1>2 DEF Resolves

(* An edge that is positive after raw events were added is an old edge,    *)
(* was positive already and joins the same nodes.                          *)
LEMMA RawAddsNoEdge ==
  ASSUME NEW es \in Seq(Event), NEW all \in Seq(Event), RawAfter(all, es),
         NEW i \in DOMAIN all, NEW j \in DOMAIN all[i].edges, EdgeOf(all, i, j).positive
  PROVE  /\ i \in DOMAIN es /\ j \in DOMAIN es[i].edges
         /\ EdgeOf(es, i, j) = EdgeOf(all, i, j)
<1> DEFINE x == all[i].edges[j]
           sources == SourceIds(all, i, x)
           target == TargetId(all, i, x)
<1>1. /\ DOMAIN es = 1 .. Len(es) /\ Len(es) \in Nat
      /\ DOMAIN all = 1 .. Len(all) /\ Len(all) \in Nat
      /\ Continues(all, es)
  BY DEF RawAfter
<1>2. /\ x.accepted \/ all[i].accepted
      /\ \A d \in sources \cup {target} : NodePositive(all, d)
  BY DEF EdgeOf
<1>3. i \in 1 .. Len(es)
  <2> SUFFICES ASSUME i \notin 1 .. Len(es) PROVE FALSE  OBVIOUS
  <2>1. i \in Len(es) + 1 .. Len(all)  BY <1>1
  <2>2. Raw(all[i])  BY <2>1 DEF RawAfter
  <2>3. QED  BY <1>2, <2>2 DEF Raw
<1>4. all[i] = es[i]  BY <1>1, <1>3 DEF Continues
<1>5. sources = SourceIds(es, i, x)
  <2>1. ASSUME NEW ref \in x.sources
        PROVE  Resolves(all, i, ref) <=> Resolves(es, i, ref)
    <3>1. CASE Resolves(all, i, ref)
      <4>1. ref.body \in sources  BY <3>1 DEF SourceIds
      <4>2. NodePositive(all, ref.body)  BY <1>2, <4>1
      <4>3. QED  BY <3>1, <4>2, ResolvedBefore
    <3>2. CASE Resolves(es, i, ref)  BY <1>1, <3>2, ResolvesStays
    <3>3. QED  BY <3>1, <3>2
  <2>2. QED  BY <2>1 DEF SourceIds
<1>6. target = TargetId(es, i, x)
  <2>1. CASE x.target # None /\ Resolves(all, i, x.target)
    <3>1. target = x.target.body  BY <2>1 DEF TargetId
    <3>2. NodePositive(all, x.target.body)  BY <1>2, <3>1
    <3>3. Resolves(es, i, x.target)  BY <2>1, <3>2, ResolvedBefore
    <3>4. QED  BY <2>1, <3>3 DEF TargetId
  <2>2. CASE ~(x.target # None /\ Resolves(all, i, x.target))
    <3>1. ~(x.target # None /\ Resolves(es, i, x.target))  BY <1>1, <2>2, ResolvesStays
    <3>2. QED  BY <1>4, <2>2, <3>1 DEF TargetId
  <2>3. QED  BY <2>1, <2>2
<1>7. \A d \in sources \cup {target} : NodePositive(es, d)
  <2> SUFFICES ASSUME NEW d \in sources \cup {target} PROVE NodePositive(es, d)  OBVIOUS
  <2>1. \E k \in DOMAIN all : all[k].body = d
    BY DEF SourceIds, TargetId, Resolves
  <2>2. QED  BY <1>2, <2>1, PositiveWasThere
<1>8. EdgeOf(es, i, j) = EdgeOf(all, i, j)
  <2>1. EdgeOf(all, i, j).positive = TRUE /\ EdgeOf(es, i, j).positive = TRUE
    BY <1>2, <1>4, <1>5, <1>6, <1>7 DEF EdgeOf
  <2>2. QED  BY <1>2, <1>4, <1>5, <1>6, <1>7 DEF EdgeOf
<1>9. QED  BY <1>1, <1>3, <1>4, <1>8

(* A sequence has finitely many places.                                    *)
LEMMA DomainFinite ==
  ASSUME NEW T, NEW s \in Seq(T)
  PROVE  IsFiniteSet(DOMAIN s)
<1>1. PICK n \in Nat : DOMAIN s = 1 .. n  OBVIOUS
<1>2. 1 \in Int /\ n \in Int  OBVIOUS
<1>3. IsFiniteSet(1 .. n)  BY <1>2, FS_Interval
<1>4. QED  BY <1>1, <1>3

(* A finite log has finitely many edges. *)
LEMMA EdgesFinite ==
  ASSUME NEW es \in Seq(Event)
  PROVE  IsFiniteSet(EdgePlaces(es))
<1> DEFINE At(i) == {<<i, j>> : j \in DOMAIN es[i].edges}
           f == [i \in DOMAIN es |-> At(i)]
           S == {At(i) : i \in DOMAIN es}
<1>1. IsFiniteSet(DOMAIN es)  BY DomainFinite
<1>2. f \in Surjection(DOMAIN es, S)  BY DEF Surjection
<1>3. IsFiniteSet(S)  BY <1>1, <1>2, FS_Surjection
<1>4. ASSUME NEW i \in DOMAIN es PROVE IsFiniteSet(At(i))
  <2> DEFINE g == [j \in DOMAIN es[i].edges |-> <<i, j>>]
  <2>0. es[i] \in Event  OBVIOUS
  <2>1. es[i].edges \in Seq(EdgeData)  BY <2>0 DEF Event
  <2>2. IsFiniteSet(DOMAIN es[i].edges)  BY <2>1, DomainFinite
  <2>3. g \in Surjection(DOMAIN es[i].edges, At(i))  BY DEF Surjection
  <2>4. QED  BY <2>2, <2>3, FS_Surjection
<1>5. \A T \in S : IsFiniteSet(T)  BY <1>4
<1>6. IsFiniteSet(UNION S)
  <2> HIDE DEF S
  <2> QED  BY <1>3, <1>5, FS_UNION
<1>7. QED  BY <1>6 DEF EdgePlaces

(* The places of the edges that are positive after raw events were added. *)
LEMMA RawAddsNoPlace ==
  ASSUME NEW es \in Seq(Event), NEW all \in Seq(Event), RawAfter(all, es)
  PROVE  /\ PositiveEdges(all) \subseteq PositiveEdges(es)
         /\ ClosureWitnesses(all) \subseteq ClosureWitnesses(es)
<1>1. ASSUME NEW x \in PositiveEdges(all)
      PROVE  x \in PositiveEdges(es) /\ EdgeOf(es, x[1], x[2]) = EdgeOf(all, x[1], x[2])
  <2>0. PICK i \in DOMAIN all : \E j \in DOMAIN all[i].edges : x = <<i, j>>
    BY DEF PositiveEdges, EdgePlaces
  <2>1. PICK j \in DOMAIN all[i].edges : x = <<i, j>>  BY <2>0
  <2>2. EdgeOf(all, i, j).positive  BY <2>1 DEF PositiveEdges
  <2>3. /\ i \in DOMAIN es /\ j \in DOMAIN es[i].edges
        /\ EdgeOf(es, i, j) = EdgeOf(all, i, j)
    BY <2>2, RawAddsNoEdge
  <2>4. x \in EdgePlaces(es)  BY <2>1, <2>3 DEF EdgePlaces
  <2>5. EdgeOf(es, x[1], x[2]).positive  BY <2>1, <2>2, <2>3
  <2>6. QED  BY <2>1, <2>3, <2>4, <2>5 DEF PositiveEdges
<1>2. PositiveEdges(all) \subseteq PositiveEdges(es)  BY <1>1
<1>3. ClosureWitnesses(all) \subseteq ClosureWitnesses(es)
  BY <1>1 DEF ClosureWitnesses
<1>4. QED  BY <1>2, <1>3

(* Neither do raw events add contributing nodes. *)
LEMMA RawAddsNoProgress ==
  ASSUME NEW es \in Seq(Event), NEW all \in Seq(Event), RawAfter(all, es)
  PROVE  \A n \in 1 .. 3 : Progress(all)[n] <= Progress(es)[n]
<1> DEFINE Good(s) == {i \in DOMAIN s : Eligible(s[i])}
<1>1. /\ DOMAIN es = 1 .. Len(es) /\ Len(es) \in Nat
      /\ DOMAIN all = 1 .. Len(all) /\ Len(all) \in Nat
  OBVIOUS
<1>2. Good(all) \subseteq Good(es)
  <2> SUFFICES ASSUME NEW i \in DOMAIN all, Eligible(all[i])
               PROVE  i \in DOMAIN es /\ Eligible(es[i])  OBVIOUS
  <2>1. all[i].allowed  BY DEF Eligible
  <2>2. i \in 1 .. Len(es)  BY <1>1, <2>1 DEF RawAfter
  <2>3. QED  BY <1>1, <2>2 DEF RawAfter, Continues
<1>3. IsFiniteSet(Good(es))
  <2>1. IsFiniteSet(DOMAIN es)  BY DomainFinite
  <2>2. QED  BY <2>1, FS_Subset
<1>4. Cardinality(Good(all)) <= Cardinality(Good(es))
  <2> HIDE DEF Good
  <2> QED  BY <1>2, <1>3, FS_Subset
<1>5. IsFiniteSet(PositiveEdges(es)) /\ IsFiniteSet(ClosureWitnesses(es))
  <2>1. PositiveEdges(es) \subseteq EdgePlaces(es)  BY DEF PositiveEdges
  <2>2. ClosureWitnesses(es) \subseteq EdgePlaces(es)  BY <2>1 DEF ClosureWitnesses
  <2>3. QED  BY <2>1, <2>2, EdgesFinite, FS_Subset
<1>6. /\ Cardinality(PositiveEdges(all)) <= Cardinality(PositiveEdges(es))
      /\ Cardinality(ClosureWitnesses(all)) <= Cardinality(ClosureWitnesses(es))
  BY <1>5, RawAddsNoPlace, FS_Subset
<1>7. Count(all, Eligible) <= Count(es, Eligible)  BY <1>4 DEF Count
<1>8. QED  BY <1>6, <1>7 DEF Progress

-----------------------------------------------------------------------------
(* The theorem. *)

(* The log holds events, made of what was given or printed, numbered; only *)
(* accepted ones are no candidates, and only these may contribute.         *)
LogInv ==
  /\ events \in Seq(Event) /\ windows \in Nat
  /\ \A i \in DOMAIN events :
       /\ events[i].allowed => events[i].accepted
       /\ ~events[i].accepted => events[i].candidate_only

(* An event made from a report is an event, allowed only when accepted. *)
LEMMA EventTypes ==
  ASSUME NEW r \in ReportData, NEW packet \in BOOLEAN, NEW pos \in Nat, NEW win \in Nat
  PROVE  /\ EventOf(r, packet, pos, win) \in Event
         /\ EventOf(r, packet, pos, win).allowed => EventOf(r, packet, pos, win).accepted
         /\ ~EventOf(r, packet, pos, win).accepted => EventOf(r, packet, pos, win).candidate_only
BY DEF EventOf, Event, ReportData, Kind, CandidateKind

(* An ingest continues the log with such events, made from files. *)
LEMMA IngestContinues ==
  ASSUME LogInv, Ingest
  PROVE  /\ LogInv'
         /\ Continues(events', events)
         /\ \A i \in Len(events) + 1 .. Len(events') :
              \E r \in Files, packet \in BOOLEAN : events'[i] = EventOf(r, packet, i - 1, windows)
<1>0. PICK n \in 0 .. MaxBatch : \E reports \in [1 .. n -> Files], firstPacket \in 1 .. n + 1 :
        events' = events \o [k \in 1 .. n |-> EventOf(reports[k], k >= firstPacket,
                                                     Len(events) + k - 1, windows)]
  BY DEF Ingest
<1>1. PICK reports \in [1 .. n -> Files], firstPacket \in 1 .. n + 1 :
        events' = events \o [k \in 1 .. n |-> EventOf(reports[k], k >= firstPacket,
                                                     Len(events) + k - 1, windows)]
  BY <1>0
<1> DEFINE new == [k \in 1 .. n |-> EventOf(reports[k], k >= firstPacket, Len(events) + k - 1, windows)]
<1>2. n \in Nat /\ firstPacket \in Nat  BY LoopAssumption
<1>3. ASSUME NEW k \in 1 .. n
      PROVE  /\ new[k] \in Event
             /\ new[k].allowed => new[k].accepted
             /\ ~new[k].accepted => new[k].candidate_only
  <2>1. Len(events) + k - 1 \in Nat /\ windows \in Nat  BY <1>2 DEF LogInv
  <2>2. reports[k] \in ReportData /\ (k >= firstPacket) \in BOOLEAN  BY <1>2 DEF Files
  <2>3. QED  BY <2>1, <2>2, EventTypes
<1>4. new \in Seq(Event) /\ Len(new) = n  BY <1>2, <1>3
<1>5. \A k \in 1 .. n : new[k] = EventOf(reports[k], k >= firstPacket, Len(events) + k - 1, windows)
  OBVIOUS
<1> HIDE DEF new
<1>6. events' = events \o new  BY <1>1 DEF new
<1>7. /\ events' \in Seq(Event)
      /\ Len(events') = Len(events) + n
      /\ \A i \in 1 .. Len(events) : events'[i] = events[i]
      /\ \A i \in Len(events) + 1 .. Len(events) + n : events'[i] = new[i - Len(events)]
  <2>1. events \in Seq(Event) /\ Len(events) \in Nat  BY DEF LogInv
  <2> DEFINE m == Len(events)
             joined == events \o new
  <2>2. /\ joined \in Seq(Event) /\ Len(joined) = m + n
        /\ \A i \in 1 .. m + n : joined[i] = IF i <= m THEN events[i] ELSE new[i - m]
    BY <1>4, <2>1, ConcatProperties
  <2> HIDE DEF joined
  <2>3. m \in Nat /\ n \in Nat  BY <1>2, <2>1
  <2>4. \A i \in 1 .. m : joined[i] = events[i]  BY <2>2, <2>3
  <2>5. \A i \in m + 1 .. m + n : joined[i] = new[i - m]  BY <2>2, <2>3
  <2>6. QED  BY <1>6, <2>2, <2>4, <2>5 DEF joined
<1>8. ASSUME NEW i \in DOMAIN events'
      PROVE  /\ events'[i].allowed => events'[i].accepted
             /\ ~events'[i].accepted => events'[i].candidate_only
  <2>1. i \in 1 .. Len(events) + n /\ Len(events) \in Nat  BY <1>2, <1>7 DEF LogInv
  <2>2. CASE i <= Len(events)  BY <1>7, <1>8, <2>1, <2>2 DEF LogInv
  <2>3. CASE i > Len(events)
    <3>1. i - Len(events) \in 1 .. n /\ events'[i] = new[i - Len(events)]  BY <1>2, <1>7, <2>1, <2>3
    <3>2. QED  BY <1>3, <1>8, <3>1
  <2>4. QED  BY <2>1, <2>2, <2>3
<1>9. windows' \in Nat  BY DEF Ingest, LogInv
<1>10. Len(events) <= Len(events')  BY <1>2, <1>7 DEF LogInv
<1>11. ASSUME NEW i \in Len(events) + 1 .. Len(events')
       PROVE  \E r \in Files, packet \in BOOLEAN : events'[i] = EventOf(r, packet, i - 1, windows)
  <2>1. Len(events) \in Nat  BY DEF LogInv
  <2>2. i \in Len(events) + 1 .. Len(events) + n  BY <1>7
  <2>3. i - Len(events) \in 1 .. n /\ events'[i] = new[i - Len(events)]  BY <1>2, <1>7, <2>1, <2>2
  <2>4. reports[i - Len(events)] \in Files /\ (i - Len(events) >= firstPacket) \in BOOLEAN  BY <2>3
  <2>5. Len(events) + (i - Len(events)) - 1 = i - 1  BY <2>1, <2>2
  <2>6. QED  BY <1>5, <2>3, <2>4, <2>5
<1>12. QED  BY <1>7, <1>8, <1>9, <1>10, <1>11 DEF LogInv, Continues

(* Only an ingest changes the log, and it keeps the invariant. *)
LEMMA LogSteps ==
  ASSUME LogInv, [Next]_vars
  PROVE  /\ LogInv'
         /\ Ingest \/ UNCHANGED vars
<1>1. CASE Ingest  BY <1>1, IngestContinues
<1>2. CASE UNCHANGED vars  BY <1>2 DEF LogInv, vars
<1>3. QED  BY <1>1, <1>2 DEF Next, Read

(* An ingest of raw events continues the log with raw events only.         *)
LEMMA RawIngestIsRaw ==
  ASSUME LogInv, [Next]_vars, RawIngest
  PROVE  /\ events \in Seq(Event) /\ events' \in Seq(Event)
         /\ RawAfter(events', events)
<1>1. Ingest  BY DEF Next, Read, vars, RawIngest
<1>2. LogInv' /\ Continues(events', events)  BY <1>1, IngestContinues
<1>3. ASSUME NEW i \in Len(events) + 1 .. Len(events')
      PROVE  Raw(events'[i]) /\ ~events'[i].allowed /\ events'[i].candidate_only
  <2>1. Raw(events'[i])  BY DEF RawIngest
  <2>2. i \in DOMAIN events'  BY <1>2 DEF LogInv
  <2>3. QED  BY <1>2, <2>1, <2>2 DEF LogInv, Raw
<1>4. RawAfter(events', events)  BY <1>2, <1>3 DEF RawAfter
<1>5. QED  BY <1>2, <1>4 DEF LogInv

(* The packets of a closure witness contribute.                            *)
LEMMA WitnessOnPositiveNodes ==
  ASSUME NEW es, NEW x \in ClosureWitnesses(es),
         NEW d \in EdgeOf(es, x[1], x[2]).source_node_ids \cup {EdgeOf(es, x[1], x[2]).target_node_id}
  PROVE  NodePositive(es, d)
<1> DEFINE y == es[x[1]].edges[x[2]]
           sources == SourceIds(es, x[1], y)
           target == TargetId(es, x[1], y)
           e == EdgeOf(es, x[1], x[2])
<1>1. /\ e.source_node_ids = IF sources = {} THEN {es[x[1]].body} ELSE sources
      /\ e.target_node_id = target
  BY DEF EdgeOf
<1>2. e.positive /\ target \in e.source_node_ids
  BY <1>1 DEF ClosureWitnesses, PositiveEdges
<1>3. \A c \in sources \cup {target} : NodePositive(es, c)
  BY <1>2 DEF EdgeOf
<1> HIDE DEF sources, target, e
<1>4. CASE sources = {}
  <2>1. d = target  BY <1>1, <1>2, <1>4 DEF e
  <2>2. QED  BY <1>3, <2>1
<1>5. CASE sources # {}
  <2>1. d \in sources \cup {target}  BY <1>1, <1>5 DEF e
  <2>2. QED  BY <1>3, <2>1
<1>6. QED  BY <1>4, <1>5

(* Every packet of a closure witness contributes positively by itself,     *)
(* also where references do not resolve and an edge falls back on its own  *)
(* node.                                                                   *)
THEOREM ClosureStandsOnPositiveNodes == Spec => []ClosureOnPositiveNodes
<1>1. ClosureOnPositiveNodes  BY WitnessOnPositiveNodes DEF ClosureOnPositiveNodes
<1>2. QED  BY <1>1, PTL

-----------------------------------------------------------------------------
(* Readings that come back. *)

(* `all` continues `es` with events no report refers to, and whose edges   *)
(* have no evidence.                                                       *)
ReadingsAfter(all, es) ==
  /\ Continues(all, es)
  /\ \A i \in Len(es) + 1 .. Len(all) :
       /\ all[i].body \notin Body
       /\ \A j \in DOMAIN all[i].edges : ~all[i].edges[j].evidence

(* A node that was there contributes as it did. *)
LEMMA PositiveStays ==
  ASSUME NEW es \in Seq(Event), NEW all \in Seq(Event), Continues(all, es),
         NEW d, NEW k \in DOMAIN es, es[k].body = d
  PROVE  NodePositive(all, d) = NodePositive(es, d)
<1>1. First(all, d) = First(es, d) /\ First(es, d) \in DOMAIN es  BY FirstStays, FirstOccurrence
<1>2. DOMAIN es = 1 .. Len(es)  OBVIOUS
<1>3. all[First(all, d)] = es[First(es, d)]  BY <1>1, <1>2 DEF Continues
<1>4. QED  BY <1>3 DEF NodePositive

(* References resolve as they did. *)
LEMMA ReadingsResolveNothing ==
  ASSUME NEW es \in Seq(Event), NEW all \in Seq(Event), ReadingsAfter(all, es),
         NEW i, NEW ref \in Ref
  PROVE  Resolves(all, i, ref) <=> Resolves(es, i, ref)
<1>1. Resolves(es, i, ref) => Resolves(all, i, ref)  BY ResolvesStays DEF ReadingsAfter
<1>2. ASSUME Resolves(all, i, ref) PROVE Resolves(es, i, ref)
  <2>1. PICK k \in DOMAIN all : all[k].body = ref.body  BY <1>2 DEF Resolves
  <2>2. ref.body \in Body  BY DEF Ref
  <2>3. /\ DOMAIN es = 1 .. Len(es) /\ Len(es) \in Nat
        /\ DOMAIN all = 1 .. Len(all) /\ Len(all) \in Nat
    OBVIOUS
  <2>4. k \in 1 .. Len(es)  BY <2>1, <2>2, <2>3 DEF ReadingsAfter
  <2>5. k \in DOMAIN es /\ es[k].body = ref.body  BY <2>1, <2>3, <2>4 DEF ReadingsAfter, Continues
  <2>6. First(all, ref.body) = First(es, ref.body) /\ First(es, ref.body) \in DOMAIN es
    BY <2>5, FirstStays, FirstOccurrence DEF ReadingsAfter
  <2>7. all[First(all, ref.body)] = es[First(es, ref.body)]
    BY <2>3, <2>6 DEF ReadingsAfter, Continues
  <2>8. QED  BY <1>2, <2>5, <2>7 DEF Resolves
<1>3. QED  BY <1>1, <1>2

(* An edge that was there is what it was. *)
LEMMA OldEdgesStay ==
  ASSUME NEW es \in Seq(Event), NEW all \in Seq(Event), ReadingsAfter(all, es),
         NEW i \in DOMAIN es, NEW j \in DOMAIN es[i].edges
  PROVE  /\ i \in DOMAIN all /\ j \in DOMAIN all[i].edges
         /\ EdgeOf(all, i, j) = EdgeOf(es, i, j)
<1> DEFINE x == es[i].edges[j]
           sources == SourceIds(es, i, x)
           target == TargetId(es, i, x)
<1>1. /\ DOMAIN es = 1 .. Len(es) /\ Len(es) \in Nat
      /\ DOMAIN all = 1 .. Len(all) /\ Len(all) \in Nat
  OBVIOUS
<1>2. all[i] = es[i] /\ i \in DOMAIN all  BY <1>1 DEF ReadingsAfter, Continues
<1>3. x.sources \subseteq Ref /\ x.target \in Ref \cup {None}
  <2>0. es[i] \in Event  OBVIOUS
  <2>1. es[i].edges \in Seq(EdgeData)  BY <2>0 DEF Event
  <2>2. x \in EdgeData  BY <2>1
  <2>3. QED  BY <2>2 DEF EdgeData
<1>4. \A ref \in x.sources : Resolves(all, i, ref) <=> Resolves(es, i, ref)
  BY <1>3, ReadingsResolveNothing
<1>5. SourceIds(all, i, x) = sources  BY <1>4 DEF SourceIds
<1>6. x.target # None => (Resolves(all, i, x.target) <=> Resolves(es, i, x.target))
  BY <1>3, ReadingsResolveNothing
<1>7. TargetId(all, i, x) = target  BY <1>2, <1>6 DEF TargetId
<1>8. \A d \in sources \cup {target} : NodePositive(all, d) = NodePositive(es, d)
  <2> SUFFICES ASSUME NEW d \in sources \cup {target}
               PROVE  NodePositive(all, d) = NodePositive(es, d)  OBVIOUS
  <2>1. \E k \in DOMAIN es : es[k].body = d  BY DEF SourceIds, TargetId, Resolves
  <2>2. QED  BY <2>1, PositiveStays DEF ReadingsAfter
<1>9. (\A d \in sources \cup {target} : NodePositive(all, d))
        = (\A d \in sources \cup {target} : NodePositive(es, d))
  BY <1>8
<1> HIDE DEF sources, target
<1>10. EdgeOf(all, i, j) = EdgeOf(es, i, j)  BY <1>2, <1>5, <1>7, <1>9 DEF EdgeOf, sources, target
<1>11. QED  BY <1>2, <1>10

(* No new edge counts, every old one does as before. *)
LEMMA ReadingsAddNoEdge ==
  ASSUME NEW es \in Seq(Event), NEW all \in Seq(Event), ReadingsAfter(all, es)
  PROVE  /\ PositiveEdges(all) = PositiveEdges(es)
         /\ ClosureWitnesses(all) = ClosureWitnesses(es)
         /\ ClosureDefects(es) \subseteq ClosureDefects(all)
<1>1. /\ DOMAIN es = 1 .. Len(es) /\ Len(es) \in Nat
      /\ DOMAIN all = 1 .. Len(all) /\ Len(all) \in Nat
  OBVIOUS
<1>2. ASSUME NEW x \in EdgePlaces(es)
      PROVE  x \in EdgePlaces(all) /\ EdgeOf(all, x[1], x[2]) = EdgeOf(es, x[1], x[2])
  <2>1. PICK i \in DOMAIN es : \E j \in DOMAIN es[i].edges : x = <<i, j>>  BY DEF EdgePlaces
  <2>2. PICK j \in DOMAIN es[i].edges : x = <<i, j>>  BY <2>1
  <2>3. /\ i \in DOMAIN all /\ j \in DOMAIN all[i].edges
        /\ EdgeOf(all, i, j) = EdgeOf(es, i, j)
    BY OldEdgesStay
  <2>4. QED  BY <2>2, <2>3 DEF EdgePlaces
<1>3. ASSUME NEW x \in EdgePlaces(all), EdgeOf(all, x[1], x[2]).positive
      PROVE  x \in EdgePlaces(es)
  <2>1. PICK i \in DOMAIN all : \E j \in DOMAIN all[i].edges : x = <<i, j>>  BY DEF EdgePlaces
  <2>2. PICK j \in DOMAIN all[i].edges : x = <<i, j>>  BY <2>1
  <2>3. all[i].edges[j].evidence  BY <1>3, <2>2 DEF EdgeOf
  <2>4. i \in 1 .. Len(es)
    <3> SUFFICES ASSUME i \notin 1 .. Len(es) PROVE FALSE  OBVIOUS
    <3>1. i \in Len(es) + 1 .. Len(all)  BY <1>1
    <3>2. QED  BY <2>3, <3>1 DEF ReadingsAfter
  <2>5. all[i] = es[i]  BY <2>4 DEF ReadingsAfter, Continues
  <2>6. QED  BY <1>1, <2>2, <2>4, <2>5 DEF EdgePlaces
<1>4. PositiveEdges(all) = PositiveEdges(es)  BY <1>2, <1>3 DEF PositiveEdges
<1>5. \A x \in PositiveEdges(es) : EdgeOf(all, x[1], x[2]) = EdgeOf(es, x[1], x[2])
  BY <1>2 DEF PositiveEdges
<1>6. ClosureWitnesses(all) = ClosureWitnesses(es)  BY <1>4, <1>5 DEF ClosureWitnesses
<1>7. ClosureDefects(es) \subseteq ClosureDefects(all)  BY <1>2 DEF ClosureDefects
<1>8. QED  BY <1>4, <1>6, <1>7

(* A file that is not a given report holds no edge with evidence. *)
LEMMA ReadingsHaveNoEvidence ==
  ASSUME NEW r \in Files, r.body \notin Body
  PROVE  \A j \in DOMAIN r.edges : ~r.edges[j].evidence
<1>1. r \in Printed  BY GraphAssumption DEF Files
<1>2. PICK by \in Readings, w \in 0 .. windows - 1, whole \in BOOLEAN :
        r = ReadingOf(Window(w, whole), [by |-> by, win |-> w, whole |-> whole])
  BY <1>1 DEF Printed
<1> DEFINE es == Window(w, whole)
           digest == [by |-> by, win |-> w, whole |-> whole]
<1>3. digest.by \in Reading  BY LoopAssumption
<1> HIDE DEF es
<1>4. CASE digest.by = "graph"
  <2>1. r = GraphReport(es, digest)  BY <1>2, <1>4 DEF ReadingOf, es
  <2>2. r.edges = EdgesAgain(es)  BY <2>1 DEF GraphReport, PlainReport
  <2>3. QED  BY <2>2 DEF EdgesAgain, EdgeAgain
<1>5. CASE digest.by # "graph"
  <2>1. r.edges = <<>>
    BY <1>2, <1>3, <1>5 DEF ReadingOf, Reading, ClosureReport, ObservationReport,
                           BottleneckReport, QueueReport, PlainReport
  <2>2. QED  BY <2>1
<1>6. QED  BY <1>4, <1>5

(* Readings that are ingested again, of any window and any time, make no   *)
(* edge count, neither theirs nor another, and certify no closure.         *)
THEOREM FeedbackIsInert == Spec => FeedbackAddsNoEdge
<1>1. Init => LogInv  BY DEF Init, LogInv
<1>2. LogInv /\ [Next]_vars => LogInv'  BY LogSteps
<1>3. LogInv /\ [Next]_vars
        => [Feedback => /\ PositiveEdges(events') = PositiveEdges(events)
                        /\ ClosureWitnesses(events') = ClosureWitnesses(events)
                        /\ ClosureAccepted(events') => ClosureAccepted(events)]_vars
  <2> SUFFICES ASSUME LogInv, [Next]_vars, Feedback
               PROVE  /\ PositiveEdges(events') = PositiveEdges(events)
                      /\ ClosureWitnesses(events') = ClosureWitnesses(events)
                      /\ ClosureAccepted(events') => ClosureAccepted(events)
    OBVIOUS
  <2>1. Ingest
    <3>1. ~UNCHANGED vars  BY DEF Feedback, vars, LogInv
    <3>2. QED  BY <3>1, LogSteps
  <2>2. LogInv' /\ Continues(events', events)  BY <2>1, IngestContinues
  <2>3. ASSUME NEW i \in Len(events) + 1 .. Len(events')
        PROVE  /\ events'[i].body \notin Body
               /\ \A j \in DOMAIN events'[i].edges : ~events'[i].edges[j].evidence
    <3>1. events'[i].body \notin Body  BY DEF Feedback
    <3>2. PICK r \in Files : events'[i].body = r.body /\ events'[i].edges = r.edges
      <4>1. PICK r \in Files, packet \in BOOLEAN : events'[i] = EventOf(r, packet, i - 1, windows)
        BY <2>1, IngestContinues
      <4>2. events'[i].body = r.body /\ events'[i].edges = r.edges  BY <4>1 DEF EventOf
      <4>3. QED  BY <4>2
    <3>3. \A j \in DOMAIN r.edges : ~r.edges[j].evidence  BY <3>1, <3>2, ReadingsHaveNoEvidence
    <3>4. QED  BY <3>1, <3>2, <3>3
  <2>4. ReadingsAfter(events', events)  BY <2>2, <2>3 DEF ReadingsAfter
  <2>5. events \in Seq(Event) /\ events' \in Seq(Event)  BY <2>2 DEF LogInv
  <2>6. /\ PositiveEdges(events') = PositiveEdges(events)
        /\ ClosureWitnesses(events') = ClosureWitnesses(events)
        /\ ClosureDefects(events) \subseteq ClosureDefects(events')
    BY <2>4, <2>5, ReadingsAddNoEdge
  <2>7. QED  BY <2>6 DEF ClosureAccepted
<1>4. QED  BY <1>1, <1>2, <1>3, PTL DEF Spec, FeedbackAddsNoEdge

-----------------------------------------------------------------------------
(* The queue. *)

(* The greater of a number and one. *)
LEMMA AtLeastOne ==
  ASSUME NEW n \in Nat
  PROVE  Max({1, n}) = IF n = 0 THEN 1 ELSE n
<1> DEFINE m == IF n = 0 THEN 1 ELSE n
<1>1. m \in {1, n} /\ \A y \in {1, n} : m >= y  OBVIOUS
<1>2. \A x \in {1, n} : (\A y \in {1, n} : x >= y) => x = m  OBVIOUS
<1> HIDE DEF m
<1>3. Max({1, n}) = m  BY <1>1, <1>2 DEF Max
<1>4. QED  BY <1>3 DEF m

(* Places of a log, and all those that were added.                         *)
LEMMA AddedPlaces ==
  ASSUME NEW n \in Nat, NEW m \in Nat, n <= m, NEW old, old \subseteq 1 .. n
  PROVE  /\ Cardinality(old) \in 0 .. n
         /\ Cardinality(old \cup (n + 1 .. m)) = Cardinality(old) + (m - n)
<1> DEFINE new == n + 1 .. m
<1>1. IsFiniteSet(1 .. n) /\ Cardinality(1 .. n) = n
  <2>1. 1 \in Int /\ n \in Int  OBVIOUS
  <2>2. IsFiniteSet(1 .. n) /\ Cardinality(1 .. n) = IF 1 > n THEN 0 ELSE n - 1 + 1
    BY <2>1, FS_Interval
  <2>3. QED  BY <2>2
<1>2. IsFiniteSet(new) /\ Cardinality(new) = m - n
  <2>1. n + 1 \in Int /\ m \in Int  OBVIOUS
  <2>2. IsFiniteSet(new) /\ Cardinality(new) = IF n + 1 > m THEN 0 ELSE m - (n + 1) + 1
    BY <2>1, FS_Interval
  <2>3. QED  BY <2>2
<1>3. IsFiniteSet(old) /\ Cardinality(old) <= n /\ Cardinality(old) \in Nat
  BY <1>1, FS_Subset, FS_CardinalityType
<1>4. old \cap new = {}  OBVIOUS
<1>5. Cardinality(old \cup new) = Cardinality(old) + (m - n)
  <2> HIDE DEF new
  <2>1. Cardinality(old \cup new) = Cardinality(old) + Cardinality(new) - Cardinality(old \cap new)
    BY <1>2, <1>3, FS_Union
  <2>2. Cardinality(old \cap new) = 0  BY <1>4, FS_EmptySet
  <2>3. m - n \in Nat  OBVIOUS
  <2>4. QED  BY <1>2, <1>3, <2>1, <2>2, <2>3
<1>6. QED  BY <1>3, <1>5

(* Each raw event is one more node that does not contribute. *)
LEMMA RawNodesOccupy ==
  ASSUME NEW es \in Seq(Event), NEW all \in Seq(Event), RawAfter(all, es)
  PROVE  /\ CandidateNodes(es) \subseteq CandidateNodes(all)
         /\ \E c \in 0 .. Len(es) :
              /\ Cardinality(CandidateNodes(es)) = c
              /\ Cardinality(CandidateNodes(all)) = c + (Len(all) - Len(es))
<1> DEFINE n == Len(es)
           m == Len(all)
           old == CandidateNodes(es)
           new == n + 1 .. m
<1>1. /\ DOMAIN es = 1 .. n /\ n \in Nat
      /\ DOMAIN all = 1 .. m /\ m \in Nat /\ n <= m
  BY DEF RawAfter, Continues
<1>2. old \subseteq 1 .. n  BY <1>1 DEF CandidateNodes
<1>3. \A i \in 1 .. n : i \in DOMAIN all /\ all[i] = es[i]  BY <1>1 DEF RawAfter, Continues
<1>4. \A i \in new : i \in DOMAIN all /\ ~Eligible(all[i])  BY <1>1 DEF RawAfter, Eligible
<1>5. CandidateNodes(all) = old \cup new
  <2>1. ASSUME NEW i \in DOMAIN all PROVE i \in 1 .. n \/ i \in new  BY <1>1
  <2>2. \A i \in 1 .. n : i \in DOMAIN es  BY <1>1
  <2>3. QED  BY <1>2, <1>3, <1>4, <2>1, <2>2 DEF CandidateNodes
<1> HIDE DEF old, n, m
<1>6. Cardinality(old) \in 0 .. n /\ Cardinality(old \cup new) = Cardinality(old) + (m - n)
  BY <1>1, <1>2, AddedPlaces
<1>7. QED  BY <1>5, <1>6 DEF old, n, m

(* So the free attention shrinks. *)
LEMMA RawOccupies ==
  ASSUME NEW es \in Seq(Event), NEW all \in Seq(Event), RawAfter(all, es)
  PROVE  /\ AtMost(QueueOccupation(es), QueueOccupation(all))
         /\ ReserveAvailable(all) => ReserveAvailable(es)
<1>1. Len(es) \in Nat /\ Len(all) \in Nat /\ Len(es) <= Len(all)  BY DEF RawAfter, Continues
<1>2. PICK c \in 0 .. Len(es) :
        /\ Cardinality(CandidateNodes(es)) = c
        /\ Cardinality(CandidateNodes(all)) = c + (Len(all) - Len(es))
  BY RawNodesOccupy
<1> DEFINE n == Len(es)
           k == Len(all) - Len(es)
<1>3. c \in Nat /\ n \in Nat /\ k \in Nat /\ c <= n /\ Len(all) = n + k  BY <1>1, <1>2
<1>4. /\ QueueOccupation(es) = <<c, IF n = 0 THEN 1 ELSE n>>
      /\ QueueOccupation(all) = <<c + k, IF n + k = 0 THEN 1 ELSE n + k>>
  BY <1>1, <1>2, <1>3, AtLeastOne DEF QueueOccupation
<1> HIDE DEF n, k
<1>5. CASE n = 0
  <2>1. c = 0  BY <1>3, <1>5
  <2>2. QED  BY <1>3, <1>4, <1>5, <2>1 DEF AtMost, ReserveAvailable
<1>6. CASE n # 0
  <2>1. n + k # 0  BY <1>3, <1>6
  <2>2. c * k <= n * k  BY <1>3
  <2>3. c * (n + k) = c * n + c * k /\ n * (c + k) = c * n + n * k  BY <1>3
  <2>4. c * (n + k) <= (c + k) * n
    <3>1. n * (c + k) = (c + k) * n  BY <1>3
    <3>2. c * n \in Nat /\ c * k \in Nat /\ n * k \in Nat  BY <1>3
    <3>3. QED  BY <2>2, <2>3, <3>1, <3>2
  <2>0. QueueOccupation(es) = <<c, n>> /\ QueueOccupation(all) = <<c + k, n + k>>
    BY <1>4, <1>6, <2>1
  <2>5. AtMost(QueueOccupation(es), QueueOccupation(all))
    <3>1. AtMost(<<c, n>>, <<c + k, n + k>>) <=> c * (n + k) <= (c + k) * n  BY DEF AtMost
    <3>2. QED  BY <2>0, <2>4, <3>1
  <2>6. ReserveAvailable(all) => ReserveAvailable(es)
    BY <1>3, <2>0 DEF ReserveAvailable
  <2>7. QED  BY <2>5, <2>6
<1>7. QED  BY <1>5, <1>6

(* The count of contributing events is a number.                           *)
LEMMA EligibleCount ==
  ASSUME NEW es \in Seq(Event)
  PROVE  Count(es, Eligible) \in Nat
<1> DEFINE Good == {i \in DOMAIN es : Eligible(es[i])}
<1>1. IsFiniteSet(DOMAIN es)  BY DomainFinite
<1>2. IsFiniteSet(Good)  BY <1>1, FS_Subset
<1>3. Cardinality(Good) \in Nat
  <2> HIDE DEF Good
  <2> QED  BY <1>2, FS_CardinalityType
<1>4. QED  BY <1>3 DEF Count

(* No node is released, and a lift needs a node that contributes.          *)
LEMMA RawReleasesNothing ==
  ASSUME NEW es \in Seq(Event), NEW all \in Seq(Event), RawAfter(all, es)
  PROVE  /\ Quarantined(es) \subseteq Quarantined(all)
         /\ Obstructed(es) \subseteq Obstructed(all)
         /\ \A packets \in SUBSET AltPacket :
              LiftStatus(all, packets) = "candidate" => LiftStatus(es, packets) = "candidate"
<1>1. \A i \in DOMAIN es : i \in DOMAIN all /\ all[i] = es[i]  BY DEF RawAfter, Continues
<1>2. CandidateNodes(es) \subseteq CandidateNodes(all)  BY RawNodesOccupy
<1>3. Quarantined(es) \subseteq Quarantined(all)
  <2>1. CandidateNodes(es) \subseteq DOMAIN es  BY DEF CandidateNodes
  <2>2. QED  BY <1>1, <1>2, <2>1 DEF Quarantined
<1>4. Obstructed(es) \subseteq Obstructed(all)  BY <1>1 DEF Obstructed
<1>5. ASSUME NEW packets \in SUBSET AltPacket, LiftStatus(all, packets) = "candidate"
      PROVE  LiftStatus(es, packets) = "candidate"
  <2>1. Count(all, Eligible) <= Count(es, Eligible)  BY RawAddsNoProgress DEF Progress
  <2>2. Count(es, Eligible) \in Nat /\ Count(all, Eligible) \in Nat
    BY EligibleCount
  <2>3. PICK p \in packets : p.accepted /\ p.positive_ecpt_component_lift /\ Count(all, Eligible) > 0
    BY <1>5 DEF LiftStatus, PositiveLifts
  <2>4. Count(es, Eligible) > 0  BY <2>1, <2>2, <2>3
  <2>5. QED  BY <2>3, <2>4 DEF LiftStatus, PositiveLifts
<1>6. QED  BY <1>3, <1>4, <1>5

(* Raw events, whatever the reports, their edges and their order, raise    *)
(* none of the counts of positive contribution; they take attention and    *)
(* free none, release no node and lift nothing.                            *)
THEOREM RawVolumeIsDiagnostic == Spec => RawVolumeAddsNothing
<1> DEFINE Nothing == /\ \A n \in 1 .. 3 : Progress(events')[n] <= Progress(events)[n]
                      /\ Occupies(events, events')
<1>1. Init => LogInv  BY DEF Init, LogInv
<1>2. LogInv /\ [Next]_vars => LogInv'  BY LogSteps
<1>3. LogInv /\ [Next]_vars => [RawIngest => Nothing]_vars
  <2> SUFFICES ASSUME LogInv, [Next]_vars, RawIngest PROVE Nothing  OBVIOUS
  <2>1. /\ events \in Seq(Event) /\ events' \in Seq(Event)
        /\ RawAfter(events', events)
    BY RawIngestIsRaw
  <2>2. \A n \in 1 .. 3 : Progress(events')[n] <= Progress(events)[n]  BY <2>1, RawAddsNoProgress
  <2>3. Occupies(events, events')  BY <2>1, RawOccupies, RawReleasesNothing DEF Occupies
  <2>4. QED  BY <2>2, <2>3
<1>4. QED  BY <1>1, <1>2, <1>3, PTL DEF Spec, RawVolumeAddsNothing
-----------------------------------------------------------------------------
(* The certificates. *)

(* A certificate is a candidate when each of its nine thresholds is met.   *)
LEMMA ThresholdsMet ==
  ASSUME NEW o, NEW t \in ThresholdData
  PROVE  FailedComponents(o, t) = {} <=>
           /\ AtMost(o.false_liquidity_load, t.maximum_false_liquidity_load)
           /\ o.residual_debt <= t.maximum_residual_debt
           /\ AtMost(o.salience_obstruction_load, t.maximum_salience_obstruction)
           /\ o.accepted_packet_count >= t.minimum_accepted_packet_count
           /\ o.alt_certified_capital_count >= t.minimum_alt_to_ecpt_lift_count
           /\ o.closure_witness_count >= t.minimum_closure_witness_count
           /\ o.effective_edge_count >= t.minimum_effective_edge_count
           /\ AtMost(t.minimum_execution_available_path_density, o.reachability_proxy)
           /\ AtMost(t.minimum_verification_throughput, o.throughput_ratio)
<1>1. DOMAIN t = {"maximum_false_liquidity_load", "maximum_residual_debt", "maximum_salience_obstruction",
                  "minimum_accepted_packet_count", "minimum_alt_to_ecpt_lift_count",
                  "minimum_closure_witness_count", "minimum_effective_edge_count",
                  "minimum_execution_available_path_density", "minimum_verification_throughput"}
  BY DEF ThresholdData
<1>2. QED  BY <1>1 DEF FailedComponents

(* Candidates that are added lower no load that was too high.              *)
LEMMA LoadStays ==
  ASSUME NEW c \in Nat, NEW n \in Nat, NEW k \in Nat, c <= n, NEW t \in Ratio,
         AtMost(<<c + k, IF n + k = 0 THEN 1 ELSE n + k>>, t)
  PROVE  AtMost(<<c, IF n = 0 THEN 1 ELSE n>>, t)
<1>1. t[1] \in Nat /\ t[2] \in Nat /\ t[2] > 0  BY DEF Ratio
<1> DEFINE x == t[1]
           y == t[2]
<1>2. x \in Nat /\ y \in Nat /\ y > 0  BY <1>1
<1>3. AtMost(<<c + k, IF n + k = 0 THEN 1 ELSE n + k>>, t) <=> (c + k) * y <= x * (IF n + k = 0 THEN 1 ELSE n + k)
  BY DEF AtMost
<1>4. AtMost(<<c, IF n = 0 THEN 1 ELSE n>>, t) <=> c * y <= x * (IF n = 0 THEN 1 ELSE n)
  BY DEF AtMost
<1> HIDE DEF x, y
<1>5. CASE n = 0
  <2>1. c = 0 /\ c * y = 0  BY <1>2, <1>5
  <2>2. QED  BY <1>2, <1>4, <1>5, <2>1
<1>6. CASE n # 0
  <2>1. (c + k) * y <= x * (n + k)  BY <1>3, <1>6
  <2>2. SUFFICES ASSUME ~(c * y <= x * n) PROVE FALSE  BY <1>4, <1>6
  <2>3. c * y <= n * y  BY <1>2
  <2>4. x * n < n * y  BY <1>2, <2>2, <2>3
  <2>5. x < y
    <3> SUFFICES ASSUME y <= x PROVE FALSE  BY <1>2
    <3>1. n * y <= n * x /\ n * x = x * n  BY <1>2
    <3>2. QED  BY <1>2, <2>4, <3>1
  <2>6. x * k <= k * y
    <3>1. k * x <= k * y /\ k * x = x * k  BY <1>2, <2>5
    <3>2. QED  BY <1>2, <3>1
  <2>7. (c + k) * y = c * y + k * y /\ x * (n + k) = x * n + x * k  BY <1>2
  <2>8. c * y \in Nat /\ k * y \in Nat /\ x * n \in Nat /\ x * k \in Nat  BY <1>2
  <2>9. QED  BY <2>1, <2>2, <2>6, <2>7, <2>8
<1>7. QED  BY <1>5, <1>6

(* Nor do more events raise a share that was too low.                      *)
LEMMA ShareStays ==
  ASSUME NEW a \in Nat, NEW p \in Nat, NEW q \in Nat, p <= q, NEW t \in Ratio, AtMost(t, <<a, q>>)
  PROVE  AtMost(t, <<a, p>>)
<1>1. t[1] \in Nat /\ t[2] \in Nat  BY DEF Ratio
<1>2. AtMost(t, <<a, q>>) <=> t[1] * q <= a * t[2]  BY DEF AtMost
<1>3. AtMost(t, <<a, p>>) <=> t[1] * p <= a * t[2]  BY DEF AtMost
<1> DEFINE x == t[1]
           z == a * t[2]
<1>4. x \in Nat /\ z \in Nat /\ x * q <= z  BY <1>1, <1>2
<1> HIDE DEF x, z
<1>5. x * p <= x * q  BY <1>4
<1>6. x * p \in Nat /\ x * q \in Nat  BY <1>4
<1>7. x * p <= z  BY <1>4, <1>5, <1>6
<1>8. QED  BY <1>3, <1>7 DEF x, z

(* The residuals of a log are those of its beginning and of the rest.      *)
LEMMA ResidualsGrow ==
  ASSUME NEW es \in Seq(Event), NEW all \in Seq(Event), Continues(all, es),
         \A i \in DOMAIN all : all[i].residual >= 0
  PROVE  /\ Observation(es).residual_debt \in Int
         /\ Observation(all).residual_debt \in Int
         /\ Observation(es).residual_debt <= Observation(all).residual_debt
<1> DEFINE f == [i \in DOMAIN es |-> es[i].residual]
           g == [i \in DOMAIN all |-> all[i].residual]
           A == DOMAIN es
           S == DOMAIN all
<1>1. Observation(es).residual_debt = SumFunctionOnSet(f, A) /\ Observation(all).residual_debt = SumFunctionOnSet(g, S)
  BY DEF Observation, SumFunction
<1>2. IsFiniteSet(A) /\ IsFiniteSet(S) /\ IsFiniteSet(S \ A)
  <2>1. IsFiniteSet(A) /\ IsFiniteSet(S)  BY DomainFinite
  <2>2. QED  BY <2>1, FS_Subset
<1>3. A \subseteq S /\ \A i \in A : all[i] = es[i]  BY DEF Continues
<1>4. \A i \in S : g[i] \in Int /\ g[i] >= 0
  <2>1. \A i \in S : all[i] \in Event  OBVIOUS
  <2>2. QED  BY <2>1 DEF Event
<1>5. \A i \in A : g[i] \in Int /\ f[i] = g[i]  BY <1>3, <1>4
<1> HIDE DEF f, g, A, S
<1>6. SumFunctionOnSet(f, A) = SumFunctionOnSet(g, A)  BY <1>2, <1>5, SumEqual
<1>7. SumFunctionOnSet(g, S) = SumFunctionOnSet(g, A) + SumFunctionOnSet(g, S \ A)
  BY <1>2, <1>3, <1>4, SumSplit
<1>8. SumFunctionOnSet(g, S \ A) >= 0  BY <1>2, <1>4, SumNonNegative
<1>9. SumFunctionOnSet(g, A) \in Int /\ SumFunctionOnSet(g, S) \in Int /\ SumFunctionOnSet(g, S \ A) \in Int
  <2>1. \A T \in SUBSET S : SumFunctionOnSet(g, T) \in Int  BY <1>2, <1>4, SumRemove
  <2>2. QED  BY <1>3, <2>1
<1>10. QED  BY <1>1, <1>6, <1>7, <1>8, <1>9

(* What is observed with raw events more: fewer counts of contribution, as *)
(* many accepted events, each raw event one more candidate.                *)
LEMMA RawObserved ==
  ASSUME NEW es \in Seq(Event), NEW all \in Seq(Event), RawAfter(all, es)
  PROVE  /\ Count(all, Accepted) = Count(es, Accepted) /\ Count(es, Accepted) \in Nat
         /\ Observation(all).alt_certified_capital_count = Observation(es).alt_certified_capital_count
         /\ \E c \in 0 .. Len(es) :
              /\ Count(es, CandidateOnly) = c
              /\ Count(all, CandidateOnly) = c + (Len(all) - Len(es))
<1> DEFINE n == Len(es)
           m == Len(all)
           old == {i \in DOMAIN es : CandidateOnly(es[i])}
           new == n + 1 .. m
           capital(s) == {i \in DOMAIN s : s[i].kind = "alt" /\ s[i].allowed}
           taken(s) == {i \in DOMAIN s : Accepted(s[i])}
<1>1. /\ DOMAIN es = 1 .. n /\ n \in Nat
      /\ DOMAIN all = 1 .. m /\ m \in Nat /\ n <= m
  BY DEF RawAfter, Continues
<1>2. \A i \in 1 .. n : i \in DOMAIN all /\ i \in DOMAIN es /\ all[i] = es[i]
  BY <1>1 DEF RawAfter, Continues
<1>3. \A i \in new : i \in DOMAIN all /\ ~all[i].accepted /\ ~all[i].allowed /\ all[i].candidate_only
  BY <1>1 DEF RawAfter, Raw
<1>4. \A i \in DOMAIN all : i \in 1 .. n \/ i \in new  BY <1>1
<1>5. taken(all) = taken(es)
  BY <1>1, <1>2, <1>3, <1>4 DEF Accepted
<1>6. capital(all) = capital(es)
  BY <1>1, <1>2, <1>3, <1>4
<1>7. {i \in DOMAIN all : CandidateOnly(all[i])} = old \cup new
  BY <1>1, <1>2, <1>3, <1>4 DEF CandidateOnly
<1>8. old \subseteq 1 .. n  BY <1>1
<1>9. Cardinality(taken(es)) \in Nat
  <2>1. IsFiniteSet(DOMAIN es)  BY DomainFinite
  <2>2. IsFiniteSet(taken(es))  BY <2>1, FS_Subset
  <2> HIDE DEF taken
  <2>3. QED  BY <2>2, FS_CardinalityType
<1>10. Observation(all).alt_certified_capital_count = Observation(es).alt_certified_capital_count
  BY <1>6 DEF Observation, Count
<1>11. Count(all, Accepted) = Count(es, Accepted) /\ Count(es, Accepted) \in Nat
  BY <1>5, <1>9 DEF Count
<1>12. Cardinality(old) \in 0 .. n /\ Cardinality(old \cup new) = Cardinality(old) + (m - n)
  <2> HIDE DEF old, n, m
  <2>1. QED  BY <1>1, <1>8, AddedPlaces
<1>13. Count(es, CandidateOnly) = Cardinality(old) /\ Count(all, CandidateOnly) = Cardinality(old \cup new)
  BY <1>7 DEF Count
<1>14. QED  BY <1>10, <1>11, <1>12, <1>13

(* So the observation of the longer log meets no threshold that that of    *)
(* the shorter one does not.                                               *)
LEMMA RawCertifiesNothing ==
  ASSUME NEW es \in Seq(Event), NEW all \in Seq(Event), RawAfter(all, es),
         \A i \in DOMAIN all : all[i].residual >= 0,
         NEW t \in ThresholdData, FailedComponents(Observation(all), t) = {}
  PROVE  FailedComponents(Observation(es), t) = {}
<1> DEFINE o == Observation(es)
           p == Observation(all)
           n == Len(es)
           k == Len(all) - Len(es)
           a == Count(es, Accepted)
<1>1. n \in Nat /\ k \in Nat /\ Len(all) = n + k  BY DEF RawAfter, Continues
<1>2. PICK c \in 0 .. n : Count(es, CandidateOnly) = c /\ Count(all, CandidateOnly) = c + k
  BY RawObserved
<1>3. a \in Nat /\ Count(all, Accepted) = a /\ p.alt_certified_capital_count = o.alt_certified_capital_count
  BY RawObserved
<1>4. Total(es) = (IF n = 0 THEN 1 ELSE n) /\ Total(all) = (IF n + k = 0 THEN 1 ELSE n + k)
  <2>1. n + k \in Nat  BY <1>1
  <2>2. QED  BY <1>1, <2>1, AtLeastOne DEF Total
<1>5. /\ o.false_liquidity_load = <<c, IF n = 0 THEN 1 ELSE n>>
      /\ p.false_liquidity_load = <<c + k, IF n + k = 0 THEN 1 ELSE n + k>>
      /\ o.salience_obstruction_load = <<c, IF n = 0 THEN 1 ELSE n>>
      /\ p.salience_obstruction_load = <<c + k, IF n + k = 0 THEN 1 ELSE n + k>>
      /\ o.throughput_ratio = <<a, Total(es)>> /\ p.throughput_ratio = <<a, Total(all)>>
      /\ o.accepted_packet_count = a /\ p.accepted_packet_count = a
  BY <1>2, <1>3, <1>4 DEF Observation
<1>6. /\ o.closure_witness_count = Cardinality(ClosureWitnesses(es))
      /\ p.closure_witness_count = Cardinality(ClosureWitnesses(all))
      /\ o.effective_edge_count = Cardinality(PositiveEdges(es))
      /\ p.effective_edge_count = Cardinality(PositiveEdges(all))
      /\ o.reachability_proxy = <<0, Max({1, Count(es, Eligible)})>>
      /\ p.reachability_proxy = <<0, Max({1, Count(all, Eligible)})>>
  BY DEF Observation
<1>7. /\ Cardinality(PositiveEdges(all)) <= Cardinality(PositiveEdges(es))
      /\ Cardinality(ClosureWitnesses(all)) <= Cardinality(ClosureWitnesses(es))
      /\ Count(all, Eligible) <= Count(es, Eligible)
  BY RawAddsNoProgress DEF Progress
<1>8. /\ Cardinality(PositiveEdges(es)) \in Nat /\ Cardinality(PositiveEdges(all)) \in Nat
      /\ Cardinality(ClosureWitnesses(es)) \in Nat /\ Cardinality(ClosureWitnesses(all)) \in Nat
  <2>1. ASSUME NEW s \in Seq(Event)
        PROVE  Cardinality(PositiveEdges(s)) \in Nat /\ Cardinality(ClosureWitnesses(s)) \in Nat
    <3>1. PositiveEdges(s) \subseteq EdgePlaces(s) /\ ClosureWitnesses(s) \subseteq PositiveEdges(s)
      BY DEF PositiveEdges, ClosureWitnesses
    <3>2. IsFiniteSet(PositiveEdges(s)) /\ IsFiniteSet(ClosureWitnesses(s))  BY <3>1, EdgesFinite, FS_Subset
    <3>3. QED  BY <3>2, FS_CardinalityType
  <2>2. QED  BY <2>1
<1>9. o.residual_debt \in Int /\ p.residual_debt \in Int /\ o.residual_debt <= p.residual_debt
  BY ResidualsGrow DEF RawAfter
<1>10. /\ t.maximum_false_liquidity_load \in Ratio /\ t.maximum_salience_obstruction \in Ratio
       /\ t.minimum_execution_available_path_density \in Ratio /\ t.minimum_verification_throughput \in Ratio
       /\ t.maximum_residual_debt \in Int
       /\ t.minimum_closure_witness_count \in Nat /\ t.minimum_effective_edge_count \in Nat
  BY DEF ThresholdData
<1>11. /\ AtMost(p.false_liquidity_load, t.maximum_false_liquidity_load)
       /\ p.residual_debt <= t.maximum_residual_debt
       /\ AtMost(p.salience_obstruction_load, t.maximum_salience_obstruction)
       /\ p.accepted_packet_count >= t.minimum_accepted_packet_count
       /\ p.alt_certified_capital_count >= t.minimum_alt_to_ecpt_lift_count
       /\ p.closure_witness_count >= t.minimum_closure_witness_count
       /\ p.effective_edge_count >= t.minimum_effective_edge_count
       /\ AtMost(t.minimum_execution_available_path_density, p.reachability_proxy)
       /\ AtMost(t.minimum_verification_throughput, p.throughput_ratio)
  BY ThresholdsMet
<1> HIDE DEF o, p, n, k, a
<1>12. c \in Nat /\ c <= n  BY <1>1, <1>2
<1>13. /\ AtMost(o.false_liquidity_load, t.maximum_false_liquidity_load)
       /\ AtMost(o.salience_obstruction_load, t.maximum_salience_obstruction)
  BY <1>1, <1>5, <1>10, <1>11, <1>12, LoadStays
<1>14. AtMost(t.minimum_verification_throughput, o.throughput_ratio)
  <2>1. Total(es) \in Nat /\ Total(all) \in Nat /\ Total(es) <= Total(all)  BY <1>1, <1>4
  <2>2. QED  BY <1>3, <1>5, <1>10, <1>11, <2>1, ShareStays
<1>15. AtMost(t.minimum_execution_available_path_density, o.reachability_proxy)
  <2>1. Count(es, Eligible) \in Nat /\ Count(all, Eligible) \in Nat  BY EligibleCount
  <2> DEFINE x == Max({1, Count(es, Eligible)})
             y == Max({1, Count(all, Eligible)})
             d == t.minimum_execution_available_path_density
  <2>2. x \in Nat /\ y \in Nat /\ y > 0  BY <2>1, AtLeastOne
  <2>3. d[1] \in Nat  BY <1>10 DEF Ratio
  <2>4. AtMost(d, <<0, x>>) <=> d[1] * x <= 0 * d[2]  BY DEF AtMost
  <2>5. AtMost(d, <<0, y>>) <=> d[1] * y <= 0 * d[2]  BY DEF AtMost
  <2>6. d[2] \in Nat  BY <1>10 DEF Ratio
  <2>7. 0 * d[2] = 0  BY <2>6
  <2>8. AtMost(d, <<0, y>>)  BY <1>6, <1>11
  <2> HIDE DEF x, y
  <2>9. d[1] = 0
    <3>1. d[1] * y <= 0  BY <2>5, <2>7, <2>8
    <3>2. ASSUME NEW u \in Nat, u * y <= 0 PROVE u = 0  BY <2>2, <3>2
    <3>3. QED  BY <2>3, <3>1, <3>2
  <2>10. AtMost(d, <<0, x>>)  BY <2>2, <2>4, <2>7, <2>9
  <2>11. QED  BY <1>6, <2>10 DEF x
<1>16. /\ o.residual_debt <= t.maximum_residual_debt
       /\ o.accepted_packet_count >= t.minimum_accepted_packet_count
       /\ o.alt_certified_capital_count >= t.minimum_alt_to_ecpt_lift_count
  BY <1>3, <1>5, <1>9, <1>10, <1>11
<1>17. /\ o.closure_witness_count >= t.minimum_closure_witness_count
       /\ o.effective_edge_count >= t.minimum_effective_edge_count
  BY <1>6, <1>7, <1>8, <1>10, <1>11
<1>18. FailedComponents(o, t) = {}  BY <1>13, <1>14, <1>15, <1>16, <1>17, ThresholdsMet
<1>19. QED  BY <1>18 DEF o

(* An accepted edge without evidence stays one, whatever is added.         *)
LEMMA DefectsStay ==
  ASSUME NEW es \in Seq(Event), NEW all \in Seq(Event), Continues(all, es)
  PROVE  ClosureDefects(es) \subseteq ClosureDefects(all)
<1> SUFFICES ASSUME NEW x \in ClosureDefects(es) PROVE x \in ClosureDefects(all)  OBVIOUS
<1>1. PICK i \in DOMAIN es : \E j \in DOMAIN es[i].edges : x = <<i, j>>  BY DEF ClosureDefects, EdgePlaces
<1>2. PICK j \in DOMAIN es[i].edges : x = <<i, j>>  BY <1>1
<1>3. i \in DOMAIN all /\ all[i] = es[i]  BY DEF Continues
<1>4. x \in EdgePlaces(all)  BY <1>2, <1>3 DEF EdgePlaces
<1>5. /\ EdgeOf(es, i, j).accepted = EdgeOf(all, i, j).accepted
      /\ EdgeOf(es, i, j).evidence_supported = EdgeOf(all, i, j).evidence_supported
  BY <1>3 DEF EdgeOf
<1>6. EdgeOf(es, i, j).accepted /\ ~EdgeOf(es, i, j).evidence_supported  BY <1>2 DEF ClosureDefects
<1>7. QED  BY <1>2, <1>4, <1>5, <1>6 DEF ClosureDefects

(* Raw events, unless one carries a negative residual, turn no abstention  *)
(* of a closure or threshold certificate into a candidate, for any         *)
(* thresholds and any log.                                                 *)
THEOREM RawVolumeCertifiesNothing == Spec => RawVolumeNeverCertifies
<1> DEFINE Calm == RawIngest /\ (\A i \in DOMAIN events' : events'[i].residual >= 0)
           Abstains == /\ ClosureAccepted(events') => ClosureAccepted(events)
                       /\ \A t \in Threshold : CertificateStatus(Observation(events), t) = "abstain" =>
                                                CertificateStatus(Observation(events'), t) = "abstain"
<1>1. Init => LogInv  BY DEF Init, LogInv
<1>2. LogInv /\ [Next]_vars => LogInv'  BY LogSteps
<1>3. LogInv /\ [Next]_vars => [Calm => Abstains]_vars
  <2> SUFFICES ASSUME LogInv, [Next]_vars, Calm PROVE Abstains  OBVIOUS
  <2>1. /\ events \in Seq(Event) /\ events' \in Seq(Event)
        /\ RawAfter(events', events) /\ Continues(events', events)
    BY RawIngestIsRaw DEF RawAfter
  <2>2. ClosureAccepted(events') => ClosureAccepted(events)
    <3>1. ClosureWitnesses(events') \subseteq ClosureWitnesses(events)  BY <2>1, RawAddsNoPlace
    <3>2. ClosureDefects(events) \subseteq ClosureDefects(events')  BY <2>1, DefectsStay
    <3>3. QED  BY <3>1, <3>2 DEF ClosureAccepted
  <2>3. ASSUME NEW t \in Threshold, CertificateStatus(Observation(events'), t) # "abstain"
        PROVE  CertificateStatus(Observation(events), t) # "abstain"
    <3>1. t \in ThresholdData  BY GraphAssumption
    <3>2. FailedComponents(Observation(events'), t) = {}  BY <2>3 DEF CertificateStatus
    <3>3. FailedComponents(Observation(events), t) = {}  BY <2>1, <3>1, <3>2, RawCertifiesNothing
    <3>4. QED  BY <3>3 DEF CertificateStatus
  <2>4. QED  BY <2>2, <2>3
<1>4. QED  BY <1>1, <1>2, <1>3, PTL DEF Spec, RawVolumeNeverCertifies

-----------------------------------------------------------------------------
(* What the log is made of. *)

(* A selected window is a sequence of events of the log.                   *)
LEMMA WindowEvents ==
  ASSUME LogInv, NEW w, NEW whole
  PROVE  /\ Window(w, whole) \in Seq(Event)
         /\ \A k \in DOMAIN Window(w, whole) : \E i \in DOMAIN events : Window(w, whole)[k] = events[i]
<1> DEFINE places == Within(w, whole)
           n == Cardinality(places)
           place == InOrder(places)
<1>1. places \subseteq DOMAIN events  BY DEF Within
<1>2. IsFiniteSet(places) /\ places \subseteq Int
  <2>1. IsFiniteSet(DOMAIN events) /\ DOMAIN events \subseteq Int  BY DomainFinite DEF LogInv
  <2> HIDE DEF places
  <2>2. QED  BY <1>1, <2>1, FS_Subset
<1>3. n \in Nat
  <2> HIDE DEF places
  <2>1. QED  BY <1>2, FS_CardinalityType
<1>4. place \in [1 .. n -> places]
  <2> HIDE DEF places
  <2>1. \E f \in [1 .. n -> places] : \A i, j \in DOMAIN f : i < j => f[i] < f[j]  BY <1>2, Ascending
  <2>2. QED  BY <2>1 DEF InOrder
<1>5. Window(w, whole) = [k \in 1 .. n |-> events[place[k]]]  BY DEF Window
<1> HIDE DEF n, place, places
<1>6. \A k \in 1 .. n : place[k] \in DOMAIN events  BY <1>1, <1>4
<1>7. \A k \in 1 .. n : events[place[k]] \in Event  BY <1>6 DEF LogInv
<1>8. Window(w, whole) \in Seq(Event)  BY <1>3, <1>5, <1>7
<1>9. QED  BY <1>5, <1>6, <1>8

(* The places of a log of finite length are counted by a number.           *)
LEMMA CountsAreNumbers ==
  ASSUME NEW es \in Seq(Event)
  PROVE  /\ Count(es, Accepted) \in Nat /\ Count(es, CandidateOnly) \in Nat /\ Count(es, Eligible) \in Nat
         /\ Observation(es).alt_certified_capital_count \in Nat
         /\ Cardinality(EdgePlaces(es)) \in Nat
         /\ Cardinality(PositiveEdges(es)) \in Nat /\ Cardinality(ClosureWitnesses(es)) \in Nat
<1>1. \A S \in SUBSET DOMAIN es : Cardinality(S) \in Nat
  <2>1. IsFiniteSet(DOMAIN es)  BY DomainFinite
  <2>2. QED  BY <2>1, FS_Subset, FS_CardinalityType
<1>2. Count(es, Accepted) \in Nat
  <2> DEFINE S == {i \in DOMAIN es : Accepted(es[i])}
  <2>1. S \in SUBSET DOMAIN es  OBVIOUS
  <2>2. Count(es, Accepted) = Cardinality(S)  BY DEF Count
  <2> HIDE DEF S
  <2>3. QED  BY <1>1, <2>1, <2>2
<1>3. Count(es, CandidateOnly) \in Nat
  <2> DEFINE S == {i \in DOMAIN es : CandidateOnly(es[i])}
  <2>1. S \in SUBSET DOMAIN es  OBVIOUS
  <2>2. Count(es, CandidateOnly) = Cardinality(S)  BY DEF Count
  <2> HIDE DEF S
  <2>3. QED  BY <1>1, <2>1, <2>2
<1>4. Observation(es).alt_certified_capital_count \in Nat
  <2> DEFINE S == {i \in DOMAIN es : es[i].kind = "alt" /\ es[i].allowed}
  <2>1. S \in SUBSET DOMAIN es  OBVIOUS
  <2>2. Observation(es).alt_certified_capital_count = Cardinality(S)  BY DEF Observation, Count
  <2> HIDE DEF S
  <2>3. QED  BY <1>1, <2>1, <2>2
<1>5. /\ IsFiniteSet(EdgePlaces(es)) /\ IsFiniteSet(PositiveEdges(es)) /\ IsFiniteSet(ClosureWitnesses(es))
  <2>1. PositiveEdges(es) \subseteq EdgePlaces(es) /\ ClosureWitnesses(es) \subseteq PositiveEdges(es)
    BY DEF PositiveEdges, ClosureWitnesses
  <2>2. QED  BY <2>1, EdgesFinite, FS_Subset
<1>6. QED  BY <1>2, <1>3, <1>4, <1>5, EligibleCount, FS_CardinalityType

(* An observation divides by no zero.                                      *)
LEMMA ObservationTyped ==
  ASSUME NEW es \in Seq(Event)
  PROVE  Observation(es) \in ObservationData
<1> DEFINE f == [i \in DOMAIN es |-> es[i].residual]
           o == Observation(es)
<1>1. Total(es) \in Nat \ {0} /\ Max({1, Count(es, Eligible)}) \in Nat \ {0}
  <2>1. Len(es) \in Nat /\ Count(es, Eligible) \in Nat  BY EligibleCount
  <2>2. QED  BY <2>1, AtLeastOne DEF Total
<1>2. SumFunction(f) \in Int
  <2>1. IsFiniteSet(DOMAIN es) /\ DOMAIN f = DOMAIN es  BY DomainFinite
  <2>2. \A i \in DOMAIN es : es[i] \in Event  OBVIOUS
  <2>3. \A i \in DOMAIN es : f[i] \in Int  BY <2>2 DEF Event
  <2> HIDE DEF f
  <2>4. \A T \in SUBSET DOMAIN es : SumFunctionOnSet(f, T) \in Int  BY <2>1, <2>3, SumRemove
  <2>5. QED  BY <2>1, <2>4 DEF SumFunction
<1>3. /\ Count(es, Accepted) \in Nat /\ Count(es, CandidateOnly) \in Nat /\ Count(es, Eligible) \in Nat
      /\ o.alt_certified_capital_count \in Nat
      /\ Cardinality(PositiveEdges(es)) \in Nat /\ Cardinality(ClosureWitnesses(es)) \in Nat
  BY CountsAreNumbers
<1>4. /\ <<Count(es, CandidateOnly), Total(es)>> \in Ratio /\ <<Count(es, Accepted), Total(es)>> \in Ratio
      /\ <<0, Max({1, Count(es, Eligible)})>> \in Ratio
  BY <1>1, <1>3 DEF Ratio
<1>5. PICK c : c = o.alt_certified_capital_count  OBVIOUS
<1>6. o = [accepted_packet_count |-> Count(es, Accepted),
           alt_certified_capital_count |-> c,
           closure_witness_count |-> Cardinality(ClosureWitnesses(es)),
           effective_edge_count |-> Cardinality(PositiveEdges(es)),
           effective_node_count |-> Count(es, Eligible),
           execution_available_path_count |-> 0,
           reachability_proxy |-> <<0, Max({1, Count(es, Eligible)})>>,
           false_liquidity_load |-> <<Count(es, CandidateOnly), Total(es)>>,
           salience_obstruction_load |-> <<Count(es, CandidateOnly), Total(es)>>,
           throughput_ratio |-> <<Count(es, Accepted), Total(es)>>,
           residual_debt |-> SumFunction(f)]
  BY <1>5 DEF Observation
<1>7. c \in Nat  BY <1>3, <1>5
<1> HIDE DEF o, f
<1>8. o \in ObservationData  BY <1>2, <1>3, <1>4, <1>6, <1>7 DEF ObservationData
<1>9. QED  BY <1>8 DEF o

(* Every reading of a log is a report that can be ingested, with the       *)
(* digest of what made it.                                                 *)
LEMMA ReadingTyped ==
  ASSUME NEW es \in Seq(Event), NEW digest \in [by : Reading, win : Nat, whole : BOOLEAN]
  PROVE  ReadingOf(es, digest) \in ReportData /\ ReadingOf(es, digest).body = digest
<1>1. digest \in Digest /\ digest.by \in Reading  BY DEF Digest
<1>2. ASSUME NEW accepted \in BOOLEAN
      PROVE  PlainReport(digest, accepted) \in ReportData /\ PlainReport(digest, accepted).body = digest
  <2>1. <<>> \in Seq(EdgeData)  OBVIOUS
  <2>2. QED  BY <1>1, <2>1 DEF PlainReport, ReportData, Kind
<1>3. CASE digest.by = "graph"
  <2> DEFINE f == [i \in DOMAIN es |-> es[i].missing + es[i].residual]
             plain == PlainReport(digest, es # <<>>)
             n == Cardinality(EdgePlaces(es))
             again == EdgesAgain(es)
  <2>1. SumFunction(f) \in Int
    <3>1. IsFiniteSet(DOMAIN es) /\ DOMAIN f = DOMAIN es  BY DomainFinite
    <3>2. \A i \in DOMAIN es : es[i] \in Event  OBVIOUS
    <3>3. \A i \in DOMAIN es : f[i] \in Int  BY <3>2 DEF Event
    <3> HIDE DEF f
    <3>4. \A T \in SUBSET DOMAIN es : SumFunctionOnSet(f, T) \in Int  BY <3>1, <3>3, SumRemove
    <3>5. QED  BY <3>1, <3>4 DEF SumFunction
  <2>2. again \in Seq(EdgeData)
    <3>1. n \in Nat  BY CountsAreNumbers
    <3>2. ASSUME NEW i, NEW j PROVE EdgeAgain(es, i, j) \in EdgeData
      BY DEF EdgeAgain, EdgeOf, EdgeData
    <3>3. DOMAIN again = 1 .. n /\ \A k \in 1 .. n : again[k] \in EdgeData  BY <3>2 DEF EdgesAgain
    <3>4. again = [k \in 1 .. n |-> again[k]]  BY DEF EdgesAgain
    <3> HIDE DEF again, n
    <3>5. QED  BY <3>1, <3>3, <3>4
  <2>3. plain \in ReportData /\ plain.body = digest  BY <1>2
  <2>4. ReadingOf(es, digest) = [plain EXCEPT !.residual = SumFunction(f), !.edges = again]
    BY <1>3 DEF ReadingOf, GraphReport
  <2> HIDE DEF plain, again, f
  <2>5. QED  BY <2>1, <2>2, <2>3, <2>4 DEF ReportData
<1>4. CASE digest.by = "bit"
  <2> DEFINE plain == PlainReport(digest, TRUE)
  <2>1. plain \in ReportData /\ plain.body = digest  BY <1>2
  <2>2. ReadingOf(es, digest) = [plain EXCEPT !.blocked = (NodeBottlenecks(es) # {})]
    BY <1>4 DEF ReadingOf, BottleneckReport
  <2>3. (NodeBottlenecks(es) # {}) \in BOOLEAN  OBVIOUS
  <2> HIDE DEF plain
  <2>4. QED  BY <2>1, <2>2, <2>3 DEF ReportData
<1>5. CASE digest.by = "closure"
  <2>1. ReadingOf(es, digest) = PlainReport(digest, ClosureAccepted(es))
    BY <1>5 DEF ReadingOf, ClosureReport
  <2>2. ClosureAccepted(es) \in BOOLEAN  BY DEF ClosureAccepted
  <2>3. QED  BY <1>2, <2>1, <2>2
<1>6. CASE digest.by = "observe"
  <2>1. ReadingOf(es, digest) = PlainReport(digest, es # <<>>)
    BY <1>6 DEF ReadingOf, ObservationReport
  <2>2. QED  BY <1>2, <2>1
<1>7. CASE digest.by = "sqot"
  <2>1. ReadingOf(es, digest) = PlainReport(digest, TRUE)
    BY <1>7 DEF ReadingOf, QueueReport
  <2>2. QED  BY <1>2, <2>1
<1>8. QED  BY <1>1, <1>3, <1>4, <1>5, <1>6, <1>7 DEF Reading

(* Each event is what ingest made of a file that there is, under its       *)
(* number and an earlier window's.                                         *)
MadeOfFiles ==
  \A i \in DOMAIN events :
    /\ events[i].win \in 0 .. windows - 1
    /\ \E r \in Files, packet \in BOOLEAN : events[i] = EventOf(r, packet, i - 1, events[i].win)

(* A window that was there is left as it is, so what was printed of it can *)
(* be printed again.                                                       *)
LEMMA FilesStay ==
  ASSUME LogInv, MadeOfFiles, Ingest
  PROVE  /\ Files \subseteq Files'
         /\ \A i \in DOMAIN events' : i \in DOMAIN events \/ events'[i].win = windows
<1>1. LogInv' /\ Continues(events', events)  BY IngestContinues
<1>2. /\ events \in Seq(Event) /\ events' \in Seq(Event) /\ windows \in Nat /\ windows' = windows + 1
  BY <1>1 DEF LogInv, Ingest
<1>3. /\ DOMAIN events = 1 .. Len(events) /\ Len(events) \in Nat
      /\ DOMAIN events' = 1 .. Len(events') /\ Len(events') \in Nat
      /\ \A i \in DOMAIN events : i \in DOMAIN events' /\ events'[i] = events[i]
  BY <1>1, <1>2 DEF Continues
<1>4. ASSUME NEW i \in DOMAIN events', i \notin DOMAIN events PROVE events'[i].win = windows
  <2>1. i \in Len(events) + 1 .. Len(events')  BY <1>3, <1>4
  <2>2. PICK r \in Files, packet \in BOOLEAN : events'[i] = EventOf(r, packet, i - 1, windows)
    BY <2>1, IngestContinues
  <2>3. QED  BY <2>2 DEF EventOf
<1>5. ASSUME NEW w \in 0 .. windows - 1, NEW whole \in BOOLEAN
      PROVE  Window(w, whole)' = Window(w, whole)
  <2>1. w < windows /\ w \in Nat  BY <1>2
  <2>2. Within(w, whole)' = Within(w, whole)
    <3>1. \A i \in DOMAIN events' : i \notin DOMAIN events => ~(events'[i].win = w \/ (whole /\ events'[i].win < w))
      BY <1>2, <1>4, <2>1
    <3>2. QED  BY <1>3, <3>1 DEF Within
  <2> DEFINE places == Within(w, whole)
             n == Cardinality(places)
             place == InOrder(places)
  <2>3. Window(w, whole) = [k \in 1 .. n |-> events[place[k]]]  BY DEF Window
  <2>4. Window(w, whole)' = [k \in 1 .. n |-> events'[place[k]]]  BY <2>2 DEF Window
  <2>5. \A k \in 1 .. n : place[k] \in DOMAIN events
    <3>1. places \subseteq DOMAIN events  BY DEF Within
    <3>2. IsFiniteSet(places) /\ places \subseteq Int
      <4>1. IsFiniteSet(DOMAIN events) /\ DOMAIN events \subseteq Int  BY <1>2, DomainFinite
      <4> HIDE DEF places
      <4>2. QED  BY <3>1, <4>1, FS_Subset
    <3> HIDE DEF places
    <3>3. \E f \in [1 .. n -> places] : \A i, j \in DOMAIN f : i < j => f[i] < f[j]  BY <3>2, Ascending
    <3>4. place \in [1 .. n -> places]  BY <3>3 DEF InOrder
    <3>5. QED  BY <3>1, <3>4
  <2> HIDE DEF n, place
  <2>6. QED  BY <1>3, <2>3, <2>4, <2>5
<1>6. ASSUME NEW r \in Files PROVE r \in Files'
  <2>1. CASE r \in Report  BY <2>1 DEF Files
  <2>2. CASE r \in Printed
    <3>1. PICK by \in Readings, w \in 0 .. windows - 1, whole \in BOOLEAN :
            r = ReadingOf(Window(w, whole), [by |-> by, win |-> w, whole |-> whole])
      BY <2>2 DEF Printed
    <3>2. Window(w, whole)' = Window(w, whole)  BY <1>5
    <3>3. w \in 0 .. windows' - 1  BY <1>2
    <3>4. r = ReadingOf(Window(w, whole)', [by |-> by, win |-> w, whole |-> whole])  BY <3>1, <3>2
    <3>5. r \in Printed'  BY <3>3, <3>4 DEF Printed
    <3>6. QED  BY <3>5 DEF Files
  <2>3. QED  BY <2>1, <2>2 DEF Files
<1>7. QED  BY <1>4, <1>6

(* So the log stays made of files.                                         *)
LEMMA MadeSteps ==
  ASSUME LogInv, MadeOfFiles, [Next]_vars
  PROVE  MadeOfFiles'
<1>1. CASE Ingest
  <2>1. LogInv' /\ Continues(events', events)  BY <1>1, IngestContinues
  <2>2. /\ events \in Seq(Event) /\ events' \in Seq(Event) /\ windows \in Nat /\ windows' = windows + 1
    BY <1>1, <2>1 DEF LogInv, Ingest
  <2>3. SUFFICES ASSUME NEW i \in DOMAIN events'
                 PROVE  /\ events'[i].win \in 0 .. windows' - 1
                        /\ \E r \in Files', packet \in BOOLEAN : events'[i] = EventOf(r, packet, i - 1, events'[i].win)
    BY DEF MadeOfFiles
  <2>4. Files \subseteq Files'  BY <1>1, FilesStay
  <2>5. CASE i \in DOMAIN events
    <3>1. events'[i] = events[i]  BY <2>1, <2>2, <2>5 DEF Continues
    <3>2. events[i].win \in 0 .. windows' - 1  BY <2>2, <2>5 DEF MadeOfFiles
    <3>3. PICK r \in Files, packet \in BOOLEAN : events[i] = EventOf(r, packet, i - 1, events[i].win)
      BY <2>5 DEF MadeOfFiles
    <3>4. QED  BY <2>4, <3>1, <3>2, <3>3
  <2>6. CASE i \notin DOMAIN events
    <3>1. i \in Len(events) + 1 .. Len(events')  BY <2>2, <2>6
    <3>2. PICK r \in Files, packet \in BOOLEAN : events'[i] = EventOf(r, packet, i - 1, windows)
      BY <1>1, <3>1, IngestContinues
    <3>3. events'[i].win = windows  BY <3>2 DEF EventOf
    <3>4. QED  BY <2>2, <2>4, <3>2, <3>3
  <2>7. QED  BY <2>5, <2>6
<1>2. CASE UNCHANGED vars
  <2>1. events' = events /\ windows' = windows  BY <1>2 DEF vars
  <2>2. \A w, whole : Window(w, whole)' = Window(w, whole)  BY <2>1 DEF Window, Within
  <2>3. Printed' = Printed  BY <2>1, <2>2 DEF Printed
  <2>4. Files' = Files  BY <2>3 DEF Files
  <2>5. QED  BY <2>1, <2>4 DEF MadeOfFiles
<1>3. QED  BY <1>1, <1>2, LogSteps

(* Before anything is ingested.                                            *)
LEMMA MadeInitially == Init => LogInv /\ MadeOfFiles
BY DEF Init, LogInv, MadeOfFiles

(* The type invariant of the log, of what is printed of it and of what is  *)
(* observed, for any reports, of any size.                                 *)
THEOREM TypeCorrect == Spec => []TypeOK
<1>1. LogInv /\ MadeOfFiles => TypeOK
  <2> SUFFICES ASSUME LogInv, MadeOfFiles PROVE TypeOK  OBVIOUS
  <2>1. ASSUME NEW i \in DOMAIN events PROVE events[i].pos = i - 1 /\ events[i].win < windows
    <3>1. PICK r \in Files, packet \in BOOLEAN : events[i] = EventOf(r, packet, i - 1, events[i].win)
      BY DEF MadeOfFiles
    <3>2. events[i].pos = i - 1
      <4>1. EventOf(r, packet, i - 1, events[i].win).pos = i - 1  BY DEF EventOf
      <4>2. QED  BY <3>1, <4>1
    <3>3. events[i].win \in 0 .. windows - 1 /\ windows \in Nat  BY DEF MadeOfFiles, LogInv
    <3>4. QED  BY <3>2, <3>3
  <2>2. ASSUME NEW w \in 0 .. windows - 1, NEW whole \in BOOLEAN
        PROVE  /\ Observation(Window(w, whole)) \in ObservationData
               /\ \A by \in Readings :
                    ReadingOf(Window(w, whole), [by |-> by, win |-> w, whole |-> whole]) \in ReportData
    <3>1. Window(w, whole) \in Seq(Event)  BY WindowEvents
    <3>2. w \in Nat  BY DEF LogInv
    <3>3. \A by \in Readings : [by |-> by, win |-> w, whole |-> whole] \in [by : Reading, win : Nat, whole : BOOLEAN]
      BY <3>2, LoopAssumption
    <3> DEFINE es == Window(w, whole)
    <3> HIDE DEF es
    <3>4. es \in Seq(Event)  BY <3>1 DEF es
    <3>5. Observation(es) \in ObservationData  BY <3>4, ObservationTyped
    <3>6. \A by \in Readings : ReadingOf(es, [by |-> by, win |-> w, whole |-> whole]) \in ReportData
      BY <3>3, <3>4, ReadingTyped
    <3>7. QED  BY <3>5, <3>6 DEF es
  <2>3. Printed \subseteq ReportData
    <3> SUFFICES ASSUME NEW r \in Printed PROVE r \in ReportData  OBVIOUS
    <3>1. PICK by \in Readings, w \in 0 .. windows - 1, whole \in BOOLEAN :
            r = ReadingOf(Window(w, whole), [by |-> by, win |-> w, whole |-> whole])
      BY DEF Printed
    <3>2. QED  BY <2>2, <3>1
  <2>4. events \in Seq(Event) /\ windows \in Nat  BY DEF LogInv
  <2>5. QED  BY <2>1, <2>2, <2>3, <2>4 DEF TypeOK
<1>2. LogInv /\ MadeOfFiles /\ [Next]_vars => LogInv' /\ MadeOfFiles'  BY LogSteps, MadeSteps
<1>3. QED  BY <1>1, <1>2, MadeInitially, PTL DEF Spec

-----------------------------------------------------------------------------
(* The readings of a graph against each other. *)

(* Files of one digest are one report.                                     *)
LEMMA SameDigestSameFile ==
  ASSUME LogInv, NEW r \in Files, NEW s \in Files, r.body = s.body
  PROVE  r = s
<1>1. ASSUME NEW q \in Files, q \notin Report
      PROVE  \E by \in Readings, w \in Nat, whole \in BOOLEAN :
               /\ q = ReadingOf(Window(w, whole), [by |-> by, win |-> w, whole |-> whole])
               /\ q.body = [by |-> by, win |-> w, whole |-> whole]
  <2>1. q \in Printed  BY <1>1 DEF Files
  <2>2. PICK by \in Readings, w \in 0 .. windows - 1, whole \in BOOLEAN :
          q = ReadingOf(Window(w, whole), [by |-> by, win |-> w, whole |-> whole])
    BY <2>1 DEF Printed
  <2>3. w \in Nat  BY DEF LogInv
  <2> DEFINE es == Window(w, whole)
             digest == [by |-> by, win |-> w, whole |-> whole]
  <2>4. es \in Seq(Event)  BY WindowEvents
  <2>5. digest \in [by : Reading, win : Nat, whole : BOOLEAN]  BY <2>3, LoopAssumption
  <2>6. q = ReadingOf(es, digest)  BY <2>2
  <2> HIDE DEF es, digest
  <2>7. q.body = digest  BY <2>4, <2>5, <2>6, ReadingTyped
  <2>8. QED  BY <2>2, <2>3, <2>7 DEF digest
<1>2. ASSUME NEW q \in Files, q \notin Report PROVE q.body \in [by : Reading, win : Nat, whole : BOOLEAN]
  <2>1. PICK by \in Readings, w \in Nat, whole \in BOOLEAN : q.body = [by |-> by, win |-> w, whole |-> whole]
    BY <1>1, <1>2
  <2>2. by \in Reading  BY LoopAssumption
  <2>3. QED  BY <2>1, <2>2
<1>3. CASE r \in Report /\ s \in Report  BY <1>3, GraphAssumption
<1>4. CASE r \in Report /\ s \notin Report  BY <1>2, <1>4, GraphAssumption
<1>5. CASE r \notin Report /\ s \in Report  BY <1>2, <1>5, GraphAssumption
<1>6. CASE r \notin Report /\ s \notin Report
  <2>1. PICK by \in Readings, w \in Nat, whole \in BOOLEAN :
          /\ r = ReadingOf(Window(w, whole), [by |-> by, win |-> w, whole |-> whole])
          /\ r.body = [by |-> by, win |-> w, whole |-> whole]
    BY <1>1, <1>6
  <2>2. PICK by2 \in Readings, w2 \in Nat, whole2 \in BOOLEAN :
          /\ s = ReadingOf(Window(w2, whole2), [by |-> by2, win |-> w2, whole |-> whole2])
          /\ s.body = [by |-> by2, win |-> w2, whole |-> whole2]
    BY <1>1, <1>6
  <2>3. by = by2 /\ w = w2 /\ whole = whole2
    <3>1. /\ r.body.by = by /\ r.body.win = w /\ r.body.whole = whole
          /\ s.body.by = by2 /\ s.body.win = w2 /\ s.body.whole = whole2
      BY <2>1, <2>2
    <3>2. QED  BY <3>1
  <2>4. QED  BY <2>1, <2>2, <2>3
<1>7. QED  BY <1>3, <1>4, <1>5, <1>6

(* Copies of one content under one kind contribute alike.                  *)
Alike(es) == \A i, j \in DOMAIN es : es[i].body = es[j].body => (Eligible(es[i]) <=> Eligible(es[j]))

LEMMA CopiesAlike ==
  ASSUME LogInv, MadeOfFiles, NEW i \in DOMAIN events, NEW j \in DOMAIN events,
         events[i].body = events[j].body, events[i].kind = events[j].kind
  PROVE  Eligible(events[i]) <=> Eligible(events[j])
<1>1. PICK r \in Files, packet \in BOOLEAN : events[i] = EventOf(r, packet, i - 1, events[i].win)
  BY DEF MadeOfFiles
<1>2. PICK s \in Files, other \in BOOLEAN : events[j] = EventOf(s, other, j - 1, events[j].win)
  BY DEF MadeOfFiles
<1>3. events[i].body = r.body /\ events[j].body = s.body
  <2>1. EventOf(r, packet, i - 1, events[i].win).body = r.body
        /\ EventOf(s, other, j - 1, events[j].win).body = s.body
    BY DEF EventOf
  <2>2. QED  BY <1>1, <1>2, <2>1
<1>4. r = s  BY <1>3, SameDigestSameFile
<1>5. ASSUME NEW w, NEW n, NEW p \in BOOLEAN
      PROVE  LET e == EventOf(r, p, n, w)
             IN  /\ e.marks = r.marks
                 /\ e.candidate_only = (r.candidate \/ ~r.accepted \/ e.kind \in CandidateKind)
                 /\ e.allowed = (~e.candidate_only /\ ~r.blocked /\ r.missing = 0)
  BY DEF EventOf
<1> DEFINE e == events[i]
           f == events[j]
<1>6. /\ e.marks = r.marks
      /\ e.candidate_only = (r.candidate \/ ~r.accepted \/ e.kind \in CandidateKind)
      /\ e.allowed = (~e.candidate_only /\ ~r.blocked /\ r.missing = 0)
  BY <1>1, <1>5
<1>7. /\ f.marks = r.marks
      /\ f.candidate_only = (r.candidate \/ ~r.accepted \/ f.kind \in CandidateKind)
      /\ f.allowed = (~f.candidate_only /\ ~r.blocked /\ r.missing = 0)
  BY <1>2, <1>4, <1>5
<1>8. e.marks = f.marks /\ e.candidate_only = f.candidate_only /\ e.allowed = f.allowed /\ e.kind = f.kind
  BY <1>6, <1>7
<1> HIDE DEF e, f
<1>9. Eligible(e) <=> Eligible(f)  BY <1>8 DEF Eligible, Blockers
<1>10. QED  BY <1>9 DEF e, f

(* The same in a window.                                                   *)
LEMMA WindowAlike ==
  ASSUME LogInv, MadeOfFiles, NEW w, NEW whole,
         \A i, j \in DOMAIN Window(w, whole) :
           Window(w, whole)[i].body = Window(w, whole)[j].body => Window(w, whole)[i].kind = Window(w, whole)[j].kind
  PROVE  Alike(Window(w, whole))
<1> DEFINE es == Window(w, whole)
<1>1. \A k \in DOMAIN es : \E i \in DOMAIN events : es[k] = events[i]  BY WindowEvents
<1>2. \A i, j \in DOMAIN es : es[i].body = es[j].body => es[i].kind = es[j].kind  OBVIOUS
<1> HIDE DEF es
<1>3. ASSUME NEW i \in DOMAIN es, NEW j \in DOMAIN es, es[i].body = es[j].body
      PROVE  Eligible(es[i]) <=> Eligible(es[j])
  <2>1. PICK k \in DOMAIN events : es[i] = events[k]  BY <1>1
  <2>2. PICK l \in DOMAIN events : es[j] = events[l]  BY <1>1
  <2>3. events[k].kind = events[l].kind  BY <1>2, <1>3, <2>1, <2>2
  <2>4. QED  BY <1>3, <2>1, <2>2, <2>3, CopiesAlike
<1>4. Alike(es)  BY <1>3 DEF Alike
<1>5. QED  BY <1>4 DEF es

(* Among alike copies the first one speaks for each.                       *)
LEMMA PositiveIsEligible ==
  ASSUME NEW es \in Seq(Event), Alike(es), NEW k \in DOMAIN es
  PROVE  NodePositive(es, es[k].body) <=> Eligible(es[k])
<1>1. First(es, es[k].body) \in DOMAIN es /\ es[First(es, es[k].body)].body = es[k].body
  BY FirstOccurrence
<1>2. QED  BY <1>1 DEF Alike, NodePositive

(* A candidate contributes nothing, so it waits in the queue.              *)
LEMMA FalseLiquidityWaits ==
  ASSUME NEW es \in Seq(Event)
  PROVE  AtMost(Observation(es).false_liquidity_load, QueueOccupation(es))
<1> DEFINE S == {i \in DOMAIN es : CandidateOnly(es[i])}
           t == Total(es)
           c == Cardinality(S)
           h == Cardinality(CandidateNodes(es))
<1>1. Observation(es).false_liquidity_load = <<c, t>> /\ QueueOccupation(es) = <<h, t>>
  BY DEF Observation, QueueOccupation, Count, Total
<1>2. S \subseteq CandidateNodes(es)  BY DEF CandidateNodes, CandidateOnly, Eligible, Blockers
<1>3. IsFiniteSet(CandidateNodes(es))
  <2>1. IsFiniteSet(DOMAIN es) /\ CandidateNodes(es) \subseteq DOMAIN es  BY DomainFinite DEF CandidateNodes
  <2>2. QED  BY <2>1, FS_Subset
<1>4. c \in Nat /\ h \in Nat /\ c <= h
  <2> HIDE DEF S
  <2>1. QED  BY <1>2, <1>3, FS_Subset, FS_CardinalityType
<1>5. t \in Nat
  <2>1. Len(es) \in Nat  OBVIOUS
  <2>2. QED  BY <2>1, AtLeastOne DEF Total
<1> HIDE DEF t, c, h
<1>6. c * t <= h * t  BY <1>4, <1>5
<1>7. AtMost(<<c, t>>, <<h, t>>)  BY <1>6 DEF AtMost
<1>8. QED  BY <1>1, <1>7

(* The positive edges and the defects are different accepted edges.        *)
LEMMA PathsMapped ==
  ASSUME NEW es \in Seq(Event)
  PROVE  /\ MappedPaths(es).observed >= Cardinality(PositiveEdges(es)) + Cardinality(ClosureDefects(es))
         /\ ClosureWitnesses(es) \cap ClosureDefects(es) = {}
<1> DEFINE A == {x \in EdgePlaces(es) : EdgeOf(es, x[1], x[2]).accepted}
           B == PositiveEdges(es)
           C == ClosureDefects(es)
<1>1. \A x \in B : x \in EdgePlaces(es) /\ EdgeOf(es, x[1], x[2]).accepted
                   /\ EdgeOf(es, x[1], x[2]).evidence_supported
  BY DEF PositiveEdges, EdgeOf
<1>2. \A x \in C : x \in EdgePlaces(es) /\ EdgeOf(es, x[1], x[2]).accepted
                   /\ ~EdgeOf(es, x[1], x[2]).evidence_supported
  BY DEF ClosureDefects
<1>3. B \cup C \subseteq A /\ B \cap C = {}  BY <1>1, <1>2
<1>4. IsFiniteSet(A) /\ IsFiniteSet(B) /\ IsFiniteSet(C) /\ IsFiniteSet(B \cup C)
  <2>1. A \subseteq EdgePlaces(es) /\ B \subseteq EdgePlaces(es) /\ C \subseteq EdgePlaces(es)
        /\ B \cup C \subseteq EdgePlaces(es)
    BY <1>1, <1>2
  <2> HIDE DEF A, B, C
  <2>2. QED  BY <2>1, EdgesFinite, FS_Subset
<1>5. MappedPaths(es).observed = Cardinality(A)  BY DEF MappedPaths
<1>6. ClosureWitnesses(es) \subseteq B  BY DEF ClosureWitnesses
<1> HIDE DEF A, B, C
<1>7. Cardinality(B \cup C) = Cardinality(B) + Cardinality(C) - Cardinality(B \cap C)  BY <1>4, FS_Union
<1>8. Cardinality(B \cap C) = 0  BY <1>3, FS_EmptySet
<1>9. Cardinality(B \cup C) <= Cardinality(A)  BY <1>3, <1>4, FS_Subset
<1>10. Cardinality(A) \in Nat /\ Cardinality(B) \in Nat /\ Cardinality(C) \in Nat  BY <1>4, FS_CardinalityType
<1>11. Cardinality(A) >= Cardinality(B) + Cardinality(C)  BY <1>7, <1>8, <1>9, <1>10
<1>12. ClosureWitnesses(es) \cap C = {}  BY <1>3, <1>6
<1>13. QED  BY <1>5, <1>11, <1>12 DEF B, C

(* A node with a blocker, or that is no capital, is not one that counts.   *)
LEMMA HeldIsNotCounted ==
  ASSUME NEW es \in Seq(Event), Alike(es), NEW d, NodePositive(es, d)
  PROVE  /\ d \notin Quarantined(es)
         /\ \A x \in NodeBottlenecks(es) : x.id[1] # d
         /\ \A i \in DOMAIN es : es[i].body = d => i \notin Obstructed(es) /\ RebalancePlan(es)[i] = "inspect"
<1>1. ASSUME NEW i \in DOMAIN es, es[i].body = d PROVE Eligible(es[i]) /\ Blockers(es[i]) = {}
  BY <1>1, PositiveIsEligible DEF Eligible
<1>2. d \notin Quarantined(es)  BY <1>1 DEF Quarantined, CandidateNodes
<1>3. ASSUME NEW x \in NodeBottlenecks(es), x.id[1] = d PROVE FALSE
  <2>1. PICK i \in DOMAIN es : \E b \in Blockers(es[i]) :
          x = [node |-> i, blocker |-> b, id |-> <<es[i].body, BottleneckClass(b)>>]
    BY DEF NodeBottlenecks
  <2>2. PICK b \in Blockers(es[i]) : x = [node |-> i, blocker |-> b, id |-> <<es[i].body, BottleneckClass(b)>>]
    BY <2>1
  <2>3. es[i].body = d  BY <1>3, <2>2
  <2>4. QED  BY <1>1, <2>2, <2>3
<1>4. ASSUME NEW i \in DOMAIN es, es[i].body = d
      PROVE  i \notin Obstructed(es) /\ RebalancePlan(es)[i] = "inspect"
  BY <1>1, <1>4 DEF Obstructed, RebalancePlan
<1>5. QED  BY <1>2, <1>3, <1>4

(* The readings of one window.                                             *)
LEMMA WindowHeld ==
  ASSUME NEW es \in Seq(Event)
  PROVE
    LET counted == UNION {LET e == EdgeOf(es, x[1], x[2])
                          IN  e.source_node_ids \cup {e.target_node_id} : x \in ClosureWitnesses(es)}
        inverted == {c.of : c \in InversionCandidates(es)}
    IN  /\ \A d \in counted : NodePositive(es, d)
        /\ AtMost(Observation(es).false_liquidity_load, QueueOccupation(es))
        /\ MappedPaths(es).observed >= Cardinality(PositiveEdges(es)) + Cardinality(ClosureDefects(es))
        /\ {x.edge : x \in inverted \cap EdgeBottlenecks(es)} \cap ClosureWitnesses(es) = {}
        /\ Alike(es)
           => /\ counted \cap Quarantined(es) = {}
              /\ counted \cap {x.id[1] : x \in inverted \cap NodeBottlenecks(es)} = {}
              /\ \A i \in DOMAIN es : es[i].body \in counted
                   => i \notin Obstructed(es) /\ RebalancePlan(es)[i] = "inspect"
<1> DEFINE packets(x) == LET e == EdgeOf(es, x[1], x[2]) IN e.source_node_ids \cup {e.target_node_id}
           counted == UNION {packets(x) : x \in ClosureWitnesses(es)}
           inverted == {c.of : c \in InversionCandidates(es)}
<1>1. \A d \in counted : NodePositive(es, d)
  <2>1. ASSUME NEW d \in counted PROVE NodePositive(es, d)
    <3>1. PICK x \in ClosureWitnesses(es) : d \in packets(x)  OBVIOUS
    <3>2. QED  BY <3>1, WitnessOnPositiveNodes
  <2>2. QED  BY <2>1
<1>2. {x.edge : x \in inverted \cap EdgeBottlenecks(es)} \cap ClosureWitnesses(es) = {}
  <2>1. \A x \in EdgeBottlenecks(es) : x.edge \in ClosureDefects(es)  BY DEF EdgeBottlenecks
  <2> HIDE DEF inverted
  <2>2. QED  BY <2>1, PathsMapped
<1>3. ASSUME Alike(es)
      PROVE  /\ counted \cap Quarantined(es) = {}
             /\ counted \cap {x.id[1] : x \in inverted \cap NodeBottlenecks(es)} = {}
             /\ \A i \in DOMAIN es : es[i].body \in counted
                  => i \notin Obstructed(es) /\ RebalancePlan(es)[i] = "inspect"
  <2> HIDE DEF counted, inverted
  <2>1. \A d \in counted : /\ d \notin Quarantined(es)
                           /\ \A x \in NodeBottlenecks(es) : x.id[1] # d
                           /\ \A i \in DOMAIN es : es[i].body = d
                                => i \notin Obstructed(es) /\ RebalancePlan(es)[i] = "inspect"
    BY <1>1, <1>3, HeldIsNotCounted
  <2>2. QED  BY <2>1
<1>4. QED  BY <1>1, <1>2, <1>3, PathsMapped, FalseLiquidityWaits

(* What one reading of a graph counts, another does not hold back: a       *)
(* closure witness stands on contributing packets, none of them is in      *)
(* quarantine, obstructed, inverted or preserved as a residual (as long as *)
(* no content has two kinds), and the queue holds all false liquidity.     *)
THEOREM CountedIsNotHeld == Spec => []NothingCountedIsHeld
<1>1. LogInv /\ MadeOfFiles => NothingCountedIsHeld
  <2> SUFFICES ASSUME LogInv, MadeOfFiles, NEW w \in 0 .. windows - 1, NEW whole \in BOOLEAN
               PROVE  LET es == Window(w, whole)
                          counted == UNION {LET e == EdgeOf(es, x[1], x[2])
                                            IN  e.source_node_ids \cup {e.target_node_id} : x \in ClosureWitnesses(es)}
                          inverted == {c.of : c \in InversionCandidates(es)}
                      IN  /\ \A d \in counted : NodePositive(es, d)
                          /\ AtMost(Observation(es).false_liquidity_load, QueueOccupation(es))
                          /\ MappedPaths(es).observed >= Cardinality(PositiveEdges(es)) + Cardinality(ClosureDefects(es))
                          /\ {x.edge : x \in inverted \cap EdgeBottlenecks(es)} \cap ClosureWitnesses(es) = {}
                          /\ (\A i, j \in DOMAIN es : es[i].body = es[j].body => es[i].kind = es[j].kind)
                             => /\ counted \cap Quarantined(es) = {}
                                /\ counted \cap {x.id[1] : x \in inverted \cap NodeBottlenecks(es)} = {}
                                /\ \A i \in DOMAIN es : es[i].body \in counted
                                     => i \notin Obstructed(es) /\ RebalancePlan(es)[i] = "inspect"
    BY DEF NothingCountedIsHeld
  <2> DEFINE es == Window(w, whole)
             oneKind == \A i, j \in DOMAIN es : es[i].body = es[j].body => es[i].kind = es[j].kind
  <2>1. es \in Seq(Event)  BY WindowEvents
  <2>2. oneKind => Alike(es)  BY WindowAlike
  <2> HIDE DEF es
  <2>3. QED  BY <2>1, <2>2, WindowHeld DEF es
<1>2. LogInv /\ MadeOfFiles /\ [Next]_vars => LogInv' /\ MadeOfFiles'  BY LogSteps, MadeSteps
<1>3. QED  BY <1>1, <1>2, MadeInitially, PTL DEF Spec

-----------------------------------------------------------------------------
(* The log the other way round. *)

(* `rs` holds the events of `es` from the last to the first, ...           *)
Mirrors(rs, es) == Len(rs) = Len(es) /\ \A i \in 1 .. Len(es) : rs[i] = es[Len(es) + 1 - i]

(* ... no edge of `es` refers by position.                                 *)
ByDigest(es) ==
  \A x \in EdgePlaces(es) :
    LET e == es[x[1]].edges[x[2]]
    IN  \A ref \in e.sources \cup ({e.target} \ {None}) : ref.pos = None

LEMMA ReversedMirrors ==
  ASSUME NEW es \in Seq(Event)
  PROVE  Reversed(es) \in Seq(Event) /\ Mirrors(Reversed(es), es)
<1> DEFINE n == Len(es)
<1>1. n \in Nat /\ DOMAIN es = 1 .. n /\ \A i \in 1 .. n : es[i] \in Event  OBVIOUS
<1> HIDE DEF n
<1>2. \A i \in 1 .. n : n + 1 - i \in 1 .. n  BY <1>1
<1>3. Reversed(es) = [i \in 1 .. n |-> es[n + 1 - i]]  BY <1>1 DEF Reversed, n
<1>4. Reversed(es) \in Seq(Event) /\ Len(Reversed(es)) = n
  BY <1>1, <1>2, <1>3
<1>5. QED  BY <1>3, <1>4 DEF Mirrors, n

(* Both have the same events.                                              *)
LEMMA MirrorPlaces ==
  ASSUME NEW es \in Seq(Event), NEW rs \in Seq(Event), Mirrors(rs, es)
  PROVE  /\ \A i \in DOMAIN es : Len(es) + 1 - i \in DOMAIN rs /\ rs[Len(es) + 1 - i] = es[i]
         /\ \A i \in DOMAIN rs : Len(es) + 1 - i \in DOMAIN es /\ es[Len(es) + 1 - i] = rs[i]
<1> DEFINE n == Len(es)
<1>1. n \in Nat /\ DOMAIN es = 1 .. n /\ DOMAIN rs = 1 .. n  BY DEF Mirrors
<1>2. \A i \in 1 .. n : rs[i] = es[n + 1 - i]  BY DEF Mirrors
<1> HIDE DEF n
<1>3. \A i \in 1 .. n : n + 1 - i \in 1 .. n /\ n + 1 - (n + 1 - i) = i  BY <1>1
<1>4. \A i \in 1 .. n : rs[n + 1 - i] = es[i]  BY <1>2, <1>3
<1>5. QED  BY <1>1, <1>2, <1>3, <1>4 DEF n

LEMMA MirrorAlike ==
  ASSUME NEW es \in Seq(Event), NEW rs \in Seq(Event), Mirrors(rs, es), Alike(es)
  PROVE  Alike(rs)
<1>1. \A i \in DOMAIN rs : \E k \in DOMAIN es : es[k] = rs[i]  BY MirrorPlaces
<1>2. ASSUME NEW i \in DOMAIN rs, NEW j \in DOMAIN rs, rs[i].body = rs[j].body
      PROVE  Eligible(rs[i]) <=> Eligible(rs[j])
  <2>1. PICK k \in DOMAIN es : es[k] = rs[i]  BY <1>1
  <2>2. PICK l \in DOMAIN es : es[l] = rs[j]  BY <1>1
  <2>3. Eligible(es[k]) <=> Eligible(es[l])  BY <1>2, <2>1, <2>2 DEF Alike
  <2>4. QED  BY <2>1, <2>2, <2>3
<1>3. QED  BY <1>2 DEF Alike

(* A node contributes in both or in neither.                               *)
LEMMA MirrorNodes ==
  ASSUME NEW es \in Seq(Event), NEW rs \in Seq(Event), Mirrors(rs, es), Alike(es),
         NEW k \in DOMAIN es
  PROVE  NodePositive(rs, es[k].body) <=> NodePositive(es, es[k].body)
<1>1. PICK l \in DOMAIN rs : rs[l] = es[k]  BY MirrorPlaces
<1>2. NodePositive(rs, rs[l].body) <=> Eligible(rs[l])  BY MirrorAlike, PositiveIsEligible
<1>3. NodePositive(es, es[k].body) <=> Eligible(es[k])  BY PositiveIsEligible
<1>4. QED  BY <1>1, <1>2, <1>3

(* An edge is the same wherever its event stands.                          *)
LEMMA MirrorEdges ==
  ASSUME NEW es \in Seq(Event), NEW rs \in Seq(Event), Mirrors(rs, es), Alike(es),
         NEW i \in DOMAIN es, NEW j \in DOMAIN es[i].edges, NEW k \in DOMAIN rs, rs[k] = es[i],
         LET e == es[i].edges[j] IN \A ref \in e.sources \cup ({e.target} \ {None}) : ref.pos = None
  PROVE  /\ EdgeOf(rs, k, j).positive = EdgeOf(es, i, j).positive
         /\ EdgeOf(rs, k, j).source_node_ids = EdgeOf(es, i, j).source_node_ids
         /\ EdgeOf(rs, k, j).target_node_id = EdgeOf(es, i, j).target_node_id
<1> DEFINE x == es[i].edges[j]
<1>1. \A ref \in x.sources \cup ({x.target} \ {None}) : Resolves(rs, k, ref) <=> Resolves(es, i, ref)
  <2>1. ASSUME NEW d PROVE (\E l \in DOMAIN rs : rs[l].body = d) <=> (\E l \in DOMAIN es : es[l].body = d)
    <3>1. \A l \in DOMAIN es : \E m \in DOMAIN rs : rs[m] = es[l]  BY MirrorPlaces
    <3>2. \A l \in DOMAIN rs : \E m \in DOMAIN es : es[m] = rs[l]  BY MirrorPlaces
    <3>3. QED  BY <3>1, <3>2
  <2>2. QED  BY <2>1 DEF Resolves
<1>2. SourceIds(rs, k, x) = SourceIds(es, i, x)  BY <1>1 DEF SourceIds
<1>3. TargetId(rs, k, x) = TargetId(es, i, x)  BY <1>1 DEF TargetId
<1> DEFINE nodes == SourceIds(es, i, x) \cup {TargetId(es, i, x)}
<1>4. \A d \in nodes : \E l \in DOMAIN es : es[l].body = d
  <2>1. \A ref : Resolves(es, i, ref) => \E l \in DOMAIN es : es[l].body = ref.body  BY DEF Resolves
  <2>2. \A d \in SourceIds(es, i, x) : \E l \in DOMAIN es : es[l].body = d  BY <2>1 DEF SourceIds
  <2>3. \E l \in DOMAIN es : es[l].body = TargetId(es, i, x)  BY <2>1 DEF TargetId
  <2>4. QED  BY <2>2, <2>3
<1>5. \A d \in nodes : NodePositive(rs, d) <=> NodePositive(es, d)
  <2> HIDE DEF nodes
  <2>1. QED  BY <1>4, MirrorNodes
<1>6. rs[k].edges[j] = x /\ rs[k].accepted = es[i].accepted /\ rs[k].body = es[i].body  OBVIOUS
<1> DEFINE supported == (x.accepted \/ es[i].accepted) /\ x.evidence
<1>7. EdgeOf(es, i, j).positive = (supported /\ \A d \in nodes : NodePositive(es, d))  BY DEF EdgeOf
<1>8. EdgeOf(rs, k, j).positive = (supported /\ \A d \in nodes : NodePositive(rs, d))
  BY <1>2, <1>3, <1>6 DEF EdgeOf
<1> HIDE DEF nodes, supported
<1>9. (supported /\ \A d \in nodes : NodePositive(es, d)) = (supported /\ \A d \in nodes : NodePositive(rs, d))
  BY <1>5
<1>10. EdgeOf(rs, k, j).positive = EdgeOf(es, i, j).positive  BY <1>7, <1>8, <1>9
<1> HIDE DEF x
<1>11. EdgeOf(rs, k, j).source_node_ids = EdgeOf(es, i, j).source_node_ids
  BY <1>2, <1>6 DEF EdgeOf, x
<1>12. EdgeOf(rs, k, j).target_node_id = EdgeOf(es, i, j).target_node_id
  BY <1>3, <1>6 DEF EdgeOf, x
<1>13. QED  BY <1>10, <1>11, <1>12

(* So the positive edges, and the closure witnesses among them, are at     *)
(* mirrored places.                                                        *)
LEMMA MirrorMembers ==
  ASSUME NEW es \in Seq(Event), NEW rs \in Seq(Event), Mirrors(rs, es), Alike(es), ByDigest(es),
         NEW i \in DOMAIN es, NEW j \in DOMAIN es[i].edges
  PROVE  /\ <<Len(es) + 1 - i, j>> \in PositiveEdges(rs) <=> <<i, j>> \in PositiveEdges(es)
         /\ <<Len(es) + 1 - i, j>> \in ClosureWitnesses(rs) <=> <<i, j>> \in ClosureWitnesses(es)
<1> DEFINE k == Len(es) + 1 - i
<1>1. k \in DOMAIN rs /\ rs[k] = es[i]  BY MirrorPlaces
<1> HIDE DEF k
<1>2. <<i, j>> \in EdgePlaces(es) /\ <<k, j>> \in EdgePlaces(rs)  BY <1>1 DEF EdgePlaces
<1>3. LET e == es[i].edges[j] IN \A ref \in e.sources \cup ({e.target} \ {None}) : ref.pos = None
  BY <1>2 DEF ByDigest
<1>4. /\ EdgeOf(rs, k, j).positive = EdgeOf(es, i, j).positive
      /\ EdgeOf(rs, k, j).source_node_ids = EdgeOf(es, i, j).source_node_ids
      /\ EdgeOf(rs, k, j).target_node_id = EdgeOf(es, i, j).target_node_id
  BY <1>1, <1>3, MirrorEdges
<1>5. <<k, j>> \in PositiveEdges(rs) <=> <<i, j>> \in PositiveEdges(es)  BY <1>2, <1>4 DEF PositiveEdges
<1>6. <<k, j>> \in ClosureWitnesses(rs) <=> <<i, j>> \in ClosureWitnesses(es)
  BY <1>4, <1>5 DEF ClosureWitnesses
<1>7. QED  BY <1>5, <1>6 DEF k

(* Sets of places that mirror each other have one size.                    *)
LEMMA MirrorSizes ==
  ASSUME NEW es \in Seq(Event), NEW rs \in Seq(Event), Mirrors(rs, es),
         NEW S, S \subseteq EdgePlaces(es), NEW T, T \subseteq EdgePlaces(rs),
         \A i \in DOMAIN es : \A j \in DOMAIN es[i].edges : <<Len(es) + 1 - i, j>> \in T <=> <<i, j>> \in S
  PROVE  Cardinality(T) = Cardinality(S)
<1> DEFINE n == Len(es)
           f == [x \in S |-> <<n + 1 - x[1], x[2]>>]
<1>1. n \in Nat /\ DOMAIN es = 1 .. n /\ DOMAIN rs = 1 .. n  BY DEF Mirrors
<1>2. IsFiniteSet(S)  BY EdgesFinite, FS_Subset
<1>3. ASSUME NEW x \in S
      PROVE  \E i \in 1 .. n : \E j \in DOMAIN es[i].edges : x = <<i, j>> /\ f[x] = <<n + 1 - i, j>> /\ f[x] \in T
  <2>1. PICK i \in DOMAIN es : \E j \in DOMAIN es[i].edges : x = <<i, j>>  BY DEF EdgePlaces
  <2>2. PICK j \in DOMAIN es[i].edges : x = <<i, j>>  BY <2>1
  <2>3. f[x] = <<n + 1 - i, j>>  BY <2>2
  <2>4. f[x] \in T  BY <2>2, <2>3
  <2>5. QED  BY <1>1, <2>2, <2>3, <2>4
<1>4. ASSUME NEW y \in T PROVE \E x \in S : f[x] = y
  <2>1. PICK k \in DOMAIN rs : \E j \in DOMAIN rs[k].edges : y = <<k, j>>  BY DEF EdgePlaces
  <2>2. PICK j \in DOMAIN rs[k].edges : y = <<k, j>>  BY <2>1
  <2>3. n + 1 - k \in DOMAIN es /\ es[n + 1 - k] = rs[k]  BY MirrorPlaces
  <2>4. n + 1 - (n + 1 - k) = k  BY <1>1
  <2>5. <<n + 1 - k, j>> \in S
    <3>1. j \in DOMAIN es[n + 1 - k].edges  BY <2>2, <2>3
    <3>2. <<n + 1 - (n + 1 - k), j>> \in T  BY <2>2, <2>4
    <3>3. QED  BY <2>3, <3>1, <3>2
  <2>6. f[<<n + 1 - k, j>>] = y  BY <2>2, <2>4, <2>5
  <2>7. QED  BY <2>5, <2>6
<1>5. f \in [S -> T] /\ f \in Surjection(S, T)
  <2>1. \A x \in S : f[x] \in T  BY <1>3
  <2>2. f \in [S -> T]  BY <2>1
  <2>3. QED  BY <1>4, <2>2 DEF Surjection
<1>6. \A x, y \in S : f[x] = f[y] => x = y
  <2> SUFFICES ASSUME NEW x \in S, NEW y \in S, f[x] = f[y] PROVE x = y  OBVIOUS
  <2> HIDE DEF f, n
  <2>1. PICK i \in 1 .. n : \E j \in DOMAIN es[i].edges : x = <<i, j>> /\ f[x] = <<n + 1 - i, j>>  BY <1>3
  <2>2. PICK j \in DOMAIN es[i].edges : x = <<i, j>> /\ f[x] = <<n + 1 - i, j>>  BY <2>1
  <2>3. PICK k \in 1 .. n : \E l \in DOMAIN es[k].edges : y = <<k, l>> /\ f[y] = <<n + 1 - k, l>>  BY <1>3
  <2>4. PICK l \in DOMAIN es[k].edges : y = <<k, l>> /\ f[y] = <<n + 1 - k, l>>  BY <2>3
  <2>5. n + 1 - i = n + 1 - k /\ j = l  BY <2>2, <2>4
  <2>6. i = k  BY <1>1, <2>5
  <2>7. QED  BY <2>2, <2>4, <2>5, <2>6
<1>7. f \in Injection(S, T)
  <2> HIDE DEF f
  <2>1. DOMAIN f = S  BY <1>5
  <2>2. QED  BY <1>5, <1>6, <2>1 DEF Injection, IsInjective
<1>8. QED
  <2> HIDE DEF f
  <2>1. QED  BY <1>2, <1>5, <1>7, FS_Surjection

(* The counts of what contributes positively do not depend on the order in *)
(* which reports were ingested: an edge finds the nodes after it as well   *)
(* as those before.                                                        *)
THEOREM OrderDoesNotCount == Spec => []OrderIrrelevant
<1>1. LogInv /\ MadeOfFiles => OrderIrrelevant
  <2> SUFFICES ASSUME LogInv, MadeOfFiles, ByDigest(events),
                      \A i, j \in DOMAIN events : events[i].body = events[j].body => events[i].kind = events[j].kind
               PROVE  /\ Cardinality(PositiveEdges(Reversed(events))) = Cardinality(PositiveEdges(events))
                      /\ Cardinality(ClosureWitnesses(Reversed(events))) = Cardinality(ClosureWitnesses(events))
    BY DEF OrderIrrelevant, ByDigest
  <2>1. events \in Seq(Event)  BY DEF LogInv
  <2>2. Alike(events)
    <3>1. ASSUME NEW i \in DOMAIN events, NEW j \in DOMAIN events, events[i].body = events[j].body
          PROVE  Eligible(events[i]) <=> Eligible(events[j])
      BY <3>1, CopiesAlike
    <3>2. QED  BY <3>1 DEF Alike
  <2> DEFINE rs == Reversed(events)
  <2>3. rs \in Seq(Event) /\ Mirrors(rs, events)  BY <2>1, ReversedMirrors
  <2> HIDE DEF rs
  <2>4. \A i \in DOMAIN events : \A j \in DOMAIN events[i].edges :
          /\ <<Len(events) + 1 - i, j>> \in PositiveEdges(rs) <=> <<i, j>> \in PositiveEdges(events)
          /\ <<Len(events) + 1 - i, j>> \in ClosureWitnesses(rs) <=> <<i, j>> \in ClosureWitnesses(events)
    BY <2>1, <2>2, <2>3, MirrorMembers
  <2>5. /\ PositiveEdges(events) \subseteq EdgePlaces(events) /\ ClosureWitnesses(events) \subseteq EdgePlaces(events)
        /\ PositiveEdges(rs) \subseteq EdgePlaces(rs) /\ ClosureWitnesses(rs) \subseteq EdgePlaces(rs)
    BY DEF PositiveEdges, ClosureWitnesses
  <2>6. Cardinality(PositiveEdges(rs)) = Cardinality(PositiveEdges(events))
    BY <2>1, <2>3, <2>4, <2>5, MirrorSizes
  <2>7. Cardinality(ClosureWitnesses(rs)) = Cardinality(ClosureWitnesses(events))
    BY <2>1, <2>3, <2>4, <2>5, MirrorSizes
  <2>8. QED  BY <2>6, <2>7 DEF rs
<1>2. LogInv /\ MadeOfFiles /\ [Next]_vars => LogInv' /\ MadeOfFiles'  BY LogSteps, MadeSteps
<1>3. QED  BY <1>1, <1>2, MadeInitially, PTL DEF Spec
=============================================================================
