------------------------ MODULE PhaseLabStoreProofs ------------------------
(***************************************************************************)
(* Theorems about PhaseLabStore, for any processes, payloads, selectors,   *)
(* faults and bounds.                                                      *)
(***************************************************************************)
EXTENDS PhaseLabStore, NumberLemmas, TLAPS, FiniteSetTheorems, SequenceTheorems

-----------------------------------------------------------------------------
(* File names. *)

(* The last file name by string order is one of the files, and every other *)
(* name sorts before it.                                                   *)
LEMMA LastNameProperties ==
  ASSUME NEW n \in Nat, NEW S, S \subseteq 0 .. n, S # {}
  PROVE  /\ LastName(S) \in S
         /\ \A m \in S \ {LastName(S)} : NameBefore(m, LastName(S))
<1> DEFINE Low == {m \in S : m < PadLimit}
           High == {m \in S : ~(m < PadLimit)}
           Last(x) == \A m \in S \ {x} : NameBefore(m, x)
<1> USE StoreAssumption
<1>1. SUFFICES \E x \in S : Last(x)
  <2> HIDE DEF Last
  <2>1. PICK x \in S : Last(x)  BY <1>1
  <2>2. LastName(S) \in S /\ Last(LastName(S))  BY <2>1 DEF LastName, Last
  <2>3. QED  BY <2>2 DEF Last
<1>2. CASE High = {}
  <2>1. PICK x \in S : \A m \in S : m <= x  BY NatGreatest
  <2>2. Last(x)  BY <1>2, <2>1 DEF NameBefore
  <2>3. QED  BY <2>2
<1>3. CASE Low = {}
  <2>1. PICK x \in S : \A m \in S : m <= x  BY NatGreatest
  <2>2. Last(x)  BY <1>3, <2>1 DEF NameBefore
  <2>3. QED  BY <2>2
<1>4. CASE Low # {} /\ High # {}
  <2>1. PICK l \in Low : \A m \in Low : m <= l  BY <1>4, NatGreatest
  <2>2. PICK h \in High : \A m \in High : m <= h  BY <1>4, NatGreatest
  <2>3. CASE l * Base <= h
    <3>1. ASSUME NEW m \in S \ {h} PROVE NameBefore(m, h)
      <4>1. CASE m < PadLimit
        <5>1. m \in Low /\ m <= l /\ m \in Nat /\ l \in Nat /\ h \in Nat  BY <2>1, <2>2, <4>1
        <5>2. m * Base <= l * Base  BY <5>1
        <5>3. m * Base <= h  BY <2>3, <5>1, <5>2
        <5>4. ~(h < PadLimit)  BY <2>2
        <5>5. QED  BY <4>1, <5>3, <5>4 DEF NameBefore
      <4>2. CASE ~(m < PadLimit)
        <5>1. m \in High /\ m <= h /\ m # h /\ m \in Nat /\ h \in Nat  BY <2>2, <4>2
        <5>2. m < h /\ ~(h < PadLimit)  BY <2>2, <5>1
        <5>3. QED  BY <4>2, <5>2 DEF NameBefore
      <4>3. QED  BY <4>1, <4>2
    <3>2. QED  BY <3>1
  <2>4. CASE ~(l * Base <= h)
    <3>1. ASSUME NEW m \in S \ {l} PROVE NameBefore(m, l)
      <4>1. CASE m < PadLimit
        <5>1. m \in Low /\ m <= l /\ m # l /\ m \in Nat /\ l \in Nat  BY <2>1, <4>1
        <5>2. m < l /\ l < PadLimit  BY <2>1, <5>1
        <5>3. QED  BY <4>1, <5>2 DEF NameBefore
      <4>2. CASE ~(m < PadLimit)
        <5>1. m \in High /\ m <= h /\ m \in Nat /\ h \in Nat /\ l \in Nat  BY <2>1, <2>2, <4>2
        <5>2. l * Base \in Nat /\ h < l * Base  BY <2>4, <5>1
        <5>3. m < l * Base /\ l < PadLimit  BY <2>1, <5>1, <5>2
        <5>4. QED  BY <4>2, <5>3 DEF NameBefore
      <4>3. QED  BY <4>1, <4>2
    <3>2. QED  BY <3>1
  <2>5. QED  BY <2>3, <2>4
<1>5. QED  BY <1>2, <1>3, <1>4

-----------------------------------------------------------------------------
(* Values the actions build. *)

(* Two sequences joined with the last element of the first and the first   *)
(* of the second replaced by one element.                                  *)
LEMMA GluedLines ==
  ASSUME NEW S, NEW s \in Seq(S), s # <<>>, NEW t \in Seq(S), t # <<>>, NEW g \in S,
         NEW r, r = [s EXCEPT ![Len(s)] = g] \o Tail(t)
  PROVE  /\ r \in Seq(S)
         /\ Len(r) = Len(s) + Len(t) - 1
         /\ \A i \in 1 .. Len(s) : r[i] = IF i = Len(s) THEN g ELSE s[i]
         /\ \A j \in 2 .. Len(t) : r[Len(s) - 1 + j] = t[j]
<1>1. PICK u : u = [s EXCEPT ![Len(s)] = g]  OBVIOUS
<1>2. PICK v : v = Tail(t)  OBVIOUS
<1>3. /\ u \in Seq(S) /\ Len(u) = Len(s)
      /\ \A i \in 1 .. Len(s) : u[i] = IF i = Len(s) THEN g ELSE s[i]
  BY <1>1, ExceptSeq
<1>4. /\ v \in Seq(S) /\ Len(v) = Len(t) - 1
      /\ \A i \in 1 .. Len(v) : v[i] = t[i+1]
  BY <1>2, HeadTailProperties
<1>5. r = u \o v  BY <1>1, <1>2
<1>6. /\ r \in Seq(S)
      /\ Len(r) = Len(u) + Len(v)
      /\ \A i \in 1 .. Len(u) + Len(v) : r[i] = IF i <= Len(u) THEN u[i] ELSE v[i - Len(u)]
  BY <1>3, <1>4, <1>5, ConcatProperties
<1>7. Len(s) \in Nat /\ Len(t) \in Nat  OBVIOUS
<1>8. ASSUME NEW j \in 2 .. Len(t) PROVE r[Len(s) - 1 + j] = t[j]
  <2>1. r[Len(s) - 1 + j] = v[j - 1]  BY <1>3, <1>4, <1>6, <1>7
  <2>2. QED  BY <1>4, <1>7, <2>1
<1>9. QED  BY <1>3, <1>4, <1>6, <1>7, <1>8

Line == Event \cup {Garbage}

(* Appending keeps every line but an open last one, and ends with the new  *)
(* lines; only the first of them can be glued away.                        *)
LEMMA AppendedLines ==
  ASSUME NEW lines \in Seq(Line), events \in Seq(Line), openTail \in BOOLEAN,
         openTail => events # <<>>
  PROVE  /\ Appended(lines) \in Seq(Line)
         /\ Len(Appended(lines)) =
              IF openTail /\ lines # <<>> THEN Len(events) + Len(lines) - 1
              ELSE Len(events) + Len(lines)
         /\ Len(Appended(lines)) >= Len(events)
         /\ \A i \in 1 .. Len(events) :
              Appended(lines)[i] = IF openTail /\ lines # <<>> /\ i = Len(events)
                                   THEN Garbage ELSE events[i]
         /\ \A j \in 1 .. Len(lines) :
              (openTail => j > 1) =>
                Appended(lines)[Len(Appended(lines)) - Len(lines) + j] = lines[j]
<1>1. CASE openTail /\ lines # <<>>
  <2>1. Appended(lines) = [events EXCEPT ![Len(events)] = Garbage] \o Tail(lines)
    BY <1>1 DEF Appended
  <2>2. PICK r : r = Appended(lines)  OBVIOUS
  <2>3. Garbage \in Line  BY DEF Line
  <2>4. /\ r \in Seq(Line)
        /\ Len(r) = Len(events) + Len(lines) - 1
        /\ \A i \in 1 .. Len(events) : r[i] = IF i = Len(events) THEN Garbage ELSE events[i]
        /\ \A j \in 2 .. Len(lines) : r[Len(events) - 1 + j] = lines[j]
    BY <1>1, <2>1, <2>2, <2>3, GluedLines
  <2>5. Len(lines) \in Nat /\ Len(events) \in Nat /\ Len(lines) >= 1  BY <1>1
  <2>6. ASSUME NEW j \in 1 .. Len(lines), j > 1
        PROVE  r[Len(r) - Len(lines) + j] = lines[j]
    BY <2>4, <2>5, <2>6
  <2>7. QED  BY <1>1, <2>2, <2>4, <2>5, <2>6
<1>2. CASE ~(openTail /\ lines # <<>>)
  <2>1. Appended(lines) = events \o lines  BY <1>2 DEF Appended
  <2>2. Len(lines) \in Nat /\ Len(events) \in Nat  OBVIOUS
  <2>3. QED  BY <1>2, <2>1, <2>2, ConcatProperties
<1>3. QED  BY <1>1, <1>2

(* The lines, the index and the window numbers of an ingest are typed. *)
LEMMA IngestTypes ==
  ASSUME TypeOK, NEW p \in Proc
  PROVE  /\ LinesOf(p) \in Seq(Line) /\ Len(LinesOf(p)) = Len(batch[p])
         /\ \A i \in 1 .. Len(batch[p]) : LinesOf(p)[i] = EventOf(p, i) /\ EventOf(p, i) \in Event
         /\ IndexOf(p) \in Index
<1>1. batch[p] \in Seq(Payload) /\ offset[p] \in Nat /\ seq[p] \in Nat  BY DEF TypeOK
<1>2. DOMAIN batch[p] = 1 .. Len(batch[p]) /\ Len(batch[p]) \in Nat  BY <1>1
<1>3. \A i \in 1 .. Len(batch[p]) : EventOf(p, i) \in Event /\ IdOf(EventOf(p, i)) \in EventId
  BY <1>1, <1>2 DEF EventOf, IdOf, Event, EventId
<1>4. LinesOf(p) \in Seq(Line) /\ Len(LinesOf(p)) = Len(batch[p])
  BY <1>2, <1>3 DEF LinesOf, Line
<1>5. [i \in DOMAIN batch[p] |-> IdOf(EventOf(p, i))] \in Seq(EventId)
  BY <1>2, <1>3
<1>6. IndexOf(p) \in Index  BY <1>1, <1>5 DEF IndexOf, Index
<1>7. QED  BY <1>2, <1>3, <1>4, <1>6 DEF LinesOf

(* The lines a torn append writes are lines. *)
LEMMA WrittenLines ==
  ASSUME TypeOK, NEW p \in Proc, NEW k \in 0 .. Len(batch[p]), NEW end
  PROVE  SubSeq(LinesOf(p), 1, k) \o (IF end = "partial" THEN <<Garbage>> ELSE <<>>) \in Seq(Line)
<1>1. LinesOf(p) \in Seq(Line)  BY IngestTypes
<1>2. Len(LinesOf(p)) = Len(batch[p])  BY IngestTypes
<1>3. \A i \in 1 .. k : LinesOf(p)[i] \in Line  BY <1>1, <1>2
<1>4. SubSeq(LinesOf(p), 1, k) \in Seq(Line)  BY <1>3, SubSeqProperties
<1>5. <<Garbage>> \in Seq(Line) /\ <<>> \in Seq(Line)  BY DEF Line
<1>6. QED  BY <1>4, <1>5, ConcatProperties

-----------------------------------------------------------------------------
(* The inductive invariant: types, numbered window files, a log that has a *)
(* last line when one is open, and what the labels of a process imply.     *)

Numbered(S) == \E n \in Nat : S = 0 .. n - 1

Numbering ==
  /\ Numbered(DOMAIN windows)
  /\ \A p \in Proc : Numbered(names[p])
  /\ openTail => events # <<>>
  /\ \A p \in Proc :
       /\ pc[p] \in {"offset", "append", "truncate"} =>
            seq[p] = 0 \/ seq[p] - 1 \in DOMAIN windows
       /\ pc[p] = "fill" => seq[p] \in DOMAIN windows
       /\ pc[p] = "selectEvents" => seenIndex[p] # None

StoreInv == TypeOK /\ Numbering

(* Numbered sets are finite and counted by their bound. *)
LEMMA NumberedSets ==
  ASSUME NEW S, Numbered(S)
  PROVE  /\ S \subseteq Nat /\ IsFiniteSet(S) /\ Cardinality(S) \in Nat
         /\ S = 0 .. Cardinality(S) - 1
         /\ S # {} => LastName(S) \in S
         /\ Cardinality(S) > 1 => S \ {LastName(S)} # {} /\ LastName(S \ {LastName(S)}) \in S
<1>1. PICK n \in Nat : S = 0 .. n - 1  BY DEF Numbered
<1>2. IsFiniteSet(S) /\ Cardinality(S) = n
  BY <1>1, FS_Interval
<1>3. ASSUME NEW T, T \subseteq S, T # {} PROVE LastName(T) \in T
  <2>1. n \in Nat /\ T \subseteq 0 .. n  BY <1>1, <1>3
  <2>2. QED  BY <2>1, <1>3, LastNameProperties
<1>4. ASSUME n > 1 PROVE S \ {LastName(S)} # {}
  <2>1. 0 \in S /\ 1 \in S  BY <1>1, <1>4
  <2>2. QED  BY <2>1
<1>5. S \subseteq Nat /\ S = 0 .. Cardinality(S) - 1  BY <1>1, <1>2
<1>6. Cardinality(S) > 1 => S \ {LastName(S)} # {} /\ LastName(S \ {LastName(S)}) \in S
  BY <1>2, <1>3, <1>4
<1>7. QED  BY <1>1, <1>2, <1>3, <1>5, <1>6

(* The window that a selector names is one of the store's. *)
LEMMA ChosenIsAWindow ==
  ASSUME NEW S, Numbered(S), S # {}, NEW sel
  PROVE  Chosen(sel, S) \in S
BY NumberedSets DEF Chosen

(* Taking the next number, or one that exists, keeps a set numbered. *)
LEMMA NumberedNext ==
  ASSUME NEW S, Numbered(S), NEW k \in Nat, k = 0 \/ k - 1 \in S
  PROVE  Numbered(S \cup {k})
<1>1. PICK n \in Nat : S = 0 .. n - 1  BY DEF Numbered
<1>2. CASE k \in S
  BY <1>2 DEF Numbered
<1>3. CASE k \notin S
  <2>1. S \cup {k} = 0 .. (n + 1) - 1  BY <1>1, <1>3
  <2>2. QED  BY <2>1 DEF Numbered
<1>4. QED  BY <1>2, <1>3

(* A store without windows is numbered. *)
LEMMA EmptyNumbered == Numbered({})
<1>1. {} = 0 .. 0 - 1  OBVIOUS
<1>2. QED  BY <1>1 DEF Numbered

(* A manifest holds the counts and the last name its process read. *)
LEMMA ManifestTypes ==
  ASSUME StoreInv, NEW p \in Proc
  PROVE  ManifestOf(p) \in Manifest
<1>1. Numbered(names[p]) /\ count[p] \in Nat  BY DEF StoreInv, TypeOK, Numbering
<1>2. names[p] # {} => LastName(names[p]) \in Nat  BY <1>1, NumberedSets
<1>3. Cardinality(names[p]) \in Nat  BY <1>1, NumberedSets
<1>4. QED  BY <1>1, <1>2, <1>3 DEF ManifestOf, Manifest

(* The initial state satisfies the type invariant and the numbering. *)
LEMMA InitialTypes == Init => StoreInv
<1> SUFFICES ASSUME Init PROVE StoreInv  OBVIOUS
<1>1. Numbered({})  BY EmptyNumbered
<1>2. DOMAIN windows = {}  BY DEF Init
<1>3. /\ events \in Seq(Event \cup {Garbage})
      /\ windows \in [DOMAIN windows -> Index \cup {Empty, Garbage}]
  BY <1>2 DEF Init
<1>4. eventsExist \in BOOLEAN /\ openTail \in BOOLEAN  BY StoreAssumption DEF Init
<1>5. TypeOK
  <2>1. DOMAIN windows \subseteq Nat /\ latest \in Index \cup {None} /\ manifest \in Manifest \cup {None}
    BY <1>2 DEF Init
  <2>2. /\ pc \in [Proc -> Label] /\ cmd \in [Proc -> Command \cup {None}]
        /\ batch \in [Proc -> Seq(Payload)]
        /\ selector \in [Proc -> {"latest", "previous", "all", None}]
        /\ names \in [Proc -> SUBSET Nat]
    BY DEF Init, Label
  <2>3. /\ count \in [Proc -> Nat] /\ seq \in [Proc -> Nat]
        /\ offset \in [Proc -> Nat] /\ base \in [Proc -> Nat]
        /\ seenIndex \in [Proc -> Index \cup {None}]
        /\ seenLines \in [Proc -> SUBSET Nat]
        /\ out \in [Proc -> {"ok", "failed", "crashed", None}]
        /\ ingests \in Nat /\ faults \in Nat /\ torn \in BOOLEAN
        /\ acked \subseteq Nat
    BY DEF Init
  <2>4. QED  BY <1>3, <1>4, <2>1, <2>2, <2>3 DEF TypeOK
<1>6. Numbering  BY <1>1, <1>2 DEF Init, Numbering
<1>7. QED  BY <1>5, <1>6 DEF StoreInv

(* A process that ends leaves the invariant intact, whatever typed content *)
(* its last call gave the log, latest.json and the manifest.               *)
LEMMA ResetKeeps ==
  ASSUME StoreInv, NEW p \in Proc, NEW result \in {"ok", "failed", "crashed"},
         Reset(p, result),
         events' \in Seq(Event \cup {Garbage}), openTail' => events' # <<>>,
         eventsExist' \in BOOLEAN, openTail' \in BOOLEAN,
         windows' = windows, latest' \in Index \cup {None}, manifest' \in Manifest \cup {None},
         seenIndex' = seenIndex, seenLines' \in [Proc -> SUBSET Nat],
         faults' \in Nat, torn' \in BOOLEAN, acked' \subseteq Nat
  PROVE  StoreInv'
<1>1. /\ pc' \in [Proc -> Label]
      /\ \A q \in Proc : pc'[q] = IF q = p THEN "idle" ELSE pc[q]
  BY DEF Reset, GoTo, StoreInv, TypeOK, Label
<1>2. out' \in [Proc -> {"ok", "failed", "crashed", None}]  BY DEF Reset, StoreInv, TypeOK
<1>3. batch' \in [Proc -> Seq(Payload)]
  <2>1. <<>> \in Seq(Payload)  OBVIOUS
  <2>2. QED  BY <2>1 DEF Reset, StoreInv, TypeOK
<1>4. /\ names' \in [Proc -> SUBSET Nat]
      /\ \A q \in Proc : names'[q] = IF q = p THEN {} ELSE names[q]
  BY DEF Reset, StoreInv, TypeOK
<1>5. count' \in [Proc -> Nat] /\ offset' \in [Proc -> Nat] /\ base' \in [Proc -> Nat]
  BY DEF Reset, StoreInv, TypeOK
<1>6. /\ seq' \in [Proc -> Nat]
      /\ \A q \in Proc \ {p} : seq'[q] = seq[q]
  BY DEF Reset, StoreInv, TypeOK
<1>7. cmd' = cmd /\ selector' = selector /\ ingests' = ingests  BY DEF Reset
<1>8. TypeOK'  BY <1>1, <1>2, <1>3, <1>4, <1>5, <1>6, <1>7 DEF StoreInv, TypeOK
<1>9. \A q \in Proc : Numbered(names'[q])  BY <1>4, EmptyNumbered DEF StoreInv, Numbering
<1>10. ASSUME NEW q \in Proc
       PROVE  /\ pc'[q] \in {"offset", "append", "truncate"} =>
                   seq'[q] = 0 \/ seq'[q] - 1 \in DOMAIN windows
              /\ pc'[q] = "fill" => seq'[q] \in DOMAIN windows
              /\ pc'[q] = "selectEvents" => seenIndex[q] # None
  BY <1>1, <1>6 DEF StoreInv, Numbering
<1>11. Numbering'  BY <1>9, <1>10 DEF StoreInv, Numbering
<1>12. QED  BY <1>8, <1>11 DEF StoreInv

(* A command that ends without touching a file keeps the invariant. *)
LEMMA EndKeeps ==
  ASSUME StoreInv, NEW p \in Proc, NEW result \in {"ok", "failed", "crashed"},
         End(p, result), UNCHANGED <<files, seenIndex, seenLines, acked>>
  PROVE  StoreInv'
<1>1. /\ Reset(p, result) /\ faults' = faults /\ torn' = torn
      /\ events' = events /\ eventsExist' = eventsExist /\ openTail' = openTail
      /\ windows' = windows /\ latest' = latest /\ manifest' = manifest
      /\ seenIndex' = seenIndex /\ seenLines' = seenLines /\ acked' = acked
  BY DEF End, files
<1>2. /\ events \in Seq(Event \cup {Garbage}) /\ (openTail => events # <<>>)
      /\ eventsExist \in BOOLEAN /\ openTail \in BOOLEAN
      /\ latest \in Index \cup {None} /\ manifest \in Manifest \cup {None}
      /\ seenLines \in [Proc -> SUBSET Nat]
      /\ faults \in Nat /\ torn \in BOOLEAN /\ acked \subseteq Nat
  BY DEF StoreInv, TypeOK, Numbering
<1>3. QED  BY <1>1, <1>2, ResetKeeps

(* So does one that ends on an unreadable file. *)
LEMMA FailKeeps ==
  ASSUME StoreInv, NEW p \in Proc, Fail(p)
  PROVE  StoreInv'
<1>1. End(p, "failed") /\ UNCHANGED <<files, seenIndex, seenLines, acked>>  BY DEF Fail
<1>2. QED  BY <1>1, EndKeeps

(* Every step preserves the invariant. *)
LEMMA TypesPreserved == StoreInv /\ [Next]_vars => StoreInv'
<1> SUFFICES ASSUME StoreInv, [Next]_vars PROVE StoreInv'  OBVIOUS
<1> USE DEF StoreInv
<1>1. ASSUME NEW p \in Proc, NEW c \in Command, NEW b \in Batches \cup {<<>>},
             NEW sel \in Selectors \cup {None}, Start(p, c, b, sel)
      PROVE  StoreInv'
  <2>1. b \in Seq(Payload) /\ sel \in {"latest", "previous", "all", None}
    <3>1. Batches \subseteq Seq(Payload) /\ Selectors \subseteq {"latest", "previous", "all"}
      BY StoreAssumption
    <3>2. <<>> \in Seq(Payload)  OBVIOUS
    <3>3. QED  BY <3>1, <3>2
  <2>2. TypeOK'
    <3>1. pc' \in [Proc -> Label]  BY <1>1 DEF Start, TypeOK, GoTo, Label
    <3>2. cmd' \in [Proc -> Command \cup {None}]  BY <1>1 DEF Start, TypeOK
    <3>3. batch' \in [Proc -> Seq(Payload)]  BY <1>1, <2>1 DEF Start, TypeOK
    <3>4. selector' \in [Proc -> {"latest", "previous", "all", None}]  BY <1>1, <2>1 DEF Start, TypeOK
    <3>5. /\ seenIndex' \in [Proc -> Index \cup {None}] /\ seenLines' \in [Proc -> SUBSET Nat]
          /\ out' \in [Proc -> {"ok", "failed", "crashed", None}] /\ ingests' \in Nat
      BY <1>1 DEF Start, TypeOK
    <3>6. UNCHANGED <<files, names, count, seq, offset, faults, torn, base, acked>>  BY <1>1 DEF Start
    <3>7. QED  BY <3>1, <3>2, <3>3, <3>4, <3>5, <3>6 DEF TypeOK, files
  <2>3. Numbering'  BY <1>1 DEF Start, Numbering, GoTo, files, TypeOK
  <2>4. QED  BY <2>2, <2>3
<1>2. ASSUME NEW p \in Proc, CheckLog(p) PROVE StoreInv'
  <2>1. TypeOK'  BY <1>2 DEF CheckLog, TypeOK, GoTo, Label, files, ghosts
  <2>2. Numbering'  BY <1>2 DEF CheckLog, Numbering, GoTo, files, TypeOK
  <2>3. QED  BY <2>1, <2>2
<1>3. ASSUME NEW p \in Proc, CreateLog(p) PROVE StoreInv'
  <2>1. events' \in Seq(Event \cup {Garbage})  BY <1>3 DEF CreateLog
  <2>2. TypeOK'  BY <1>3, <2>1 DEF CreateLog, TypeOK, GoTo, Label, ghosts
  <2>3. Numbering'  BY <1>3 DEF CreateLog, Numbering, GoTo, TypeOK
  <2>4. QED  BY <2>2, <2>3
<1>4. ASSUME NEW p \in Proc, AppendEvents(p) PROVE StoreInv'
  <2>1. events' = Appended(LinesOf(p))  BY <1>4 DEF AppendEvents
  <2>2. /\ LinesOf(p) \in Seq(Line) /\ Len(LinesOf(p)) = Len(batch[p])
        /\ batch[p] \in Seq(Payload)
    BY IngestTypes DEF TypeOK
  <2>3. events \in Seq(Line) /\ openTail \in BOOLEAN /\ (openTail => events # <<>>)
    BY DEF TypeOK, Line, Numbering
  <2>4. /\ events' \in Seq(Line)
        /\ Len(events') - Len(batch[p]) \in Nat
        /\ Len(events') >= Len(events)
    <3>1. /\ Appended(LinesOf(p)) \in Seq(Line)
          /\ Len(Appended(LinesOf(p))) =
               IF openTail /\ LinesOf(p) # <<>> THEN Len(events) + Len(LinesOf(p)) - 1
               ELSE Len(events) + Len(LinesOf(p))
      BY <2>2, <2>3, AppendedLines
    <3>2. Len(batch[p]) \in Nat /\ Len(events) \in Nat  BY <2>2, <2>3
    <3>3. openTail => Len(events) >= 1  BY <2>3
    <3>4. LinesOf(p) # <<>> => Len(LinesOf(p)) >= 1  BY <2>2
    <3>5. QED  BY <2>1, <2>2, <3>1, <3>2, <3>3, <3>4
  <2>5. events' \in Seq(Event \cup {Garbage})  BY <2>4 DEF Line
  <2>6. base' \in [Proc -> Nat]  BY <1>4, <2>4 DEF AppendEvents, TypeOK
  <2>7. TypeOK'  BY <1>4, <2>5, <2>6 DEF AppendEvents, TypeOK, GoTo, Label
  <2>8. openTail' => events' # <<>>
    <3>1. openTail' => openTail  BY <1>4 DEF AppendEvents
    <3>2. QED  BY <2>3, <2>4, <3>1
  <2>9. Numbering'  BY <1>4, <2>8 DEF AppendEvents, Numbering, GoTo, TypeOK
  <2>10. QED  BY <2>7, <2>9
<1>5. ASSUME NEW p \in Proc, ManifestWindows(p) PROVE StoreInv'
  <2>1. CASE Fail(p)  BY <2>1, FailKeeps
  <2>2. CASE ~Fail(p)
    <3>1. /\ pc[p] \in {"openWindows", "closeWindows"}
          /\ names' = [names EXCEPT ![p] = DOMAIN windows]
          /\ GoTo(p, IF pc[p] = "openWindows" THEN "openEvents" ELSE "closeEvents")
          /\ UNCHANGED <<files, cmd, batch, selector, count, seq, offset, seenIndex, seenLines, out, ghosts>>
      BY <1>5, <2>2 DEF ManifestWindows
    <3>2. TypeOK'  BY <3>1 DEF TypeOK, GoTo, Label, files, ghosts
    <3>3. \A q \in Proc : Numbered(names'[q])  BY <3>1 DEF Numbering, TypeOK
    <3>4. Numbering'  BY <3>1, <3>3 DEF Numbering, GoTo, files, TypeOK
    <3>5. QED  BY <3>2, <3>4
  <2>3. QED  BY <2>1, <2>2
<1>6. ASSUME NEW p \in Proc, ManifestEvents(p) PROVE StoreInv'
  <2>1. CASE Fail(p)  BY <2>1, FailKeeps
  <2>2. CASE ~Fail(p)
    <3>1. /\ pc[p] \in {"openEvents", "closeEvents"}
          /\ count' = [count EXCEPT ![p] = Len(events)]
          /\ GoTo(p, IF pc[p] = "openEvents" THEN "openManifest" ELSE "closeManifest")
          /\ UNCHANGED <<files, cmd, batch, selector, names, seq, offset, seenIndex, seenLines, out, ghosts>>
      BY <1>6, <2>2 DEF ManifestEvents
    <3>2. TypeOK'
      <4>1. count' \in [Proc -> Nat]  BY <3>1 DEF TypeOK
      <4>2. pc' \in [Proc -> Label]  BY <3>1 DEF TypeOK, GoTo, Label
      <4>3. QED  BY <3>1, <4>1, <4>2 DEF TypeOK, files, ghosts
    <3>3. Numbering'  BY <3>1 DEF Numbering, GoTo, files, TypeOK
    <3>4. QED  BY <3>2, <3>3
  <2>3. QED  BY <2>1, <2>2
<1>7. ASSUME NEW p \in Proc, OpenManifest(p) PROVE StoreInv'
  <2>1. ManifestOf(p) \in Manifest  BY ManifestTypes
  <2>2. /\ manifest' = ManifestOf(p)
        /\ UNCHANGED <<events, eventsExist, openTail, windows, latest, seenIndex, seenLines, acked>>
    BY <1>7 DEF OpenManifest, WriteManifest
  <2>3. CASE End(p, "ok")
    <3>1. Reset(p, "ok") /\ faults' = faults /\ torn' = torn  BY <2>3 DEF End
    <3>2. QED  BY <2>1, <2>2, <3>1, ResetKeeps DEF TypeOK, Numbering
  <2>4. CASE ~End(p, "ok")
    <3>1. /\ pc[p] = "openManifest"
          /\ GoTo(p, IF cmd[p] = "ingest" THEN "sequence"
                     ELSE IF cmd[p] = "list" THEN "listWindows"
                     ELSE "exportEvents")
          /\ UNCHANGED <<cmd, batch, selector, names, count, seq, offset, out,
                         ingests, faults, torn, base>>
      BY <1>7, <2>4 DEF OpenManifest
    <3>2. TypeOK'  BY <2>1, <2>2, <3>1 DEF TypeOK, GoTo, Label
    <3>3. Numbering'  BY <2>2, <3>1 DEF Numbering, GoTo, TypeOK
    <3>4. QED  BY <3>2, <3>3
  <2>5. QED  BY <2>3, <2>4
<1>8. ASSUME NEW p \in Proc, CloseManifest(p) PROVE StoreInv'
  <2>1. ManifestOf(p) \in Manifest  BY ManifestTypes
  <2>2. base[p] \in Nat /\ batch[p] \in Seq(Payload)  BY DEF TypeOK
  <2>3. base[p] + 1 .. base[p] + Len(batch[p]) \subseteq Nat  BY <2>2
  <2>4. acked' \subseteq Nat  BY <1>8, <2>3 DEF CloseManifest, TypeOK
  <2>5. /\ manifest' = ManifestOf(p)
        /\ UNCHANGED <<events, eventsExist, openTail, windows, latest, seenIndex, seenLines>>
        /\ Reset(p, "ok") /\ faults' = faults /\ torn' = torn
    BY <1>8 DEF CloseManifest, WriteManifest, End
  <2>6. QED  BY <2>1, <2>4, <2>5, ResetKeeps DEF TypeOK, Numbering
<1>9. ASSUME NEW p \in Proc, ReadSequence(p) PROVE StoreInv'
  <2>1. PICK n \in Nat : n = Cardinality(DOMAIN windows) /\ DOMAIN windows = 0 .. n - 1
    BY NumberedSets DEF Numbering
  <2>2. n = 0 \/ n - 1 \in DOMAIN windows
    <3>1. n = 0 \/ n - 1 \in 0 .. n - 1  OBVIOUS
    <3>2. QED  BY <2>1, <3>1
  <2>3. CASE Fail(p)  BY <2>3, FailKeeps
  <2>4. CASE ~Fail(p)
    <3>1. /\ pc[p] = "sequence"
          /\ seq' = [seq EXCEPT ![p] = n]
          /\ GoTo(p, "offset")
          /\ UNCHANGED <<files, cmd, batch, selector, names, count, offset, seenIndex, seenLines, out, ghosts>>
      BY <1>9, <2>1, <2>4 DEF ReadSequence
    <3>2. TypeOK'  BY <3>1 DEF TypeOK, GoTo, Label, files, ghosts
    <3>3. Numbering'  BY <2>2, <3>1 DEF Numbering, GoTo, files, TypeOK
    <3>4. QED  BY <3>2, <3>3
  <2>5. QED  BY <2>3, <2>4
<1>10. ASSUME NEW p \in Proc, ReadOffset(p) PROVE StoreInv'
  <2>1. CASE Fail(p)  BY <2>1, FailKeeps
  <2>2. CASE ~Fail(p)
    <3>1. /\ pc[p] = "offset"
          /\ offset' = [offset EXCEPT ![p] = Len(events)]
          /\ GoTo(p, "append")
          /\ UNCHANGED <<files, cmd, batch, selector, names, count, seq, seenIndex, seenLines, out, ghosts>>
      BY <1>10, <2>2 DEF ReadOffset
    <3>2. TypeOK'
      <4>1. offset' \in [Proc -> Nat]  BY <3>1 DEF TypeOK
      <4>2. pc' \in [Proc -> Label]  BY <3>1 DEF TypeOK, GoTo, Label
      <4>3. QED  BY <3>1, <4>1, <4>2 DEF TypeOK, files, ghosts
    <3>3. Numbering'  BY <3>1 DEF Numbering, GoTo, files, TypeOK
    <3>4. QED  BY <3>2, <3>3
  <2>3. QED  BY <2>1, <2>2
<1>11. ASSUME NEW p \in Proc, TruncateWindow(p) PROVE StoreInv'
  <2>1. seq[p] \in Nat /\ (seq[p] = 0 \/ seq[p] - 1 \in DOMAIN windows)
    BY <1>11 DEF TruncateWindow, TypeOK, Numbering
  <2>2. DOMAIN windows' = DOMAIN windows \cup {seq[p]}  BY <1>11 DEF TruncateWindow
  <2>3. Numbered(DOMAIN windows')  BY <2>1, <2>2, NumberedNext DEF Numbering
  <2>4. TypeOK'  BY <1>11, <2>1, <2>2 DEF TruncateWindow, TypeOK, GoTo, Label, ghosts
  <2>5. Numbering'  BY <1>11, <2>2, <2>3 DEF TruncateWindow, Numbering, GoTo, TypeOK
  <2>6. QED  BY <2>4, <2>5
<1>12. ASSUME NEW p \in Proc, FillWindow(p) PROVE StoreInv'
  <2>1. PICK content \in Index \cup {Garbage} : windows' = [windows EXCEPT ![seq[p]] = content]
    BY <1>12, IngestTypes DEF FillWindow
  <2>2. DOMAIN windows' = DOMAIN windows  BY <2>1
  <2>3. windows' \in [DOMAIN windows' -> Index \cup {Empty, Garbage}]  BY <2>1, <2>2 DEF TypeOK
  <2>4. TypeOK'  BY <1>12, <2>2, <2>3 DEF FillWindow, TypeOK, GoTo, Label, ghosts
  <2>5. Numbering'  BY <1>12, <2>2 DEF FillWindow, Numbering, GoTo, TypeOK
  <2>6. QED  BY <2>4, <2>5
<1>13. ASSUME NEW p \in Proc, WriteLatest(p) PROVE StoreInv'
  <2>1. TypeOK'  BY <1>13, IngestTypes DEF WriteLatest, TypeOK, GoTo, Label, ghosts
  <2>2. Numbering'  BY <1>13 DEF WriteLatest, Numbering, GoTo, TypeOK
  <2>3. QED  BY <2>1, <2>2
<1>14. ASSUME NEW p \in Proc, ListWindows(p) PROVE StoreInv'
  BY <1>14, EndKeeps, FailKeeps DEF ListWindows
<1>15. ASSUME NEW p \in Proc, ExportEvents(p) PROVE StoreInv'
  <2>1. CASE Fail(p)  BY <2>1, FailKeeps
  <2>2. CASE ~Fail(p)
    <3>1. /\ pc[p] = "exportEvents"
          /\ count' = [count EXCEPT ![p] = Len(events)]
          /\ GoTo(p, "exportWindows")
          /\ UNCHANGED <<files, cmd, batch, selector, names, seq, offset, seenIndex, seenLines, out, ghosts>>
      BY <1>15, <2>2 DEF ExportEvents
    <3>2. TypeOK'
      <4>1. count' \in [Proc -> Nat]  BY <3>1 DEF TypeOK
      <4>2. pc' \in [Proc -> Label]  BY <3>1 DEF TypeOK, GoTo, Label
      <4>3. QED  BY <3>1, <4>1, <4>2 DEF TypeOK, files, ghosts
    <3>3. Numbering'  BY <3>1 DEF Numbering, GoTo, files, TypeOK
    <3>4. QED  BY <3>2, <3>3
  <2>3. QED  BY <2>1, <2>2
<1>16. ASSUME NEW p \in Proc, ExportWindows(p) PROVE StoreInv'
  <2>1. CASE Fail(p)  BY <2>1, FailKeeps
  <2>2. CASE End(p, "ok") /\ UNCHANGED <<files, seenIndex, seenLines, acked>>  BY <2>2, EndKeeps
  <2>3. CASE ~Fail(p) /\ ~(End(p, "ok") /\ UNCHANGED <<files, seenIndex, seenLines, acked>>)
    <3>1. /\ pc[p] = "exportWindows"
          /\ GoTo(p, "selectWindow")
          /\ selector' = [selector EXCEPT ![p] = "latest"]
          /\ UNCHANGED <<files, cmd, batch, names, count, seq, offset, seenIndex, seenLines, out, ghosts>>
      BY <1>16, <2>3 DEF ExportWindows
    <3>2. TypeOK'  BY <3>1 DEF TypeOK, GoTo, Label, files, ghosts
    <3>3. Numbering'  BY <3>1 DEF Numbering, GoTo, files, TypeOK
    <3>4. QED  BY <3>2, <3>3
  <2>4. QED  BY <2>1, <2>2, <2>3
<1>17. ASSUME NEW p \in Proc, SelectWindow(p) PROVE StoreInv'
  <2>1. CASE Fail(p)  BY <2>1, FailKeeps
  <2>2. CASE ~Fail(p)
    <3>1. /\ pc[p] = "selectWindow" /\ WindowsReadable /\ DOMAIN windows # {}
          /\ seenIndex' = [seenIndex EXCEPT ![p] = windows[Chosen(selector[p], DOMAIN windows)]]
          /\ GoTo(p, "selectEvents")
          /\ UNCHANGED <<files, cmd, batch, selector, names, count, seq, offset,
                         seenLines, out, ghosts>>
      BY <1>17, <2>2 DEF SelectWindow
    <3>2. Chosen(selector[p], DOMAIN windows) \in DOMAIN windows
      BY <3>1, ChosenIsAWindow DEF Numbering
    <3>3. PICK x \in Index : x = windows[Chosen(selector[p], DOMAIN windows)]
      BY <3>1, <3>2 DEF WindowsReadable, TypeOK
    <3>4. x # None  BY <3>3, StoreAssumption
    <3>5. TypeOK'  BY <3>1, <3>3 DEF TypeOK, GoTo, Label, files, ghosts
    <3>6. Numbering'  BY <3>1, <3>3, <3>4 DEF Numbering, GoTo, files, TypeOK
    <3>7. QED  BY <3>5, <3>6
  <2>3. QED  BY <2>1, <2>2
<1>18. ASSUME NEW p \in Proc, SelectEvents(p) PROVE StoreInv'
  <2>1. CASE Fail(p)  BY <2>1, FailKeeps
  <2>2. CASE ~Fail(p)
    <3>1. /\ seenLines' = [seenLines EXCEPT ![p] = Selected(selector[p], seenIndex[p].win)]
          /\ End(p, "ok")
          /\ UNCHANGED <<files, seenIndex, acked>>
      BY <1>18, <2>2 DEF SelectEvents
    <3>2. Selected(selector[p], seenIndex[p].win) \subseteq Nat  BY DEF Selected, TypeOK
    <3>3. seenLines' \in [Proc -> SUBSET Nat]  BY <3>1, <3>2 DEF TypeOK
    <3>4. Reset(p, "ok") /\ faults' = faults /\ torn' = torn  BY <3>1 DEF End
    <3>5. QED  BY <3>1, <3>3, <3>4, ResetKeeps DEF TypeOK, Numbering, files
  <2>3. QED  BY <2>1, <2>2
<1>19. ASSUME NEW p \in Proc, Crash(p) PROVE StoreInv'
  <2>1. /\ Reset(p, "crashed") /\ faults' = faults + 1 /\ torn' = (torn \/ pc[p] = "fill")
        /\ UNCHANGED <<files, seenIndex, seenLines, acked>>
    BY <1>19 DEF Crash
  <2>2. faults' \in Nat /\ torn' \in BOOLEAN  BY <2>1 DEF TypeOK
  <2>3. QED  BY <2>1, <2>2, ResetKeeps DEF TypeOK, Numbering, files
<1>20. ASSUME NEW p \in Proc, TearAppend(p) PROVE StoreInv'
  <2>0. PICK k \in 0 .. Len(batch[p]), end \in {"line", "partial", "nonewline"} :
          LET lines == SubSeq(LinesOf(p), 1, k) \o (IF end = "partial" THEN <<Garbage>> ELSE <<>>)
          IN  lines # <<>> /\ events' = Appended(lines) /\ openTail' = (end # "line")
    BY <1>20 DEF TearAppend
  <2>1. PICK written :
          /\ written = SubSeq(LinesOf(p), 1, k) \o (IF end = "partial" THEN <<Garbage>> ELSE <<>>)
          /\ written # <<>>
          /\ events' = Appended(written)
          /\ openTail' = (end # "line")
    BY <2>0
  <2>2. written \in Seq(Line)  BY <2>1, WrittenLines
  <2>3. events \in Seq(Line) /\ openTail \in BOOLEAN /\ (openTail => events # <<>>)
    BY DEF TypeOK, Line, Numbering
  <2>4. events' \in Seq(Line) /\ events' # <<>>
    <3>1. /\ Appended(written) \in Seq(Line)
          /\ Len(Appended(written)) = IF openTail /\ written # <<>> THEN Len(events) + Len(written) - 1
                                      ELSE Len(events) + Len(written)
      BY <2>2, <2>3, AppendedLines
    <3>2. Len(events) \in Nat /\ Len(written) \in Nat /\ Len(written) >= 1  BY <2>1, <2>2, <2>3
    <3>3. openTail => Len(events) >= 1  BY <2>3
    <3>4. Len(Appended(written)) >= 1  BY <3>1, <3>2, <3>3
    <3>5. QED  BY <2>1, <3>1, <3>4
  <2>5. events' \in Seq(Event \cup {Garbage}) /\ openTail' \in BOOLEAN  BY <2>1, <2>4 DEF Line
  <2>6. /\ Reset(p, "crashed") /\ eventsExist' = TRUE /\ faults' = faults + 1 /\ torn' = TRUE
        /\ UNCHANGED <<windows, latest, manifest, seenIndex, seenLines, acked>>
    BY <1>20 DEF TearAppend
  <2>7. faults' \in Nat /\ eventsExist' \in BOOLEAN /\ torn' \in BOOLEAN  BY <2>6 DEF TypeOK
  <2>8. QED  BY <2>4, <2>5, <2>6, <2>7, ResetKeeps DEF TypeOK
<1>21. CASE UNCHANGED vars
  <2>1. TypeOK'  BY <1>21 DEF vars, files, local, ghosts, TypeOK
  <2>2. Numbering'  BY <1>21 DEF vars, files, local, ghosts, Numbering
  <2>3. QED  BY <2>1, <2>2
<1>22. QED
  BY <1>1, <1>2, <1>3, <1>4, <1>5, <1>6, <1>7, <1>8, <1>9, <1>10, <1>11, <1>12, <1>13,
     <1>14, <1>15, <1>16, <1>17, <1>18, <1>19, <1>20, <1>21 DEF Next, Begin, Work

(* The store's files always hold what some command writes to them.         *)
THEOREM TypeCorrect == Spec => []TypeOK
<1>1. StoreInv => TypeOK  BY DEF StoreInv
<1>2. QED  BY <1>1, InitialTypes, TypesPreserved, PTL DEF Spec

(* Window files are numbered without a gap, however many processes ingest  *)
(* at once and wherever they are killed.                                   *)
THEOREM WindowsAlwaysContiguous == Spec => []WindowsContiguous
<1>1. StoreInv => WindowsContiguous  BY NumberedSets DEF StoreInv, Numbering, WindowsContiguous
<1>2. QED  BY <1>1, InitialTypes, TypesPreserved, PTL DEF Spec
-----------------------------------------------------------------------------
(* Which command a process at a label carries out.                         *)

Step(p) == Begin(p) \/ Work(p) \/ Crash(p) \/ TearAppend(p)

Opening   == {"openWindows", "openEvents", "openManifest"}
Ingesting == {"sequence", "offset", "append", "truncate", "fill", "latest",
              "closeWindows", "closeEvents", "closeManifest"}

Commanded ==
  \A p \in Proc :
    /\ pc[p] # "idle" => cmd[p] \in Allowed[p]
    /\ pc[p] \in {"exists", "create"} => cmd[p] \in {"init", "ingest"}
    /\ pc[p] \in Opening => cmd[p] \in {"init", "ingest", "list", "export"}
    /\ pc[p] \in Ingesting => cmd[p] = "ingest"
    /\ pc[p] = "listWindows" => cmd[p] = "list"
    /\ pc[p] \in {"exportEvents", "exportWindows"} => cmd[p] = "export"
    /\ pc[p] \in {"selectWindow", "selectEvents"} => cmd[p] \in {"export", "observe"}

(* A step of one process leaves what the others hold as it is. *)
LEMMA OthersKeep ==
  ASSUME TypeOK, NEW p \in Proc, Step(p), NEW q \in Proc, q # p
  PROVE  /\ pc'[q] = pc[q] /\ cmd'[q] = cmd[q] /\ batch'[q] = batch[q] /\ selector'[q] = selector[q]
         /\ names'[q] = names[q] /\ count'[q] = count[q] /\ seq'[q] = seq[q] /\ offset'[q] = offset[q]
         /\ seenIndex'[q] = seenIndex[q] /\ seenLines'[q] = seenLines[q] /\ out'[q] = out[q]
         /\ base'[q] = base[q]
<1> USE DEF GoTo, ghosts
<1>1. /\ DOMAIN pc = Proc /\ DOMAIN cmd = Proc /\ DOMAIN batch = Proc /\ DOMAIN selector = Proc
      /\ DOMAIN names = Proc /\ DOMAIN count = Proc /\ DOMAIN seq = Proc /\ DOMAIN offset = Proc
      /\ DOMAIN seenIndex = Proc /\ DOMAIN seenLines = Proc /\ DOMAIN out = Proc /\ DOMAIN base = Proc
  BY DEF TypeOK
<1>2. CASE Begin(p)  BY <1>1, <1>2 DEF Begin, Start
<1>3. CASE CheckLog(p) \/ CreateLog(p) \/ AppendEvents(p)
  BY <1>1, <1>3 DEF CheckLog, CreateLog, AppendEvents
<1>4. CASE ManifestWindows(p) \/ ManifestEvents(p)
  BY <1>1, <1>4 DEF ManifestWindows, ManifestEvents, Fail, End, Reset
<1>5. CASE OpenManifest(p) \/ CloseManifest(p)
  BY <1>1, <1>5 DEF OpenManifest, CloseManifest, End, Reset
<1>6. CASE ReadSequence(p) \/ ReadOffset(p)
  BY <1>1, <1>6 DEF ReadSequence, ReadOffset, Fail, End, Reset
<1>7. CASE TruncateWindow(p) \/ FillWindow(p) \/ WriteLatest(p)
  BY <1>1, <1>7 DEF TruncateWindow, FillWindow, WriteLatest
<1>8. CASE ListWindows(p) \/ ExportEvents(p) \/ ExportWindows(p)
  BY <1>1, <1>8 DEF ListWindows, ExportEvents, ExportWindows, Fail, End, Reset
<1>9. CASE SelectWindow(p) \/ SelectEvents(p)
  BY <1>1, <1>9 DEF SelectWindow, SelectEvents, Fail, End, Reset
<1>10. CASE Crash(p) \/ TearAppend(p)
  BY <1>1, <1>10 DEF Crash, TearAppend, Reset
<1>11. QED  BY <1>2, <1>3, <1>4, <1>5, <1>6, <1>7, <1>8, <1>9, <1>10 DEF Step, Work

(* At first no process carries out a command. *)
LEMMA InitialCommands == Init => Commanded
BY DEF Init, Commanded, Opening, Ingesting

(* A command goes through its own labels only. *)
LEMMA CommandedPreserved ==
  ASSUME TypeOK, Commanded, [Next]_vars
  PROVE  Commanded'
<1>1. CASE UNCHANGED vars  BY <1>1 DEF vars, local, Commanded
<1>2. ASSUME NEW p \in Proc, Step(p) PROVE Commanded'
  <2> DEFINE Fits(q) ==
        /\ pc'[q] # "idle" => cmd'[q] \in Allowed[q]
        /\ pc'[q] \in {"exists", "create"} => cmd'[q] \in {"init", "ingest"}
        /\ pc'[q] \in Opening => cmd'[q] \in {"init", "ingest", "list", "export"}
        /\ pc'[q] \in Ingesting => cmd'[q] = "ingest"
        /\ pc'[q] = "listWindows" => cmd'[q] = "list"
        /\ pc'[q] \in {"exportEvents", "exportWindows"} => cmd'[q] = "export"
        /\ pc'[q] \in {"selectWindow", "selectEvents"} => cmd'[q] \in {"export", "observe"}
  <2>1. ASSUME NEW q \in Proc, q # p PROVE Fits(q)
    BY <1>2, <2>1, OthersKeep DEF Commanded
  <2>2. Fits(p)
    <3> USE DEF Opening, Ingesting, GoTo
    <3>1. DOMAIN pc = Proc /\ DOMAIN cmd = Proc  BY DEF TypeOK
    <3>2. CASE pc'[p] = "idle"  BY <3>2
    <3>3. CASE Begin(p)  BY <3>1, <3>3 DEF Begin, Start, Command
    <3>4. CASE CheckLog(p) \/ CreateLog(p) \/ AppendEvents(p)
      BY <3>1, <3>4 DEF CheckLog, CreateLog, AppendEvents, Commanded
    <3>5. CASE pc'[p] # "idle" /\ (ManifestWindows(p) \/ ManifestEvents(p))
      BY <3>1, <3>5 DEF ManifestWindows, ManifestEvents, Fail, End, Reset, Commanded
    <3>6. CASE pc'[p] # "idle" /\ (OpenManifest(p) \/ CloseManifest(p))
      BY <3>1, <3>6 DEF OpenManifest, CloseManifest, End, Reset, Commanded
    <3>7. CASE pc'[p] # "idle" /\ (ReadSequence(p) \/ ReadOffset(p))
      BY <3>1, <3>7 DEF ReadSequence, ReadOffset, Fail, End, Reset, Commanded
    <3>8. CASE TruncateWindow(p) \/ FillWindow(p) \/ WriteLatest(p)
      BY <3>1, <3>8 DEF TruncateWindow, FillWindow, WriteLatest, Commanded
    <3>9. CASE pc'[p] # "idle" /\ (ListWindows(p) \/ ExportEvents(p) \/ ExportWindows(p))
      BY <3>1, <3>9 DEF ListWindows, ExportEvents, ExportWindows, Fail, End, Reset, Commanded
    <3>10. CASE pc'[p] # "idle" /\ (SelectWindow(p) \/ SelectEvents(p))
      BY <3>1, <3>10 DEF SelectWindow, SelectEvents, Fail, End, Reset, Commanded
    <3>11. CASE Crash(p) \/ TearAppend(p)
      <4>1. pc'[p] = "idle"  BY <3>1, <3>11 DEF Crash, TearAppend, Reset
      <4>2. QED  BY <3>2, <4>1
    <3>12. QED
      BY <1>2, <3>2, <3>3, <3>4, <3>5, <3>6, <3>7, <3>8, <3>9, <3>10, <3>11 DEF Step, Work
  <2>3. QED  BY <2>1, <2>2 DEF Commanded
<1>3. QED  BY <1>1, <1>2 DEF Next, Step

-----------------------------------------------------------------------------
(* Nothing readable is ever lost from the log.                             *)

Safe(i) == i \in DOMAIN events /\ events[i] # Garbage /\ (openTail => i < Len(events))

(* What every step does to the log: unreadable it stays unreadable, a safe *)
(* line stays safe, and a log that can still be read has kept its lines.   *)
LogKept ==
  /\ ~LogReadable => ~LogReadable'
  /\ \A i \in Nat : Safe(i) => Safe(i)'
  /\ LogReadable' => \A i \in DOMAIN events : i \in DOMAIN events' /\ events'[i] = events[i]

(* Creating the log destroys nothing: it is not there. *)
Creation ==
  /\ ~Fresh => eventsExist
  /\ ~eventsExist => events = <<>>
  /\ \A p \in Proc : pc[p] = "create" => ~eventsExist

(* An append, whole or torn, loses no readable line. *)
LEMMA AppendKeepsLog ==
  ASSUME StoreInv, NEW lines \in Seq(Line), events' = Appended(lines),
         openTail' => (openTail /\ lines = <<>>) \/ lines # <<>>
  PROVE  LogKept
<1>1. events \in Seq(Line) /\ openTail \in BOOLEAN /\ (openTail => events # <<>>)
  BY DEF StoreInv, TypeOK, Line, Numbering
<1>2. /\ events' \in Seq(Line)
      /\ Len(events') = IF openTail /\ lines # <<>> THEN Len(events) + Len(lines) - 1
                        ELSE Len(events) + Len(lines)
      /\ Len(events') >= Len(events)
      /\ \A i \in 1 .. Len(events) :
           events'[i] = IF openTail /\ lines # <<>> /\ i = Len(events) THEN Garbage ELSE events[i]
  BY <1>1, AppendedLines
<1>3. PICK n \in Nat, m \in Nat, l \in Nat : n = Len(events) /\ m = Len(events') /\ l = Len(lines)
  BY <1>1, <1>2
<1>4. /\ DOMAIN events = 1 .. n /\ DOMAIN events' = 1 .. m /\ n <= m
      /\ lines # <<>> => l >= 1
      /\ m = IF openTail /\ lines # <<>> THEN n + l - 1 ELSE n + l
      /\ \A i \in 1 .. n :
           events'[i] = IF openTail /\ lines # <<>> /\ i = n THEN Garbage ELSE events[i]
  BY <1>1, <1>2, <1>3
<1>5. \A i \in 1 .. n : i \in 1 .. m  BY <1>4
<1>6. ~LogReadable => ~LogReadable'
  <2>1. SUFFICES ASSUME NEW i \in 1 .. n, events[i] = Garbage
                 PROVE  i \in 1 .. m /\ events'[i] = Garbage
    BY <1>4 DEF LogReadable
  <2>2. QED  BY <1>4, <1>5, <2>1
<1>7. ASSUME LogReadable', NEW i \in 1 .. n
      PROVE  i \in 1 .. m /\ events'[i] = events[i]
  <2>1. events'[i] # Garbage  BY <1>4, <1>5, <1>7 DEF LogReadable
  <2>2. QED  BY <1>4, <1>5, <2>1
<1>8. ASSUME NEW i \in Nat, Safe(i) PROVE Safe(i)'
  <2>1. i \in 1 .. n /\ events[i] # Garbage /\ (openTail => i < n)
    BY <1>3, <1>4, <1>8 DEF Safe
  <2>2. events'[i] = events[i]  BY <1>4, <2>1
  <2>3. openTail' => i < m
    <3>1. CASE lines = <<>>  BY <1>4, <2>1, <3>1
    <3>2. CASE lines # <<>>  BY <1>4, <2>1, <3>2
    <3>3. QED  BY <3>1, <3>2
  <2>4. QED  BY <1>3, <1>4, <1>5, <2>1, <2>2, <2>3 DEF Safe
<1>9. QED  BY <1>4, <1>6, <1>7, <1>8 DEF LogKept

(* Neither does a step that leaves the log alone. *)
LEMMA SameLogKept == UNCHANGED <<events, openTail>> => LogKept
BY DEF LogKept, LogReadable, Safe

(* No step loses a readable line, when no log is created over another. *)
LEMMA EveryStepKeepsLog ==
  ASSUME StoreInv, Creation, [Next]_vars
  PROVE  LogKept
<1>1. ASSUME NEW p \in Proc, CreateLog(p) PROVE LogKept
  <2>1. events = <<>> /\ events' = <<>>  BY <1>1 DEF CreateLog, Creation
  <2>2. QED  BY <2>1 DEF LogKept, LogReadable, Safe
<1>2. ASSUME NEW p \in Proc, AppendEvents(p) PROVE LogKept
  <2>1. LinesOf(p) \in Seq(Line) /\ Len(LinesOf(p)) = Len(batch[p]) /\ batch[p] \in Seq(Payload)
    BY IngestTypes DEF StoreInv, TypeOK
  <2>2. batch[p] = <<>> <=> LinesOf(p) = <<>>  BY <2>1
  <2>3. events' = Appended(LinesOf(p)) /\ openTail' = (openTail /\ batch[p] = <<>>)
    BY <1>2 DEF AppendEvents
  <2>4. QED  BY <2>1, <2>2, <2>3, AppendKeepsLog
<1>3. ASSUME NEW p \in Proc, TearAppend(p) PROVE LogKept
  <2>0. PICK k \in 0 .. Len(batch[p]), end \in {"line", "partial", "nonewline"} :
          LET lines == SubSeq(LinesOf(p), 1, k) \o (IF end = "partial" THEN <<Garbage>> ELSE <<>>)
          IN  lines # <<>> /\ events' = Appended(lines) /\ openTail' = (end # "line")
    BY <1>3 DEF TearAppend
  <2>1. PICK written :
          /\ written = SubSeq(LinesOf(p), 1, k) \o (IF end = "partial" THEN <<Garbage>> ELSE <<>>)
          /\ written # <<>>
          /\ events' = Appended(written)
    BY <2>0
  <2>2. written \in Seq(Line)  BY <2>1, WrittenLines DEF StoreInv
  <2>3. QED  BY <2>1, <2>2, AppendKeepsLog
<1>4. ASSUME NEW p \in Proc,
             \/ Begin(p) \/ CheckLog(p)
             \/ ManifestWindows(p) \/ ManifestEvents(p) \/ OpenManifest(p) \/ CloseManifest(p)
             \/ ReadSequence(p) \/ ReadOffset(p)
             \/ TruncateWindow(p) \/ FillWindow(p) \/ WriteLatest(p)
             \/ ListWindows(p) \/ ExportEvents(p) \/ ExportWindows(p)
             \/ SelectWindow(p) \/ SelectEvents(p) \/ Crash(p)
      PROVE  UNCHANGED <<events, openTail>>
  BY <1>4 DEF Begin, Start, CheckLog, ManifestWindows, ManifestEvents, OpenManifest, CloseManifest,
     WriteManifest, ReadSequence, ReadOffset, TruncateWindow, FillWindow, WriteLatest, ListWindows,
     ExportEvents, ExportWindows, SelectWindow, SelectEvents, Crash, Fail, files
<1>5. CASE UNCHANGED vars  BY <1>5, SameLogKept DEF vars, files
<1>6. QED  BY <1>1, <1>2, <1>3, <1>4, <1>5, SameLogKept DEF Next, Work

(* Without a race of creations, the log is created only while absent. *)
LEMMA CreationPreserved ==
  ASSUME NoInitRace, StoreInv, Commanded, Creation, [Next]_vars
  PROVE  Creation'
<1>1. CASE UNCHANGED vars  BY <1>1 DEF vars, files, local, Creation
<1>2. ASSUME NEW p \in Proc, CreateLog(p) PROVE Creation'
  <2>1. eventsExist' = TRUE /\ pc' = [pc EXCEPT ![p] = "openWindows"] /\ pc[p] = "create"
    BY <1>2 DEF CreateLog, GoTo
  <2>2. ASSUME NEW q \in Proc PROVE pc'[q] # "create"
    <3>1. ~eventsExist  BY <2>1 DEF Creation
    <3>2. pc'[q] = "create" => q = p
      <4>1. SUFFICES ASSUME pc'[q] = "create", q # p PROVE FALSE  OBVIOUS
      <4>2. pc[q] = "create"  BY <2>1, <4>1 DEF StoreInv, TypeOK
      <4>3. Creates(p) /\ Creates(q)  BY <2>1, <4>2 DEF Commanded, Creates
      <4>4. QED  BY <3>1, <4>1, <4>3 DEF Creation, NoInitRace
    <3>3. QED  BY <2>1, <3>2 DEF StoreInv, TypeOK
  <2>3. QED  BY <2>1, <2>2 DEF Creation
<1>3. ASSUME NEW p \in Proc, AppendEvents(p) \/ TearAppend(p) PROVE Creation'
  <2>1. \A q \in Proc : pc'[q] # "create"
    <3>1. pc[p] = "append" /\ \A q \in Proc : pc'[q] = "create" => pc[q] = "create" /\ q # p
      BY <1>3 DEF AppendEvents, TearAppend, Reset, GoTo, StoreInv, TypeOK
    <3>2. ASSUME NEW q \in Proc, pc'[q] = "create" PROVE FALSE
      <4>1. pc[q] = "create" /\ q # p  BY <3>1, <3>2
      <4>2. ~eventsExist  BY <4>1 DEF Creation
      <4>3. Creates(p) /\ Creates(q)  BY <3>1, <4>1 DEF Commanded, Creates, Ingesting
      <4>4. QED  BY <4>1, <4>2, <4>3 DEF Creation, NoInitRace
    <3>3. QED  BY <3>2
  <2>2. eventsExist => eventsExist'  BY <1>3 DEF AppendEvents, TearAppend, StoreInv, TypeOK
  <2>3. ~eventsExist' => events' = <<>>
    <3>1. SUFFICES ASSUME ~eventsExist' PROVE events' = <<>>  OBVIOUS
    <3>2. AppendEvents(p) /\ batch[p] = <<>> /\ ~eventsExist
      BY <1>3, <3>1 DEF AppendEvents, TearAppend, StoreInv, TypeOK
    <3>3. events = <<>> /\ LinesOf(p) = <<>>
      BY <3>2 DEF Creation, LinesOf
    <3>4. QED  BY <3>2, <3>3 DEF AppendEvents, Appended
  <2>4. QED  BY <2>1, <2>2, <2>3 DEF Creation
<1>4. ASSUME NEW p \in Proc, CheckLog(p) PROVE Creation'
  BY <1>4 DEF CheckLog, GoTo, files, Creation, StoreInv, TypeOK
<1>5. ASSUME NEW p \in Proc,
             \/ Begin(p)
             \/ ManifestWindows(p) \/ ManifestEvents(p) \/ OpenManifest(p) \/ CloseManifest(p)
             \/ ReadSequence(p) \/ ReadOffset(p)
             \/ TruncateWindow(p) \/ FillWindow(p) \/ WriteLatest(p)
             \/ ListWindows(p) \/ ExportEvents(p) \/ ExportWindows(p)
             \/ SelectWindow(p) \/ SelectEvents(p) \/ Crash(p)
      PROVE  Creation'
  <2>1. UNCHANGED <<events, eventsExist>>
    BY <1>5 DEF Begin, Start, ManifestWindows, ManifestEvents, OpenManifest, CloseManifest,
       WriteManifest, ReadSequence, ReadOffset, TruncateWindow, FillWindow, WriteLatest, ListWindows,
       ExportEvents, ExportWindows, SelectWindow, SelectEvents, Crash, Fail, files
  <2>2. \A q \in Proc : pc'[q] = "create" => pc[q] = "create"
    BY <1>5 DEF Begin, Start, ManifestWindows, ManifestEvents, OpenManifest, CloseManifest,
       WriteManifest, ReadSequence, ReadOffset, TruncateWindow, FillWindow, WriteLatest, ListWindows,
       ExportEvents, ExportWindows, SelectWindow, SelectEvents, Crash, Fail, End, Reset, GoTo,
       StoreInv, TypeOK
  <2>3. QED  BY <2>1, <2>2 DEF Creation
<1>6. QED  BY <1>1, <1>2, <1>3, <1>4, <1>5 DEF Next, Work
-----------------------------------------------------------------------------
(* Acknowledged events.  Behind its append an ingest either has all its    *)
(* lines safely in the log or has glued the first one to an open line, and *)
(* then the log stays unreadable and the closing manifest refuses it.      *)

Appending == {"truncate", "fill", "latest", "closeWindows", "closeEvents"}

OwnSafe(p) == \A i \in base[p] + 1 .. base[p] + Len(batch[p]) : Safe(i)

AckInv ==
  /\ \A i \in acked : Safe(i)
  /\ \A p \in Proc : pc[p] \in Appending => ~LogReadable \/ OwnSafe(p)
  /\ \A p \in Proc : pc[p] = "closeManifest" => OwnSafe(p)

(* The lines of an ingest, once safe, stay so to its end. *)
LEMMA OwnStaysSafe ==
  ASSUME StoreInv, LogKept, NEW p \in Proc, OwnSafe(p), base'[p] = base[p], batch'[p] = batch[p]
  PROVE  OwnSafe(p)'
<1>1. base[p] \in Nat /\ Len(batch[p]) \in Nat  BY DEF StoreInv, TypeOK
<1>2. base[p] + 1 .. base[p] + Len(batch[p]) \subseteq Nat  BY <1>1
<1>3. QED  BY <1>2 DEF OwnSafe, LogKept

(* A step that acknowledges nothing and takes no process past its append   *)
(* or its last reading of the log keeps the invariant.                     *)
LEMMA AckKept ==
  ASSUME StoreInv, LogKept, AckInv, acked' = acked,
         \A p \in Proc : pc'[p] \in Appending =>
           pc[p] \in Appending /\ base'[p] = base[p] /\ batch'[p] = batch[p],
         \A p \in Proc : pc'[p] = "closeManifest" =>
           pc[p] = "closeManifest" /\ base'[p] = base[p] /\ batch'[p] = batch[p]
  PROVE  AckInv'
<1>1. \A i \in acked' : Safe(i)'  BY DEF AckInv, LogKept, StoreInv, TypeOK
<1>2. ASSUME NEW p \in Proc, pc'[p] \in Appending PROVE ~LogReadable' \/ OwnSafe(p)'
  BY <1>2, OwnStaysSafe DEF AckInv, LogKept
<1>3. ASSUME NEW p \in Proc, pc'[p] = "closeManifest" PROVE OwnSafe(p)'
  BY <1>3, OwnStaysSafe DEF AckInv
<1>4. QED  BY <1>1, <1>2, <1>3 DEF AckInv

(* An append puts the whole batch safely into the log or spoils it. *)
LEMMA AppendedSafely ==
  ASSUME StoreInv, NEW p \in Proc, AppendEvents(p)
  PROVE  \/ ~LogReadable'
         \/ /\ OwnSafe(p)'
            /\ \A j \in 1 .. Len(batch[p]) : \E i \in DOMAIN events' : events'[i] = EventOf(p, j)
<1>1. /\ LinesOf(p) \in Seq(Line) /\ Len(LinesOf(p)) = Len(batch[p]) /\ batch[p] \in Seq(Payload)
      /\ \A i \in 1 .. Len(batch[p]) : LinesOf(p)[i] = EventOf(p, i) /\ LinesOf(p)[i] \in Event
  BY IngestTypes DEF StoreInv, TypeOK
<1>2. events \in Seq(Line) /\ openTail \in BOOLEAN /\ (openTail => events # <<>>)
  BY DEF StoreInv, TypeOK, Line, Numbering
<1>3. /\ events' = Appended(LinesOf(p)) /\ openTail' = (openTail /\ batch[p] = <<>>)
      /\ base'[p] = Len(events') - Len(batch[p]) /\ batch'[p] = batch[p]
  <2>1. /\ base' = [base EXCEPT ![p] = Len(events') - Len(batch[p])] /\ batch' = batch
        /\ events' = Appended(LinesOf(p)) /\ openTail' = (openTail /\ batch[p] = <<>>)
    BY DEF AppendEvents
  <2>2. DOMAIN base = Proc  BY DEF StoreInv, TypeOK
  <2>3. QED  BY <2>1, <2>2
<1>4. PICK n \in Nat, m \in Nat, l \in Nat : n = Len(events) /\ m = Len(events') /\ l = Len(batch[p])
  BY <1>1, <1>2, <1>3, AppendedLines
<1>5. /\ DOMAIN events' = 1 .. m /\ n <= m
      /\ m = IF openTail /\ LinesOf(p) # <<>> THEN n + l - 1 ELSE n + l
      /\ \A i \in 1 .. n :
           events'[i] = IF openTail /\ LinesOf(p) # <<>> /\ i = n THEN Garbage ELSE events[i]
      /\ \A j \in 1 .. l : (openTail => j > 1) => events'[m - l + j] = LinesOf(p)[j]
  <2>1. PICK lines \in Seq(Line) : lines = LinesOf(p) /\ Len(lines) = l  BY <1>1, <1>4
  <2>2. events' = Appended(lines)  BY <1>3, <2>1
  <2>3. /\ Appended(lines) \in Seq(Line)
        /\ Len(Appended(lines)) = IF openTail /\ lines # <<>> THEN Len(events) + Len(lines) - 1
                                  ELSE Len(events) + Len(lines)
        /\ Len(Appended(lines)) >= Len(events)
        /\ \A i \in 1 .. Len(events) :
             Appended(lines)[i] = IF openTail /\ lines # <<>> /\ i = Len(events) THEN Garbage ELSE events[i]
        /\ \A j \in 1 .. Len(lines) :
             (openTail => j > 1) =>
               Appended(lines)[Len(Appended(lines)) - Len(lines) + j] = lines[j]
    BY <1>2, AppendedLines
  <2>4. DOMAIN events' = 1 .. m /\ n <= m  BY <1>4, <2>2, <2>3
  <2>5. m = IF openTail /\ lines # <<>> THEN n + l - 1 ELSE n + l  BY <1>4, <2>1, <2>2, <2>3
  <2>6. \A j \in 1 .. l : (openTail => j > 1) => events'[m - l + j] = lines[j]
    BY <1>4, <2>1, <2>2, <2>3
  <2>7. \A i \in 1 .. n : events'[i] = IF openTail /\ lines # <<>> /\ i = n THEN Garbage ELSE events[i]
    BY <1>4, <2>2, <2>3
  <2>8. QED  BY <2>1, <2>4, <2>5, <2>6, <2>7
<1>6. CASE openTail /\ LinesOf(p) # <<>>
  <2>1. n \in 1 .. n /\ n \in 1 .. m /\ events'[n] = Garbage  BY <1>2, <1>4, <1>5, <1>6
  <2>2. QED  BY <1>5, <2>1 DEF LogReadable
<1>7. CASE LinesOf(p) = <<>>
  <2>1. l = 0  BY <1>1, <1>4, <1>7
  <2>2. base'[p] + 1 .. base'[p] + Len(batch'[p]) = {}  BY <1>3, <1>4, <2>1
  <2>3. 1 .. Len(batch[p]) = {}  BY <1>4, <2>1
  <2>4. QED  BY <2>2, <2>3 DEF OwnSafe
<1>8. CASE ~openTail
  <2>1. ASSUME NEW i \in base'[p] + 1 .. base'[p] + Len(batch'[p]) PROVE Safe(i)'
    <3>1. i \in m - l + 1 .. m /\ m = n + l  BY <1>3, <1>4, <1>5, <1>8
    <3>2. i \in 1 .. m /\ i - (m - l) \in 1 .. l /\ m - l + (i - (m - l)) = i  BY <3>1, <1>4
    <3>3. events'[i] = LinesOf(p)[i - (m - l)]  BY <1>5, <1>8, <3>2
    <3>4. events'[i] \in Event  BY <1>1, <1>4, <3>2, <3>3
    <3>5. QED  BY <1>3, <1>5, <1>8, <3>2, <3>4, StoreAssumption DEF Safe
  <2>2. ASSUME NEW j \in 1 .. Len(batch[p])
        PROVE  \E i \in DOMAIN events' : events'[i] = EventOf(p, j)
    <3>1. j \in 1 .. l /\ m = n + l  BY <1>4, <1>5, <1>8
    <3>2. m - l + j \in 1 .. m  BY <3>1
    <3>3. events'[m - l + j] = EventOf(p, j)  BY <1>1, <1>4, <1>5, <1>8, <3>1
    <3>4. QED  BY <1>5, <3>2, <3>3
  <2>3. QED  BY <2>1, <2>2 DEF OwnSafe
<1>9. QED  BY <1>2, <1>6, <1>7, <1>8

(* Every step keeps the acknowledged events, and what awaits its report. *)
LEMMA AckPreserved ==
  ASSUME NoInitRace, StoreInv, Creation, AckInv, [Next]_vars
  PROVE  AckInv'
<1>1. LogKept  BY EveryStepKeepsLog
<1>2. CASE UNCHANGED vars
  BY <1>1, <1>2, AckKept DEF vars, local, ghosts
<1>3. ASSUME NEW p \in Proc, AppendEvents(p) PROVE AckInv'
  <2>1. /\ acked' = acked /\ batch' = batch
        /\ \A q \in Proc : pc'[q] = IF q = p THEN "truncate" ELSE pc[q]
        /\ \A q \in Proc \ {p} : base'[q] = base[q]
    BY <1>3 DEF AppendEvents, GoTo, StoreInv, TypeOK
  <2>2. \A i \in acked' : Safe(i)'  BY <1>1, <2>1 DEF AckInv, LogKept, StoreInv, TypeOK
  <2>3. ASSUME NEW q \in Proc, pc'[q] \in Appending PROVE ~LogReadable' \/ OwnSafe(q)'
    <3>1. CASE q = p  BY <1>3, <3>1, AppendedSafely
    <3>2. CASE q # p  BY <1>1, <2>1, <2>3, <3>2, OwnStaysSafe DEF AckInv, LogKept
    <3>3. QED  BY <3>1, <3>2
  <2>4. ASSUME NEW q \in Proc, pc'[q] = "closeManifest" PROVE OwnSafe(q)'
    BY <1>1, <2>1, <2>4, OwnStaysSafe DEF AckInv
  <2>5. QED  BY <2>2, <2>3, <2>4 DEF AckInv
<1>4. ASSUME NEW p \in Proc, ManifestEvents(p) PROVE AckInv'
  <2>1. acked' = acked  BY <1>4 DEF ManifestEvents, Fail, ghosts
  <2>2. ASSUME NEW q \in Proc, pc'[q] \in Appending
        PROVE  pc[q] \in Appending /\ base'[q] = base[q] /\ batch'[q] = batch[q]
    BY <1>4, <2>2 DEF ManifestEvents, Fail, End, Reset, GoTo, ghosts, Appending, StoreInv, TypeOK
  <2>3. ASSUME NEW q \in Proc, pc'[q] = "closeManifest" PROVE OwnSafe(q)'
    <3>1. /\ base'[q] = base[q] /\ batch'[q] = batch[q]
          /\ pc[q] = "closeManifest" \/ (pc[q] = "closeEvents" /\ LogReadable)
      BY <1>4, <2>3 DEF ManifestEvents, Fail, End, Reset, GoTo, ghosts, StoreInv, TypeOK
    <3>2. OwnSafe(q)  BY <3>1 DEF AckInv, Appending
    <3>3. QED  BY <1>1, <3>1, <3>2, OwnStaysSafe
  <2>4. \A i \in acked' : Safe(i)'  BY <1>1, <2>1 DEF AckInv, LogKept, StoreInv, TypeOK
  <2>5. ASSUME NEW q \in Proc, pc'[q] \in Appending PROVE ~LogReadable' \/ OwnSafe(q)'
    BY <1>1, <2>2, <2>5, OwnStaysSafe DEF AckInv, LogKept
  <2>6. QED  BY <2>3, <2>4, <2>5 DEF AckInv
<1>5. ASSUME NEW p \in Proc, CloseManifest(p) PROVE AckInv'
  <2>1. /\ pc[p] = "closeManifest"
        /\ acked' = acked \cup (base[p] + 1 .. base[p] + Len(batch[p]))
        /\ \A q \in Proc : pc'[q] = IF q = p THEN "idle" ELSE pc[q]
        /\ \A q \in Proc \ {p} : base'[q] = base[q] /\ batch'[q] = batch[q]
    BY <1>5 DEF CloseManifest, End, Reset, GoTo, StoreInv, TypeOK
  <2>2. base[p] + 1 .. base[p] + Len(batch[p]) \subseteq Nat
    <3>1. base[p] \in Nat /\ Len(batch[p]) \in Nat  BY DEF StoreInv, TypeOK
    <3>2. QED  BY <3>1
  <2>3. OwnSafe(p)  BY <2>1 DEF AckInv
  <2>4. ASSUME NEW i \in acked' PROVE Safe(i)'
    <3>1. Safe(i) /\ i \in Nat  BY <2>1, <2>2, <2>3, <2>4 DEF AckInv, OwnSafe, StoreInv, TypeOK
    <3>2. QED  BY <1>1, <3>1 DEF LogKept
  <2>5. ASSUME NEW q \in Proc, pc'[q] \in Appending PROVE ~LogReadable' \/ OwnSafe(q)'
    <3>1. q # p  BY <2>1, <2>5 DEF Appending
    <3>2. QED  BY <1>1, <2>1, <2>5, <3>1, OwnStaysSafe DEF AckInv, LogKept
  <2>6. ASSUME NEW q \in Proc, pc'[q] = "closeManifest" PROVE OwnSafe(q)'
    <3>1. q # p  BY <2>1, <2>6
    <3>2. QED  BY <1>1, <2>1, <2>6, <3>1, OwnStaysSafe DEF AckInv
  <2>7. QED  BY <2>4, <2>5, <2>6 DEF AckInv
<1>6. ASSUME NEW p \in Proc,
             \/ Begin(p) \/ CheckLog(p) \/ CreateLog(p)
             \/ ManifestWindows(p) \/ OpenManifest(p)
             \/ ReadSequence(p) \/ ReadOffset(p)
             \/ TruncateWindow(p) \/ FillWindow(p) \/ WriteLatest(p)
             \/ ListWindows(p) \/ ExportEvents(p) \/ ExportWindows(p)
             \/ SelectWindow(p) \/ SelectEvents(p) \/ Crash(p) \/ TearAppend(p)
      PROVE  AckInv'
  <2>1. acked' = acked
    BY <1>6 DEF Begin, Start, CheckLog, CreateLog, ManifestWindows, OpenManifest, ReadSequence, ReadOffset,
       TruncateWindow, FillWindow, WriteLatest, ListWindows, ExportEvents, ExportWindows,
       SelectWindow, SelectEvents, Crash, TearAppend, Fail, ghosts
  <2>0. DOMAIN pc = Proc /\ DOMAIN base = Proc /\ DOMAIN batch = Proc  BY DEF StoreInv, TypeOK
  <2>2. ASSUME NEW q \in Proc, pc'[q] \in Appending
        PROVE  pc[q] \in Appending /\ base'[q] = base[q] /\ batch'[q] = batch[q]
    <3>1. CASE Begin(p) \/ CheckLog(p) \/ CreateLog(p) \/ OpenManifest(p) \/ ReadSequence(p)
               \/ ReadOffset(p)
      <4>1. pc'[p] \notin Appending
        <5>1. CASE Begin(p)
          BY <5>1 DEF Begin, Start, GoTo, Appending, StoreInv, TypeOK
        <5>2. CASE CheckLog(p) \/ CreateLog(p) \/ OpenManifest(p)
          BY <5>2 DEF CheckLog, CreateLog, OpenManifest, Fail, End, Reset, GoTo, Appending, StoreInv, TypeOK
        <5>3. CASE ReadSequence(p) \/ ReadOffset(p)
          BY <5>3 DEF ReadSequence, ReadOffset, Fail, End, Reset, GoTo, Appending, StoreInv, TypeOK
        <5>4. QED  BY <3>1, <5>1, <5>2, <5>3
      <4>2. q # p => pc'[q] = pc[q] /\ base'[q] = base[q] /\ batch'[q] = batch[q]
        <5>1. CASE Begin(p) \/ CheckLog(p) \/ CreateLog(p)
          BY <2>0, <5>1 DEF Begin, Start, CheckLog, CreateLog, GoTo, ghosts
        <5>2. CASE OpenManifest(p) \/ ReadSequence(p) \/ ReadOffset(p)
          BY <2>0, <5>2 DEF OpenManifest, ReadSequence, ReadOffset, Fail, End, Reset, GoTo, ghosts
        <5>3. QED  BY <3>1, <5>1, <5>2
      <4>3. QED  BY <2>2, <4>1, <4>2
    <3>2. CASE ManifestWindows(p)
      BY <2>2, <3>2 DEF ManifestWindows, Fail, End, Reset, GoTo, ghosts, Appending, StoreInv, TypeOK
    <3>3. CASE TruncateWindow(p) \/ FillWindow(p) \/ WriteLatest(p)
      <4>1. pc[p] \in Appending /\ base' = base /\ batch' = batch
        BY <3>3 DEF TruncateWindow, FillWindow, WriteLatest, ghosts, Appending
      <4>2. q # p => pc'[q] = pc[q]
        BY <3>3 DEF TruncateWindow, FillWindow, WriteLatest, GoTo, StoreInv, TypeOK
      <4>3. QED  BY <2>2, <4>1, <4>2
    <3>4. CASE ListWindows(p) \/ ExportEvents(p) \/ ExportWindows(p)
      BY <2>2, <3>4 DEF ListWindows, ExportEvents, ExportWindows,
         Fail, End, Reset, GoTo, ghosts, Appending, StoreInv, TypeOK
    <3>5. CASE SelectWindow(p) \/ SelectEvents(p)
      BY <2>2, <3>5 DEF SelectWindow, SelectEvents, Fail, End, Reset, GoTo, ghosts, Appending, StoreInv, TypeOK
    <3>6. CASE Crash(p) \/ TearAppend(p)
      BY <2>2, <3>6 DEF Crash, TearAppend, Reset, GoTo, Appending, StoreInv, TypeOK
    <3>7. QED  BY <1>6, <3>1, <3>2, <3>3, <3>4, <3>5, <3>6
  <2>3. ASSUME NEW q \in Proc, pc'[q] = "closeManifest"
        PROVE  pc[q] = "closeManifest" /\ base'[q] = base[q] /\ batch'[q] = batch[q]
    <3>1. CASE Begin(p) \/ CheckLog(p) \/ CreateLog(p)
      BY <2>0, <2>3, <3>1 DEF Begin, Start, CheckLog, CreateLog, GoTo, ghosts
    <3>2. CASE ManifestWindows(p) \/ OpenManifest(p)
      BY <2>0, <2>3, <3>2 DEF ManifestWindows, OpenManifest, Fail, End, Reset, GoTo, ghosts
    <3>3. CASE ReadSequence(p) \/ ReadOffset(p)
      BY <2>0, <2>3, <3>3 DEF ReadSequence, ReadOffset, Fail, End, Reset, GoTo, ghosts
    <3>4. CASE TruncateWindow(p) \/ FillWindow(p) \/ WriteLatest(p)
      BY <2>0, <2>3, <3>4 DEF TruncateWindow, FillWindow, WriteLatest, GoTo, ghosts
    <3>5. CASE ListWindows(p) \/ ExportEvents(p) \/ ExportWindows(p)
      BY <2>0, <2>3, <3>5 DEF ListWindows, ExportEvents, ExportWindows, Fail, End, Reset, GoTo, ghosts
    <3>6. CASE SelectWindow(p) \/ SelectEvents(p)
      BY <2>0, <2>3, <3>6 DEF SelectWindow, SelectEvents, Fail, End, Reset, GoTo, ghosts
    <3>7. CASE Crash(p) \/ TearAppend(p)
      BY <2>0, <2>3, <3>7 DEF Crash, TearAppend, Reset, GoTo
    <3>8. QED  BY <1>6, <3>1, <3>2, <3>3, <3>4, <3>5, <3>6, <3>7
  <2>4. QED  BY <1>1, <2>1, <2>2, <2>3, AckKept
<1>7. QED  BY <1>2, <1>3, <1>4, <1>5, <1>6 DEF Next, Work

(* An event reported as ingested stays in the log and readable, through    *)
(* crashes, torn appends and concurrent ingests, when the log exists       *)
(* beforehand or one process works at a time.                              *)
THEOREM AcknowledgedEventsIntact ==
  ASSUME NoInitRace
  PROVE  Spec => []AcknowledgedIntact
<1>1. Init => Commanded /\ Creation /\ AckInv
  BY InitialCommands DEF Init, Creation, AckInv, Appending
<1>2. StoreInv /\ Commanded /\ Creation /\ AckInv /\ [Next]_vars => Commanded' /\ Creation' /\ AckInv'
  BY CommandedPreserved, CreationPreserved, AckPreserved DEF StoreInv
<1>3. AckInv => AcknowledgedIntact  BY DEF AckInv, AcknowledgedIntact, Safe
<1>4. QED  BY <1>1, <1>2, <1>3, InitialTypes, TypesPreserved, PTL DEF Spec
-----------------------------------------------------------------------------
(* Write-ahead order.  While the log can be read, an ingest behind its     *)
(* append finds its events there, and so does every index ever filled.     *)

Found(p) == \A j \in 1 .. Len(batch[p]) : \E i \in DOMAIN events : events[i] = EventOf(p, j)

LoggedInv ==
  /\ LogReadable => \A p \in Proc : pc[p] \in {"truncate", "fill"} => Found(p)
  /\ IndexedEventsLogged

IndexLogged(k, index, es) ==
  \A j \in DOMAIN index.ids : \E i \in DOMAIN es :
    IdOf(es[i]) = index.ids[j] /\ es[i].win = k

(* The events of an ingest, once all in the log, stay there. *)
LEMMA FoundStays ==
  ASSUME LogKept, LogReadable', NEW p \in Proc, Found(p),
         batch'[p] = batch[p], offset'[p] = offset[p], seq'[p] = seq[p]
  PROVE  Found(p)'
<1>1. \A j : EventOf(p, j)' = EventOf(p, j)  BY DEF EventOf
<1>2. \A i \in DOMAIN events : i \in DOMAIN events' /\ events'[i] = events[i]  BY DEF LogKept
<1>3. QED  BY <1>1, <1>2 DEF Found

(* An index whose events are logged stays so while the log grows. *)
LEMMA IndexStays ==
  ASSUME LogKept, LogReadable', NEW k, NEW index, IndexLogged(k, index, events)
  PROVE  IndexLogged(k, index, events')
<1>1. \A i \in DOMAIN events : i \in DOMAIN events' /\ events'[i] = events[i]  BY DEF LogKept
<1>2. ASSUME NEW j \in DOMAIN index.ids
      PROVE  \E i \in DOMAIN events' : IdOf(events'[i]) = index.ids[j] /\ events'[i].win = k
  <2>1. PICK i \in DOMAIN events : IdOf(events[i]) = index.ids[j] /\ events[i].win = k
    BY DEF IndexLogged
  <2>2. i \in DOMAIN events' /\ events'[i] = events[i]  BY <1>1
  <2>3. QED  BY <2>1, <2>2
<1>3. QED  BY <1>2 DEF IndexLogged

(* A step that fills no window file and takes no process past its append   *)
(* keeps the invariant.                                                    *)
LEMMA LoggedKept ==
  ASSUME LogKept, LoggedInv,
         \A k \in DOMAIN windows' : windows'[k] = Empty \/ (k \in DOMAIN windows /\ windows'[k] = windows[k]),
         \A p \in Proc : pc'[p] \in {"truncate", "fill"} =>
           /\ pc[p] \in {"truncate", "fill"}
           /\ batch'[p] = batch[p] /\ offset'[p] = offset[p] /\ seq'[p] = seq[p]
  PROVE  LoggedInv'
<1>1. SUFFICES ASSUME LogReadable' PROVE LoggedInv'
  BY DEF LoggedInv, IndexedEventsLogged
<1>2. LogReadable  BY <1>1 DEF LogKept
<1>3. ASSUME NEW p \in Proc, pc'[p] \in {"truncate", "fill"} PROVE Found(p)'
  BY <1>1, <1>2, <1>3, FoundStays DEF LoggedInv
<1>4. ASSUME NEW k \in DOMAIN windows', windows'[k] \notin {Empty, Garbage}
      PROVE  IndexLogged(k, windows'[k], events')
  <2>1. k \in DOMAIN windows /\ windows'[k] = windows[k]  BY <1>4
  <2>2. IndexLogged(k, windows[k], events)
    BY <1>2, <1>4, <2>1 DEF LoggedInv, IndexedEventsLogged, IndexLogged
  <2>3. QED  BY <1>1, <2>1, <2>2, IndexStays
<1>5. IndexedEventsLogged'  BY <1>4 DEF IndexedEventsLogged, IndexLogged
<1>6. QED  BY <1>3, <1>5 DEF LoggedInv

(* Every step keeps each window index backed by the log. *)
LEMMA LoggedPreserved ==
  ASSUME NoInitRace, StoreInv, Creation, LoggedInv, [Next]_vars
  PROVE  LoggedInv'
<1>1. LogKept  BY EveryStepKeepsLog
<1>2. CASE UNCHANGED vars
  BY <1>1, <1>2, LoggedKept DEF vars, files, local
<1>3. ASSUME NEW p \in Proc, AppendEvents(p) PROVE LoggedInv'
  <2>1. SUFFICES ASSUME LogReadable' PROVE LoggedInv'
    BY DEF LoggedInv, IndexedEventsLogged
  <2>2. LogReadable  BY <1>1, <2>1 DEF LogKept
  <2>3. /\ windows' = windows /\ batch' = batch /\ offset' = offset /\ seq' = seq
        /\ \A q \in Proc \ {p} : pc'[q] = pc[q]
    BY <1>3 DEF AppendEvents, GoTo, StoreInv, TypeOK
  <2>4. Found(p)'
    <3>1. \A j \in 1 .. Len(batch[p]) : \E i \in DOMAIN events' : events'[i] = EventOf(p, j)
      BY <1>3, <2>1, AppendedSafely
    <3>2. \A j : EventOf(p, j)' = EventOf(p, j)  BY <2>3 DEF EventOf
    <3>3. QED  BY <2>3, <3>1, <3>2 DEF Found
  <2>5. ASSUME NEW q \in Proc, pc'[q] \in {"truncate", "fill"} PROVE Found(q)'
    <3>1. CASE q = p  BY <2>4, <3>1
    <3>2. CASE q # p
      <4>1. Found(q)  BY <2>2, <2>3, <2>5, <3>2 DEF LoggedInv
      <4>2. QED  BY <1>1, <2>1, <2>3, <4>1, FoundStays
    <3>3. QED  BY <3>1, <3>2
  <2>6. ASSUME NEW k \in DOMAIN windows', windows'[k] \notin {Empty, Garbage}
        PROVE  IndexLogged(k, windows'[k], events')
    <3>1. IndexLogged(k, windows[k], events)
      BY <2>2, <2>3, <2>6 DEF LoggedInv, IndexedEventsLogged, IndexLogged
    <3>2. QED  BY <1>1, <2>1, <2>3, <3>1, IndexStays
  <2>7. QED  BY <2>5, <2>6 DEF LoggedInv, IndexedEventsLogged, IndexLogged
<1>4. ASSUME NEW p \in Proc, FillWindow(p) PROVE LoggedInv'
  <2>1. SUFFICES ASSUME LogReadable' PROVE LoggedInv'
    BY DEF LoggedInv, IndexedEventsLogged
  <2>2. LogReadable  BY <1>1, <2>1 DEF LogKept
  <2>3. /\ pc[p] = "fill" /\ events' = events /\ batch' = batch /\ offset' = offset /\ seq' = seq
        /\ \A q \in Proc : pc'[q] = IF q = p THEN "latest" ELSE pc[q]
    BY <1>4 DEF FillWindow, GoTo, StoreInv, TypeOK
  <2>4. ASSUME NEW q \in Proc, pc'[q] \in {"truncate", "fill"} PROVE Found(q)'
    <3>1. Found(q)  BY <2>2, <2>3, <2>4 DEF LoggedInv
    <3>2. QED  BY <1>1, <2>1, <2>3, <3>1, FoundStays
  <2>5. IndexLogged(seq[p], IndexOf(p), events)
    <3>1. Found(p)  BY <2>2, <2>3 DEF LoggedInv
    <3>2. DOMAIN batch[p] = 1 .. Len(batch[p])  BY DEF StoreInv, TypeOK
    <3>3. ASSUME NEW j \in 1 .. Len(batch[p])
          PROVE  \E i \in DOMAIN events : IdOf(events[i]) = IndexOf(p).ids[j] /\ events[i].win = seq[p]
      <4>1. PICK i \in DOMAIN events : events[i] = EventOf(p, j)  BY <3>1 DEF Found
      <4>2. IndexOf(p).ids[j] = IdOf(EventOf(p, j))  BY <3>2 DEF IndexOf
      <4>3. EventOf(p, j).win = seq[p]  BY DEF EventOf
      <4>4. QED  BY <4>1, <4>2, <4>3
    <3>4. QED  BY <3>2, <3>3 DEF IndexLogged, IndexOf
  <2>6. ASSUME NEW k \in DOMAIN windows', windows'[k] \notin {Empty, Garbage}
        PROVE  IndexLogged(k, windows'[k], events')
    <3>1. PICK content \in {IndexOf(p), Garbage} : windows' = [windows EXCEPT ![seq[p]] = content]
      BY <1>4 DEF FillWindow
    <3>2. k \in DOMAIN windows  BY <3>1
    <3>3. CASE k = seq[p]
      <4>1. windows'[k] = content  BY <3>1, <3>2, <3>3
      <4>2. content = IndexOf(p)  BY <2>6, <4>1
      <4>3. QED  BY <2>3, <2>5, <3>3, <4>1, <4>2
    <3>4. CASE k # seq[p]
      <4>1. windows'[k] = windows[k]  BY <3>1, <3>2, <3>4
      <4>2. IndexLogged(k, windows[k], events)
        BY <2>2, <2>6, <3>2, <4>1 DEF LoggedInv, IndexedEventsLogged, IndexLogged
      <4>3. QED  BY <2>3, <4>1, <4>2
    <3>5. QED  BY <3>3, <3>4
  <2>7. QED  BY <2>4, <2>6 DEF LoggedInv, IndexedEventsLogged, IndexLogged
<1>5. ASSUME NEW p \in Proc, TruncateWindow(p) PROVE LoggedInv'
  <2>1. /\ pc[p] = "truncate" /\ batch' = batch /\ offset' = offset /\ seq' = seq
        /\ \A q \in Proc : pc'[q] = IF q = p THEN "fill" ELSE pc[q]
    BY <1>5 DEF TruncateWindow, GoTo, StoreInv, TypeOK
  <2>2. \A k \in DOMAIN windows' : windows'[k] = Empty \/ (k \in DOMAIN windows /\ windows'[k] = windows[k])
    BY <1>5 DEF TruncateWindow
  <2>3. QED  BY <1>1, <2>1, <2>2, LoggedKept
<1>6. ASSUME NEW p \in Proc,
             \/ Begin(p) \/ CheckLog(p) \/ CreateLog(p)
             \/ ManifestWindows(p) \/ ManifestEvents(p) \/ OpenManifest(p) \/ CloseManifest(p)
             \/ ReadSequence(p) \/ ReadOffset(p) \/ WriteLatest(p)
             \/ ListWindows(p) \/ ExportEvents(p) \/ ExportWindows(p)
             \/ SelectWindow(p) \/ SelectEvents(p) \/ Crash(p) \/ TearAppend(p)
      PROVE  LoggedInv'
  <2>1. windows' = windows
    BY <1>6 DEF Begin, Start, CheckLog, CreateLog, ManifestWindows, ManifestEvents, OpenManifest,
       CloseManifest, WriteManifest, ReadSequence, ReadOffset, WriteLatest, ListWindows, ExportEvents,
       ExportWindows, SelectWindow, SelectEvents, Crash, TearAppend, Fail, files
  <2>2. pc'[p] \notin {"truncate", "fill"}
    <3>1. CASE Begin(p) \/ CheckLog(p) \/ CreateLog(p)
               \/ ManifestWindows(p) \/ ManifestEvents(p) \/ OpenManifest(p) \/ CloseManifest(p)
      BY <3>1 DEF Begin, Start, CheckLog, CreateLog, ManifestWindows, ManifestEvents, OpenManifest,
         CloseManifest, Fail, End, Reset, GoTo, StoreInv, TypeOK
    <3>2. CASE ReadSequence(p) \/ ReadOffset(p) \/ WriteLatest(p)
               \/ ListWindows(p) \/ ExportEvents(p) \/ ExportWindows(p)
      BY <3>2 DEF ReadSequence, ReadOffset, WriteLatest, ListWindows, ExportEvents, ExportWindows,
         Fail, End, Reset, GoTo, StoreInv, TypeOK
    <3>3. CASE SelectWindow(p) \/ SelectEvents(p) \/ Crash(p) \/ TearAppend(p)
      BY <3>3 DEF SelectWindow, SelectEvents, Crash, TearAppend, Fail, End, Reset, GoTo, StoreInv, TypeOK
    <3>4. QED  BY <1>6, <3>1, <3>2, <3>3
  <2>3. ASSUME NEW q \in Proc, q # p
        PROVE  pc'[q] = pc[q] /\ batch'[q] = batch[q] /\ offset'[q] = offset[q] /\ seq'[q] = seq[q]
    <3>1. CASE Begin(p) \/ CheckLog(p) \/ CreateLog(p)
               \/ ManifestWindows(p) \/ ManifestEvents(p) \/ OpenManifest(p) \/ CloseManifest(p)
      BY <2>3, <3>1 DEF Begin, Start, CheckLog, CreateLog, ManifestWindows, ManifestEvents, OpenManifest,
         CloseManifest, Fail, End, Reset, GoTo, StoreInv, TypeOK
    <3>2. CASE ReadSequence(p) \/ ReadOffset(p) \/ WriteLatest(p)
               \/ ListWindows(p) \/ ExportEvents(p) \/ ExportWindows(p)
      BY <2>3, <3>2 DEF ReadSequence, ReadOffset, WriteLatest, ListWindows, ExportEvents, ExportWindows,
         Fail, End, Reset, GoTo, StoreInv, TypeOK
    <3>3. CASE SelectWindow(p) \/ SelectEvents(p) \/ Crash(p) \/ TearAppend(p)
      BY <2>3, <3>3 DEF SelectWindow, SelectEvents, Crash, TearAppend, Fail, End, Reset, GoTo, StoreInv, TypeOK
    <3>4. QED  BY <1>6, <3>1, <3>2, <3>3
  <2>4. QED  BY <1>1, <2>1, <2>2, <2>3, LoggedKept
<1>7. QED  BY <1>2, <1>3, <1>4, <1>5, <1>6 DEF Next, Work

(* Write-ahead order: as long as the log can be read, every event that a   *)
(* window index names is logged under that window, however ingests         *)
(* interleave and wherever they are killed.                                *)
THEOREM IndexedEventsAlwaysLogged ==
  ASSUME NoInitRace
  PROVE  Spec => []IndexedEventsLogged
<1>1. Init => Commanded /\ Creation /\ LoggedInv
  BY InitialCommands DEF Init, Creation, LoggedInv, IndexedEventsLogged
<1>2. StoreInv /\ Commanded /\ Creation /\ LoggedInv /\ [Next]_vars => Commanded' /\ Creation' /\ LoggedInv'
  BY CommandedPreserved, CreationPreserved, LoggedPreserved DEF StoreInv
<1>3. LoggedInv => IndexedEventsLogged  BY DEF LoggedInv
<1>4. QED  BY <1>1, <1>2, <1>3, InitialTypes, TypesPreserved, PTL DEF Spec
=============================================================================
