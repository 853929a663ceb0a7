----------------------- MODULE PhaseAccelerationProofs -----------------------
(***************************************************************************)
(* For any inputs and any length of the capital file: what a recorded      *)
(* witness and proxy-only evidence count for, that a candidate is ahead    *)
(* everywhere, and that evidence only ever counts for it.                  *)
(***************************************************************************)
EXTENDS PhaseAcceleration, NumberLemmas, TLAPS

(* A line holds a packet, and the witness that was made of it if any.      *)
PacketLine == [packet : Packet, witness : {CapitalWitness(p) : p \in Packet} \cup {None}]

FaithfulLine(line) == line.witness # None => line.witness = CapitalWitness(line.packet)

LinesFaithful ==
  /\ capital \in Seq(PacketLine)
  /\ \A i \in DOMAIN capital : FaithfulLine(capital[i])

(* What was printed is the report on the files as they are.                *)
PrintedOfFiles == printed # None => printed = PhaseAccelerationReport(target, baseline, capital)

AccelerationInv == LinesFaithful /\ PrintedOfFiles

(* The initial files.                                                      *)
LEMMA InitAcceleration == Init => AccelerationInv
BY DEF Init, AccelerationInv, LinesFaithful, PrintedOfFiles

(* A step that adds a line adds a faithful one.                            *)
LEMMA AddedLineFaithful ==
  ASSUME NEW p \in Packet, NEW w \in {None, CapitalWitness(p)}, LinesFaithful,
         capital' = Append(capital, [packet |-> p, witness |-> w])
  PROVE  LinesFaithful'
<1> DEFINE line == [packet |-> p, witness |-> w]
<1>1. capital \in Seq(PacketLine)  BY DEF LinesFaithful
<1>2. line \in PacketLine  BY DEF PacketLine
<1>3. FaithfulLine(line)  BY DEF FaithfulLine
<1>4. \A i \in DOMAIN capital : FaithfulLine(capital[i])  BY DEF LinesFaithful
<1> HIDE DEF line
<1>5. capital' = Append(capital, line)  BY DEF line
<1>6. capital' \in Seq(PacketLine)  BY <1>1, <1>2, <1>5
<1>7. ASSUME NEW i \in DOMAIN capital' PROVE FaithfulLine(capital'[i])
  <2>1. i \in 1 .. (Len(capital) + 1) /\ DOMAIN capital = 1 .. Len(capital)  BY <1>1, <1>2, <1>5
  <2>2. CASE i = Len(capital) + 1
    <3>1. capital'[i] = line  BY <1>1, <1>2, <1>5, <2>2
    <3>2. QED  BY <1>3, <3>1
  <2>3. CASE i # Len(capital) + 1
    <3>1. i \in DOMAIN capital  BY <1>1, <2>1, <2>3
    <3>2. capital'[i] = capital[i]  BY <1>1, <1>2, <1>5, <2>1, <2>3
    <3>3. QED  BY <1>4, <3>1, <3>2
  <2>4. QED  BY <2>2, <2>3
<1>8. (\A i \in DOMAIN capital : FaithfulLine(capital[i]))'
  <2>1. \A i \in DOMAIN capital' : FaithfulLine(capital'[i])  BY <1>7
  <2>2. QED  BY <2>1 DEF FaithfulLine
<1>9. QED  BY <1>6, <1>8 DEF LinesFaithful

(* Every step keeps the invariant: the files change only when nothing is   *)
(* printed.                                                                *)
LEMMA NextAcceleration == AccelerationInv /\ [Next]_vars => AccelerationInv'
<1> SUFFICES ASSUME AccelerationInv, [Next]_vars PROVE AccelerationInv'  OBVIOUS
<1>1. ASSUME NEW t \in Target, WriteTarget(t) PROVE AccelerationInv'
  BY <1>1 DEF WriteTarget, AccelerationInv, LinesFaithful, PrintedOfFiles
<1>2. ASSUME NEW b \in Baseline, WriteBaseline(b) PROVE AccelerationInv'
  BY <1>2 DEF WriteBaseline, AccelerationInv, LinesFaithful, PrintedOfFiles
<1>3. ASSUME NEW p \in Packet, AddPacket(p) \/ AddWitness(p) PROVE AccelerationInv'
  <2>1. printed' = None /\ \E w \in {None, CapitalWitness(p)} :
          capital' = Append(capital, [packet |-> p, witness |-> w])
    BY <1>3 DEF AddPacket, AddWitness
  <2>2. LinesFaithful'  BY <2>1, AddedLineFaithful DEF AccelerationInv
  <2>3. QED  BY <2>1, <2>2 DEF AccelerationInv, PrintedOfFiles
<1>4. ASSUME AccelerationReport PROVE AccelerationInv'
  BY <1>4 DEF AccelerationReport, AccelerationInv, LinesFaithful, PrintedOfFiles
<1>5. ASSUME UNCHANGED vars PROVE AccelerationInv'
  BY <1>5 DEF vars, AccelerationInv, LinesFaithful, PrintedOfFiles
<1>6. QED  BY <1>1, <1>2, <1>3, <1>4, <1>5 DEF Next

(* A recorded witness reads as its packet does.                            *)
LEMMA WitnessesReadAgain ==
  ASSUME LinesFaithful
  PROVE  /\ Witnesses(capital) = ReadAgain(capital)
         /\ Witnesses([i \in DOMAIN capital |-> [capital[i] EXCEPT !.witness = None]]) = ReadAgain(capital)
<1> DEFINE raw == [i \in DOMAIN capital |-> [capital[i] EXCEPT !.witness = None]]
<1>1. ASSUME NEW i \in DOMAIN capital
      PROVE  /\ capital[i].witness # None => capital[i].witness = CapitalWitness(capital[i].packet)
             /\ raw[i].witness = None /\ raw[i].packet = capital[i].packet
  <2>1. capital[i] \in PacketLine
    <3>1. capital \in Seq(PacketLine)  BY DEF LinesFaithful
    <3>2. QED  BY <3>1
  <2>2. raw[i] = [capital[i] EXCEPT !.witness = None]  OBVIOUS
  <2>3. raw[i].witness = None /\ raw[i].packet = capital[i].packet  BY <2>1, <2>2 DEF PacketLine
  <2>4. FaithfulLine(capital[i])  BY DEF LinesFaithful
  <2>5. QED  BY <2>3, <2>4 DEF FaithfulLine
<1>2. DOMAIN raw = DOMAIN capital  OBVIOUS
<1> HIDE DEF raw
<1>3. Witnesses(capital) = ReadAgain(capital)  BY <1>1 DEF Witnesses, ReadAgain
<1>4. Witnesses(raw) = ReadAgain(capital)  BY <1>1, <1>2 DEF Witnesses, ReadAgain
<1>5. QED  BY <1>3, <1>4 DEF raw

(* A witness recorded beforehand changes no report (the lines of           *)
(* phaseAccelerationReport that tell the two kinds apart).                 *)
THEOREM RecordingIsHarmless == Spec => []RecordingChangesNothing
<1>1. AccelerationInv => RecordingChangesNothing
  BY WitnessesReadAgain DEF AccelerationInv, PrintedOfFiles, RecordingChangesNothing, PhaseAccelerationReport
<1>2. QED  BY <1>1, InitAcceleration, NextAcceleration, PTL DEF Spec

(* No candidate holds a proxy-only line: such a packet is never admitted,  *)
(* so its line leaves a residual, and a candidate has none.                *)
THEOREM NoCandidateOnProxies == Spec => []ProxyBlocks
<1>1. AccelerationInv => ProxyBlocks
  <2> SUFFICES ASSUME AccelerationInv, printed # None, printed.certified_acceleration_candidate,
                      NEW i \in DOMAIN capital, capital[i].packet.proxy_only
               PROVE  FALSE
    BY DEF ProxyBlocks
  <2> DEFINE ws == Witnesses(capital)
  <2>1. DOMAIN ws = DOMAIN capital  BY DEF Witnesses
  <2>2. ws[i] = CapitalWitness(capital[i].packet)
    <3>1. ws = ReadAgain(capital)  BY WitnessesReadAgain DEF AccelerationInv
    <3>2. QED  BY <3>1 DEF ReadAgain
  <2>3. CapitalResiduals(capital[i].packet) # {}  BY DEF CapitalResiduals, When
  <2>4. ~ws[i].capital_admitted /\ ws[i].proxy_only
    <3>1. ws[i].capital_admitted = (CapitalResiduals(capital[i].packet) = {})  BY <2>2 DEF CapitalWitness
    <3>2. ws[i].proxy_only = capital[i].packet.proxy_only  BY <2>2 DEF CapitalWitness
    <3>3. QED  BY <2>3, <3>1, <3>2
  <2>5. ProxyResiduals(ws) # {}  BY <2>1, <2>4 DEF ProxyResiduals, When
  <2>6. Residuals(target, baseline, ws) # {}  BY <2>5 DEF Residuals
  <2>7. Certified(target, baseline, ws)  BY DEF AccelerationInv, PrintedOfFiles, PhaseAccelerationReport
  <2>8. QED  BY <2>6, <2>7 DEF Certified
<1>2. QED  BY <1>1, InitAcceleration, NextAcceleration, PTL DEF Spec

(***************************************************************************)
(* Types: amounts, witnesses, what is admitted, margins.                   *)
(***************************************************************************)
LEMMA FloatTyped ==
  ASSUME AccelerationAssumption, NEW v \in Amount
  PROVE  FloatValue(v) \in Int
BY DEF AccelerationAssumption, Amount, FloatValue

LEMMA WitnessTyped ==
  ASSUME AccelerationAssumption, NEW p \in Packet
  PROVE  /\ p \in PacketData /\ SignedSurplus(p) \in Int
         /\ CapitalWitness(p) \in WitnessData
         /\ CapitalWitness(p).coordinate = p.coordinate
         /\ CapitalWitness(p).capital_admitted = (CapitalResiduals(p) = {})
         /\ CapitalWitness(p).surplus = SignedSurplus(p)
         /\ CapitalWitness(p).proxy_only = p.proxy_only
<1>1. p \in PacketData  BY DEF AccelerationAssumption
<1>2. /\ p.surplus \in Amount /\ p.capital \in Amount /\ p.cost \in Amount
      /\ p.hazard \in Amount /\ p.transport \in Amount
      /\ p.coordinate \in Coordinate /\ p.proxy_only \in BOOLEAN
  BY <1>1 DEF PacketData
<1>3. /\ FloatValue(p.capital) \in Int /\ FloatValue(p.cost) \in Int
      /\ FloatValue(p.hazard) \in Int /\ FloatValue(p.transport) \in Int
  BY <1>2, FloatTyped
<1>4. SignedSurplus(p) \in Int  BY <1>2, <1>3 DEF SignedSurplus, Amount
<1>5. QED  BY <1>1, <1>2, <1>4 DEF CapitalWitness, WitnessData

(* Witnesses by number, as the report reads them from the file.            *)
Witnessed(ws) == IsFiniteSet(DOMAIN ws) /\ \A i \in DOMAIN ws : ws[i] \in WitnessData

LEMMA ReadAgainTyped ==
  ASSUME AccelerationAssumption, LinesFaithful
  PROVE  /\ Witnessed(ReadAgain(capital)) /\ DOMAIN ReadAgain(capital) = DOMAIN capital
         /\ \A i \in DOMAIN capital : /\ capital[i].packet \in Packet
                                      /\ ReadAgain(capital)[i] = CapitalWitness(capital[i].packet)
<1>1. capital \in Seq(PacketLine)  BY DEF LinesFaithful
<1>2. \A i \in DOMAIN capital : capital[i] \in PacketLine  BY <1>1
<1>3. \A i \in DOMAIN capital : capital[i].packet \in Packet  BY <1>2 DEF PacketLine
<1>4. DOMAIN ReadAgain(capital) = DOMAIN capital
      /\ \A i \in DOMAIN capital : ReadAgain(capital)[i] = CapitalWitness(capital[i].packet)
  BY DEF ReadAgain
<1>5. IsFiniteSet(DOMAIN capital)
  <2>1. DOMAIN capital = 1 .. Len(capital) /\ Len(capital) \in Nat  BY <1>1
  <2>2. QED  BY <2>1, FS_Interval
<1>6. \A i \in DOMAIN capital : CapitalWitness(capital[i].packet) \in WitnessData  BY <1>3, WitnessTyped
<1>7. QED  BY <1>3, <1>4, <1>5, <1>6 DEF Witnessed

LEMMA CapitalTyped ==
  ASSUME NEW ws, Witnessed(ws), NEW c
  PROVE  /\ Admitted(ws, c) \subseteq DOMAIN ws /\ IsFiniteSet(Admitted(ws, c))
         /\ Capital(ws, c) \in Int
         /\ Admitted(ws, c) = {} => Capital(ws, c) = 0
<1> DEFINE f == [i \in DOMAIN ws |-> ws[i].surplus]
<1>1. Admitted(ws, c) \subseteq DOMAIN ws  BY DEF Admitted
<1>2. IsFiniteSet(Admitted(ws, c))  BY <1>1, FS_Subset DEF Witnessed
<1>3. \A i \in DOMAIN ws : f[i] \in Int  BY DEF Witnessed, WitnessData
<1>4. \A i \in Admitted(ws, c) : f[i] \in Int  BY <1>1, <1>3
<1>5. Capital(ws, c) = SumFunctionOnSet(f, Admitted(ws, c))  BY DEF Capital
<1> HIDE DEF f
<1>6. SumFunctionOnSet(f, Admitted(ws, c)) \in Int  BY <1>2, <1>4, SumRemove
<1>7. SumFunctionOnSet(f, {}) = 0  BY <1>2, <1>4, SumRemove
<1>8. QED  BY <1>1, <1>2, <1>5, <1>6, <1>7

(* The margin is the least over the coordinates, if there are any.         *)
LEMMA MarginLeast ==
  ASSUME AccelerationAssumption, NEW t, NEW b \in BaselineData, NEW ws, Witnessed(ws)
  PROVE  /\ MarginDelta(t, b, ws) # None <=> Coordinates(t, b, ws) # {}
         /\ MarginDelta(t, b, ws) # None => MarginDelta(t, b, ws) \in Int
         /\ \A c \in Coordinates(t, b, ws) :
              /\ Capital(ws, c) - FloatValue(b.envelope_coordinates[c]) \in Int
              /\ MarginDelta(t, b, ws) <= Capital(ws, c) - FloatValue(b.envelope_coordinates[c])
         /\ MarginDelta(t, b, ws) # None =>
              \E c \in Coordinates(t, b, ws) :
                MarginDelta(t, b, ws) = Capital(ws, c) - FloatValue(b.envelope_coordinates[c])
<1> DEFINE C == Coordinates(t, b, ws)
           m(c) == Capital(ws, c) - FloatValue(b.envelope_coordinates[c])
           M == Margins(t, b, ws)
<1>1. C \subseteq Coordinate  BY DEF Coordinates, Named
<1>2. \A c \in C : m(c) \in Int
  <2>1. \A c \in C : b.envelope_coordinates[c] \in Amount  BY <1>1 DEF BaselineData
  <2>2. \A c \in C : FloatValue(b.envelope_coordinates[c]) \in Int  BY <2>1, FloatTyped
  <2>3. QED  BY <2>2, CapitalTyped
<1>3. M = {m(c) : c \in C}  BY DEF Margins
<1> HIDE DEF m, C
<1>4. M \subseteq Int  BY <1>2, <1>3
<1>5. IsFiniteSet(M)
  <2>1. IsFiniteSet(C)  BY <1>1, FS_Subset, AccelerationAssumption DEF AccelerationAssumption
  <2> DEFINE f == [c \in C |-> m(c)]
  <2>2. f \in Surjection(C, M)  BY <1>3 DEF Surjection
  <2>3. QED  BY <2>1, <2>2, FS_Surjection
<1>6. M = {} <=> C = {}  BY <1>3
<1>7. CASE C = {}
  <2>1. MarginDelta(t, b, ws) = None  BY <1>6, <1>7 DEF MarginDelta
  <2>2. QED  BY <1>7, <2>1 DEF C
<1>8. CASE C # {}
  <2>1. MarginDelta(t, b, ws) = Min(M)  BY <1>6, <1>8 DEF MarginDelta
  <2>2. \E x \in M : \A y \in M : x <= y
    <3> HIDE DEF M
    <3> QED  BY <1>4, <1>5, <1>6, <1>8, IntLeast
  <2>3. Min(M) \in M /\ \A y \in M : Min(M) <= y  BY <2>2 DEF Min
  <2>4. Min(M) \in Int /\ Min(M) # None
    BY <1>4, <2>3, AccelerationAssumption DEF AccelerationAssumption
  <2>5. QED  BY <1>2, <1>3, <1>8, <2>1, <2>3, <2>4 DEF C, m
<1>9. QED  BY <1>7, <1>8

(***************************************************************************)
(* The type invariant.                                                     *)
(***************************************************************************)
(* The files are inputs, and the capital file keeps its bound.             *)
FilesBounded ==
  /\ target \in Target /\ baseline \in Baseline
  /\ Len(capital) <= MaxLines

LEMMA InitBounded == AccelerationAssumption /\ Init => FilesBounded
BY DEF AccelerationAssumption, Init, FilesBounded

LEMMA NextBounded ==
  ASSUME AccelerationAssumption, AccelerationInv, FilesBounded, [Next]_vars
  PROVE  FilesBounded'
<1>1. capital \in Seq(PacketLine) /\ MaxLines \in Nat
  BY DEF AccelerationInv, LinesFaithful, AccelerationAssumption
<1>2. ASSUME NEW t \in Target, WriteTarget(t) PROVE FilesBounded'
  BY <1>2 DEF WriteTarget, FilesBounded
<1>3. ASSUME NEW b \in Baseline, WriteBaseline(b) PROVE FilesBounded'
  BY <1>3 DEF WriteBaseline, FilesBounded
<1>4. ASSUME NEW p \in Packet, AddPacket(p) \/ AddWitness(p) PROVE FilesBounded'
  <2>1. PICK line : capital' = Append(capital, line)  BY <1>4 DEF AddPacket, AddWitness
  <2>2. Len(capital') = Len(capital) + 1 /\ Len(capital) \in Nat  BY <1>1, <2>1
  <2>3. Len(capital) < MaxLines /\ UNCHANGED <<target, baseline>>  BY <1>4 DEF AddPacket, AddWitness
  <2>4. QED  BY <1>1, <2>2, <2>3 DEF FilesBounded
<1>5. ASSUME AccelerationReport PROVE FilesBounded'
  BY <1>5 DEF AccelerationReport, FilesBounded
<1>6. ASSUME UNCHANGED vars PROVE FilesBounded'
  BY <1>6 DEF vars, FilesBounded
<1>7. QED  BY <1>2, <1>3, <1>4, <1>5, <1>6 DEF Next

(* Every printed verdict is one on the witnesses read again.               *)
LEMMA PrintedIs ==
  ASSUME AccelerationInv, printed # None
  PROVE  LET ws == ReadAgain(capital) IN
         /\ printed.ok = (Residuals(target, baseline, ws) = {})
         /\ printed.certified_acceleration_candidate = Certified(target, baseline, ws)
         /\ printed.certified_acceleration_interval_candidate = IntervalCandidate(target, baseline, ws)
         /\ printed.margin_delta = MarginDelta(target, baseline, ws)
         /\ Witnesses(capital) = ws
<1>1. Witnesses(capital) = ReadAgain(capital)  BY WitnessesReadAgain DEF AccelerationInv
<1>2. printed = PhaseAccelerationReport(target, baseline, capital)
  BY DEF AccelerationInv, PrintedOfFiles
<1>3. QED  BY <1>1, <1>2 DEF PhaseAccelerationReport

(* The lines and the printed report have their types: no verdict and no    *)
(* margin is left undefined, whatever numbers, texts or gaps the files     *)
(* hold (toFloat, signedSurplus and Math.min in phaseAccelerationReport).  *)
THEOREM TypeCorrect == Spec => []TypeOK
<1>1. ASSUME AccelerationAssumption, AccelerationInv, FilesBounded PROVE TypeOK
  <2>1. capital \in Seq(Line)
    <3>1. capital \in Seq(PacketLine)  BY <1>1 DEF AccelerationInv, LinesFaithful
    <3>2. \A line \in PacketLine : line \in Line
      <4>1. \A p \in Packet : p \in PacketData /\ CapitalWitness(p) \in WitnessData  BY <1>1, WitnessTyped
      <4>2. QED  BY <4>1 DEF PacketLine, Line
    <3>3. QED  BY <3>1, <3>2
  <2>2. ASSUME printed # None
        PROVE  printed \in [ok : BOOLEAN, certified_acceleration_candidate : BOOLEAN,
                            certified_acceleration_interval_candidate : BOOLEAN,
                            margin_delta : Int \cup {None}]
    <3> DEFINE ws == ReadAgain(capital)
               m == MarginDelta(target, baseline, ws)
    <3>1. printed = PhaseAccelerationReport(target, baseline, capital) /\ Witnesses(capital) = ws
      BY <1>1, <2>2, PrintedIs DEF AccelerationInv, PrintedOfFiles
    <3>2. m \in Int \cup {None}
      <4>1. Witnessed(ws)  BY <1>1, ReadAgainTyped DEF AccelerationInv
      <4>2. baseline \in BaselineData  BY <1>1 DEF FilesBounded, AccelerationAssumption
      <4> HIDE DEF ws
      <4>3. QED  BY <1>1, <4>1, <4>2, MarginLeast
    <3>3. Certified(target, baseline, ws) \in BOOLEAN  BY DEF Certified
    <3>4. IntervalCandidate(target, baseline, ws) \in BOOLEAN  BY DEF IntervalCandidate
    <3>5. QED  BY <3>1, <3>2, <3>3, <3>4 DEF PhaseAccelerationReport
  <2>3. QED  BY <1>1, <2>1, <2>2 DEF TypeOK, FilesBounded
<1>2. Init => AccelerationInv /\ FilesBounded  BY InitAcceleration, InitBounded, AccelerationAssumption
<1>3. AccelerationInv /\ FilesBounded /\ [Next]_vars => AccelerationInv' /\ FilesBounded'
  BY NextAcceleration, NextBounded, AccelerationAssumption
<1>4. AccelerationInv /\ FilesBounded => TypeOK  BY <1>1, AccelerationAssumption
<1>5. QED  BY <1>2, <1>3, <1>4, PTL DEF Spec

(* What the files are at any time.                                         *)
LEMMA FilesInvariant == Spec => [](AccelerationInv /\ FilesBounded)
<1>1. Init => AccelerationInv /\ FilesBounded  BY InitAcceleration, InitBounded, AccelerationAssumption
<1>2. AccelerationInv /\ FilesBounded /\ [Next]_vars => AccelerationInv' /\ FilesBounded'
  BY NextAcceleration, NextBounded, AccelerationAssumption
<1>3. QED  BY <1>1, <1>2, PTL DEF Spec

LEMMA FilesTyped ==
  ASSUME AccelerationAssumption, AccelerationInv, FilesBounded
  PROVE  /\ target \in TargetData /\ baseline \in BaselineData
         /\ Witnessed(ReadAgain(capital))
BY ReadAgainTyped DEF AccelerationInv, FilesBounded, AccelerationAssumption

(* A candidate is strictly ahead of the baseline on every coordinate that  *)
(* is compared: the least margin of phaseAccelerationReport is positive,   *)
(* and missing capital or a missing envelope counts as 0 there.            *)
THEOREM CandidatesAreAhead == Spec => []AheadEverywhere
<1>1. ASSUME AccelerationAssumption, AccelerationInv, FilesBounded PROVE AheadEverywhere
  <2> SUFFICES ASSUME printed # None, printed.certified_acceleration_candidate,
                      NEW c \in Named(target.thresholds) \cup Named(baseline.envelope_coordinates)
               PROVE  Capital(ReadAgain(capital), c) > FloatValue(baseline.envelope_coordinates[c])
    BY DEF AheadEverywhere
  <2> DEFINE ws == ReadAgain(capital)
  <2>1. Certified(target, baseline, ws)  BY <1>1, PrintedIs
  <2>2. MarginDelta(target, baseline, ws) # None /\ MarginDelta(target, baseline, ws) > 0
    BY <2>1 DEF Certified
  <2>3. c \in Coordinates(target, baseline, ws)  BY DEF Coordinates
  <2>4. baseline \in BaselineData /\ Witnessed(ws)  BY <1>1, FilesTyped
  <2> HIDE DEF ws
  <2>5. /\ MarginDelta(target, baseline, ws) \in Int
        /\ Capital(ws, c) - FloatValue(baseline.envelope_coordinates[c]) \in Int
        /\ MarginDelta(target, baseline, ws) <= Capital(ws, c) - FloatValue(baseline.envelope_coordinates[c])
    BY <1>1, <2>2, <2>3, <2>4, MarginLeast
  <2>6. Capital(ws, c) \in Int /\ FloatValue(baseline.envelope_coordinates[c]) \in Int
    <3>1. c \in Coordinate  BY DEF Named
    <3>2. baseline.envelope_coordinates[c] \in Amount  BY <2>4, <3>1 DEF BaselineData
    <3>3. QED  BY <1>1, <2>4, <3>2, CapitalTyped, FloatTyped
  <2>7. Capital(ws, c) > FloatValue(baseline.envelope_coordinates[c])  BY <2>2, <2>5, <2>6
  <2>8. QED  BY <2>7 DEF ws
<1>2. AccelerationInv /\ FilesBounded => AheadEverywhere  BY <1>1, AccelerationAssumption
<1>3. QED  BY <1>2, FilesInvariant, PTL

(* Without the proxy-only lines the same is admitted, line by line.        *)
LEMMA SameWithoutProxies ==
  ASSUME AccelerationAssumption, LinesFaithful,
         NEW us, us = Witnesses(Restrict(capital, {i \in DOMAIN capital : ~capital[i].packet.proxy_only}))
  PROVE  /\ \A c : Admitted(us, c) = Admitted(ReadAgain(capital), c)
         /\ \A c : Capital(us, c) = Capital(ReadAgain(capital), c)
<1> DEFINE rest == {i \in DOMAIN capital : ~capital[i].packet.proxy_only}
           ws == ReadAgain(capital)
<1>1. /\ Witnessed(ws) /\ DOMAIN ws = DOMAIN capital
      /\ \A i \in DOMAIN capital : /\ capital[i].packet \in Packet
                                   /\ ws[i] = CapitalWitness(capital[i].packet)
  BY ReadAgainTyped
<1>2. DOMAIN us = rest /\ \A i \in rest : us[i] = ws[i]
  <2>1. Restrict(capital, rest) = [i \in rest |-> capital[i]]  BY DEF Restrict
  <2>2. DOMAIN Restrict(capital, rest) = rest /\ \A i \in rest : Restrict(capital, rest)[i] = capital[i]
    BY <2>1
  <2>3. Witnesses(capital) = ws  BY WitnessesReadAgain
  <2>4. \A i \in rest : Witnesses(capital)[i] = IF capital[i].witness # None THEN capital[i].witness
                                                ELSE CapitalWitness(capital[i].packet)
    BY DEF Witnesses
  <2>5. us = [i \in rest |-> IF capital[i].witness # None THEN capital[i].witness
                             ELSE CapitalWitness(capital[i].packet)]
    BY <2>2 DEF Witnesses
  <2> HIDE DEF ws, rest
  <2>6. QED  BY <2>3, <2>4, <2>5
<1>3. \A i \in DOMAIN capital : i \notin rest => ~ws[i].capital_admitted
  <2> SUFFICES ASSUME NEW i \in DOMAIN capital, capital[i].packet.proxy_only
               PROVE  ~ws[i].capital_admitted
    OBVIOUS
  <2>1. CapitalResiduals(capital[i].packet) # {}  BY DEF CapitalResiduals, When
  <2>2. ws[i].capital_admitted = (CapitalResiduals(capital[i].packet) = {})  BY <1>1, WitnessTyped
  <2>3. QED  BY <2>1, <2>2
<1> HIDE DEF rest, ws
<1>4. rest \subseteq DOMAIN capital  BY DEF rest
<1>5. \A c : Admitted(us, c) = Admitted(ws, c)
  BY <1>1, <1>2, <1>3, <1>4 DEF Admitted
<1>6. ASSUME NEW c PROVE Capital(us, c) = Capital(ws, c)
  <2> DEFINE f == [i \in DOMAIN ws |-> ws[i].surplus]
             g == [i \in DOMAIN us |-> us[i].surplus]
             A == Admitted(ws, c)
  <2>1. A \subseteq DOMAIN ws /\ IsFiniteSet(A) /\ A \subseteq DOMAIN us
    <3>1. A \subseteq DOMAIN ws /\ IsFiniteSet(A)  BY <1>1, CapitalTyped
    <3>2. A = Admitted(us, c)  BY <1>5
    <3> HIDE DEF A
    <3>3. A \subseteq DOMAIN us  BY <3>2 DEF Admitted
    <3>4. QED  BY <3>1, <3>3
  <2>2. \A i \in DOMAIN ws : f[i] = ws[i].surplus /\ ws[i].surplus \in Int
    BY <1>1 DEF Witnessed, WitnessData
  <2>3. \A i \in A : f[i] \in Int /\ g[i] = f[i]  BY <1>2, <2>1, <2>2
  <2>4. Capital(us, c) = SumFunctionOnSet(g, A) /\ Capital(ws, c) = SumFunctionOnSet(f, A)
    BY <1>5 DEF Capital
  <2> HIDE DEF f, g, A
  <2>5. QED  BY <2>1, <2>3, <2>4, SumEqual
<1>7. QED  BY <1>5, <1>6 DEF ws

(* Proxy-only evidence adds nothing: no candidate holds such a line, and   *)
(* the margin is what it is without them.                                  *)
THEOREM ProxiesAddNothing == Spec => []ProxyAddsNothing
<1>1. ASSUME AccelerationAssumption, AccelerationInv, printed # None
      PROVE  printed.margin_delta = MarginDelta(target, baseline,
               Witnesses(Restrict(capital, {i \in DOMAIN capital : ~capital[i].packet.proxy_only})))
  <2> DEFINE us == Witnesses(Restrict(capital, {i \in DOMAIN capital : ~capital[i].packet.proxy_only}))
             ws == ReadAgain(capital)
  <2>1. (\A c : Admitted(us, c) = Admitted(ws, c)) /\ (\A c : Capital(us, c) = Capital(ws, c))
    BY <1>1, SameWithoutProxies DEF AccelerationInv
  <2>2. printed.margin_delta = MarginDelta(target, baseline, ws)  BY <1>1, PrintedIs
  <2> HIDE DEF us, ws
  <2>3. Coordinates(target, baseline, us) = Coordinates(target, baseline, ws)  BY <2>1 DEF Coordinates
  <2>4. Margins(target, baseline, us) = Margins(target, baseline, ws)  BY <2>1, <2>3 DEF Margins
  <2>5. MarginDelta(target, baseline, us) = MarginDelta(target, baseline, ws)  BY <2>4 DEF MarginDelta
  <2>6. QED  BY <2>2, <2>5 DEF us
<1>2. ProxyBlocks /\ AccelerationInv => ProxyAddsNothing
  BY <1>1, AccelerationAssumption DEF ProxyAddsNothing
<1>3. QED  BY <1>2, NoCandidateOnProxies, FilesInvariant, PTL

(***************************************************************************)
(* Weaker evidence.                                                        *)
(***************************************************************************)
LEMMA ChargeTyped ==
  ASSUME AccelerationAssumption, NEW t \in TargetData, NEW b \in BaselineData, NEW f \in Charge
  PROVE  ChargeUpperBound(t, b, f) \in Int \cup {None}
<1>1. t.evidence \in Evidence /\ b.evidence \in Evidence  BY DEF TargetData, BaselineData
<1>2. /\ t.evidence.charge[f] \in Amount /\ b.evidence.charge[f] \in Amount
      /\ t.evidence.declared_missing_charge \in Amount /\ b.evidence.declared_missing_charge \in Amount
  BY <1>1 DEF Evidence
<1>3. QED  BY <1>2 DEF ChargeUpperBound, DeclaredMissing, FirstValue, Amount

(* What a weaker pair of files has in common with the one it weakens, and  *)
(* where it is worse: higher envelopes, residuals and charges.             *)
BoundAtMost(v, w) == w # None => v # None /\ v <= w

Weakens(t, b, strong, base) ==
  /\ TargetResiduals(t) = TargetResiduals(strong)
  /\ t.thresholds = strong.thresholds /\ t.raw_net_capital_floor = strong.raw_net_capital_floor
  /\ BaselineResiduals(base) \subseteq BaselineResiduals(b)
  /\ Named(b.envelope_coordinates) = Named(base.envelope_coordinates)
  /\ \A c \in Coordinate : FloatValue(base.envelope_coordinates[c]) <= FloatValue(b.envelope_coordinates[c])
  /\ t.evidence.confidence_budget \/ b.evidence.confidence_budget =>
       strong.evidence.confidence_budget \/ base.evidence.confidence_budget
  /\ t.evidence.time_uniform_evidence \/ b.evidence.time_uniform_evidence =>
       strong.evidence.time_uniform_evidence \/ base.evidence.time_uniform_evidence
  /\ (b.baseline_stale \/ b.stale \/ b.lifecycle_stale) = (base.baseline_stale \/ base.stale \/ base.lifecycle_stale)
  /\ \A f \in Charge : BoundAtMost(ChargeUpperBound(strong, base, f), ChargeUpperBound(t, b, f))

(* One amount raised: what is no number stays what it is.                  *)
LEMMA RaisedAmounts ==
  ASSUME AccelerationAssumption, NEW S, NEW amounts \in [S -> Amount], NEW higher \in Raised(amounts)
  PROVE  /\ higher \in [S -> Amount]
         /\ \A x \in S : \/ higher[x] = amounts[x]
                         \/ /\ amounts[x] \in Int /\ higher[x] \in Int /\ amounts[x] <= higher[x]
<1>1. PICK y \in DOMAIN amounts : amounts[y] \notin {Garbage, None} /\ higher = [amounts EXCEPT ![y] = @ + 1]
  BY DEF Raised
<1>2. y \in S /\ amounts[y] \in Int  BY <1>1 DEF Amount
<1>3. \A x \in S : higher[x] = IF x = y THEN amounts[x] + 1 ELSE amounts[x]  BY <1>1
<1>4. DOMAIN higher = S  BY <1>1
<1>5. \A x \in S : higher[x] \in Amount  BY <1>2, <1>3 DEF Amount
<1>6. higher \in [S -> Amount]
  <2>1. higher = [x \in S |-> IF x = y THEN amounts[x] + 1 ELSE amounts[x]]  BY <1>1
  <2>2. QED  BY <1>3, <1>5, <2>1
<1>7. QED  BY <1>2, <1>3, <1>6

LEMMA WeakerCharges ==
  ASSUME AccelerationAssumption, NEW e \in Evidence, NEW w \in WeakerEvidence(e)
  PROVE  /\ w \in Evidence
         /\ w.confidence_budget = e.confidence_budget /\ w.time_uniform_evidence = e.time_uniform_evidence
         /\ w.declared_missing_charge = e.declared_missing_charge
         /\ \A f \in Charge : \/ w.charge[f] = e.charge[f]
                              \/ /\ e.charge[f] \in Int /\ w.charge[f] \in Int
                                 /\ e.charge[f] <= w.charge[f]
<1>1. PICK higher \in Raised(e.charge) : w = [e EXCEPT !.charge = higher]  BY DEF WeakerEvidence
<1>2. e.charge \in [Charge -> Amount]  BY DEF Evidence
<1>3. /\ higher \in [Charge -> Amount]
      /\ \A f \in Charge : \/ higher[f] = e.charge[f]
                           \/ e.charge[f] \in Int /\ higher[f] \in Int /\ e.charge[f] <= higher[f]
  BY <1>2, RaisedAmounts
<1>4. /\ w.charge = higher /\ w.confidence_budget = e.confidence_budget
      /\ w.time_uniform_evidence = e.time_uniform_evidence
      /\ w.declared_missing_charge = e.declared_missing_charge
  BY <1>1 DEF Evidence
<1>5. w \in Evidence  BY <1>1, <1>3 DEF Evidence
<1>6. QED  BY <1>3, <1>4, <1>5

(* The least of two bounds with the same gaps, charge by charge.           *)
LEMMA WeakerBound ==
  ASSUME AccelerationAssumption, NEW t, NEW b, NEW strong \in TargetData, NEW base \in BaselineData, NEW f \in Charge,
         \/ t.evidence.charge[f] = strong.evidence.charge[f]
         \/ /\ strong.evidence.charge[f] \in Int /\ t.evidence.charge[f] \in Int
            /\ strong.evidence.charge[f] <= t.evidence.charge[f],
         \/ b.evidence.charge[f] = base.evidence.charge[f]
         \/ /\ base.evidence.charge[f] \in Int /\ b.evidence.charge[f] \in Int
            /\ base.evidence.charge[f] <= b.evidence.charge[f],
         \/ DeclaredMissing(t, b) = None
         \/ DeclaredMissing(t, b) = DeclaredMissing(strong, base)
  PROVE  BoundAtMost(ChargeUpperBound(strong, base, f), ChargeUpperBound(t, b, f))
<1> DEFINE v == FirstValue(strong.evidence.charge[f], base.evidence.charge[f])
           w == FirstValue(t.evidence.charge[f], b.evidence.charge[f])
<1>1. strong.evidence \in Evidence /\ base.evidence \in Evidence  BY DEF TargetData, BaselineData
<1>2. strong.evidence.charge[f] \in Amount /\ base.evidence.charge[f] \in Amount  BY <1>1 DEF Evidence
<1>3. None # Garbage /\ None \notin Int /\ Garbage \notin Int  BY DEF AccelerationAssumption
<1>4. v \in Amount  BY <1>2 DEF FirstValue
<1>5. \/ w = v
      \/ v \in Int /\ w \in Int /\ v <= w
  BY <1>2, <1>3 DEF FirstValue, Amount
<1>6. DeclaredMissing(strong, base) \in Amount
  BY <1>1 DEF Evidence, DeclaredMissing, FirstValue
<1>7. /\ ChargeUpperBound(strong, base, f) =
           (IF v \notin {Garbage, None} THEN v
            ELSE IF DeclaredMissing(strong, base) \notin {Garbage, None} THEN DeclaredMissing(strong, base) ELSE None)
      /\ ChargeUpperBound(t, b, f) =
           (IF w \notin {Garbage, None} THEN w
            ELSE IF DeclaredMissing(t, b) \notin {Garbage, None} THEN DeclaredMissing(t, b) ELSE None)
  BY DEF ChargeUpperBound
<1> HIDE DEF v, w
<1>8. QED  BY <1>3, <1>4, <1>5, <1>6, <1>7 DEF BoundAtMost, Amount

(* Every pair of Weaker weakens the files it is made of.                   *)
LEMMA WeakerWeakens ==
  ASSUME AccelerationAssumption, NEW t \in TargetData, NEW b \in BaselineData, NEW pair \in Weaker(t, b)
  PROVE  Weakens(pair[1], pair[2], t, b) /\ pair[1] \in TargetData /\ pair[2] \in BaselineData
<1> DEFINE TheSame(e, d) ==
             /\ e.confidence_budget = d.confidence_budget /\ e.time_uniform_evidence = d.time_uniform_evidence
             /\ e.declared_missing_charge = d.declared_missing_charge
           NoMore(e, d) ==
             \A f \in Charge : \/ e.charge[f] = d.charge[f]
                               \/ d.charge[f] \in Int /\ e.charge[f] \in Int /\ d.charge[f] <= e.charge[f]
<1>1. t.evidence \in Evidence /\ b.evidence \in Evidence /\ b.envelope_coordinates \in [Coordinate -> Amount]
  BY DEF TargetData, BaselineData
<1>2. \A c \in Coordinate : FloatValue(b.envelope_coordinates[c]) \in Int  BY <1>1, FloatTyped
<1>3. TheSame(t.evidence, t.evidence) /\ NoMore(t.evidence, t.evidence)
      /\ TheSame(b.evidence, b.evidence) /\ NoMore(b.evidence, b.evidence)
  OBVIOUS
(* Only the evidence of a target changes: its own residuals do not.        *)
<1>4. ASSUME NEW e \in Evidence, NEW s, s = [t EXCEPT !.evidence = e]
      PROVE  /\ s \in TargetData /\ s.evidence = e /\ TargetResiduals(s) = TargetResiduals(t)
             /\ s.thresholds = t.thresholds /\ s.raw_net_capital_floor = t.raw_net_capital_floor
  <2>1. /\ s \in TargetData /\ s.evidence = e /\ s.complete = t.complete /\ s.status = t.status
        /\ s.observed = t.observed /\ s.locked = t.locked /\ s.changed = t.changed
        /\ s.thresholds = t.thresholds /\ s.raw_net_capital_floor = t.raw_net_capital_floor
    BY <1>4 DEF TargetData
  <2>2. QED  BY <2>1 DEF TargetResiduals
(* ... and those of a baseline only grow.                                  *)
<1>5. ASSUME NEW e \in Evidence, NEW d, d = [b EXCEPT !.evidence = e],
             e.confidence_budget => b.evidence.confidence_budget
      PROVE  /\ d \in BaselineData /\ d.evidence = e /\ BaselineResiduals(b) \subseteq BaselineResiduals(d)
             /\ d.envelope_coordinates = b.envelope_coordinates
             /\ d.baseline_stale = b.baseline_stale /\ d.stale = b.stale /\ d.lifecycle_stale = b.lifecycle_stale
  <2>1. /\ d \in BaselineData /\ d.evidence = e /\ d.complete = b.complete /\ d.stale = b.stale
        /\ d.resource_matched = b.resource_matched /\ d.control_observability = b.control_observability
        /\ d.envelope_coordinates = b.envelope_coordinates
        /\ d.baseline_stale = b.baseline_stale /\ d.lifecycle_stale = b.lifecycle_stale
    BY <1>5 DEF BaselineData
  <2>2. QED  BY <1>5, <2>1 DEF BaselineResiduals, When
(* A pair whose evidence is the same or weaker.                            *)
<1>6. ASSUME NEW e \in Evidence, NEW g \in Evidence, NEW s, s = [t EXCEPT !.evidence = e],
             NEW d, d = [b EXCEPT !.evidence = g], NoMore(e, t.evidence), NoMore(g, b.evidence),
             e.confidence_budget => t.evidence.confidence_budget,
             e.time_uniform_evidence => t.evidence.time_uniform_evidence,
             g.confidence_budget => b.evidence.confidence_budget,
             g.time_uniform_evidence => b.evidence.time_uniform_evidence,
             \/ DeclaredMissing(s, d) = None
             \/ DeclaredMissing(s, d) = DeclaredMissing(t, b)
      PROVE  Weakens(s, d, t, b) /\ s \in TargetData /\ d \in BaselineData
  <2>1. /\ s \in TargetData /\ s.evidence = e /\ TargetResiduals(s) = TargetResiduals(t)
        /\ s.thresholds = t.thresholds /\ s.raw_net_capital_floor = t.raw_net_capital_floor
    BY <1>4, <1>6
  <2>2. /\ d \in BaselineData /\ d.evidence = g /\ BaselineResiduals(b) \subseteq BaselineResiduals(d)
        /\ d.envelope_coordinates = b.envelope_coordinates
        /\ d.baseline_stale = b.baseline_stale /\ d.stale = b.stale /\ d.lifecycle_stale = b.lifecycle_stale
    BY <1>5, <1>6
  <2>3. \A f \in Charge : BoundAtMost(ChargeUpperBound(t, b, f), ChargeUpperBound(s, d, f))
    <3> SUFFICES ASSUME NEW f \in Charge
                 PROVE  BoundAtMost(ChargeUpperBound(t, b, f), ChargeUpperBound(s, d, f))
      OBVIOUS
    <3>1. \/ s.evidence.charge[f] = t.evidence.charge[f]
          \/ /\ t.evidence.charge[f] \in Int /\ s.evidence.charge[f] \in Int
             /\ t.evidence.charge[f] <= s.evidence.charge[f]
      BY <1>6, <2>1
    <3>2. \/ d.evidence.charge[f] = b.evidence.charge[f]
          \/ /\ b.evidence.charge[f] \in Int /\ d.evidence.charge[f] \in Int
             /\ b.evidence.charge[f] <= d.evidence.charge[f]
      BY <1>6, <2>2
    <3>3. QED  BY <1>6, <3>1, <3>2, WeakerBound
  <2>4. \A c \in Coordinate : FloatValue(b.envelope_coordinates[c]) <= FloatValue(d.envelope_coordinates[c])
    BY <1>2, <2>2
  <2>5. QED  BY <1>6, <2>1, <2>2, <2>3, <2>4 DEF Weakens
<1>7. CASE \E higher \in Raised(b.envelope_coordinates) : pair = <<t, [b EXCEPT !.envelope_coordinates = higher]>>
  <2>1. PICK higher \in Raised(b.envelope_coordinates) : pair = <<t, [b EXCEPT !.envelope_coordinates = higher]>>
    BY <1>7
  <2> DEFINE d == [b EXCEPT !.envelope_coordinates = higher]
  <2>2. /\ higher \in [Coordinate -> Amount]
        /\ \A c \in Coordinate : \/ higher[c] = b.envelope_coordinates[c]
                                 \/ /\ b.envelope_coordinates[c] \in Int /\ higher[c] \in Int
                                    /\ b.envelope_coordinates[c] <= higher[c]
    BY <1>1, RaisedAmounts
  <2>3. /\ d \in BaselineData /\ d.evidence = b.evidence /\ d.complete = b.complete /\ d.stale = b.stale
        /\ d.resource_matched = b.resource_matched /\ d.control_observability = b.control_observability
        /\ d.envelope_coordinates = higher
        /\ d.baseline_stale = b.baseline_stale /\ d.lifecycle_stale = b.lifecycle_stale
    BY <2>2 DEF BaselineData
  <2>4. None # Garbage /\ None \notin Int /\ Garbage \notin Int  BY DEF AccelerationAssumption
  <2> HIDE DEF d
  <2>5. \A c \in Coordinate : /\ (higher[c] = None) = (b.envelope_coordinates[c] = None)
                              /\ FloatValue(b.envelope_coordinates[c]) <= FloatValue(higher[c])
    BY <1>2, <2>2, <2>4 DEF FloatValue
  <2>6. Named(d.envelope_coordinates) = Named(b.envelope_coordinates)  BY <2>3, <2>5 DEF Named
  <2>7. BaselineResiduals(b) = BaselineResiduals(d)  BY <2>3, <2>5 DEF BaselineResiduals
  <2>8. \A f \in Charge : BoundAtMost(ChargeUpperBound(t, b, f), ChargeUpperBound(t, d, f))
    <3> SUFFICES ASSUME NEW f \in Charge
                 PROVE  BoundAtMost(ChargeUpperBound(t, b, f), ChargeUpperBound(t, d, f))
      OBVIOUS
    <3>1. DeclaredMissing(t, d) = DeclaredMissing(t, b)  BY <2>3 DEF DeclaredMissing
    <3>2. QED  BY <2>3, <3>1, WeakerBound
  <2>9. Weakens(t, d, t, b)  BY <2>3, <2>5, <2>6, <2>7, <2>8 DEF Weakens
  <2>10. pair[1] = t /\ pair[2] = d  BY <2>1 DEF d
  <2>11. QED  BY <2>3, <2>9, <2>10
<1>8. CASE \E e \in WeakerEvidence(t.evidence) : pair = <<[t EXCEPT !.evidence = e], b>>
  <2>1. PICK e \in WeakerEvidence(t.evidence) : pair = <<[t EXCEPT !.evidence = e], b>>  BY <1>8
  <2>2. e \in Evidence /\ TheSame(e, t.evidence) /\ NoMore(e, t.evidence)  BY <1>1, WeakerCharges
  <2>3. b = [b EXCEPT !.evidence = b.evidence]  BY DEF BaselineData
  <2> DEFINE s == [t EXCEPT !.evidence = e]
  <2>4. s.evidence = e  BY DEF TargetData
  <2> HIDE DEF s
  <2>5. DeclaredMissing(s, b) = DeclaredMissing(t, b)  BY <2>2, <2>4 DEF DeclaredMissing
  <2>6. Weakens(s, b, t, b) /\ s \in TargetData
    <3>1. s = [t EXCEPT !.evidence = e]  BY DEF s
    <3> HIDE DEF NoMore
    <3>2. QED  BY <1>1, <1>3, <1>6, <2>2, <2>3, <2>5, <3>1
  <2>7. pair[1] = s /\ pair[2] = b  BY <2>1 DEF s
  <2>8. QED  BY <2>6, <2>7
<1>9. CASE \E e \in WeakerEvidence(b.evidence) : pair = <<t, [b EXCEPT !.evidence = e]>>
  <2>1. PICK e \in WeakerEvidence(b.evidence) : pair = <<t, [b EXCEPT !.evidence = e]>>  BY <1>9
  <2>2. e \in Evidence /\ TheSame(e, b.evidence) /\ NoMore(e, b.evidence)  BY <1>1, WeakerCharges
  <2>3. t = [t EXCEPT !.evidence = t.evidence]  BY DEF TargetData
  <2> DEFINE d == [b EXCEPT !.evidence = e]
  <2>4. d.evidence = e  BY DEF BaselineData
  <2> HIDE DEF d
  <2>5. DeclaredMissing(t, d) = DeclaredMissing(t, b)  BY <2>2, <2>4 DEF DeclaredMissing
  <2>6. Weakens(t, d, t, b) /\ d \in BaselineData
    <3>1. d = [b EXCEPT !.evidence = e]  BY DEF d
    <3> HIDE DEF NoMore
    <3>2. QED  BY <1>1, <1>3, <1>6, <2>2, <2>3, <2>5, <3>1
  <2>7. pair[1] = t /\ pair[2] = d  BY <2>1 DEF d
  <2>8. QED  BY <2>6, <2>7
<1>10. CASE pair = <<[t EXCEPT !.evidence = Undeclared(@)], [b EXCEPT !.evidence = Undeclared(@)]>>
  <2> DEFINE e == Undeclared(t.evidence)
             g == Undeclared(b.evidence)
             s == [t EXCEPT !.evidence = e]
             d == [b EXCEPT !.evidence = g]
  <2>1. \A x \in Evidence : /\ Undeclared(x) \in Evidence /\ NoMore(Undeclared(x), x)
                            /\ Undeclared(x).declared_missing_charge = None
                            /\ Undeclared(x).confidence_budget = x.confidence_budget
                            /\ Undeclared(x).time_uniform_evidence = x.time_uniform_evidence
    BY DEF Evidence, Undeclared, Amount
  <2>2. s.evidence = e /\ d.evidence = g  BY DEF TargetData, BaselineData
  <2>3. pair[1] = s /\ pair[2] = d  BY <1>10
  <2>4. s = [t EXCEPT !.evidence = e] /\ d = [b EXCEPT !.evidence = g]  OBVIOUS
  <2>5. /\ e \in Evidence /\ NoMore(e, t.evidence) /\ e.declared_missing_charge = None
        /\ e.confidence_budget = t.evidence.confidence_budget
        /\ e.time_uniform_evidence = t.evidence.time_uniform_evidence
        /\ g \in Evidence /\ NoMore(g, b.evidence) /\ g.declared_missing_charge = None
        /\ g.confidence_budget = b.evidence.confidence_budget
        /\ g.time_uniform_evidence = b.evidence.time_uniform_evidence
    BY <1>1, <2>1
  <2> HIDE DEF s, d, e, g, NoMore
  <2>6. DeclaredMissing(s, d) = None  BY <2>2, <2>5 DEF DeclaredMissing, FirstValue
  <2>7. QED  BY <1>6, <2>3, <2>4, <2>5, <2>6
<1>11. CASE pair = <<[t EXCEPT !.evidence = Unfounded(@)], [b EXCEPT !.evidence = Unfounded(@)]>>
  <2> DEFINE e == Unfounded(t.evidence)
             g == Unfounded(b.evidence)
             s == [t EXCEPT !.evidence = e]
             d == [b EXCEPT !.evidence = g]
  <2>1. \A x \in Evidence : /\ Unfounded(x) \in Evidence /\ NoMore(Unfounded(x), x)
                            /\ Unfounded(x).declared_missing_charge = x.declared_missing_charge
                            /\ ~Unfounded(x).confidence_budget /\ ~Unfounded(x).time_uniform_evidence
    BY DEF Evidence, Unfounded
  <2>2. s.evidence = e /\ d.evidence = g  BY DEF TargetData, BaselineData
  <2>3. pair[1] = s /\ pair[2] = d  BY <1>11
  <2>4. s = [t EXCEPT !.evidence = e] /\ d = [b EXCEPT !.evidence = g]  OBVIOUS
  <2>5. /\ e \in Evidence /\ NoMore(e, t.evidence)
        /\ e.declared_missing_charge = t.evidence.declared_missing_charge
        /\ ~e.confidence_budget /\ ~e.time_uniform_evidence
        /\ g \in Evidence /\ NoMore(g, b.evidence)
        /\ g.declared_missing_charge = b.evidence.declared_missing_charge
        /\ ~g.confidence_budget /\ ~g.time_uniform_evidence
    BY <1>1, <2>1
  <2> HIDE DEF s, d, e, g, NoMore
  <2>6. DeclaredMissing(s, d) = DeclaredMissing(t, b)  BY <2>2, <2>5 DEF DeclaredMissing
  <2>7. QED  BY <1>6, <2>3, <2>4, <2>5, <2>6
<1>12. QED  BY <1>7, <1>8, <1>9, <1>10, <1>11 DEF Weaker

(* A threshold is reached, or not, by the amount on its coordinate.        *)
LEMMA ReachedBy ==
  ASSUME NEW t, NEW amounts
  PROVE  /\ Reached(t, amounts) \subseteq Named(t.thresholds) /\ Named(t.thresholds) \subseteq Coordinate
         /\ \A c \in Named(t.thresholds) :
              c \in Reached(t, amounts) <=> amounts[c] >= FloatValue(t.thresholds[c])
BY DEF Reached, Named

(* What is a candidate on weaker evidence is one, with no smaller margin.  *)
LEMMA CertifiedByLess ==
  ASSUME AccelerationAssumption, NEW t \in TargetData, NEW b \in BaselineData,
         NEW strong \in TargetData, NEW base \in BaselineData, NEW ws, Witnessed(ws),
         Weakens(t, b, strong, base), Certified(t, b, ws)
  PROVE  /\ Certified(strong, base, ws)
         /\ MarginDelta(t, b, ws) \in Int /\ MarginDelta(strong, base, ws) \in Int
         /\ MarginDelta(t, b, ws) <= MarginDelta(strong, base, ws)
<1> DEFINE env(x, c) == FloatValue(x.envelope_coordinates[c])
<1>1. /\ Named(t.thresholds) # {} /\ Residuals(t, b, ws) = {}
      /\ MarginDelta(t, b, ws) # None /\ MarginDelta(t, b, ws) > 0
      /\ Reached(t, [c \in Coordinate |-> Capital(ws, c)]) # {}
      /\ Reached(t, [c \in Coordinate |-> env(b, c)]) # Named(t.thresholds)
  BY DEF Certified
<1>2. Coordinates(t, b, ws) = Coordinates(strong, base, ws)  BY DEF Weakens, Coordinates
<1>3. \A c \in Coordinate : /\ env(b, c) \in Int /\ env(base, c) \in Int /\ env(base, c) <= env(b, c)
                            /\ Capital(ws, c) \in Int /\ FloatValue(t.thresholds[c]) \in Int
  <2>1. \A c \in Coordinate : /\ b.envelope_coordinates[c] \in Amount /\ base.envelope_coordinates[c] \in Amount
                              /\ t.thresholds[c] \in Amount
    BY DEF BaselineData, TargetData
  <2>2. QED  BY <2>1, FloatTyped, CapitalTyped DEF Weakens
<1>4. Residuals(strong, base, ws) = {}
  <2>1. Residuals(strong, base, ws) \subseteq Residuals(t, b, ws)  BY DEF Weakens, Residuals
  <2>2. QED  BY <1>1, <2>1
<1>5. MarginDelta(strong, base, ws) # None  BY <1>1, <1>2, MarginLeast
<1>6. PICK c \in Coordinates(strong, base, ws) : MarginDelta(strong, base, ws) = Capital(ws, c) - env(base, c)
  BY <1>5, MarginLeast
<1>7. /\ MarginDelta(t, b, ws) \in Int /\ MarginDelta(strong, base, ws) \in Int
      /\ MarginDelta(t, b, ws) <= Capital(ws, c) - env(b, c)
  BY <1>1, <1>2, <1>5, MarginLeast
<1>8. c \in Coordinate  BY DEF Coordinates, Named
<1>9. MarginDelta(t, b, ws) <= MarginDelta(strong, base, ws)
  <2>1. env(base, c) <= env(b, c) /\ env(b, c) \in Int /\ env(base, c) \in Int /\ Capital(ws, c) \in Int
    BY <1>3, <1>8
  <2> HIDE DEF env
  <2>2. QED  BY <1>6, <1>7, <2>1
<1>10. t.thresholds = strong.thresholds  BY DEF Weakens
<1>11. Reached(strong, [x \in Coordinate |-> Capital(ws, x)]) # {}  BY <1>1, <1>10 DEF Reached
<1>12. Reached(strong, [x \in Coordinate |-> env(base, x)]) # Named(strong.thresholds)
  <2> DEFINE above == [x \in Coordinate |-> env(b, x)]
             below == [x \in Coordinate |-> env(base, x)]
  <2>1. \A x \in Coordinate : above[x] = env(b, x) /\ below[x] = env(base, x)  OBVIOUS
  <2>2. Reached(t, above) # Named(t.thresholds)  BY <1>1
  <2> HIDE DEF above, below
  <2>3. PICK x \in Named(t.thresholds) : x \notin Reached(t, above)  BY <2>2, ReachedBy
  <2>4. x \in Coordinate /\ ~(env(b, x) >= FloatValue(t.thresholds[x]))  BY <2>1, <2>3, ReachedBy
  <2>5. env(base, x) <= env(b, x) /\ env(b, x) \in Int /\ env(base, x) \in Int /\ FloatValue(t.thresholds[x]) \in Int
    BY <1>3, <2>4
  <2> HIDE DEF env
  <2>6. ~(env(base, x) >= FloatValue(t.thresholds[x]))  BY <2>4, <2>5
  <2>7. x \notin Reached(strong, below)  BY <1>10, <2>1, <2>3, <2>4, <2>6, ReachedBy
  <2>8. Reached(strong, below) # Named(strong.thresholds)  BY <1>10, <2>3, <2>7
  <2>9. QED  BY <2>8 DEF below, env
<1>13. MarginDelta(strong, base, ws) > 0  BY <1>1, <1>7, <1>9
<1>14. Certified(strong, base, ws)
  BY <1>1, <1>4, <1>5, <1>10, <1>11, <1>12, <1>13 DEF Certified
<1>15. QED  BY <1>7, <1>9, <1>14

(* The charges of weaker evidence are no smaller in sum.                   *)
LEMMA ChargesAtMost ==
  ASSUME AccelerationAssumption, NEW t \in TargetData, NEW b \in BaselineData,
         NEW strong \in TargetData, NEW base \in BaselineData,
         Weakens(t, b, strong, base), IntervalResiduals(t, b) = {}
  PROVE  /\ IntervalResiduals(strong, base) = {}
         /\ TotalCharge(t, b) \in Int /\ TotalCharge(strong, base) \in Int
         /\ TotalCharge(strong, base) <= TotalCharge(t, b)
<1> DEFINE f == [x \in Charge |-> FloatValue(ChargeUpperBound(strong, base, x))]
           g == [x \in Charge |-> FloatValue(ChargeUpperBound(t, b, x))]
<1>1. None # Garbage /\ None \notin Int /\ Garbage \notin Int /\ IsFiniteSet(Charge)
  BY DEF AccelerationAssumption
<1>2. \A x \in Charge : ChargeUpperBound(t, b, x) # None
  BY DEF IntervalResiduals
<1>3. \A x \in Charge : /\ ChargeUpperBound(t, b, x) \in Int /\ ChargeUpperBound(strong, base, x) \in Int
                        /\ ChargeUpperBound(strong, base, x) <= ChargeUpperBound(t, b, x)
  BY <1>2, ChargeTyped DEF Weakens, BoundAtMost
<1>4. \A x \in Charge : f[x] \in Int /\ g[x] \in Int /\ f[x] <= g[x]  BY <1>1, <1>3 DEF FloatValue
<1>5. TotalCharge(strong, base) = SumFunctionOnSet(f, Charge) /\ TotalCharge(t, b) = SumFunctionOnSet(g, Charge)
  BY DEF TotalCharge, SumFunction
<1> HIDE DEF f, g
<1>6. TotalCharge(strong, base) <= TotalCharge(t, b)  BY <1>1, <1>4, <1>5, SumMonotone
<1>7. TotalCharge(t, b) \in Int /\ TotalCharge(strong, base) \in Int  BY <1>1, <1>4, <1>5, SumRemove
<1>8. IntervalResiduals(strong, base) = {}
  <2>1. \A x \in Charge : ChargeUpperBound(strong, base, x) # None  BY <1>1, <1>3
  <2>2. /\ t.evidence.confidence_budget \/ b.evidence.confidence_budget
        /\ t.evidence.time_uniform_evidence \/ b.evidence.time_uniform_evidence
        /\ ~(b.baseline_stale \/ b.stale \/ b.lifecycle_stale)
    BY DEF IntervalResiduals, When
  <2>3. /\ strong.evidence.confidence_budget \/ base.evidence.confidence_budget
        /\ strong.evidence.time_uniform_evidence \/ base.evidence.time_uniform_evidence
        /\ ~(base.baseline_stale \/ base.stale \/ base.lifecycle_stale)
    BY <2>2 DEF Weakens
  <2>4. QED  BY <2>1, <2>3 DEF IntervalResiduals, When
<1>9. QED  BY <1>6, <1>7, <1>8

(* So an interval candidate on weaker evidence is one, too.                *)
LEMMA IntervalByLess ==
  ASSUME AccelerationAssumption, NEW t \in TargetData, NEW b \in BaselineData,
         NEW strong \in TargetData, NEW base \in BaselineData, NEW ws, Witnessed(ws),
         Weakens(t, b, strong, base), IntervalCandidate(t, b, ws)
  PROVE  IntervalCandidate(strong, base, ws)
<1>1. Certified(t, b, ws) /\ MarginDelta(t, b, ws) - TotalCharge(t, b) > 0 /\ IntervalResiduals(t, b) = {}
  BY DEF IntervalCandidate
<1>2. /\ Certified(strong, base, ws)
      /\ MarginDelta(t, b, ws) \in Int /\ MarginDelta(strong, base, ws) \in Int
      /\ MarginDelta(t, b, ws) <= MarginDelta(strong, base, ws)
  BY <1>1, CertifiedByLess
<1>3. /\ IntervalResiduals(strong, base) = {}
      /\ TotalCharge(t, b) \in Int /\ TotalCharge(strong, base) \in Int
      /\ TotalCharge(strong, base) <= TotalCharge(t, b)
  BY <1>1, ChargesAtMost
<1>4. MarginDelta(strong, base, ws) - TotalCharge(strong, base) > 0  BY <1>1, <1>2, <1>3
<1>5. QED  BY <1>2, <1>3, <1>4 DEF IntervalCandidate

(***************************************************************************)
(* One more admitted packet.                                               *)
(***************************************************************************)
(* It adds its surplus to the capital of its coordinate, and nothing else. *)
LEMMA PacketAdds ==
  ASSUME AccelerationAssumption, LinesFaithful, NEW p \in Packet, CapitalResiduals(p) = {},
         NEW ws, ws = ReadAgain(capital),
         NEW us, us = Witnesses(Append(capital, [packet |-> p, witness |-> None]))
  PROVE  /\ Witnessed(ws) /\ Witnessed(us)
         /\ SignedSurplus(p) \in Int /\ SignedSurplus(p) > 0 /\ p.coordinate \in Coordinate
         /\ \A c : c # p.coordinate => Admitted(us, c) = Admitted(ws, c)
         /\ Admitted(us, p.coordinate) # {}
         /\ \A c : Capital(us, c) = Capital(ws, c) + (IF c = p.coordinate THEN SignedSurplus(p) ELSE 0)
         /\ ProxyResiduals(us) = ProxyResiduals(ws)
<1> DEFINE line == [packet |-> p, witness |-> None]
           n == Len(capital) + 1
<1>1. capital \in Seq(PacketLine)  BY DEF LinesFaithful
<1>2. line \in PacketLine /\ line.witness = None /\ line.packet = p  BY DEF PacketLine
<1>3. Witnesses(capital) = ws  BY WitnessesReadAgain
<1>4. Witnessed(ws) /\ DOMAIN ws = DOMAIN capital  BY ReadAgainTyped
<1>5. us = Witnesses(Append(capital, line))  OBVIOUS
<1> HIDE DEF line
<1>6. /\ DOMAIN capital = 1 .. Len(capital) /\ DOMAIN Append(capital, line) = 1 .. n /\ Len(capital) \in Nat
      /\ \A i \in DOMAIN capital : Append(capital, line)[i] = capital[i]
      /\ Append(capital, line)[n] = line
  BY <1>1, <1>2
<1>7. DOMAIN us = DOMAIN capital \cup {n} /\ n \notin DOMAIN capital
  <2>1. DOMAIN us = DOMAIN Append(capital, line)  BY <1>5 DEF Witnesses
  <2>2. 1 .. n = (1 .. Len(capital)) \cup {n} /\ n \notin 1 .. Len(capital)  BY <1>6
  <2>3. QED  BY <1>6, <2>1, <2>2
<1>8. \A i \in DOMAIN capital : us[i] = ws[i]
  <2> SUFFICES ASSUME NEW i \in DOMAIN capital PROVE us[i] = ws[i]  OBVIOUS
  <2>1. i \in DOMAIN Append(capital, line) /\ Append(capital, line)[i] = capital[i]  BY <1>6
  <2>2. ws[i] = IF capital[i].witness # None THEN capital[i].witness ELSE CapitalWitness(capital[i].packet)
    BY <1>3 DEF Witnesses
  <2>3. QED  BY <1>5, <2>1, <2>2 DEF Witnesses
<1>9. us[n] = CapitalWitness(p)
  <2>1. n \in DOMAIN Append(capital, line)  BY <1>6
  <2>2. QED  BY <1>2, <1>5, <1>6, <2>1 DEF Witnesses
<1>10. /\ p \in PacketData /\ SignedSurplus(p) \in Int /\ us[n] \in WitnessData
       /\ us[n].coordinate = p.coordinate /\ us[n].capital_admitted /\ us[n].surplus = SignedSurplus(p)
  BY <1>9, WitnessTyped
<1>11. p.coordinate \in Coordinate  BY <1>10 DEF PacketData
<1>12. SignedSurplus(p) > 0
  <2>1. ~(SignedSurplus(p) <= 0)  BY DEF CapitalResiduals, When
  <2>2. QED  BY <1>10, <2>1
<1> HIDE DEF n
<1>13. Witnessed(us)
  <2>1. IsFiniteSet(DOMAIN us)
    <3>1. IsFiniteSet(DOMAIN capital)  BY <1>4 DEF Witnessed
    <3>2. QED  BY <1>7, <3>1, FS_AddElement
  <2>2. QED  BY <1>4, <1>7, <1>8, <1>10, <2>1 DEF Witnessed
<1>14. \A c : Admitted(us, c) = Admitted(ws, c) \cup (IF c = p.coordinate THEN {n} ELSE {})
  BY <1>4, <1>7, <1>8, <1>10 DEF Admitted
<1>15. ASSUME NEW c
       PROVE  Capital(us, c) = Capital(ws, c) + (IF c = p.coordinate THEN SignedSurplus(p) ELSE 0)
  <2> DEFINE f == [i \in DOMAIN ws |-> ws[i].surplus]
             g == [i \in DOMAIN us |-> us[i].surplus]
             A == Admitted(ws, c)
             B == Admitted(us, c)
  <2>1. A \subseteq DOMAIN ws /\ IsFiniteSet(A) /\ B \subseteq DOMAIN us /\ IsFiniteSet(B)
        /\ Capital(ws, c) \in Int
    BY <1>4, <1>13, CapitalTyped
  <2>2. \A i \in DOMAIN ws : f[i] = ws[i].surplus /\ ws[i].surplus \in Int
    BY <1>4 DEF Witnessed, WitnessData
  <2>3. \A i \in DOMAIN us : g[i] = us[i].surplus /\ us[i].surplus \in Int
    BY <1>13 DEF Witnessed, WitnessData
  <2>4. Capital(ws, c) = SumFunctionOnSet(f, A) /\ Capital(us, c) = SumFunctionOnSet(g, B)
    BY DEF Capital
  <2>5. B = A \cup (IF c = p.coordinate THEN {n} ELSE {})  BY <1>14
  <2> HIDE DEF f, g, A, B
  <2>6. \A i \in A : f[i] \in Int /\ g[i] = f[i]  BY <1>4, <1>7, <1>8, <2>1, <2>2, <2>3
  <2>7. SumFunctionOnSet(f, A) = SumFunctionOnSet(g, A)  BY <2>1, <2>6, SumEqual
  <2>8. CASE c # p.coordinate  BY <2>1, <2>4, <2>5, <2>7, <2>8
  <2>9. CASE c = p.coordinate
    <3>1. n \in B /\ B \ {n} = A  BY <1>4, <1>7, <2>1, <2>5, <2>9
    <3>2. \A i \in B : g[i] \in Int  BY <2>1, <2>3
    <3>3. SumFunctionOnSet(g, B) = g[n] + SumFunctionOnSet(g, A)
      <4>1. IsFiniteSet(B)  BY <2>1
      <4>2. /\ SumFunctionOnSet(g, {}) = 0
            /\ \A T \in SUBSET B : SumFunctionOnSet(g, T) \in Int
            /\ \A T \in SUBSET B : \A y \in T : SumFunctionOnSet(g, T) = g[y] + SumFunctionOnSet(g, T \ {y})
        BY <3>2, <4>1, SumRemove
      <4>3. B \in SUBSET B  OBVIOUS
      <4>4. QED  BY <3>1, <4>2, <4>3
    <3>4. g[n] = SignedSurplus(p)  BY <1>7, <1>10, <2>3
    <3>5. QED  BY <1>10, <2>1, <2>4, <2>7, <2>9, <3>3, <3>4
  <2>10. QED  BY <2>8, <2>9
<1>16. ProxyResiduals(us) = ProxyResiduals(ws)
  <2>1. (\E i \in DOMAIN us : ~us[i].capital_admitted /\ us[i].proxy_only)
          = (\E i \in DOMAIN ws : ~ws[i].capital_admitted /\ ws[i].proxy_only)
    BY <1>4, <1>7, <1>8, <1>10
  <2>2. QED  BY <2>1 DEF ProxyResiduals
<1>17. QED  BY <1>4, <1>10, <1>11, <1>12, <1>13, <1>14, <1>15, <1>16

(* A candidate stays one, and its margin only gets less when it is that of *)
(* the new packet alone.                                                   *)
LEMMA CertifiedWithMore ==
  ASSUME AccelerationAssumption, LinesFaithful, NEW p \in Packet, CapitalResiduals(p) = {},
         NEW t \in TargetData, NEW b \in BaselineData,
         NEW ws, ws = ReadAgain(capital),
         NEW us, us = Witnesses(Append(capital, [packet |-> p, witness |-> None])),
         Certified(t, b, ws)
  PROVE  /\ Certified(t, b, us)
         /\ MarginDelta(t, b, ws) \in Int /\ MarginDelta(t, b, us) \in Int /\ SignedSurplus(p) \in Int
         /\ \/ MarginDelta(t, b, ws) <= MarginDelta(t, b, us)
            \/ p.coordinate \notin Coordinates(t, b, ws) /\ MarginDelta(t, b, us) = SignedSurplus(p)
<1> DEFINE env(c) == FloatValue(b.envelope_coordinates[c])
<1>1. /\ Named(t.thresholds) # {} /\ Residuals(t, b, ws) = {}
      /\ MarginDelta(t, b, ws) # None /\ MarginDelta(t, b, ws) > 0
      /\ Reached(t, [c \in Coordinate |-> Capital(ws, c)]) # {}
      /\ Reached(t, [c \in Coordinate |-> env(c)]) # Named(t.thresholds)
  BY DEF Certified
<1>2. /\ Witnessed(ws) /\ Witnessed(us)
      /\ SignedSurplus(p) \in Int /\ SignedSurplus(p) > 0 /\ p.coordinate \in Coordinate
      /\ \A c : c # p.coordinate => Admitted(us, c) = Admitted(ws, c)
      /\ Admitted(us, p.coordinate) # {}
      /\ \A c : Capital(us, c) = Capital(ws, c) + (IF c = p.coordinate THEN SignedSurplus(p) ELSE 0)
      /\ ProxyResiduals(us) = ProxyResiduals(ws)
  BY PacketAdds
<1>3. \A c \in Coordinate : /\ env(c) \in Int /\ FloatValue(t.thresholds[c]) \in Int
                            /\ Capital(ws, c) \in Int /\ Capital(us, c) \in Int
                            /\ Capital(ws, c) <= Capital(us, c)
  <2>1. \A c \in Coordinate : b.envelope_coordinates[c] \in Amount /\ t.thresholds[c] \in Amount
    BY DEF BaselineData, TargetData
  <2>2. \A c \in Coordinate : env(c) \in Int /\ FloatValue(t.thresholds[c]) \in Int  BY <2>1, FloatTyped
  <2>3. \A c : Capital(ws, c) \in Int /\ Capital(us, c) \in Int  BY <1>2, CapitalTyped
  <2>4. \A c : Capital(ws, c) <= Capital(us, c)  BY <1>2, <2>3
  <2>5. QED  BY <2>2, <2>3, <2>4
<1> HIDE DEF env
<1>4. Coordinates(t, b, us) = Coordinates(t, b, ws) \cup {p.coordinate}  BY <1>2 DEF Coordinates
<1>5. MarginDelta(t, b, us) # None  BY <1>2, <1>4, MarginLeast
<1>6. PICK c \in Coordinates(t, b, us) : MarginDelta(t, b, us) = Capital(us, c) - env(c)
  BY <1>2, <1>5, MarginLeast DEF env
<1>7. c \in Coordinate  BY <1>2, <1>4 DEF Coordinates, Named
<1>8. MarginDelta(t, b, ws) \in Int /\ MarginDelta(t, b, us) \in Int  BY <1>1, <1>2, <1>5, MarginLeast
<1>9. \/ MarginDelta(t, b, ws) <= MarginDelta(t, b, us)
      \/ p.coordinate \notin Coordinates(t, b, ws) /\ MarginDelta(t, b, us) = SignedSurplus(p)
  <2>1. CASE c \in Coordinates(t, b, ws)
    <3>1. MarginDelta(t, b, ws) <= Capital(ws, c) - env(c)  BY <1>2, <2>1, MarginLeast DEF env
    <3>2. QED  BY <1>3, <1>6, <1>7, <1>8, <3>1
  <2>2. CASE c \notin Coordinates(t, b, ws)
    <3>1. c = p.coordinate  BY <1>4, <2>2
    <3>2. b.envelope_coordinates[c] = None /\ Admitted(ws, c) = {}
      BY <1>7, <2>2 DEF Coordinates, Named
    <3>3. Capital(ws, c) = 0  BY <1>2, <3>2, CapitalTyped
    <3>4. env(c) = 0  BY <3>2 DEF env, FloatValue
    <3>5. Capital(us, c) = SignedSurplus(p)  BY <1>2, <3>1, <3>3
    <3>6. QED  BY <1>2, <1>6, <2>2, <3>1, <3>4, <3>5
  <2>3. QED  BY <2>1, <2>2
<1>10. MarginDelta(t, b, us) > 0  BY <1>1, <1>2, <1>8, <1>9
<1>11. Residuals(t, b, us) = {}
  <2> DEFINE f == [x \in Coordinate |-> Capital(ws, x)]
             g == [x \in Coordinate |-> Capital(us, x)]
  <2>1. IsFiniteSet(Coordinate)  BY DEF AccelerationAssumption
  <2>2. \A x \in Coordinate : f[x] \in Int /\ g[x] \in Int /\ f[x] <= g[x]  BY <1>3
  <2>3. DOMAIN f = Coordinate /\ DOMAIN g = Coordinate  OBVIOUS
  <2>4. /\ TargetResiduals(t) = {} /\ BaselineResiduals(b) = {} /\ ProxyResiduals(ws) = {}
        /\ ~(SumFunction(f) < FloatValue(t.raw_net_capital_floor))
    BY <1>1 DEF Residuals, When
  <2> HIDE DEF f, g
  <2>5. SumFunction(f) = SumFunctionOnSet(f, Coordinate) /\ SumFunction(g) = SumFunctionOnSet(g, Coordinate)
    BY <2>3 DEF SumFunction
  <2>6. SumFunction(f) <= SumFunction(g) /\ SumFunction(f) \in Int /\ SumFunction(g) \in Int
    BY <2>1, <2>2, <2>5, SumMonotone, SumRemove
  <2>7. FloatValue(t.raw_net_capital_floor) \in Int
    <3>1. t.raw_net_capital_floor \in Amount  BY DEF TargetData
    <3>2. QED  BY <3>1, FloatTyped
  <2>8. ~(SumFunction(g) < FloatValue(t.raw_net_capital_floor))  BY <2>4, <2>6, <2>7
  <2>9. ~\A x \in Coordinate : Admitted(us, x) = {}  BY <1>2
  <2>10. ProxyResiduals(us) = {}  BY <1>2, <2>4
  <2>11. QED  BY <1>1, <2>4, <2>8, <2>9, <2>10 DEF Residuals, When, g
<1>12. Reached(t, [x \in Coordinate |-> Capital(us, x)]) # {}
  <2> DEFINE f == [x \in Coordinate |-> Capital(ws, x)]
             g == [x \in Coordinate |-> Capital(us, x)]
  <2>1. \A x \in Coordinate : f[x] \in Int /\ g[x] \in Int /\ f[x] <= g[x]  BY <1>3
  <2>2. Reached(t, f) # {}  BY <1>1
  <2> HIDE DEF f, g
  <2>3. PICK x \in Reached(t, f) : TRUE  BY <2>2
  <2>4. x \in Named(t.thresholds) /\ x \in Coordinate /\ f[x] >= FloatValue(t.thresholds[x])
    BY ReachedBy
  <2>5. g[x] >= FloatValue(t.thresholds[x])  BY <1>3, <2>1, <2>4
  <2>6. x \in Reached(t, g)  BY <2>4, <2>5, ReachedBy
  <2>7. QED  BY <2>6 DEF g
<1>13. Certified(t, b, us)
  BY <1>1, <1>5, <1>10, <1>11, <1>12 DEF Certified, env
<1>14. QED  BY <1>2, <1>8, <1>9, <1>13

(* More admitted capital costs no candidate its standing, and nothing that *)
(* weakens the evidence makes a candidate of what was none (the sums and   *)
(* margins of phaseAccelerationReport, the charges and flags of            *)
(* phaseIntervalEvidence, where what is missing is a residual and never 0).*)
THEOREM WeakerNeverCertifies == Spec => []WeakerEvidenceNeverCertifies
<1>1. ASSUME AccelerationAssumption, AccelerationInv, FilesBounded PROVE WeakerEvidenceNeverCertifies
  <2> SUFFICES ASSUME printed # None PROVE WeakerEvidenceNeverCertifies  BY DEF WeakerEvidenceNeverCertifies
  <2> DEFINE ws == ReadAgain(capital)
             More(p) == PhaseAccelerationReport(target, baseline, Append(capital, [packet |-> p, witness |-> None]))
             Less(pair) == PhaseAccelerationReport(pair[1], pair[2], capital)
  <2>1. /\ printed.certified_acceleration_candidate = Certified(target, baseline, ws)
        /\ printed.certified_acceleration_interval_candidate = IntervalCandidate(target, baseline, ws)
        /\ Witnesses(capital) = ws
    BY <1>1, PrintedIs
  <2>2. target \in TargetData /\ baseline \in BaselineData /\ Witnessed(ws)  BY <1>1, FilesTyped
  <2>3. LinesFaithful  BY <1>1 DEF AccelerationInv
  <2>4. ASSUME NEW p \in Packet, CapitalResiduals(p) = {}
        PROVE  /\ printed.certified_acceleration_candidate => More(p).certified_acceleration_candidate
               /\ \/ p.coordinate \in Coordinates(target, baseline, Witnesses(capital))
                  \/ SignedSurplus(p) > TotalCharge(target, baseline)
                  => (printed.certified_acceleration_interval_candidate
                        => More(p).certified_acceleration_interval_candidate)
    <3> DEFINE us == Witnesses(Append(capital, [packet |-> p, witness |-> None]))
    <3>1. /\ More(p).certified_acceleration_candidate = Certified(target, baseline, us)
          /\ More(p).certified_acceleration_interval_candidate = IntervalCandidate(target, baseline, us)
      BY DEF PhaseAccelerationReport
    <3>2. Certified(target, baseline, ws) =>
            /\ Certified(target, baseline, us)
            /\ MarginDelta(target, baseline, ws) \in Int /\ MarginDelta(target, baseline, us) \in Int
            /\ SignedSurplus(p) \in Int
            /\ \/ MarginDelta(target, baseline, ws) <= MarginDelta(target, baseline, us)
               \/ /\ p.coordinate \notin Coordinates(target, baseline, ws)
                  /\ MarginDelta(target, baseline, us) = SignedSurplus(p)
      BY <1>1, <2>2, <2>3, <2>4, CertifiedWithMore
    <3> HIDE DEF us, ws, More
    <3>3. ASSUME IntervalCandidate(target, baseline, ws),
                 \/ p.coordinate \in Coordinates(target, baseline, ws)
                 \/ SignedSurplus(p) > TotalCharge(target, baseline)
          PROVE  IntervalCandidate(target, baseline, us)
      <4>1. /\ Certified(target, baseline, ws) /\ IntervalResiduals(target, baseline) = {}
            /\ MarginDelta(target, baseline, ws) - TotalCharge(target, baseline) > 0
        BY <3>3 DEF IntervalCandidate
      <4>2. TotalCharge(target, baseline) \in Int
        <5>1. \A f \in Charge : FloatValue(ChargeUpperBound(target, baseline, f)) \in Int
          <6>1. \A f \in Charge : ChargeUpperBound(target, baseline, f) \in Amount
            BY <1>1, <2>2, ChargeTyped DEF Amount
          <6>2. QED  BY <1>1, <6>1, FloatTyped
        <5> DEFINE g == [f \in Charge |-> FloatValue(ChargeUpperBound(target, baseline, f))]
        <5>2. \A f \in Charge : g[f] \in Int  BY <5>1
        <5>3. TotalCharge(target, baseline) = SumFunctionOnSet(g, Charge)  BY DEF TotalCharge, SumFunction
        <5> HIDE DEF g
        <5>4. IsFiniteSet(Charge)  BY <1>1 DEF AccelerationAssumption
        <5>5. \A T \in SUBSET Charge : SumFunctionOnSet(g, T) \in Int  BY <5>2, <5>4, SumRemove
        <5>6. QED  BY <5>3, <5>5
      <4>3. MarginDelta(target, baseline, us) - TotalCharge(target, baseline) > 0
        BY <3>2, <3>3, <4>1, <4>2
      <4>4. QED  BY <3>2, <4>1, <4>3 DEF IntervalCandidate
    <3>4. QED  BY <2>1, <3>1, <3>2, <3>3
  <2>5. ASSUME NEW pair \in Weaker(target, baseline)
        PROVE  /\ Less(pair).certified_acceleration_candidate => printed.certified_acceleration_candidate
               /\ Less(pair).certified_acceleration_interval_candidate
                    => printed.certified_acceleration_interval_candidate
    <3>1. /\ Less(pair).certified_acceleration_candidate = Certified(pair[1], pair[2], ws)
          /\ Less(pair).certified_acceleration_interval_candidate = IntervalCandidate(pair[1], pair[2], ws)
      BY <2>1 DEF PhaseAccelerationReport
    <3>2. Weakens(pair[1], pair[2], target, baseline) /\ pair[1] \in TargetData /\ pair[2] \in BaselineData
      BY <1>1, <2>2, WeakerWeakens
    <3> HIDE DEF ws, Less
    <3>3. Certified(pair[1], pair[2], ws) => Certified(target, baseline, ws)
      BY <1>1, <2>2, <3>2, CertifiedByLess
    <3>4. IntervalCandidate(pair[1], pair[2], ws) => IntervalCandidate(target, baseline, ws)
      BY <1>1, <2>2, <3>2, IntervalByLess
    <3>5. QED  BY <2>1, <3>1, <3>3, <3>4
  <2> HIDE DEF ws
  <2>6. QED  BY <2>4, <2>5 DEF WeakerEvidenceNeverCertifies
<1>2. AccelerationInv /\ FilesBounded => WeakerEvidenceNeverCertifies  BY <1>1, AccelerationAssumption
<1>3. QED  BY <1>2, FilesInvariant, PTL
=============================================================================
