------------------------- MODULE PhaseLabWriterProofs -------------------------
(***************************************************************************)
(* Theorems about PhaseLabStore when one process ingests, beside others    *)
(* that read, and when one process works alone.                            *)
(***************************************************************************)
EXTENDS PhaseLabStoreProofs

OneIngester == \A p, q \in Proc : "ingest" \in Allowed[p] /\ "ingest" \in Allowed[q] => p = q
OneProcess  == \A p, q \in Proc : p = q

-----------------------------------------------------------------------------
(* What a step changes, and how a label is reached.                        *)

(* Log and window files are changed by the calls that write them only. *)
LEMMA WhatChanges ==
  ASSUME NEW p \in Proc, Step(p)
  PROVE  /\ CreateLog(p) \/ AppendEvents(p) \/ TearAppend(p) \/ UNCHANGED <<events, openTail>>
         /\ TruncateWindow(p) \/ FillWindow(p) \/ windows' = windows
         /\ SelectWindow(p) \/ Begin(p) \/ seenIndex' = seenIndex
         /\ CreateLog(p) \/ AppendEvents(p) \/ TearAppend(p) \/ eventsExist' = eventsExist
         /\ Begin(p) \/ ingests' = ingests
         /\ Crash(p) \/ TearAppend(p) \/ torn' = torn
<1> USE DEF files, ghosts
<1>1. CASE Begin(p) \/ CheckLog(p) \/ CreateLog(p) \/ AppendEvents(p)
  BY <1>1 DEF Begin, Start, CheckLog, CreateLog, AppendEvents
<1>2. CASE ManifestWindows(p) \/ ManifestEvents(p) \/ OpenManifest(p) \/ CloseManifest(p)
  BY <1>2 DEF ManifestWindows, ManifestEvents, OpenManifest, CloseManifest, WriteManifest, Fail, End, Reset
<1>3. CASE ReadSequence(p) \/ ReadOffset(p) \/ TruncateWindow(p) \/ FillWindow(p) \/ WriteLatest(p)
  BY <1>3 DEF ReadSequence, ReadOffset, TruncateWindow, FillWindow, WriteLatest, Fail, End, Reset
<1>4. CASE ListWindows(p) \/ ExportEvents(p) \/ ExportWindows(p) \/ SelectWindow(p) \/ SelectEvents(p)
  BY <1>4 DEF ListWindows, ExportEvents, ExportWindows, SelectWindow, SelectEvents, Fail, End, Reset
<1>5. CASE Crash(p) \/ TearAppend(p)
  BY <1>5 DEF Crash, TearAppend, Reset
<1>6. QED  BY <1>1, <1>2, <1>3, <1>4, <1>5 DEF Step, Work

(* The call behind a process when it stands at a label. *)
LEMMA HowReached ==
  ASSUME TypeOK, NEW p \in Proc, Step(p)
  PROVE  /\ pc'[p] = "openEvents" => ManifestWindows(p) /\ pc[p] = "openWindows" /\ WindowsReadable
         /\ pc'[p] = "openManifest" => ManifestEvents(p) /\ pc[p] = "openEvents" /\ LogReadable
         /\ pc'[p] \in {"sequence", "listWindows", "exportEvents"} => OpenManifest(p)
         /\ pc'[p] = "offset" => ReadSequence(p) /\ WindowsReadable
         /\ pc'[p] = "append" => ReadOffset(p) /\ LogReadable
         /\ pc'[p] = "truncate" => AppendEvents(p)
         /\ pc'[p] = "fill" => TruncateWindow(p)
         /\ pc'[p] = "latest" => FillWindow(p)
         /\ pc'[p] = "closeWindows" => WriteLatest(p)
         /\ pc'[p] = "closeEvents" => ManifestWindows(p) /\ pc[p] = "closeWindows" /\ WindowsReadable
         /\ pc'[p] = "closeManifest" => ManifestEvents(p) /\ pc[p] = "closeEvents" /\ LogReadable
         /\ pc'[p] = "exportWindows" => ExportEvents(p)
         /\ pc'[p] = "selectWindow" => Begin(p) \/ ExportWindows(p)
         /\ pc'[p] = "selectEvents" => SelectWindow(p)
<1> USE DEF GoTo
<1>1. DOMAIN pc = Proc  BY DEF TypeOK
<1>2. CASE Begin(p) \/ CheckLog(p) \/ CreateLog(p) \/ AppendEvents(p)
  BY <1>1, <1>2 DEF Begin, Start, CheckLog, CreateLog, AppendEvents
<1>3. CASE ManifestWindows(p)
  BY <1>1, <1>3 DEF ManifestWindows, Fail, End, Reset
<1>4. CASE ManifestEvents(p)
  BY <1>1, <1>4 DEF ManifestEvents, Fail, End, Reset
<1>5. CASE OpenManifest(p) \/ CloseManifest(p)
  BY <1>1, <1>5 DEF OpenManifest, CloseManifest, End, Reset
<1>6. CASE ReadSequence(p) \/ ReadOffset(p)
  BY <1>1, <1>6 DEF ReadSequence, ReadOffset, Fail, End, Reset
<1>7. CASE TruncateWindow(p) \/ FillWindow(p) \/ WriteLatest(p)
  BY <1>1, <1>7 DEF TruncateWindow, FillWindow, WriteLatest
<1>8. CASE ListWindows(p) \/ ExportEvents(p) \/ ExportWindows(p)
  BY <1>1, <1>8 DEF ListWindows, ExportEvents, ExportWindows, Fail, End, Reset
<1>9. CASE SelectWindow(p) \/ SelectEvents(p)
  BY <1>1, <1>9 DEF SelectWindow, SelectEvents, Fail, End, Reset
<1>10. CASE Crash(p) \/ TearAppend(p)
  BY <1>1, <1>10 DEF Crash, TearAppend, Reset
<1>11. QED  BY <1>2, <1>3, <1>4, <1>5, <1>6, <1>7, <1>8, <1>9, <1>10 DEF Step, Work

(* Two processes at labels of an ingest are one. *)
LEMMA SoleIngester ==
  ASSUME OneIngester, Commanded, NEW p \in Proc, NEW q \in Proc,
         pc[p] \in Ingesting, pc[q] \in Ingesting
  PROVE  p = q
BY DEF OneIngester, Commanded, Ingesting

-----------------------------------------------------------------------------
(* Numbers of events.  While the log can be read, event and line numbers   *)
(* agree, and an ingest about to append has the present length.            *)

NumberedLog ==
  LogReadable =>
    /\ \A i \in DOMAIN events : events[i].pos = i - 1
    /\ \A p \in Proc : pc[p] = "append" => offset[p] = Len(events)

(* Lines numbered on from the length of the log leave it numbered. *)
LEMMA AppendNumbers ==
  ASSUME StoreInv, NumberedLog, NEW lines \in Seq(Line), events' = Appended(lines), LogReadable',
         \A j \in 1 .. Len(lines) : lines[j] # Garbage => lines[j].pos = Len(events) + j - 1
  PROVE  \A i \in DOMAIN events' : events'[i].pos = i - 1
<1>1. events \in Seq(Line) /\ openTail \in BOOLEAN /\ (openTail => events # <<>>)
  BY DEF StoreInv, TypeOK, Line, Numbering
<1>2. /\ events' \in Seq(Line)
      /\ Len(events') = IF openTail /\ lines # <<>> THEN Len(events) + Len(lines) - 1
                        ELSE Len(events) + Len(lines)
      /\ Len(events') >= Len(events)
      /\ \A i \in 1 .. Len(events) :
           events'[i] = IF openTail /\ lines # <<>> /\ i = Len(events) THEN Garbage ELSE events[i]
      /\ \A j \in 1 .. Len(lines) : (openTail => j > 1) =>
           events'[Len(events') - Len(lines) + j] = lines[j]
  BY <1>1, AppendedLines
<1>3. PICK n \in Nat, m \in Nat, l \in Nat : n = Len(events) /\ m = Len(events') /\ l = Len(lines)
  BY <1>1, <1>2
<1>4. DOMAIN events = 1 .. n /\ DOMAIN events' = 1 .. m  BY <1>1, <1>2, <1>3
<1>5. ~(openTail /\ lines # <<>>)
  <2>1. SUFFICES ASSUME openTail, lines # <<>> PROVE FALSE  OBVIOUS
  <2>2. n \in 1 .. n /\ n \in 1 .. m  BY <1>1, <1>2, <1>3, <2>1
  <2>3. events'[n] = Garbage  BY <1>2, <1>3, <2>1, <2>2
  <2>4. QED  BY <1>4, <2>2, <2>3 DEF LogReadable
<1>6. m = n + l /\ \A i \in 1 .. n : events'[i] = events[i]  BY <1>2, <1>3, <1>5
<1>7. LogReadable
  <2>1. ASSUME NEW i \in 1 .. n PROVE events[i] # Garbage
    <3>1. i \in 1 .. m  BY <1>6
    <3>2. QED  BY <1>4, <1>6, <3>1 DEF LogReadable
  <2>2. QED  BY <1>4, <2>1 DEF LogReadable
<1>8. ASSUME NEW i \in 1 .. m PROVE events'[i].pos = i - 1
  <2>1. CASE i <= n
    <3>1. i \in 1 .. n  BY <2>1
    <3>2. QED  BY <1>4, <1>6, <1>7, <3>1 DEF NumberedLog
  <2>2. CASE i > n
    <3>1. i - n \in 1 .. l /\ m - l + (i - n) = i  BY <1>6, <2>2
    <3>2. ~openTail
      <4>1. lines # <<>>  BY <1>3, <3>1
      <4>2. QED  BY <1>1, <1>5, <4>1
    <3>3. events'[i] = lines[i - n]  BY <1>2, <1>3, <3>1, <3>2
    <3>4. lines[i - n] # Garbage  BY <1>4, <3>3 DEF LogReadable
    <3>5. lines[i - n].pos = n + (i - n) - 1  BY <1>3, <3>1, <3>4
    <3>6. QED  BY <3>3, <3>5
  <2>3. QED  BY <2>1, <2>2
<1>9. QED  BY <1>4, <1>8

(* Every step keeps the log numbered, when one process ingests. *)
LEMMA NumbersPreserved ==
  ASSUME OneIngester, NoInitRace, StoreInv, Commanded, Creation, NumberedLog, [Next]_vars
  PROVE  NumberedLog'
<1>1. CASE UNCHANGED vars  BY <1>1 DEF vars, files, local, NumberedLog, LogReadable
<1>2. ASSUME NEW p \in Proc, Step(p), LogReadable' PROVE NumberedLog'
  <2>1. LogKept  BY <1>2, EveryStepKeepsLog DEF Next, Step
  <2>2. LogReadable  BY <1>2, <2>1 DEF LogKept
  <2>3. \A i \in DOMAIN events' : events'[i].pos = i - 1
    <3>1. CASE CreateLog(p)  BY <3>1 DEF CreateLog
    <3>2. CASE UNCHANGED <<events, openTail>>  BY <2>2, <3>2 DEF NumberedLog
    <3>3. CASE AppendEvents(p)
      <4>1. /\ LinesOf(p) \in Seq(Line) /\ Len(LinesOf(p)) = Len(batch[p])
            /\ \A j \in 1 .. Len(batch[p]) : LinesOf(p)[j] = EventOf(p, j)
        BY IngestTypes DEF StoreInv
      <4>2. offset[p] = Len(events) /\ events' = Appended(LinesOf(p))
        BY <2>2, <3>3 DEF AppendEvents, NumberedLog
      <4>3. ASSUME NEW j \in 1 .. Len(LinesOf(p)) PROVE LinesOf(p)[j].pos = Len(events) + j - 1
        <5>1. LinesOf(p)[j] = EventOf(p, j)  BY <4>1
        <5>2. EventOf(p, j).pos = offset[p] + j - 1  BY DEF EventOf
        <5>3. QED  BY <4>2, <5>1, <5>2
      <4>4. QED  BY <1>2, <4>1, <4>2, <4>3, AppendNumbers
    <3>4. CASE TearAppend(p)
      <4>0. PICK k \in 0 .. Len(batch[p]), end \in {"line", "partial", "nonewline"} :
              LET lines == SubSeq(LinesOf(p), 1, k) \o (IF end = "partial" THEN <<Garbage>> ELSE <<>>)
              IN  events' = Appended(lines)
        BY <3>4 DEF TearAppend
      <4>1. PICK written :
              /\ written = SubSeq(LinesOf(p), 1, k) \o (IF end = "partial" THEN <<Garbage>> ELSE <<>>)
              /\ events' = Appended(written)
        BY <4>0
      <4>2. written \in Seq(Line)  BY <4>1, WrittenLines DEF StoreInv
      <4>3. /\ LinesOf(p) \in Seq(Line) /\ Len(LinesOf(p)) = Len(batch[p])
            /\ \A j \in 1 .. Len(batch[p]) : LinesOf(p)[j] = EventOf(p, j)
        BY IngestTypes DEF StoreInv
      <4>4. offset[p] = Len(events)  BY <2>2, <3>4 DEF TearAppend, NumberedLog
      <4>5. PICK s \in Seq(Line) : s = SubSeq(LinesOf(p), 1, k)
        <5>1. \A i \in 1 .. k : LinesOf(p)[i] \in Line  BY <4>3
        <5>2. SubSeq(LinesOf(p), 1, k) \in Seq(Line)  BY <5>1, SubSeqProperties
        <5>3. QED  BY <5>2
      <4>6. Len(s) = k /\ \A j \in 1 .. k : s[j] = EventOf(p, j)
        <5>1. k \in Nat /\ k <= Len(LinesOf(p))  BY <4>3
        <5>2. Len(s) = k /\ \A j \in 1 .. k : s[j] = LinesOf(p)[j]  BY <4>3, <4>5, <5>1
        <5>3. \A j \in 1 .. k : j \in 1 .. Len(batch[p])  BY <4>3, <5>1
        <5>4. QED  BY <4>3, <5>2, <5>3
      <4>7. PICK t \in Seq({Garbage}) : written = s \o t /\ \A j \in DOMAIN t : t[j] = Garbage
        <5>1. PICK t : t = IF end = "partial" THEN <<Garbage>> ELSE <<>>  OBVIOUS
        <5>2. t \in Seq({Garbage}) /\ \A j \in DOMAIN t : t[j] = Garbage
          <6>1. CASE end = "partial"
            <7>1. t = <<Garbage>>  BY <5>1, <6>1
            <7>2. <<Garbage>> \in Seq({Garbage}) /\ \A j \in DOMAIN <<Garbage>> : <<Garbage>>[j] = Garbage  OBVIOUS
            <7>3. QED  BY <7>1, <7>2
          <6>2. CASE end # "partial"
            <7>1. t = <<>>  BY <5>1, <6>2
            <7>2. <<>> \in Seq({Garbage}) /\ DOMAIN <<>> = {}  OBVIOUS
            <7>3. QED  BY <7>1, <7>2
          <6>3. QED  BY <6>1, <6>2
        <5>3. written = s \o t  BY <4>1, <4>5, <5>1
        <5>4. QED  BY <5>2, <5>3
      <4>8. ASSUME NEW j \in 1 .. Len(written), written[j] # Garbage
            PROVE  written[j].pos = Len(events) + j - 1
        <5>1. Len(written) = Len(s) + Len(t)
              /\ \A i \in 1 .. Len(s) + Len(t) : written[i] = IF i <= Len(s) THEN s[i] ELSE t[i - Len(s)]
          BY <4>7, ConcatProperties
        <5>2. j <= Len(s)
          <6>1. SUFFICES ASSUME j > Len(s) PROVE FALSE  BY <4>5
          <6>2. j - Len(s) \in DOMAIN t  BY <4>5, <4>7, <5>1, <6>1
          <6>3. QED  BY <4>7, <4>8, <5>1, <6>1, <6>2, <4>5
        <5>3. written[j] = EventOf(p, j)  BY <4>6, <5>1, <5>2
        <5>4. QED  BY <4>4, <5>3 DEF EventOf
      <4>9. QED  BY <1>2, <4>1, <4>2, <4>8, AppendNumbers
    <3>5. QED  BY <1>2, <3>1, <3>2, <3>3, <3>4, WhatChanges
  <2>4. ASSUME NEW q \in Proc, pc'[q] = "append" PROVE offset'[q] = Len(events')
    <3>1. CASE q = p
      <4>1. ReadOffset(p)  BY <1>2, <2>4, <3>1, HowReached DEF StoreInv
      <4>2. QED  BY <2>4, <3>1, <4>1 DEF ReadOffset, Fail, End, Reset, GoTo, files, StoreInv, TypeOK
    <3>2. CASE q # p
      <4>1. pc[q] = "append" /\ offset'[q] = offset[q]  BY <1>2, <2>4, <3>2, OthersKeep DEF StoreInv
      <4>2. ~(AppendEvents(p) \/ TearAppend(p))
        BY <3>2, <4>1, SoleIngester DEF AppendEvents, TearAppend, Ingesting
      <4>3. events' = events
        <5>1. CreateLog(p) => events = <<>> /\ events' = <<>>  BY DEF CreateLog, Creation
        <5>2. QED  BY <1>2, <4>2, <5>1, WhatChanges
      <4>4. QED  BY <2>2, <4>1, <4>3 DEF NumberedLog
    <3>3. QED  BY <3>1, <3>2
  <2>5. QED  BY <2>3, <2>4 DEF NumberedLog
<1>3. QED  BY <1>1, <1>2 DEF Next, Step, NumberedLog

(* Event ids are unique while the log can be read, when one process        *)
(* ingests and nothing else creates the log beside it: an event's number   *)
(* is its line number, also after appends that were cut off.               *)
THEOREM EventIdsAreUnique ==
  ASSUME OneIngester, NoInitRace
  PROVE  Spec => []EventIdsUnique
<1>1. Init => Commanded /\ Creation /\ NumberedLog
  <2> SUFFICES ASSUME Init PROVE Commanded /\ Creation /\ NumberedLog  OBVIOUS
  <2>1. Creation /\ \A p \in Proc : pc[p] = "idle"  BY DEF Init, Creation
  <2>2. DOMAIN events = {}  BY DEF Init
  <2>3. QED  BY <2>1, <2>2, InitialCommands DEF NumberedLog
<1>2. StoreInv /\ Commanded /\ Creation /\ NumberedLog /\ [Next]_vars => Commanded' /\ Creation' /\ NumberedLog'
  BY CommandedPreserved, CreationPreserved, NumbersPreserved DEF StoreInv
<1>3. StoreInv /\ NumberedLog => EventIdsUnique
  <2> SUFFICES ASSUME StoreInv, NumberedLog, LogReadable, NEW i \in DOMAIN events, NEW j \in DOMAIN events,
                      IdOf(events[i]) = IdOf(events[j])
               PROVE  i = j
    BY DEF EventIdsUnique
  <2>1. events[i].pos = events[j].pos  BY DEF IdOf
  <2>2. i \in Nat /\ j \in Nat  BY DEF StoreInv, TypeOK
  <2>3. QED  BY <2>1, <2>2 DEF NumberedLog
<1>4. QED  BY <1>1, <1>2, <1>3, InitialTypes, TypesPreserved, PTL DEF Spec
-----------------------------------------------------------------------------
(* Window files.  An ingest has the next number, and its file is the last  *)
(* and empty while it is written; so as long as no call was cut off every  *)
(* other file can be read.                                                 *)

NewWindow ==
  \A p \in Proc :
    /\ pc[p] \in {"offset", "append", "truncate"} => \A k \in DOMAIN windows : k < seq[p]
    /\ pc[p] = "fill" => windows[seq[p]] = Empty /\ \A k \in DOMAIN windows : k <= seq[p]

Sound ==
  ~torn =>
    /\ LogReadable /\ ~openTail
    /\ \A k \in DOMAIN windows :
         /\ windows[k] # Garbage
         /\ windows[k] = Empty => \E p \in Proc : pc[p] = "fill" /\ seq[p] = k

(* A process at a write of its window file goes on with it or is killed. *)
LEMMA HowLeft ==
  ASSUME NEW p \in Proc, Step(p)
  PROVE  /\ pc[p] = "truncate" => TruncateWindow(p) \/ Crash(p)
         /\ pc[p] = "fill" => FillWindow(p) \/ Crash(p)
<1> SUFFICES ASSUME pc[p] \in {"truncate", "fill"}, ~TruncateWindow(p), ~FillWindow(p), ~Crash(p)
             PROVE  FALSE
  BY DEF TruncateWindow, FillWindow
<1>1. ~Begin(p) /\ ~CheckLog(p) /\ ~CreateLog(p) /\ ~AppendEvents(p) /\ ~WriteLatest(p) /\ ~TearAppend(p)
  BY DEF Begin, Start, CheckLog, CreateLog, AppendEvents, WriteLatest, TearAppend
<1>2. ~ManifestWindows(p) /\ ~ManifestEvents(p) /\ ~OpenManifest(p) /\ ~CloseManifest(p)
      /\ ~ReadSequence(p) /\ ~ReadOffset(p)
  BY DEF ManifestWindows, ManifestEvents, OpenManifest, CloseManifest, ReadSequence, ReadOffset
<1>3. ~ListWindows(p) /\ ~ExportEvents(p) /\ ~ExportWindows(p) /\ ~SelectWindow(p) /\ ~SelectEvents(p)
  BY DEF ListWindows, ExportEvents, ExportWindows, SelectWindow, SelectEvents
<1>4. QED  BY <1>1, <1>2, <1>3 DEF Step, Work

(* Every step keeps the number of an ingest new until its file is there. *)
LEMMA NewWindowPreserved ==
  ASSUME OneIngester, StoreInv, Commanded, NewWindow, [Next]_vars
  PROVE  NewWindow'
<1>1. CASE UNCHANGED vars  BY <1>1 DEF vars, files, local, NewWindow
<1>2. ASSUME NEW p \in Proc, Step(p), NEW q \in Proc
      PROVE  /\ pc'[q] \in {"offset", "append", "truncate"} => \A k \in DOMAIN windows' : k < seq'[q]
             /\ pc'[q] = "fill" => windows'[seq'[q]] = Empty /\ \A k \in DOMAIN windows' : k <= seq'[q]
  <2>0. DOMAIN seq = Proc /\ seq[p] \in Nat  BY DEF StoreInv, TypeOK
  <2>1. CASE q # p
    <3>1. pc'[q] = pc[q] /\ seq'[q] = seq[q]  BY <1>2, <2>1, OthersKeep DEF StoreInv
    <3>2. SUFFICES ASSUME pc[q] \in {"offset", "append", "truncate", "fill"} PROVE windows' = windows
      BY <3>1 DEF NewWindow
    <3>3. ~TruncateWindow(p) /\ ~FillWindow(p)
      BY <2>1, <3>2, SoleIngester DEF TruncateWindow, FillWindow, Ingesting
    <3>4. QED  BY <1>2, <3>3, WhatChanges
  <2>2. CASE q = p /\ pc'[p] = "offset"
    <3>1. ReadSequence(p) /\ pc'[p] # "idle"  BY <1>2, <2>2, HowReached DEF StoreInv
    <3>2. seq'[p] = Cardinality(DOMAIN windows) /\ windows' = windows
      BY <2>0, <3>1 DEF ReadSequence, Fail, End, Reset, GoTo, files, StoreInv, TypeOK
    <3>3. Numbered(DOMAIN windows)  BY DEF StoreInv, Numbering
    <3>4. PICK c \in Nat : c = Cardinality(DOMAIN windows) /\ DOMAIN windows = 0 .. c - 1
      BY <3>3, NumberedSets
    <3>5. DOMAIN windows' = 0 .. c - 1 /\ seq'[p] = c  BY <3>2, <3>4
    <3>6. \A k \in DOMAIN windows' : k < seq'[p]  BY <3>5
    <3>7. QED  BY <2>2, <3>6
  <2>3. CASE q = p /\ pc'[p] = "append"
    <3>1. ReadOffset(p) /\ pc'[p] # "idle"  BY <1>2, <2>3, HowReached DEF StoreInv
    <3>2. pc[p] = "offset" /\ seq'[p] = seq[p] /\ windows' = windows
      BY <3>1 DEF ReadOffset, Fail, End, Reset, GoTo, files, StoreInv, TypeOK
    <3>3. QED  BY <2>3, <3>2 DEF NewWindow
  <2>4. CASE q = p /\ pc'[p] = "truncate"
    <3>1. AppendEvents(p)  BY <1>2, <2>4, HowReached DEF StoreInv
    <3>2. pc[p] = "append" /\ seq'[p] = seq[p] /\ windows' = windows
      BY <3>1 DEF AppendEvents
    <3>3. QED  BY <2>4, <3>2 DEF NewWindow
  <2>5. CASE q = p /\ pc'[p] = "fill"
    <3>1. TruncateWindow(p)  BY <1>2, <2>5, HowReached DEF StoreInv
    <3>2. pc[p] = "truncate" /\ seq'[p] = seq[p]
          /\ windows' = [k \in DOMAIN windows \cup {seq[p]} |-> IF k = seq[p] THEN Empty ELSE windows[k]]
      BY <3>1 DEF TruncateWindow
    <3>3. \A k \in DOMAIN windows : k < seq[p] /\ k \in Nat  BY <3>2 DEF NewWindow, StoreInv, TypeOK
    <3>4. QED  BY <2>0, <2>5, <3>2, <3>3
  <2>6. QED  BY <2>1, <2>2, <2>3, <2>4, <2>5
<1>3. QED  BY <1>1, <1>2 DEF Next, Step, NewWindow

(* What an append does to a log whose last line is ended. *)
LEMMA AppendedWhole ==
  ASSUME StoreInv, ~openTail, NEW p \in Proc, AppendEvents(p)
  PROVE  /\ Len(events') = Len(events) + Len(batch[p])
         /\ \A i \in 1 .. Len(events) : events'[i] = events[i]
         /\ \A j \in 1 .. Len(batch[p]) : events'[Len(events) + j] = EventOf(p, j) /\ EventOf(p, j) \in Event
         /\ ~openTail'
<1>1. /\ LinesOf(p) \in Seq(Line) /\ Len(LinesOf(p)) = Len(batch[p])
      /\ \A j \in 1 .. Len(batch[p]) : LinesOf(p)[j] = EventOf(p, j) /\ EventOf(p, j) \in Event
  BY IngestTypes DEF StoreInv
<1>2. events \in Seq(Line)  BY DEF StoreInv, TypeOK, Line
<1>3. events' = events \o LinesOf(p) /\ ~openTail'  BY DEF AppendEvents, Appended
<1>4. PICK n \in Nat, l \in Nat : n = Len(events) /\ l = Len(batch[p])  BY <1>1, <1>2
<1>5. /\ Len(events') = n + l
      /\ \A i \in 1 .. n + l : events'[i] = IF i <= n THEN events[i] ELSE LinesOf(p)[i - n]
  <2>1. PICK s \in Seq(Line) : s = LinesOf(p)  BY <1>1
  <2>2. events' = events \o s /\ Len(s) = l  BY <1>1, <1>3, <1>4, <2>1
  <2>3. PICK e \in Seq(Line) : e = events  BY <1>2
  <2>4. /\ Len(e \o s) = Len(e) + Len(s)
        /\ \A i \in 1 .. Len(e) + Len(s) : (e \o s)[i] = IF i <= Len(e) THEN e[i] ELSE s[i - Len(e)]
    BY ConcatProperties
  <2>5. events' = e \o s /\ Len(e) = n /\ Len(s) = l  BY <1>4, <2>2, <2>3
  <2>6. QED  BY <2>1, <2>3, <2>4, <2>5
<1>6. ASSUME NEW j \in 1 .. l PROVE events'[n + j] = EventOf(p, j)
  <2>1. n + j \in 1 .. n + l /\ ~(n + j <= n) /\ (n + j) - n = j  OBVIOUS
  <2>2. events'[n + j] = LinesOf(p)[j]  BY <1>5, <2>1
  <2>3. QED  BY <1>1, <1>4, <2>2
<1>7. \A i \in 1 .. n : events'[i] = events[i]  BY <1>5
<1>8. QED  BY <1>1, <1>3, <1>4, <1>5, <1>6, <1>7

(* Without a call cut off, every step leaves the files sound. *)
LEMMA SoundPreserved ==
  ASSUME OneIngester, StoreInv, Commanded, Creation, NewWindow, Sound, [Next]_vars
  PROVE  Sound'
<1>1. CASE UNCHANGED vars  BY <1>1 DEF vars, files, local, ghosts, Sound, LogReadable
<1>2. ASSUME NEW p \in Proc, Step(p), ~torn' PROVE Sound'
  <2>1. ~torn /\ ~TearAppend(p) /\ (Crash(p) => pc[p] # "fill")
    <3>1. ~TearAppend(p)  BY <1>2 DEF TearAppend
    <3>2. Crash(p) => ~torn /\ pc[p] # "fill"  BY <1>2 DEF Crash
    <3>3. QED  BY <1>2, <3>1, <3>2, WhatChanges
  <2>2. /\ LogReadable /\ ~openTail
        /\ \A k \in DOMAIN windows : windows[k] # Garbage
        /\ \A k \in DOMAIN windows : windows[k] = Empty => \E q \in Proc : pc[q] = "fill" /\ seq[q] = k
    BY <2>1 DEF Sound
  <2>3. LogReadable' /\ ~openTail'
    <3>1. CASE CreateLog(p)  BY <3>1 DEF CreateLog, LogReadable
    <3>2. CASE AppendEvents(p)
      <4>1. PICK n \in Nat, l \in Nat : n = Len(events) /\ l = Len(batch[p])
        <5>1. events \in Seq(Line) /\ batch[p] \in Seq(Payload)  BY DEF StoreInv, TypeOK, Line
        <5>2. QED  BY <5>1
      <4>2. /\ Len(events') = n + l /\ ~openTail'
            /\ \A i \in 1 .. n : events'[i] = events[i]
            /\ \A j \in 1 .. l : events'[n + j] \in Event
        BY <2>2, <3>2, <4>1, AppendedWhole
      <4>3. DOMAIN events = 1 .. n  BY <4>1 DEF StoreInv, TypeOK
      <4>4. events' \in Seq(Line)
        <5>1. LinesOf(p) \in Seq(Line) /\ events \in Seq(Line)  BY IngestTypes DEF StoreInv, TypeOK, Line
        <5>2. events' = events \o LinesOf(p)  BY <2>2, <3>2 DEF AppendEvents, Appended
        <5>3. QED  BY <5>1, <5>2, ConcatProperties
      <4>5. ASSUME NEW i \in 1 .. n + l PROVE events'[i] # Garbage
        <5>1. CASE i <= n  BY <2>2, <4>2, <4>3, <5>1 DEF LogReadable
        <5>2. CASE i > n
          <6>1. i - n \in 1 .. l /\ n + (i - n) = i  BY <5>2
          <6>2. events'[n + (i - n)] \in Event  BY <4>2, <6>1
          <6>3. QED  BY <6>1, <6>2, StoreAssumption
        <5>3. QED  BY <5>1, <5>2
      <4>6. QED  BY <4>2, <4>4, <4>5 DEF LogReadable
    <3>3. CASE UNCHANGED <<events, openTail>>  BY <2>2, <3>3 DEF LogReadable
    <3>4. QED  BY <1>2, <2>1, <3>1, <3>2, <3>3, WhatChanges
  <2>4. ASSUME NEW k \in DOMAIN windows'
        PROVE  /\ windows'[k] # Garbage
               /\ windows'[k] = Empty => \E q \in Proc : pc'[q] = "fill" /\ seq'[q] = k
    <3>1. CASE TruncateWindow(p)
      <4>1. pc[p] = "truncate" /\ seq' = seq
            /\ windows' = [i \in DOMAIN windows \cup {seq[p]} |-> IF i = seq[p] THEN Empty ELSE windows[i]]
        BY <3>1 DEF TruncateWindow
      <4>2. CASE k = seq[p]
        <5>1. windows'[k] = Empty  BY <4>1, <4>2
        <5>2. pc'[p] = "fill"  BY <3>1 DEF TruncateWindow, GoTo, StoreInv, TypeOK
        <5>3. QED  BY <4>1, <4>2, <5>1, <5>2, StoreAssumption
      <4>3. CASE k # seq[p]
        <5>1. k \in DOMAIN windows /\ windows'[k] = windows[k]  BY <4>1, <4>3
        <5>2. \A q \in Proc : pc[q] # "fill"
          BY <4>1, SoleIngester DEF Ingesting
        <5>3. QED  BY <2>2, <5>1, <5>2
      <4>4. QED  BY <4>2, <4>3
    <3>2. CASE FillWindow(p)
      <4>1. pc[p] = "fill" /\ windows[seq[p]] = Empty  BY <3>2 DEF FillWindow, NewWindow
      <4>2. windows' = [windows EXCEPT ![seq[p]] = IndexOf(p)]  BY <3>2, <4>1 DEF FillWindow
      <4>3. CASE k = seq[p]
        <5>1. windows'[k] = IndexOf(p) /\ IndexOf(p) \in Index  BY <4>2, <4>3, IngestTypes DEF StoreInv
        <5>2. QED  BY <5>1, StoreAssumption
      <4>4. CASE k # seq[p]
        <5>1. k \in DOMAIN windows /\ windows'[k] = windows[k]  BY <4>2, <4>4
        <5>2. \A q \in Proc : pc[q] = "fill" => q = p  BY <4>1, SoleIngester DEF Ingesting
        <5>3. windows[k] # Empty  BY <2>2, <4>4, <5>1, <5>2
        <5>4. QED  BY <2>2, <5>1, <5>3
      <4>5. QED  BY <4>3, <4>4
    <3>3. CASE windows' = windows /\ ~FillWindow(p)
      <4>1. k \in DOMAIN windows /\ windows'[k] = windows[k]  BY <3>3
      <4>2. SUFFICES ASSUME windows[k] = Empty
                     PROVE  \E q \in Proc : pc'[q] = "fill" /\ seq'[q] = k
        BY <2>2, <4>1
      <4>3. PICK q \in Proc : pc[q] = "fill" /\ seq[q] = k  BY <2>2, <4>1, <4>2
      <4>4. q # p  BY <1>2, <2>1, <3>3, <4>3, HowLeft
      <4>5. QED  BY <1>2, <4>3, <4>4, OthersKeep DEF StoreInv
    <3>4. QED  BY <1>2, <3>1, <3>2, <3>3, WhatChanges
  <2>5. QED  BY <2>3, <2>4 DEF Sound
<1>3. QED  BY <1>1, <1>2 DEF Next, Step, Sound
-----------------------------------------------------------------------------
(* How commands end: a process at work has reported nothing yet.           *)

Reporting == \A p \in Proc : pc[p] # "idle" => out[p] = None

LEMMA HowEnded ==
  ASSUME TypeOK, NEW p \in Proc, Step(p), Reporting
  PROVE  /\ pc'[p] # "idle" => out'[p] = None
         /\ out'[p] = "ok" =>
              \/ OpenManifest(p) /\ cmd[p] = "init"
              \/ CloseManifest(p)
              \/ WindowsReadable /\ (ListWindows(p) \/ ExportWindows(p))
              \/ LogReadable /\ SelectEvents(p)
         /\ out'[p] = "failed" => SelectWindow(p) \/ ~LogReadable \/ ~WindowsReadable
<1> USE DEF GoTo
<1>1. DOMAIN pc = Proc /\ DOMAIN out = Proc /\ None \notin {"ok", "failed", "crashed"}
  BY StoreAssumption DEF TypeOK
<1>2. CASE Begin(p)  BY <1>1, <1>2 DEF Begin, Start
<1>3. CASE CheckLog(p) \/ CreateLog(p) \/ AppendEvents(p)
  BY <1>1, <1>3 DEF CheckLog, CreateLog, AppendEvents, Reporting
<1>4. CASE ManifestWindows(p)
  BY <1>1, <1>4 DEF ManifestWindows, Fail, End, Reset, Reporting
<1>5. CASE ManifestEvents(p)
  BY <1>1, <1>5 DEF ManifestEvents, Fail, End, Reset, Reporting
<1>6. CASE OpenManifest(p) \/ CloseManifest(p)
  BY <1>1, <1>6 DEF OpenManifest, CloseManifest, End, Reset, Reporting
<1>7. CASE ReadSequence(p) \/ ReadOffset(p)
  BY <1>1, <1>7 DEF ReadSequence, ReadOffset, Fail, End, Reset, Reporting
<1>8. CASE TruncateWindow(p) \/ FillWindow(p) \/ WriteLatest(p)
  BY <1>1, <1>8 DEF TruncateWindow, FillWindow, WriteLatest, Reporting
<1>9. CASE ListWindows(p) \/ ExportEvents(p) \/ ExportWindows(p)
  BY <1>1, <1>9 DEF ListWindows, ExportEvents, ExportWindows, Fail, End, Reset, Reporting
<1>10. CASE SelectWindow(p)
  BY <1>1, <1>10 DEF SelectWindow, Fail, End, Reset, Reporting
<1>11. CASE SelectEvents(p)
  BY <1>1, <1>11 DEF SelectEvents, Fail, End, Reset, Reporting
<1>12. CASE Crash(p) \/ TearAppend(p)
  BY <1>1, <1>12 DEF Crash, TearAppend, Reset
<1>13. QED
  BY <1>2, <1>3, <1>4, <1>5, <1>6, <1>7, <1>8, <1>9, <1>10, <1>11, <1>12 DEF Step, Work

(* Every step keeps it so. *)
LEMMA ReportingPreserved == TypeOK /\ Reporting /\ [Next]_vars => Reporting'
<1> SUFFICES ASSUME TypeOK, Reporting, [Next]_vars PROVE Reporting'  OBVIOUS
<1>1. CASE UNCHANGED vars  BY <1>1 DEF vars, local, Reporting
<1>2. ASSUME NEW p \in Proc, Step(p), NEW q \in Proc, pc'[q] # "idle" PROVE out'[q] = None
  <2>1. CASE q = p  BY <1>2, <2>1, HowEnded
  <2>2. CASE q # p  BY <1>2, <2>2, OthersKeep DEF Reporting
  <2>3. QED  BY <2>1, <2>2
<1>3. QED  BY <1>1, <1>2 DEF Next, Step, Reporting

-----------------------------------------------------------------------------
(* Windows and their events, when no process is killed: the events logged  *)
(* under a window are consecutive lines, and its index lists them all.     *)

Under(k, es) == {i \in DOMAIN es : es[i].win = k}

Covers(index, es) ==
  \E m \in 0 .. Len(es) :
    /\ Under(index.win, es) = m + 1 .. m + Len(index.ids)
    /\ \A j \in 1 .. Len(index.ids) : IdOf(es[m + j]) = index.ids[j]

Covered ==
  /\ \A k \in DOMAIN windows : windows[k] # Empty => windows[k].win = k /\ Covers(windows[k], events)
  /\ \A p \in Proc : pc[p] \in {"truncate", "fill"} => Covers(IndexOf(p), events)
  /\ \A i \in DOMAIN events :
       \/ events[i].win \in DOMAIN windows
       \/ \E p \in Proc : pc[p] = "truncate" /\ events[i].win = seq[p]

(* What an observer holds is the present content of a window, and once it  *)
(* has succeeded all of it.                                                *)
Seen ==
  \A p \in Proc :
    /\ seenIndex[p] # None =>
         seenIndex[p].win \in DOMAIN windows /\ windows[seenIndex[p].win] = seenIndex[p]
    /\ cmd[p] = "observe" /\ out[p] = "ok" /\ selector[p] # "all" =>
         seenIndex[p] # None /\ seenLines[p] = Under(seenIndex[p].win, events)

(* A log that grew keeps an index covered whose window got no new events.  *)
LEMMA CoversKept ==
  ASSUME NEW S, NEW es \in Seq(S), NEW fs \in Seq(S), NEW index,
         \A i \in DOMAIN es : i \in DOMAIN fs /\ fs[i] = es[i],
         Covers(index, es), Under(index.win, fs) = Under(index.win, es),
         Len(index.ids) \in Nat
  PROVE  Covers(index, fs)
<1>1. PICK m \in 0 .. Len(es) :
        /\ Under(index.win, es) = m + 1 .. m + Len(index.ids)
        /\ \A j \in 1 .. Len(index.ids) : IdOf(es[m + j]) = index.ids[j]
  BY DEF Covers
<1>2. PICK n \in Nat, l \in Nat, d \in Nat : n = Len(es) /\ l = Len(fs) /\ d = Len(index.ids)
  OBVIOUS
<1>3. n <= l
  <2>1. CASE n = 0  BY <2>1
  <2>2. CASE n # 0
    <3>1. n \in DOMAIN es  BY <1>2, <2>2
    <3>2. n \in DOMAIN fs  BY <3>1
    <3>3. QED  BY <1>2, <3>2
  <2>3. QED  BY <2>1, <2>2
<1>4. m \in 0 .. l  BY <1>1, <1>2, <1>3
<1>5. ASSUME NEW j \in 1 .. d PROVE IdOf(fs[m + j]) = index.ids[j]
  <2>1. m + j \in m + 1 .. m + d  BY <1>1, <1>2
  <2>2. m + j \in DOMAIN es  BY <1>1, <1>2, <2>1 DEF Under
  <2>3. fs[m + j] = es[m + j]  BY <2>2
  <2>4. QED  BY <1>1, <1>2, <2>3
<1>6. QED  BY <1>1, <1>2, <1>4, <1>5 DEF Covers

(* Every event is logged under the number its ingest has. *)
LEMMA UnderKept ==
  ASSUME OneIngester, StoreInv, Commanded, Creation, NewWindow, Sound, ~torn, ~torn', NEW p \in Proc, Step(p)
  PROVE  /\ \A i \in DOMAIN events : i \in DOMAIN events' /\ events'[i] = events[i]
         /\ ~AppendEvents(p) => events' = events
         /\ \A k \in DOMAIN windows : Under(k, events') = Under(k, events)
<1>1. LogReadable /\ ~openTail  BY DEF Sound
<1>2. CASE AppendEvents(p)
  <2>1. PICK n \in Nat, l \in Nat : n = Len(events) /\ l = Len(batch[p])
    <3>1. events \in Seq(Line) /\ batch[p] \in Seq(Payload)  BY DEF StoreInv, TypeOK, Line
    <3>2. QED  BY <3>1
  <2>2. /\ Len(events') = n + l
        /\ \A i \in 1 .. n : events'[i] = events[i]
        /\ \A j \in 1 .. l : events'[n + j] = EventOf(p, j)
    BY <1>1, <1>2, <2>1, AppendedWhole
  <2>3. events \in Seq(Line) /\ events' \in Seq(Line)
    <3>1. LinesOf(p) \in Seq(Line) /\ events \in Seq(Line)  BY IngestTypes DEF StoreInv, TypeOK, Line
    <3>2. events' = events \o LinesOf(p)  BY <1>1, <1>2 DEF AppendEvents, Appended
    <3>3. QED  BY <3>1, <3>2, ConcatProperties
  <2>4. DOMAIN events = 1 .. n /\ DOMAIN events' = 1 .. n + l  BY <2>1, <2>2, <2>3
  <2>5. ASSUME NEW k \in DOMAIN windows, NEW i \in 1 .. n + l, events'[i].win = k PROVE i <= n
    <3>1. SUFFICES ASSUME i > n PROVE FALSE  OBVIOUS
    <3>2. i - n \in 1 .. l /\ n + (i - n) = i  BY <3>1
    <3>3. events'[i] = EventOf(p, i - n)  BY <2>2, <3>2
    <3>4. k = seq[p]  BY <2>5, <3>3 DEF EventOf
    <3>5. k < seq[p] /\ k \in Nat  BY <1>2 DEF NewWindow, AppendEvents, StoreInv, TypeOK
    <3>6. QED  BY <3>4, <3>5
  <2>6. \A k \in DOMAIN windows : Under(k, events') = Under(k, events)
    <3>1. \A i \in 1 .. n : i \in 1 .. n + l  OBVIOUS
    <3>2. \A i \in 1 .. n + l : i <= n => i \in 1 .. n  OBVIOUS
    <3>3. QED  BY <2>2, <2>4, <2>5, <3>1, <3>2 DEF Under
  <2>7. \A i \in 1 .. n : i \in 1 .. n + l  OBVIOUS
  <2>8. QED  BY <1>2, <2>2, <2>4, <2>6, <2>7
<1>3. CASE ~AppendEvents(p)
  <2>1. CreateLog(p) => events = <<>> /\ events' = <<>>  BY DEF CreateLog, Creation
  <2>2. ~TearAppend(p)  BY DEF TearAppend
  <2>3. events' = events  BY <1>3, <2>1, <2>2, WhatChanges
  <2>4. QED  BY <2>3
<1>4. QED  BY <1>2, <1>3

(* Every step keeps the windows covered, when one process ingests.         *)
LEMMA CoveredPreserved ==
  ASSUME OneIngester, StoreInv, StoreInv', Commanded, Creation, NewWindow, Sound, Covered,
         ~torn, ~torn', Faults = {}, [Next]_vars
  PROVE  Covered'
<1>1. CASE UNCHANGED vars
  <2>1. \A p \in Proc : IndexOf(p)' = IndexOf(p)  BY <1>1 DEF vars, local, IndexOf, EventOf
  <2>2. events' = events /\ windows' = windows /\ pc' = pc /\ seq' = seq  BY <1>1 DEF vars, files, local
  <2>3. QED  BY <2>1, <2>2 DEF Covered
<1>2. ASSUME NEW p \in Proc, Step(p) PROVE Covered'
  <2>1. /\ \A i \in DOMAIN events : i \in DOMAIN events' /\ events'[i] = events[i]
        /\ ~AppendEvents(p) => events' = events
        /\ \A k \in DOMAIN windows : Under(k, events') = Under(k, events)
    BY <1>2, UnderKept
  <2>2. ~Crash(p)  BY DEF Crash
  <2>3. events \in Seq(Line) /\ events' \in Seq(Line)  BY DEF StoreInv, TypeOK, Line
  <2>4. ASSUME NEW k \in DOMAIN windows, windows[k] # Empty
        PROVE  windows[k].win = k /\ Covers(windows[k], events')
    <3>1. windows[k].win = k /\ Covers(windows[k], events)  BY <2>4 DEF Covered
    <3>2. windows[k] \in Index
      <4>1. windows[k] # Garbage  BY DEF Sound
      <4>2. QED  BY <2>4, <4>1 DEF StoreInv, TypeOK
    <3>3. Len(windows[k].ids) \in Nat  BY <3>2 DEF Index
    <3>4. Under(windows[k].win, events') = Under(windows[k].win, events)  BY <2>1, <3>1
    <3>5. QED  BY <2>1, <2>3, <3>1, <3>3, <3>4, CoversKept
  <2>5. ASSUME NEW k \in DOMAIN windows', windows'[k] # Empty
        PROVE  windows'[k].win = k /\ Covers(windows'[k], events')
    <3>1. CASE TruncateWindow(p)
      <4>1. windows' = [i \in DOMAIN windows \cup {seq[p]} |-> IF i = seq[p] THEN Empty ELSE windows[i]]
        BY <3>1 DEF TruncateWindow
      <4>2. k \in DOMAIN windows /\ windows'[k] = windows[k]  BY <2>5, <4>1
      <4>3. QED  BY <2>4, <2>5, <4>2
    <3>2. CASE FillWindow(p)
      <4>1. pc[p] = "fill" /\ windows[seq[p]] = Empty /\ events' = events
        BY <3>2 DEF FillWindow, NewWindow
      <4>2. windows' = [windows EXCEPT ![seq[p]] = IndexOf(p)]  BY <3>2, <4>1 DEF FillWindow
      <4>3. CASE k = seq[p]
        <5>1. windows'[k] = IndexOf(p)  BY <4>2, <4>3
        <5>2. Covers(IndexOf(p), events)  BY <4>1 DEF Covered
        <5>3. IndexOf(p).win = seq[p]  BY DEF IndexOf
        <5>4. QED  BY <4>1, <4>3, <5>1, <5>2, <5>3
      <4>4. CASE k # seq[p]
        <5>1. k \in DOMAIN windows /\ windows'[k] = windows[k]  BY <4>2, <4>4
        <5>2. QED  BY <2>4, <2>5, <5>1
      <4>5. QED  BY <4>3, <4>4
    <3>3. CASE windows' = windows  BY <2>4, <2>5, <3>3
    <3>4. QED  BY <1>2, <3>1, <3>2, <3>3, WhatChanges
  <2>6. ASSUME NEW q \in Proc, pc'[q] \in {"truncate", "fill"} PROVE Covers(IndexOf(q)', events')
    <3>1. CASE q # p
      <4>1. pc[q] = pc'[q] /\ seq'[q] = seq[q] /\ offset'[q] = offset[q] /\ batch'[q] = batch[q]
        BY <1>2, <3>1, OthersKeep DEF StoreInv
      <4>2. ~AppendEvents(p)
        BY <2>6, <3>1, <4>1, SoleIngester DEF AppendEvents, Ingesting
      <4>3. IndexOf(q)' = IndexOf(q)  BY <4>1 DEF IndexOf, EventOf
      <4>4. Covers(IndexOf(q), events)  BY <2>6, <4>1 DEF Covered
      <4>5. QED  BY <2>1, <4>2, <4>3, <4>4
    <3>2. CASE q = p /\ pc'[p] = "fill"
      <4>1. TruncateWindow(p)  BY <1>2, <3>2, HowReached DEF StoreInv
      <4>2. pc[p] = "truncate" /\ events' = events /\ IndexOf(p)' = IndexOf(p)
        BY <4>1 DEF TruncateWindow, IndexOf, EventOf
      <4>3. QED  BY <3>2, <4>2 DEF Covered
    <3>3. CASE q = p /\ pc'[p] = "truncate"
      <4>1. AppendEvents(p)  BY <1>2, <3>3, HowReached DEF StoreInv
      <4>2. pc[p] = "append" /\ seq' = seq /\ IndexOf(p)' = IndexOf(p)
        BY <4>1 DEF AppendEvents, IndexOf, EventOf
      <4>3. PICK n \in Nat, l \in Nat : n = Len(events) /\ l = Len(batch[p])
        <5>1. batch[p] \in Seq(Payload)  BY DEF StoreInv, TypeOK
        <5>2. QED  BY <2>3, <5>1
      <4>4. /\ Len(events') = n + l
            /\ \A i \in 1 .. n : events'[i] = events[i]
            /\ \A j \in 1 .. l : events'[n + j] = EventOf(p, j)
        <5>1. ~openTail  BY DEF Sound
        <5>2. QED  BY <4>1, <4>3, <5>1, AppendedWhole
      <4>5. DOMAIN events = 1 .. n /\ DOMAIN events' = 1 .. n + l  BY <2>3, <4>3, <4>4
      <4>6. ASSUME NEW i \in 1 .. n PROVE events[i].win # seq[p]
        <5>1. \A r \in Proc : pc[r] # "truncate"
          BY <4>2, SoleIngester DEF Ingesting
        <5>2. events[i].win \in DOMAIN windows  BY <4>5, <5>1 DEF Covered
        <5>3. events[i].win < seq[p] /\ events[i].win \in Nat /\ seq[p] \in Nat
          BY <4>2, <5>2 DEF NewWindow, StoreInv, TypeOK
        <5>4. QED  BY <5>3
      <4>7. ASSUME NEW i \in 1 .. n + l
            PROVE  events'[i].win = seq[p] <=> i \in n + 1 .. n + l
        <5>1. CASE i <= n
          <6>1. i \in 1 .. n  BY <5>1
          <6>2. QED  BY <4>4, <4>6, <5>1, <6>1
        <5>2. CASE i > n
          <6>1. i - n \in 1 .. l /\ n + (i - n) = i  BY <5>2
          <6>2. events'[i] = EventOf(p, i - n)  BY <4>4, <6>1
          <6>3. QED  BY <5>2, <6>2 DEF EventOf
        <5>3. QED  BY <5>1, <5>2
      <4>8. Under(seq[p], events') = n + 1 .. n + l
        <5>1. n + 1 .. n + l \subseteq 1 .. n + l  OBVIOUS
        <5>2. QED  BY <4>5, <4>7, <5>1 DEF Under
      <4>9. /\ IndexOf(p).win = seq[p]
            /\ Len(IndexOf(p).ids) = l
            /\ \A j \in 1 .. l : IndexOf(p).ids[j] = IdOf(EventOf(p, j))
        <5>1. DOMAIN batch[p] = 1 .. l  BY <4>3 DEF StoreInv, TypeOK
        <5>2. IndexOf(p) \in Index  BY IngestTypes DEF StoreInv
        <5>3. IndexOf(p).ids \in Seq(EventId) /\ DOMAIN IndexOf(p).ids = 1 .. l
          BY <5>1, <5>2 DEF IndexOf, Index
        <5>4. QED  BY <5>1, <5>3 DEF IndexOf
      <4>10. Covers(IndexOf(p), events')
        <5>1. n \in 0 .. n + l  OBVIOUS
        <5>2. \A j \in 1 .. l : IdOf(events'[n + j]) = IndexOf(p).ids[j]  BY <4>4, <4>9
        <5>3. QED  BY <4>4, <4>8, <4>9, <5>1, <5>2 DEF Covers
      <4>11. QED  BY <3>3, <4>2, <4>10
    <3>4. QED  BY <2>6, <3>1, <3>2, <3>3
  <2>7. ASSUME NEW i \in DOMAIN events'
        PROVE  \/ events'[i].win \in DOMAIN windows'
               \/ \E q \in Proc : pc'[q] = "truncate" /\ events'[i].win = seq'[q]
    <3>1. CASE AppendEvents(p)
      <4>1. /\ pc[p] = "append" /\ seq' = seq /\ windows' = windows
            /\ pc'[p] = "truncate"
        BY <3>1 DEF AppendEvents, GoTo, StoreInv, TypeOK
      <4>2. PICK n \in Nat, l \in Nat : n = Len(events) /\ l = Len(batch[p])
        <5>1. batch[p] \in Seq(Payload)  BY DEF StoreInv, TypeOK
        <5>2. QED  BY <2>3, <5>1
      <4>3. /\ Len(events') = n + l
            /\ \A j \in 1 .. n : events'[j] = events[j]
            /\ \A j \in 1 .. l : events'[n + j] = EventOf(p, j)
        <5>1. ~openTail  BY DEF Sound
        <5>2. QED  BY <3>1, <4>2, <5>1, AppendedWhole
      <4>4. i \in 1 .. n + l /\ DOMAIN events = 1 .. n  BY <2>3, <4>2, <4>3
      <4>5. CASE i <= n
        <5>1. i \in 1 .. n  BY <4>4, <4>5
        <5>2. \A r \in Proc : pc[r] # "truncate"
          BY <4>1, SoleIngester DEF Ingesting
        <5>3. events[i].win \in DOMAIN windows  BY <4>4, <5>1, <5>2 DEF Covered
        <5>4. QED  BY <4>1, <4>3, <5>1, <5>3
      <4>6. CASE i > n
        <5>1. i - n \in 1 .. l /\ n + (i - n) = i  BY <4>4, <4>6
        <5>2. events'[i] = EventOf(p, i - n)  BY <4>3, <5>1
        <5>3. events'[i].win = seq'[p]  BY <4>1, <5>2 DEF EventOf
        <5>4. QED  BY <4>1, <5>3
      <4>7. QED  BY <4>4, <4>5, <4>6
    <3>2. CASE ~AppendEvents(p)
      <4>1. events' = events  BY <2>1, <3>2
      <4>2. DOMAIN windows \subseteq DOMAIN windows'
        <5>1. CASE TruncateWindow(p)  BY <5>1 DEF TruncateWindow
        <5>2. CASE FillWindow(p)  BY <5>2 DEF FillWindow
        <5>3. QED  BY <1>2, <5>1, <5>2, WhatChanges
      <4>3. CASE events[i].win \in DOMAIN windows  BY <4>1, <4>2, <4>3
      <4>4. CASE events[i].win \notin DOMAIN windows
        <5>1. PICK q \in Proc : pc[q] = "truncate" /\ events[i].win = seq[q]
          BY <4>1, <4>4 DEF Covered
        <5>2. CASE q # p  BY <1>2, <4>1, <5>1, <5>2, OthersKeep DEF StoreInv
        <5>3. CASE q = p
          <6>1. TruncateWindow(p)  BY <1>2, <2>2, <5>1, <5>3, HowLeft
          <6>2. seq[p] \in DOMAIN windows'  BY <6>1 DEF TruncateWindow
          <6>3. QED  BY <4>1, <5>1, <5>3, <6>2
        <5>4. QED  BY <5>2, <5>3
      <4>5. QED  BY <4>3, <4>4
    <3>3. QED  BY <3>1, <3>2
  <2>8. QED  BY <2>5, <2>6, <2>7 DEF Covered
<1>3. QED  BY <1>1, <1>2 DEF Next, Step

(* A process that reads a window gets one that is written and stays.       *)
LEMMA SeenPreserved ==
  ASSUME OneIngester, StoreInv, StoreInv', Commanded, Creation, Reporting, NewWindow, Sound, Covered,
         Seen, ~torn, ~torn', [Next]_vars
  PROVE  Seen'
<1>1. CASE UNCHANGED vars  BY <1>1 DEF vars, files, local, Seen
<1>2. ASSUME NEW p \in Proc, Step(p) PROVE Seen'
  <2>1. /\ ~AppendEvents(p) => events' = events
        /\ \A k \in DOMAIN windows : Under(k, events') = Under(k, events)
    BY <1>2, UnderKept
  <2>2. ASSUME NEW k \in DOMAIN windows, windows[k] # Empty
        PROVE  k \in DOMAIN windows' /\ windows'[k] = windows[k]
    <3>1. CASE TruncateWindow(p)
      <4>1. \A i \in DOMAIN windows : i # seq[p]
        BY <3>1 DEF TruncateWindow, NewWindow, StoreInv, TypeOK
      <4>2. QED  BY <3>1, <4>1 DEF TruncateWindow
    <3>2. CASE FillWindow(p)
      <4>1. pc[p] = "fill" /\ windows[seq[p]] = Empty  BY <3>2 DEF FillWindow, NewWindow
      <4>2. k # seq[p]  BY <2>2, <4>1
      <4>3. QED  BY <3>2, <4>2 DEF FillWindow
    <3>3. QED  BY <1>2, <3>1, <3>2, WhatChanges
  <2>3. ASSUME NEW q \in Proc, seenIndex[q] # None
        PROVE  /\ seenIndex[q].win \in DOMAIN windows'
               /\ windows'[seenIndex[q].win] = seenIndex[q]
               /\ Under(seenIndex[q].win, events') = Under(seenIndex[q].win, events)
    <3>1. seenIndex[q] \in Index  BY <2>3 DEF StoreInv, TypeOK
    <3>2. seenIndex[q].win \in DOMAIN windows /\ windows[seenIndex[q].win] = seenIndex[q]
      BY <2>3 DEF Seen
    <3>3. seenIndex[q] # Empty  BY <3>1, StoreAssumption
    <3>4. QED  BY <2>1, <2>2, <3>2, <3>3
  <2>4. ASSUME NEW q \in Proc, q # p
        PROVE  /\ seenIndex'[q] # None =>
                    seenIndex'[q].win \in DOMAIN windows' /\ windows'[seenIndex'[q].win] = seenIndex'[q]
               /\ cmd'[q] = "observe" /\ out'[q] = "ok" /\ selector'[q] # "all" =>
                    seenIndex'[q] # None /\ seenLines'[q] = Under(seenIndex'[q].win, events')
    <3>1. /\ seenIndex'[q] = seenIndex[q] /\ seenLines'[q] = seenLines[q] /\ cmd'[q] = cmd[q]
          /\ out'[q] = out[q] /\ selector'[q] = selector[q]
      BY <1>2, <2>4, OthersKeep DEF StoreInv
    <3>2. QED  BY <2>3, <3>1 DEF Seen
  <2>5. ASSUME seenIndex'[p] # None
        PROVE  seenIndex'[p].win \in DOMAIN windows' /\ windows'[seenIndex'[p].win] = seenIndex'[p]
    <3>1. CASE Begin(p)  BY <2>5, <3>1 DEF Begin, Start, StoreInv, TypeOK
    <3>2. CASE SelectWindow(p) /\ seenIndex' # seenIndex
      <4>1. /\ WindowsReadable /\ DOMAIN windows # {} /\ windows' = windows
            /\ seenIndex'[p] = windows[Chosen(selector[p], DOMAIN windows)]
        BY <3>2 DEF SelectWindow, Fail, files, StoreInv, TypeOK
      <4>2. PICK k \in DOMAIN windows : k = Chosen(selector[p], DOMAIN windows)
        BY <4>1, ChosenIsAWindow DEF StoreInv, Numbering
      <4>3. windows[k].win = k  BY <4>1 DEF WindowsReadable, Covered
      <4>4. QED  BY <4>1, <4>2, <4>3
    <3>3. CASE seenIndex' = seenIndex  BY <2>3, <2>5, <3>3
    <3>4. QED  BY <1>2, <3>1, <3>2, <3>3, WhatChanges
  <2>6. ASSUME cmd'[p] = "observe", out'[p] = "ok", selector'[p] # "all"
        PROVE  seenIndex'[p] # None /\ seenLines'[p] = Under(seenIndex'[p].win, events')
    <3>1. ~OpenManifest(p) \/ cmd[p] # "init"
      BY <2>6 DEF OpenManifest, End, Reset
    <3>2. ~CloseManifest(p)
      BY <2>6 DEF CloseManifest, End, Reset, Commanded, Ingesting
    <3>3. ~ListWindows(p) /\ ~ExportWindows(p)
      <4>1. CASE ListWindows(p)  BY <2>6, <4>1 DEF ListWindows, Fail, End, Reset, Commanded
      <4>2. CASE ExportWindows(p) 
        <5>1. cmd[p] = "export"  BY <4>2 DEF ExportWindows, Commanded
        <5>2. cmd' = cmd  BY <4>2 DEF ExportWindows, Fail, End, Reset
        <5>3. QED  BY <2>6, <5>1, <5>2
      <4>3. QED  BY <4>1, <4>2
    <3>4. LogReadable /\ SelectEvents(p)  BY <1>2, <2>6, <3>1, <3>2, <3>3, HowEnded DEF StoreInv
    <3>5. /\ pc[p] = "selectEvents" /\ events' = events /\ seenIndex' = seenIndex /\ selector' = selector
          /\ seenLines'[p] = Selected(selector[p], seenIndex[p].win)
      BY <3>4 DEF SelectEvents, Fail, End, Reset, files, StoreInv, TypeOK
    <3>6. seenIndex[p] # None  BY <3>5 DEF StoreInv, Numbering
    <3>7. QED  BY <2>6, <3>5, <3>6 DEF Selected, Under
  <2>7. QED  BY <2>4, <2>5, <2>6 DEF Seen
<1>3. QED  BY <1>1, <1>2 DEF Next, Step

(* All of it, as one inductive invariant of a store nobody is killed in.   *)
UndisturbedInv ==
  /\ StoreInv /\ Commanded /\ Creation /\ Reporting /\ ~torn
  /\ NewWindow /\ Sound /\ Covered /\ Seen

LEMMA UndisturbedInitially == Init => UndisturbedInv
<1> SUFFICES ASSUME Init PROVE UndisturbedInv  OBVIOUS
<1>1. StoreInv /\ Commanded  BY InitialTypes, InitialCommands
<1>2. /\ \A p \in Proc : pc[p] = "idle" /\ seenIndex[p] = None /\ out[p] = None
      /\ DOMAIN windows = {} /\ DOMAIN events = {} /\ ~torn /\ ~openTail
  BY DEF Init
<1>3. Creation  BY <1>2 DEF Init, Creation
<1>4. Seen  BY <1>2, StoreAssumption DEF Seen
<1>5. Reporting /\ NewWindow /\ Sound /\ Covered
  BY <1>2 DEF Reporting, NewWindow, Sound, LogReadable, Covered
<1>6. QED  BY <1>1, <1>2, <1>3, <1>4, <1>5 DEF UndisturbedInv

LEMMA UndisturbedPreserved ==
  ASSUME OneIngester, NoInitRace, Faults = {}, UndisturbedInv, [Next]_vars
  PROVE  UndisturbedInv'
<1> USE DEF UndisturbedInv
<1>1. StoreInv'  BY TypesPreserved
<1>2. Commanded' /\ Creation' /\ Reporting'
  BY CommandedPreserved, CreationPreserved, ReportingPreserved DEF StoreInv
<1>3. ~torn'
  <2>1. CASE UNCHANGED vars  BY <2>1 DEF vars, ghosts
  <2>2. ASSUME NEW p \in Proc, Step(p) PROVE ~torn'
    BY <2>2, WhatChanges DEF Crash, TearAppend
  <2>3. QED  BY <2>1, <2>2 DEF Next, Step
<1>4. NewWindow' /\ Sound'  BY NewWindowPreserved, SoundPreserved
<1>5. Covered' /\ Seen'  BY <1>1, <1>3, CoveredPreserved, SeenPreserved
<1>6. QED  BY <1>1, <1>2, <1>3, <1>4, <1>5

LEMMA UndisturbedAlways ==
  ASSUME OneIngester, NoInitRace, Faults = {}
  PROVE  Spec => []UndisturbedInv
<1>1. UndisturbedInv /\ [Next]_vars => UndisturbedInv'  BY UndisturbedPreserved
<1>2. QED  BY <1>1, UndisturbedInitially, PTL DEF Spec

(* The index of a window covers every event logged under its number, when  *)
(* one process ingests and none is killed, whatever others read meanwhile. *)
THEOREM WindowsCovered ==
  ASSUME OneIngester, NoInitRace, Faults = {}
  PROVE  Spec => []IndexCoversWindow
<1>1. UndisturbedInv => IndexCoversWindow
  <2> SUFFICES ASSUME UndisturbedInv, NEW k \in DOMAIN windows, windows[k] \notin {Empty, Garbage},
                      NEW i \in DOMAIN events, events[i].win = k
               PROVE  \E j \in DOMAIN windows[k].ids : windows[k].ids[j] = IdOf(events[i])
    BY DEF IndexCoversWindow
  <2>1. windows[k] \in Index  BY DEF UndisturbedInv, StoreInv, TypeOK
  <2>2. windows[k].win = k /\ Covers(windows[k], events)  BY DEF UndisturbedInv, Covered
  <2>3. PICK l \in Nat : l = Len(windows[k].ids) /\ DOMAIN windows[k].ids = 1 .. l  BY <2>1 DEF Index
  <2>4. PICK m \in Nat :
          /\ Under(k, events) = m + 1 .. m + l
          /\ \A j \in 1 .. l : IdOf(events[m + j]) = windows[k].ids[j]
    BY <2>2, <2>3 DEF Covers
  <2>5. i \in m + 1 .. m + l  BY <2>4 DEF Under
  <2>6. i - m \in 1 .. l /\ m + (i - m) = i  BY <2>5
  <2>7. QED  BY <2>3, <2>4, <2>6
<1>2. QED  BY <1>1, UndisturbedAlways, PTL

(* An observation returns one whole window, the events its index names,    *)
(* when one process ingests beside the observers and none is killed.       *)
THEOREM ObservationsComplete ==
  ASSUME OneIngester, NoInitRace, Faults = {}
  PROVE  Spec => []ObservedWindowComplete
<1>1. UndisturbedInv => ObservedWindowComplete
  <2> SUFFICES ASSUME UndisturbedInv, NEW p \in Proc,
                      cmd[p] = "observe" /\ out[p] = "ok" /\ selector[p] # "all"
               PROVE  /\ Len(seenIndex[p].ids) = Cardinality(seenLines[p])
                      /\ \A i \in seenLines[p] : \E j \in DOMAIN seenIndex[p].ids :
                           seenIndex[p].ids[j] = IdOf(events[i])
    BY DEF ObservedWindowComplete
  <2>1. seenIndex[p] # None /\ seenLines[p] = Under(seenIndex[p].win, events)
    BY DEF UndisturbedInv, Seen
  <2>2. PICK index \in Index : index = seenIndex[p]  BY <2>1 DEF UndisturbedInv, StoreInv, TypeOK
  <2>3. index.win \in DOMAIN windows /\ windows[index.win] = index
    BY <2>1, <2>2 DEF UndisturbedInv, Seen
  <2>4. Covers(index, events)  BY <2>2, <2>3, StoreAssumption DEF UndisturbedInv, Covered
  <2>5. PICK l \in Nat : l = Len(index.ids) /\ DOMAIN index.ids = 1 .. l  BY <2>2 DEF Index
  <2>6. PICK m \in Nat :
          /\ Under(index.win, events) = m + 1 .. m + l
          /\ \A j \in 1 .. l : IdOf(events[m + j]) = index.ids[j]
    BY <2>4, <2>5 DEF Covers
  <2>7. Cardinality(m + 1 .. m + l) = l
    <3>1. m + 1 \in Int /\ m + l \in Int  OBVIOUS
    <3>2. Cardinality(m + 1 .. m + l) = IF m + 1 > m + l THEN 0 ELSE (m + l) - (m + 1) + 1
      BY <3>1, FS_Interval
    <3>3. QED  BY <3>2
  <2>8. ASSUME NEW i \in m + 1 .. m + l PROVE \E j \in 1 .. l : index.ids[j] = IdOf(events[i])
    <3>1. i - m \in 1 .. l /\ m + (i - m) = i  OBVIOUS
    <3>2. QED  BY <2>6, <3>1
  <2>9. QED  BY <2>1, <2>2, <2>5, <2>6, <2>7, <2>8
<1>2. QED  BY <1>1, UndisturbedAlways, PTL

-----------------------------------------------------------------------------
(* The ledger of windows.                                                  *)

(* The only way to list consecutive numbers in order. *)
LEMMA InOrderOfInterval ==
  ASSUME NEW m \in Nat, NEW n \in Nat
  PROVE  Cardinality(m + 1 .. m + n) = n /\ InOrder(m + 1 .. m + n) = [i \in 1 .. n |-> m + i]
<1> DEFINE S == m + 1 .. m + n
           Ordered(f) == \A i, j \in DOMAIN f : i < j => f[i] < f[j]
           g == [i \in 1 .. n |-> m + i]
<1>1. Cardinality(S) = n
  <2>1. m + 1 \in Int /\ m + n \in Int  OBVIOUS
  <2>2. Cardinality(m + 1 .. m + n) = IF m + 1 > m + n THEN 0 ELSE (m + n) - (m + 1) + 1
    BY <2>1, FS_Interval
  <2>3. QED  BY <2>2
<1>2. g \in [1 .. n -> S] /\ Ordered(g)  OBVIOUS
<1>3. ASSUME NEW f \in [1 .. n -> S], Ordered(f) PROVE f = g
  <2>0. /\ \A i \in 1 .. n : f[i] \in Nat /\ f[i] >= m + 1 /\ f[i] <= m + n
        /\ \A i, j \in 1 .. n : i < j => f[i] < f[j]
    BY <1>3
  <2>1. ASSUME NEW k \in 1 .. n, f[k] < m + k PROVE FALSE
    <3> DEFINE T == {i \in 1 .. n : f[i] < m + i}
    <3>1. PICK i \in T : \A j \in T : i <= j
      <4>1. T \subseteq Nat /\ T # {}
        <5>1. k \in T  BY <2>1
        <5>2. T \subseteq 1 .. n  OBVIOUS
        <5>3. QED  BY <5>1, <5>2
      <4> HIDE DEF T
      <4>2. QED  BY <4>1, NatLeast
    <3>2. i # 1  BY <2>0
    <3>3. i - 1 \in 1 .. n /\ i - 1 \notin T  BY <3>1, <3>2
    <3>4. f[i - 1] >= m + i - 1 /\ f[i - 1] < f[i]  BY <2>0, <3>3
    <3>5. QED  BY <2>0, <3>1, <3>3, <3>4
  <2>2. ASSUME NEW k \in 1 .. n, f[k] > m + k PROVE FALSE
    <3> DEFINE T == {i \in 1 .. n : f[i] > m + i}
    <3>1. PICK i \in T : \A j \in T : j <= i
      <4>1. T \subseteq 0 .. n /\ T # {}
        <5>1. k \in T  BY <2>2
        <5>2. T \subseteq 1 .. n  OBVIOUS
        <5>3. QED  BY <5>1, <5>2
      <4> HIDE DEF T
      <4>2. QED  BY <4>1, NatGreatest
    <3>2. i # n  BY <2>0
    <3>3. i + 1 \in 1 .. n /\ i + 1 \notin T  BY <3>1, <3>2
    <3>4. f[i + 1] <= m + i + 1 /\ f[i] < f[i + 1]  BY <2>0, <3>3
    <3>5. QED  BY <2>0, <3>1, <3>3, <3>4
  <2>3. ASSUME NEW k \in 1 .. n PROVE f[k] = m + k
    <3>1. ~(f[k] < m + k) /\ ~(f[k] > m + k)  BY <2>1, <2>2
    <3>2. f[k] \in Nat /\ m + k \in Nat  BY <2>0
    <3>3. QED  BY <3>1, <3>2
  <2>4. QED  BY <2>3
<1>4. InOrder(S) = CHOOSE f \in [1 .. n -> S] : Ordered(f)  BY <1>1 DEF InOrder
<1> HIDE DEF S, Ordered, g
<1>5. InOrder(S) = g  BY <1>2, <1>3, <1>4
<1>6. QED  BY <1>1, <1>5 DEF S, g

(* The events logged under a covered window are those of its index.        *)
LEMMA LoggedBodies ==
  ASSUME NEW index \in Index, Covers(index, events)
  PROVE  Bodies(Logged(index.win)) = Bodies(index.ids) /\ Bodies(index.ids) \in Seq(Payload)
<1>1. PICK d \in Nat : d = Len(index.ids) /\ DOMAIN index.ids = 1 .. d  BY DEF Index
<1>2. PICK m \in Nat :
        /\ Under(index.win, events) = m + 1 .. m + d
        /\ \A j \in 1 .. d : IdOf(events[m + j]) = index.ids[j]
  BY <1>1 DEF Covers
<1>3. LinesUnder(index.win) = m + 1 .. m + d  BY <1>2 DEF LinesUnder, Under
<1>4. Logged(index.win) = [i \in 1 .. d |-> events[m + i]]
  <2>1. Cardinality(LinesUnder(index.win)) = d /\ InOrder(LinesUnder(index.win)) = [i \in 1 .. d |-> m + i]
    BY <1>3, InOrderOfInterval
  <2>2. QED  BY <2>1 DEF Logged
<1>5. ASSUME NEW j \in 1 .. d PROVE events[m + j].body = index.ids[j].body
  <2>1. IdOf(events[m + j]).body = events[m + j].body  BY DEF IdOf
  <2>2. QED  BY <1>2, <2>1
<1>6. \A j \in 1 .. d : index.ids[j].body \in Payload
  <2>1. index.ids \in Seq(EventId)  BY DEF Index
  <2>2. \A j \in 1 .. d : index.ids[j] \in EventId  BY <1>1, <2>1
  <2>3. QED  BY <2>2 DEF EventId
<1>7. QED  BY <1>1, <1>4, <1>5, <1>6 DEF Bodies

(* The filled windows are numbered; when all can be read they are all.     *)
LEMMA FilledNumbered ==
  ASSUME UndisturbedInv
  PROVE  /\ Numbered(Filled)
         /\ WindowsReadable => Filled = DOMAIN windows
<1>1. PICK n \in Nat : DOMAIN windows = 0 .. n - 1  BY DEF UndisturbedInv, StoreInv, Numbering, Numbered
<1>2. CASE \A k \in DOMAIN windows : windows[k] # Empty
  <2>1. Filled = DOMAIN windows  BY <1>2 DEF Filled
  <2>2. QED  BY <1>1, <2>1 DEF Numbered
<1>3. CASE \E k \in DOMAIN windows : windows[k] = Empty
  <2>1. PICK k \in DOMAIN windows : windows[k] = Empty  BY <1>3
  <2>2. PICK p \in Proc : pc[p] = "fill" /\ seq[p] = k  BY <2>1 DEF UndisturbedInv, Sound
  <2>3. \A i \in DOMAIN windows : i <= k  BY <2>2 DEF UndisturbedInv, NewWindow
  <2>4. k = n - 1
    <3>1. k \in 0 .. n - 1  BY <1>1
    <3>2. n - 1 \in DOMAIN windows  BY <1>1, <3>1
    <3>3. n - 1 <= k  BY <2>3, <3>2
    <3>4. QED  BY <3>1, <3>3
  <2>5. \A i \in DOMAIN windows : windows[i] = Empty => i = k
    <3>1. ASSUME NEW i \in DOMAIN windows, windows[i] = Empty PROVE i = k
      <4>1. PICK q \in Proc : pc[q] = "fill" /\ seq[q] = i  BY <3>1 DEF UndisturbedInv, Sound
      <4>2. \A j \in DOMAIN windows : j <= i  BY <4>1 DEF UndisturbedInv, NewWindow
      <4>3. i <= k /\ k <= i /\ i \in Nat /\ k \in Nat  BY <1>1, <2>3, <4>2
      <4>4. QED  BY <4>3
    <3>2. QED  BY <3>1
  <2>6. Filled = 0 .. k - 1  BY <1>1, <2>1, <2>4, <2>5 DEF Filled
  <2>7. ~WindowsReadable  BY <2>1 DEF WindowsReadable
  <2>8. QED  BY <1>1, <2>4, <2>6, <2>7 DEF Numbered
<1>4. QED  BY <1>2, <1>3

(* The ledger is what the filled windows list. *)
Entries == [k \in 1 .. Cardinality(Filled) |-> Bodies(Logged(k - 1))]

Indexed ==
  /\ Entries = [k \in 1 .. Cardinality(Filled) |-> Bodies(windows[k - 1].ids)]
  /\ \A k \in Filled : Bodies(windows[k].ids) \in Seq(Payload)
  /\ Cardinality(Filled) \in Nat /\ Filled = 0 .. Cardinality(Filled) - 1

LEMMA LedgerIsIndexed == UndisturbedInv => Indexed
<1> SUFFICES ASSUME UndisturbedInv PROVE Indexed  OBVIOUS
<1>1. PICK c \in Nat : c = Cardinality(Filled) /\ Filled = 0 .. c - 1
  BY FilledNumbered, NumberedSets
<1>2. ASSUME NEW k \in Filled
      PROVE  Bodies(Logged(k)) = Bodies(windows[k].ids) /\ Bodies(windows[k].ids) \in Seq(Payload)
  <2>1. k \in DOMAIN windows /\ windows[k] # Empty  BY DEF Filled
  <2>2. windows[k] \in Index  BY <2>1 DEF UndisturbedInv, Sound, StoreInv, TypeOK
  <2>3. windows[k].win = k /\ Covers(windows[k], events)  BY <2>1 DEF UndisturbedInv, Covered
  <2>4. PICK index \in Index : index = windows[k]  BY <2>2
  <2>5. index.win = k /\ Covers(index, events)  BY <2>3, <2>4
  <2>6. QED  BY <2>4, <2>5, LoggedBodies
<1>3. \A k \in 1 .. c : k - 1 \in Filled
  <2>1. \A k \in 1 .. c : k - 1 \in 0 .. c - 1  OBVIOUS
  <2>2. QED  BY <1>1, <2>1
<1>4. QED  BY <1>1, <1>2, <1>3 DEF Indexed, Entries

(* As many windows as ingests were started, one less before an ingest has  *)
(* its file.                                                               *)
Early == {"exists", "create", "openWindows", "openEvents", "openManifest",
          "sequence", "offset", "append", "truncate"}

Counted ==
  /\ ingests <= MaxIngests /\ Cardinality(DOMAIN windows) <= ingests
  /\ \A p \in Proc : cmd[p] = "ingest" /\ pc[p] \in Early => Cardinality(DOMAIN windows) < ingests

(* A command at one of these labels was there before or has just begun. *)
LEMMA HowEarly ==
  ASSUME TypeOK, NEW p \in Proc, Step(p), pc'[p] \in Early
  PROVE  Begin(p) \/ (pc[p] \in Early /\ cmd'[p] = cmd[p] /\ ~TruncateWindow(p))
<1> USE DEF Early, GoTo
<1>1. DOMAIN pc = Proc  BY DEF TypeOK
<1>2. CASE CheckLog(p) \/ CreateLog(p) \/ AppendEvents(p)
  BY <1>1, <1>2 DEF CheckLog, CreateLog, AppendEvents, TruncateWindow
<1>3. CASE ManifestWindows(p) \/ ManifestEvents(p)
  BY <1>1, <1>3 DEF ManifestWindows, ManifestEvents, Fail, End, Reset, TruncateWindow
<1>4. CASE OpenManifest(p) \/ CloseManifest(p)
  BY <1>1, <1>4 DEF OpenManifest, CloseManifest, End, Reset, TruncateWindow
<1>5. CASE ReadSequence(p) \/ ReadOffset(p)
  BY <1>1, <1>5 DEF ReadSequence, ReadOffset, Fail, End, Reset, TruncateWindow
<1>6. CASE TruncateWindow(p) \/ FillWindow(p) \/ WriteLatest(p)
  BY <1>1, <1>6 DEF TruncateWindow, FillWindow, WriteLatest
<1>7. CASE ListWindows(p) \/ ExportEvents(p) \/ ExportWindows(p)
  BY <1>1, <1>7 DEF ListWindows, ExportEvents, ExportWindows, Fail, End, Reset
<1>8. CASE SelectWindow(p) \/ SelectEvents(p) \/ Crash(p) \/ TearAppend(p)
  BY <1>1, <1>8 DEF SelectWindow, SelectEvents, Crash, TearAppend, Fail, End, Reset
<1>9. QED  BY <1>2, <1>3, <1>4, <1>5, <1>6, <1>7, <1>8 DEF Step, Work

(* Every step keeps the count. *)
LEMMA CountPreserved ==
  ASSUME OneIngester, StoreInv, Commanded, Counted, [Next]_vars
  PROVE  Counted'
<1>1. CASE UNCHANGED vars  BY <1>1 DEF vars, files, local, ghosts, Counted
<1>2. ASSUME NEW p \in Proc, Step(p) PROVE Counted'
  <2>1. PICK n \in Nat : n = Cardinality(DOMAIN windows)
    BY NumberedSets DEF StoreInv, Numbering
  <2>2. IsFiniteSet(DOMAIN windows) /\ ingests \in Nat /\ MaxIngests \in Nat
        /\ DOMAIN pc = Proc /\ DOMAIN cmd = Proc
    BY NumberedSets, StoreAssumption DEF StoreInv, Numbering, TypeOK
  <2>3. n <= ingests /\ ingests <= MaxIngests
        /\ \A q \in Proc : cmd[q] = "ingest" /\ pc[q] \in Early => n < ingests
    BY <2>1 DEF Counted
  <2>4. CASE Begin(p)
    <3>1. PICK c \in Command, b \in Batches \cup {<<>>}, sel \in Selectors \cup {None} : Start(p, c, b, sel)
      BY <2>4 DEF Begin
    <3>2. /\ windows' = windows /\ cmd'[p] = c
          /\ c = "ingest" => ingests < MaxIngests /\ ingests' = ingests + 1
          /\ c # "ingest" => ingests' = ingests
      BY <2>2, <3>1 DEF Start, files
    <3>3. \A q \in Proc \ {p} : cmd'[q] = cmd[q] /\ pc'[q] = pc[q]
      BY <1>2, OthersKeep DEF StoreInv
    <3>4. n <= ingests' /\ ingests' <= MaxIngests /\ (c = "ingest" => n < ingests')
      BY <2>2, <2>3, <3>2
    <3>5. \A q \in Proc : cmd'[q] = "ingest" /\ pc'[q] \in Early => n < ingests'
      BY <2>2, <2>3, <3>2, <3>3, <3>4
    <3>6. Cardinality(DOMAIN windows') = n  BY <2>1, <3>2
    <3>7. QED  BY <3>4, <3>5, <3>6 DEF Counted
  <2>5. CASE TruncateWindow(p)
    <3>1. /\ ingests' = ingests /\ cmd' = cmd /\ pc[p] = "truncate" /\ pc'[p] = "fill"
          /\ DOMAIN windows' = DOMAIN windows \cup {seq[p]}
      BY <2>2, <2>5 DEF TruncateWindow, GoTo, ghosts
    <3>2. cmd[p] = "ingest" /\ pc[p] \in Early  BY <3>1 DEF Commanded, Ingesting, Early
    <3>3. n < ingests  BY <2>3, <3>2
    <3>4. Cardinality(DOMAIN windows') <= n + 1 /\ Cardinality(DOMAIN windows') \in Nat
      <4>1. PICK D : D = DOMAIN windows  OBVIOUS
      <4>2. IsFiniteSet(D) /\ Cardinality(D) = n  BY <2>1, <2>2, <4>1
      <4>3. Cardinality(D \cup {seq[p]}) = IF seq[p] \in D THEN Cardinality(D) ELSE Cardinality(D) + 1
        BY <4>2, FS_AddElement
      <4>4. Cardinality(DOMAIN windows') \in {n, n + 1}  BY <3>1, <4>1, <4>2, <4>3
      <4>5. QED  BY <4>4
    <3>5. Cardinality(DOMAIN windows') <= ingests  BY <2>1, <2>2, <3>3, <3>4
    <3>6. ASSUME NEW q \in Proc, cmd'[q] = "ingest", pc'[q] \in Early PROVE FALSE
      <4>1. q # p  BY <3>1, <3>6 DEF Early
      <4>2. cmd[q] = "ingest" /\ pc[q] \in Early  BY <1>2, <3>6, <4>1, OthersKeep DEF StoreInv
      <4>3. "ingest" \in Allowed[q] /\ "ingest" \in Allowed[p]  BY <3>2, <4>2 DEF Commanded, Early
      <4>4. QED  BY <4>1, <4>3 DEF OneIngester
    <3>7. QED  BY <2>3, <3>1, <3>5, <3>6 DEF Counted
  <2>6. CASE ~Begin(p) /\ ~TruncateWindow(p)
    <3>1. ingests' = ingests /\ DOMAIN windows' = DOMAIN windows
      <4>1. FillWindow(p) => DOMAIN windows' = DOMAIN windows  BY DEF FillWindow
      <4>2. QED  BY <1>2, <2>6, <4>1, WhatChanges
    <3>2. ASSUME NEW q \in Proc, cmd'[q] = "ingest", pc'[q] \in Early
          PROVE  cmd[q] = "ingest" /\ pc[q] \in Early
      <4>1. CASE q = p  BY <1>2, <2>6, <3>2, <4>1, HowEarly DEF StoreInv
      <4>2. CASE q # p  BY <1>2, <3>2, <4>2, OthersKeep DEF StoreInv
      <4>3. QED  BY <4>1, <4>2
    <3>3. QED  BY <3>1, <3>2 DEF Counted
  <2>7. QED  BY <2>4, <2>5, <2>6
<1>3. QED  BY <1>1, <1>2 DEF Next, Step

(* While padded names sort by number, "latest" is the last window and      *)
(* "previous" the one before it.                                           *)
LEMMA ChosenNewest ==
  ASSUME NEW n \in Nat, n <= PadLimit, n # 0, NEW sel
  PROVE  /\ LastName(0 .. n - 1) = n - 1
         /\ Chosen("latest", 0 .. n - 1) = n - 1
         /\ Chosen(sel, 0 .. n - 1) \in {n - 1, n - 2} \cap 0 .. n - 1
<1>1. ASSUME NEW m \in Nat, m <= PadLimit, m # 0 PROVE LastName(0 .. m - 1) = m - 1
  <2> DEFINE S == 0 .. m - 1
  <2>1. S \subseteq 0 .. m /\ S # {}
    <3>1. 0 \in S  BY <1>1
    <3>2. QED  BY <3>1
  <2> HIDE DEF S
  <2>2. /\ LastName(S) \in S
        /\ \A k \in S \ {LastName(S)} : NameBefore(k, LastName(S))
    BY <2>1, LastNameProperties
  <2>3. \A i, j \in S : NameBefore(i, j) => i < j
    BY <1>1, StoreAssumption DEF NameBefore, S
  <2>4. m - 1 \in S /\ \A k \in S : k <= m - 1 /\ k \in Nat  BY <1>1 DEF S
  <2>5. SUFFICES ASSUME LastName(S) # m - 1 PROVE FALSE  BY DEF S
  <2>6. m - 1 < LastName(S)  BY <2>2, <2>3, <2>4, <2>5
  <2>7. QED  BY <2>2, <2>4, <2>6
<1>2. Cardinality(0 .. n - 1) = n
  <2>1. Cardinality(0 .. n - 1) = IF 0 > n - 1 THEN 0 ELSE (n - 1) - 0 + 1  BY FS_Interval
  <2>2. QED  BY <2>1
<1>3. LastName(0 .. n - 1) = n - 1  BY <1>1
<1>4. CASE sel = "previous" /\ n > 1
  <2>1. (0 .. n - 1) \ {n - 1} = 0 .. (n - 1) - 1  OBVIOUS
  <2>2. n - 1 \in Nat /\ n - 1 <= PadLimit /\ n - 1 # 0  BY <1>4, StoreAssumption
  <2>3. LastName(0 .. (n - 1) - 1) = (n - 1) - 1  BY <1>1, <2>2
  <2>4. Chosen(sel, 0 .. n - 1) = n - 2
    <3>1. LastName((0 .. n - 1) \ {n - 1}) = n - 2
      <4>1. PICK T : T = (0 .. n - 1) \ {n - 1}  OBVIOUS
      <4>2. PICK U : U = 0 .. (n - 1) - 1  OBVIOUS
      <4>3. T = U /\ (n - 1) - 1 = n - 2  BY <2>1, <4>1, <4>2
      <4>4. LastName(U) = n - 2  BY <2>3, <4>2, <4>3
      <4>5. LastName(T) = n - 2  BY <4>3, <4>4
      <4>6. QED  BY <4>1, <4>5
    <3>2. PICK S : S = 0 .. n - 1  OBVIOUS
    <3>3. LastName(S) = n - 1 /\ Cardinality(S) = n /\ LastName(S \ {n - 1}) = n - 2
      BY <1>2, <1>3, <3>1, <3>2
    <3>4. Chosen(sel, S) = n - 2  BY <1>4, <3>3 DEF Chosen
    <3>5. QED  BY <3>2, <3>4
  <2>5. QED  BY <1>2, <1>3, <1>4, <2>4 DEF Chosen
<1>5. CASE ~(sel = "previous" /\ n > 1)
  BY <1>2, <1>3, <1>5 DEF Chosen
<1>6. QED  BY <1>4, <1>5

(* The store implements the ledger of windows, when one process ingests    *)
(* beside the observers, none is killed and the padding keeps the order of *)
(* the file names: filling an index file is the one step that adds a       *)
(* window, whole, and reading one is the step that answers.                *)
THEOREM StoreImplementsLedger ==
  ASSUME OneIngester, NoInitRace, Faults = {}, MaxIngests <= PadLimit
  PROVE  Spec => ImplementsLedger
<1> DEFINE Answers == [p \in Proc |-> IF seenIndex[p] = None THEN None ELSE Bodies(seenIndex[p].ids)]
           Inv == UndisturbedInv /\ Counted
<1>1. Init => Ledger!Init
  <2> SUFFICES ASSUME Init PROVE Entries = <<>> /\ Answers = [p \in Proc |-> None]
    BY DEF Ledger!Init, Entries
  <2>1. Filled = {}  BY DEF Init, Filled
  <2>2. Cardinality(Filled) = 0  BY <2>1, FS_EmptySet
  <2>3. QED  BY <2>2 DEF Init, Entries
<1>2. Init => Counted
  <2> SUFFICES ASSUME Init PROVE Counted  OBVIOUS
  <2>1. DOMAIN windows = {} /\ ingests = 0 /\ \A p \in Proc : pc[p] = "idle"  BY DEF Init
  <2>2. Cardinality(DOMAIN windows) = 0  BY <2>1, FS_EmptySet
  <2>3. QED  BY <2>1, <2>2, StoreAssumption DEF Counted, Early
<1>3. Inv /\ [Next]_vars => Counted'  BY CountPreserved DEF UndisturbedInv
<1>4. UndisturbedInv' => Indexed'  BY LedgerIsIndexed, PTL
<1>5. ASSUME Inv, Inv', [Next]_vars PROVE [Ledger!Next]_(Ledger!vars)
  <2>1. PICK c \in Nat : /\ c = Cardinality(Filled) /\ Filled = 0 .. c - 1
                         /\ Entries = [k \in 1 .. c |-> Bodies(windows[k - 1].ids)]
                         /\ \A k \in 0 .. c - 1 : Bodies(windows[k].ids) \in Seq(Payload)
    BY <1>5, LedgerIsIndexed DEF Indexed
  <2>2. PICK d \in Nat : /\ d = Cardinality(Filled') /\ Filled' = 0 .. d - 1
                         /\ Entries' = [k \in 1 .. d |-> Bodies(windows'[k - 1].ids)]
                         /\ \A k \in 0 .. d - 1 : Bodies(windows'[k].ids) \in Seq(Payload)
    BY <1>4, <1>5 DEF Indexed
  <2> SUFFICES \/ Ledger!Ingest
               \/ \E p \in Proc : Ledger!Observe(p) \/ Ledger!Forget(p)
               \/ Entries' = Entries /\ Answers' = Answers
    BY DEF Ledger!Next, Ledger!vars, Entries
  <2>3. CASE UNCHANGED vars
    BY <2>1, <2>2, <2>3 DEF vars, files, local, Filled
  <2>4. ASSUME NEW p \in Proc, Step(p)
        PROVE  \/ Ledger!Ingest
               \/ \E q \in Proc : Ledger!Observe(q) \/ Ledger!Forget(q)
               \/ Entries' = Entries /\ Answers' = Answers
    <3>1. seenIndex' = seenIndex => Answers' = Answers  OBVIOUS
    <3>2. windows' = windows => Entries' = Entries
      <4>1. windows' = windows => Filled' = Filled  BY DEF Filled
      <4>2. QED  BY <2>1, <2>2, <4>1
    <3>3. Entries \in Seq(Seq(Payload)) /\ Len(Entries) = c /\ Entries' \in Seq(Seq(Payload)) /\ Len(Entries') = d
      <4>1. \A k \in 1 .. c : k - 1 \in 0 .. c - 1  OBVIOUS
      <4>2. \A k \in 1 .. d : k - 1 \in 0 .. d - 1  OBVIOUS
      <4>3. Entries \in Seq(Seq(Payload)) /\ Len(Entries) = c
        <5>1. \A k \in 1 .. c : Bodies(windows[k - 1].ids) \in Seq(Payload)  BY <2>1, <4>1
        <5>2. Entries \in [1 .. c -> Seq(Payload)]  BY <2>1, <5>1
        <5>3. PICK e : e = Entries  OBVIOUS
        <5>4. e \in Seq(Seq(Payload)) /\ Len(e) = c  BY <5>2, <5>3
        <5>5. QED  BY <5>3, <5>4
      <4>4. Entries' \in Seq(Seq(Payload)) /\ Len(Entries') = d
        <5>1. \A k \in 1 .. d : Bodies(windows'[k - 1].ids) \in Seq(Payload)  BY <2>2, <4>2
        <5>2. Entries' \in [1 .. d -> Seq(Payload)]  BY <2>2, <5>1
        <5>3. PICK e : e = Entries'  OBVIOUS
        <5>4. e \in Seq(Seq(Payload)) /\ Len(e) = d  BY <5>2, <5>3
        <5>5. QED  BY <5>3, <5>4
      <4>5. QED  BY <4>3, <4>4
    <3>4. CASE FillWindow(p)
      <4>1. /\ pc[p] = "fill" /\ seenIndex' = seenIndex /\ windows[seq[p]] = Empty
            /\ seq[p] \in DOMAIN windows
        BY <1>5, <3>4 DEF FillWindow, UndisturbedInv, NewWindow, StoreInv, Numbering
      <4>2. windows' = [windows EXCEPT ![seq[p]] = IndexOf(p)]  BY <3>4, <4>1 DEF FillWindow
      <4>3. IndexOf(p) # Empty
        BY <1>5, IngestTypes, StoreAssumption DEF UndisturbedInv, StoreInv
      <4>4. Filled' = Filled \cup {seq[p]} /\ seq[p] \notin Filled  BY <4>1, <4>2, <4>3 DEF Filled
      <4>5. seq[p] \in Nat /\ \A k \in 0 .. c - 1 : k <= seq[p]
        <5>1. \A k \in DOMAIN windows : k <= seq[p]  BY <1>5, <4>1 DEF UndisturbedInv, NewWindow
        <5>2. seq[p] \in Nat  BY <1>5 DEF UndisturbedInv, StoreInv, TypeOK
        <5>3. QED  BY <2>1, <5>1, <5>2 DEF Filled
      <4>6. seq[p] \in 0 .. d - 1 /\ d - 1 \in 0 .. d - 1
        <5>1. seq[p] \in Filled'  BY <4>4
        <5>2. seq[p] \in 0 .. d - 1  BY <2>2, <5>1
        <5>3. QED  BY <4>5, <5>2
      <4>7. 0 .. d - 1 = 0 .. c - 1 \cup {seq[p]} /\ seq[p] \notin 0 .. c - 1  BY <2>1, <2>2, <4>4
      <4>8. seq[p] = c
        <5>1. ~(seq[p] < c)  BY <4>5, <4>7
        <5>2. ~(seq[p] > c)
          <6>1. SUFFICES ASSUME seq[p] > c PROVE FALSE  OBVIOUS
          <6>2. c \in 0 .. d - 1  BY <4>5, <4>6, <6>1
          <6>3. c \in 0 .. c - 1 \/ c = seq[p]  BY <4>7, <6>2
          <6>4. QED  BY <4>5, <6>1, <6>3
        <5>3. QED  BY <4>5, <5>1, <5>2
      <4>9. d = c + 1
        <5>1. c \in 0 .. d - 1  BY <4>6, <4>8
        <5>2. d - 1 \in 0 .. c - 1 \/ d - 1 = c  BY <4>6, <4>7, <4>8
        <5>3. QED  BY <5>1, <5>2
      <4>10. ASSUME NEW k \in 1 .. c PROVE Entries'[k] = Entries[k]
        <5>1. k \in 1 .. d /\ k - 1 \in 0 .. c - 1 /\ k - 1 # seq[p]  BY <4>8, <4>9
        <5>2. windows'[k - 1] = windows[k - 1]
          <6>1. k - 1 \in DOMAIN windows  BY <2>1, <5>1 DEF Filled
          <6>2. QED  BY <4>2, <5>1, <6>1
        <5>3. QED  BY <2>1, <2>2, <5>1, <5>2
      <4>11. Ledger!Ingest
        <5>1. Len(Entries') = Len(Entries) + 1  BY <3>3, <4>9
        <5>2. SubSeq(Entries', 1, Len(Entries)) = Entries
          <6>1. PICK e \in Seq(Seq(Payload)) : e = Entries  BY <3>3
          <6>2. PICK f \in Seq(Seq(Payload)) : f = Entries'  BY <3>3
          <6>3. Len(e) = c /\ Len(f) = c + 1 /\ \A k \in 1 .. c : f[k] = e[k]
            BY <3>3, <4>9, <4>10, <6>1, <6>2
          <6>4. SubSeq(f, 1, c) = e  BY <6>3
          <6>5. QED  BY <3>3, <6>1, <6>2, <6>4
        <5>3. Entries'[Len(Entries')] \in Seq(Payload)  BY <3>3, <4>9
        <5>4. QED  BY <3>1, <4>1, <5>1, <5>2, <5>3 DEF Ledger!Ingest, Entries
      <4>12. QED  BY <4>11
    <3>5. CASE TruncateWindow(p)
      <4>1. /\ pc[p] = "truncate" /\ seenIndex' = seenIndex
            /\ windows' = [k \in DOMAIN windows \cup {seq[p]} |-> IF k = seq[p] THEN Empty ELSE windows[k]]
        BY <3>5 DEF TruncateWindow
      <4>2. \A k \in DOMAIN windows : k # seq[p]
        BY <1>5, <4>1 DEF UndisturbedInv, NewWindow, StoreInv, TypeOK
      <4>3. Filled' = Filled /\ \A k \in Filled : windows'[k] = windows[k]
        BY <4>1, <4>2 DEF Filled
      <4>4. c = d  BY <2>1, <2>2, <4>3
      <4>5. \A k \in 1 .. c : k - 1 \in Filled
        <5>1. \A k \in 1 .. c : k - 1 \in 0 .. c - 1  OBVIOUS
        <5>2. QED  BY <2>1, <5>1
      <4>6. Entries' = Entries  BY <2>1, <2>2, <4>3, <4>4, <4>5
      <4>7. QED  BY <3>1, <4>1, <4>6
    <3>6. CASE SelectWindow(p) /\ seenIndex' # seenIndex
      <4>1. /\ WindowsReadable /\ DOMAIN windows # {} /\ windows' = windows
            /\ seenIndex' = [seenIndex EXCEPT ![p] = windows[Chosen(selector[p], DOMAIN windows)]]
        BY <3>6 DEF SelectWindow, Fail, files
      <4>2. DOMAIN windows = 0 .. c - 1  BY <1>5, <2>1, <4>1, FilledNumbered
      <4>3. c # 0 /\ c <= PadLimit
        <5>1. c # 0  BY <4>1, <4>2
        <5>2. Cardinality(DOMAIN windows) = c
          BY <2>1, <4>2
        <5>3. c <= ingests /\ ingests <= MaxIngests  BY <1>5, <5>2 DEF Counted
        <5>4. ingests \in Nat /\ MaxIngests \in Nat /\ PadLimit \in Nat
          BY <1>5, StoreAssumption DEF UndisturbedInv, StoreInv, TypeOK
        <5>5. QED  BY <5>1, <5>3, <5>4
      <4>4. PICK k : /\ k = Chosen(selector[p], DOMAIN windows)
                     /\ k \in {c - 1, c - 2} \cap 0 .. c - 1
        BY <4>2, <4>3, ChosenNewest
      <4>5. windows[k] \in Index /\ windows[k] # None
        BY <1>5, <4>1, <4>2, <4>4, StoreAssumption DEF WindowsReadable, UndisturbedInv, StoreInv, TypeOK
      <4>6. Answers' = [Answers EXCEPT ![p] = Bodies(windows[k].ids)]
        <5>1. seenIndex' = [seenIndex EXCEPT ![p] = windows[k]]  BY <4>1, <4>4
        <5>2. DOMAIN seenIndex = Proc  BY <1>5 DEF UndisturbedInv, StoreInv, TypeOK
        <5>3. QED  BY <4>5, <5>1, <5>2
      <4>7. Bodies(windows[k].ids) = Entries[k + 1] /\ k + 1 \in {c, c - 1} \cap 1 .. c
        <5>1. k + 1 \in {c, c - 1} \cap 1 .. c /\ (k + 1) - 1 = k  BY <4>4
        <5>2. QED  BY <2>1, <5>1
      <4>8. k + 1 \in {Len(Entries), Len(Entries) - 1} \cap DOMAIN Entries  BY <3>3, <4>7
      <4>9. Answers' = [Answers EXCEPT ![p] = Entries[k + 1]]  BY <4>6, <4>7
      <4>10. Ledger!Observe(p)  BY <3>2, <4>1, <4>8, <4>9 DEF Ledger!Observe, Entries
      <4>11. QED  BY <4>10
    <3>7. CASE Begin(p)
      <4>1. seenIndex' = [seenIndex EXCEPT ![p] = None] /\ windows' = windows
        BY <3>7 DEF Begin, Start, files
      <4>2. DOMAIN seenIndex = Proc  BY <1>5 DEF UndisturbedInv, StoreInv, TypeOK
      <4>3. Answers' = [Answers EXCEPT ![p] = None]  BY <4>1, <4>2
      <4>4. Ledger!Forget(p)  BY <3>2, <4>1, <4>3 DEF Ledger!Forget, Entries
      <4>5. QED  BY <4>4
    <3>8. CASE windows' = windows /\ seenIndex' = seenIndex  BY <3>1, <3>2, <3>8
    <3>9. QED
      <4>1. Begin(p) => windows' = windows  BY DEF Begin, Start, files
      <4>2. SelectWindow(p) => windows' = windows  BY DEF SelectWindow, Fail, files
      <4>3. TruncateWindow(p) \/ FillWindow(p) => seenIndex' = seenIndex  BY DEF TruncateWindow, FillWindow
      <4>4. QED  BY <2>4, <3>4, <3>5, <3>6, <3>7, <3>8, <4>1, <4>2, <4>3, WhatChanges
  <2>5. QED  BY <1>5, <2>3, <2>4 DEF Next, Step
<1>6. QED
  BY <1>1, <1>2, <1>3, <1>5, UndisturbedAlways, PTL DEF Spec, ImplementsLedger, Ledger!Spec

-----------------------------------------------------------------------------
(* One process at a time, killed and started again.                        *)

LEMMA OneProcessIsEnough == OneProcess => OneIngester /\ NoInitRace
BY DEF OneProcess, OneIngester, NoInitRace

(* What every deployment of one process keeps. *)
AloneInv == StoreInv /\ Commanded /\ Creation /\ Reporting /\ NewWindow /\ Sound

LEMMA AloneAlways ==
  ASSUME OneProcess
  PROVE  (Init => AloneInv) /\ (AloneInv /\ [Next]_vars => AloneInv')
<1>1. OneIngester /\ NoInitRace  BY OneProcessIsEnough
<1>2. Init => AloneInv  BY UndisturbedInitially DEF UndisturbedInv, AloneInv
<1>3. ASSUME AloneInv, [Next]_vars PROVE AloneInv'
  <2> USE <1>1, <1>3 DEF AloneInv
  <2>1. StoreInv'  BY TypesPreserved
  <2>2. Commanded' /\ Creation' /\ Reporting'
    BY CommandedPreserved, CreationPreserved, ReportingPreserved DEF StoreInv
  <2>3. NewWindow' /\ Sound'  BY NewWindowPreserved, SoundPreserved
  <2>4. QED  BY <2>1, <2>2, <2>3
<1>4. QED  BY <1>2, <1>3

(* No step undoes that a call was cut off. *)
LEMMA TornStays == [Next]_vars => (torn => torn')
<1> SUFFICES ASSUME [Next]_vars, torn PROVE torn'  OBVIOUS
<1>1. CASE UNCHANGED vars  BY <1>1 DEF vars, ghosts
<1>2. ASSUME NEW p \in Proc, Step(p) PROVE torn'
  BY <1>2, WhatChanges DEF Crash, TearAppend
<1>3. QED  BY <1>1, <1>2 DEF Next, Step

(* A crash between two calls never makes the store unusable: as long as no *)
(* call was cut off in the middle, only observe and export ever fail, for  *)
(* want of a window.                                                       *)
THEOREM CrashesAreRecovered ==
  ASSUME OneProcess
  PROVE  Spec => []RecoversFromCrash
<1>1. Init => RecoversFromCrash
  <2> SUFFICES ASSUME Init, NEW p \in Proc PROVE out[p] # "failed"  BY DEF RecoversFromCrash
  <2>1. QED  BY StoreAssumption DEF Init
<1>2. ASSUME AloneInv, RecoversFromCrash, [Next]_vars PROVE RecoversFromCrash'
  <2>1. CASE UNCHANGED vars  BY <1>2, <2>1 DEF vars, local, ghosts, RecoversFromCrash
  <2>2. ASSUME NEW p \in Proc, Step(p), ~torn', NEW q \in Proc, out'[q] = "failed"
        PROVE  cmd'[q] \in {"observe", "export"}
    <3>1. q = p /\ \A i \in Proc : i = p  BY DEF OneProcess
    <3>2. ~torn  BY <1>2, <2>2, TornStays
    <3>3. CASE pc[p] = "fill"
      <4>1. FillWindow(p) \/ Crash(p)  BY <2>2, <3>3, HowLeft
      <4>2. out'[p] # "failed"
        BY <1>2, <3>3, <4>1, StoreAssumption DEF FillWindow, Crash, Reset, AloneInv, Reporting, StoreInv, TypeOK
      <4>3. QED  BY <2>2, <3>1, <4>2
    <3>4. CASE pc[p] # "fill"
      <4>1. LogReadable /\ WindowsReadable
        BY <1>2, <3>1, <3>2, <3>4 DEF AloneInv, Sound, WindowsReadable
      <4>2. SelectWindow(p)  BY <1>2, <2>2, <3>1, <4>1, HowEnded DEF AloneInv, StoreInv
      <4>3. cmd'[p] = cmd[p] /\ pc[p] = "selectWindow"
        BY <4>2 DEF SelectWindow, Fail, End, Reset
      <4>4. QED  BY <1>2, <3>1, <4>3 DEF AloneInv, Commanded
    <3>5. QED  BY <3>3, <3>4
  <2>3. QED  BY <1>2, <2>1, <2>2 DEF Next, Step, RecoversFromCrash
<1>3. QED  BY <1>1, <1>2, AloneAlways, PTL DEF Spec

-----------------------------------------------------------------------------
(* What a single process has read back.                                    *)

ReadBack ==
  /\ \A p \in Proc :
       /\ pc[p] \in {"openEvents", "openManifest", "sequence", "offset", "append",
                     "closeEvents", "closeManifest"} => WindowsReadable
       /\ pc[p] \in {"openManifest", "sequence", "offset", "append", "closeManifest"} => LogReadable
       /\ pc[p] \in Ingesting \/ (pc[p] \in Opening /\ cmd[p] \in {"init", "ingest"}) => eventsExist
  /\ ~eventsExist => DOMAIN windows = {}

(* An ingest works on a log that is there. *)
LEMMA ExistsKept ==
  ASSUME AloneInv, ReadBack, NEW p \in Proc, Step(p)
  PROVE  /\ eventsExist => eventsExist'
         /\ pc'[p] \in Ingesting \/ (pc'[p] \in Opening /\ cmd'[p] \in {"init", "ingest"}) => eventsExist'
<1>1. eventsExist => eventsExist'
  BY WhatChanges DEF CreateLog, AppendEvents, TearAppend
<1>2. SUFFICES ASSUME pc'[p] \in Ingesting \/ (pc'[p] \in Opening /\ cmd'[p] \in {"init", "ingest"})
               PROVE  eventsExist'
  BY <1>1
<1> USE DEF GoTo, Ingesting, Opening
<1>3. DOMAIN pc = Proc /\ DOMAIN cmd = Proc  BY DEF AloneInv, StoreInv, TypeOK
<1>4. CASE Begin(p)
  BY <1>2, <1>3, <1>4 DEF Begin, Start
<1>5. CASE CheckLog(p) \/ CreateLog(p)
  BY <1>2, <1>3, <1>5 DEF CheckLog, CreateLog, files
<1>6. CASE AppendEvents(p)
  BY <1>1, <1>6 DEF AppendEvents, ReadBack
<1>7. CASE ManifestWindows(p) \/ ManifestEvents(p) \/ OpenManifest(p) \/ CloseManifest(p)
  <2>1. cmd' = cmd
    BY <1>7 DEF ManifestWindows, ManifestEvents, OpenManifest, CloseManifest, Fail, End, Reset
  <2>2. CASE pc'[p] \in Opening
    <3>1. pc[p] \in Opening
      BY <1>3, <1>7, <2>2 DEF ManifestWindows, ManifestEvents, OpenManifest, CloseManifest, Fail, End, Reset
    <3>2. QED  BY <1>1, <1>2, <2>1, <2>2, <3>1 DEF ReadBack
  <2>3. CASE pc'[p] \notin Opening
    <3>1. pc[p] \in Ingesting \/ (pc[p] \in Opening /\ cmd[p] = "ingest")
      BY <1>2, <1>3, <1>7, <2>3 DEF ManifestWindows, ManifestEvents, OpenManifest, CloseManifest, Fail, End, Reset
    <3>2. QED  BY <1>1, <3>1 DEF ReadBack
  <2>4. QED  BY <2>2, <2>3
<1>8. CASE ReadSequence(p) \/ ReadOffset(p) \/ TruncateWindow(p) \/ FillWindow(p) \/ WriteLatest(p)
  <2>1. pc[p] \in Ingesting
    BY <1>8 DEF ReadSequence, ReadOffset, TruncateWindow, FillWindow, WriteLatest
  <2>2. QED  BY <1>1, <2>1 DEF ReadBack
<1>9. CASE ListWindows(p) \/ ExportEvents(p) \/ ExportWindows(p)
  BY <1>2, <1>3, <1>9 DEF ListWindows, ExportEvents, ExportWindows, Fail, End, Reset
<1>10. CASE SelectWindow(p) \/ SelectEvents(p) \/ Crash(p) \/ TearAppend(p)
  BY <1>2, <1>3, <1>10 DEF SelectWindow, SelectEvents, Crash, TearAppend, Fail, End, Reset
<1>11. QED  BY <1>4, <1>5, <1>6, <1>7, <1>8, <1>9, <1>10 DEF Step, Work

(* Every step of the only process keeps what it has read back true. *)
LEMMA ReadBackPreserved ==
  ASSUME OneProcess, AloneInv, ReadBack, [Next]_vars
  PROVE  ReadBack'
<1>1. CASE UNCHANGED vars
  BY <1>1 DEF vars, files, local, ReadBack, WindowsReadable, LogReadable
<1>2. ASSUME NEW p \in Proc, Step(p) PROVE ReadBack'
  <2>1. \A q \in Proc : q = p  BY DEF OneProcess
  <2>2. CASE pc'[p] = "openEvents"
    <3>1. ManifestWindows(p) /\ WindowsReadable  BY <1>2, <2>2, HowReached DEF AloneInv, StoreInv
    <3>2. windows' = windows  BY <3>1 DEF ManifestWindows, Fail, files
    <3>3. WindowsReadable'  BY <3>1, <3>2 DEF WindowsReadable
    <3>4. QED  BY <1>2, <2>1, <2>2, <3>2, <3>3, ExistsKept DEF ReadBack
  <2>3. CASE pc'[p] = "closeEvents"
    <3>1. ManifestWindows(p) /\ WindowsReadable  BY <1>2, <2>3, HowReached DEF AloneInv, StoreInv
    <3>2. windows' = windows  BY <3>1 DEF ManifestWindows, Fail, files
    <3>3. WindowsReadable'  BY <3>1, <3>2 DEF WindowsReadable
    <3>4. QED  BY <1>2, <2>1, <2>3, <3>2, <3>3, ExistsKept DEF ReadBack
  <2>4. CASE pc'[p] \in {"openManifest", "closeManifest", "sequence", "offset", "append"}
    <3>1. \/ ManifestEvents(p) /\ pc[p] \in {"openEvents", "closeEvents"} /\ LogReadable
          \/ OpenManifest(p) /\ pc[p] = "openManifest"
          \/ ReadSequence(p) /\ pc[p] = "sequence"
          \/ ReadOffset(p) /\ pc[p] = "offset"
      BY <1>2, <2>4, HowReached DEF AloneInv, StoreInv, OpenManifest, ReadSequence, ReadOffset
    <3>2. windows' = windows /\ events' = events
      BY <3>1 DEF ManifestEvents, OpenManifest, WriteManifest, ReadSequence, ReadOffset, Fail, files
    <3>3. WindowsReadable /\ LogReadable  BY <3>1 DEF ReadBack
    <3>4. WindowsReadable' /\ LogReadable'  BY <3>2, <3>3 DEF WindowsReadable, LogReadable
    <3>5. QED  BY <1>2, <2>1, <3>2, <3>4, ExistsKept DEF ReadBack
  <2>5. CASE pc'[p] \notin {"openEvents", "openManifest", "sequence", "offset", "append",
                            "closeEvents", "closeManifest"}
    <3>1. ~eventsExist' => DOMAIN windows' = {}
      <4>1. SUFFICES ASSUME ~eventsExist' PROVE DOMAIN windows' = {}  OBVIOUS
      <4>2. ~eventsExist  BY <1>2, <4>1, ExistsKept
      <4>3. ~TruncateWindow(p) /\ ~FillWindow(p)
        BY <4>2 DEF TruncateWindow, FillWindow, Ingesting, ReadBack
      <4>4. QED  BY <1>2, <4>2, <4>3, WhatChanges DEF ReadBack
    <3>2. QED  BY <1>2, <2>1, <2>5, <3>1, ExistsKept DEF ReadBack
  <2>6. QED  BY <2>2, <2>3, <2>4, <2>5
<1>3. QED  BY <1>1, <1>2 DEF Next, Step

(* A store with an unreadable file is frozen, but for the ingest that made *)
(* it so: the only process reads every file back before it writes one.     *)
THEOREM DamageIsFrozen ==
  ASSUME OneProcess
  PROVE  Spec => DamagedStoreFrozen
<1>1. Init => ReadBack
  <2> SUFFICES ASSUME Init PROVE ReadBack  OBVIOUS
  <2>1. DOMAIN windows = {} /\ \A p \in Proc : pc[p] = "idle"  BY DEF Init
  <2>2. QED  BY <2>1 DEF ReadBack, Ingesting, Opening
<1>2. AloneInv /\ ReadBack /\ [Next]_vars => ReadBack'  BY ReadBackPreserved
<1>3. ASSUME AloneInv, ReadBack, [Next]_vars
      PROVE  [Damaged /\ (\A p \in Proc : pc[p] \notin {"truncate", "fill", "latest"}) => UNCHANGED files]_vars
  <2>1. SUFFICES ASSUME NEW p \in Proc, Step(p), Damaged, pc[p] \notin {"truncate", "fill", "latest"}
                 PROVE  UNCHANGED files
    BY <1>3 DEF Next, Step
  <2>2. ~CreateLog(p)
    <3>1. SUFFICES ASSUME pc[p] = "create" PROVE FALSE  BY DEF CreateLog
    <3>2. ~eventsExist /\ events = <<>>  BY <1>3, <3>1 DEF AloneInv, Creation
    <3>3. DOMAIN windows = {}  BY <1>3, <3>2 DEF ReadBack
    <3>4. QED  BY <2>1, <3>2, <3>3 DEF Damaged, LogReadable, WindowsReadable
  <2>3. ~AppendEvents(p) /\ ~TearAppend(p) /\ ~OpenManifest(p) /\ ~CloseManifest(p)
    BY <1>3, <2>1 DEF ReadBack, Damaged, AppendEvents, TearAppend, OpenManifest, CloseManifest
  <2>4. ~TruncateWindow(p) /\ ~FillWindow(p) /\ ~WriteLatest(p)
    BY <2>1 DEF TruncateWindow, FillWindow, WriteLatest
  <2>5. CASE Begin(p) \/ CheckLog(p) \/ ManifestWindows(p) \/ ManifestEvents(p)
             \/ ReadSequence(p) \/ ReadOffset(p) \/ Crash(p)
    BY <2>5 DEF Begin, Start, CheckLog, ManifestWindows, ManifestEvents, ReadSequence, ReadOffset, Crash, Fail
  <2>6. CASE ListWindows(p) \/ ExportEvents(p) \/ ExportWindows(p) \/ SelectWindow(p) \/ SelectEvents(p)
    BY <2>6 DEF ListWindows, ExportEvents, ExportWindows, SelectWindow, SelectEvents, Fail
  <2>7. QED  BY <2>1, <2>2, <2>3, <2>4, <2>5, <2>6 DEF Step, Work
<1>4. QED  BY <1>1, <1>2, <1>3, AloneAlways, PTL DEF Spec, DamagedStoreFrozen

-----------------------------------------------------------------------------
(* What a single process states in the manifest.                           *)

Present ==
  [event_count |-> Len(events),
   window_count |-> Cardinality(DOMAIN windows),
   latest_window |-> IF DOMAIN windows = {} THEN None ELSE LastName(DOMAIN windows)]

Newest == DOMAIN windows # {} /\ latest = windows[Cardinality(DOMAIN windows) - 1]

Current ==
  \A p \in Proc :
    /\ pc[p] \in {"openEvents", "openManifest", "closeEvents", "closeManifest"} =>
         names[p] = DOMAIN windows
    /\ pc[p] \in {"openManifest", "closeManifest"} => count[p] = Len(events)
    /\ pc[p] = "latest" =>
         /\ seq[p] \in DOMAIN windows /\ windows[seq[p]] = IndexOf(p)
         /\ \A k \in DOMAIN windows : k <= seq[p]
    /\ pc[p] \in {"closeWindows", "closeEvents", "closeManifest"} => Newest
    /\ pc[p] \in {"listWindows", "exportEvents", "exportWindows"} => manifest = Present
    /\ pc[p] \in {"selectWindow", "selectEvents"} /\ cmd[p] = "export" => manifest = Present
    /\ out[p] = "ok" /\ cmd[p] # "observe" => manifest = Present /\ (cmd[p] = "ingest" => Newest)

(* What was true of the files stays so while they are left alone. *)
LEMMA PresentStays ==
  /\ UNCHANGED <<events, windows>> => Present' = Present
  /\ UNCHANGED <<latest, windows>> => Newest' = Newest
  /\ \A p \in Proc : UNCHANGED <<seq, offset, batch>> => IndexOf(p)' = IndexOf(p)
BY DEF Present, Newest, IndexOf, EventOf

(* Every step of the only process keeps the manifest current. *)
LEMMA CurrentPreserved ==
  ASSUME OneProcess, AloneInv, ReadBack, Current, [Next]_vars
  PROVE  Current'
<1> DEFINE Fine(p) ==
      /\ pc'[p] \in {"openEvents", "openManifest", "closeEvents", "closeManifest"} =>
           names'[p] = DOMAIN windows'
      /\ pc'[p] \in {"openManifest", "closeManifest"} => count'[p] = Len(events')
      /\ pc'[p] = "latest" =>
           /\ seq'[p] \in DOMAIN windows' /\ windows'[seq'[p]] = IndexOf(p)'
           /\ \A k \in DOMAIN windows' : k <= seq'[p]
      /\ pc'[p] \in {"closeWindows", "closeEvents", "closeManifest"} => Newest'
      /\ pc'[p] \in {"listWindows", "exportEvents", "exportWindows"} => manifest' = Present'
      /\ pc'[p] \in {"selectWindow", "selectEvents"} /\ cmd'[p] = "export" => manifest' = Present'
      /\ out'[p] = "ok" /\ cmd'[p] # "observe" => manifest' = Present' /\ (cmd'[p] = "ingest" => Newest')
<1>1. CASE UNCHANGED vars
  <2>1. /\ events' = events /\ windows' = windows /\ latest' = latest /\ manifest' = manifest
        /\ pc' = pc /\ cmd' = cmd /\ names' = names /\ count' = count /\ seq' = seq
        /\ offset' = offset /\ batch' = batch /\ out' = out
    BY <1>1 DEF vars, files, local
  <2>2. Present' = Present /\ Newest' = Newest /\ \A p \in Proc : IndexOf(p)' = IndexOf(p)
    BY <2>1, PresentStays
  <2>3. QED  BY <2>1, <2>2 DEF Current
<1>2. ASSUME NEW p \in Proc, Step(p) PROVE Fine(p)
  <2> USE DEF GoTo
  <2>0. /\ DOMAIN pc = Proc /\ DOMAIN names = Proc /\ DOMAIN count = Proc /\ DOMAIN seq = Proc
        /\ DOMAIN out = Proc /\ DOMAIN cmd = Proc
        /\ None \notin {"ok", "failed", "crashed"}
    BY StoreAssumption DEF AloneInv, StoreInv, TypeOK
  <2>1. pc[p] # "idle" => out[p] # "ok"  BY <2>0 DEF AloneInv, Reporting
  <2>2. CASE pc'[p] = "idle" /\ out'[p] # "ok"  BY <2>2
  <2>3. CASE Begin(p)
    <3>1. pc'[p] \in {"exists", "openWindows"} \/ (pc'[p] = "selectWindow" /\ cmd'[p] = "observe")
      BY <2>0, <2>3 DEF Begin, Start
    <3>2. out'[p] # "ok"  BY <2>0, <2>3 DEF Begin, Start
    <3>3. QED  BY <3>1, <3>2
  <2>4. CASE CheckLog(p) \/ CreateLog(p) \/ AppendEvents(p) \/ TruncateWindow(p)
    <3>1. pc'[p] \in {"openWindows", "create", "truncate", "fill"}
      BY <2>0, <2>4 DEF CheckLog, CreateLog, AppendEvents, TruncateWindow
    <3>2. out'[p] # "ok"  BY <2>0, <2>1, <2>4 DEF CheckLog, CreateLog, AppendEvents, TruncateWindow
    <3>3. QED  BY <3>1, <3>2
  <2>5. CASE pc'[p] # "idle" /\ ManifestWindows(p)
    <3>1. /\ names'[p] = DOMAIN windows /\ windows' = windows /\ latest' = latest /\ out' = out
          /\ \/ pc[p] = "openWindows" /\ pc'[p] = "openEvents"
             \/ pc[p] = "closeWindows" /\ pc'[p] = "closeEvents"
      BY <2>0, <2>5 DEF ManifestWindows, Fail, End, Reset, files
    <3>2. Newest' = Newest  BY <3>1, PresentStays
    <3>3. QED  BY <2>1, <3>1, <3>2 DEF Current
  <2>6. CASE pc'[p] # "idle" /\ ManifestEvents(p)
    <3>1. /\ count'[p] = Len(events) /\ names' = names /\ windows' = windows /\ events' = events
          /\ latest' = latest /\ out' = out
          /\ \/ pc[p] = "openEvents" /\ pc'[p] = "openManifest"
             \/ pc[p] = "closeEvents" /\ pc'[p] = "closeManifest"
      BY <2>0, <2>6 DEF ManifestEvents, Fail, End, Reset, files
    <3>2. Newest' = Newest  BY <3>1, PresentStays
    <3>3. QED  BY <2>1, <3>1, <3>2 DEF Current
  <2>7. CASE OpenManifest(p) \/ CloseManifest(p)
    <3>1. /\ pc[p] \in {"openManifest", "closeManifest"} /\ windows' = windows /\ events' = events
          /\ latest' = latest /\ manifest' = ManifestOf(p) /\ cmd' = cmd
      BY <2>7 DEF OpenManifest, CloseManifest, WriteManifest, End, Reset
    <3>2. names[p] = DOMAIN windows /\ count[p] = Len(events)  BY <3>1 DEF Current
    <3>3. manifest' = Present'
      <4>1. ManifestOf(p) = Present  BY <3>2 DEF ManifestOf, Present
      <4>2. QED  BY <3>1, <4>1, PresentStays
    <3>4. CASE OpenManifest(p)
      <4>1. /\ pc'[p] \in {"idle", "sequence", "listWindows", "exportEvents"}
            /\ pc'[p] # "idle" => out' = out
            /\ pc'[p] = "idle" => cmd[p] = "init"
        BY <2>0, <3>4 DEF OpenManifest, End, Reset
      <4>2. QED  BY <3>1, <3>3, <4>1, <2>1
    <3>5. CASE CloseManifest(p)
      <4>1. pc[p] = "closeManifest" /\ pc'[p] = "idle"
        BY <2>0, <3>5 DEF CloseManifest, End, Reset
      <4>2. Newest /\ Newest' = Newest  BY <3>1, <4>1, PresentStays DEF Current
      <4>3. QED  BY <3>3, <4>1, <4>2
    <3>6. QED  BY <2>7, <3>4, <3>5
  <2>8. CASE pc'[p] # "idle" /\ (ReadSequence(p) \/ ReadOffset(p))
    <3>1. pc'[p] \in {"offset", "append"} /\ out' = out /\ pc[p] # "idle"
      BY <2>0, <2>8 DEF ReadSequence, ReadOffset, Fail, End, Reset
    <3>2. QED  BY <2>1, <3>1
  <2>9. CASE FillWindow(p)
    <3>1. /\ pc[p] = "fill" /\ pc'[p] = "latest" /\ seq' = seq /\ offset' = offset /\ batch' = batch
          /\ out' = out
      BY <2>0, <2>9 DEF FillWindow
    <3>2. /\ windows[seq[p]] = Empty /\ seq[p] \in DOMAIN windows
          /\ \A k \in DOMAIN windows : k <= seq[p]
      BY <3>1 DEF AloneInv, NewWindow, StoreInv, Numbering
    <3>3. windows' = [windows EXCEPT ![seq[p]] = IndexOf(p)]  BY <2>9, <3>2 DEF FillWindow
    <3>4. IndexOf(p)' = IndexOf(p)  BY <3>1, PresentStays
    <3>5. QED  BY <2>1, <3>1, <3>2, <3>3, <3>4
  <2>10. CASE WriteLatest(p)
    <3>1. /\ pc[p] = "latest" /\ pc'[p] = "closeWindows" /\ windows' = windows /\ out' = out
          /\ latest' = IndexOf(p)
      BY <2>0, <2>10 DEF WriteLatest
    <3>2. seq[p] \in DOMAIN windows /\ windows[seq[p]] = IndexOf(p) /\ \A k \in DOMAIN windows : k <= seq[p]
      BY <3>1 DEF Current
    <3>3. seq[p] = Cardinality(DOMAIN windows) - 1
      <4>1. PICK n \in Nat : n = Cardinality(DOMAIN windows) /\ DOMAIN windows = 0 .. n - 1
        BY NumberedSets DEF AloneInv, StoreInv, Numbering
      <4>2. seq[p] \in 0 .. n - 1  BY <3>2, <4>1
      <4>3. n - 1 \in DOMAIN windows
        <5>1. n - 1 \in 0 .. n - 1  BY <4>2
        <5>2. QED  BY <4>1, <5>1
      <4>4. n - 1 <= seq[p]  BY <3>2, <4>3
      <4>5. QED  BY <4>1, <4>2, <4>4
    <3>4. Newest'  BY <3>1, <3>2, <3>3 DEF Newest
    <3>5. QED  BY <2>1, <3>1, <3>4
  <2>11. CASE ListWindows(p) \/ ExportEvents(p) \/ ExportWindows(p)
    <3>1. /\ pc[p] \in {"listWindows", "exportEvents", "exportWindows"}
          /\ windows' = windows /\ events' = events /\ manifest' = manifest /\ cmd' = cmd
          /\ pc'[p] \in {"idle", "exportWindows", "selectWindow"}
      BY <2>0, <2>11 DEF ListWindows, ExportEvents, ExportWindows, Fail, End, Reset, files
    <3>2. manifest' = Present'  BY <3>1, PresentStays DEF Current
    <3>3. cmd[p] \in {"list", "export"}  BY <3>1 DEF AloneInv, Commanded
    <3>4. QED  BY <3>1, <3>2, <3>3
  <2>12. CASE SelectWindow(p) \/ SelectEvents(p)
    <3>1. /\ pc[p] \in {"selectWindow", "selectEvents"}
          /\ windows' = windows /\ events' = events /\ manifest' = manifest /\ cmd' = cmd
          /\ pc'[p] \in {"idle", "selectEvents"}
      BY <2>0, <2>12 DEF SelectWindow, SelectEvents, Fail, End, Reset, files
    <3>2. cmd[p] = "export" => manifest' = Present'  BY <3>1, PresentStays DEF Current
    <3>3. cmd[p] \in {"observe", "export"}  BY <3>1 DEF AloneInv, Commanded
    <3>4. QED  BY <3>1, <3>2, <3>3
  <2>13. CASE Crash(p) \/ TearAppend(p)
    BY <2>0, <2>13 DEF Crash, TearAppend, Reset
  <2>14. CASE pc'[p] = "idle" /\ (ManifestWindows(p) \/ ManifestEvents(p) \/ ReadSequence(p) \/ ReadOffset(p))
    BY <2>0, <2>14 DEF ManifestWindows, ManifestEvents, ReadSequence, ReadOffset, Fail, End, Reset
  <2>15. QED
    BY <1>2, <2>3, <2>4, <2>5, <2>6, <2>7, <2>8, <2>9, <2>10, <2>11, <2>12, <2>13, <2>14 DEF Step, Work
<1>3. ASSUME NEW p \in Proc, Step(p), NEW q \in Proc PROVE Fine(q)
  <2>1. q = p  BY DEF OneProcess
  <2>2. QED  BY <1>2, <1>3, <2>1
<1> HIDE DEF Fine
<1>4. CASE \E p \in Proc : Step(p)
  <2>1. \A q \in Proc : Fine(q)  BY <1>3, <1>4
  <2>2. QED  BY <2>1 DEF Fine, Current
<1>5. QED  BY <1>1, <1>4 DEF Next, Step

(* When a command has succeeded the manifest states the store as it is,    *)
(* also after crashes, and the window it calls the latest, the one that    *)
(* --window latest selects and the one in latest.json are all the newest,  *)
(* as long as padded file names sort by number.                            *)
THEOREM ManifestAlwaysFresh ==
  ASSUME OneProcess
  PROVE  Spec => []ManifestFresh
<1>1. Init => ReadBack /\ Current
  <2> SUFFICES ASSUME Init PROVE ReadBack /\ Current  OBVIOUS
  <2>1. DOMAIN windows = {} /\ \A p \in Proc : pc[p] = "idle" /\ out[p] = None  BY DEF Init
  <2>2. ReadBack  BY <2>1 DEF ReadBack, Ingesting, Opening
  <2>3. Current  BY <2>1, StoreAssumption DEF Current
  <2>4. QED  BY <2>2, <2>3
<1>2. AloneInv /\ ReadBack /\ Current /\ [Next]_vars => ReadBack' /\ Current'
  BY ReadBackPreserved, CurrentPreserved
<1>3. ASSUME AloneInv, Current PROVE ManifestFresh
  <2>1. PICK n \in Nat : n = Cardinality(DOMAIN windows) /\ DOMAIN windows = 0 .. n - 1
    BY <1>3, NumberedSets DEF AloneInv, StoreInv, Numbering
  <2>2. ASSUME NEW p \in Proc, out[p] = "ok", cmd[p] # "observe"
        PROVE  /\ manifest.event_count = Len(events) /\ manifest.window_count = n
               /\ n = 0 => manifest.latest_window = None
               /\ n \in 1 .. PadLimit =>
                    /\ manifest.latest_window = n - 1 /\ Chosen("latest", DOMAIN windows) = n - 1
                    /\ cmd[p] = "ingest" => latest = windows[n - 1]
    <3>1. manifest = Present /\ (cmd[p] = "ingest" => Newest)  BY <1>3, <2>2 DEF Current
    <3>2. /\ manifest.event_count = Len(events) /\ manifest.window_count = n
          /\ manifest.latest_window = IF DOMAIN windows = {} THEN None ELSE LastName(DOMAIN windows)
      BY <2>1, <3>1 DEF Present
    <3>3. n = 0 => manifest.latest_window = None
      <4>1. 0 .. 0 - 1 = {}  OBVIOUS
      <4>2. n = 0 => DOMAIN windows = {}  BY <2>1, <4>1
      <4>3. QED  BY <3>2, <4>2
    <3>4. ASSUME n \in 1 .. PadLimit
          PROVE  manifest.latest_window = n - 1 /\ Chosen("latest", DOMAIN windows) = n - 1
      <4>1. n # 0 /\ n <= PadLimit  BY <3>4, StoreAssumption
      <4>2. LastName(DOMAIN windows) = n - 1 /\ Chosen("latest", DOMAIN windows) = n - 1
        BY <2>1, <4>1, ChosenNewest
      <4>3. DOMAIN windows # {}
        <5>1. 0 \in 0 .. n - 1  BY <4>1
        <5>2. QED  BY <2>1, <5>1
      <4>4. QED  BY <3>2, <4>2, <4>3
    <3>5. cmd[p] = "ingest" => latest = windows[n - 1]  BY <2>1, <3>1 DEF Newest
    <3>6. QED  BY <3>2, <3>3, <3>4, <3>5
  <2>3. QED  BY <2>1, <2>2 DEF ManifestFresh
<1>4. QED  BY <1>1, <1>2, <1>3, AloneAlways, PTL DEF Spec
=============================================================================
