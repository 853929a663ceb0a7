-------------------------- MODULE AgentInboxProofs --------------------------
(***************************************************************************)
(* Theorems about AgentInbox: with any processes, messages, kills and      *)
(* envelope files given to it.                                             *)
(***************************************************************************)
EXTENDS AgentInbox, TLAPS

(* What each label says of the command under way. *)
Control ==
  \A p \in Proc :
    /\ pc[p] = "exists" => cmd[p] \in {"append", "send"}
    /\ pc[p] = "read" => cmd[p] \in {"append", "send", "receive"}
    /\ pc[p] \in {"truncate", "fill"} => cmd[p] \in {"init", "append", "send"} /\ draft[p] \in Inbox
    /\ pc[p] # "idle" => out[p] = None
    /\ pc[p] # "idle" /\ cmd[p] \in {"append", "send"} =>
         message[p] \in Envelope /\ message[p].sender \in {p, None}

Label == {"idle", "exists", "read", "truncate", "fill"}

IInv == TypeOK /\ Control

-----------------------------------------------------------------------------
(* Values the actions build. *)

LEMMA NewEnvelopeType ==
  ASSUME NEW p \in Proc, NEW text \in Text, NEW nonce \in Nonce \cup {None}
  PROVE  NewEnvelope(p, text, nonce) \in Envelope /\ NewEnvelope(p, text, nonce).sender = p
BY DEF NewEnvelope, Envelope

LEMMA DeliveryType ==
  ASSUME NEW ms \in Seq(Envelope), NEW seen, NEW prof, NEW ident
  PROVE  Delivery(ms, seen, prof, ident) \in Report
<1> DEFINE good == {i \in DOMAIN ms : Verified(ms[i], seen, prof, ident)}
<1>1. good \subseteq DOMAIN ms  OBVIOUS
<1> HIDE DEF good
<1>2. \A i \in good : ms[i] \in Envelope  BY <1>1
<1>3. {ms[i].nonce : i \in good} \ {None} \subseteq Nonce  BY <1>2 DEF Envelope
<1>4. Delivery(ms, seen, prof, ident)
        = [accepted |-> good = DOMAIN ms, messages |-> ms, consumed |-> {ms[i].nonce : i \in good} \ {None}]
  BY DEF Delivery, good
<1>5. QED  BY <1>3, <1>4 DEF Report

LEMMA FreshInboxType == FreshInbox \in Inbox /\ FreshInbox.messages = <<>>
BY DEF FreshInbox, Inbox

LEMMA FirstInboxType == [messages |-> <<>>, seen_nonces |-> SeenBefore] \in Inbox
<1>1. SeenBefore \in SUBSET Nonce  BY InboxAssumption
<1>2. <<>> \in Seq(Envelope)  OBVIOUS
<1>3. QED  BY <1>1, <1>2 DEF Inbox

LEMMA WithMessageType ==
  ASSUME NEW box \in Inbox, NEW m \in Envelope
  PROVE  WithMessage(box, m) \in Inbox /\ WithMessage(box, m).messages = Append(box.messages, m)
BY DEF WithMessage, Inbox

(* The command a process starts, with its arguments. *)
Started(p, c, m, prof, ident) ==
  /\ Start(p, c, m, prof, ident)
  /\ c \in Command /\ prof \in Profile /\ ident \in BOOLEAN
  /\ m \in Envelope \cup {None}
  /\ c \in {"append", "send"} => m \in Envelope /\ m.sender \in {p, None}

Starts(p) == \E c, m, prof, ident : Started(p, c, m, prof, ident)

LEMMA CommandsStart ==
  ASSUME NEW p \in Proc, InitInbox(p) \/ AppendFile(p) \/ SendMessage(p) \/ ReceiveInbox(p)
  PROVE  Starts(p)
<1>1. CASE InitInbox(p)
  <2>1. Started(p, "init", None, "development", FALSE)
    BY <1>1 DEF InitInbox, Started, Command, Profile
  <2>2. QED  BY <2>1 DEF Starts
<1>2. CASE AppendFile(p)
  <2>1. PICK m \in Foreign : Start(p, "append", m, "development", FALSE)  BY <1>2 DEF AppendFile
  <2>2. Started(p, "append", m, "development", FALSE)
    BY <2>1, InboxAssumption DEF Started, Command, Profile
  <2>3. QED  BY <2>2 DEF Starts
<1>3. CASE SendMessage(p)
  <2>1. PICK text \in Text, nonce \in Nonce \cup {None}, prof \in Profile, ident \in BOOLEAN :
               Start(p, "send", NewEnvelope(p, text, nonce), prof, ident)
    BY <1>3 DEF SendMessage
  <2>2. Started(p, "send", NewEnvelope(p, text, nonce), prof, ident)
    BY <2>1, NewEnvelopeType DEF Started, Command
  <2>3. QED  BY <2>2 DEF Starts
<1>4. CASE ReceiveInbox(p)
  <2>1. PICK prof \in Profile, ident \in BOOLEAN : Start(p, "receive", None, prof, ident)
    BY <1>4 DEF ReceiveInbox
  <2>2. Started(p, "receive", None, prof, ident)  BY <2>1 DEF Started, Command
  <2>3. QED  BY <2>2 DEF Starts
<1>5. QED  BY <1>1, <1>2, <1>3, <1>4

-----------------------------------------------------------------------------
(* How a command ends leaves the types and what labels say. *)
LEMMA EndKeeps ==
  ASSUME IInv, NEW p \in Proc, NEW result \in {"ok", "rejected", "failed", "crashed"},
         NEW rep \in Report \cup {None}, End(p, result, rep),
         file' \in Inbox \cup {None, Empty, Garbage}, faults' \in Nat, kept' \in Seq(Envelope), cut' \in BOOLEAN,
         UNCHANGED <<overlap, put>>
  PROVE  IInv'
<1>1. TypeOK'  BY DEF IInv, TypeOK, End, GoTo, control
<1>2. Control'  BY DEF IInv, TypeOK, Control, End, GoTo, control
<1>3. QED  BY <1>1, <1>2 DEF IInv

LEMMA SendReportType ==
  ASSUME IInv, NEW p \in Proc, message[p] \in Envelope
  PROVE  SendReport(p) \in Report
<1>1. PICK ms : ms = <<message[p]>>  OBVIOUS
<1>2. ms \in Seq(Envelope)  BY <1>1
<1>3. Delivery(ms, {}, profile[p], identity[p]) \in Report  BY <1>2, DeliveryType
<1>4. QED  BY <1>1, <1>3 DEF SendReport

(* An output is an end with a report, accepted or not. *)
LEMMA OutputEnds ==
  ASSUME NEW p, NEW rep, Output(p, rep)
  PROVE  \E result \in {"ok", "rejected", "failed", "crashed"} : End(p, result, rep)
BY DEF Output

(* A command sets out to write a message behind those of `box`. *)
SetsOut(p, box) ==
  /\ draft' = [draft EXCEPT ![p] = WithMessage(box, message[p])]
  /\ put' = [put EXCEPT ![p] = Append(@, message[p])]
  /\ GoTo(p, "truncate")
  /\ UNCHANGED <<file, control, report, out, writes, faults, kept, overlap, cut>>

LEMMA SetsOutKeeps ==
  ASSUME IInv, NEW p \in Proc, NEW box \in Inbox, SetsOut(p, box),
         cmd[p] \in {"append", "send"}, pc[p] # "idle"
  PROVE  IInv'
<1>1. message[p] \in Envelope /\ message[p].sender \in {p, None}  BY DEF IInv, Control
<1>2. PICK d \in Inbox : d = WithMessage(box, message[p])  BY <1>1, WithMessageType
<1>3. PICK q \in [Proc -> Seq(Envelope)] : q = [put EXCEPT ![p] = Append(@, message[p])]
  <2>1. put \in [Proc -> Seq(Envelope)]  BY DEF IInv, TypeOK
  <2>2. Append(put[p], message[p]) \in Seq(Envelope)  BY <1>1, <2>1
  <2>3. QED  BY <2>1, <2>2
<1>4. TypeOK'  BY <1>2, <1>3 DEF IInv, TypeOK, SetsOut, GoTo, control
<1>5. Control'  BY <1>1, <1>2 DEF IInv, TypeOK, Control, SetsOut, GoTo, control
<1>6. QED  BY <1>4, <1>5 DEF IInv

LEMMA StartKeeps ==
  ASSUME IInv, NEW p \in Proc, Starts(p)
  PROVE  IInv'
<1>1. PICK c, m, prof, ident : Started(p, c, m, prof, ident)  BY DEF Starts
<1>2. PICK d \in Inbox \cup {None} : /\ d = IF c = "init" THEN FreshInbox ELSE None
                                     /\ c = "init" => d \in Inbox
  BY FreshInboxType
<1>3. PICK l \in {"exists", "read", "truncate"} :
             /\ l = CASE c = "init" -> "truncate" [] c = "receive" -> "read" [] OTHER -> "exists"
             /\ l = "truncate" => c = "init"
             /\ l = "read" => c = "receive"
             /\ l = "exists" => c \in {"append", "send"}
  BY <1>1 DEF Started, Command
<1>4. /\ pc' = [pc EXCEPT ![p] = l] /\ cmd' = [cmd EXCEPT ![p] = c]
      /\ message' = [message EXCEPT ![p] = m] /\ draft' = [draft EXCEPT ![p] = d]
      /\ out' = [out EXCEPT ![p] = None]
  BY <1>1, <1>2, <1>3 DEF Started, Start, GoTo
<1>5. TypeOK'
  BY <1>1, <1>4 DEF IInv, TypeOK, Started, Start
<1>6. Control'
  BY <1>1, <1>2, <1>3, <1>4 DEF IInv, TypeOK, Control, Started
<1>7. QED  BY <1>5, <1>6 DEF IInv

LEMMA CheckKeeps ==
  ASSUME IInv, NEW p \in Proc, CheckExists(p)
  PROVE  IInv'
<1>1. cmd[p] \in {"append", "send"} /\ pc[p] # "idle"  BY DEF CheckExists, IInv, Control
<1>2. CASE file # None /\ GoTo(p, "read") /\ UNCHANGED <<control, draft, report, out, writes, put>>
  <2>1. TypeOK'  BY <1>2 DEF CheckExists, IInv, TypeOK, GoTo, control
  <2>2. Control'  BY <1>1, <1>2 DEF IInv, TypeOK, Control, GoTo, control
  <2>3. QED  BY <2>1, <2>2 DEF IInv
<1>3. CASE SetsOut(p, FreshInbox)
  BY <1>1, <1>3, FreshInboxType, SetsOutKeeps
<1>4. CASE Output(p, SendReport(p)) /\ UNCHANGED put
  <2>1. SendReport(p) \in Report  BY <1>1, SendReportType DEF IInv, Control
  <2>2. PICK result \in {"ok", "rejected", "failed", "crashed"} : End(p, result, SendReport(p))
    BY <1>4, OutputEnds
  <2>3. QED  BY <1>4, <2>1, <2>2, EndKeeps DEF CheckExists, IInv, TypeOK
<1>5. QED  BY <1>2, <1>3, <1>4 DEF CheckExists, SetsOut

LEMMA ReadKeeps ==
  ASSUME IInv, NEW p \in Proc, ReadInbox(p)
  PROVE  IInv'
<1>1. cmd[p] \in {"append", "send", "receive"} /\ pc[p] # "idle"  BY DEF ReadInbox, IInv, Control
<1>2. CASE file \in Inbox /\ Writes(p) /\ SetsOut(p, file)
  <2>1. cmd[p] \in {"append", "send"}  BY <1>2 DEF Writes
  <2>2. QED  BY <1>1, <1>2, <2>1, SetsOutKeeps
<1>3. ASSUME file \in Inbox, UNCHANGED <<file, faults, kept, overlap, cut, put>>,
             NEW rep, rep = IF cmd[p] = "send" THEN SendReport(p)
                            ELSE Delivery(file.messages, file.seen_nonces, profile[p], identity[p]),
             Output(p, rep)
      PROVE  IInv'
  <2>1. rep \in Report
    <3>1. CASE cmd[p] = "send"  BY <1>1, <1>3, <3>1, SendReportType DEF IInv, Control
    <3>2. CASE cmd[p] # "send"  BY <1>3, <3>2, DeliveryType DEF Inbox
    <3>3. QED  BY <3>1, <3>2
  <2>2. PICK result \in {"ok", "rejected", "failed", "crashed"} : End(p, result, rep)
    BY <1>3, OutputEnds
  <2>3. QED  BY <1>3, <2>1, <2>2, EndKeeps DEF IInv, TypeOK
<1>4. CASE Fail(p)
  BY <1>4, EndKeeps DEF Fail, IInv, TypeOK
<1>5. QED  BY <1>2, <1>3, <1>4 DEF ReadInbox, SetsOut

LEMMA TruncateKeeps ==
  ASSUME IInv, NEW p \in Proc, TruncateInbox(p)
  PROVE  IInv'
<1>1. TypeOK'  BY DEF TruncateInbox, IInv, TypeOK, GoTo, control
<1>2. Control'  BY DEF TruncateInbox, IInv, TypeOK, Control, GoTo, control
<1>3. QED  BY <1>1, <1>2 DEF IInv

LEMMA FillKeeps ==
  ASSUME IInv, NEW p \in Proc, FillInbox(p)
  PROVE  IInv'
<1>1. cmd[p] \in {"init", "append", "send"} /\ draft[p] \in Inbox /\ pc[p] # "idle"
  BY DEF FillInbox, IInv, Control
<1>2. file' \in Inbox \cup {None, Empty, Garbage}  BY <1>1 DEF FillInbox
<1>3. kept' \in Seq(Envelope)  BY <1>1 DEF FillInbox, IInv, TypeOK, Control
<1>4. PICK rep \in Report \cup {None} : End(p, "ok", rep)
  <2>1. CASE cmd[p] = "send"
    <3>1. SendReport(p) \in Report  BY <1>1, <2>1, SendReportType DEF IInv, Control
    <3>2. QED  BY <2>1, <3>1 DEF FillInbox
  <2>2. CASE cmd[p] # "send"  BY <2>2 DEF FillInbox
  <2>3. QED  BY <2>1, <2>2
<1>5. QED  BY <1>2, <1>3, <1>4, EndKeeps DEF FillInbox, IInv, TypeOK

LEMMA CrashKeeps ==
  ASSUME IInv, NEW p \in Proc, Crash(p)
  PROVE  IInv'
BY EndKeeps DEF Crash, IInv, TypeOK

LEMMA StepKeeps == IInv /\ [Next]_vars => IInv'
<1> SUFFICES ASSUME IInv, [Next]_vars PROVE IInv'  OBVIOUS
<1>1. CASE Next
  <2>1. PICK p \in Proc :
          \/ InitInbox(p) \/ AppendFile(p) \/ SendMessage(p) \/ ReceiveInbox(p)
          \/ CheckExists(p) \/ ReadInbox(p) \/ TruncateInbox(p) \/ FillInbox(p)
          \/ Crash(p)
    BY <1>1 DEF Next
  <2>2. QED
    BY <2>1, CommandsStart, StartKeeps, CheckKeeps, ReadKeeps, TruncateKeeps, FillKeeps, CrashKeeps
<1>2. CASE UNCHANGED vars
  BY <1>2 DEF vars, control, IInv, TypeOK, Control
<1>3. QED  BY <1>1, <1>2

LEMMA InitHolds == Init => IInv
<1> SUFFICES ASSUME Init PROVE IInv  OBVIOUS
<1>1. file \in Inbox \cup {None, Empty, Garbage}
  BY FirstInboxType DEF Init
<1>2. /\ pc \in [Proc -> Label] /\ cmd \in [Proc -> Command \cup {None}]
      /\ message \in [Proc -> Envelope \cup {None}] /\ profile \in [Proc -> Profile]
      /\ identity \in [Proc -> BOOLEAN] /\ draft \in [Proc -> Inbox \cup {None}]
  BY DEF Init, Profile, Label
<1>3. /\ report \in [Proc -> Report \cup {None}]
      /\ out \in [Proc -> {"ok", "rejected", "failed", "crashed", None}]
      /\ writes \in Nat /\ faults \in Nat
      /\ kept \in Seq(Envelope) /\ put \in [Proc -> Seq(Envelope)]
  BY DEF Init
<1>4. overlap \in BOOLEAN /\ cut \in BOOLEAN  BY Zenon DEF Init
<1>5. TypeOK  BY <1>1, <1>2, <1>3, <1>4 DEF TypeOK, Label
<1>6. Control  BY DEF Init, Control
<1>7. QED  BY <1>5, <1>6 DEF IInv

(* The inbox is only ever whole, absent, empty or overlaid; what a process *)
(* holds and reports has its type.                                         *)
THEOREM InboxTyped == Spec => []TypeOK
<1>1. IInv => TypeOK  BY DEF IInv
<1>2. QED  BY <1>1, InitHolds, StepKeeps, PTL DEF Spec

-----------------------------------------------------------------------------
(* A file that is no inbox. *)

(* Append and send fail on what they cannot read, and only without a file  *)
(* do they write one of their own: a broken file waits for an init.        *)
THEOREM BrokenInboxNeedsInit == Spec => OnlyInitRepairs
<1> DEFINE Broken == (\A p \in Proc : pc[p] \notin {"truncate", "fill"}) /\ file \in {Empty, Garbage}
           ByInit == \A p \in Proc : pc'[p] = "truncate" => cmd'[p] = "init"
<1>1. IInv /\ [Next]_vars => [Broken => ByInit]_vars
  <2> SUFFICES ASSUME IInv, Next, Broken PROVE ByInit  OBVIOUS
  <2>1. pc \in [Proc -> Label] /\ cmd \in [Proc -> Command \cup {None}]  BY DEF IInv, TypeOK, Label
  <2>2. file \notin Inbox /\ file # None  BY InboxAssumption
  <2>3. PICK p \in Proc :
          \/ InitInbox(p) \/ AppendFile(p) \/ SendMessage(p) \/ ReceiveInbox(p)
          \/ CheckExists(p) \/ ReadInbox(p) \/ TruncateInbox(p) \/ FillInbox(p)
          \/ Crash(p)
    BY DEF Next
  <2>4. CASE InitInbox(p) \/ AppendFile(p) \/ SendMessage(p) \/ ReceiveInbox(p)
    <3>1. PICK c, m, prof, ident : Started(p, c, m, prof, ident)  BY <2>4, CommandsStart DEF Starts
    <3>2. QED  BY <2>1, <3>1 DEF Started, Start, GoTo, Command
  <2>5. CASE CheckExists(p)  BY <2>1, <2>2, <2>5 DEF CheckExists, GoTo
  <2>6. CASE ReadInbox(p)  BY <2>1, <2>2, <2>6 DEF ReadInbox, Fail, End, GoTo
  <2>7. CASE TruncateInbox(p) \/ FillInbox(p)  BY <2>7 DEF TruncateInbox, FillInbox
  <2>8. CASE Crash(p)  BY <2>1, <2>8 DEF Crash, End, GoTo
  <2>9. QED  BY <2>3, <2>4, <2>5, <2>6, <2>7, <2>8
<1>2. QED  BY <1>1, InitHolds, StepKeeps, PTL DEF Spec, OnlyInitRepairs

-----------------------------------------------------------------------------
(* While commands that may write take turns. *)

Writing(p) == pc[p] \in {"truncate", "fill"}
AtWork(p)  == pc[p] # "idle" /\ cmd[p] # "receive"

(* The file is what was acknowledged, or the empty file of a write under   *)
(* way or killed; what the command at work is going to write continues     *)
(* that.                                                                   *)
Kept ==
  TakeTurns =>
    /\ \A p, q \in Proc : AtWork(p) /\ AtWork(q) => p = q
    /\ file # Garbage
    /\ file = None => kept = <<>>
    /\ file \in Inbox => file.messages = kept
    /\ file = Empty => cut \/ \E p \in Proc : pc[p] = "fill"
    /\ \A p \in Proc : pc[p] = "fill" => file = Empty
    /\ \A p \in Proc : Writing(p) =>
         draft[p].messages = IF cmd[p] = "init" THEN <<>> ELSE Append(kept, message[p])

(* A command that ends, the file being left alone; if it was at its fill,  *)
(* it was cut.                                                             *)
LEMMA EndKept ==
  ASSUME IInv, Kept, NEW p \in Proc, NEW result, NEW rep, End(p, result, rep),
         UNCHANGED <<file, kept, overlap>>, cut \/ pc[p] = "fill" => cut'
  PROVE  Kept'
<1>1. /\ pc \in [Proc -> Label] /\ pc' = [pc EXCEPT ![p] = "idle"]
      /\ draft \in [Proc -> Inbox \cup {None}] /\ draft' = [draft EXCEPT ![p] = None]
      /\ UNCHANGED <<cmd, message>>
  BY DEF IInv, TypeOK, Label, End, GoTo, control
<1>2. pc'[p] = "idle" /\ \A q \in Proc \ {p} : pc'[q] = pc[q] /\ draft'[q] = draft[q]
  BY <1>1
<1>3. ~cut' => ~cut /\ pc[p] # "fill"  OBVIOUS
<1>4. \A q \in Proc : AtWork(q)' => AtWork(q)  BY <1>1, <1>2 DEF AtWork
<1>5. \A q \in Proc : Writing(q)' => Writing(q) /\ q # p  BY <1>2 DEF Writing
<1>6. (\E q \in Proc : pc[q] = "fill") /\ pc[p] # "fill" => \E q \in Proc : pc'[q] = "fill"
  BY <1>2
<1>7. QED  BY <1>1, <1>2, <1>3, <1>4, <1>5, <1>6 DEF Kept, TakeTurns

LEMMA StartKept ==
  ASSUME IInv, Kept, NEW p \in Proc, Starts(p)
  PROVE  Kept'
<1>1. PICK c, m, prof, ident : Started(p, c, m, prof, ident)  BY DEF Starts
<1>2. /\ pc' = [pc EXCEPT ![p] = CASE c = "init" -> "truncate" [] c = "receive" -> "read" [] OTHER -> "exists"]
      /\ cmd' = [cmd EXCEPT ![p] = c] /\ message' = [message EXCEPT ![p] = m]
      /\ draft' = [draft EXCEPT ![p] = IF c = "init" THEN FreshInbox ELSE None]
      /\ overlap' = \/ overlap
                    \/ c # "receive" /\ \E q \in Proc \ {p} : pc[q] # "idle" /\ cmd[q] # "receive"
      /\ pc[p] = "idle" /\ UNCHANGED <<file, kept, cut>>
  BY <1>1 DEF Started, Start, GoTo
<1>3. pc \in [Proc -> Label] /\ cmd \in [Proc -> Command \cup {None}]
      /\ message \in [Proc -> Envelope \cup {None}] /\ draft \in [Proc -> Inbox \cup {None}]
  BY DEF IInv, TypeOK, Label
<1>4. TakeTurns' => TakeTurns /\ (c = "receive" \/ \A q \in Proc \ {p} : ~AtWork(q))
  BY <1>2 DEF TakeTurns, AtWork
<1>5. c = "receive" => ~AtWork(p)'  BY <1>2, <1>3 DEF AtWork
<1>6. pc'[p] # "fill" /\ (pc'[p] = "truncate" => c = "init")  BY <1>2, <1>3
<1>7. \A q \in Proc \ {p} : pc'[q] = pc[q] /\ cmd'[q] = cmd[q] /\ message'[q] = message[q] /\ draft'[q] = draft[q]
  BY <1>2, <1>3
<1>8. c = "init" => cmd'[p] = "init" /\ draft'[p].messages = <<>>
  BY <1>2, <1>3, FreshInboxType
<1>9. \A q \in Proc \ {p} : AtWork(q)' = AtWork(q)  BY <1>7 DEF AtWork
<1>10. (\E q \in Proc : pc[q] = "fill") => \E q \in Proc : pc'[q] = "fill"  BY <1>2, <1>7
<1>11. TakeTurns' => \A q1, q2 \in Proc : AtWork(q1)' /\ AtWork(q2)' => q1 = q2
  BY <1>4, <1>5, <1>9 DEF Kept
<1>12. QED  BY <1>2, <1>4, <1>6, <1>7, <1>8, <1>10, <1>11 DEF Kept, Writing

LEMMA SetsOutKept ==
  ASSUME IInv, Kept, NEW p \in Proc, NEW box \in Inbox, SetsOut(p, box),
         cmd[p] \in {"append", "send"}, pc[p] \in {"exists", "read"}, TakeTurns => box.messages = kept
  PROVE  Kept'
<1>1. message[p] \in Envelope  BY DEF IInv, Control
<1>2. PICK d \in Inbox : d = WithMessage(box, message[p]) /\ d.messages = Append(box.messages, message[p])
  BY <1>1, WithMessageType
<1>3. /\ pc \in [Proc -> Label] /\ pc' = [pc EXCEPT ![p] = "truncate"]
      /\ draft \in [Proc -> Inbox \cup {None}] /\ draft' = [draft EXCEPT ![p] = d]
      /\ UNCHANGED <<file, cmd, message, kept, overlap, cut>>
  BY <1>2 DEF IInv, TypeOK, Label, SetsOut, GoTo, control
<1>4. \A q \in Proc : AtWork(q)' = AtWork(q)  BY <1>3 DEF AtWork
<1>5. (\E q \in Proc : pc[q] = "fill") => \E q \in Proc : pc'[q] = "fill"  BY <1>3
<1>6. draft'[p].messages = Append(box.messages, message[p])  BY <1>2, <1>3
<1>7. \A q \in Proc : Writing(q)' /\ q # p => Writing(q) /\ draft'[q] = draft[q]
  BY <1>3 DEF Writing
<1>8. pc'[p] = "truncate" /\ \A q \in Proc : pc'[q] = "fill" => pc[q] = "fill"  BY <1>3
<1>9. cmd[p] # "init"  OBVIOUS
<1>10. QED  BY <1>3, <1>4, <1>5, <1>6, <1>7, <1>8, <1>9 DEF Kept, TakeTurns

(* One process at most is at a write. *)
LEMMA OneAtAWrite ==
  ASSUME IInv, Kept, TakeTurns, NEW p \in Proc, NEW q \in Proc, Writing(p), Writing(q)
  PROVE  p = q
BY DEF IInv, Control, Kept, Writing, AtWork

LEMMA KeptHolds == IInv /\ Kept /\ [Next]_vars => Kept'
<1> SUFFICES ASSUME IInv, Kept, [Next]_vars PROVE Kept'  OBVIOUS
<1>1. CASE UNCHANGED vars
  BY <1>1 DEF vars, control, Kept, TakeTurns, AtWork, Writing
<1>2. ASSUME NEW p \in Proc, CheckExists(p) PROVE Kept'
  <2>1. cmd[p] \in {"append", "send"} /\ pc[p] = "exists"  BY <1>2 DEF CheckExists, IInv, Control
  <2>2. CASE file # None /\ GoTo(p, "read") /\ UNCHANGED <<file, faults, kept, overlap, cut, control, draft, report, out, writes, put>>
    <3>1. /\ pc \in [Proc -> Label] /\ pc' = [pc EXCEPT ![p] = "read"]
          /\ UNCHANGED <<file, kept, overlap, cut, cmd, message, draft>>
      BY <2>2 DEF IInv, TypeOK, Label, GoTo, control
    <3>2. \A q \in Proc : pc'[q] = pc[q] \/ (q = p /\ pc'[q] = "read")  BY <3>1
    <3>3. TakeTurns' = TakeTurns  BY <3>1 DEF TakeTurns
    <3>4. \A q \in Proc : AtWork(q)' = AtWork(q)  BY <2>1, <3>1, <3>2 DEF AtWork
    <3>5. \A q \in Proc : (pc'[q] = "fill") = (pc[q] = "fill") /\ Writing(q)' = Writing(q)
      BY <2>1, <3>2 DEF Writing
    <3>6. QED  BY <3>1, <3>3, <3>4, <3>5 DEF Kept
  <2>3. CASE file = None /\ SetsOut(p, FreshInbox)
    <3>1. TakeTurns => FreshInbox.messages = kept  BY <2>3, FreshInboxType DEF Kept
    <3>2. QED  BY <2>1, <2>3, <3>1, FreshInboxType, SetsOutKept
  <2>4. CASE Output(p, SendReport(p)) /\ UNCHANGED <<file, kept, overlap, cut>>
    BY <2>1, <2>4, OutputEnds, EndKept
  <2>5. QED  BY <1>2, <2>2, <2>3, <2>4 DEF CheckExists, SetsOut
<1>3. ASSUME NEW p \in Proc, ReadInbox(p) PROVE Kept'
  <2>1. cmd[p] \in {"append", "send", "receive"} /\ pc[p] = "read"  BY <1>3 DEF ReadInbox, IInv, Control
  <2>2. CASE file \in Inbox /\ Writes(p) /\ SetsOut(p, file)
    <3>1. cmd[p] \in {"append", "send"}  BY <2>2 DEF Writes
    <3>2. TakeTurns => file.messages = kept  BY <2>2 DEF Kept
    <3>3. QED  BY <2>1, <2>2, <3>1, <3>2, SetsOutKept
  <2>3. ASSUME NEW rep, Output(p, rep), UNCHANGED <<file, kept, overlap, cut>> PROVE Kept'
    BY <2>1, <2>3, OutputEnds, EndKept
  <2>4. CASE Fail(p)  BY <2>1, <2>4, EndKept DEF Fail
  <2>5. QED  BY <1>3, <2>2, <2>3, <2>4 DEF ReadInbox, SetsOut
<1>4. ASSUME NEW p \in Proc, TruncateInbox(p) PROVE Kept'
  <2>1. Writing(p) /\ pc[p] = "truncate" /\ pc \in [Proc -> Label]
    BY <1>4 DEF TruncateInbox, Writing, IInv, TypeOK, Label
  <2>2. TakeTurns => \A q \in Proc \ {p} : ~Writing(q)  BY <2>1, OneAtAWrite
  <2>3. /\ file' = Empty /\ pc' = [pc EXCEPT ![p] = "fill"]
        /\ UNCHANGED <<cmd, message, draft, kept, overlap, cut>>
    BY <1>4 DEF TruncateInbox, GoTo, control
  <2>4. Empty \notin Inbox /\ Empty # None /\ Empty # Garbage  BY InboxAssumption
  <2>5. pc'[p] = "fill" /\ \A q \in Proc \ {p} : pc'[q] = pc[q]  BY <2>1, <2>3
  <2>6. \A q \in Proc : AtWork(q)' = AtWork(q) /\ Writing(q)' = Writing(q)
    BY <2>1, <2>3, <2>5 DEF AtWork, Writing
  <2>7. TakeTurns' = TakeTurns  BY <2>3 DEF TakeTurns
  <2>8. QED  BY <2>2, <2>3, <2>4, <2>5, <2>6, <2>7 DEF Kept
<1>5. ASSUME NEW p \in Proc, FillInbox(p) PROVE Kept'
  <2>1. /\ Writing(p) /\ cmd[p] \in {"init", "append", "send"} /\ draft[p] \in Inbox
    BY <1>5 DEF FillInbox, Writing, IInv, Control
  <2>2. TakeTurns => \A q \in Proc \ {p} : ~Writing(q)  BY <2>1, OneAtAWrite
  <2>3. /\ kept' = IF cmd[p] = "init" THEN <<>> ELSE Append(kept, message[p])
        /\ pc' = [pc EXCEPT ![p] = "idle"]
        /\ UNCHANGED <<cmd, overlap>>
    BY <1>5 DEF FillInbox, End, GoTo, control
  <2>4. TakeTurns => file' = draft[p]  BY <1>5 DEF FillInbox, Kept
  <2>5. TakeTurns => file' \in Inbox /\ file'.messages = kept'
    BY <2>1, <2>3, <2>4 DEF Kept
  <2>6. file' \in Inbox => file' # Garbage /\ file' # None /\ file' # Empty  BY InboxAssumption
  <2>7. pc \in [Proc -> Label]  BY DEF IInv, TypeOK, Label
  <2>8. TakeTurns' => TakeTurns  BY <2>3 DEF TakeTurns
  <2>9. /\ TakeTurns => \A q \in Proc : pc'[q] \notin {"truncate", "fill"}
        /\ \A q \in Proc : pc'[q] # "idle" => pc[q] # "idle" /\ cmd'[q] = cmd[q]
    BY <2>2, <2>3, <2>7 DEF Writing
  <2>10. \A q \in Proc : AtWork(q)' => AtWork(q)  BY <2>9 DEF AtWork
  <2>11. QED  BY <2>3, <2>5, <2>6, <2>8, <2>9, <2>10 DEF Kept, Writing
<1>6. ASSUME NEW p \in Proc, Crash(p) PROVE Kept'
  BY <1>6, EndKept DEF Crash
<1>7. QED
  BY <1>1, <1>2, <1>3, <1>4, <1>5, <1>6, CommandsStart, StartKept DEF Next

LEMMA InitKept == Init => Kept
<1> SUFFICES ASSUME Init PROVE Kept  OBVIOUS
<1>1. PICK box \in Inbox : box = [messages |-> <<>>, seen_nonces |-> SeenBefore]  BY FirstInboxType
<1>2. box.messages = <<>>  BY <1>1
<1>3. file \in {None, box} /\ kept = <<>> /\ \A p \in Proc : pc[p] = "idle"  BY <1>1 DEF Init
<1>4. QED  BY <1>2, <1>3, InboxAssumption DEF Kept, Writing, AtWork

LEMMA Inductive == Spec => [](IInv /\ Kept)
BY InitHolds, InitKept, StepKeeps, KeptHolds, PTL DEF Spec

(* While no two commands that may write are ever under way together, the   *)
(* inbox holds exactly what was acknowledged since the last init that came *)
(* to its end, in order, whatever was killed outside a write; in a write,  *)
(* and after one killed between its two calls, it is empty.                *)
THEOREM NoMessageLost == Spec => []AcknowledgedKept
<1>1. IInv /\ Kept => AcknowledgedKept  BY DEF IInv, TypeOK, Kept, AcknowledgedKept
<1>2. QED  BY <1>1, Inductive, PTL

(* While they take turns, no receive accepts anything as long as a         *)
(* message with a wrong digest is in the inbox.                            *)
THEOREM BadMessageStopsDelivery == Spec => BadMessageBlocksReceive
<1> DEFINE Blocks == TakeTurns => \A p \in Proc :
             pc[p] = "read" /\ cmd[p] = "receive" /\ out'[p] = "ok" =>
               (\A i \in DOMAIN kept : kept[i].intact)
<1>1. IInv /\ Kept /\ [Next]_vars => [Blocks]_vars
  <2> SUFFICES ASSUME IInv, Kept, Next, TakeTurns, NEW p \in Proc,
                      pc[p] = "read", cmd[p] = "receive", out'[p] = "ok"
               PROVE  \A i \in DOMAIN kept : kept[i].intact
    OBVIOUS
  <2>1. out[p] = None /\ out[p] # "ok" /\ out \in [Proc -> {"ok", "rejected", "failed", "crashed", None}]
    BY InboxAssumption DEF IInv, TypeOK, Control
  <2>2. ~Writes(p)  BY DEF Writes
  <2>3. ReadInbox(p)
    <3>1. PICK q \in Proc :
            \/ InitInbox(q) \/ AppendFile(q) \/ SendMessage(q) \/ ReceiveInbox(q)
            \/ CheckExists(q) \/ ReadInbox(q) \/ TruncateInbox(q) \/ FillInbox(q)
            \/ Crash(q)
      BY DEF Next
    <3>2. CASE InitInbox(q) \/ AppendFile(q) \/ SendMessage(q) \/ ReceiveInbox(q)
      <4>1. PICK c, m, prof, ident : Started(q, c, m, prof, ident)  BY <3>2, CommandsStart DEF Starts
      <4>2. pc[q] = "idle" /\ out' = [out EXCEPT ![q] = None]  BY <4>1 DEF Started, Start
      <4>3. QED  BY <2>1, <4>2
    <3>3. CASE CheckExists(q)
      BY <2>1, <3>3 DEF CheckExists, Output, End
    <3>4. CASE ReadInbox(q)
      BY <2>1, <3>4 DEF ReadInbox, Output, Fail, End
    <3>5. CASE TruncateInbox(q) \/ FillInbox(q) \/ Crash(q)
      BY <2>1, <3>5 DEF TruncateInbox, FillInbox, Crash, End
    <3>6. QED  BY <3>1, <3>2, <3>3, <3>4, <3>5
  <2>4. PICK rep : rep = Delivery(file.messages, file.seen_nonces, profile[p], identity[p])  OBVIOUS
  <2>5. file \in Inbox /\ Output(p, rep)
    BY <2>1, <2>2, <2>3, <2>4 DEF ReadInbox, Fail, End
  <2>6. rep.accepted  BY <2>1, <2>5 DEF Output, End
  <2>7. \A i \in DOMAIN file.messages : file.messages[i].intact
    BY <2>4, <2>6 DEF Delivery, Verified
  <2>8. QED  BY <2>5, <2>7 DEF Kept
<1>2. QED  BY <1>1, Inductive, PTL DEF Spec, BadMessageBlocksReceive

-----------------------------------------------------------------------------
(* Any number of writers: the order of what one of them wrote. *)

(* A longer list of what was written holds the shorter one's order. *)
LEMMA OrderStays ==
  ASSUME NEW S, NEW ms \in Seq(S), NEW p, NEW sent \in Seq(S), NEW m \in S, InOrder(ms, p, sent)
  PROVE  InOrder(ms, p, Append(sent, m))
<1> DEFINE mine == {i \in DOMAIN ms : ms[i].sender = p}
<1>1. PICK e \in [mine -> DOMAIN sent] : /\ \A i \in mine : ms[i] = sent[e[i]]
                                         /\ \A i, j \in mine : i < j => e[i] < e[j]
  BY DEF InOrder
<1>2. PICK longer : longer = Append(sent, m)  OBVIOUS
<1>3. /\ DOMAIN sent \subseteq DOMAIN longer
      /\ \A k \in DOMAIN sent : longer[k] = sent[k]
  BY <1>2
<1> HIDE DEF mine
<1>4. e \in [mine -> DOMAIN longer] /\ \A i \in mine : ms[i] = longer[e[i]]  BY <1>1, <1>3
<1>5. QED  BY <1>1, <1>2, <1>4 DEF InOrder, mine

(* A message behind the others: either of another author, ... *)
LEMMA OtherAuthor ==
  ASSUME NEW S, NEW ms \in Seq(S), NEW m \in S, NEW p, m.sender # p, NEW sent, InOrder(ms, p, sent)
  PROVE  InOrder(Append(ms, m), p, sent)
<1>1. PICK more : more = Append(ms, m)  OBVIOUS
<1>2. /\ DOMAIN more = DOMAIN ms \cup {Len(ms) + 1}
      /\ \A i \in DOMAIN ms : more[i] = ms[i]
      /\ more[Len(ms) + 1] = m
  BY <1>1
<1> DEFINE mine == {i \in DOMAIN ms : ms[i].sender = p}
           now == {i \in DOMAIN more : more[i].sender = p}
<1>3. now = mine  BY <1>2
<1>4. PICK e \in [mine -> DOMAIN sent] : /\ \A i \in mine : ms[i] = sent[e[i]]
                                         /\ \A i, j \in mine : i < j => e[i] < e[j]
  BY DEF InOrder
<1>5. \A i \in mine : more[i] = ms[i]  BY <1>2
<1> HIDE DEF mine, now
<1>6. /\ e \in [now -> DOMAIN sent] /\ \A i \in now : more[i] = sent[e[i]]
      /\ \A i, j \in now : i < j => e[i] < e[j]
  BY <1>3, <1>4, <1>5
<1>7. InOrder(more, p, sent)  BY <1>6 DEF InOrder, now
<1>8. QED  BY <1>1, <1>7

(* ... or of the process that sets out to write it. *)
LEMMA OwnMessage ==
  ASSUME NEW S, NEW ms \in Seq(S), NEW m \in S, NEW p, NEW sent \in Seq(S), InOrder(ms, p, sent)
  PROVE  InOrder(Append(ms, m), p, Append(sent, m))
<1> DEFINE mine == {i \in DOMAIN ms : ms[i].sender = p}
<1>1. PICK e \in [mine -> DOMAIN sent] : /\ \A i \in mine : ms[i] = sent[e[i]]
                                         /\ \A i, j \in mine : i < j => e[i] < e[j]
  BY DEF InOrder
<1>2. PICK more, longer : more = Append(ms, m) /\ longer = Append(sent, m)  OBVIOUS
<1>3. /\ DOMAIN ms = 1 .. Len(ms) /\ DOMAIN sent = 1 .. Len(sent)
      /\ DOMAIN more = 1 .. Len(ms) + 1 /\ DOMAIN longer = 1 .. Len(sent) + 1
      /\ \A i \in DOMAIN ms : more[i] = ms[i]
      /\ \A k \in DOMAIN sent : longer[k] = sent[k]
      /\ more[Len(ms) + 1] = m /\ longer[Len(sent) + 1] = m
      /\ Len(ms) \in Nat /\ Len(sent) \in Nat
  BY <1>2
<1> DEFINE now == {i \in DOMAIN more : more[i].sender = p}
           f == [i \in now |-> IF i = Len(ms) + 1 THEN Len(sent) + 1 ELSE e[i]]
<1>4. \A i \in now : i = Len(ms) + 1 \/ i \in mine  BY <1>3
<1>5. mine \subseteq DOMAIN ms  OBVIOUS
<1>6. now \subseteq DOMAIN more  OBVIOUS
<1>7. \A i \in mine : e[i] \in DOMAIN sent  BY <1>1
<1> HIDE DEF mine, now
<1>8. f \in [now -> DOMAIN longer]  BY <1>3, <1>4, <1>7
<1>9. \A i \in now : more[i] = longer[f[i]]
  <2>1. ASSUME NEW i \in now PROVE more[i] = longer[f[i]]
    <3>1. CASE i = Len(ms) + 1  BY <1>3, <3>1
    <3>2. CASE i # Len(ms) + 1
      <4>1. i \in mine /\ f[i] = e[i]  BY <1>4, <3>2
      <4>2. QED  BY <1>1, <1>3, <1>5, <1>7, <4>1
    <3>3. QED  BY <3>1, <3>2
  <2>2. QED  BY <2>1
<1>10. \A i, j \in now : i < j => f[i] < f[j]
  <2>1. ASSUME NEW i \in now, NEW j \in now, i < j PROVE f[i] < f[j]
    <3>1. i # Len(ms) + 1  BY <1>3, <1>6, <2>1
    <3>2. i \in mine /\ f[i] = e[i]  BY <1>4, <3>1
    <3>3. CASE j = Len(ms) + 1
      <4>1. f[j] = Len(sent) + 1  BY <3>3
      <4>2. e[i] \in 1 .. Len(sent)  BY <1>3, <1>7, <3>2
      <4>3. QED  BY <1>3, <3>2, <4>1, <4>2
    <3>4. CASE j # Len(ms) + 1
      <4>1. j \in mine /\ f[j] = e[j]  BY <1>4, <3>4
      <4>2. QED  BY <1>1, <2>1, <3>2, <4>1
    <3>5. QED  BY <3>3, <3>4
  <2>2. QED  BY <2>1
<1> HIDE DEF f
<1>11. QED  BY <1>2, <1>8, <1>9, <1>10 DEF InOrder, now

(* What is in the file and what is about to be written keep the order in   *)
(* which each process set out to write its messages.                       *)
InOrderInv ==
  \A p \in Proc :
    /\ file \in Inbox => InOrder(file.messages, p, put[p])
    /\ \A q \in Proc : Writing(q) => InOrder(draft[q].messages, p, put[p])

LEMMA EmptyInOrder ==
  ASSUME NEW p, NEW sent PROVE InOrder(<<>>, p, sent)
<1> DEFINE none == {i \in DOMAIN << >> : << >>[i].sender = p}
<1>1. none = {}  OBVIOUS
<1>2. [i \in none |-> 0] \in [none -> DOMAIN sent]  BY <1>1
<1>3. QED  BY <1>1, <1>2 DEF InOrder

LEMMA EndInOrder ==
  ASSUME IInv, InOrderInv, NEW p \in Proc, NEW result, NEW rep, End(p, result, rep), UNCHANGED put,
         file' \in Inbox => file' = file \/ (Writing(p) /\ file' = draft[p])
  PROVE  InOrderInv'
<1>1. pc \in [Proc -> Label] /\ pc' = [pc EXCEPT ![p] = "idle"] /\ draft' = [draft EXCEPT ![p] = None]
      /\ draft \in [Proc -> Inbox \cup {None}]
  BY DEF End, GoTo, IInv, TypeOK, Label
<1>2. \A q \in Proc : Writing(q)' => Writing(q) /\ draft'[q] = draft[q]  BY <1>1 DEF Writing
<1>3. QED  BY <1>2 DEF InOrderInv

LEMMA SetsOutInOrder ==
  ASSUME IInv, InOrderInv, NEW p \in Proc, NEW box \in Inbox, SetsOut(p, box),
         cmd[p] \in {"append", "send"}, pc[p] # "idle",
         \A q \in Proc : InOrder(box.messages, q, put[q])
  PROVE  InOrderInv'
<1>1. PICK m \in Envelope : m = message[p] /\ m.sender \in {p, None}  BY DEF IInv, Control
<1>2. /\ draft' = [draft EXCEPT ![p] = WithMessage(box, m)]
      /\ put' = [put EXCEPT ![p] = Append(put[p], m)]
      /\ pc' = [pc EXCEPT ![p] = "truncate"]
      /\ file' = file
  BY <1>1 DEF SetsOut, GoTo
<1>3. /\ put \in [Proc -> Seq(Envelope)] /\ pc \in [Proc -> Label]
      /\ draft \in [Proc -> Inbox \cup {None}]
  BY DEF IInv, TypeOK, Label
<1>4. \A b \in Inbox : b.messages \in Seq(Envelope)  BY DEF Inbox
<1>5. ASSUME NEW q \in Proc, NEW ms \in Seq(Envelope), InOrder(ms, q, put[q])
      PROVE  InOrder(ms, q, put'[q])
  <2>1. CASE q = p
    <3>1. put'[q] = Append(put[q], m)  BY <1>2, <1>3, <2>1
    <3>2. put[q] \in Seq(Envelope)  BY <1>3
    <3>3. QED  BY <1>5, <3>1, <3>2, OrderStays
  <2>2. CASE q # p  BY <1>2, <1>3, <1>5, <2>2
  <2>3. QED  BY <2>1, <2>2
<1>6. ASSUME NEW q \in Proc PROVE InOrder(draft'[p].messages, q, put'[q])
  <2>1. draft'[p].messages = Append(box.messages, m)  BY <1>2, <1>3, WithMessageType
  <2>2. box.messages \in Seq(Envelope) /\ put[q] \in Seq(Envelope)  BY <1>3, <1>4
  <2>3. CASE q = p
    <3>1. put'[q] = Append(put[q], m)  BY <1>2, <1>3, <2>3
    <3>2. QED  BY <2>1, <2>2, <3>1, OwnMessage
  <2>4. CASE q # p
    <3>1. put'[q] = put[q]  BY <1>2, <1>3, <2>4
    <3>2. m.sender # q  BY <1>1, <2>4, InboxAssumption
    <3>3. QED  BY <2>1, <2>2, <3>1, <3>2, OtherAuthor
  <2>5. QED  BY <2>3, <2>4
<1>7. \A q \in Proc \ {p} : Writing(q)' => Writing(q) /\ draft'[q] = draft[q] /\ draft[q] \in Inbox
  BY <1>2, <1>3 DEF Writing, IInv, Control
<1>8. QED  BY <1>2, <1>4, <1>5, <1>6, <1>7 DEF InOrderInv

LEMMA StartInOrder ==
  ASSUME IInv, InOrderInv, NEW p \in Proc, Starts(p)
  PROVE  InOrderInv'
<1>1. PICK c, m, prof, ident : Started(p, c, m, prof, ident)  BY DEF Starts
<1>2. /\ pc' = [pc EXCEPT ![p] = CASE c = "init" -> "truncate" [] c = "receive" -> "read" [] OTHER -> "exists"]
      /\ draft' = [draft EXCEPT ![p] = IF c = "init" THEN FreshInbox ELSE None]
      /\ UNCHANGED <<file, put>>
  BY <1>1 DEF Started, Start, GoTo
<1>3. pc \in [Proc -> Label] /\ draft \in [Proc -> Inbox \cup {None}]  BY DEF IInv, TypeOK, Label
<1>4. \A q \in Proc \ {p} : Writing(q)' => Writing(q) /\ draft'[q] = draft[q]
  BY <1>2, <1>3 DEF Writing
<1>5. Writing(p)' => draft'[p].messages = <<>>
  BY <1>2, <1>3, FreshInboxType DEF Writing
<1>6. QED  BY <1>2, <1>4, <1>5, EmptyInOrder DEF InOrderInv

LEMMA StepInOrder == IInv /\ InOrderInv /\ [Next]_vars => InOrderInv'
<1> SUFFICES ASSUME IInv, InOrderInv, [Next]_vars PROVE InOrderInv'  OBVIOUS
<1>1. CASE UNCHANGED vars
  BY <1>1 DEF vars, control, InOrderInv, Writing
<1>2. ASSUME NEW p \in Proc, CheckExists(p) PROVE InOrderInv'
  <2>1. cmd[p] \in {"append", "send"} /\ pc[p] # "idle"  BY <1>2 DEF CheckExists, IInv, Control
  <2>2. CASE GoTo(p, "read") /\ UNCHANGED <<file, draft, put>>
    <3>1. pc \in [Proc -> Label] /\ pc' = [pc EXCEPT ![p] = "read"]
      BY <2>2 DEF IInv, TypeOK, Label, GoTo
    <3>2. \A q \in Proc : Writing(q)' => Writing(q)  BY <3>1 DEF Writing
    <3>3. QED  BY <2>2, <3>2 DEF InOrderInv
  <2>3. CASE SetsOut(p, FreshInbox)
    BY <2>1, <2>3, FreshInboxType, EmptyInOrder, SetsOutInOrder
  <2>4. CASE Output(p, SendReport(p)) /\ UNCHANGED <<file, put>>
    BY <2>4, OutputEnds, EndInOrder
  <2>5. QED  BY <1>2, <2>2, <2>3, <2>4 DEF CheckExists, SetsOut
<1>3. ASSUME NEW p \in Proc, ReadInbox(p) PROVE InOrderInv'
  <2>1. cmd[p] \in {"append", "send", "receive"} /\ pc[p] # "idle"  BY <1>3 DEF ReadInbox, IInv, Control
  <2>2. CASE file \in Inbox /\ Writes(p) /\ SetsOut(p, file)
    <3>1. cmd[p] \in {"append", "send"}  BY <2>2 DEF Writes
    <3>2. QED  BY <2>1, <2>2, <3>1, SetsOutInOrder DEF InOrderInv
  <2>3. ASSUME NEW rep, Output(p, rep), UNCHANGED <<file, put>> PROVE InOrderInv'
    BY <2>3, OutputEnds, EndInOrder
  <2>4. CASE Fail(p)  BY <2>4, EndInOrder DEF Fail
  <2>5. QED  BY <1>3, <2>2, <2>3, <2>4 DEF ReadInbox, SetsOut
<1>4. ASSUME NEW p \in Proc, TruncateInbox(p) PROVE InOrderInv'
  <2>1. /\ Writing(p) /\ file' = Empty /\ pc' = [pc EXCEPT ![p] = "fill"] /\ UNCHANGED <<draft, put>>
        /\ pc \in [Proc -> Label]
    BY <1>4 DEF TruncateInbox, GoTo, Writing, IInv, TypeOK, Label
  <2>2. \A q \in Proc : Writing(q)' => Writing(q)  BY <2>1 DEF Writing
  <2>3. file' \notin Inbox  BY <2>1, InboxAssumption
  <2>4. QED  BY <2>1, <2>2, <2>3 DEF InOrderInv
<1>5. ASSUME NEW p \in Proc, FillInbox(p) PROVE InOrderInv'
  <2>1. file' \in Inbox => Writing(p) /\ file' = draft[p]
    BY <1>5, InboxAssumption DEF FillInbox, Writing
  <2>2. PICK rep : End(p, "ok", rep)  BY <1>5 DEF FillInbox
  <2>3. UNCHANGED put  BY <1>5 DEF FillInbox
  <2>4. QED  BY <2>1, <2>2, <2>3, EndInOrder
<1>6. ASSUME NEW p \in Proc, Crash(p) PROVE InOrderInv'
  BY <1>6, EndInOrder DEF Crash
<1>7. QED
  BY <1>1, <1>2, <1>3, <1>4, <1>5, <1>6, CommandsStart, StartInOrder DEF Next

LEMMA InitInOrder == Init => InOrderInv
<1> SUFFICES ASSUME Init PROVE InOrderInv  OBVIOUS
<1>1. PICK box \in Inbox : box = [messages |-> <<>>, seen_nonces |-> SeenBefore]  BY FirstInboxType
<1>2. box.messages = <<>>  BY <1>1
<1>3. file \in {None, box} /\ \A p \in Proc : pc[p] = "idle"  BY <1>1 DEF Init
<1>4. \A p \in Proc : InOrder(box.messages, p, put[p])  BY <1>2, EmptyInOrder
<1>5. QED  BY <1>3, <1>4, InboxAssumption DEF InOrderInv, Writing

(* However many processes write, are killed and overwrite one another,     *)
(* what the file holds of one of them is in the order it wrote.            *)
THEOREM WritersKeepTheirOrder == Spec => []SenderOrderKept
<1>1. InOrderInv => SenderOrderKept  BY DEF InOrderInv, SenderOrderKept
<1>2. QED  BY <1>1, InitHolds, InitInOrder, StepKeeps, StepInOrder, PTL DEF Spec
=============================================================================
