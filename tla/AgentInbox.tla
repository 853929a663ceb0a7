----------------------------- MODULE AgentInbox -----------------------------
(***************************************************************************)
(* The agent inbox: one JSON file that the commands of `pic-ts agent       *)
(* inbox` and `agent message` read, and rewrite as a whole.  Every command *)
(* is a short-lived process; a step is one file-system call of one process *)
(* with the computation up to the next.                                    *)
(*                                                                         *)
(* An envelope is reduced to what verification looks at: its id (derived   *)
(* from its content), nonce, whether its digest matches its content, and   *)
(* whether it names a signature, a key and an attestation.                 *)
(***************************************************************************)
EXTENDS Naturals, Sequences

CONSTANTS
  Proc,        \* processes; one runs one command after the other
  Allowed,     \* [Proc -> SUBSET Command]
  Text,        \* contents of the messages a process may send
  Nonce,       \* --nonce arguments
  Foreign,     \* envelopes in the files `inbox append` is given, by other authors
  SeenBefore,  \* nonces in the seen_nonces of an inbox that is there at first
  Faults,      \* subset of {"crash"}
  MaxWrites,   \* bound: commands started that may write
  MaxFaults,   \* bound: crashes
  Empty,       \* the file truncated by open(2) and not yet written
  Garbage,     \* a file two writers overlaid
  None         \* no file, no nonce, no report, no process of the model

Command  == {"init", "append", "send", "receive"}
Profile  == {"development", "production"}
Envelope == [id : Text, nonce : Nonce \cup {None}, sender : Proc \cup {None}, intact : BOOLEAN, signed : BOOLEAN]
Inbox    == [messages : Seq(Envelope), seen_nonces : SUBSET Nonce]
Report   == [accepted : BOOLEAN, messages : Seq(Envelope), consumed : SUBSET Nonce]

ASSUME InboxAssumption ==
  /\ Allowed \in [Proc -> SUBSET Command]
  /\ \A m \in Foreign : m \in Envelope /\ m.sender = None
  /\ SeenBefore \subseteq Nonce
  /\ Faults \subseteq {"crash"}
  /\ MaxWrites \in Nat /\ MaxFaults \in Nat
  /\ None \notin Nonce \cup Proc \cup Inbox \cup Report \cup Envelope \cup {Empty, Garbage}
  /\ {Empty, Garbage} \cap Inbox = {} /\ Empty # Garbage /\ None # "ok"

VARIABLES
  file,                                \* content of the inbox file
  pc, cmd, message, profile, identity, \* what each process is doing
  draft,                               \* the inbox it is going to write
  report,                              \* the delivery report it printed last
  out,                                 \* how its last command ended
  writes, faults,                      \* bounded counters
  kept,                                \* history: messages written to the end, since the last init that was
  overlap,                             \* history: two commands that may write were once under way together
  cut,                                 \* history: a writer was killed at its fill, and none filled since
  put                                  \* history: messages each process set out to write

control == <<cmd, message, profile, identity>>
vars    == <<file, pc, control, draft, report, out, writes, faults, kept, overlap, cut, put>>

(***************************************************************************)
(* createAgentMessage, verifyAgentMessage, deliveryReport.                 *)
(***************************************************************************)
NewEnvelope(p, text, nonce) ==
  [id |-> text, nonce |-> nonce, sender |-> p, intact |-> TRUE, signed |-> FALSE]

(* mutant: the digest is not compared *)
VerifiedNoDigest(m, seen, prof, ident) == m.nonce \notin seen /\ (prof = "production" => m.signed /\ ident)

Verified(m, seen, prof, ident) ==
  /\ m.intact
  /\ m.nonce \notin seen
  /\ prof = "production" => m.signed /\ ident

(* One verdict for the whole list, but the nonces of the messages that     *)
(* passed by themselves are consumed in any case.                          *)
DeliveryWithNull(ms, seen, prof, ident) ==   \* mutant: a message without a nonce consumes null
  LET good == {i \in DOMAIN ms : Verified(ms[i], seen, prof, ident)}
  IN  [accepted |-> good = DOMAIN ms, messages |-> ms, consumed |-> {ms[i].nonce : i \in good}]
Delivery(ms, seen, prof, ident) ==
  LET good == {i \in DOMAIN ms : Verified(ms[i], seen, prof, ident)}
  IN  [accepted |-> good = DOMAIN ms,
       messages |-> ms,
       consumed |-> {ms[i].nonce : i \in good} \ {None}]

(* appendAgentMessage: the new message goes behind the others, and         *)
(* seen_nonces is written back as it was read.                             *)
FreshInbox == [messages |-> <<>>, seen_nonces |-> {}]
WithMessageOnly(box, m)  == [box EXCEPT !.messages = <<m>>]   \* mutant: others forgotten
WithMessageFirst(box, m) == [box EXCEPT !.messages = <<m>> \o @]   \* mutant: wrong end
WithMessage(box, m) == [box EXCEPT !.messages = Append(@, m)]

(***************************************************************************)
(* Initial state: no inbox, or an empty one that some other PIC runtime    *)
(* left with nonces it has seen.                                           *)
(***************************************************************************)
Init ==
  /\ file \in {None, [messages |-> <<>>, seen_nonces |-> SeenBefore]}
  /\ pc = [p \in Proc |-> "idle"]
  /\ cmd = [p \in Proc |-> None]
  /\ message = [p \in Proc |-> None]
  /\ profile = [p \in Proc |-> "development"]
  /\ identity = [p \in Proc |-> FALSE]
  /\ draft = [p \in Proc |-> None]
  /\ report = [p \in Proc |-> None]
  /\ out = [p \in Proc |-> None]
  /\ writes = 0 /\ faults = 0
  /\ kept = <<>> /\ overlap = FALSE /\ cut = FALSE
  /\ put = [p \in Proc |-> <<>>]

GoTo(p, label) == pc' = [pc EXCEPT ![p] = label]

End(p, result, rep) ==
  /\ GoTo(p, "idle")
  /\ out' = [out EXCEPT ![p] = result]
  /\ report' = [report EXCEPT ![p] = rep]
  /\ draft' = [draft EXCEPT ![p] = None]
  /\ UNCHANGED <<control, writes>>

(* A report that is not accepted sets the exit code; nothing is undone. *)
Output(p, rep) == End(p, IF rep.accepted THEN "ok" ELSE "rejected", rep)

Fail(p) == End(p, "failed", None) /\ UNCHANGED <<file, faults, kept, overlap, cut, put>>

(* What a send reports: the verdict on its own envelope, before any file   *)
(* is read and so with no nonce seen.                                      *)
SendReport(p) == Delivery(<<message[p]>>, {}, profile[p], identity[p])

Writes(p) == cmd[p] = "append" \/ (cmd[p] = "send" /\ SendReport(p).accepted)

(***************************************************************************)
(* Commands.                                                               *)
(***************************************************************************)
Start(p, c, m, prof, ident) ==
  /\ pc[p] = "idle" /\ c \in Allowed[p]
  /\ c # "receive" => writes < MaxWrites
  /\ writes' = IF c = "receive" THEN writes ELSE writes + 1
  /\ overlap' = \/ overlap
                \/ c # "receive" /\ \E q \in Proc \ {p} : pc[q] # "idle" /\ cmd[q] # "receive"
  /\ cmd' = [cmd EXCEPT ![p] = c]
  /\ message' = [message EXCEPT ![p] = m]
  /\ profile' = [profile EXCEPT ![p] = prof]
  /\ identity' = [identity EXCEPT ![p] = ident]
  /\ draft' = [draft EXCEPT ![p] = IF c = "init" THEN FreshInbox ELSE None]
  /\ report' = [report EXCEPT ![p] = None]
  /\ out' = [out EXCEPT ![p] = None]
  /\ GoTo(p, CASE c = "init" -> "truncate" [] c = "receive" -> "read" [] OTHER -> "exists")
  /\ UNCHANGED <<file, faults, kept, cut, put>>

InitInbox(p) == Start(p, "init", None, "development", FALSE)
AppendFile(p) == \E m \in Foreign : Start(p, "append", m, "development", FALSE)
SendMessage(p) == \E text \in Text, nonce \in Nonce \cup {None}, prof \in Profile, ident \in BOOLEAN :
                    Start(p, "send", NewEnvelope(p, text, nonce), prof, ident)
ReceiveInbox(p) == \E prof \in Profile, ident \in BOOLEAN : Start(p, "receive", None, prof, ident)

(* existsSync: without an inbox an accepted message makes one, and a       *)
(* refused one is only reported.                                           *)
CheckExists(p) ==
  /\ pc[p] = "exists"
  /\ UNCHANGED <<file, faults, kept, overlap, cut>>
  /\ \/ /\ file # None
        /\ GoTo(p, "read")
        /\ UNCHANGED <<control, draft, report, out, writes, put>>
     \/ /\ file = None /\ Writes(p)
        /\ draft' = [draft EXCEPT ![p] = WithMessage(FreshInbox, message[p])]
        /\ put' = [put EXCEPT ![p] = Append(@, message[p])]
        /\ GoTo(p, "truncate")
        /\ UNCHANGED <<control, report, out, writes>>
     \/ /\ file = None /\ ~Writes(p)
        /\ Output(p, SendReport(p))
        /\ UNCHANGED put

ReadInbox(p) ==
  /\ pc[p] = "read"
  /\ \/ /\ file \in Inbox /\ Writes(p)
        /\ draft' = [draft EXCEPT ![p] = WithMessage(file, message[p])]
        /\ put' = [put EXCEPT ![p] = Append(@, message[p])]
        /\ GoTo(p, "truncate")
        /\ UNCHANGED <<file, control, report, out, writes, faults, kept, overlap, cut>>
     \/ /\ file \in Inbox /\ ~Writes(p)
        /\ Output(p, IF cmd[p] = "send" THEN SendReport(p)
                    ELSE Delivery(file.messages, file.seen_nonces, profile[p], identity[p]))
        /\ UNCHANGED <<file, faults, kept, overlap, cut, put>>
     \/ file \notin Inbox /\ Fail(p)

(* writeFileSync: open with O_TRUNC, then write from position 0. *)
TruncateInbox(p) ==
  /\ pc[p] = "truncate"
  /\ file' = Empty
  /\ GoTo(p, "fill")
  /\ UNCHANGED <<control, draft, report, out, writes, faults, kept, overlap, cut, put>>

(* A longer text another process wrote in between sticks out behind ours.  *)
FillInbox(p) ==
  /\ pc[p] = "fill"
  /\ \E content \in {draft[p]} \cup (IF file = Empty THEN {} ELSE {Garbage}) : file' = content
  /\ kept' = IF cmd[p] = "init" THEN <<>> ELSE Append(kept, message[p])
  /\ cut' = FALSE
  /\ End(p, "ok", IF cmd[p] = "send" THEN SendReport(p) ELSE None)
  /\ UNCHANGED <<faults, overlap, put>>

(* A process is killed between two calls; between the two of a write it    *)
(* leaves the file empty.                                                  *)
Crash(p) ==
  /\ "crash" \in Faults /\ faults < MaxFaults
  /\ pc[p] # "idle"
  /\ faults' = faults + 1
  /\ cut' = (cut \/ pc[p] = "fill")
  /\ End(p, "crashed", None)
  /\ UNCHANGED <<file, kept, overlap, put>>

Next == \E p \in Proc :
  \/ InitInbox(p) \/ AppendFile(p) \/ SendMessage(p) \/ ReceiveInbox(p)
  \/ CheckExists(p) \/ ReadInbox(p) \/ TruncateInbox(p) \/ FillInbox(p)
  \/ Crash(p)

Spec == Init /\ [][Next]_vars

(***************************************************************************)
(* Type invariant.                                                         *)
(***************************************************************************)
TypeOK ==
  /\ file \in Inbox \cup {None, Empty, Garbage}
  /\ pc \in [Proc -> {"idle", "exists", "read", "truncate", "fill"}]
  /\ cmd \in [Proc -> Command \cup {None}]
  /\ message \in [Proc -> Envelope \cup {None}]
  /\ profile \in [Proc -> Profile] /\ identity \in [Proc -> BOOLEAN]
  /\ draft \in [Proc -> Inbox \cup {None}]
  /\ report \in [Proc -> Report \cup {None}]
  /\ out \in [Proc -> {"ok", "rejected", "failed", "crashed", None}]
  /\ writes \in Nat /\ faults \in Nat
  /\ kept \in Seq(Envelope) /\ overlap \in BOOLEAN /\ cut \in BOOLEAN /\ put \in [Proc -> Seq(Envelope)]

(***************************************************************************)
(* Properties of any number of writers.                                    *)
(***************************************************************************)

(* Several writers may lose each other's messages (the file is read and    *)
(* rewritten without a lock) but never reorder what one of them wrote: its *)
(* messages in the file are among those it set out to write, in that order. *)
InOrder(ms, p, sent) ==
  LET mine == {i \in DOMAIN ms : ms[i].sender = p}
  IN  \E e \in [mine -> DOMAIN sent] :
        /\ \A i \in mine : ms[i] = sent[e[i]]
        /\ \A i, j \in mine : i < j => e[i] < e[j]

SenderOrderKept == file \in Inbox => \A p \in Proc : InOrder(file.messages, p, put[p])

(* A file left empty by a killed writer, or overlaid by two, is only       *)
(* replaced by an init: append and send fail when they read it.            *)
OnlyInitRepairs ==
  [][(\A p \in Proc : pc[p] \notin {"truncate", "fill"}) /\ file \in {Empty, Garbage}
     => (\A p \in Proc : pc'[p] = "truncate" => cmd'[p] = "init")]_vars

(***************************************************************************)
(* Properties while commands that may write follow one another, whichever  *)
(* process runs them, beside any number of readers.                        *)
(***************************************************************************)
TakeTurns == ~overlap

(* The inbox holds every message whose command came to its end, in that    *)
(* order, and no other, since the last init that came to its end.  The one *)
(* exception is between the two calls of a write: there the file is empty, *)
(* and a writer killed there leaves it so, with everything lost that was   *)
(* acknowledged.  A kill anywhere else loses nothing.                      *)
AcknowledgedKept ==
  TakeTurns =>
    \/ file \in Inbox /\ file.messages = kept
    \/ file = None /\ kept = <<>>
    \/ file = Empty /\ (cut \/ \E p \in Proc : pc[p] = "fill")

(* A message whose digest is wrong blocks the inbox: append does not       *)
(* verify it, and as long as it stays no receive that reads it accepts any *)
(* message.                                                                *)
BadMessageBlocksReceive ==
  [][TakeTurns => \A p \in Proc :
       pc[p] = "read" /\ cmd[p] = "receive" /\ out'[p] = "ok" =>
         (\A i \in DOMAIN kept : kept[i].intact)]_vars

(* "Deterministic nonce ledger used to reject replayed agent messages": no *)
(* accepted delivery holds two messages with one nonce.  The code does not *)
(* keep this: nothing it accepts is added to seen_nonces.                  *)
NoReplayAccepted ==
  \A p \in Proc : report[p] # None /\ report[p].accepted =>
    \A i, j \in DOMAIN report[p].messages :
      report[p].messages[i].nonce # None /\ report[p].messages[i].nonce = report[p].messages[j].nonce
        => i = j
=============================================================================
