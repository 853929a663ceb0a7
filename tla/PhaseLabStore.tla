--------------------------- MODULE PhaseLabStore ---------------------------
(***************************************************************************)
(* The Phase Lab store: the directory the commands of `pic-ts phase lab`   *)
(* share (events.jsonl, windows/<id>.json, windows/latest.json and         *)
(* manifest.json).  Every command is a short-lived process that works on   *)
(* the files with synchronous calls, takes no lock and renames nothing     *)
(* into place, so a step here is one file-system call of one process.      *)
(*                                                                         *)
(* A line of the log or a file is a value: a record when it parses,        *)
(* Garbage or Empty when JSON.parse throws on it.  Payloads are opaque.    *)
(***************************************************************************)
EXTENDS Naturals, Sequences, FiniteSets

CONSTANTS
  Proc,        \* processes; one runs one command after the other
  Allowed,     \* [Proc -> SUBSET Command]: the commands a process issues
  Payload,     \* contents of ingested reports
  Batches,     \* the payload lists one ingest may be given
  Selectors,   \* the --window arguments of observe
  Fresh,       \* TRUE when events.jsonl does not exist yet
  Faults,      \* subset of {"crash", "tear"}
  MaxIngests,  \* bound: ingests ever started
  MaxFaults,   \* bound: crashes ever suffered
  Base,        \* of the numerals in file names (10)
  PadLimit,    \* window numbers below it are padded to one width (10^4)
  Garbage,     \* a line or file cut short, glued or overwritten
  Empty,       \* a file truncated by open(2) and not yet written
  None         \* no file, no result

Command == {"init", "ingest", "list", "export", "observe"}

EventId == [pos : Nat, body : Payload]
Event   == [pos : Nat, body : Payload, win : Nat]
Index   == [win : Nat, ids : Seq(EventId)]

ASSUME StoreAssumption ==
  /\ Allowed \in [Proc -> SUBSET Command]
  /\ Batches \subseteq Seq(Payload)
  /\ Selectors \subseteq {"latest", "previous", "all"}
  /\ Fresh \in BOOLEAN
  /\ Faults \subseteq {"crash", "tear"}
  /\ MaxIngests \in Nat /\ MaxFaults \in Nat
  /\ Base \in Nat \ {0} /\ PadLimit \in Nat \ {0}
  /\ Garbage \notin Event \cup Index
  /\ Empty \notin Index \cup {Garbage}
  /\ None \notin Index \cup {"ok", "failed", "crashed"}

VARIABLES
  events,      \* the lines of events.jsonl
  eventsExist, \* does events.jsonl exist
  openTail,    \* its last line is not ended by a newline
  windows,     \* window number -> content of its file
  latest,      \* content of windows/latest.json
  manifest,    \* content of manifest.json
  pc, cmd, batch, selector,  \* what each process is doing
  names,       \* window files it listed last
  count,       \* number of log lines it read last
  seq, offset, \* window number and first event number of its ingest
  seenIndex,   \* the window index its last observe selected ...
  seenLines,   \* ... and the log lines it returned with it
  out,         \* how its last command ended
  ingests, faults,           \* bounded counters
  torn,        \* history: some call was cut off in the middle
  base, acked  \* history: log length before the append of an ingest, and
               \* the line numbers of ingests that reported success

files  == <<events, eventsExist, openTail, windows, latest, manifest>>
local  == <<pc, cmd, batch, selector, names, count, seq, offset, seenIndex, seenLines, out>>
ghosts == <<ingests, faults, torn, base, acked>>
vars   == <<files, local, ghosts>>

(***************************************************************************)
(* Content of the files.                                                   *)
(***************************************************************************)
LogReadable     == \A i \in DOMAIN events : events[i] # Garbage
WindowsReadable == \A k \in DOMAIN windows : windows[k] \notin {Empty, Garbage}

(* The events an ingest builds: numbered on from the log length it read,   *)
(* all of the window it is about to write, and that window's index.        *)
EventOf(p, i)   == [pos |-> offset[p] + i - 1, body |-> batch[p][i], win |-> seq[p]]
LinesOf(p)      == [i \in DOMAIN batch[p] |-> EventOf(p, i)]
IdOf(e)         == [pos |-> e.pos, body |-> e.body]
IndexOfEvents(p) == [win |-> seq[p], ids |-> LinesOf(p)]   \* mutant: whole events, not ids
IndexOf(p)      == [win |-> seq[p], ids |-> [i \in DOMAIN batch[p] |-> IdOf(EventOf(p, i))]]

(* What events.jsonl holds after `lines` are appended: without a newline   *)
(* at its end the first one is glued to the last old one.                  *)
Appended(lines) ==
  IF openTail /\ lines # <<>>
  THEN [events EXCEPT ![Len(events)] = Garbage] \o Tail(lines)
  ELSE events \o lines

(* readdirSync(...).sort(): file names compare as strings.  Below PadLimit *)
(* padStart gives equal widths; above it a longer name may sort first.     *)
NameBefore(m, n) ==
  IF (m < PadLimit) = (n < PadLimit) THEN m < n
  ELSE IF m < PadLimit THEN m * Base <= n
  ELSE m < n * Base

LastName(S) == CHOOSE n \in S : \A m \in S \ {n} : NameBefore(m, n)

Chosen(sel, S) ==
  IF sel = "previous" /\ Cardinality(S) > 1
  THEN LastName(S \ {LastName(S)})
  ELSE LastName(S)

(* The lines of the log an observation of window `win` returns. *)
Selected(sel, win) ==
  {i \in DOMAIN events : sel = "all" \/ events[i].win = win}

(***************************************************************************)
(* Initial state: no window yet; events.jsonl absent, or present and empty.*)
(***************************************************************************)
Init ==
  /\ events = <<>> /\ openTail = FALSE /\ eventsExist = ~Fresh
  /\ windows = [k \in {} |-> Empty]
  /\ latest = None /\ manifest = None
  /\ pc = [p \in Proc |-> "idle"]
  /\ cmd = [p \in Proc |-> None]
  /\ batch = [p \in Proc |-> <<>>]
  /\ selector = [p \in Proc |-> None]
  /\ names = [p \in Proc |-> {}]
  /\ count = [p \in Proc |-> 0]
  /\ seq = [p \in Proc |-> 0]
  /\ offset = [p \in Proc |-> 0]
  /\ seenIndex = [p \in Proc |-> None]
  /\ seenLines = [p \in Proc |-> {}]
  /\ out = [p \in Proc |-> None]
  /\ ingests = 0 /\ faults = 0 /\ torn = FALSE
  /\ base = [p \in Proc |-> 0]
  /\ acked = {}

(***************************************************************************)
(* Control: the next call of a command, its return and its failure.        *)
(***************************************************************************)
GoTo(p, label) == pc' = [pc EXCEPT ![p] = label]

(* A process that ends forgets what it read; its observation was printed.  *)
Reset(p, result) ==
  /\ GoTo(p, "idle")
  /\ out' = [out EXCEPT ![p] = result]
  /\ batch' = [batch EXCEPT ![p] = <<>>]
  /\ names' = [names EXCEPT ![p] = {}]
  /\ count' = [count EXCEPT ![p] = 0]
  /\ seq' = [seq EXCEPT ![p] = 0]
  /\ offset' = [offset EXCEPT ![p] = 0]
  /\ base' = [base EXCEPT ![p] = 0]
  /\ UNCHANGED <<cmd, selector, ingests>>

End(p, result) == Reset(p, result) /\ UNCHANGED <<faults, torn>>

(* An uncaught parse error (or "phase lab store has no windows") ends the  *)
(* process before its next call: nothing already written is undone.        *)
Fail(p) == End(p, "failed") /\ UNCHANGED <<files, seenIndex, seenLines, acked>>

Start(p, c, b, sel) ==
  /\ pc[p] = "idle"
  /\ c \in Allowed[p]
  /\ c = "ingest" => ingests < MaxIngests
  /\ c # "ingest" => b = <<>>
  /\ (c = "observe") = (sel # None)
  /\ ingests' = IF c = "ingest" THEN ingests + 1 ELSE ingests
  /\ GoTo(p, IF c \in {"init", "ingest"} THEN "exists"
             ELSE IF c = "observe" THEN "selectWindow"
             ELSE "openWindows")
  /\ cmd' = [cmd EXCEPT ![p] = c]
  /\ batch' = [batch EXCEPT ![p] = b]
  /\ selector' = [selector EXCEPT ![p] = sel]
  /\ seenIndex' = [seenIndex EXCEPT ![p] = None]
  /\ seenLines' = [seenLines EXCEPT ![p] = {}]
  /\ out' = [out EXCEPT ![p] = None]
  /\ UNCHANGED <<files, names, count, seq, offset, faults, torn, base, acked>>

(***************************************************************************)
(* initPhaseLabStore: test for the log, create it empty, write a manifest. *)
(***************************************************************************)
CheckLog(p) ==
  /\ pc[p] = "exists"
  /\ GoTo(p, IF eventsExist THEN "openWindows" ELSE "create")
  /\ UNCHANGED <<files, cmd, batch, selector, names, count, seq, offset, seenIndex, seenLines, out, ghosts>>

(* writeFileSync(events, "") truncates whatever is there by then. *)
CreateLog(p) ==
  /\ pc[p] = "create"
  /\ events' = <<>> /\ openTail' = FALSE /\ eventsExist' = TRUE
  /\ GoTo(p, "openWindows")
  /\ UNCHANGED <<windows, latest, manifest, cmd, batch, selector, names, count,
                 seq, offset, seenIndex, seenLines, out, ghosts>>

(***************************************************************************)
(* writeManifest: list and parse the windows, parse the log, write the     *)
(* counts.  It opens every command but observe and closes an ingest.       *)
(***************************************************************************)

(* mutant: unreadable window files are skipped *)
ManifestWindowsTolerant(p) ==
  /\ pc[p] \in {"openWindows", "closeWindows"}
  /\ names' = [names EXCEPT ![p] = {k \in DOMAIN windows : windows[k] \notin {Empty, Garbage}}]
  /\ GoTo(p, IF pc[p] = "openWindows" THEN "openEvents" ELSE "closeEvents")
  /\ UNCHANGED <<files, cmd, batch, selector, count, seq, offset, seenIndex, seenLines, out, ghosts>>

ManifestWindows(p) ==
  /\ pc[p] \in {"openWindows", "closeWindows"}
  /\ \/ /\ WindowsReadable
        /\ names' = [names EXCEPT ![p] = DOMAIN windows]
        /\ GoTo(p, IF pc[p] = "openWindows" THEN "openEvents" ELSE "closeEvents")
        /\ UNCHANGED <<files, cmd, batch, selector, count, seq, offset, seenIndex, seenLines, out, ghosts>>
     \/ ~WindowsReadable /\ Fail(p)

(* mutant: unreadable log lines are skipped *)
ManifestEventsTolerant(p) ==
  /\ pc[p] \in {"openEvents", "closeEvents"}
  /\ count' = [count EXCEPT ![p] = Cardinality({i \in DOMAIN events : events[i] # Garbage})]
  /\ GoTo(p, IF pc[p] = "openEvents" THEN "openManifest" ELSE "closeManifest")
  /\ UNCHANGED <<files, cmd, batch, selector, names, seq, offset, seenIndex, seenLines, out, ghosts>>

ManifestEvents(p) ==
  /\ pc[p] \in {"openEvents", "closeEvents"}
  /\ \/ /\ LogReadable
        /\ count' = [count EXCEPT ![p] = Len(events)]
        /\ GoTo(p, IF pc[p] = "openEvents" THEN "openManifest" ELSE "closeManifest")
        /\ UNCHANGED <<files, cmd, batch, selector, names, seq, offset, seenIndex, seenLines, out, ghosts>>
     \/ ~LogReadable /\ Fail(p)

ManifestOf(p) ==
  [event_count |-> count[p],
   window_count |-> Cardinality(names[p]),
   latest_window |-> IF names[p] = {} THEN None ELSE LastName(names[p])]

WriteManifest(p) ==
  /\ manifest' = ManifestOf(p)
  /\ UNCHANGED <<events, eventsExist, openTail, windows, latest>>

OpenManifest(p) ==
  /\ pc[p] = "openManifest"
  /\ WriteManifest(p)
  /\ UNCHANGED <<seenIndex, seenLines, acked>>
  /\ \/ cmd[p] = "init" /\ End(p, "ok")
     \/ /\ cmd[p] # "init"
        /\ GoTo(p, IF cmd[p] = "ingest" THEN "sequence"
                   ELSE IF cmd[p] = "list" THEN "listWindows"
                   ELSE "exportEvents")
        /\ UNCHANGED <<cmd, batch, selector, names, count, seq, offset, out,
                       ingests, faults, torn, base>>

(***************************************************************************)
(* ingestPayloads: window number, first event number, append, index file,  *)
(* latest.json, manifest.                                                  *)
(***************************************************************************)
(* mutants: the number of the last window; one past the next *)
ReadSequenceOfLast(p) ==
  /\ pc[p] = "sequence" /\ WindowsReadable
  /\ seq' = [seq EXCEPT ![p] = IF DOMAIN windows = {} THEN 0 ELSE Cardinality(DOMAIN windows) - 1]
  /\ GoTo(p, "offset")
  /\ UNCHANGED <<files, cmd, batch, selector, names, count, offset, seenIndex, seenLines, out, ghosts>>
ReadSequenceFromOne(p) ==
  /\ pc[p] = "sequence" /\ WindowsReadable
  /\ seq' = [seq EXCEPT ![p] = Cardinality(DOMAIN windows) + 1]
  /\ GoTo(p, "offset")
  /\ UNCHANGED <<files, cmd, batch, selector, names, count, offset, seenIndex, seenLines, out, ghosts>>

ReadSequence(p) ==
  /\ pc[p] = "sequence"
  /\ \/ /\ WindowsReadable
        /\ seq' = [seq EXCEPT ![p] = Cardinality(DOMAIN windows)]
        /\ GoTo(p, "offset")
        /\ UNCHANGED <<files, cmd, batch, selector, names, count, offset, seenIndex, seenLines, out, ghosts>>
     \/ ~WindowsReadable /\ Fail(p)

(* mutant: events numbered within their window *)
ReadOffsetZero(p) ==
  /\ pc[p] = "offset" /\ LogReadable
  /\ GoTo(p, "append")
  /\ UNCHANGED <<files, cmd, batch, selector, names, count, seq, offset, seenIndex, seenLines, out, ghosts>>

ReadOffset(p) ==
  /\ pc[p] = "offset"
  /\ \/ /\ LogReadable
        /\ offset' = [offset EXCEPT ![p] = Len(events)]
        /\ GoTo(p, "append")
        /\ UNCHANGED <<files, cmd, batch, selector, names, count, seq, seenIndex, seenLines, out, ghosts>>
     \/ ~LogReadable /\ Fail(p)

(* mutants: no newline after the last line; flag "w" instead of "a" *)
AppendNoNewline(p) ==
  /\ pc[p] = "append"
  /\ events' = Appended(LinesOf(p))
  /\ openTail' = (openTail \/ batch[p] # <<>>)
  /\ eventsExist' = (eventsExist \/ batch[p] # <<>>)
  /\ base' = [base EXCEPT ![p] = Len(events') - Len(batch[p])]
  /\ GoTo(p, "truncate")
  /\ UNCHANGED <<windows, latest, manifest, cmd, batch, selector, names, count,
                 seq, offset, seenIndex, seenLines, out, ingests, faults, torn, acked>>
AppendOverwriting(p) ==
  /\ pc[p] = "append"
  /\ events' = LinesOf(p) /\ openTail' = FALSE /\ eventsExist' = TRUE
  /\ base' = [base EXCEPT ![p] = 0]
  /\ GoTo(p, "truncate")
  /\ UNCHANGED <<windows, latest, manifest, cmd, batch, selector, names, count,
                 seq, offset, seenIndex, seenLines, out, ingests, faults, torn, acked>>

AppendEvents(p) ==
  /\ pc[p] = "append"
  /\ events' = Appended(LinesOf(p))
  /\ openTail' = (openTail /\ batch[p] = <<>>)
  /\ eventsExist' = (eventsExist \/ batch[p] # <<>>)
  /\ base' = [base EXCEPT ![p] = Len(events') - Len(batch[p])]
  /\ GoTo(p, "truncate")
  /\ UNCHANGED <<windows, latest, manifest, cmd, batch, selector, names, count,
                 seq, offset, seenIndex, seenLines, out, ingests, faults, torn, acked>>

(* writeFileSync(windows/<id>.json): open with O_TRUNC ... *)
TruncateWindow(p) ==
  /\ pc[p] = "truncate"
  /\ windows' = [k \in DOMAIN windows \cup {seq[p]} |->
                   IF k = seq[p] THEN Empty ELSE windows[k]]
  /\ GoTo(p, "fill")
  /\ UNCHANGED <<events, eventsExist, openTail, latest, manifest, cmd, batch,
                 selector, names, count, seq, offset, seenIndex, seenLines, out, ghosts>>

(* ... then write from position 0.  If another process filled the file in  *)
(* between, its longer text may stick out behind ours.                     *)
FillWindow(p) ==
  /\ pc[p] = "fill"
  /\ \E content \in {IndexOf(p)} \cup (IF windows[seq[p]] = Empty THEN {} ELSE {Garbage}) :
       windows' = [windows EXCEPT ![seq[p]] = content]
  /\ GoTo(p, "latest")
  /\ UNCHANGED <<events, eventsExist, openTail, latest, manifest, cmd, batch,
                 selector, names, count, seq, offset, seenIndex, seenLines, out, ghosts>>

(* mutant: the opening counts are reused *)
WriteLatestNoReread(p) ==
  /\ pc[p] = "latest"
  /\ latest' = IndexOf(p)
  /\ GoTo(p, "closeManifest")
  /\ UNCHANGED <<events, eventsExist, openTail, windows, manifest, cmd, batch,
                 selector, names, count, seq, offset, seenIndex, seenLines, out, ghosts>>
WriteLatest(p) ==
  /\ pc[p] = "latest"
  /\ latest' = IndexOf(p)
  /\ GoTo(p, "closeWindows")
  /\ UNCHANGED <<events, eventsExist, openTail, windows, manifest, cmd, batch,
                 selector, names, count, seq, offset, seenIndex, seenLines, out, ghosts>>

(* The last call of an ingest: it reports its events as ingested. *)
CloseManifest(p) ==
  /\ pc[p] = "closeManifest"
  /\ WriteManifest(p)
  /\ acked' = acked \cup (base[p] + 1 .. base[p] + Len(batch[p]))
  /\ End(p, "ok")
  /\ UNCHANGED <<seenIndex, seenLines>>

(***************************************************************************)
(* The reading half of list, export and observe.                           *)
(***************************************************************************)
ListWindows(p) ==
  /\ pc[p] = "listWindows"
  /\ \/ WindowsReadable /\ End(p, "ok") /\ UNCHANGED <<files, seenIndex, seenLines, acked>>
     \/ ~WindowsReadable /\ Fail(p)

ExportEvents(p) ==
  /\ pc[p] = "exportEvents"
  /\ \/ /\ LogReadable
        /\ count' = [count EXCEPT ![p] = Len(events)]
        /\ GoTo(p, "exportWindows")
        /\ UNCHANGED <<files, cmd, batch, selector, names, seq, offset, seenIndex, seenLines, out, ghosts>>
     \/ ~LogReadable /\ Fail(p)

(* Only a store with events gets a phase_window_observation.json. *)
ExportWindows(p) ==
  /\ pc[p] = "exportWindows"
  /\ \/ /\ WindowsReadable /\ count[p] > 0
        /\ GoTo(p, "selectWindow")
        /\ selector' = [selector EXCEPT ![p] = "latest"]
        /\ UNCHANGED <<files, cmd, batch, names, count, seq, offset, seenIndex, seenLines, out, ghosts>>
     \/ WindowsReadable /\ count[p] = 0 /\ End(p, "ok") /\ UNCHANGED <<files, seenIndex, seenLines, acked>>
     \/ ~WindowsReadable /\ Fail(p)

(* selectWindow reads the window files first, *)
SelectWindow(p) ==
  /\ pc[p] = "selectWindow"
  /\ \/ /\ WindowsReadable /\ DOMAIN windows # {}
        /\ seenIndex' = [seenIndex EXCEPT ![p] = windows[Chosen(selector[p], DOMAIN windows)]]
        /\ GoTo(p, "selectEvents")
        /\ UNCHANGED <<files, cmd, batch, selector, names, count, seq, offset,
                       seenLines, out, ghosts>>
     \/ (~WindowsReadable \/ DOMAIN windows = {}) /\ Fail(p)

(* then the log. *)
SelectEvents(p) ==
  /\ pc[p] = "selectEvents"
  /\ \/ /\ LogReadable
        /\ seenLines' = [seenLines EXCEPT ![p] = Selected(selector[p], seenIndex[p].win)]
        /\ End(p, "ok")
        /\ UNCHANGED <<files, seenIndex, acked>>
     \/ ~LogReadable /\ Fail(p)

(***************************************************************************)
(* Faults.  A process is killed between two calls; with "tear" also inside *)
(* one: while a window file is empty, or with part of the append on disk.  *)
(***************************************************************************)
Crash(p) ==
  /\ "crash" \in Faults /\ faults < MaxFaults
  /\ pc[p] # "idle"
  /\ pc[p] = "fill" => "tear" \in Faults
  /\ faults' = faults + 1
  /\ torn' = (torn \/ pc[p] = "fill")
  /\ Reset(p, "crashed")
  /\ UNCHANGED <<files, seenIndex, seenLines, acked>>

(* k whole lines reach the disk, then nothing, a partial line, or - the    *)
(* write stopping one byte short - no newline after the k-th.              *)
TearAppend(p) ==
  /\ "tear" \in Faults /\ faults < MaxFaults
  /\ pc[p] = "append"
  /\ \E k \in 0 .. Len(batch[p]), end \in {"line", "partial", "nonewline"} :
       LET written == SubSeq(LinesOf(p), 1, k) \o (IF end = "partial" THEN <<Garbage>> ELSE <<>>)
       IN  /\ end = "nonewline" => k > 0
           /\ end # "nonewline" => k < Len(batch[p])
           /\ written # <<>>
           /\ events' = Appended(written)
           /\ openTail' = (end # "line")
  /\ eventsExist' = TRUE
  /\ faults' = faults + 1
  /\ torn' = TRUE
  /\ Reset(p, "crashed")
  /\ UNCHANGED <<windows, latest, manifest, seenIndex, seenLines, acked>>

(***************************************************************************)
(* Next state.  Work(p) is the rest of a started command.                  *)
(***************************************************************************)
Begin(p) == \E c \in Command, b \in Batches \cup {<<>>}, sel \in Selectors \cup {None} :
              Start(p, c, b, sel)

Work(p) ==
  \/ CheckLog(p) \/ CreateLog(p)
  \/ ManifestWindows(p) \/ ManifestEvents(p) \/ OpenManifest(p) \/ CloseManifest(p)
  \/ ReadSequence(p) \/ ReadOffset(p) \/ AppendEvents(p)
  \/ TruncateWindow(p) \/ FillWindow(p) \/ WriteLatest(p)
  \/ ListWindows(p) \/ ExportEvents(p) \/ ExportWindows(p)
  \/ SelectWindow(p) \/ SelectEvents(p)

Next == \E p \in Proc : Begin(p) \/ Work(p) \/ Crash(p) \/ TearAppend(p)

Spec == Init /\ [][Next]_vars

(* Synchronous calls without a lock never wait: a started command goes on  *)
(* to its end unless its process is killed.                                *)
FairSpec == Spec /\ \A p \in Proc : WF_vars(Work(p))

(***************************************************************************)
(* Type invariant.                                                         *)
(***************************************************************************)
Label == {"idle", "exists", "create", "openWindows", "openEvents", "openManifest",
          "sequence", "offset", "append", "truncate", "fill", "latest",
          "closeWindows", "closeEvents", "closeManifest", "listWindows",
          "exportEvents", "exportWindows", "selectWindow", "selectEvents"}

Manifest == [event_count : Nat, window_count : Nat, latest_window : Nat \cup {None}]

(* Every file holds what some command writes to it, whole or torn. *)
TypeOK ==
  /\ events \in Seq(Event \cup {Garbage})
  /\ eventsExist \in BOOLEAN /\ openTail \in BOOLEAN
  /\ DOMAIN windows \subseteq Nat
  /\ windows \in [DOMAIN windows -> Index \cup {Empty, Garbage}]
  /\ latest \in Index \cup {None}
  /\ manifest \in Manifest \cup {None}
  /\ pc \in [Proc -> Label]
  /\ cmd \in [Proc -> Command \cup {None}]
  /\ batch \in [Proc -> Seq(Payload)]
  /\ selector \in [Proc -> {"latest", "previous", "all", None}]
  /\ names \in [Proc -> SUBSET Nat]
  /\ count \in [Proc -> Nat] /\ seq \in [Proc -> Nat]
  /\ offset \in [Proc -> Nat] /\ base \in [Proc -> Nat]
  /\ seenIndex \in [Proc -> Index \cup {None}]
  /\ seenLines \in [Proc -> SUBSET Nat]
  /\ out \in [Proc -> {"ok", "failed", "crashed", None}]
  /\ ingests \in Nat /\ faults \in Nat /\ torn \in BOOLEAN
  /\ acked \subseteq Nat

(***************************************************************************)
(* Properties of every deployment, whatever runs at once and however the   *)
(* processes end (the log existing before they start).                     *)
(***************************************************************************)

(* The log is never created while another process may be appending.        *)
Creates(p) == Allowed[p] \cap {"init", "ingest"} # {}
NoInitRace == ~Fresh \/ \A p, q \in Proc : Creates(p) /\ Creates(q) => p = q

(* An event an ingest reported as ingested stays in the log, readable,     *)
(* through crashes, torn appends of others and concurrent commands: the    *)
(* closing manifest re-reads the log before the ingest reports success.    *)
AcknowledgedIntact ==
  \A i \in acked : i \in DOMAIN events /\ events[i] # Garbage

(* Window files are numbered 0, 1, 2, ... without a gap, so the number of  *)
(* files (what the next ingest uses) always names the next window or, with *)
(* two ingests at once, a window that already exists.                      *)
WindowsContiguous == DOMAIN windows = 0 .. Cardinality(DOMAIN windows) - 1

(* Write-ahead order: as long as the log can be read, every event a window *)
(* index names is in it, under that window.                                *)
IndexedEventsLogged ==
  LogReadable =>
    \A k \in DOMAIN windows : windows[k] \notin {Empty, Garbage} =>
      \A j \in DOMAIN windows[k].ids : \E i \in DOMAIN events :
        IdOf(events[i]) = windows[k].ids[j] /\ events[i].win = k

(***************************************************************************)
(* Properties of one process at a time, killed and restarted.              *)
(***************************************************************************)
Damaged == ~LogReadable \/ ~WindowsReadable

(* Event ids are unique: an event's number is its line number, through     *)
(* crashes that leave events no index names.                               *)
EventIdsUnique ==
  LogReadable => \A i, j \in DOMAIN events : IdOf(events[i]) = IdOf(events[j]) => i = j

(* A crash between two calls never makes the store unusable: afterwards    *)
(* init, list and ingest succeed, and only a store without any window      *)
(* refuses observe and export.                                             *)
RecoversFromCrash ==
  ~torn => \A p \in Proc : out[p] = "failed" => cmd[p] \in {"observe", "export"}

(* A store with an unreadable file is frozen: none of its files is written *)
(* again, except by the ingest that just made it so (which has yet to list *)
(* the windows and read the log for its closing manifest).                 *)
DamagedStoreFrozen ==
  [][Damaged /\ (\A p \in Proc : pc[p] \notin {"truncate", "fill", "latest"}) => UNCHANGED files]_vars

(* When a command has succeeded the manifest states the store as it is,    *)
(* also if an earlier one was killed before its closing manifest; and as   *)
(* long as the padding keeps string order, the window it calls the latest, *)
(* the one `--window latest` selects by sorting file names and the one in  *)
(* windows/latest.json after an ingest are all the newest.  With one       *)
(* window more than PadLimit they are not.                                 *)
ManifestFresh ==
  \A p \in Proc : out[p] = "ok" /\ cmd[p] # "observe" =>
    LET n == Cardinality(DOMAIN windows)
    IN  /\ manifest.event_count = Len(events) /\ manifest.window_count = n
        /\ n = 0 => manifest.latest_window = None
        /\ n \in 1 .. PadLimit =>
             /\ manifest.latest_window = n - 1 /\ Chosen("latest", DOMAIN windows) = n - 1
             /\ cmd[p] = "ingest" => latest = windows[n - 1]

(* "window index preserves event residuals": between commands, a window's  *)
(* index covers every event logged under its number.  It takes that no     *)
(* ingest was killed: one killed after its append leaves events whose      *)
(* number the next ingest takes again, and no index covers the first ones. *)
IndexCoversWindow ==
  LogReadable /\ (\A p \in Proc : pc[p] = "idle") =>
    \A k \in DOMAIN windows : windows[k] \notin {Empty, Garbage} =>
      \A i \in DOMAIN events : events[i].win = k =>
        \E j \in DOMAIN windows[k].ids : windows[k].ids[j] = IdOf(events[i])

(***************************************************************************)
(* Properties of one ingesting process beside readers, none killed.        *)
(***************************************************************************)

(* An observation is of one whole window: the events it returns are those  *)
(* its index names.  The writer logs events before it writes the index and *)
(* the reader reads the index before the log.                              *)
ObservedWindowComplete ==
  \A p \in Proc : cmd[p] = "observe" /\ out[p] = "ok" /\ selector[p] # "all" =>
    /\ Len(seenIndex[p].ids) = Cardinality(seenLines[p])
    /\ \A i \in seenLines[p] : \E j \in DOMAIN seenIndex[p].ids :
         seenIndex[p].ids[j] = IdOf(events[i])

(* Readers never make the ingesting process fail: it ends, successfully. *)
WriterSucceeds ==
  \A p \in Proc : (pc[p] # "idle" /\ cmd[p] = "ingest") ~> (pc[p] = "idle" /\ out[p] = "ok")

(* The store implements a ledger of windows: the window of an ingest comes *)
(* into being when its index file is filled, with the events logged for it.*)
Bodies(es) == [i \in DOMAIN es |-> es[i].body]
InOrder(S) == CHOOSE f \in [1 .. Cardinality(S) -> S] : \A i, j \in DOMAIN f : i < j => f[i] < f[j]
LinesUnder(k) == {i \in DOMAIN events : events[i].win = k}
Logged(k)  == [i \in 1 .. Cardinality(LinesUnder(k)) |-> events[InOrder(LinesUnder(k))[i]]]
Filled     == {k \in DOMAIN windows : windows[k] # Empty}
Ledger == INSTANCE WindowLedger WITH
  ledger <- [k \in 1 .. Cardinality(Filled) |-> Bodies(Logged(k - 1))],
  answer <- [p \in Proc |-> IF seenIndex[p] = None THEN None ELSE Bodies(seenIndex[p].ids)]

ImplementsLedger == Ledger!Spec
=============================================================================
