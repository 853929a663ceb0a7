# Verification of percolation-inversion-compiler-ts

TLA+ modules of the parts of PIC-TS that keep state or decide something, the TLC
configurations that check them on small instances, and theorems about them checked by
TLAPS. Paths below are those of the repository (`src/phase_lab/index.ts` is `src/src/...` in
`PROJECT.json`, where every mapped definition names the lines it translates).

## The system

PIC-TS is a library and a command line, `pic-ts`. Every command is a short process that
reads JSON files, computes a report, prints it and sometimes rewrites a file. There is no
server, no lock and no asynchronous call in the core: concurrency is several processes on one
directory, and failure is a process killed between, or inside, two synchronous file-system
calls. Two directories or files are shared and rewritten in that way, the Phase Lab store and
the agent inbox; everything else is a function from input files to a report.

| Component | State it keeps | Operations | What makes it correct |
| --- | --- | --- | --- |
| Phase Lab store (`phase_lab/index.ts` 233-489, 1273-1343) | `events.jsonl`, `windows/<id>.json`, `windows/latest.json`, `manifest.json` | init, ingest, list-windows, export, and the readers observe/graph/closure/certify | acknowledged events stay; windows are numbered without gaps; an index never names an event that is not logged; observers see whole windows; a crash does not make the store unusable |
| Effective graph and certificates (`phase_lab/index.ts` 51-231, 491-1271) | none of its own: rebuilt from the selected window's events | graph, closure, observe, threshold-status, certify, compare-window | raw and candidate-only volume is diagnostic only; closure stands on contributing nodes; order of ingestion does not matter |
| Agent inbox and messages (`agent/messages.ts`) | one JSON file: messages, peers, seen nonces | inbox init/append/verify/export, message create/send/receive/verify | acknowledged messages stay in order; nothing unverified is accepted; replay is refused; a broken file is never silently replaced |
| Operation gate, MCP and A2A gates (`interop/ccr.ts` 892-2520) | none of its own: report files and a trace an agent keeps between commands | descriptor, preflight, card and handoff reports, trace normal form, trace check, operation gate | fail closed: missing, stale or contradicting evidence blocks readiness (the code does not hold to it for a missing authority envelope) |
| Phase acceleration (`interop/ccr.ts` 2521-3280) | none of its own: target, baseline and capital files an agent rewrites | capital witness, acceleration report with target, baseline and interval checks | a candidate is ahead of its baseline everywhere; a recorded witness counts for what its packet does; less evidence never certifies more |
| Other CCR reports (`interop/ccr.ts`) | none | task and residual emission, ALT bridge, SQOT queues, BIT registry, token pipeline, benchmarks | counting and deduplication |
| Runtime step, agent intake and check, phase plan (`runtime`, `agent`, `phase/index.ts`) | the identity context, a file that others rewrite | step, intake, check, plan | a plan and its step agree on the identity; what a step leaves open is not lost by what wraps it |
| Packet envelopes (`packet/index.ts`) | packet files an agent keeps and exchanges | export, merge, lineage digest, inspection | a merge keeps every debt, whichever copy of a packet it keeps; its order does not matter |
| BIT engine, SQOT controller, ALT lift (`bit_engine`, `sqot_controller`, `alt_lift`) | none | bottlenecks and inversions, queue reports, lift: readings of a printed graph | readings agree with each other; queue pressure and raw volume are no progress |
| TRC adapter (`trc_adapter`) | none | readings of a trace | candidate-only material is not promoted |
| Core and io (`core`, `io`), rendering (`render`) | none | JSON, statuses, residual ledgers, schemas, fixtures, markdown | helpers |

The components meet at the files. `ingest` turns any report of the other components into an
event of the store; the graph commands read the store; certificates read the graph; `agent
message ingest` and `packet` turn messages into reports that may be ingested. What the graph
commands and the engines print is itself a report, so it may come back through `ingest`.

What is hard here:

* interleavings of processes on the store and on the inbox: `existsSync` then
  `writeFileSync`, a count read and used later, a whole-file rewrite of what was read;
* crashes between the five writes of an ingest, and inside one (a truncated file, a torn
  append, a last line without its newline);
* retries and loops: a message sent again, a report ingested again, the program's own reports
  ingested;
* the order in which reports refer to each other, and what an edge counts when its references
  do not resolve or belong to a candidate-only event;
* one file read twice by one command, and packets of one digest that differ;
* numeric edges: residuals and amounts that are no numbers, charges that are missing, string
  order of window names.

`PROJECT.json` lists each hazard at its line with the properties that watch it.

## Modules

| Module | Models | Proofs |
| --- | --- | --- |
| `PhaseLabStore` | the store, one file-system call per step | `PhaseLabStoreProofs`, for any processes; `PhaseLabWriterProofs`, with one process that ingests |
| `WindowLedger` | what the store promises: a ledger of windows that grows by whole batches | refined in `PhaseLabWriterProofs` |
| `EffectiveGraph` | events, graph, closure, observation, certificates, as operators on a sequence of events | |
| `GraphReadings` | what the BIT engine, the SQOT controller, the ALT lift and the comparison read off them; what each is as a report | |
| `PhaseLabLoop` | the log of events, ingested reports and printed readings | `EffectiveGraphProofs` |
| `AgentInbox` | the inbox file and message verification, one call per step | `AgentInboxProofs` |
| `OperationGate` | the reports behind the operation gate, the trace, the gate | `OperationGateProofs` |
| `PhaseAcceleration` | the target, the baseline, the capital file, the acceleration report | `PhaseAccelerationProofs` |
| `PacketExchange` | runtime reports, what wraps them, packets, merges, and what each is when ingested | `PacketExchangeProofs` |
| `NumberLemmas` | least and greatest elements of sets of naturals, ascending lists, sums over finite sets | itself |
| `MC*` | the instances that TLC checks | |

### PhaseLabStore

State: the lines of `events.jsonl` with whether it exists and whether its last line is ended;
the window files by number; `latest.json`; `manifest.json`; and for each process the command it
runs, the next call, and what it has read. A line or file is a value: a record, `Garbage` (cut
short, glued, overlaid) or `Empty` (opened with O_TRUNC and not yet written).

`Start` is a command line. `CheckLog`, `CreateLog` are `initPhaseLabStore`; `ManifestWindows`,
`ManifestEvents`, `OpenManifest` are `writeManifest`, which opens every command but observe and
closes an ingest (`CloseManifest`); `ReadSequence`, `ReadOffset`, `AppendEvents`,
`TruncateWindow`, `FillWindow`, `WriteLatest` are the calls of `ingestPayloads` in its order;
`ListWindows`, `ExportEvents`, `ExportWindows`, `SelectWindow`, `SelectEvents` are the readers.
Wherever the code parses a file, the action has a second disjunct `Fail`: an uncaught exception
ends the process and undoes nothing. `Crash` and `TearAppend` are the operating system.

A read of all window files, or of the log, is one step, though the code reads window files one
by one: a window file is filled once and is then rewritten only by an ingest that took the
same number. A batch is appended in one step or torn. `latest.json` and the manifest are
written in one step: no command parses them.

`WindowLedger` is the abstract specification. The refinement maps a window to the bodies of
the events logged under its number, from the moment its file is filled, and an observer's
answer to the window index it selected.

### EffectiveGraph, GraphReadings, PhaseLabLoop

`EffectiveGraph` is a set of operators on the events of a graph. A report is reduced to its
digest, source kind, acceptance, candidate-only and blocking flags, number of missing
obligations, residual and edges, and to `marks`, the blockers whose words its source kind, an
obligation or a reason holds (`eligibilityBlockers` searches the joined text). A report cannot
mention its own digest nor that of a report that mentions it, which `GraphAssumption` states: a
digest is a hash of the content that holds the mention. Nor is the digest of a given report that
of a reading, for the same reason. `EdgeOf` follows `edgesFromEvents` in
what it does when references do not resolve: sources are dropped, and the target becomes the
edge's own node. A node may contribute nothing and have no blocker (`settled`, command-like
text): `bit diagnose` then names no bottleneck for it.

`GraphReadings` has an operator for each report of the engines over a graph, and for each
printed reading the report it is when `ingest` reads it back (`ReadingOf`): its kind, whether
it says it is accepted, and which of its edges `extractEdges` finds again. A BIT report with a
blocked node is blocked itself, because its wording ("node is blocked by") holds the marker
`node ` of a command.

`PhaseLabLoop` has the state: the sequence of events and the number of windows. `Ingest` is
`phase lab ingest` in one step, of reports, packets, or an empty directory; its files are the
given reports and `Printed`, the readings of any window, alone or with all before it. A window
never changes once it is ingested, so a file printed at any earlier time is a function of the
log as it is now, and no variable is needed for it. The digest of a reading is what made it: the
command, the window and its extent. `Window` lists the events of a window in the order of the
log (`InOrder`). `Read` stands for the commands that print. References of the given reports are
to given reports (`Ref`): one written after a reading was printed could name its digest.

### AgentInbox

State: the inbox file, and for each process its command, envelope, profile, the inbox it will
write and the report it printed last. `CheckExists`, `ReadInbox`, `TruncateInbox`, `FillInbox`
are the calls of `appendAgentMessage`, `writeAgentInbox` and `receiveAgentInbox`; `Verified` is
`verifyAgentMessage`; `Delivery` is `deliveryReport`. `kept`, `overlap`, `cut` and `put` are
history: what was acknowledged since the last init that came to its end, whether two commands
that may write were ever under way together, whether a writer was killed between the two calls
of its write and none has written since, and what each process set out to write. `TakeTurns`,
that no such commands have ever overlapped, is what the guarantees about kept messages need:
the code has no lock, and two writers under way together lose each other's messages; whoever
takes turns may be any number of processes. Even then `AcknowledgedKept` has one exception,
which the formula names: `writeFileSync` truncates before it writes, so the file is empty
during a write, and a writer killed there leaves it empty, with every acknowledged message
lost. The profile
`adversarial` asks for the same as `production` and is left out. A file that parses is taken
to be schema-valid: only the program writes it.

### OperationGate

State: the descriptor the tool server gives now, the report files of the four kinds, the trace
normal form, and what the last check printed. `CheckDescriptor`, `Preflight`, `CheckCard`,
`CheckHandoff`, `TraceNormalize`, `TraceCheck`, `OperationGate` are the commands;
`ChangeDescriptor` is the tool server, `Receive` a report of another program. `OperationGate`
is given a profile, which says which of the report files it embeds (`uses`): an agent builds the
profile from the files it has.

A descriptor stands for its own digest. `sound` of a descriptor, card, handoff or call sums up
the checks that compare one field with a list; `signed` and `changed` (the digest differs from
the pinned one) are kept apart, for the strict profiles and for the route of a stale report.
Residuals are the set of their kinds, since readiness only asks whether one is left. The names
of resources and tolerances are one small set, and what is used of each is a number with a
limit, without one, or not given (`Usage`). `Blocker` is the set of the blockers a gate may
print. `FIXED_CREATED_AT`, at which every fixture's
envelope expires, is time 0. `CompactReport` is what `--compact` leaves of a preflight: `ok`,
and no hash.

The order of the defaults is the module's subject: `ContextValue` asks the profile before the
trace; `ReferenceTime` falls back to the first step with a clock; `GateReport` lets structured
reports speak before the legacy flag; `FixtureDryRun` needs mode and policy, each from either
file.

### PhaseAcceleration

State: the target, the baseline, the lines of the capital file, and the last report. A line is
an ALT packet, or the witness that `alt capital-witness` made of it, together with the packet it
was made of (history: `Witnesses` does not read it). `AddPacket`, `AddWitness`, `WriteTarget`,
`WriteBaseline` are the agent, `AccelerationReport` the command.

Amounts are integers, `Garbage` (a text, which `floatValue` reads as 0) or `None`. Required
fields that nothing else reads are summed up in one flag (`complete`, `refs`). A deployment or
activation claim, the control and the path-law reports are other reports of `interop/ccr.ts`.

### PacketExchange

State: the identity context file, the runtime reports and packets on disk, and what the last of
the other commands printed. `RewriteIdentity` and `Receive` are other programs; `RuntimeStep`
and `ExportPacket` write what later commands read; `AgentIntake`, `AgentCheck` and
`MergePackets` print. `phase plan` (and `agent accelerate`, which calls it) reads the identity
file twice, for its runtime step and for its own verdict, so it is two actions, `BeginPlan` or
`BeginPlanOn` and `FinishPlan`, and the file may change between them; `steady` is history of
whether it did.

A digest is the report it is the digest of. `OwnReport` holds what every runtime report of the
program has in common; its obligations and ledger are recorded data, constants of the model. A
request that asks for nothing is answered with the report held ready, which has one obligation
fewer. `Merge` follows `mergePacketEnvelopes`: the first packet of a digest is kept, and what is
carried forward is summed over all of them. `AsReport`, `LineageReport` and `InspectionReport`
say what `ingest` sees of each, through `EffectiveGraph!EventOf`: the fields of its top level.

## Runs

| Run | Instance | Shows |
| --- | --- | --- |
| `store_shared` | a writer and a reader, 2 ingests, nobody killed, with fairness | observed windows are whole; an index covers its window's events; the writer ends successfully; refinement of `WindowLedger` |
| `store_faults` | one process, 3 ingests, 2 faults | ids stay unique, a crash between calls is survived, a damaged store is never written, the manifest states the store |
| `store_writers` | two writers, 3 ingests, 1 fault, log present | acknowledged events, numbering, write-ahead order |
| `inbox_shared` | two processes that write and receive, one of which may be killed | while they take turns writing nothing acknowledged is lost but by a kill between truncation and write, which loses everything, and one bad message stops every receive; when writes overlap, messages may be lost, never reordered |
| `inbox_replay` | one process, two sends | violation: a nonce accepted twice |
| `graph` | five reports and the printed readings, three events in up to three windows, as reports or packets | raw volume adds nothing and only occupies the queue; closure stands on contributing nodes, none of them held; order is irrelevant; printed readings add no edge |
| `graph_candidate` | the same | violation: a candidate-only packet adds an effective edge |
| `gate` | a server with two descriptors, one card, one handoff, a foreign report of each kind, 11 traces, 23 profiles | mixed reports block; no flag, waiver or clock opens the gate; nothing taken from a step or a route opens it, but for the expiry on a fixture's dry run and the envelope as a whole, which takes its own blockers along; it is stricter than the trace check |
| `gate_authority` | the same | violation: a step without an envelope is ready |
| `acceleration` | two coordinates, two charges, 7 packets raw or recorded, 5 targets, 5 baselines, up to 3 lines | recording changes nothing; proxies add nothing; candidates are ahead everywhere; more capital and less evidence move candidacy one way |
| `exchange` | one text, two foreign reports, a foreign copy of a packet, 4 files, merges of up to 3 | a plan agrees with its step; no merge loses a debt or depends on order; its lineage accounts for it; what is open does not contribute |
| `exchange_feed` | the same with 3 files, merges of up to 2 | violation: an intake report contributes when ingested |

Bounds. Two ingests at once are the least that race, and a third one reads what the race left.
Batches of zero, one and two reports tell apart an empty window, an append that can be glued,
and one that can be torn between lines. Two faults let a second crash hit the recovery from the
first. `Base` and `PadLimit` are the code's 10 and 10^4: window names are padded to four digits,
and sort as numbers below it. `store_faults` counts in base 3 with a limit of 3, so that a fourth
window gets a longer name within four ingests; `ManifestFresh` is stated up to the limit. Three graph events are enough for an edge, its source and
a later event that its reference resolves to. The traces and profiles of the gate differ from a full one in one or two places each,
a place for every blocker and every default; with two descriptors a report is of the present
one or of another. Two charges of the six, one given as a text, are enough for a bound that is
given, declared or missing; three lines hold a sum, a proxy and a line for the other coordinate.
A foreign copy of a packet that lists no debts is the one that a merge could lose them by; four
files hold two packets of one report and two of others. `MaxIngests`, `MaxFaults`, `MaxWrites`,
`MaxEvents`, `MaxLines`, `MaxFiles`, `MaxMerged` bound counters that the code does not bound; the
theorems hold for every value of them.

Fairness. `FairSpec` asks that a process that started a command takes its next call: calls are
synchronous and wait for nobody. Nothing is asked of starting commands, nor of crashes.

## Findings

* `inbox_replay`: `seen_nonces` is read and never extended, so no replay is ever refused.
* `graph_candidate`: an edge counts by its own `accepted` flag, whatever the event it comes in.
* `exchange_feed`: `eventFromPayload` reads obligations at the top level of a report. An intake
  report and a merge report hold them one level down and do not say they are candidates, so
  each contributes when ingested; the check report made of the same intake does not. A
  rebalance plan of `sqot_controller` contributes for the same reason.
* `gate_authority`: `operationGateReport` drops the trace's `missing_authority_envelope` (line
  1889), to judge authority again, and `authorityResiduals` then passes a missing envelope over
  (line 1724). A trace whose only fault is a step without authority is ready.

Seven things the code does that a reader may not expect are described under "hazards" and have
no property of their own: an ingest killed between its append and its window file leaves events under a number
that the next ingest takes again, whose index counts its own events only (`phase_lab` 400);
`structuredReportAccepted` (`interop/ccr.ts` 1261) takes `ok: true` for acceptance, which rejected
reports carry as well; a `--compact` preflight has `ok: true` and no hash to compare
(`cli/main.ts` 221); a candidate needs to reach some threshold of the target, not each
(`interop/ccr.ts` 3105); a plan made from a dynamic runtime step keeps the obligations and the
residuals of the recorded plan (`phase` 108); a manifest written beside a second process may go
back to an earlier window (`phase_lab` 366); and the same packet listed twice in a capital file
counts twice (`interop/ccr.ts` 3027). Content ingested under two kinds shares one node id
(`phase_lab` 614): the graph's properties exclude it.

## Theorems

TLC checks a property on one instance; a theorem states it for every value of the constants that
the named `ASSUME` of its module admits. Each rests on an inductive invariant, proved action by
action, that is stronger than the property.

### Store

For any processes, batches, faults and bounds (`StoreAssumption`), in `PhaseLabStoreProofs`:

* `TypeCorrect` and `WindowsAlwaysContiguous` from the inductive invariant `StoreInv`: the type
  invariant and `Numbering`. A window number is the count of the files when it was read; files
  are never removed; so at the time of writing it is at most the present count. `Numbering`
  says this of every number a process holds, and of the sets of names it read, which is what
  makes `LastName` defined.
* `AcknowledgedEventsIntact`, assuming `NoInitRace` (the log exists beforehand, or only one
  process runs commands that create it). `LogKept` says that a step loses no readable line, except
  an open last line; `AckInv` says that the lines of an ingest past its append are safe or the log
  cannot be read, and safe once it has read the log for the closing manifest. That second reading
  is what the guarantee rests on: an append glued to a torn line is noticed before success is
  reported. Without `NoInitRace` the statement is false: two processes may both find no log, and
  the second creates it over what the first appended.
* `IndexedEventsAlwaysLogged` from `LoggedInv`, under the same assumption: an ingest past its
  append finds its events in the log, and indexes are filled only then.

With one process that ingests (`OneIngester`), beside any that read, and `NoInitRace`, in
`PhaseLabWriterProofs`. The store has no lock, so these are false of two ingests at once, which
may read one sequence number and one offset:

* `EventIdsAreUnique`, however often the process is killed, from `NumberedLog`: while the log can
  be read, the number of an event is its line, and an ingest about to append holds the length.
* `WindowsCovered` and `ObservationsComplete`, with no faults (a killed ingest leaves events that
  no index names, which the next window's number is given to), from `UndisturbedInv`. Its parts
  say that the number an ingest holds is new (`NewWindow`), that the log is sound, that each index
  names all the events of its number but those being ingested (`Covered`), that a reader between
  its two reads holds an index as it is (`Seen`), and what an ingest reports.
* `StoreImplementsLedger`: the same, with `Counted` (the windows are at most the ingests) and
  `MaxIngests <= PadLimit`, past which file names stop sorting by number and `latest` is not the
  newest. Filling a window file is the ledger's step of adding a batch, whole; selecting an index
  is its observation; every other step is a stutter.

With one process (`OneProcess`), which may be killed between and inside its calls:

* `CrashesAreRecovered` from `AloneInv`: what it holds is what the files say, so a call fails only
  for a file that was cut off or for want of a window.
* `DamageIsFrozen` from `ReadBack`: it reads back every file before it writes one again, except
  in the ingest that did the damage.
* `ManifestAlwaysFresh` from `ReadBack` and `Current`: the closing manifest is written from a
  reading of the log and the windows that nothing changed since, also when the ingest before was
  killed.

### Graph

For any reports, readings, thresholds and bounds (`GraphAssumption`, `LoopAssumption`), from
`LogInv` (the log is typed and numbered, and an event that is not accepted is candidate-only) and,
for the last four, `MadeOfFiles` (every event was made of a file there is, in a window there is):

* `RawVolumeIsDiagnostic`: after raw events are added, an edge that is positive is an old edge
  with the same sources and target. A reference that newly resolves leads to a raw event, which
  does not contribute, and so makes the edge negative. Nor do they free attention: with c of n
  nodes occupying the queue and k raw events more, c (n + k) <= (c + k) n.
* `RawVolumeCertifiesNothing`: by that, each threshold that failed fails again. The loads rise,
  as every raw event is candidate-only; the throughput falls; the residual debt rises with sums
  that are not negative. A defect stays one.
* `FeedbackIsInert`: the edges of a printed graph are found without evidence, those of every
  other reading are none; a digest that is not a given report's is only a reading's, and no
  reference names it, so no edge of an older event resolves differently.
* `ClosureStandsOnPositiveNodes`: by cases on whether any source of the edge resolves.
* `TypeCorrect`: `Window` lists events of the log, so what is printed of it is a report again.
  An ingest leaves all earlier windows as they are, so the files that were printed remain.
* `CountedIsNotHeld`: files of one digest are one report, so its copies of one kind contribute
  alike and the first speaks for each; a contributing node has no blocker, which is what
  quarantine, obstruction and bottlenecks are read off.
* `OrderDoesNotCount`: an edge in the reversed log has the same sources, target and verdict, by
  the same lemma on copies; the places of the edges map one to one.

### Gate

For any descriptors, cards, traces, foreign reports and profiles (`GateAssumption`), from
`GateInv`: the files hold reports and a trace in normal form, and what is printed is the gate of
the files as they are, since every command that writes a file leaves nothing printed.

* `TypeCorrect`, from `PrintedTyped`: blocker by blocker, for each command.
* `MixedReportsNeverPass`: a hash named by the preflight that differs from the descriptor
  report's is a blocker.
* `StructuredReportsArePrimary`: with a report, a route without blockers has none without its
  flag either.
* `NoWaiverDispatches`: a dispatch is no dry run, so every check was made in full; the reference
  time is a time, by the least step with a clock.
* `WeakerNeverOpens`: a removal leaves clock and domain of the step as they are and every check
  with at least the residuals it had, and an envelope made weaker that passes did so before. Two
  removals are not closed in the code, and the statement says how far they open. A fixture's dry
  run asks nothing of an envelope without an expiry, so an expired one may come to be ready
  without it; that is no dispatch. And a missing envelope is passed over where a revoked or
  expired one blocks, so without it an operation may be ready and be dispatched: then all that
  blocked it before is what this envelope was blocked for. That it is ready at all without an
  envelope is the finding `AuthorityRequired`.
* `TheGateIsStricter`: a profile that leaves clock, mode, policy and target to the trace asks at
  least what `NoProfile` asks. It exempts a missing envelope, which is the finding above.
* `TimeOnlyTakesAway`: field by field, nothing but the clock differs, and authority and evidence
  that suffice at a clock suffice at an earlier one.

### Acceleration

For any inputs and any number of lines (`AccelerationAssumption`), from `AccelerationInv`: a
recorded witness is that of its packet, and what is printed is the report on the files.

* `TypeCorrect`: the sums are over finite sets of integers (`NumberLemmas`), and the least margin
  is of a set that is finite and not empty.
* `RecordingIsHarmless`: `Witnesses` of a file equals that of the file with its packets.
* `NoCandidateOnProxies`: a proxy-only packet is never admitted, so its line leaves a residual.
* `ProxiesAddNothing`: its surplus counts as 0, so the sums over the lines that are left are the
  same.
* `CandidatesAreAhead`: the least margin is at most each margin.
* `WeakerNeverCertifies`: a line more adds its surplus, which is positive, to one sum. The
  interval verdict is different on a coordinate that nothing compared before: the surplus of the
  new line becomes a margin of its own, maybe the least one and less than the charges, which
  the statement excepts (`phaseAccelerationReport` takes the least over all that are named).

### Inbox

For any processes, messages and kills (`InboxAssumption`), from `IInv`: the copies a process
holds are what its next call needs.

* `InboxTyped`, the type invariant.
* `NoMessageLost`, from `Kept`: while commands that may write take turns, at most one is at work,
  its draft is the file it read with its message, and no other is between its read and its
  write. The file can be empty only during a fill, or after one that was killed (`cut`).
* `WritersKeepTheirOrder`: the messages of one writer in a draft are those of the file it read
  with at most one more at the end, and every file was a draft; an embedding of what is there
  into what was set out to be sent is extended by that one.
* `BadMessageStopsDelivery`, `BrokenInboxNeedsInit`: what the inbox holds is what was kept, and
  all of it is verified at once; only an init writes without reading.

### Exchange

For any outputs, obligations, ledgers of finite size, foreign reports and packets
(`ExchangeAssumption`), from `RunInv` (a plan under way holds the report of the identity file it
read, unless the file was rewritten since) and the type invariant:

* `TypeCorrect`: a summary of a finite ledger is a number for each kind, and so is a sum of them.
* `PlanAndStepAgree`, `WithdrawnIdentityStaysOut`: the program's own reports bring no identity
  context along, so a plan on one is judged by the file.
* `NoDebtIsLost`: a packet is in the union over the whole sequence, kept or not.
* `LineageAddsUp`: the places of the packets are those that are kept and those that are dropped,
  and a sum over both parts is the sum of two.
* `OpenReportsAreHeld`, from `OwnObligations` besides: reports of the program have an obligation
  of the step or of the report held ready, and those obligations are never empty.
* `MergeIgnoresOrder`: the unions range over the set of the packets; and when copies are equal,
  the kept ones are that set.

### Only model-checked

`WriterSucceeds`, which is liveness, and the four violations. Every other property of a passing
run is stated by a theorem. `RecoversFromCrash`, `DamagedStoreFrozen` and `ManifestFresh` are
proved for one process, which is the instance that checks them: a second one may read a file
that the first has just opened, or write after what it read has changed.

## Not modelled

Selection of a window by id; receiver lift and capital impact of the ALT lift; wording, labels
and layout of reports; schema validation; recorded fixtures; and the components of the table
that no module is named for: they keep no state and read one input each.

## Plan

1. Done: `PhaseLabStore`, `WindowLedger`, `EffectiveGraph`, `GraphReadings`, `PhaseLabLoop`,
   `AgentInbox`, `OperationGate`, `PhaseAcceleration`, `PacketExchange`, and the theorems above.
2. The token pipeline, SQOT queues and BIT registry of `interop/ccr.ts`: counting and
   deduplication against a reference definition.
3. Theorems: the order of ingestion for every permutation of the log rather than its reversal; the
   merge of packets against a specification over bags.
