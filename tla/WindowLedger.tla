---------------------------- MODULE WindowLedger ----------------------------
(***************************************************************************)
(* What the Phase Lab store promises: a ledger of windows.  An ingest adds *)
(* one window holding its whole batch, in one step; a window once added    *)
(* never changes; an observation answers with a window of the ledger.      *)
(***************************************************************************)
EXTENDS Naturals, Sequences

CONSTANTS Proc, Payload, None

VARIABLES ledger,   \* the windows, each a sequence of payloads
          answer    \* the window each observer was last given

vars == <<ledger, answer>>

Init == ledger = <<>> /\ answer = [p \in Proc |-> None]

Ingest ==
  /\ Len(ledger') = Len(ledger) + 1
  /\ SubSeq(ledger', 1, Len(ledger)) = ledger
  /\ ledger'[Len(ledger')] \in Seq(Payload)
  /\ UNCHANGED answer

(* "latest" answers with the last window, "previous" with the one before. *)
Observe(p) ==
  /\ \E k \in {Len(ledger), Len(ledger) - 1} \cap DOMAIN ledger :
       answer' = [answer EXCEPT ![p] = ledger[k]]
  /\ UNCHANGED ledger

Forget(p) == answer' = [answer EXCEPT ![p] = None] /\ UNCHANGED ledger

Next == Ingest \/ \E p \in Proc : Observe(p) \/ Forget(p)

Spec == Init /\ [][Next]_vars
=============================================================================
