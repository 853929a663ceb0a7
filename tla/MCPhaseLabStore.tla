-------------------------- MODULE MCPhaseLabStore --------------------------
(* Instances of PhaseLabStore for TLC. *)
EXTENDS PhaseLabStore, TLC

CONSTANTS w, r, a, b

(* An empty directory ingest, one report, two reports at once. *)
MCBatches == {<<>>, <<a>>, <<a, b>>}
MCSmallBatches == {<<a>>, <<a, b>>}

MCWriterAndReader == w :> {"init", "ingest"} @@ r :> {"list", "export", "observe"}
MCWriters         == [p \in Proc |-> {"init", "ingest"}]
MCIngestAndList   == [p \in Proc |-> {"ingest", "list"}]
MCAnything        == [p \in Proc |-> Command]

(* Two processes that issue the same commands are interchangeable. *)
MCSymmetry == Permutations(Proc)
=============================================================================
