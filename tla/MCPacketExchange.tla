-------------------------- MODULE MCPacketExchange --------------------------
(* Instances of PacketExchange for TLC. *)
EXTENDS PacketExchange, TLC

CONSTANTS o, baseline, grounding, bridge, residual, frontier

Residue(name, kind, value) == [name |-> name, kind |-> kind, value |-> value]

(* The runtime step has one obligation and coordinates of the same kind    *)
(* more than the report held ready.                                        *)
MCCoordinates == {Residue("x", residual, 1), Residue("y", residual, 2), Residue("z", frontier, 1)}
MCStepLedger == {c \in MCCoordinates : c.kind = residual}
MCStoredLedger == {Residue("x", residual, 1), Residue("z", frontier, 1)}

(* A report with nothing left open that brings its identity context along, *)
(* and one that says it is settled.                                        *)
Others == [OwnReport(None, None, {}, {}) EXCEPT !.operational = TRUE, !.context = TRUE]
Settled == [OwnReport(None, None, {bridge}, {Residue("z", frontier, 1)}) EXCEPT !.settled = TRUE]
MCForeignReports == {Others, Settled}

(* A copy of the packet of a step without an identity context that lists   *)
(* no debts and is not accepted.                                           *)
Bare == [schema |-> "PacketExchangeEnvelope",
         digest |-> OwnReport(None, FALSE, {baseline, grounding, bridge}, MCStepLedger),
         accepted |-> FALSE, usable |-> TRUE, settled |-> TRUE, missing |-> {}, reasons |-> {},
         blockers |-> {}, residual |-> (residual :> 5 @@ frontier :> 0), words |-> FALSE]
MCForeignEnvelopes == {Bare}
=============================================================================
