---------------------------- MODULE MCStockBatches ----------------------------
(* Instances of StockBatches for TLC: two intakes of two units, the second *)
(* of which has no date.                                                   *)
EXTENDS StockBatches, TLC

CONSTANTS o1, o2, s1, s2

MCSize == [b \in Batches |-> 2]

(* A CONSTRAINT for a look at ExpiredStockIsOutOfTheCount: only intakes    *)
(* that are recorded and counted before their date is past.                *)
RecordedInTime == \A b \in expired : batch[b].status = "absent" \/ b \in counted

Symmetry == Permutations(Orders) \cup Permutations(Sweeps)
=============================================================================
