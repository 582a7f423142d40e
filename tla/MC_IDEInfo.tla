---------------------------- MODULE MC_IDEInfo ----------------------------
EXTENDS IDEInfo, TLC

CONSTANTS h1, h2, h3, l1, l2, a1, a2

MCHolders == {h1, h2, h3}
MCLocs == {l1, l2}
MCAnns == {a1, a2}

(* Four add_ide_annotation calls: enough for two holders to record, one to *)
(* absorb the other twice, and an entry to be rewritten in place.          *)
MCMaxRecords == 4

(* Holders and annotations are only compared for equality. *)
MCSymmetry == Permutations(MCHolders) \cup Permutations(MCAnns)
=============================================================================
