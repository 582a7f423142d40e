-------------------------- MODULE AnnotationLedger --------------------------
(***************************************************************************)
(* What the annotation store promises (spec.md, section 4.1), with the     *)
(* stores themselves abstracted away.  Facts are numbered in the order     *)
(* they are recorded.  A recorded fact is pending until the consumer takes *)
(* it.  The consumer takes pending facts in some order, each at most once, *)
(* and appends them to its output.  Where a pending fact is kept, how      *)
(* stores are merged and in which order a batch is taken are the store's  *)
(* business.                                                               *)
(***************************************************************************)
EXTENDS Naturals, Sequences

CONSTANT MaxRecords   \* bound on the number of facts recorded

VARIABLES
    pending,   \* facts recorded and not yet handed to the consumer
    out,       \* facts handed to the consumer, in the order it got them
    issued     \* number of facts recorded so far

lvars == <<pending, out, issued>>

Facts == 1..MaxRecords

SeqRange(q) == {q[i] : i \in DOMAIN q}

Injective(q) == \A i, j \in DOMAIN q : q[i] = q[j] => i = j

LInit ==
    /\ pending = {}
    /\ out = << >>
    /\ issued = 0

(* A new fact is recorded. *)
Record ==
    /\ issued < MaxRecords
    /\ issued' = issued + 1
    /\ pending' = pending \cup {issued + 1}
    /\ UNCHANGED out

(* The consumer takes a batch q of distinct pending facts, in the order q  *)
(* gives them.                                                             *)
Consume ==
    \E n \in 0..MaxRecords : \E q \in [1..n -> pending] :
        /\ Injective(q)
        /\ out' = out \o q
        /\ pending' = pending \ SeqRange(q)
        /\ UNCHANGED issued

LNext == Record \/ Consume

LSpec == LInit /\ [][LNext]_lvars
-----------------------------------------------------------------------------
(* The contract's own correctness: every recorded fact is either pending  *)
(* or has been handed to the consumer, never both, and the consumer got   *)
(* each fact at most once.  Together: each recorded fact reaches the       *)
(* consumer exactly once if it is consumed at all, and none is invented.   *)
LedgerInv ==
    /\ issued \in Nat
    /\ out \in Seq(Nat)
    /\ Injective(out)
    /\ SeqRange(out) \cap pending = {}
    /\ SeqRange(out) \cup pending = 1..issued
=============================================================================
