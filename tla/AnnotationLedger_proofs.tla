----------------------- MODULE AnnotationLedger_proofs -----------------------
(***************************************************************************)
(* The store's contract delivers each recorded fact exactly once: LedgerInv *)
(* holds of every behaviour of LSpec, for every bound MaxRecords.  It is   *)
(* inductive as it stands.                                                 *)
(***************************************************************************)
EXTENDS AnnotationLedger, SequenceTheorems, TLAPS

(* The range of a concatenation is the union of the ranges. *)
LEMMA RangeConcat ==
    ASSUME NEW S, NEW s \in Seq(S), NEW t \in Seq(S)
    PROVE  SeqRange(s \o t) = SeqRange(s) \cup SeqRange(t)
<1>1. /\ s \o t \in Seq(S)
      /\ Len(s \o t) = Len(s) + Len(t)
      /\ \A i \in 1..Len(s) + Len(t) :
            (s \o t)[i] = IF i <= Len(s) THEN s[i] ELSE t[i - Len(s)]
    BY ConcatProperties
<1>2. /\ DOMAIN (s \o t) = 1..(Len(s) + Len(t))
      /\ DOMAIN s = 1..Len(s)
      /\ DOMAIN t = 1..Len(t)
    BY <1>1, LenProperties
<1>3. SeqRange(s \o t) \subseteq SeqRange(s) \cup SeqRange(t)
    <2> SUFFICES ASSUME NEW i \in 1..(Len(s) + Len(t))
                 PROVE  (s \o t)[i] \in SeqRange(s) \cup SeqRange(t)
        BY <1>2 DEF SeqRange
    <2>1. CASE i <= Len(s)
        BY <2>1, <1>1, <1>2 DEF SeqRange
    <2>2. CASE ~(i <= Len(s))
        <3>1. i - Len(s) \in 1..Len(t)
            BY <2>2, <1>2
        <3> QED
            BY <2>2, <3>1, <1>1, <1>2 DEF SeqRange
    <2> QED
        BY <2>1, <2>2
<1>4. SeqRange(s) \subseteq SeqRange(s \o t)
    <2> SUFFICES ASSUME NEW i \in 1..Len(s) PROVE s[i] \in SeqRange(s \o t)
        BY <1>2 DEF SeqRange
    <2>1. i \in 1..(Len(s) + Len(t)) /\ (s \o t)[i] = s[i]
        BY <1>1, <1>2
    <2> QED
        BY <2>1, <1>2 DEF SeqRange
<1>5. SeqRange(t) \subseteq SeqRange(s \o t)
    <2> SUFFICES ASSUME NEW j \in 1..Len(t) PROVE t[j] \in SeqRange(s \o t)
        BY <1>2 DEF SeqRange
    <2>1. j + Len(s) \in 1..(Len(s) + Len(t)) /\ (s \o t)[j + Len(s)] = t[j]
        BY <1>1, <1>2
    <2> QED
        BY <2>1, <1>2 DEF SeqRange
<1> QED
    BY <1>3, <1>4, <1>5

(* Concatenating two injective sequences with disjoint ranges gives an     *)
(* injective sequence.                                                     *)
LEMMA InjectiveConcat ==
    ASSUME NEW S, NEW s \in Seq(S), NEW t \in Seq(S),
           Injective(s), Injective(t), SeqRange(s) \cap SeqRange(t) = {}
    PROVE  Injective(s \o t)
<1>1. /\ Len(s \o t) = Len(s) + Len(t)
      /\ \A i \in 1..Len(s) + Len(t) :
            (s \o t)[i] = IF i <= Len(s) THEN s[i] ELSE t[i - Len(s)]
    BY ConcatProperties
<1>2. /\ DOMAIN (s \o t) = 1..(Len(s) + Len(t))
      /\ DOMAIN s = 1..Len(s)
      /\ DOMAIN t = 1..Len(t)
      /\ Len(s) \in Nat /\ Len(t) \in Nat
    BY <1>1, LenProperties, ConcatProperties
<1> QED
    BY <1>1, <1>2 DEF Injective, SeqRange

(* LedgerInv holds initially. *)
LEMMA LedgerInvInit == LInit => LedgerInv
BY EmptySeq DEF LInit, LedgerInv, Injective, SeqRange

(* Recording a fact keeps LedgerInv: the new fact is fresh. *)
LEMMA LedgerInvRecord == LedgerInv /\ Record => LedgerInv'
<1> SUFFICES ASSUME LedgerInv, Record PROVE LedgerInv'
    OBVIOUS
<1>1. SeqRange(out) \subseteq 1..issued /\ issued \in Nat
    BY DEF LedgerInv
<1>2. issued + 1 \notin SeqRange(out)
    BY <1>1
<1>3. 1..(issued + 1) = (1..issued) \cup {issued + 1}
    BY <1>1
<1> QED
    BY <1>2, <1>3 DEF LedgerInv, Record, Injective, SeqRange

(* A consumed batch keeps LedgerInv: its facts leave the pending set and   *)
(* join the output, where none of them was yet.                            *)
LEMMA LedgerInvConsume == LedgerInv /\ Consume => LedgerInv'
<1> SUFFICES ASSUME LedgerInv, NEW n \in 0..MaxRecords, NEW q \in [1..n -> pending],
                    Injective(q), out' = out \o q, pending' = pending \ SeqRange(q),
                    UNCHANGED issued
             PROVE  LedgerInv'
    BY DEF Consume
<1>1. pending \subseteq Nat
    BY DEF LedgerInv
<1>2. q \in Seq(Nat) /\ SeqRange(q) \subseteq pending
    <2>1. n \in Nat
        OBVIOUS
    <2>2. q \in [1..n -> Nat]
        BY <1>1
    <2>3. q \in Seq(Nat)
        BY <2>1, <2>2, SeqDef
    <2> QED
        BY <2>3 DEF SeqRange
<1>3. out' \in Seq(Nat)
    BY <1>2, ConcatProperties DEF LedgerInv
<1>4. SeqRange(out') = SeqRange(out) \cup SeqRange(q)
    BY <1>2, RangeConcat DEF LedgerInv
<1>5. Injective(out')
    BY <1>2, InjectiveConcat DEF LedgerInv
<1> QED
    BY <1>2, <1>3, <1>4, <1>5 DEF LedgerInv

(* Every step of the contract keeps LedgerInv. *)
LEMMA LedgerInvNext == LedgerInv /\ [LNext]_lvars => LedgerInv'
BY LedgerInvRecord, LedgerInvConsume DEF LNext, lvars, LedgerInv, Injective, SeqRange

(* For every bound on the facts recorded: every behaviour of the contract  *)
(* hands each recorded fact to the consumer at most once, keeps it pending  *)
(* until then, and invents none.                                           *)
THEOREM LedgerCorrect == LSpec => []LedgerInv
BY LedgerInvInit, LedgerInvNext, PTL DEF LSpec
=============================================================================
