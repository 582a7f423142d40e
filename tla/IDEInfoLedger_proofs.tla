------------------------ MODULE IDEInfoLedger_proofs ------------------------
(***************************************************************************)
(* Proofs about the ids of the store's vectors, in order.                 *)
(* The store implements its abstract specification: Spec => Ledger!LSpec, *)
(* for every set of holders, locations and annotations and every bound    *)
(* MaxRecords.  The proof rests on the inductive invariant IInv of         *)
(* IDEInfo_proofs: into_iter's batch is a batch of the ledger only because *)
(* its ids are pending (NoLoss/IdsIssued), distinct (NoDup within a store) *)
(* and in no other store (NoDup across stores).  Its vectors and the      *)
(* consumer's output only grow at their end: Spec => SlotsGrowAtEnd,       *)
(* which needs only the type invariant.                                    *)
(***************************************************************************)
EXTENDS IDEInfo_proofs, FiniteSetTheorems

(* The pending facts of the ledger under the refinement mapping. *)
Pending == UNION {IdSet(stores[h]) : h \in Holders}

(* The ids of a vector of entries form a sequence of facts of the same     *)
(* length, ranging over its id set, without repetition if its ids are      *)
(* unique.                                                                 *)
LEMMA IdSeqFacts ==
    ASSUME NEW s \in Seq(Entry)
    PROVE  /\ IdSeq(s) \in [1..Len(s) -> Ids]
           /\ IdSeq(s) \in Seq(Ids)
           /\ Ledger!SeqRange(IdSeq(s)) = IdSet(s)
           /\ UniqueIds(s) => Ledger!Injective(IdSeq(s))
<1>1. DOMAIN s = 1..Len(s) /\ \A k \in 1..Len(s) : s[k] \in Entry
  BY LenProperties, ElementOfSeq
<1>2. IdSeq(s) \in [1..Len(s) -> Ids]
  BY <1>1 DEF IdSeq, Entry
<1>3. IdSeq(s) \in Seq(Ids)
  BY <1>2, LenProperties, SeqDef
<1>4. Ledger!SeqRange(IdSeq(s)) = IdSet(s)
  BY <1>1 DEF IdSeq, IdSet, Ledger!SeqRange
<1>5. UniqueIds(s) => Ledger!Injective(IdSeq(s))
  BY <1>1 DEF IdSeq, UniqueIds, Ledger!Injective
<1> QED BY <1>2, <1>3, <1>4, <1>5

(* The ids of two vectors appended are the ids of each, appended. *)
LEMMA IdSeqConcat ==
    ASSUME NEW s \in Seq(Entry), NEW t \in Seq(Entry)
    PROVE  IdSeq(s \o t) = IdSeq(s) \o IdSeq(t)
<1> DEFINE u == IdSeq(s) \o IdSeq(t)
           n == Len(s) + Len(t)
<1>1. /\ s \o t \in Seq(Entry) /\ Len(s \o t) = n
      /\ \A k \in 1..n : (s \o t)[k] = IF k <= Len(s) THEN s[k] ELSE t[k - Len(s)]
  BY ConcatProperties
<1>2. IdSeq(s \o t) \in [1..n -> Ids] /\ IdSeq(s \o t) \in Seq(Ids)
  BY <1>1, IdSeqFacts
<1>3. /\ IdSeq(s) \in [1..Len(s) -> Ids] /\ IdSeq(s) \in Seq(Ids)
      /\ IdSeq(t) \in [1..Len(t) -> Ids] /\ IdSeq(t) \in Seq(Ids)
  BY IdSeqFacts
<1>7. Len(IdSeq(s)) = Len(s) /\ Len(IdSeq(t)) = Len(t)
  BY <1>3, LenProperties
<1>4. /\ u \in Seq(Ids) /\ Len(u) = n
      /\ \A k \in 1..n : u[k] = IF k <= Len(s) THEN IdSeq(s)[k] ELSE IdSeq(t)[k - Len(s)]
  <2>1. /\ IdSeq(s) \o IdSeq(t) \in Seq(Ids)
        /\ Len(IdSeq(s) \o IdSeq(t)) = Len(IdSeq(s)) + Len(IdSeq(t))
        /\ \A k \in 1..Len(IdSeq(s)) + Len(IdSeq(t)) :
              (IdSeq(s) \o IdSeq(t))[k] =
                 IF k <= Len(IdSeq(s)) THEN IdSeq(s)[k] ELSE IdSeq(t)[k - Len(IdSeq(s))]
    BY <1>3, ConcatProperties
  <2> QED BY <2>1, <1>7
<1>5. Len(IdSeq(s \o t)) = n
  BY <1>2, LenProperties
<1>6. \A k \in 1..n : IdSeq(s \o t)[k] = u[k]
  BY <1>1, <1>3, <1>4, LenProperties DEF IdSeq
<1> QED BY <1>2, <1>4, <1>5, <1>6, SeqEqual

(* A vector of entries with unique ids holds at most MaxRecords entries:   *)
(* its ids are an injection of its positions into 1..MaxRecords.           *)
LEMMA LenBound ==
    ASSUME NEW s \in Seq(Entry), UniqueIds(s)
    PROVE  Len(s) \in 0..MaxRecords
<1>1. IdSeq(s) \in Injection(1..Len(s), Ids)
  BY IdSeqFacts DEF Injection, IsInjective, Ledger!Injective
<1>2. Len(s) \in Nat
  BY LenProperties
<1>3. IsFiniteSet(Ids) /\ Cardinality(Ids) = MaxRecords
  BY FS_Interval, ConstantsAssumption DEF Ids
<1>4. Cardinality(1..Len(s)) = Len(s)
  BY <1>2, FS_Interval
<1>5. Cardinality(1..Len(s)) <= Cardinality(Ids)
  BY <1>1, <1>3, FS_Injection
<1> QED BY <1>2, <1>3, <1>4, <1>5

(* The initial state of the store is the initial state of the ledger. *)
LEMMA LedgerInit == Init => Ledger!LInit
<1> SUFFICES ASSUME Init PROVE Ledger!LInit
  OBVIOUS
<1>1. \A h \in Holders : IdSet(stores[h]) = {}
  BY IdSetEmpty DEF Init
<1>2. IdSeq(emitted) = << >>
  BY DEF Init, IdSeq
<1> QED BY <1>1, <1>2 DEF Init, Ledger!LInit

(* Every step of the store is a step of the ledger or leaves the ledger    *)
(* unchanged: add_ide_annotation records the next fact, into_iter hands a  *)
(* batch of pending facts to the consumer, and new, extend and iter_mut    *)
(* change nothing the ledger sees.                                         *)
LEMMA LedgerStep == IInv /\ [Next]_vars => [Ledger!LNext]_Ledger!lvars
<1> SUFFICES ASSUME IInv, [Next]_vars PROVE [Ledger!LNext]_Ledger!lvars
  OBVIOUS
<1>0. TypeOK /\ DeadEmpty /\ IdsIssued /\ NoLoss /\ NoDup
  BY DEF IInv
<1> DEFINE Unmoved == UNCHANGED <<Pending, IdSeq(emitted), nextId>>
<1>9. Unmoved => UNCHANGED Ledger!lvars
  BY DEF Ledger!lvars, Pending
<1>1. ASSUME NEW h \in Holders, New(h) PROVE Unmoved
  <2>1. stores[h] = << >>
    BY <1>0, <1>1 DEF New, DeadEmpty
  <2>2. stores' = stores
    BY <1>0, <1>1, <2>1 DEF New, TypeOK
  <2> QED BY <1>1, <2>2 DEF New, Pending
<1>2. ASSUME NEW h \in Holders, IntoIter(h) PROVE Ledger!Consume
  <2> DEFINE s == stores[h]
             q == IdSeq(s)
  <2>1. s \in Seq(Entry) /\ UniqueIds(s) /\ emitted \in Seq(Entry)
    BY <1>0 DEF TypeOK, NoDup
  <2>2. Len(s) \in 0..MaxRecords
    BY <2>1, LenBound
  <2>3. q \in [1..Len(s) -> Pending] /\ Ledger!Injective(q)
        /\ Ledger!SeqRange(q) = IdSet(s)
    <3>1. q \in [1..Len(s) -> Ids] /\ Ledger!Injective(q) /\ Ledger!SeqRange(q) = IdSet(s)
      BY <2>1, IdSeqFacts
    <3>2. \A k \in 1..Len(s) : q[k] \in IdSet(s)
      BY <3>1 DEF Ledger!SeqRange
    <3>3. IdSet(s) \subseteq Pending
      BY DEF Pending
    <3> QED BY <3>1, <3>2, <3>3
  <2>4. IdSeq(emitted') = IdSeq(emitted) \o q
    BY <1>2, <2>1, IdSeqConcat DEF IntoIter
  <2>5. Pending' = Pending \ IdSet(s)
    <3>1. stores'[h] = << >> /\ \A g \in Holders \ {h} : stores'[g] = stores[g]
      BY <1>0, <1>2 DEF IntoIter, TypeOK
    <3>2. IdSet(stores'[h]) = {}
      BY <3>1, IdSetEmpty
    <3>3. \A g \in Holders \ {h} : IdSet(stores[g]) \cap IdSet(s) = {}
      BY <1>0 DEF NoDup
    <3> QED BY <3>1, <3>2, <3>3 DEF Pending
  <2>6. nextId' = nextId
    BY <1>2 DEF IntoIter
  <2> QED BY <2>2, <2>3, <2>4, <2>5, <2>6 DEF Ledger!Consume, Pending
<1>3. ASSUME NEW h \in Holders, NEW l \in Locs, NEW a \in Anns,
             AddIdeAnnotation(h, l, a)
      PROVE  Ledger!Record
  <2> DEFINE e == [id |-> nextId, loc |-> l, ann |-> a]
  <2>1. nextId \in 1..MaxRecords /\ e \in Entry
    BY <1>0, <1>3, ConstantsAssumption DEF AddIdeAnnotation, TypeOK, Entry, Ids
  <2>2. stores'[h] = Append(stores[h], e) /\ \A g \in Holders \ {h} : stores'[g] = stores[g]
    BY <1>0, <1>3 DEF AddIdeAnnotation, TypeOK
  <2>3. IdSet(stores'[h]) = IdSet(stores[h]) \cup {nextId}
    BY <1>0, <2>1, <2>2, IdSetAppend DEF TypeOK
  <2>4. Pending' = Pending \cup {nextId}
    BY <2>2, <2>3 DEF Pending
  <2>5. nextId' = nextId + 1 /\ emitted' = emitted
    BY <1>3 DEF AddIdeAnnotation
  <2> QED BY <2>1, <2>4, <2>5, ConstantsAssumption DEF Ledger!Record, Pending
<1>4. ASSUME NEW h \in Holders, NEW o \in Holders, Extend(h, o) PROVE Unmoved
  <2>1. h # o /\ UNCHANGED <<emitted, nextId>>
    BY <1>4 DEF Extend
  <2>2. /\ stores'[h] = stores[h] \o stores[o] /\ stores'[o] = << >>
        /\ \A g \in Holders \ {h, o} : stores'[g] = stores[g]
    BY <1>0, <1>4, <2>1 DEF Extend, TypeOK
  <2>3. IdSet(stores'[h]) = IdSet(stores[h]) \cup IdSet(stores[o]) /\ IdSet(stores'[o]) = {}
    BY <1>0, <2>2, IdSetConcat, IdSetEmpty DEF TypeOK
  <2>4. Pending' = Pending
    BY <2>2, <2>3 DEF Pending
  <2> QED BY <2>1, <2>4
<1>5. ASSUME NEW h \in Holders, NEW l \in Locs, NEW a \in Anns,
             NEW k \in DOMAIN stores[h], IterMut(h, k, l, a)
      PROVE  Unmoved
  <2>1. stores'[h] = WriteEntry(stores[h], k, l, a) /\ \A g \in Holders \ {h} : stores'[g] = stores[g]
    BY <1>0, <1>5 DEF IterMut, TypeOK
  <2>2. IdSet(stores'[h]) = IdSet(stores[h])
    BY <1>0, <1>5, <2>1, RewriteEntry DEF TypeOK
  <2>3. Pending' = Pending
    BY <2>1, <2>2 DEF Pending
  <2> QED BY <1>5, <2>3 DEF IterMut
<1>6. CASE UNCHANGED vars
  <2>1. Unmoved
    BY <1>6 DEF vars, Pending, IdSeq
  <2> QED BY <2>1, <1>9
<1> QED BY <1>1, <1>2, <1>3, <1>4, <1>5, <1>6, <1>9 DEF Next, Ledger!LNext

(* The store implements its abstract specification. *)
THEOREM StoreImplementsLedger == Spec => LedgerRefinement
<1>1. Spec => []IInv
  BY IInvInit, IInvNext, PTL DEF Spec
<1> QED BY <1>1, LedgerInit, LedgerStep, PTL DEF Spec, LedgerRefinement, Ledger!LSpec

(* A sequence is the prefix of its length of itself followed by another. *)
LEMMA PrefixOfConcat ==
    ASSUME NEW x \in Seq(Ids), NEW y \in Seq(Ids)
    PROVE  SubSeq(x \o y, 1, Len(x)) = x
<1>1. CASE Len(x) = 0
  <2>1. x = << >>
    BY <1>1, EmptySeq
  <2>2. SubSeq(x \o y, 1, 0) = << >>
    BY ConcatProperties, SubSeqEmpty
  <2> QED BY <1>1, <2>1, <2>2
<1>2. CASE Len(x) > 0
  <2>1. SubSeq(x \o y, 1, Len(x)) = SubSeq(x, 1, Len(x))
    BY <1>2, LenProperties, SubSeqOfConcat1
  <2> QED BY <2>1, SubSeqFull
<1> QED BY <1>1, <1>2, LenProperties

(* The ids of a vector are a prefix of the ids of that vector followed by  *)
(* more entries, and of the vector itself.                                 *)
LEMMA IdPrefix ==
    ASSUME NEW s \in Seq(Entry), NEW t \in Seq(Entry)
    PROVE  /\ SubSeq(IdSeq(s \o t), 1, Len(s)) = IdSeq(s)
           /\ SubSeq(IdSeq(s), 1, Len(s)) = IdSeq(s)
<1>1. IdSeq(s) \in Seq(Ids) /\ IdSeq(t) \in Seq(Ids) /\ Len(IdSeq(s)) = Len(s)
  BY IdSeqFacts, LenProperties
<1>2. SubSeq(IdSeq(s \o t), 1, Len(s)) = IdSeq(s)
  BY <1>1, IdSeqConcat, PrefixOfConcat
<1>3. SubSeq(IdSeq(s), 1, Len(s)) = IdSeq(s)
  BY <1>1, SubSeqFull
<1> QED BY <1>2, <1>3

(* iter_mut's rewrite keeps the ids of the vector in place. *)
LEMMA IdSeqRewrite ==
    ASSUME NEW s \in Seq(Entry), NEW k \in DOMAIN s, NEW l \in Locs, NEW a \in Anns
    PROVE  IdSeq(WriteEntry(s, k, l, a)) = IdSeq(s)
<1>1. DOMAIN WriteEntry(s, k, l, a) = DOMAIN s
  BY DEF WriteEntry
<1>2. \A j \in DOMAIN s : WriteEntry(s, k, l, a)[j].id = s[j].id
  BY DEF WriteEntry
<1> QED BY <1>1, <1>2 DEF IdSeq

(* Every step of the store keeps the entries of a store that stays live, *)
(* and of the consumer's output, as a prefix.                            *)
LEMMA GrowsAtEndStep == TypeOK /\ [Next]_vars => [GrowsAtEnd]_vars
<1> SUFFICES ASSUME TypeOK, [Next]_vars PROVE GrowsAtEnd
  OBVIOUS
<1> DEFINE Kept(g) == SubSeq(IdSeq(stores'[g]), 1, Len(stores[g])) = IdSeq(stores[g])
           OutKept == SubSeq(IdSeq(emitted'), 1, Len(emitted)) = IdSeq(emitted)
<1>0. \A g \in Holders : stores'[g] = stores[g] => Kept(g)
  BY IdPrefix DEF TypeOK
<1>9. OutKept /\ (\A g \in Holders : live[g] /\ live'[g] => Kept(g)) => GrowsAtEnd
  BY DEF GrowsAtEnd
<1>5. emitted' = emitted => OutKept
  BY IdPrefix DEF TypeOK
<1>1. ASSUME NEW h \in Holders, New(h) PROVE GrowsAtEnd
  <2>1. \A g \in Holders \ {h} : stores'[g] = stores[g]
    BY <1>1 DEF New, TypeOK
  <2> QED BY <1>0, <1>1, <1>5, <1>9, <2>1 DEF New
<1>2. ASSUME NEW h \in Holders, IntoIter(h) PROVE GrowsAtEnd
  <2>1. \A g \in Holders \ {h} : stores'[g] = stores[g]
    BY <1>2 DEF IntoIter, TypeOK
  <2>2. OutKept
    BY <1>2, IdPrefix DEF IntoIter, TypeOK
  <2>3. ~live'[h]
    BY <1>2 DEF IntoIter, TypeOK
  <2> QED BY <1>0, <1>9, <2>1, <2>2, <2>3
<1>3. ASSUME NEW h \in Holders, NEW l \in Locs, NEW a \in Anns,
             AddIdeAnnotation(h, l, a)
      PROVE  GrowsAtEnd
  <2> DEFINE e == [id |-> nextId, loc |-> l, ann |-> a]
  <2>1. e \in Entry /\ <<e>> \in Seq(Entry)
    BY <1>3 DEF AddIdeAnnotation, Entry, Ids, TypeOK
  <2>2. stores'[h] = stores[h] \o <<e>> /\ \A g \in Holders \ {h} : stores'[g] = stores[g]
    BY <1>3, <2>1, AppendIsConcat DEF AddIdeAnnotation, TypeOK
  <2>3. Kept(h)
    BY <2>1, <2>2, IdPrefix DEF TypeOK
  <2> QED BY <1>0, <1>3, <1>5, <1>9, <2>2, <2>3 DEF AddIdeAnnotation
<1>4. ASSUME NEW h \in Holders, NEW o \in Holders, Extend(h, o) PROVE GrowsAtEnd
  <2>1. h # o /\ stores'[h] = stores[h] \o stores[o]
        /\ \A g \in Holders \ {h, o} : stores'[g] = stores[g]
    BY <1>4 DEF Extend, TypeOK
  <2>2. Kept(h)
    BY <2>1, IdPrefix DEF TypeOK
  <2>3. ~live'[o]
    BY <1>4 DEF Extend, TypeOK
  <2> QED BY <1>0, <1>4, <1>5, <1>9, <2>1, <2>2, <2>3 DEF Extend
<1>6. ASSUME NEW h \in Holders, NEW l \in Locs, NEW a \in Anns,
             NEW k \in DOMAIN stores[h], IterMut(h, k, l, a)
      PROVE  GrowsAtEnd
  <2>1. stores'[h] = WriteEntry(stores[h], k, l, a)
        /\ \A g \in Holders \ {h} : stores'[g] = stores[g]
    BY <1>6 DEF IterMut, TypeOK
  <2>2. IdSeq(stores'[h]) = IdSeq(stores[h])
    BY <2>1, IdSeqRewrite DEF TypeOK
  <2>3. Kept(h)
    BY <2>2, IdPrefix DEF TypeOK
  <2> QED BY <1>0, <1>5, <1>6, <1>9, <2>1, <2>3 DEF IterMut
<1>7. CASE UNCHANGED vars
  BY <1>0, <1>5, <1>7, <1>9 DEF vars
<1> QED BY <1>1, <1>2, <1>3, <1>4, <1>6, <1>7 DEF Next

(* A store that stays live, and the consumer's output, only grow at their *)
(* end.                                                                     *)
THEOREM GrowsAtEndHolds == Spec => SlotsGrowAtEnd
<1>1. Spec => []TypeOK
  BY TypeCorrect
<1> QED BY <1>1, GrowsAtEndStep, PTL DEF Spec, SlotsGrowAtEnd
-----------------------------------------------------------------------------
(* The contract's theorems, read through the refinement mapping. *)
LedgerProofs == INSTANCE AnnotationLedger_proofs
                    WITH pending <- UNION {IdSet(stores[h]) : h \in Holders},
                         out <- IdSeq(emitted),
                         issued <- nextId - 1

(* Exactly-once delivery obtained from the contract alone: since the store  *)
(* implements the ledger, and every behaviour of the ledger keeps           *)
(* LedgerInv, the ids handed by into_iter to the consumer are distinct,     *)
(* none of them is still in a store, and together with the stored ones     *)
(* they are exactly the ids add_ide_annotation issued.                     *)
THEOREM StoreDeliversExactlyOnce == Spec => []Ledger!LedgerInv
<1>1. Ledger!LSpec => []Ledger!LedgerInv
  BY LedgerProofs!LedgerCorrect, PTL
     DEF Ledger!LSpec, LedgerProofs!LSpec, Ledger!LInit, LedgerProofs!LInit,
         Ledger!LNext, LedgerProofs!LNext, Ledger!lvars, LedgerProofs!lvars,
         Ledger!Record, LedgerProofs!Record, Ledger!Consume, LedgerProofs!Consume,
         Ledger!LedgerInv, LedgerProofs!LedgerInv,
         Ledger!Injective, LedgerProofs!Injective, Ledger!SeqRange, LedgerProofs!SeqRange
<1> QED BY <1>1, StoreImplementsLedger DEF LedgerRefinement
=============================================================================
