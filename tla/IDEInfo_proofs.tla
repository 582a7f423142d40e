--------------------------- MODULE IDEInfo_proofs ---------------------------
(***************************************************************************)
(* Proofs about the annotation store IDEInfo, for every set of holders,    *)
(* locations and annotations and every bound MaxRecords.                   *)
(***************************************************************************)
EXTENDS IDEInfo, SequenceTheorems, TLAPS

(* iter_mut's in-place rewrite of one entry keeps a vector of entries a    *)
(* vector of entries of the same length, holding the same ids.             *)
LEMMA RewriteEntry ==
    ASSUME NEW s \in Seq(Entry), NEW k \in DOMAIN s, NEW l \in Locs, NEW a \in Anns
    PROVE  /\ WriteEntry(s, k, l, a) \in Seq(Entry)
           /\ Len(WriteEntry(s, k, l, a)) = Len(s)
           /\ IdSet(WriteEntry(s, k, l, a)) = IdSet(s)
           /\ UniqueIds(s) => UniqueIds(WriteEntry(s, k, l, a))
<1> DEFINE t == WriteEntry(s, k, l, a)
           e == [s[k] EXCEPT !.loc = l, !.ann = a]
<1>1. k \in 1..Len(s) /\ s[k] \in Entry
  BY LenProperties, ElementOfSeq
<1>2. e \in Entry
  BY <1>1 DEF Entry
<1>3. t = [s EXCEPT ![k] = e]
  BY DEF WriteEntry
<1>4. /\ t \in Seq(Entry) /\ Len(t) = Len(s)
      /\ \A j \in 1..Len(s) : t[j] = IF j = k THEN e ELSE s[j]
  BY <1>1, <1>2, <1>3, ExceptSeq
<1>5. DOMAIN t = DOMAIN s /\ \A j \in DOMAIN s : t[j].id = s[j].id
  BY <1>1, <1>3, <1>4, LenProperties DEF Entry
<1>6. IdSet(t) = IdSet(s)
  BY <1>5 DEF IdSet
<1>7. UniqueIds(s) => UniqueIds(t)
  BY <1>5 DEF UniqueIds
<1> QED BY <1>4, <1>6, <1>7

(* What the ids of a sequence become under the operations on vectors:    *)
(* push, append of another vector, and the empty vector of new().          *)
LEMMA IdSetEmpty == IdSet(<< >>) = {} /\ UniqueIds(<< >>)
  BY DEF IdSet, UniqueIds

LEMMA IdSetAppend ==
    ASSUME NEW s \in Seq(Entry), NEW e \in Entry
    PROVE  /\ IdSet(Append(s, e)) = IdSet(s) \cup {e.id}
           /\ UniqueIds(s) /\ e.id \notin IdSet(s) => UniqueIds(Append(s, e))
<1>1. /\ Len(Append(s, e)) = Len(s) + 1
      /\ \A i \in 1..Len(s) : Append(s, e)[i] = s[i]
      /\ Append(s, e)[Len(s) + 1] = e
      /\ Len(s) \in Nat /\ DOMAIN s = 1..Len(s)
  BY AppendProperties, LenProperties
<1>2. DOMAIN Append(s, e) = 1..(Len(s) + 1)
  BY <1>1
<1>3. IdSet(Append(s, e)) = IdSet(s) \cup {e.id}
  BY <1>1, <1>2 DEF IdSet
<1>4. ASSUME UniqueIds(s), e.id \notin IdSet(s) PROVE UniqueIds(Append(s, e))
  BY <1>1, <1>2, <1>4 DEF UniqueIds, IdSet
<1> QED BY <1>3, <1>4

LEMMA IdSetConcat ==
    ASSUME NEW s \in Seq(Entry), NEW t \in Seq(Entry)
    PROVE  /\ IdSet(s \o t) = IdSet(s) \cup IdSet(t)
           /\ UniqueIds(s) /\ UniqueIds(t) /\ IdSet(s) \cap IdSet(t) = {}
                 => UniqueIds(s \o t)
<1>1. /\ Len(s \o t) = Len(s) + Len(t)
      /\ \A i \in 1 .. Len(s) + Len(t) :
            (s \o t)[i] = IF i <= Len(s) THEN s[i] ELSE t[i - Len(s)]
      /\ Len(s) \in Nat /\ Len(t) \in Nat
      /\ DOMAIN s = 1..Len(s) /\ DOMAIN t = 1..Len(t)
  BY ConcatProperties, LenProperties
<1>2. DOMAIN (s \o t) = 1..(Len(s) + Len(t))
  BY <1>1, ConcatProperties, LenProperties
<1>3. IdSet(s \o t) = IdSet(s) \cup IdSet(t)
  <2>1. IdSet(s \o t) \subseteq IdSet(s) \cup IdSet(t)
    BY <1>1, <1>2 DEF IdSet
  <2>2. IdSet(s) \subseteq IdSet(s \o t)
    BY <1>1, <1>2 DEF IdSet
  <2>3. IdSet(t) \subseteq IdSet(s \o t)
    <3> SUFFICES ASSUME NEW j \in 1..Len(t) PROVE t[j].id \in IdSet(s \o t)
      BY <1>1 DEF IdSet
    <3>1. Len(s) + j \in DOMAIN (s \o t) /\ (s \o t)[Len(s) + j] = t[j]
      BY <1>1, <1>2
    <3> QED BY <3>1 DEF IdSet
  <2> QED BY <2>1, <2>2, <2>3
<1>4. ASSUME UniqueIds(s), UniqueIds(t), IdSet(s) \cap IdSet(t) = {}
      PROVE  UniqueIds(s \o t)
  <2> SUFFICES ASSUME NEW k \in DOMAIN (s \o t), NEW j \in DOMAIN (s \o t),
                      (s \o t)[k].id = (s \o t)[j].id
               PROVE  k = j
    BY DEF UniqueIds
  <2>1. CASE k <= Len(s) /\ j <= Len(s)
    BY <1>1, <1>2, <1>4, <2>1 DEF UniqueIds
  <2>2. CASE k > Len(s) /\ j > Len(s)
    <3>1. k - Len(s) \in DOMAIN t /\ j - Len(s) \in DOMAIN t
      BY <1>1, <1>2, <2>2
    <3>2. t[k - Len(s)].id = t[j - Len(s)].id
      BY <1>1, <1>2, <2>2
    <3>3. k - Len(s) = j - Len(s)
      BY <1>4, <3>1, <3>2 DEF UniqueIds
    <3> QED BY <1>1, <1>2, <3>3
  <2>3. CASE k <= Len(s) /\ j > Len(s)
    <3>1. k \in DOMAIN s /\ j - Len(s) \in DOMAIN t
      BY <1>1, <1>2, <2>3
    <3>2. s[k].id = t[j - Len(s)].id
      BY <1>1, <1>2, <2>3
    <3> QED BY <1>4, <3>1, <3>2 DEF IdSet
  <2>4. CASE k > Len(s) /\ j <= Len(s)
    <3>1. j \in DOMAIN s /\ k - Len(s) \in DOMAIN t
      BY <1>1, <1>2, <2>4
    <3>2. s[j].id = t[k - Len(s)].id
      BY <1>1, <1>2, <2>4
    <3> QED BY <1>4, <3>1, <3>2 DEF IdSet
  <2> QED BY <1>1, <1>2, <2>1, <2>2, <2>3, <2>4
<1> QED BY <1>3, <1>4

(* Every step of the store keeps the type invariant. *)
LEMMA TypeOKNext == TypeOK /\ [Next]_vars => TypeOK'
<1> SUFFICES ASSUME TypeOK, [Next]_vars PROVE TypeOK'
  OBVIOUS
<1> USE DEF TypeOK
<1>1. ASSUME NEW h \in Holders, New(h) PROVE TypeOK'
  BY <1>1, EmptySeq DEF New
<1>2. ASSUME NEW h \in Holders, IntoIter(h) PROVE TypeOK'
  BY <1>2, EmptySeq, ConcatProperties DEF IntoIter
<1>3. ASSUME NEW h \in Holders, NEW l \in Locs, NEW a \in Anns,
             AddIdeAnnotation(h, l, a)
      PROVE TypeOK'
  <2>1. [id |-> nextId, loc |-> l, ann |-> a] \in Entry
    BY <1>3 DEF AddIdeAnnotation, Entry, Ids
  <2>2. Append(stores[h], [id |-> nextId, loc |-> l, ann |-> a]) \in Seq(Entry)
    BY <2>1, AppendProperties
  <2>3. stores' \in [Holders -> Seq(Entry)]
    BY <1>3, <2>2 DEF AddIdeAnnotation
  <2>4. nextId' \in 1..(MaxRecords + 1)
    BY <1>3, ConstantsAssumption DEF AddIdeAnnotation
  <2> QED BY <1>3, <2>3, <2>4 DEF AddIdeAnnotation
<1>4. ASSUME NEW h \in Holders, NEW o \in Holders, Extend(h, o) PROVE TypeOK'
  <2>1. stores[h] \o stores[o] \in Seq(Entry)
    BY ConcatProperties
  <2>2. stores' \in [Holders -> Seq(Entry)]
    BY <1>4, <2>1, EmptySeq DEF Extend
  <2> QED BY <1>4, <2>2 DEF Extend
<1>5. ASSUME NEW h \in Holders, NEW l \in Locs, NEW a \in Anns,
             NEW k \in DOMAIN stores[h], IterMut(h, k, l, a)
      PROVE TypeOK'
  <2>1. stores' = [stores EXCEPT ![h] = WriteEntry(stores[h], k, l, a)]
    BY <1>5 DEF IterMut
  <2>2. WriteEntry(stores[h], k, l, a) \in Seq(Entry)
    BY RewriteEntry
  <2>3. stores' \in [Holders -> Seq(Entry)]
    BY <2>1, <2>2
  <2> QED BY <1>5, <2>3 DEF IterMut
<1>6. CASE UNCHANGED vars
  BY <1>6 DEF vars
<1> QED BY <1>1, <1>2, <1>3, <1>4, <1>5, <1>6 DEF Next

(* The type invariant holds in every reachable state. *)
THEOREM TypeCorrect == Spec => []TypeOK
<1>1. Init => TypeOK
  BY EmptySeq, ConstantsAssumption DEF Init, TypeOK
<1> QED BY <1>1, TypeOKNext, PTL DEF Spec
(* Every add_ide_annotation call reaches the consumer's input exactly     *)
(* once, through any sequence of extend, iter_mut, into_iter and new().    *)
(* The strengthening IInv adds that an unowned store is empty and that    *)
(* every id present was already issued.                                    *)
LEMMA IInvInit == Init => IInv
  BY EmptySeq, IdSetEmpty, ConstantsAssumption
  DEF Init, IInv, TypeOK, DeadEmpty, IdsIssued, NoLoss, NoDup

LEMMA IInvNext == IInv /\ [Next]_vars => IInv'
<1> SUFFICES ASSUME IInv, [Next]_vars PROVE IInv'
  OBVIOUS
<1>0. TypeOK'
  BY TypeOKNext DEF IInv
<1> USE DEF IInv
<1>1. ASSUME NEW h \in Holders, New(h) PROVE IInv'
  <2>1. stores[h] = << >> /\ stores' = stores
    BY <1>1 DEF New, DeadEmpty, TypeOK
  <2>2. DeadEmpty'
    BY <1>1, <2>1 DEF New, DeadEmpty, TypeOK
  <2>3. UNCHANGED <<emitted, nextId>>
    BY <1>1 DEF New
  <2> QED BY <1>0, <2>1, <2>2, <2>3 DEF IdsIssued, NoLoss, NoDup
<1>2. ASSUME NEW h \in Holders, IntoIter(h) PROVE IInv'
  <2>1. IdSet(emitted') = IdSet(emitted) \cup IdSet(stores[h])
        /\ UniqueIds(emitted')
    BY <1>2, IdSetConcat DEF IntoIter, TypeOK, NoDup
  <2>2. IdSet(stores'[h]) = {} /\ UniqueIds(stores'[h])
    BY <1>2, IdSetEmpty DEF IntoIter, TypeOK
  <2>3. \A g \in Holders : g # h => stores'[g] = stores[g]
    BY <1>2 DEF IntoIter, TypeOK
  <2>4. DeadEmpty'
    BY <1>2 DEF IntoIter, DeadEmpty, TypeOK
  <2>5. IdsIssued'
    BY <1>2, <2>1, <2>2, <2>3 DEF IntoIter, IdsIssued
  <2>6. NoLoss'
    BY <1>2, <2>1, <2>2, <2>3 DEF IntoIter, NoLoss
  <2>7. NoDup'
    BY <1>2, <2>1, <2>2, <2>3 DEF IntoIter, NoDup
  <2> QED BY <1>0, <2>4, <2>5, <2>6, <2>7
<1>3. ASSUME NEW h \in Holders, NEW l \in Locs, NEW a \in Anns,
             AddIdeAnnotation(h, l, a)
      PROVE IInv'
  <2> DEFINE e == [id |-> nextId, loc |-> l, ann |-> a]
  <2>0. e \in Entry /\ nextId \in Nat
    BY <1>3 DEF AddIdeAnnotation, Entry, Ids, TypeOK
  <2>1. nextId \notin IdSet(stores[h])
    BY <2>0 DEF IdsIssued
  <2>2. IdSet(stores'[h]) = IdSet(stores[h]) \cup {nextId} /\ UniqueIds(stores'[h])
    BY <1>3, <2>0, <2>1, IdSetAppend DEF AddIdeAnnotation, TypeOK, NoDup
  <2>3. \A g \in Holders : g # h => stores'[g] = stores[g]
    BY <1>3 DEF AddIdeAnnotation, TypeOK
  <2>4. nextId' = nextId + 1 /\ UNCHANGED <<live, emitted>>
    BY <1>3 DEF AddIdeAnnotation
  <2>5. nextId \notin IdSet(emitted) /\ \A g \in Holders : nextId \notin IdSet(stores[g])
    BY <2>0 DEF IdsIssued
  <2>6. DeadEmpty'
    BY <1>3, <2>3, <2>4 DEF AddIdeAnnotation, DeadEmpty
  <2>7. IdsIssued'
    <3>1. IdSet(stores'[h]) \subseteq 1..(nextId' - 1)
      BY <2>0, <2>2, <2>4 DEF IdsIssued, TypeOK
    <3>2. ASSUME NEW g \in Holders, g # h PROVE IdSet(stores'[g]) \subseteq 1..(nextId' - 1)
      BY <2>0, <2>3, <2>4, <3>2 DEF IdsIssued
    <3>3. IdSet(emitted') \subseteq 1..(nextId' - 1)
      BY <2>0, <2>4 DEF IdsIssued
    <3> QED BY <3>1, <3>2, <3>3 DEF IdsIssued
  <2>8. NoLoss'
    BY <2>0, <2>2, <2>3, <2>4 DEF NoLoss
  <2>9. NoDup'
    BY <2>2, <2>3, <2>4, <2>5 DEF NoDup
  <2> QED BY <1>0, <2>6, <2>7, <2>8, <2>9
<1>4. ASSUME NEW h \in Holders, NEW o \in Holders, Extend(h, o) PROVE IInv'
  <2>0. h # o /\ live[h] /\ live[o] /\ UNCHANGED <<emitted, nextId>>
    BY <1>4 DEF Extend
  <2>1. IdSet(stores'[h]) = IdSet(stores[h]) \cup IdSet(stores[o])
        /\ UniqueIds(stores'[h])
    <3>1. stores'[h] = stores[h] \o stores[o]
      BY <1>4, <2>0 DEF Extend, TypeOK
    <3> QED BY <2>0, <3>1, IdSetConcat DEF TypeOK, NoDup
  <2>2. stores'[o] = << >> /\ IdSet(stores'[o]) = {} /\ UniqueIds(stores'[o])
    BY <1>4, IdSetEmpty DEF Extend, TypeOK
  <2>3. \A g \in Holders : g \notin {h, o} => stores'[g] = stores[g]
    BY <1>4 DEF Extend, TypeOK
  <2>4. live' = [live EXCEPT ![o] = FALSE]
    BY <1>4 DEF Extend
  <2>5. DeadEmpty'
    BY <2>0, <2>2, <2>3, <2>4 DEF DeadEmpty, TypeOK
  <2>6. IdsIssued'
    BY <2>0, <2>1, <2>2, <2>3 DEF IdsIssued
  <2>7. NoLoss'
    BY <2>0, <2>1, <2>2, <2>3 DEF NoLoss
  <2>8. NoDup'
    BY <2>0, <2>1, <2>2, <2>3 DEF NoDup
  <2> QED BY <1>0, <2>5, <2>6, <2>7, <2>8
<1>5. ASSUME NEW h \in Holders, NEW l \in Locs, NEW a \in Anns,
             NEW k \in DOMAIN stores[h], IterMut(h, k, l, a)
      PROVE IInv'
  <2>1. stores' = [stores EXCEPT ![h] = WriteEntry(stores[h], k, l, a)]
    BY <1>5 DEF IterMut
  <2>2. IdSet(stores'[h]) = IdSet(stores[h]) /\ UniqueIds(stores'[h])
    <3>1. stores[h] \in Seq(Entry) /\ UniqueIds(stores[h])
      BY DEF TypeOK, NoDup
    <3>2. stores'[h] = WriteEntry(stores[h], k, l, a)
      BY <2>1 DEF TypeOK
    <3>3. /\ IdSet(WriteEntry(stores[h], k, l, a)) = IdSet(stores[h])
          /\ UniqueIds(WriteEntry(stores[h], k, l, a))
      BY <1>5, <3>1, RewriteEntry
    <3> QED BY <3>2, <3>3
  <2>3. \A g \in Holders : g # h => stores'[g] = stores[g]
    BY <2>1 DEF TypeOK
  <2>4. UNCHANGED <<live, emitted, nextId>> /\ live[h]
    BY <1>5 DEF IterMut
  <2>5. DeadEmpty'
    BY <2>3, <2>4 DEF DeadEmpty
  <2>6. IdsIssued' /\ NoLoss' /\ NoDup'
    BY <2>2, <2>3, <2>4 DEF IdsIssued, NoLoss, NoDup
  <2> QED BY <1>0, <2>5, <2>6
<1>6. CASE UNCHANGED vars
  BY <1>6 DEF vars, TypeOK, DeadEmpty, IdsIssued, NoLoss, NoDup
<1> QED BY <1>1, <1>2, <1>3, <1>4, <1>5, <1>6 DEF Next

THEOREM ExactlyOnceHolds == Spec => []ExactlyOnce
<1>1. IInv => ExactlyOnce
  BY DEF IInv, ExactlyOnce
<1> QED BY <1>1, IInvInit, IInvNext, PTL DEF Spec
=============================================================================
