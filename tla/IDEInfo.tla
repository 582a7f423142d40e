------------------------------ MODULE IDEInfo ------------------------------
(***************************************************************************)
(* The annotation store of the Move compiler's IDE layer:                  *)
(* `IDEInfo { annotations: Vec<(Loc, IDEAnnotation)> }` in                 *)
(* move-compiler/src/shared/ide.rs.                                        *)
(*                                                                         *)
(* Several holders (the typing pass and its sub-analyses, one per module   *)
(* or per function body) each own an IDEInfo.  A holder records           *)
(* annotations into its own store (add_ide_annotation), absorbs another    *)
(* holder's store (extend, which takes `other` by value), may rewrite an   *)
(* entry in place through iter_mut, and finally hands its store to the     *)
(* consumer by value (into_iter), which turns every (loc, annotation)      *)
(* pair into a Diagnostic in order.  A holder whose store was moved out    *)
(* starts again from IDEInfo::new().                                       *)
(*                                                                         *)
(* Data is abstract: a Loc and an IDEAnnotation are model values.  Every   *)
(* entry also carries a ghost field the code does not have: `id`, the      *)
(* position of its add_ide_annotation call in the run.  It lets the        *)
(* properties follow an entry through moves; no action reads it.           *)
(***************************************************************************)
EXTENDS Naturals, Sequences

CONSTANTS
    Holders,     \* owners of an IDEInfo value (typing pass, sub-analyses)
    Locs,        \* source locations (move_ir_types::location::Loc)
    Anns,        \* IDE annotations (enum IDEAnnotation), abstracted
    MaxRecords   \* bound on the number of add_ide_annotation calls

ASSUME ConstantsAssumption ==
    /\ Holders # {}
    /\ Locs # {}
    /\ Anns # {}
    /\ MaxRecords \in Nat

VARIABLES
    stores,   \* stores[h]: the annotations vector of h's IDEInfo
    live,     \* live[h]: h currently owns an IDEInfo (it was not moved out)
    emitted,  \* entries handed to the consumer by into_iter, in order
    nextId    \* ghost: id of the next add_ide_annotation call

vars == <<stores, live, emitted, nextId>>

Ids == 1..MaxRecords

Entry == [id : Ids, loc : Locs, ann : Anns]

(* The ids in a sequence of entries, in order. *)
IdSeq(s) == [k \in DOMAIN s |-> s[k].id]

-----------------------------------------------------------------------------
(* Init: every holder starts with IDEInfo::new(), an empty vector. *)
Init ==
    /\ stores = [h \in Holders |-> << >>]
    /\ live = [h \in Holders |-> TRUE]
    /\ emitted = << >>
    /\ nextId = 1

(* IDEInfo::new(): a holder whose store was moved out gets a fresh one. *)
New(h) ==
    /\ ~live[h]
    /\ live' = [live EXCEPT ![h] = TRUE]
    /\ stores' = [stores EXCEPT ![h] = << >>]
    /\ UNCHANGED <<emitted, nextId>>

(* add_ide_annotation(&mut self, loc, info): push (loc, info). *)
AddIdeAnnotation(h, l, a) ==
    /\ live[h]
    /\ nextId <= MaxRecords
    /\ stores' = [stores EXCEPT ![h] =
                    Append(@, [id |-> nextId, loc |-> l, ann |-> a])]
    /\ nextId' = nextId + 1
    /\ UNCHANGED <<live, emitted>>

(* Mutant of Extend: other's entries placed before self's. *)
ExtendPrepend(h, o) ==
    /\ h # o
    /\ live[h] /\ live[o]
    /\ stores' = [stores EXCEPT ![h] = stores[o] \o stores[h], ![o] = << >>]
    /\ live' = [live EXCEPT ![o] = FALSE]
    /\ UNCHANGED <<emitted, nextId>>

(* Mutant of Extend: other's vector is copied, not drained, and stays live. *)
ExtendCopy(h, o) ==
    /\ h # o
    /\ live[h] /\ live[o]
    /\ stores' = [stores EXCEPT ![h] = stores[h] \o stores[o]]
    /\ UNCHANGED <<live, emitted, nextId>>

(* extend(&mut self, mut other: Self): self.annotations.append(&mut        *)
(* other.annotations).  `other` is taken by value: its vector is drained   *)
(* and the value is dropped, so its holder no longer owns a store.         *)
Extend(h, o) ==
    /\ h # o
    /\ live[h] /\ live[o]
    /\ stores' = [stores EXCEPT ![h] = stores[h] \o stores[o], ![o] = << >>]
    /\ live' = [live EXCEPT ![o] = FALSE]
    /\ UNCHANGED <<emitted, nextId>>

(* iter_mut(&mut self): a mutable reference to each (Loc, IDEAnnotation)   *)
(* pair; a caller may overwrite the location and the annotation of entry k *)
(* in place.  The ghost id stays with the slot.                           *)
WriteEntry(s, k, l, a) == [s EXCEPT ![k].loc = l, ![k].ann = a]

IterMut(h, k, l, a) ==
    /\ live[h]
    /\ k \in DOMAIN stores[h]
    /\ stores' = [stores EXCEPT ![h] = WriteEntry(@, k, l, a)]
    /\ UNCHANGED <<live, emitted, nextId>>

(* into_iter(self): the store is moved to the consumer, which maps every   *)
(* pair, in vector order, to a Diagnostic (From<(Loc, IDEAnnotation)>).    *)
IntoIter(h) ==
    /\ live[h]
    /\ emitted' = emitted \o stores[h]
    /\ stores' = [stores EXCEPT ![h] = << >>]
    /\ live' = [live EXCEPT ![h] = FALSE]
    /\ UNCHANGED nextId

Next ==
    \/ \E h \in Holders : New(h) \/ IntoIter(h)
    \/ \E h \in Holders, l \in Locs, a \in Anns : AddIdeAnnotation(h, l, a)
    \/ \E h, o \in Holders : Extend(h, o)
    \/ \E h \in Holders, l \in Locs, a \in Anns :
          \E k \in DOMAIN stores[h] : IterMut(h, k, l, a)

Spec == Init /\ [][Next]_vars

-----------------------------------------------------------------------------
(* Type invariant. *)
TypeOK ==
    /\ stores \in [Holders -> Seq(Entry)]
    /\ live \in [Holders -> BOOLEAN]
    /\ emitted \in Seq(Entry)
    /\ nextId \in 1..(MaxRecords + 1)

(* The ids held by a sequence of entries, and that no id occurs twice. *)
IdSet(s) == {s[k].id : k \in DOMAIN s}

UniqueIds(s) == \A k, j \in DOMAIN s : s[k].id = s[j].id => k = j

(* No annotation is lost: every add_ide_annotation call made so far is     *)
(* still in some holder's store or has been handed to the consumer,        *)
(* whatever sequence of extend and into_iter moved it there.               *)
NoLoss ==
    \A i \in 1..(nextId - 1) :
        i \in IdSet(emitted) \cup UNION {IdSet(stores[h]) : h \in Holders}

(* No annotation is duplicated: an entry is in at most one place, once,    *)
(* so merging stores never makes the consumer report a fact twice.         *)
NoDup ==
    /\ \A h \in Holders : UniqueIds(stores[h])
    /\ UniqueIds(emitted)
    /\ \A h, g \in Holders : h # g => IdSet(stores[h]) \cap IdSet(stores[g]) = {}
    /\ \A h \in Holders : IdSet(stores[h]) \cap IdSet(emitted) = {}

(* Every recorded annotation reaches the consumer's input exactly once. *)
ExactlyOnce == NoLoss /\ NoDup

(* Inductive strengthening of ExactlyOnce: a holder that does not own a   *)
(* store has an empty vector (so IDEInfo::new() discards nothing), and     *)
(* every id in a store or in the output was already issued (so the id of  *)
(* the next add_ide_annotation call is fresh).                             *)
DeadEmpty == \A h \in Holders : ~live[h] => stores[h] = << >>

IdsIssued ==
    /\ \A h \in Holders : IdSet(stores[h]) \subseteq 1..(nextId - 1)
    /\ IdSet(emitted) \subseteq 1..(nextId - 1)

IInv == TypeOK /\ DeadEmpty /\ IdsIssued /\ NoLoss /\ NoDup

(* A store only grows at its end: for a holder that owns a store before    *)
(* and after a step, the slots it had are still its first slots, in the    *)
(* same order; the consumer's output likewise only grows at its end.       *)
GrowsAtEnd ==
    /\ \A h \in Holders :
          live[h] /\ live'[h] =>
             SubSeq(IdSeq(stores'[h]), 1, Len(stores[h])) = IdSeq(stores[h])
    /\ SubSeq(IdSeq(emitted'), 1, Len(emitted)) = IdSeq(emitted)

(* The order of the golden output rests on this: no step of the store     *)
(* reorders, drops or inserts before the entries a live store already     *)
(* holds, and extend puts other's entries after the receiver's.            *)
SlotsGrowAtEnd == [][GrowsAtEnd]_vars

(* The spec (section 3, 4.1): a fact is never modified after insertion;    *)
(* for a holder that owns a store before and after a step, the old vector  *)
(* is a prefix of the new one, entry for entry.                            *)
AppendOnly ==
    [][ \A h \in Holders :
           live[h] /\ live'[h] =>
              SubSeq(stores'[h], 1, Len(stores[h])) = stores[h]
      ]_vars

-----------------------------------------------------------------------------
(* The refinement mapping onto the abstract specification of the store:    *)
(* the pending facts are the ids in the holders' stores, the consumer's    *)
(* output is the ids it was handed, and the facts issued are the           *)
(* add_ide_annotation calls made.                                          *)
Ledger == INSTANCE AnnotationLedger
              WITH pending <- UNION {IdSet(stores[h]) : h \in Holders},
                   out <- IdSeq(emitted),
                   issued <- nextId - 1

(* The store implements its contract: every step of new, add_ide_annotation, *)
(* extend, iter_mut and into_iter is a step of the ledger or leaves it      *)
(* unchanged.  In particular into_iter hands over only pending facts, each  *)
(* once, and removes exactly those from the pending ones; extend and       *)
(* iter_mut move and rewrite entries without creating or dropping a fact.  *)
LedgerRefinement == Ledger!LSpec
=============================================================================
