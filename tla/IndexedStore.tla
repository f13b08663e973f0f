---------------------------- MODULE IndexedStore ----------------------------
(***************************************************************************)
(* indexed_store, common/kernel/indexed_store.h: a vector of slots whose   *)
(* free slots form a linked list, threaded through next_free and ended by  *)
(* the size of the vector.  NetInfo::users is one of these; the ports of   *)
(* the cells keep indices into it.                                         *)
(*                                                                         *)
(* Indices count from 0; slots is a sequence, so index i is slots[i + 1].  *)
(***************************************************************************)
EXTENDS Integers, Sequences

CONSTANTS Objects,
          NoObject,   \* in a slot that is not active
          Indices     \* the indices a store may use: the bound of the model

ASSUME StoreAssumption ==
    /\ NoObject \notin Objects
    /\ Indices \subseteq Nat
    /\ \A i \in Indices : 0..i \subseteq Indices

VARIABLES slots, first_free, active_count
storeVars == <<slots, first_free, active_count>>

\* next_free is read only while the slot is free: free() has written it then.
Slot == [obj : Objects \cup {NoObject}, next_free : Nat]

Active(i) == slots[i + 1].obj # NoObject

StoreTypeOK ==
    /\ slots \in Seq(Slot)
    /\ first_free \in Nat
    /\ active_count \in Int

Init ==
    /\ slots = <<>>
    /\ first_free = 0
    /\ active_count = 0

\* add() at the end of the vector, and in the first free slot.
Append1(x) ==
    /\ first_free = Len(slots)
    /\ slots' = Append(slots, [obj |-> x, next_free |-> 0])
    /\ first_free' = first_free + 1

\* Seeded fault: the head is not moved and create() does not assert.
ReuseOverwrites(x) ==
    /\ first_free # Len(slots)
    /\ slots' = [slots EXCEPT ![first_free + 1].obj = x]
    /\ UNCHANGED first_free

Reuse(x) ==
    /\ first_free # Len(slots)
    /\ first_free < Len(slots) /\ ~Active(first_free)    \* slots.at, create
    /\ slots' = [slots EXCEPT ![first_free + 1].obj = x]
    /\ first_free' = slots[first_free + 1].next_free

Add(x) ==
    /\ first_free \in Indices
    /\ active_count' = active_count + 1
    /\ Append1(x) \/ Reuse(x)

\* Seeded fault: the old head is not linked.
RemoveUnlinked(i) ==
    /\ i < Len(slots) /\ Active(i)
    /\ active_count' = active_count - 1
    /\ slots' = [slots EXCEPT ![i + 1].obj = NoObject]
    /\ first_free' = i

Remove(i) ==
    /\ i < Len(slots) /\ Active(i)
    /\ active_count' = active_count - 1
    /\ slots' = [slots EXCEPT ![i + 1] = [obj |-> NoObject, next_free |-> first_free]]
    /\ first_free' = i

Clear ==
    /\ slots' = <<>>
    /\ first_free' = 0
    /\ active_count' = 0

Next == \/ \E x \in Objects : Add(x)
        \/ \E i \in Indices : Remove(i)
        \/ Clear

Spec == Init /\ [][Next]_storeVars

-----------------------------------------------------------------------------
(* Properties *)

SlotIndices == 0..(Len(slots) - 1)

\* fl is the free list: the distinct free slots, each linked to the next and
\* the last to the size of the vector.
IsFreeList(fl) ==
    LET n == Len(slots) - active_count IN
    /\ \A i, j \in 1..n : fl[i] = fl[j] => i = j
    /\ \A i \in 1..n : ~Active(fl[i])
    /\ \A k \in SlotIndices : ~Active(k) => \E i \in 1..n : fl[i] = k
    /\ first_free = IF n = 0 THEN Len(slots) ELSE fl[1]
    /\ \A i \in 1..n : slots[fl[i] + 1].next_free =
                         IF i = n THEN Len(slots) ELSE fl[i + 1]

\* The free list holds every free slot once and ends at the size of the vector,
\* and active_count counts the others: so add() neither overwrites a live
\* object nor asserts, however adds and removes are interleaved.
FreeListComplete ==
    /\ active_count <= Len(slots)
    /\ \E fl \in [1..(Len(slots) - active_count) -> SlotIndices] : IsFreeList(fl)

\* The vector grows only when no slot is free: its size is the greatest number
\* of objects there have been at a time, which users.capacity() relies on.
GrowsOnlyWhenFull ==
    [][Len(slots') > Len(slots) => \A i \in SlotIndices : Active(i)]_storeVars

\* The store implements its interface: an object stays where it is until it is
\* removed, and a new one gets an index that is not in use.
Entries == [i \in Indices |-> IF i < Len(slots) THEN slots[i + 1].obj ELSE NoObject]

Abstract == INSTANCE SlotMap WITH entry <- Entries
AbstractSpec == Abstract!Spec
=============================================================================
