---------------------------- MODULE Kernel_proofs ----------------------------
(***************************************************************************)
(* Two small components of common/kernel: indexed_store and the two        *)
(* mutexes of a design.                                                    *)
(*                                                                         *)
(* The free list of indexed_store, for any number of objects and slots.    *)
(* Each step of the store changes the list at its head only, so the list   *)
(* before the step gives the one after it: the tail for add(), one more    *)
(* element in front for remove().                                          *)
(*                                                                         *)
(* The safety of the mutexes, for any threads that draw and any number of  *)
(* stages, with pauses and stops.  The invariant says which thread holds   *)
(* which mutex from what each is about to do, and that a thread to which a *)
(* yield owes the lock still waits for it with the other mutex: the        *)
(* worker, which has to take that one first, cannot overtake it.           *)
(***************************************************************************)
EXTENDS IndexedStore, ContextLock, TLAPS

-----------------------------------------------------------------------------
(* indexed_store *)

LEMMA StoreStepTypes == StoreTypeOK /\ [Next]_storeVars => StoreTypeOK'
<1> SUFFICES ASSUME StoreTypeOK, [Next]_storeVars PROVE StoreTypeOK'
  OBVIOUS
<1> USE StoreAssumption DEF StoreTypeOK
<1>1. CASE UNCHANGED storeVars
  BY <1>1 DEF storeVars
<1>2. CASE \E x \in Objects : Add(x)
  <2>1. PICK x \in Objects : Add(x)
    BY <1>2
  <2>2. CASE Append1(x)
    <3>1. [obj |-> x, next_free |-> 0] \in Slot
      BY DEF Slot
    <3> QED BY <2>1, <2>2, <3>1 DEF Add, Append1
  <2>3. CASE Reuse(x)
    <3>1. first_free + 1 \in 1..Len(slots)
      BY <2>3 DEF Reuse
    <3>2. slots[first_free + 1] \in Slot
      BY <3>1
    <3>3. [slots[first_free + 1] EXCEPT !.obj = x] \in Slot
      BY <3>2 DEF Slot
    <3>4. slots' \in Seq(Slot)
      BY <2>3, <3>1, <3>3 DEF Reuse
    <3>5. first_free' \in Nat
      BY <2>3, <3>2 DEF Reuse, Slot
    <3> QED BY <2>1, <3>4, <3>5 DEF Add
  <2> QED BY <2>1, <2>2, <2>3 DEF Add
<1>3. CASE \E i \in Indices : Remove(i)
  <2>1. PICK i \in Indices : Remove(i)
    BY <1>3
  <2>2. i \in Nat /\ [obj |-> NoObject, next_free |-> first_free] \in Slot
    BY DEF Slot
  <2> QED BY <2>1, <2>2 DEF Remove
<1>4. CASE Clear
  BY <1>4 DEF Clear
<1> QED BY <1>1, <1>2, <1>3, <1>4 DEF Next

\* How the lemmas below establish that the list is complete: name it.
LEMMA NameFreeList ==
    ASSUME active_count <= Len(slots),
           NEW fl \in [1..(Len(slots) - active_count) -> SlotIndices], IsFreeList(fl)
    PROVE  FreeListComplete
BY DEF FreeListComplete

LEMMA NameNextFreeList ==
    ASSUME active_count' <= Len(slots'),
           NEW fl \in [1..(Len(slots') - active_count') -> SlotIndices'], IsFreeList(fl)'
    PROVE  FreeListComplete'
BY DEF FreeListComplete

LEMMA InitHasFreeList == Init => StoreTypeOK /\ FreeListComplete
<1> SUFFICES ASSUME Init PROVE StoreTypeOK /\ FreeListComplete
  OBVIOUS
<1>1. StoreTypeOK
  BY DEF Init, StoreTypeOK
<1>2. Len(slots) = 0 /\ active_count = 0 /\ first_free = 0
  BY DEF Init
<1>4. PICK fl : fl = [i \in 1..0 |-> 0]
  OBVIOUS
<1>3. fl \in [1..(Len(slots) - active_count) -> SlotIndices] /\ IsFreeList(fl)
  BY <1>2, <1>4 DEF IsFreeList, SlotIndices
<1>5. active_count <= Len(slots)
  BY <1>2
<1> QED BY <1>1, <1>3, <1>5, NameFreeList

\* At the end of the vector no slot is free.
LEMMA AppendKeepsFreeList ==
    ASSUME StoreTypeOK, FreeListComplete,
           NEW x \in Objects, Add(x), Append1(x)
    PROVE  FreeListComplete' /\ \A i \in SlotIndices : Active(i)
<1> DEFINE n == Len(slots) - active_count
<1> USE StoreAssumption DEF StoreTypeOK
<1>1. PICK fl \in [1..n -> SlotIndices] : IsFreeList(fl)
  BY DEF FreeListComplete
<1>2. n \in Int /\ n >= 0 /\ Len(slots) \in Nat
  BY DEF FreeListComplete
<1>3. n = 0
  <2> SUFFICES ASSUME n # 0 PROVE FALSE
    OBVIOUS
  <2>1. 1 \in 1..n /\ fl[1] \in SlotIndices
    BY <1>1, <1>2
  <2> QED BY <1>1, <1>2, <2>1 DEF IsFreeList, SlotIndices, Append1
<1>4. \A i \in SlotIndices : Active(i)
  BY <1>1, <1>3 DEF IsFreeList
<1>5. Len(slots') = Len(slots) + 1 /\ active_count' = active_count + 1
      /\ first_free' = Len(slots')
  BY <1>2 DEF Append1, Add
<1>6. \A i \in SlotIndices' : Active(i)'
  <2> SUFFICES ASSUME NEW i \in 0..Len(slots) PROVE slots'[i + 1].obj # NoObject
    BY <1>2, <1>5 DEF SlotIndices, Active
  <2>1. CASE i = Len(slots)
    BY <1>2, <2>1 DEF Append1
  <2>2. CASE i # Len(slots)
    <3>1. i \in SlotIndices /\ slots'[i + 1] = slots[i + 1]
      BY <1>2, <2>2 DEF SlotIndices, Append1
    <3> QED BY <1>4, <3>1 DEF Active
  <2> QED BY <2>1, <2>2
<1>9. PICK none : none = [i \in 1..0 |-> 0]
  OBVIOUS
<1>7. none \in [1..(Len(slots') - active_count') -> SlotIndices']
  BY <1>2, <1>3, <1>5, <1>9
<1>8. IsFreeList(none)'
  BY <1>2, <1>3, <1>5, <1>6, <1>9 DEF IsFreeList
<1>10. active_count' <= Len(slots')
  BY <1>2, <1>3, <1>5
<1> QED BY <1>4, <1>7, <1>8, <1>10, NameNextFreeList

\* Reusing a slot takes the head off the list.
LEMMA ReuseKeepsFreeList ==
    ASSUME StoreTypeOK, FreeListComplete,
           NEW x \in Objects, Add(x), Reuse(x)
    PROVE  FreeListComplete'
<1> DEFINE n == Len(slots) - active_count
<1> USE StoreAssumption DEF StoreTypeOK
<1>1. PICK fl \in [1..n -> SlotIndices] : IsFreeList(fl)
  BY DEF FreeListComplete
<1>2. n \in Int /\ n >= 1 /\ Len(slots) \in Nat
  BY <1>1 DEF FreeListComplete, IsFreeList, Reuse
<1>3. PICK head \in SlotIndices : head = first_free /\ head = fl[1]
  BY <1>1, <1>2 DEF IsFreeList
<1>4. /\ Len(slots') = Len(slots)
      /\ active_count' = active_count + 1
      /\ SlotIndices' = SlotIndices
  BY DEF Reuse, Add, SlotIndices
<1>5. slots' = [slots EXCEPT ![head + 1] = [slots[head + 1] EXCEPT !.obj = x]]
  BY <1>3 DEF Reuse
<1>6. ASSUME NEW k \in SlotIndices, k # head
      PROVE  slots'[k + 1] = slots[k + 1] /\ Active(k)' = Active(k)
  <2>1. k + 1 \in 1..Len(slots) /\ k + 1 # head + 1
    BY <1>2, <1>6 DEF SlotIndices
  <2> QED BY <1>5, <2>1 DEF Active
<1>7. Active(head)'
  <2>1. head + 1 \in 1..Len(slots)
    BY <1>2 DEF SlotIndices
  <2>2. slots'[head + 1].obj = x
    BY <1>5, <2>1 DEF Slot
  <2> QED BY <2>2 DEF Active
<1>8. PICK rest : rest = [i \in 1..(n - 1) |-> fl[i + 1]]
  OBVIOUS
<1>9. ASSUME NEW i \in 1..(n - 1)
      PROVE  /\ i + 1 \in 1..n
             /\ rest[i] = fl[i + 1]
             /\ rest[i] \in SlotIndices
             /\ rest[i] # head
  <2>1. i + 1 \in 1..n /\ 1 \in 1..n /\ i + 1 # 1
    BY <1>2
  <2>2. rest[i] = fl[i + 1]
    BY <1>8
  <2> QED BY <1>1, <1>3, <2>1, <2>2 DEF IsFreeList
<1>10. rest \in [1..(Len(slots') - active_count') -> SlotIndices']
  <2>1. Len(slots') - active_count' = n - 1
    BY <1>2, <1>4
  <2> QED BY <1>4, <1>8, <1>9, <2>1
<1>11. ASSUME NEW i \in 1..(n - 1), NEW j \in 1..(n - 1), rest[i] = rest[j]
       PROVE  i = j
  <2>1. \A p, q \in 1..n : fl[p] = fl[q] => p = q
    BY <1>1 DEF IsFreeList
  <2>2. /\ i + 1 \in 1..n /\ rest[i] = fl[i + 1]
        /\ j + 1 \in 1..n /\ rest[j] = fl[j + 1]
    BY <1>9
  <2>3. i + 1 = j + 1
    BY <1>11, <2>1, <2>2
  <2> QED BY <2>3
<1>12. ASSUME NEW i \in 1..(n - 1) PROVE ~Active(rest[i])'
  BY <1>1, <1>6, <1>9 DEF IsFreeList
<1>13. ASSUME NEW i \in 1..(n - 1)
       PROVE  slots'[rest[i] + 1].next_free =
                IF i = n - 1 THEN Len(slots) ELSE rest[i + 1]
  <2>1. slots'[rest[i] + 1].next_free = slots[fl[i + 1] + 1].next_free
    BY <1>6, <1>9
  <2>2. slots[fl[i + 1] + 1].next_free =
          IF i + 1 = n THEN Len(slots) ELSE fl[(i + 1) + 1]
    BY <1>1, <1>9 DEF IsFreeList
  <2>3. CASE i = n - 1
    BY <1>2, <2>1, <2>2, <2>3
  <2>4. CASE i # n - 1
    <3>1. i + 1 \in 1..(n - 1) /\ i + 1 # n
      BY <1>2, <2>4
    <3>2. rest[i + 1] = fl[(i + 1) + 1]
      BY <1>9, <3>1
    <3> QED BY <2>1, <2>2, <2>4, <3>1, <3>2
  <2> QED BY <2>3, <2>4
<1>14. ASSUME NEW k \in SlotIndices', ~Active(k)'
       PROVE  \E i \in 1..(n - 1) : rest[i] = k
  <2>1. k \in SlotIndices /\ k # head /\ ~Active(k)
    BY <1>4, <1>6, <1>7, <1>14
  <2>2. PICK i \in 1..n : fl[i] = k
    BY <1>1, <2>1 DEF IsFreeList
  <2>3. i - 1 \in 1..(n - 1) /\ (i - 1) + 1 = i
    BY <1>2, <1>3, <2>1, <2>2
  <2> QED BY <1>9, <2>2, <2>3
<1>15. first_free' = IF n - 1 = 0 THEN Len(slots') ELSE rest[1]
  <2>1. 1 \in 1..n /\ first_free' = slots[fl[1] + 1].next_free
    BY <1>2, <1>3 DEF Reuse
  <2>2. first_free' = IF 1 = n THEN Len(slots) ELSE fl[1 + 1]
    BY <1>1, <2>1 DEF IsFreeList
  <2>3. CASE n = 1
    BY <1>4, <2>2, <2>3
  <2>4. CASE n # 1
    <3>1. 1 \in 1..(n - 1)
      BY <1>2, <2>4
    <3> QED BY <1>2, <1>9, <2>2, <2>4, <3>1
  <2> QED BY <2>3, <2>4
<1>16. IsFreeList(rest)'
  <2>1. Len(slots') - active_count' = n - 1
    BY <1>2, <1>4
  <2> QED BY <1>4, <1>11, <1>12, <1>13, <1>14, <1>15, <2>1 DEF IsFreeList
<1>17. active_count' <= Len(slots')
  BY <1>2, <1>4
<1> QED BY <1>10, <1>16, <1>17, NameNextFreeList

\* A removed slot goes in front of the list.
LEMMA RemoveKeepsFreeList ==
    ASSUME StoreTypeOK, FreeListComplete, NEW s \in Indices, Remove(s)
    PROVE  FreeListComplete'
<1> DEFINE n == Len(slots) - active_count
<1> USE StoreAssumption DEF StoreTypeOK
<1>1. PICK fl \in [1..n -> SlotIndices] : IsFreeList(fl)
  BY DEF FreeListComplete
<1>2. n \in Int /\ n >= 0 /\ Len(slots) \in Nat /\ s \in SlotIndices
  BY <1>1 DEF FreeListComplete, Remove, SlotIndices
<1>3. Len(slots') = Len(slots) /\ active_count' = active_count - 1
      /\ SlotIndices' = SlotIndices /\ first_free' = s
  BY DEF Remove, SlotIndices
<1>4. ASSUME NEW k \in SlotIndices, k # s
      PROVE  slots'[k + 1] = slots[k + 1] /\ Active(k)' = Active(k)
  <2>1. k + 1 \in 1..Len(slots) /\ k + 1 # s + 1
    BY <1>2, <1>4 DEF SlotIndices
  <2> QED BY <2>1 DEF Remove, Active
<1>5. ~Active(s)' /\ slots'[s + 1].next_free = first_free /\ Active(s)
  <2>1. s + 1 \in 1..Len(slots)
    BY <1>2 DEF SlotIndices
  <2> QED BY <2>1 DEF Remove, Active
<1>14. PICK longer : longer = [i \in 1..(n + 1) |-> IF i = 1 THEN s ELSE fl[i - 1]]
  OBVIOUS
<1>6. ASSUME NEW i \in 1..(n + 1), i # 1
      PROVE  /\ i - 1 \in 1..n
             /\ longer[i] = fl[i - 1]
             /\ fl[i - 1] \in SlotIndices
             /\ fl[i - 1] # s
  <2>1. i - 1 \in 1..n
    BY <1>2, <1>6
  <2>2. longer[i] = fl[i - 1]
    BY <1>6, <1>14
  <2>3. fl[i - 1] \in SlotIndices
    BY <1>1, <2>1
  <2>4. ~Active(fl[i - 1])
    BY <1>1, <2>1 DEF IsFreeList
  <2> QED BY <1>5, <2>1, <2>2, <2>3, <2>4
<1>7. longer[1] = s
  BY <1>2, <1>14
<1>8. longer \in [1..(Len(slots') - active_count') -> SlotIndices']
  BY <1>2, <1>3, <1>6, <1>7, <1>14
<1>9. \A i, j \in 1..(n + 1) : longer[i] = longer[j] => i = j
  <2> SUFFICES ASSUME NEW i \in 1..(n + 1), NEW j \in 1..(n + 1),
                      longer[i] = longer[j]
               PROVE  i = j
    OBVIOUS
  <2>1. CASE i = 1 \/ j = 1
    BY <1>6, <1>7, <2>1
  <2>2. CASE i # 1 /\ j # 1
    <3>2. i - 1 \in 1..n /\ j - 1 \in 1..n /\ fl[i - 1] = fl[j - 1]
      BY <1>6, <2>2
    <3>1. i - 1 = j - 1
      BY <1>1, <3>2 DEF IsFreeList
    <3> QED BY <1>2, <3>1
  <2> QED BY <2>1, <2>2
<1>10. \A i \in 1..(n + 1) : ~Active(longer[i])'
  BY <1>1, <1>4, <1>5, <1>6, <1>7 DEF IsFreeList
<1>11. ASSUME NEW k \in SlotIndices', ~Active(k)'
       PROVE  \E i \in 1..(n + 1) : longer[i] = k
  <2>1. CASE k = s
    BY <1>2, <1>7, <2>1
  <2>2. CASE k # s
    <3>1. PICK i \in 1..n : fl[i] = k
      BY <1>1, <1>3, <1>4, <1>11, <2>2 DEF IsFreeList
    <3>2. i + 1 \in 1..(n + 1) /\ longer[i + 1] = k
      BY <1>2, <1>14, <3>1
    <3> QED BY <3>2
  <2> QED BY <2>1, <2>2
<1>12. ASSUME NEW i \in 1..(n + 1)
       PROVE  slots'[longer[i] + 1].next_free =
                IF i = n + 1 THEN Len(slots) ELSE longer[i + 1]
  <2>1. CASE i = 1
    <3>1. slots'[longer[i] + 1].next_free = IF n = 0 THEN Len(slots) ELSE fl[1]
      BY <1>1, <1>5, <1>7, <2>1 DEF IsFreeList
    <3>2. CASE n = 0
      BY <2>1, <3>1, <3>2
    <3>3. CASE n # 0
      <4>1. 2 \in 1..(n + 1) /\ i # n + 1
        BY <1>2, <2>1, <3>3
      <4>2. longer[2] = fl[2 - 1]
        BY <1>6, <4>1
      <4> QED BY <2>1, <3>1, <3>3, <4>1, <4>2
    <3> QED BY <3>2, <3>3
  <2>2. CASE i # 1
    <3>1. slots'[longer[i] + 1].next_free = slots[fl[i - 1] + 1].next_free
      BY <1>4, <1>6, <2>2
    <3>2. slots[fl[i - 1] + 1].next_free =
            IF i - 1 = n THEN Len(slots) ELSE fl[(i - 1) + 1]
      BY <1>1, <1>6, <2>2 DEF IsFreeList
    <3>3. CASE i = n + 1
      BY <1>2, <3>1, <3>2, <3>3
    <3>4. CASE i # n + 1
      <4>1. i + 1 \in 1..(n + 1) /\ i + 1 # 1 /\ i - 1 # n
        BY <1>2, <3>4
      <4>2. longer[i + 1] = fl[(i + 1) - 1]
        BY <1>6, <4>1
      <4>3. (i + 1) - 1 = (i - 1) + 1
        OBVIOUS
      <4> QED BY <3>1, <3>2, <3>4, <4>1, <4>2, <4>3
    <3> QED BY <3>3, <3>4
  <2> QED BY <2>1, <2>2
<1>13. IsFreeList(longer)'
  BY <1>2, <1>3, <1>7, <1>9, <1>10, <1>11, <1>12 DEF IsFreeList
<1>15. active_count' <= Len(slots')
  BY <1>2, <1>3
<1> QED BY <1>8, <1>13, <1>15, NameNextFreeList

LEMMA StepKeepsFreeList ==
    StoreTypeOK /\ FreeListComplete /\ [Next]_storeVars => FreeListComplete'
<1> SUFFICES ASSUME StoreTypeOK, FreeListComplete, [Next]_storeVars
             PROVE  FreeListComplete'
  OBVIOUS
<1>1. CASE UNCHANGED storeVars
  <2>1. slots' = slots /\ first_free' = first_free /\ active_count' = active_count
    BY <1>1 DEF storeVars
  <2>2. SlotIndices' = SlotIndices /\ \A i : Active(i)' = Active(i)
    BY <2>1 DEF SlotIndices, Active
  <2>3. \A fl \in [1..(Len(slots) - active_count) -> SlotIndices] :
          IsFreeList(fl) => IsFreeList(fl)'
    BY ONLY Zenon, <2>1, <2>2 DEF IsFreeList
  <2>4. PICK fl \in [1..(Len(slots) - active_count) -> SlotIndices] : IsFreeList(fl)
    BY DEF FreeListComplete
  <2>5. fl \in [1..(Len(slots) - active_count) -> SlotIndices]' /\ IsFreeList(fl)'
    BY <2>1, <2>2, <2>3, <2>4
  <2> QED BY <2>1, <2>5 DEF FreeListComplete
<1>2. CASE \E x \in Objects : Add(x)
  BY <1>2, AppendKeepsFreeList, ReuseKeepsFreeList DEF Add
<1>3. CASE \E i \in Indices : Remove(i)
  BY <1>3, RemoveKeepsFreeList
<1>4. CASE Clear
  <2>4. PICK none : none = [i \in 1..0 |-> 0]
    OBVIOUS
  <2>1. Len(slots') = 0 /\ active_count' = 0 /\ first_free' = 0
    BY <1>4 DEF Clear
  <2>2. none \in [1..(Len(slots') - active_count') -> SlotIndices']
    BY <2>1, <2>4
  <2>3. IsFreeList(none)'
    BY <2>1, <2>4 DEF IsFreeList, SlotIndices
  <2>5. active_count' <= Len(slots')
    BY <2>1
  <2> QED BY <2>2, <2>3, <2>5, NameNextFreeList
<1> QED BY <1>1, <1>2, <1>3, <1>4 DEF Next

\* Type correctness of the store.
THEOREM StoreTypeCorrect == Spec => []StoreTypeOK
<1>1. Init => StoreTypeOK
  BY InitHasFreeList
<1> QED BY <1>1, StoreStepTypes, PTL DEF Spec

\* However adds, removes and clears are interleaved, the free list holds every
\* free slot exactly once: no slot is lost and none is handed out twice.
THEOREM FreeListStaysComplete == Spec => []FreeListComplete
<1>1. Init => FreeListComplete
  BY InitHasFreeList
<1> QED BY <1>1, StepKeepsFreeList, StoreTypeCorrect, PTL DEF Spec

\* The vector behind a store never grows while it has a free slot.
THEOREM StoreGrowsOnlyWhenFull == Spec => GrowsOnlyWhenFull
<1>1. StoreTypeOK /\ FreeListComplete /\ [Next]_storeVars =>
        [Len(slots') > Len(slots) => \A i \in SlotIndices : Active(i)]_storeVars
  <2> SUFFICES ASSUME StoreTypeOK, FreeListComplete, Next, Len(slots') > Len(slots)
               PROVE  \A i \in SlotIndices : Active(i)
    BY DEF storeVars
  <2>1. ASSUME NEW x \in Objects, Reuse(x) PROVE FALSE
    BY <2>1 DEF Reuse, StoreTypeOK
  <2>2. ASSUME NEW i \in Indices, Remove(i) PROVE FALSE
    BY <2>2, StoreAssumption DEF Remove, StoreTypeOK
  <2>3. ASSUME Clear PROVE FALSE
    BY <2>3 DEF Clear, StoreTypeOK
  <2> QED BY <2>1, <2>2, <2>3, AppendKeepsFreeList DEF Next, Add
<1> QED BY <1>1, StoreTypeCorrect, FreeListStaysComplete, PTL
        DEF Spec, GrowsOnlyWhenFull

\* The linked slots implement the interface of SlotMap: objects stay at their
\* index and indices in use are never given out again.
THEOREM StoreImplementsSlotMap == Spec => AbstractSpec
<1> USE StoreAssumption
<1>1. Init => Abstract!Init
  BY DEF Init, Abstract!Init, Entries
<1>2. StoreTypeOK /\ FreeListComplete /\ [Next]_storeVars => [Abstract!Next]_Entries
  <2> SUFFICES ASSUME StoreTypeOK, [Next]_storeVars
               PROVE  [Abstract!Next]_Entries
    OBVIOUS
  <2> USE DEF StoreTypeOK
  <2>1. CASE UNCHANGED storeVars
    BY <2>1 DEF storeVars, Entries
  <2>2. ASSUME NEW x \in Objects, Add(x) PROVE Abstract!Next
    <3>1. first_free \in Indices /\ first_free \in Nat
      BY <2>2 DEF Add
    <3>2. Entries[first_free] = NoObject
      BY <2>2, <3>1 DEF Entries, Add, Append1, Reuse, Active
    <3>3. ASSUME NEW i \in Indices
          PROVE  Entries'[i] = IF i = first_free THEN x ELSE Entries[i]
      <4>1. CASE Append1(x)
        BY <3>1, <4>1 DEF Append1, Entries
      <4>2. CASE Reuse(x)
        BY <3>1, <4>2 DEF Reuse, Entries
      <4> QED BY <2>2, <4>1, <4>2 DEF Add
    <3>4. Entries' = [Entries EXCEPT ![first_free] = x]
      BY <3>1, <3>3 DEF Entries
    <3> QED BY <3>1, <3>2, <3>4 DEF Abstract!Next, Abstract!Add
  <2>3. ASSUME NEW s \in Indices, Remove(s) PROVE Abstract!Next
    <3>1. Entries[s] # NoObject
      BY <2>3 DEF Entries, Remove, Active
    <3>2. ASSUME NEW i \in Indices
          PROVE  Entries'[i] = IF i = s THEN NoObject ELSE Entries[i]
      BY <2>3 DEF Remove, Entries
    <3>3. Entries' = [Entries EXCEPT ![s] = NoObject]
      BY <3>2 DEF Entries
    <3> QED BY <3>1, <3>3 DEF Abstract!Next, Abstract!Remove
  <2>4. CASE Clear
    BY <2>4 DEF Clear, Entries, Abstract!Next, Abstract!Clear
  <2> QED BY <2>1, <2>2, <2>3, <2>4 DEF Next
<1> QED BY <1>1, <1>2, StoreTypeCorrect, FreeListStaysComplete, PTL
        DEF Spec, AbstractSpec, Abstract!Spec

-----------------------------------------------------------------------------
(* The two mutexes *)

MutexHeld ==
    /\ worker \in {"running", "paused"} => mutex = Worker
    /\ \A g \in Guis : gui[g] = "drawing" <=> mutex = g

UiMutexHeld ==
    /\ worker = "flashed" <=> ui_mutex = Worker
    /\ \A g \in Guis : gui[g] \in {"lock", "drawing", "unlock_ui"} <=> ui_mutex = g

OwedWaits == owed # None => worker = "flash" /\ gui[owed] = "lock"

LockInv == LockTypeOK /\ MutexHeld /\ UiMutexHeld /\ OwedWaits

\* The lock is the worker's only while it is in a stage.
Released == guarded = TRUE /\ (worker \notin {"running", "paused"} => mutex # Worker)

\* Each part of the invariant is kept by each step.
LEMMA LockStepKeeps == LockInv /\ [LockNext]_lockVars => LockInv'
<1> SUFFICES ASSUME LockInv, [LockNext]_lockVars PROVE LockInv'
  OBVIOUS
<1> USE LockAssumption DEF LockInv, LockTypeOK, MutexHeld, UiMutexHeld, OwedWaits
<1>1. CASE StartStage
  <2>1. /\ worker = "idle" /\ worker' = "lock" /\ stages' \in 0..MaxStages
        /\ UNCHANGED <<mutex, ui_mutex, owed, gui, toPause, toTerminate>>
    BY <1>1 DEF StartStage, mutexVars, taskVars
  <2>2. guarded' \in BOOLEAN
    BY <1>1 DEF StartStage
  <2> QED BY <2>1, <2>2
<1>2. CASE Lock
  BY <1>2 DEF Lock, taskVars
<1>3. CASE Unlock
  BY <1>3 DEF Unlock, taskVars
<1>4. CASE Yield
  BY <1>4 DEF Yield, Waiting, taskVars
<1>5. CASE FlashLock
  BY <1>5 DEF FlashLock, taskVars
<1>6. CASE FlashUnlock
  BY <1>6 DEF FlashUnlock, taskVars
<1>7. CASE Log
  BY <1>7 DEF Log, Throw, mutexVars, taskVars
<1>8. CASE Poll
  BY <1>8 DEF Poll, Throw, mutexVars, taskVars
<1>9. ASSUME NEW g \in Guis, WantToDraw(g) PROVE LockInv'
  BY <1>9 DEF WantToDraw, mutexVars, taskVars
<1>10. ASSUME NEW g \in Guis, LockUi(g) PROVE LockInv'
  BY <1>10 DEF LockUi, taskVars
<1>11. ASSUME NEW g \in Guis, LockToDraw(g) PROVE LockInv'
  BY <1>11 DEF LockToDraw, taskVars
<1>12. ASSUME NEW g \in Guis, Drawn(g) PROVE LockInv'
  BY <1>12 DEF Drawn, taskVars
<1>13. ASSUME NEW g \in Guis, UnlockUi(g) PROVE LockInv'
  BY <1>13 DEF UnlockUi, taskVars
<1>14. CASE Pause \/ Continue \/ Terminate
  BY <1>14 DEF Pause, Continue, Terminate, mutexVars
<1>15. CASE UNCHANGED lockVars
  BY <1>15 DEF lockVars
<1> QED
  BY <1>1, <1>2, <1>3, <1>4, <1>5, <1>6, <1>7, <1>8, <1>9, <1>10, <1>11, <1>12, <1>13,
     <1>14, <1>15 DEF LockNext, WorkerStep

\* No thread has a mutex at first.
LEMMA LockInitKeeps == LockInit => LockInv
<1> SUFFICES ASSUME LockInit PROVE LockInv
  OBVIOUS
<1>1. LockTypeOK
  <2>1. guarded \in BOOLEAN /\ toPause \in BOOLEAN /\ toTerminate \in BOOLEAN
    BY DEF LockInit
  <2>2. stages \in 0..MaxStages
    BY LockAssumption DEF LockInit
  <2> QED BY <2>1, <2>2 DEF LockInit, LockTypeOK
<1>2. MutexHeld /\ UiMutexHeld /\ OwedWaits
  BY LockAssumption DEF LockInit, MutexHeld, UiMutexHeld, OwedWaits
<1> QED BY <1>1, <1>2 DEF LockInv

\* The invariant of the induction.
LEMMA LockInvariant == LockSpec => []LockInv
BY LockInitKeeps, LockStepKeeps, PTL DEF LockSpec

\* The design is not changed while a thread draws it, and two threads do not
\* draw it at once.
THEOREM DrawnInPeace == LockSpec => []NoChangeWhileDrawing
<1>1. LockInv => NoChangeWhileDrawing
  BY LockAssumption DEF LockInv, MutexHeld, NoChangeWhileDrawing
<1> QED BY <1>1, LockInvariant, PTL

\* A thread that waited for the lock when the worker yielded has had it before
\* the worker has it again, however many other threads there are.
THEOREM YieldsServeTheGui == LockSpec => []YieldServesTheGui
<1>1. LockInv => YieldServesTheGui
  BY DEF LockInv, OwedWaits, YieldServesTheGui
<1> QED BY <1>1, LockInvariant, PTL

\* When every stage locks with a guard, none leaves the lock taken, whether it
\* ends, is stopped while it runs or is stopped in a pause.
THEOREM StagesReleaseTheLock ==
    ASSUME Unguarded = FALSE
    PROVE  LockSpec => []IdleHoldsNothing
<1>1. LockInit => Released
  BY LockAssumption DEF LockInit, Released
<1>2. LockTypeOK /\ Released /\ [LockNext]_lockVars => Released'
  <2> SUFFICES ASSUME LockTypeOK, Released, [LockNext]_lockVars PROVE Released'
    OBVIOUS
  <2> USE LockAssumption DEF LockTypeOK, Released
  <2>1. CASE WorkerStep
    BY <2>1 DEF WorkerStep, StartStage, Lock, Unlock, Yield, FlashLock, FlashUnlock, Log,
                Poll, Throw, mutexVars
  <2>2. ASSUME NEW g \in Guis,
               WantToDraw(g) \/ LockUi(g) \/ LockToDraw(g) \/ Drawn(g) \/ UnlockUi(g)
        PROVE  Released'
    BY <2>2 DEF WantToDraw, LockUi, LockToDraw, Drawn, UnlockUi, mutexVars
  <2>3. CASE Pause \/ Continue \/ Terminate
    BY <2>3 DEF Pause, Continue, Terminate, mutexVars
  <2>4. CASE UNCHANGED lockVars
    BY <2>4 DEF lockVars
  <2> QED BY <2>1, <2>2, <2>3, <2>4 DEF LockNext
<1>3. LockInv => LockTypeOK
  BY DEF LockInv
<1>4. Released => IdleHoldsNothing
  BY DEF Released, IdleHoldsNothing
<1> QED BY <1>1, <1>2, <1>3, <1>4, LockInvariant, PTL DEF LockSpec
=============================================================================
