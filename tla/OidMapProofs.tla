---------------------------- MODULE OidMapProofs ----------------------------
(***************************************************************************)
(* Proofs about OidMap, for all ids, addresses and array sizes.            *)
(***************************************************************************)
EXTENDS OidMap, SequenceTheorems, TLAPS

(* Where the part of the array begins that still owns memory, and the part *)
(* that is still in the tree: a dispose moves both to the end.             *)
FirstOwned == IF Disposing THEN next ELSE 1
FirstInTree == CASE pc = "delete" -> next [] pc = "free" -> next + 1 [] OTHER -> 1
Spare == IF pc \in {"search", "append"} THEN {entry} ELSE {}

Ownership ==
  /\ \A i, j \in DOMAIN entries : entries[i] = entries[j] => i = j
  /\ DOMAIN heap = {entries[i] : i \in FirstOwned..Len(entries)} \cup Spare
  /\ root = {entries[i] : i \in FirstInTree..Len(entries)}
              \cup (IF pc = "append" THEN {entry} ELSE {})
  /\ \A i \in DOMAIN entries : entries[i] \notin Spare
DistinctKeys ==
  /\ \A i, j \in FirstOwned..Len(entries) : heap[entries[i]].old = heap[entries[j]].old => i = j
  /\ pc = "append" => \A i \in DOMAIN entries : heap[entries[i]].old # key
Phases ==
  /\ pc \in {"search", "append"} => heap[entry] = Entry(key, value)
  /\ Disposing => next <= Len(entries) + 1
  /\ pc = "free" => next <= Len(entries)
  /\ Len(entries) <= capacity
  /\ pc \in {"malloc", "search", "append"} => Len(entries) < capacity
  /\ result = "none" <=> pc \in {"reserve", "malloc", "search", "append"}

Inv == TypeOK /\ Ownership /\ DistinctKeys /\ Phases

-----------------------------------------------------------------------------
LEMMA EntriesFacts ==
  ASSUME TypeOK
  PROVE  /\ Len(entries) \in Nat /\ DOMAIN entries = 1..Len(entries)
         /\ \A i \in DOMAIN entries : entries[i] \in Addresses
BY ElementOfSeq DEF TypeOK

LEMMA InitInv == Init => Inv
<1> SUFFICES ASSUME Init PROVE Inv
  OBVIOUS
<1>1. entries = <<>> /\ Len(entries) = 0 /\ DOMAIN entries = {} /\ DOMAIN heap = {}
  BY DEF Init, EmptyMap
<1>2. TypeOK
  BY <1>1 DEF Init, TypeOK, EmptyMap
<1>3. 1..Len(entries) = {}
  BY <1>1
<1>4. Ownership
  BY <1>1, <1>3 DEF Init, Ownership, Spare, FirstOwned, FirstInTree, Disposing
<1>5. DistinctKeys /\ Phases
  BY <1>1, <1>3 DEF Init, DistinctKeys, Phases, FirstOwned, Disposing
<1>6. QED
  BY <1>2, <1>4, <1>5 DEF Inv

LEMMA DropFacts ==
  ASSUME NEW f, NEW a
  PROVE  /\ DOMAIN Drop(f, a) = DOMAIN f \ {a}
         /\ \A x \in DOMAIN f \ {a} : Drop(f, a)[x] = f[x]
BY DEF Drop, Restrict

LEMMA StepType == TypeOK /\ [Next]_vars => TypeOK'
<1> SUFFICES ASSUME TypeOK, [Next]_vars PROVE TypeOK'
  OBVIOUS
<1>1. ASSUME NEW k \in Keys, NEW v \in Values, CallPut(k, v) PROVE TypeOK'
  BY <1>1 DEF TypeOK, CallPut
<1>2. CASE Reserve
  BY <1>2, FirstCapacityAssumption DEF TypeOK, Reserve
<1>3. CASE ReserveFails \/ MallocFails
  BY <1>3 DEF TypeOK, ReserveFails, MallocFails, Return
<1>4. ASSUME NEW a \in Addresses, Malloc(a) PROVE TypeOK'
  <2>1. heap' \in [DOMAIN heap' -> [old : Keys, new : Values]] /\ DOMAIN heap' = DOMAIN heap \cup {a}
    BY <1>4 DEF Malloc, TypeOK, Put, Entry
  <2>2. QED
    BY <1>4, <2>1 DEF TypeOK, Malloc
<1>5. ASSUME NEW a \in Addresses, Overwrite(a) PROVE TypeOK'
  <2>1. heap' \in [DOMAIN heap' -> [old : Keys, new : Values]] /\ DOMAIN heap' \subseteq DOMAIN heap
    BY <1>5 DEF TypeOK, Overwrite, Drop, Restrict
  <2>2. QED
    BY <1>5, <2>1 DEF TypeOK, Overwrite, Return
<1>6. CASE Insert
  BY <1>6 DEF TypeOK, Insert
<1>7. CASE InsertFails
  <2>1. heap' \in [DOMAIN heap' -> [old : Keys, new : Values]] /\ DOMAIN heap' \subseteq DOMAIN heap
    BY <1>7 DEF TypeOK, InsertFails, Drop, Restrict
  <2>2. QED
    BY <1>7, <2>1 DEF TypeOK, InsertFails, Return
<1>8. CASE AppendEntry
  <2>1. entries' \in Seq(Addresses)
    BY <1>8, AppendProperties DEF TypeOK, AppendEntry
  <2>2. QED
    BY <1>8, <2>1 DEF TypeOK, AppendEntry, Return
<1>9. CASE CallDispose
  BY <1>9 DEF TypeOK, CallDispose
<1>10. CASE DeleteOne
  BY <1>10 DEF TypeOK, DeleteOne
<1>11. CASE FreeOne
  <2>1. heap' \in [DOMAIN heap' -> [old : Keys, new : Values]] /\ DOMAIN heap' \subseteq DOMAIN heap
    BY <1>11 DEF TypeOK, FreeOne, Drop, Restrict
  <2>2. next' \in Nat \ {0}
    BY <1>11 DEF TypeOK, FreeOne
  <2>3. QED
    BY <1>11, <2>1, <2>2 DEF TypeOK, FreeOne
<1>12. CASE FinishDispose
  BY <1>12 DEF TypeOK, FinishDispose
<1>13. CASE UNCHANGED vars
  BY <1>13 DEF TypeOK, vars
<1>14. QED
  BY <1>1, <1>2, <1>3, <1>4, <1>5, <1>6, <1>7, <1>8, <1>9, <1>10, <1>11, <1>12, <1>13 DEF Next

(* The state of a map is always well typed. *)
THEOREM TypeCorrect == Spec => []TypeOK
<1>1. Init => TypeOK
  BY InitInv DEF Inv
<1>2. QED
  BY <1>1, StepType, PTL DEF Spec

-----------------------------------------------------------------------------
(* The inductive step, per action. *)

LEMMA StepInv == Inv /\ [Next]_vars => Inv'
<1> SUFFICES ASSUME Inv, [Next]_vars PROVE Inv'
  OBVIOUS
<1>0. TypeOK /\ TypeOK'
  BY StepType DEF Inv
<1>00. /\ Len(entries) \in Nat /\ DOMAIN entries = 1..Len(entries)
       /\ \A i \in DOMAIN entries : entries[i] \in Addresses
  BY <1>0, EntriesFacts
<1> USE DEF Inv, FirstOwned, FirstInTree, Spare, Disposing
<1>1. ASSUME NEW k \in Keys, NEW v \in Values, CallPut(k, v) PROVE Inv'
  BY <1>0, <1>1 DEF CallPut, Ownership, DistinctKeys, Phases
<1>2. CASE Reserve
  <2>1. Len(entries) < capacity'
    BY <1>0, <1>00, <1>2, FirstCapacityAssumption DEF Reserve, TypeOK, Phases
  <2>2. QED
    <3>1. /\ pc = "reserve" /\ pc' = "malloc"
          /\ UNCHANGED <<heap, root, entries, key, value, entry, next, result>>
      BY <1>2 DEF Reserve
    <3>2. Ownership' /\ DistinctKeys'
      BY <3>1 DEF Ownership, DistinctKeys
    <3>3. Phases'
      BY <1>0, <1>00, <2>1, <3>1 DEF Phases, TypeOK
    <3>4. QED
      BY <1>0, <3>2, <3>3
<1>3. CASE ReserveFails \/ MallocFails
  <2>1. /\ pc \in {"reserve", "malloc"} /\ pc' = "idle" /\ result' = "failed"
        /\ UNCHANGED <<heap, root, entries, capacity, key, value, entry, next>>
    BY <1>3 DEF ReserveFails, MallocFails, Return
  <2>2. Ownership' /\ DistinctKeys'
    BY <2>1 DEF Ownership, DistinctKeys
  <2>3. Phases'
    BY <2>1 DEF Phases
  <2>4. QED
    BY <1>0, <2>2, <2>3
<1>4. ASSUME NEW a \in Addresses, Malloc(a) PROVE Inv'
  <2>1. /\ pc = "malloc" /\ pc' = "search" /\ a \notin DOMAIN heap /\ entry' = a
        /\ UNCHANGED <<root, entries, capacity, key, value, next, result>>
    BY <1>4 DEF Malloc
  <2>2. /\ DOMAIN heap' = DOMAIN heap \cup {a} /\ heap'[a] = Entry(key, value)
        /\ \A x \in DOMAIN heap : heap'[x] = heap[x]
    BY <1>4 DEF Malloc, Put
  <2>3. DOMAIN heap = {entries[i] : i \in 1..Len(entries)}
    BY <2>1 DEF Ownership
  <2>4. Ownership'
    BY <1>00, <2>1, <2>2, <2>3 DEF Ownership
  <2>5. DistinctKeys'
    <3>1. \A i \in 1..Len(entries) : heap'[entries[i]] = heap[entries[i]]
      BY <2>2, <2>3
    <3>2. QED
      BY <2>1, <3>1 DEF DistinctKeys
  <2>6. Phases'
    BY <2>1, <2>2 DEF Phases, Entry
  <2>7. QED
    BY <1>0, <2>4, <2>5, <2>6
<1>5. ASSUME NEW a \in Addresses, Overwrite(a) PROVE Inv'
  <2>1. /\ pc = "search" /\ pc' = "idle" /\ result' = "ok" /\ a \in root /\ heap[a].old = key
        /\ UNCHANGED <<root, entries, capacity, key, value, entry, next>>
    BY <1>5 DEF Overwrite, Return, Found
  <2>2. /\ root = {entries[i] : i \in 1..Len(entries)} /\ DOMAIN heap = root \cup {entry}
        /\ entry \notin root
    BY <1>00, <2>1 DEF Ownership
  <2>3. /\ DOMAIN heap' = root
        /\ \A x \in root : heap'[x].old = heap[x].old
    BY <1>0, <1>5, <2>1, <2>2 DEF Overwrite, Drop, Restrict, TypeOK
  <2>4. Ownership'
    BY <1>00, <2>1, <2>2, <2>3 DEF Ownership
  <2>5. DistinctKeys'
    BY <1>00, <2>1, <2>2, <2>3 DEF DistinctKeys
  <2>6. Phases'
    BY <2>1 DEF Phases
  <2>7. QED
    BY <1>0, <2>4, <2>5, <2>6
<1>6. CASE Insert
  <2>1. /\ pc = "search" /\ pc' = "append" /\ root' = root \cup {entry}
        /\ \A x \in root : heap[x].old # key
        /\ UNCHANGED <<heap, entries, capacity, key, value, entry, next, result>>
    BY <1>6 DEF Insert, Found
  <2>2. root = {entries[i] : i \in 1..Len(entries)}
    BY <2>1 DEF Ownership
  <2>3. Ownership'
    BY <2>1, <2>2 DEF Ownership
  <2>4. DistinctKeys'
    BY <1>00, <2>1, <2>2 DEF DistinctKeys
  <2>5. Phases'
    BY <2>1 DEF Phases, Entry
  <2>6. QED
    BY <1>0, <2>3, <2>4, <2>5
<1>7. CASE InsertFails
  <2>1. /\ pc = "search" /\ pc' = "idle" /\ result' = "failed"
        /\ UNCHANGED <<root, entries, capacity, key, value, entry, next>>
    BY <1>7 DEF InsertFails, Return
  <2>2. /\ root = {entries[i] : i \in 1..Len(entries)} /\ DOMAIN heap = root \cup {entry}
        /\ entry \notin root
    BY <1>00, <2>1 DEF Ownership
  <2>3. DOMAIN heap' = root /\ \A x \in root : heap'[x] = heap[x]
    BY <1>7, <2>2 DEF InsertFails, Drop, Restrict
  <2>4. Ownership'
    BY <1>00, <2>1, <2>2, <2>3 DEF Ownership
  <2>5. DistinctKeys'
    BY <1>00, <2>1, <2>2, <2>3 DEF DistinctKeys
  <2>6. Phases'
    BY <2>1 DEF Phases
  <2>7. QED
    BY <1>0, <2>4, <2>5, <2>6
<1>8. CASE AppendEntry
  <2>1. /\ pc = "append" /\ pc' = "idle" /\ result' = "ok" /\ entries' = Append(entries, entry)
        /\ UNCHANGED <<heap, root, capacity, key, value, entry, next>>
    BY <1>8 DEF AppendEntry, Return
  <2>2. /\ Len(entries') = Len(entries) + 1 /\ DOMAIN entries' = 1..Len(entries')
        /\ entries'[Len(entries')] = entry
        /\ \A i \in 1..Len(entries) : entries'[i] = entries[i]
    BY <1>0, <1>00, <2>1, AppendProperties DEF TypeOK
  <2>3. /\ DOMAIN heap = {entries[i] : i \in 1..Len(entries)} \cup {entry}
        /\ root = DOMAIN heap /\ heap[entry] = Entry(key, value)
        /\ \A i \in 1..Len(entries) : entries[i] # entry
        /\ Len(entries) < capacity
    BY <1>00, <2>1 DEF Ownership, Phases
  <2>4. {entries'[i] : i \in 1..Len(entries')} = DOMAIN heap
    <3>1. \A i \in 1..Len(entries') : i \in 1..Len(entries) \/ i = Len(entries')
      BY <1>00, <2>2
    <3>2. \A i \in 1..Len(entries) : i \in 1..Len(entries')
      BY <1>00, <2>2
    <3>3. Len(entries') \in 1..Len(entries')
      BY <1>00, <2>2
    <3>4. QED
      BY <2>2, <2>3, <3>1, <3>2, <3>3
  <2>5. \A i, j \in 1..Len(entries') : entries'[i] = entries'[j] => i = j
    <3>1. \A i, j \in 1..Len(entries) : entries[i] = entries[j] => i = j
      BY <1>00 DEF Ownership
    <3>2. \A i \in 1..Len(entries') : i \in 1..Len(entries) \/ i = Len(entries')
      BY <1>00, <2>2
    <3>3. QED
      BY <2>2, <2>3, <3>1, <3>2
  <2>6. Ownership'
    BY <2>1, <2>2, <2>3, <2>4, <2>5 DEF Ownership
  <2>7. DistinctKeys'
    <3>1. \A i, j \in 1..Len(entries) : heap[entries[i]].old = heap[entries[j]].old => i = j
      BY <2>1 DEF DistinctKeys
    <3>2. \A i \in 1..Len(entries) : heap[entries[i]].old # heap[entry].old
      BY <1>00, <2>1, <2>3 DEF DistinctKeys, Entry
    <3>3. \A i \in 1..Len(entries') : i \in 1..Len(entries) \/ i = Len(entries')
      BY <1>00, <2>2
    <3>4. QED
      BY <2>1, <2>2, <3>1, <3>2, <3>3 DEF DistinctKeys
  <2>8. Phases'
    BY <1>00, <2>1, <2>2, <2>3, <1>0 DEF Phases, TypeOK
  <2>9. QED
    BY <1>0, <2>6, <2>7, <2>8
<1>9. CASE CallDispose
  BY <1>0, <1>00, <1>9 DEF CallDispose, Ownership, DistinctKeys, Phases
<1>10. CASE DeleteOne
  <2>1. /\ pc = "delete" /\ pc' = "free" /\ next <= Len(entries)
        /\ root' = root \ Found(heap[entries[next]].old)
        /\ UNCHANGED <<heap, entries, capacity, key, value, entry, next, result>>
    BY <1>10 DEF DeleteOne
  <2>2. /\ root = {entries[i] : i \in next..Len(entries)} /\ next \in 1..Len(entries)
        /\ next..Len(entries) \subseteq DOMAIN entries
    BY <1>0, <1>00, <2>1 DEF Ownership, TypeOK
  <2>3. Found(heap[entries[next]].old) = {entries[next]}
    BY <1>0, <1>00, <2>1, <2>2 DEF Found, DistinctKeys, TypeOK
  <2>4. root' = {entries[i] : i \in (next + 1)..Len(entries)}
    <3>1. \A i \in next..Len(entries) : i = next \/ i \in (next + 1)..Len(entries)
      BY <1>00, <2>2
    <3>2. \A i \in (next + 1)..Len(entries) : i \in next..Len(entries) /\ i # next
      BY <1>00, <2>2
    <3>3. \A i, j \in DOMAIN entries : entries[i] = entries[j] => i = j
      BY DEF Ownership
    <3>4. QED
      BY <2>1, <2>2, <2>3, <3>1, <3>2, <3>3
  <2>5. Ownership'
    BY <2>1, <2>4 DEF Ownership
  <2>6. DistinctKeys' /\ Phases'
    BY <2>1 DEF DistinctKeys, Phases
  <2>7. QED
    BY <1>0, <2>5, <2>6
<1>11. CASE FreeOne
  <2>1. /\ pc = "free" /\ pc' = "delete" /\ next' = next + 1
        /\ heap' = Drop(heap, entries[next])
        /\ UNCHANGED <<root, entries, capacity, key, value, entry, result>>
    BY <1>11 DEF FreeOne
  <2>2. next \in 1..Len(entries) /\ next <= Len(entries) /\ next \in Nat
    BY <1>0, <1>00, <2>1 DEF Phases, TypeOK
  <2>3. /\ DOMAIN heap' = DOMAIN heap \ {entries[next]}
        /\ \A x \in DOMAIN heap' : heap'[x] = heap[x]
    BY <2>1, DropFacts
  <2>4. DOMAIN heap' = {entries[i] : i \in (next + 1)..Len(entries)}
    <3>1. \A i \in next..Len(entries) : i = next \/ i \in (next + 1)..Len(entries)
      BY <1>00, <2>2
    <3>2. \A i \in (next + 1)..Len(entries) : i \in next..Len(entries) /\ i # next /\ i \in DOMAIN entries
      BY <1>00, <2>2
    <3>3. \A i, j \in DOMAIN entries : entries[i] = entries[j] => i = j
      BY DEF Ownership
    <3>4. DOMAIN heap = {entries[i] : i \in next..Len(entries)}
      BY <2>1 DEF Ownership
    <3>5. QED
      BY <1>00, <2>2, <2>3, <3>1, <3>2, <3>3, <3>4
  <2>5. Ownership'
    BY <2>1, <2>4 DEF Ownership
  <2>6. DistinctKeys'
    <3>1. \A i \in (next + 1)..Len(entries) : i \in next..Len(entries)
      BY <1>00, <2>2
    <3>2. \A i \in (next + 1)..Len(entries) : heap'[entries[i]] = heap[entries[i]]
      BY <2>3, <2>4
    <3>3. QED
      BY <2>1, <3>1, <3>2 DEF DistinctKeys
  <2>7. Phases'
    BY <1>00, <2>1, <2>2 DEF Phases
  <2>8. QED
    BY <1>0, <2>5, <2>6, <2>7
<1>12. CASE FinishDispose
  <2>1. /\ pc = "delete" /\ pc' = "idle" /\ next > Len(entries)
        /\ root' = {} /\ entries' = <<>> /\ capacity' = 0
        /\ UNCHANGED <<heap, key, value, entry, next, result>>
    BY <1>12 DEF FinishDispose
  <2>2. next..Len(entries) = {} /\ Len(entries') = 0 /\ 1..Len(entries') = {}
    BY <1>0, <1>00, <2>1 DEF TypeOK
  <2>3. DOMAIN heap = {} /\ DOMAIN entries' = {}
    BY <2>1, <2>2 DEF Ownership
  <2>4. QED
    BY <1>0, <2>1, <2>2, <2>3 DEF Ownership, DistinctKeys, Phases
<1>13. CASE UNCHANGED vars
  BY <1>0, <1>13 DEF vars, Ownership, DistinctKeys, Phases
<1>14. QED
  BY <1>0, <1>1, <1>2, <1>3, <1>4, <1>5, <1>6, <1>7, <1>8, <1>9, <1>10, <1>11, <1>12, <1>13 DEF Next

LEMMA Invariant == Spec => []Inv
BY InitInv, StepInv, PTL DEF Spec

(* At every moment the tree points to allocated entries with different keys. *)
THEOREM TreeStaysReadable == Spec => []TreeIsReadable
<1>1. ASSUME Inv PROVE TreeIsReadable
  <2>1. Len(entries) \in Nat /\ DOMAIN entries = 1..Len(entries) /\ next \in Nat
    BY <1>1, EntriesFacts DEF Inv, TypeOK
  <2>2. \A i \in FirstInTree..Len(entries) : i \in FirstOwned..Len(entries)
    BY <1>1, <2>1 DEF FirstInTree, FirstOwned, Disposing
  <2>3. root \subseteq DOMAIN heap
    BY <1>1, <2>2 DEF Inv, Ownership, Spare
  <2>4. \A a \in root :
          \/ \E i \in FirstInTree..Len(entries) : a = entries[i]
          \/ pc = "append" /\ a = entry
    BY <1>1 DEF Inv, Ownership
  <2>5. ASSUME NEW a \in root, NEW b \in root, heap[a].old = heap[b].old PROVE a = b
    <3>1. CASE pc = "append"
      <4>1. heap[entry].old = key
        BY <1>1, <3>1 DEF Inv, Phases, Entry
      <4>2. FirstInTree = 1 /\ FirstOwned = 1
        BY <3>1 DEF FirstInTree, FirstOwned, Disposing
      <4>3. QED
        BY <1>1, <2>1, <2>4, <2>5, <3>1, <4>1, <4>2 DEF Inv, DistinctKeys
    <3>2. CASE pc # "append"
      BY <1>1, <2>2, <2>4, <2>5, <3>2 DEF Inv, DistinctKeys
    <3>3. QED
      BY <3>1, <3>2
  <2>6. QED
    BY <2>3, <2>5 DEF TreeIsReadable
<1>2. QED
  BY <1>1, Invariant, PTL

(* Between calls the array owns every entry once and the tree has the same: *)
(* no leak and no double free, after whatever failures.                    *)
THEOREM NothingLeaks == Spec => []EntriesAreOwned
<1>1. ASSUME Inv, pc = "idle"
      PROVE  /\ DOMAIN heap = Range(entries) /\ root = Range(entries)
             /\ \A i, j \in DOMAIN entries : entries[i] = entries[j] => i = j
  <2>1. Len(entries) \in Nat /\ DOMAIN entries = 1..Len(entries)
    BY <1>1, EntriesFacts DEF Inv
  <2>2. Range(entries) = {entries[i] : i \in 1..Len(entries)}
    BY <2>1 DEF Range
  <2>3. QED
    BY <1>1, <2>1, <2>2 DEF Inv, Ownership, FirstOwned, FirstInTree, Spare, Disposing
<1>2. Inv => EntriesAreOwned
  BY <1>1 DEF EntriesAreOwned
<1>3. QED
  BY <1>2, Invariant, PTL

(* The array is never written past its end. *)
THEOREM ArrayIsLargeEnough == Spec => []ArrayHasRoom
<1>1. Inv => ArrayHasRoom
  BY DEF Inv, Phases, ArrayHasRoom
<1>2. QED
  BY <1>1, Invariant, PTL

-----------------------------------------------------------------------------
(* Refinement. *)

(* What Contents is, without CHOOSE: the pairs of the entries, by key. *)
ContentsExact ==
  ~Disposing =>
    /\ DOMAIN Contents = {heap[entries[i]].old : i \in 1..Len(entries)}
    /\ \A i \in 1..Len(entries) : Contents[heap[entries[i]].old] = heap[entries[i]].new

LEMMA ContentsFacts == Inv => ContentsExact
<1> SUFFICES ASSUME Inv, ~Disposing PROVE ContentsExact
  BY DEF ContentsExact
<1>1. Pairs = {heap[entries[i]] : i \in 1..Len(entries)}
  BY EntriesFacts DEF Inv, Pairs
<1>2. \A i, j \in 1..Len(entries) : heap[entries[i]].old = heap[entries[j]].old => i = j
  BY DEF Inv, DistinctKeys, FirstOwned
<1>3. DOMAIN Contents = {heap[entries[i]].old : i \in 1..Len(entries)}
  BY <1>1 DEF Contents
<1>4. ASSUME NEW i \in 1..Len(entries)
      PROVE  Contents[heap[entries[i]].old] = heap[entries[i]].new
  <2> DEFINE k == heap[entries[i]].old
             c == CHOOSE p \in Pairs : p.old = k
  <2>1. c \in Pairs /\ c.old = k
    BY <1>1
  <2>2. c = heap[entries[i]]
    BY <1>1, <1>2, <2>1
  <2>3. k \in {p.old : p \in Pairs}
    BY <1>1
  <2>4. Contents[k] = c.new
    BY <2>3 DEF Contents
  <2>5. QED
    BY <2>2, <2>4
<1>5. QED
  BY <1>3, <1>4 DEF ContentsExact

(* Steps that change neither an entry of the array nor the array. *)
LEMMA SameMap ==
  ASSUME Inv, ~Disposing, ~Disposing', entries' = entries,
         \A i \in 1..Len(entries) : heap'[entries[i]] = heap[entries[i]]
  PROVE  Contents' = Contents /\ KeysInOrder' = KeysInOrder
<1>1. DOMAIN entries = 1..Len(entries)
  BY EntriesFacts DEF Inv
<1>2. Pairs' = Pairs
  BY <1>1 DEF Pairs
<1>3. KeysInOrder' = KeysInOrder
  BY <1>1 DEF KeysInOrder
<1>4. QED
  BY <1>2, <1>3 DEF Contents

LEMMA InitMaps == Init => Abstract!Init
<1> SUFFICES ASSUME Init PROVE Abstract!Init
  OBVIOUS
<1>1. Pairs = {} /\ KeysInOrder = <<>>
  BY DEF Init, Pairs, KeysInOrder, Disposing
<1>2. Contents = Abstract!EmptyMap
  BY <1>1 DEF Contents, Abstract!EmptyMap
<1>3. QED
  BY <1>1, <1>2 DEF Init, Abstract!Init

(* A put that succeeds sets one key of Contents. *)
LEMMA ContentsAfterPut ==
  ASSUME Inv, Inv', ~Disposing, ~Disposing',
         DOMAIN Contents' = DOMAIN Contents \cup {key},
         Contents'[key] = value,
         \A k \in DOMAIN Contents \ {key} : Contents'[k] = Contents[k]
  PROVE  Contents' = Abstract!Put(Contents, key, value)
<1>1. Contents' = [k \in DOMAIN Contents' |-> Contents'[k]]
  BY DEF Contents
<1>2. \A k \in DOMAIN Contents' : Contents'[k] = IF k = key THEN value ELSE Contents[k]
  OBVIOUS
<1>3. Contents' = [k \in DOMAIN Contents \cup {key} |-> IF k = key THEN value ELSE Contents[k]]
  BY <1>1, <1>2
<1>4. QED
  BY <1>3 DEF Abstract!Put

LEMMA StepMaps == Inv /\ Inv' /\ [Next]_vars => [Abstract!Next]_(Abstract!vars)
<1> SUFFICES ASSUME Inv, Inv', [Next]_vars PROVE [Abstract!Next]_(Abstract!vars)
  OBVIOUS
<1>0. /\ TypeOK /\ ContentsExact
      /\ Len(entries) \in Nat /\ DOMAIN entries = 1..Len(entries)
      /\ \A i \in DOMAIN entries : entries[i] \in Addresses
  BY ContentsFacts, EntriesFacts DEF Inv
<1>00. ContentsExact'
  BY ContentsFacts, PTL
<1> USE DEF Disposing
<1>1. ASSUME NEW k \in Keys, NEW v \in Values, CallPut(k, v) PROVE Abstract!Next
  <2>1. /\ pc = "idle" /\ pc' = "reserve" /\ key' = k /\ value' = v /\ result' = "none"
        /\ heap' = heap /\ entries' = entries
    BY <1>1 DEF CallPut
  <2>2. Contents' = Contents /\ KeysInOrder' = KeysInOrder
    BY <2>1, SameMap
  <2>3. result # "none"
    BY <2>1 DEF Inv, Phases
  <2>4. Abstract!CallPut(k, v)
    BY <2>1, <2>2, <2>3 DEF Abstract!CallPut
  <2>5. QED
    BY <2>4 DEF Abstract!Next
<1>2. CASE Reserve
  <2>1. /\ pc = "reserve" /\ pc' = "malloc" /\ UNCHANGED <<heap, entries, key, value, result>>
    BY <1>2 DEF Reserve
  <2>2. QED
    BY <2>1, SameMap DEF Abstract!vars
<1>3. CASE ReserveFails \/ MallocFails
  <2>1. /\ pc \in {"reserve", "malloc"} /\ pc' = "idle" /\ result' = "failed"
        /\ UNCHANGED <<heap, entries, key, value>>
    BY <1>3 DEF ReserveFails, MallocFails, Return
  <2>2. Contents' = Contents /\ KeysInOrder' = KeysInOrder /\ result = "none"
    BY <2>1, SameMap DEF Inv, Phases
  <2>3. Abstract!PutFails
    BY <2>1, <2>2 DEF Abstract!PutFails
  <2>4. QED
    BY <2>3 DEF Abstract!Next
<1>4. ASSUME NEW a \in Addresses, Malloc(a) PROVE UNCHANGED Abstract!vars
  <2>1. /\ pc = "malloc" /\ pc' = "search" /\ a \notin DOMAIN heap
        /\ UNCHANGED <<entries, key, value, result>>
        /\ \A x \in DOMAIN heap : heap'[x] = heap[x]
    BY <1>4 DEF Malloc, Put
  <2>2. \A i \in 1..Len(entries) : heap'[entries[i]] = heap[entries[i]]
    BY <2>1 DEF Inv, Ownership, FirstOwned
  <2>3. QED
    BY <2>1, <2>2, SameMap DEF Abstract!vars
<1>5. ASSUME NEW a \in Addresses, Overwrite(a) PROVE Abstract!Next
  <2>1. /\ pc = "search" /\ pc' = "idle" /\ result' = "ok" /\ a \in root /\ heap[a].old = key
        /\ UNCHANGED <<entries, key, value>> /\ result = "none"
    BY <1>5 DEF Overwrite, Return, Found, Inv, Phases
  <2>2. PICK n \in 1..Len(entries) : a = entries[n]
    BY <2>1 DEF Inv, Ownership, FirstInTree
  <2>3. \A i \in 1..Len(entries) : entries[i] \in DOMAIN heap /\ entries[i] # entry
    BY <1>0, <2>1 DEF Inv, Ownership, FirstOwned, Spare
  <2>4. \A i \in 1..Len(entries) :
          /\ heap'[entries[i]].old = heap[entries[i]].old
          /\ heap'[entries[i]].new = IF entries[i] = a THEN value ELSE heap[entries[i]].new
    BY <1>0, <1>5, <2>3 DEF Overwrite, Drop, Restrict, TypeOK
  <2>5. \A i, j \in 1..Len(entries) : heap[entries[i]].old = heap[entries[j]].old => i = j
    BY <2>1 DEF Inv, DistinctKeys, FirstOwned
  <2>6. DOMAIN Contents' = DOMAIN Contents /\ key \in DOMAIN Contents
    <3>1. DOMAIN Contents = {heap[entries[i]].old : i \in 1..Len(entries)}
      BY <1>0, <2>1 DEF ContentsExact
    <3>2. DOMAIN Contents' = {heap'[entries[i]].old : i \in 1..Len(entries)}
      BY <1>00, <2>1 DEF ContentsExact
    <3>3. QED
      BY <2>1, <2>2, <2>4, <3>1, <3>2
  <2>7. Contents'[key] = value
    BY <1>00, <2>1, <2>2, <2>4 DEF ContentsExact
  <2>8. \A k \in DOMAIN Contents \ {key} : Contents'[k] = Contents[k]
    <3> SUFFICES ASSUME NEW i \in 1..Len(entries), heap[entries[i]].old # key
                 PROVE  Contents'[heap[entries[i]].old] = Contents[heap[entries[i]].old]
      BY <1>0, <2>1 DEF ContentsExact
    <3>1. heap'[entries[i]].new = heap[entries[i]].new
      BY <2>1, <2>4
    <3>2. QED
      BY <1>0, <1>00, <2>1, <2>4, <3>1 DEF ContentsExact
  <2>9. Contents' = Abstract!Put(Contents, key, value)
    BY <2>1, <2>6, <2>7, <2>8, ContentsAfterPut
  <2>10. KeysInOrder' = KeysInOrder
    BY <1>0, <2>1, <2>4 DEF KeysInOrder
  <2>11. Abstract!PutSucceeds
    BY <2>1, <2>6, <2>9, <2>10 DEF Abstract!PutSucceeds
  <2>12. QED
    BY <2>11 DEF Abstract!Next
<1>6. CASE Insert
  <2>1. pc = "search" /\ pc' = "append" /\ UNCHANGED <<heap, entries, key, value, result>>
    BY <1>6 DEF Insert
  <2>2. QED
    BY <2>1, SameMap DEF Abstract!vars
<1>7. CASE InsertFails
  <2>1. /\ pc = "search" /\ pc' = "idle" /\ result' = "failed" /\ result = "none"
        /\ heap' = Drop(heap, entry) /\ UNCHANGED <<entries, key, value>>
    BY <1>7 DEF InsertFails, Return, Inv, Phases
  <2>2. \A i \in 1..Len(entries) : entries[i] \in DOMAIN heap /\ entries[i] # entry
    BY <1>0, <2>1 DEF Inv, Ownership, FirstOwned, Spare
  <2>3. \A i \in 1..Len(entries) : heap'[entries[i]] = heap[entries[i]]
    BY <2>1, <2>2 DEF Drop, Restrict
  <2>4. Contents' = Contents /\ KeysInOrder' = KeysInOrder
    BY <2>1, <2>3, SameMap
  <2>5. Abstract!PutFails
    BY <2>1, <2>4 DEF Abstract!PutFails
  <2>6. QED
    BY <2>5 DEF Abstract!Next
<1>8. CASE AppendEntry
  <2>1. /\ pc = "append" /\ pc' = "idle" /\ result' = "ok" /\ result = "none"
        /\ entries' = Append(entries, entry) /\ UNCHANGED <<heap, key, value>>
    BY <1>8 DEF AppendEntry, Return, Inv, Phases
  <2>2. /\ Len(entries') = Len(entries) + 1 /\ DOMAIN entries' = 1..Len(entries')
        /\ entries'[Len(entries')] = entry
        /\ \A i \in 1..Len(entries) : entries'[i] = entries[i]
    BY <1>0, <2>1, AppendProperties DEF TypeOK
  <2>3. /\ heap[entry].old = key /\ heap[entry].new = value
        /\ \A i \in 1..Len(entries) : heap[entries[i]].old # key
    BY <1>0, <2>1 DEF Inv, Phases, DistinctKeys, Entry
  <2>4. /\ \A i \in 1..Len(entries') : i \in 1..Len(entries) \/ i = Len(entries')
        /\ \A i \in 1..Len(entries) : i \in 1..Len(entries')
        /\ Len(entries') \in 1..Len(entries')
    BY <1>0, <2>2
  <2>5. key \notin DOMAIN Contents
    BY <1>0, <2>1, <2>3 DEF ContentsExact
  <2>6. DOMAIN Contents' = DOMAIN Contents \cup {key}
    <3>1. DOMAIN Contents' = {heap[entries'[i]].old : i \in 1..Len(entries')}
      BY <1>00, <2>1 DEF ContentsExact
    <3>2. DOMAIN Contents = {heap[entries[i]].old : i \in 1..Len(entries)}
      BY <1>0, <2>1 DEF ContentsExact
    <3>3. QED
      BY <2>2, <2>3, <2>4, <3>1, <3>2
  <2>7. Contents'[key] = value
    BY <1>00, <2>1, <2>2, <2>3, <2>4 DEF ContentsExact
  <2>8. \A k \in DOMAIN Contents \ {key} : Contents'[k] = Contents[k]
    <3> SUFFICES ASSUME NEW i \in 1..Len(entries)
                 PROVE  Contents'[heap[entries[i]].old] = Contents[heap[entries[i]].old]
      BY <1>0, <2>1 DEF ContentsExact
    <3>1. i \in 1..Len(entries') /\ entries'[i] = entries[i]
      BY <2>2, <2>4
    <3>2. Contents[heap[entries[i]].old] = heap[entries[i]].new
      BY <1>0, <2>1 DEF ContentsExact
    <3>3. Contents'[heap'[entries'[i]].old] = heap'[entries'[i]].new
      BY <1>00, <2>1, <3>1 DEF ContentsExact
    <3>4. QED
      BY <2>1, <3>1, <3>2, <3>3
  <2>9. Contents' = Abstract!Put(Contents, key, value)
    BY <2>1, <2>6, <2>7, <2>8, ContentsAfterPut
  <2>10. KeysInOrder' = Append(KeysInOrder, key)
    <3>1. /\ KeysInOrder = [i \in 1..Len(entries) |-> heap[entries[i]].old]
          /\ KeysInOrder' = [i \in 1..Len(entries') |-> heap[entries'[i]].old]
      BY <1>0, <2>1, <2>2 DEF KeysInOrder
    <3>2. Len(KeysInOrder) = Len(entries)
      BY <1>0, <3>1
    <3>3. Append(KeysInOrder, key) =
            [i \in 1..(Len(entries) + 1) |-> IF i = Len(entries) + 1 THEN key ELSE KeysInOrder[i]]
      BY <3>1, <3>2
    <3>4. \A i \in 1..Len(entries') :
            heap[entries'[i]].old = IF i = Len(entries) + 1 THEN key ELSE KeysInOrder[i]
      BY <1>0, <2>2, <2>3, <2>4, <3>1
    <3>5. QED
      BY <2>2, <3>1, <3>3, <3>4
  <2>11. Abstract!PutSucceeds
    BY <2>1, <2>5, <2>9, <2>10 DEF Abstract!PutSucceeds
  <2>12. QED
    BY <2>11 DEF Abstract!Next
<1>9. CASE CallDispose
  <2>1. /\ pc = "idle" /\ pc' = "delete" /\ UNCHANGED <<key, value, result>>
    BY <1>9 DEF CallDispose
  <2>2. Contents' = Abstract!EmptyMap /\ KeysInOrder' = <<>>
    BY <2>1 DEF Contents, Pairs, KeysInOrder, Abstract!EmptyMap
  <2>3. result # "none"
    BY <2>1 DEF Inv, Phases
  <2>4. Abstract!Dispose
    BY <2>1, <2>2, <2>3 DEF Abstract!Dispose
  <2>5. QED
    BY <2>4 DEF Abstract!Next
<1>10. CASE DeleteOne \/ FreeOne
  <2>1. Disposing /\ Disposing' /\ UNCHANGED <<key, value, result>>
    BY <1>10 DEF DeleteOne, FreeOne
  <2>2. Contents' = Contents /\ KeysInOrder' = KeysInOrder
    BY <2>1 DEF Contents, Pairs, KeysInOrder
  <2>3. QED
    BY <2>1, <2>2 DEF Abstract!vars
<1>11. CASE FinishDispose
  <2>1. /\ pc = "delete" /\ pc' = "idle" /\ entries' = <<>> /\ UNCHANGED <<key, value, result>>
    BY <1>11 DEF FinishDispose
  <2>2. Contents' = Contents /\ KeysInOrder' = KeysInOrder
    BY <2>1 DEF Contents, Pairs, KeysInOrder
  <2>3. QED
    BY <2>1, <2>2 DEF Abstract!vars
<1>12. CASE UNCHANGED vars
  BY <1>12 DEF vars, Abstract!vars, Contents, Pairs, KeysInOrder
<1>13. QED
  BY <1>1, <1>2, <1>3, <1>4, <1>5, <1>6, <1>7, <1>8, <1>9, <1>10, <1>11, <1>12 DEF Next

(* Two structures and their failing allocations implement one map. *)
THEOREM Refinement == Spec => ImplementsIdMap
BY InitMaps, StepMaps, Invariant, PTL DEF Spec, ImplementsIdMap, Abstract!Spec
=============================================================================
