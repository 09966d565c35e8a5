------------------------------- MODULE OidMap -------------------------------
(***************************************************************************)
(* src/src/oid_map.c: two structures over the same entries.  A search tree *)
(* (tsearch, tfind, tdelete of the C library) finds an entry by its old    *)
(* id; a growing array owns the entries and keeps their order.  Any        *)
(* allocation may fail, in the middle of a put too.                        *)
(*                                                                         *)
(* The tree is the set of the entries it points to: its order and balance  *)
(* are the library's.  It compares entries by reading them, so it must     *)
(* never point to freed memory.                                            *)
(***************************************************************************)
EXTENDS GitObjects

CONSTANTS
  Keys, Values,   \* ids
  Addresses,      \* where malloc may put an entry
  FirstCapacity   \* the first size of the array, 16 in the code

ASSUME FirstCapacityAssumption == FirstCapacity \in Nat \ {0}

VARIABLES
  heap,      \* the allocated entries: address -> [old, new]
  root,      \* the entries in the search tree
  entries,   \* map->entries, as long as map->count
  capacity,  \* map->capacity
  pc,        \* "idle", in put "reserve", "malloc", "search", "append",
             \* in dispose "delete", "free"
  key,       \* the arguments of put
  value,
  entry,     \* the entry put has allocated
  next,      \* the index of the loop of dispose
  result     \* of the last put: "none" while it runs, "ok", "failed"

vars == <<heap, root, entries, capacity, pc, key, value, entry, next, result>>

Entry(k, v) == [old |-> k, new |-> v]
Drop(f, a) == Restrict(f, DOMAIN f \ {a})

Init ==
  /\ heap = EmptyMap /\ root = {} /\ entries = <<>> /\ capacity = 0
  /\ pc = "idle"
  /\ key \in Keys /\ value \in Values /\ entry \in Addresses
  /\ next = 1 /\ result = "ok"

-----------------------------------------------------------------------------
(* bbfg_oid_map_put *)

CallPut(k, v) ==
  /\ pc = "idle"
  /\ key' = k /\ value' = v /\ result' = "none"
  /\ pc' = "reserve"
  /\ UNCHANGED <<heap, root, entries, capacity, entry, next>>

Return(how) == pc' = "idle" /\ result' = how

(* Defect: the array grows when it is overfull, not when it is full. *)
ReserveLate ==
  /\ pc = "reserve"
  /\ capacity' = CASE Len(entries) <= capacity -> capacity
                   [] capacity = 0 -> FirstCapacity
                   [] OTHER -> 2 * capacity
  /\ pc' = "malloc"
  /\ UNCHANGED <<heap, root, entries, key, value, entry, next, result>>

(* reserve_entry: room for one more, whether or not the key is new. *)
Reserve ==
  /\ pc = "reserve"
  /\ capacity' = CASE Len(entries) < capacity -> capacity
                   [] capacity = 0 -> FirstCapacity
                   [] OTHER -> 2 * capacity
  /\ pc' = "malloc"
  /\ UNCHANGED <<heap, root, entries, key, value, entry, next, result>>

ReserveFails ==
  /\ pc = "reserve" /\ Len(entries) >= capacity
  /\ Return("failed")
  /\ UNCHANGED <<heap, root, entries, capacity, key, value, entry, next>>

Malloc(a) ==
  /\ pc = "malloc" /\ a \notin DOMAIN heap
  /\ entry' = a /\ heap' = Put(heap, a, Entry(key, value))
  /\ pc' = "search"
  /\ UNCHANGED <<root, entries, capacity, key, value, next, result>>

MallocFails ==
  /\ pc = "malloc"
  /\ Return("failed")
  /\ UNCHANGED <<heap, root, entries, capacity, key, value, entry, next>>

(* The entries of the tree that compare equal to an old id. *)
Found(k) == {a \in root : heap[a].old = k}

(* Defects: the spare entry is not freed; the entry that is there wins. *)
OverwriteKeepsSpare(a) ==
  /\ pc = "search" /\ a \in Found(key)
  /\ heap' = [heap EXCEPT ![a].new = value]
  /\ Return("ok")
  /\ UNCHANGED <<root, entries, capacity, key, value, entry, next>>
OverwriteNothing(a) ==
  /\ pc = "search" /\ a \in Found(key)
  /\ heap' = Drop(heap, entry)
  /\ Return("ok")
  /\ UNCHANGED <<root, entries, capacity, key, value, entry, next>>

(* tsearch found an entry of this key: its new id is replaced. *)
Overwrite(a) ==
  /\ pc = "search" /\ a \in Found(key)
  /\ heap' = Drop([heap EXCEPT ![a].new = value], entry)
  /\ Return("ok")
  /\ UNCHANGED <<root, entries, capacity, key, value, entry, next>>

(* tsearch linked the new entry into the tree. *)
Insert ==
  /\ pc = "search" /\ Found(key) = {}
  /\ root' = root \cup {entry}
  /\ pc' = "append"
  /\ UNCHANGED <<heap, entries, capacity, key, value, entry, next, result>>

InsertFails ==
  /\ pc = "search" /\ Found(key) = {}
  /\ heap' = Drop(heap, entry)
  /\ Return("failed")
  /\ UNCHANGED <<root, entries, capacity, key, value, entry, next>>

AppendEntry ==
  /\ pc = "append"
  /\ entries' = Append(entries, entry)
  /\ Return("ok")
  /\ UNCHANGED <<heap, root, capacity, key, value, entry, next>>

-----------------------------------------------------------------------------
(* bbfg_oid_map_dispose *)

(* Defect: the loop starts one entry early. *)
CallDisposeEarly ==
  /\ pc = "idle"
  /\ pc' = "delete" /\ next' = 0
  /\ UNCHANGED <<heap, root, entries, capacity, key, value, entry, result>>

CallDispose ==
  /\ pc = "idle"
  /\ pc' = "delete" /\ next' = 1
  /\ UNCHANGED <<heap, root, entries, capacity, key, value, entry, result>>

(* Defect: the entry is freed before it is taken out of the tree. *)
DeleteOneFreed ==
  /\ pc = "delete" /\ next <= Len(entries)
  /\ heap' = Drop(heap, entries[next])
  /\ root' = root /\ pc' = "free"
  /\ UNCHANGED <<entries, capacity, key, value, entry, next, result>>

(* tdelete looks for the key of the entry. *)
DeleteOne ==
  /\ pc = "delete" /\ next <= Len(entries)
  /\ root' = root \ Found(heap[entries[next]].old)
  /\ pc' = "free"
  /\ UNCHANGED <<heap, entries, capacity, key, value, entry, next, result>>

FreeOne ==
  /\ pc = "free"
  /\ heap' = Drop(heap, entries[next])
  /\ next' = next + 1 /\ pc' = "delete"
  /\ UNCHANGED <<root, entries, capacity, key, value, entry, result>>

FinishDispose ==
  /\ pc = "delete" /\ next > Len(entries)
  /\ root' = {} /\ entries' = <<>> /\ capacity' = 0
  /\ pc' = "idle"
  /\ UNCHANGED <<heap, key, value, entry, next, result>>

-----------------------------------------------------------------------------
Next ==
  \/ \E k \in Keys, v \in Values : CallPut(k, v)
  \/ Reserve \/ ReserveFails
  \/ (\E a \in Addresses : Malloc(a)) \/ MallocFails
  \/ (\E a \in Addresses : Overwrite(a))
  \/ Insert \/ InsertFails \/ AppendEntry
  \/ CallDispose \/ DeleteOne \/ FreeOne \/ FinishDispose

Spec == Init /\ [][Next]_vars

-----------------------------------------------------------------------------
(* Properties. *)

Disposing == pc \in {"delete", "free"}

(* The state is well typed. *)
TypeOK ==
  /\ heap \in [DOMAIN heap -> [old : Keys, new : Values]] /\ DOMAIN heap \subseteq Addresses
  /\ root \subseteq Addresses /\ entries \in Seq(Addresses)
  /\ capacity \in Nat /\ next \in Nat \ {0}
  /\ pc \in {"idle", "reserve", "malloc", "search", "append", "delete", "free"}
  /\ key \in Keys /\ value \in Values /\ entry \in Addresses
  /\ result \in {"none", "ok", "failed"}

(* The tree points to allocated entries only, also between the steps of a  *)
(* dispose, whose tdelete compares the entries that are left; and no two   *)
(* of them have the same key, so tfind has one answer.                     *)
TreeIsReadable ==
  /\ root \subseteq DOMAIN heap
  /\ \A a, b \in root : heap[a].old = heap[b].old => a = b

(* Between calls each allocated entry is owned by the array, once, and is  *)
(* the tree's: nothing leaks and nothing is freed twice, although a put    *)
(* may have failed after any of its allocations or replaced an image.      *)
EntriesAreOwned ==
  pc = "idle" =>
    /\ DOMAIN heap = Range(entries) /\ root = Range(entries)
    /\ \A i, j \in DOMAIN entries : entries[i] = entries[j] => i = j

(* map->entries[map->count] is written within the array: the room that     *)
(* reserve_entry made is still there when tsearch has done its part.       *)
ArrayHasRoom == Len(entries) <= capacity /\ (pc = "append" => Len(entries) < capacity)

(* The map a caller sees through the array; EntriesAreOwned says that it   *)
(* sees the same through the tree.                                         *)
Pairs == IF Disposing THEN {} ELSE {heap[entries[i]] : i \in DOMAIN entries}
Contents ==
  [k \in {p.old : p \in Pairs} |-> (CHOOSE p \in Pairs : p.old = k).new]
KeysInOrder ==
  IF Disposing THEN <<>> ELSE [i \in DOMAIN entries |-> heap[entries[i]].old]
Abstract == INSTANCE IdMap WITH map <- Contents, order <- KeysInOrder

(* The two structures and their failures come to the map of IdMap: a put   *)
(* that fails changes nothing, one that succeeds sets its key and no other,*)
(* and the order is that of the first puts.                                *)
ImplementsIdMap == Abstract!Spec
=============================================================================
