------------------------ MODULE RefTransactionProofs ------------------------
(***************************************************************************)
(* Proofs about RefTransaction, for every set of refs and objects and      *)
(* every list of updates.                                                  *)
(***************************************************************************)
EXTENDS RefTransaction, SequenceTheorems, TLAPS

LEMMA UpdateFacts ==
  ASSUME updates \in Updates
  PROVE  /\ Len(updates) \in Nat /\ DOMAIN updates = 1..Len(updates)
         /\ \A i \in DOMAIN updates :
              /\ updates[i].name \in Refs /\ updates[i].name \in Names
              /\ updates[i].target \in Ids
         /\ Names = {updates[i].name : i \in DOMAIN updates}
<1>1. updates \in Seq([name : Refs, target : Ids])
  BY UpdatesAssumption DEF IsUpdateList
<1>2. Len(updates) \in Nat /\ DOMAIN updates = 1..Len(updates)
  BY <1>1
<1>3. \A i \in DOMAIN updates : updates[i] \in [name : Refs, target : Ids]
  BY <1>1, <1>2, ElementOfSeq
<1>4. QED
  BY <1>2, <1>3 DEF Names

LEMMA LastOrNot == \A m \in Nat : \A n \in 1..m : n < m \/ n = m
OBVIOUS

(* A round of a loop ends with the next round or the next phase. *)
LEMMA AdvanceFacts ==
  ASSUME TypeOK, Running, NEW phase, Advance(phase)
  PROVE  \/ next < Len(updates) /\ next' = next + 1 /\ pc' = pc /\ next' \in DOMAIN updates
         \/ next = Len(updates) /\ next' = 1 /\ pc' = phase /\ next' \in DOMAIN updates
<1>1. next \in 1..Len(updates) /\ Len(updates) \in Nat /\ DOMAIN updates = 1..Len(updates)
  BY UpdateFacts DEF TypeOK
<1>2. CASE next < Len(updates)
  <2>1. next' = next + 1 /\ pc' = pc
    BY <1>2 DEF Advance
  <2>2. next' \in 1..Len(updates)
    BY <1>1, <1>2, <2>1
  <2>3. QED
    BY <1>1, <1>2, <2>1, <2>2
<1>3. CASE next = Len(updates)
  <2>1. next' = 1 /\ pc' = phase
    BY <1>1, <1>3 DEF Advance
  <2>2. QED
    BY <1>1, <1>3, <2>1
<1>4. QED
  BY <1>1, <1>2, <1>3, LastOrNot

-----------------------------------------------------------------------------
(* The inductive invariant: what each loop has established for the updates *)
(* it has passed still holds, for those that are not yet written.          *)

Passed(loop, after) ==
  {i \in DOMAIN updates : (pc = loop /\ i < next) \/ pc \in after}

Validated ==
  \A i \in Passed("validate", {"begin", "lock", "recheck", "queue", "commit"}) :
    ValidName(updates[i].name) /\ ValidTarget(updates[i].name, updates[i].target)
Locked ==
  \A i \in Passed("lock", {"recheck", "queue", "commit"}) :
    updates[i].name \in written \/ updates[i].name \in taken
Rechecked ==
  \A i \in Passed("recheck", {"queue", "commit"}) :
    updates[i].name \in written \/ Replaceable(refs[updates[i].name])
Queued == \A i \in Passed("queue", {"commit"}) : updates[i].name \in queued
WritesLast == pc \in {"validate", "begin", "lock", "recheck", "queue"} => written = {}

(* The transaction holds exactly the locks of the call, none of a ref that *)
(* it has written, and exists from the lock loop until it is freed.        *)
Taken ==
  /\ \A r \in Refs : lock[r] = "bbfg" <=> r \in taken
  /\ taken \cap written = {}
  /\ pc \in {"validate", "begin", "ok", "failed", "crashed"} => taken = {}

Outcome ==
  /\ pc \in {"validate", "begin", "lock", "recheck", "queue", "commit", "ok"} => reason = "none"
  /\ pc = "failed" => reason # "none"
  /\ pc \in {"free", "ok"} /\ reason = "none" => written = Names
  /\ RefusalChangesNothing

Inv ==
  /\ TypeOK /\ Validated /\ Locked /\ Rechecked /\ Queued
  /\ WritesLast /\ Taken /\ Outcome

LEMMA InitInv == Init => Inv
<1> SUFFICES ASSUME Init PROVE Inv
  OBVIOUS
<1>1. updates \in Updates
  BY DEF Init
<1>2. pc = "ok" => Names = {}
  BY DEF Init, Names
<1>3. pc = "validate" => 1 \in DOMAIN updates
  BY <1>1, UpdateFacts DEF Init
<1>4. TypeOK
  BY <1>1, <1>3 DEF Init, TypeOK, Running
<1>5. pc \in {"validate", "ok"} /\ (pc = "validate" => next = 1)
  BY DEF Init
<1>6. Validated /\ Locked /\ Rechecked /\ Queued
  BY <1>1, <1>5, UpdateFacts DEF Validated, Locked, Rechecked, Queued, Passed
<1>7. WritesLast /\ Taken
  BY DEF Init, WritesLast, Taken
<1>8. Outcome
  BY <1>2, <1>5 DEF Init, Outcome, RefusalChangesNothing, Refusals
<1>9. QED
  BY <1>4, <1>6, <1>7, <1>8 DEF Inv

(* An exit: before the transaction exists it returns, later it frees.      *)
LEMMA LeaveInv ==
  ASSUME Inv, Running, NEW phase \in {"free", "failed"},
         NEW why \in {"invalid", "locked", "changed", "io", "commit"}, Leave(phase, why),
         why # "commit" => written = {},
         phase = "failed" => taken = {}
  PROVE  Inv'
<1>0. /\ pc' = phase /\ reason' = why
      /\ UNCHANGED <<updates, refs, lock, next, taken, queued, written>>
  BY DEF Leave
<1>1. TypeOK'
  BY <1>0 DEF Inv, TypeOK, Running, Names
<1>2. Taken'
  BY <1>0 DEF Inv, Taken
<1>3. Validated' /\ Locked' /\ Rechecked' /\ Queued' /\ WritesLast'
  BY <1>0 DEF Validated, Locked, Rechecked, Queued, Passed, WritesLast
<1>4. Outcome'
  BY <1>0 DEF Outcome, RefusalChangesNothing, Refusals
<1>5. QED
  BY <1>1, <1>2, <1>3, <1>4 DEF Inv

LEMMA StepInv == Inv /\ [Next]_vars => Inv'
<1> SUFFICES ASSUME Inv, [Next]_vars PROVE Inv'
  OBVIOUS
<1>0. TypeOK /\ updates \in Updates
  BY DEF Inv, TypeOK
<1>1. CASE ValidateOne
  <2> DEFINE r == updates[next].name
  <2>1. pc = "validate" /\ Running /\ next \in DOMAIN updates /\ written = {}
    BY <1>1 DEF ValidateOne, Running, Inv, TypeOK, WritesLast
  <2>2. CASE ValidName(r) /\ ValidTarget(r, updates[next].target) /\ Replaceable(refs[r])
    <3>1. Advance("begin") /\ UNCHANGED <<updates, refs, lock, taken, queued, written, reason>>
      BY <1>1, <2>2 DEF ValidateOne
    <3>2. /\ next' \in DOMAIN updates
          /\ \/ next' = next + 1 /\ pc' = "validate"
             \/ next = Len(updates) /\ next' = 1 /\ pc' = "begin"
      BY <1>0, <2>1, <3>1, AdvanceFacts
    <3>3. TypeOK'
      <4>1. next' \in Nat \ {0}
        BY <1>0, <3>2, UpdateFacts
      <4>2. pc' \in {"validate", "begin"} /\ next' \in DOMAIN updates'
        BY <3>1, <3>2
      <4>3. QED
        BY <1>0, <2>1, <3>1, <4>1, <4>2 DEF TypeOK, Running, Names
    <3>4. Validated'
      <4>1. \A i \in DOMAIN updates : i <= next =>
              ValidName(updates[i].name) /\ ValidTarget(updates[i].name, updates[i].target)
        BY <1>0, <2>1, <2>2, UpdateFacts DEF Inv, Validated, Passed
      <4>2. QED
        BY <1>0, <2>1, <3>1, <3>2, <4>1, UpdateFacts
           DEF Validated, Passed, ValidName, ValidTarget
    <3>5. Locked' /\ Rechecked' /\ Queued' /\ WritesLast'
      BY <1>0, <2>1, <3>1, <3>2, UpdateFacts DEF Locked, Rechecked, Queued, Passed, WritesLast
    <3>6. Taken' /\ Outcome'
      BY <2>1, <3>1, <3>2 DEF Inv, Taken, Outcome, Names, RefusalChangesNothing
    <3>7. QED
      BY <3>3, <3>4, <3>5, <3>6 DEF Inv
  <2>3. CASE ~(ValidName(r) /\ ValidTarget(r, updates[next].target) /\ Replaceable(refs[r]))
    <3>1. Leave("failed", "invalid") /\ taken = {}
      BY <1>1, <2>1, <2>3 DEF ValidateOne, Inv, Taken
    <3>2. QED
      BY <2>1, <3>1, LeaveInv
  <2>4. QED
    BY <2>2, <2>3
<1>2. CASE LockOne
  <2> DEFINE r == updates[next].name
  <2>1. pc = "lock" /\ Running /\ next \in DOMAIN updates /\ written = {}
    BY <1>2 DEF LockOne, Running, Inv, TypeOK, WritesLast
  <2>2. CASE lock[r] = "none"
    <3>1. /\ lock' = [lock EXCEPT ![r] = "bbfg"] /\ taken' = taken \cup {r}
          /\ Advance("recheck") /\ UNCHANGED <<updates, refs, queued, written, reason>>
      BY <1>2, <2>2 DEF LockOne
    <3>2. /\ next' \in DOMAIN updates
          /\ \/ next' = next + 1 /\ pc' = "lock"
             \/ next = Len(updates) /\ next' = 1 /\ pc' = "recheck"
      BY <1>0, <2>1, <3>1, AdvanceFacts
    <3>3. r \in Refs /\ r \in Names
      BY <1>0, <2>1, UpdateFacts
    <3>4. TypeOK'
      <4>1. next' \in Nat \ {0}
        BY <1>0, <3>2, UpdateFacts
      <4>2. pc' \in {"lock", "recheck"} /\ next' \in DOMAIN updates'
        BY <3>1, <3>2
      <4>3. lock' \in [Refs -> {"none", "bbfg", "other"}]
        BY <1>0, <3>1, <3>3 DEF TypeOK
      <4>4. QED
        BY <1>0, <2>1, <3>1, <3>3, <4>1, <4>2, <4>3 DEF TypeOK, Running, Names
    <3>5. Validated'
      BY <2>1, <3>1, <3>2 DEF Inv, Validated, Passed, ValidName, ValidTarget
    <3>6. Locked'
      <4>1. \A i \in DOMAIN updates : i <= next => updates[i].name \in taken'
        BY <1>0, <2>1, <3>1, <3>3, UpdateFacts DEF Inv, Locked, Passed
      <4>2. QED
        BY <1>0, <2>1, <3>1, <3>2, <4>1, UpdateFacts DEF Locked, Passed
    <3>7. Rechecked' /\ Queued' /\ WritesLast'
      BY <1>0, <2>1, <3>1, <3>2, UpdateFacts DEF Rechecked, Queued, Passed, WritesLast
    <3>8. Taken'
      BY <1>0, <2>1, <3>1, <3>2, <3>3 DEF Inv, Taken, TypeOK
    <3>9. Outcome'
      BY <2>1, <3>1, <3>2 DEF Inv, Outcome, Names, RefusalChangesNothing
    <3>10. QED
      BY <3>4, <3>5, <3>6, <3>7, <3>8, <3>9 DEF Inv
  <2>3. CASE lock[r] # "none"
    BY <1>2, <2>1, <2>3, LeaveInv DEF LockOne
  <2>4. QED
    BY <2>2, <2>3
<1>3. CASE RecheckOne
  <2> DEFINE r == updates[next].name
  <2>1. pc = "recheck" /\ Running /\ next \in DOMAIN updates /\ written = {}
    BY <1>3 DEF RecheckOne, Running, Inv, TypeOK, WritesLast
  <2>2. CASE Replaceable(refs[r])
    <3>1. Advance("queue") /\ UNCHANGED <<updates, refs, lock, taken, queued, written, reason>>
      BY <1>3, <2>2 DEF RecheckOne
    <3>2. /\ next' \in DOMAIN updates
          /\ \/ next' = next + 1 /\ pc' = "recheck"
             \/ next = Len(updates) /\ next' = 1 /\ pc' = "queue"
      BY <1>0, <2>1, <3>1, AdvanceFacts
    <3>3. TypeOK'
      <4>1. next' \in Nat \ {0}
        BY <1>0, <3>2, UpdateFacts
      <4>2. pc' \in {"recheck", "queue"} /\ next' \in DOMAIN updates'
        BY <3>1, <3>2
      <4>3. QED
        BY <1>0, <2>1, <3>1, <4>1, <4>2 DEF TypeOK, Running, Names
    <3>4. Validated' /\ Locked'
      BY <2>1, <3>1, <3>2 DEF Inv, Validated, Locked, Passed, ValidName, ValidTarget
    <3>5. Rechecked'
      <4>1. \A i \in DOMAIN updates : i <= next => Replaceable(refs[updates[i].name])
        BY <1>0, <2>1, <2>2, UpdateFacts DEF Inv, Rechecked, Passed
      <4>2. QED
        BY <1>0, <2>1, <3>1, <3>2, <4>1, UpdateFacts DEF Rechecked, Passed, Replaceable
    <3>6. Queued' /\ WritesLast' /\ Taken' /\ Outcome'
      BY <1>0, <2>1, <3>1, <3>2, UpdateFacts
         DEF Inv, Queued, Passed, WritesLast, Taken, Outcome, Names, RefusalChangesNothing
    <3>7. QED
      BY <3>3, <3>4, <3>5, <3>6 DEF Inv
  <2>3. CASE ~Replaceable(refs[r])
    BY <1>3, <2>1, <2>3, LeaveInv DEF RecheckOne
  <2>4. QED
    BY <2>2, <2>3
<1>4. CASE QueueOne
  <2> DEFINE r == updates[next].name
  <2>1. /\ pc = "queue" /\ Running /\ next \in DOMAIN updates /\ written = {}
        /\ queued' = queued \cup {r} /\ Advance("commit")
        /\ UNCHANGED <<updates, refs, lock, taken, written, reason>>
    BY <1>4 DEF QueueOne, Running, Inv, TypeOK, WritesLast
  <2>2. /\ next' \in DOMAIN updates
        /\ \/ next' = next + 1 /\ pc' = "queue"
           \/ next = Len(updates) /\ next' = 1 /\ pc' = "commit"
    BY <1>0, <2>1, AdvanceFacts
  <2>3. TypeOK'
    <3>1. next' \in Nat \ {0}
      BY <1>0, <2>2, UpdateFacts
    <3>2. pc' \in {"queue", "commit"} /\ next' \in DOMAIN updates'
      BY <2>1, <2>2
    <3>3. r \in Names
      BY <1>0, <2>1, UpdateFacts
    <3>4. QED
      BY <1>0, <2>1, <3>1, <3>2, <3>3 DEF TypeOK, Running, Names
  <2>4. Validated' /\ Locked' /\ Rechecked'
    BY <2>1, <2>2
       DEF Inv, Validated, Locked, Rechecked, Passed, ValidName, ValidTarget, Replaceable
  <2>5. Queued'
    <3>1. \A i \in DOMAIN updates : i <= next => updates[i].name \in queued'
      BY <1>0, <2>1, UpdateFacts DEF Inv, Queued, Passed
    <3>2. QED
      BY <1>0, <2>1, <2>2, <3>1, UpdateFacts DEF Queued, Passed
  <2>6. WritesLast' /\ Taken' /\ Outcome'
    BY <2>1, <2>2 DEF Inv, WritesLast, Taken, Outcome, Names, RefusalChangesNothing
  <2>7. QED
    BY <2>3, <2>4, <2>5, <2>6 DEF Inv
<1>5. ASSUME NEW i \in DOMAIN updates, CommitOne(i) PROVE Inv'
  <2> DEFINE r == updates[i].name
  <2>1. r \in Refs /\ r \in Names /\ updates[i].target \in Ids
    BY <1>0, UpdateFacts
  <2>2. pc = "commit" /\ r \in queued
    BY <1>5 DEF CommitOne, Inv, Queued, Passed
  <2>3. /\ refs' = [refs EXCEPT ![r] = updates[i].target]
        /\ lock' = [lock EXCEPT ![r] = "none"] /\ taken' = taken \ {r}
        /\ written' = written \cup {r}
        /\ UNCHANGED <<updates, pc, next, queued, reason>>
    BY <1>5, <2>2 DEF CommitOne
  <2>4. TypeOK'
    BY <2>1, <2>2, <2>3 DEF Inv, TypeOK, Names, Running, RefValues
  <2>5. Validated' /\ Queued' /\ WritesLast'
    BY <2>2, <2>3 DEF Inv, Validated, Queued, Passed, ValidName, ValidTarget, WritesLast
  <2>6. Locked'
    BY <2>2, <2>3 DEF Inv, Locked, Passed
  <2>7. Rechecked'
    BY <2>2, <2>3 DEF Inv, TypeOK, Rechecked, Passed, Replaceable
  <2>8. Taken'
    BY <2>2, <2>3 DEF Inv, TypeOK, Taken
  <2>9. Outcome'
    BY <2>2, <2>3 DEF Inv, Outcome, Names, RefusalChangesNothing, Refusals
  <2>10. QED
    BY <2>4, <2>5, <2>6, <2>7, <2>8, <2>9 DEF Inv
<1>6. CASE CommitDone
  <2>1. /\ pc = "commit" /\ pc' = "free" /\ taken = {}
        /\ UNCHANGED <<updates, refs, lock, next, taken, queued, written, reason>>
    BY <1>6 DEF CommitDone
  <2>2. written = Names
    <3>1. \A i \in DOMAIN updates : updates[i].name \in written
      BY <2>1 DEF Inv, Locked, Passed
    <3>2. QED
      BY <3>1 DEF Inv, TypeOK, Names
  <2>3. TypeOK'
    BY <2>1 DEF Inv, TypeOK, Names, Running
  <2>4. Validated' /\ Locked' /\ Rechecked' /\ Queued' /\ WritesLast' /\ Taken'
    BY <2>1 DEF Inv, Validated, Locked, Rechecked, Queued, Passed, WritesLast, Taken
  <2>5. Outcome'
    BY <2>1, <2>2 DEF Inv, Outcome, RefusalChangesNothing, Names
  <2>6. QED
    BY <2>3, <2>4, <2>5 DEF Inv
<1>7. CASE Begin
  <2>1. /\ pc = "begin" /\ pc' = "lock" /\ next' = 1
        /\ UNCHANGED <<updates, refs, lock, taken, queued, written, reason>>
    BY <1>7 DEF Begin
  <2>2. 1 \in DOMAIN updates
    BY <1>0, <2>1, UpdateFacts DEF TypeOK, Running
  <2>3. TypeOK' /\ Validated'
    BY <2>1, <2>2 DEF Inv, TypeOK, Names, Running, Validated, Passed, ValidName, ValidTarget
  <2>4. Locked'
    BY <1>0, <2>1, UpdateFacts DEF Locked, Passed
  <2>5. Rechecked' /\ Queued' /\ WritesLast' /\ Taken' /\ Outcome'
    BY <2>1 DEF Inv, Rechecked, Queued, Passed, WritesLast, Taken, Outcome, Names,
                RefusalChangesNothing
  <2>6. QED
    BY <2>3, <2>4, <2>5 DEF Inv
<1>8. CASE IOError
  <2>1. CASE ValidateFails \/ BeginFails
    BY <2>1, LeaveInv DEF ValidateFails, BeginFails, Inv, Taken, WritesLast, Running
  <2>2. CASE LockFails \/ RecheckFails \/ QueueFails
    BY <2>2, LeaveInv DEF LockFails, RecheckFails, QueueFails, Inv, WritesLast, Running
  <2>3. CASE CommitFails
    BY <2>3, LeaveInv DEF CommitFails, Running
  <2>4. QED
    BY <1>8, <2>1, <2>2, <2>3 DEF IOError
<1>9. ASSUME NEW r \in Refs, FreeOne(r) PROVE Inv'
  <2>1. /\ pc = "free" /\ lock' = [lock EXCEPT ![r] = "none"] /\ taken' = taken \ {r}
        /\ UNCHANGED <<updates, refs, pc, next, queued, written, reason>>
    BY <1>9 DEF FreeOne
  <2>2. TypeOK' /\ Taken'
    BY <2>1 DEF Inv, TypeOK, Names, Running, Taken
  <2>3. Validated' /\ Locked' /\ Rechecked' /\ Queued' /\ WritesLast'
    BY <2>1 DEF Validated, Locked, Rechecked, Queued, Passed, WritesLast
  <2>4. Outcome'
    BY <2>1 DEF Inv, Outcome, Names, RefusalChangesNothing
  <2>5. QED
    BY <2>2, <2>3, <2>4 DEF Inv
<1>10. CASE FreeDone
  <2>1. /\ pc = "free" /\ pc' = (IF reason = "none" THEN "ok" ELSE "failed") /\ taken = {}
        /\ UNCHANGED <<updates, refs, lock, next, taken, queued, written, reason>>
    BY <1>10 DEF FreeDone
  <2>2. TypeOK' /\ Taken'
    BY <2>1 DEF Inv, TypeOK, Names, Running, Taken
  <2>3. Validated' /\ Locked' /\ Rechecked' /\ Queued' /\ WritesLast'
    BY <2>1 DEF Validated, Locked, Rechecked, Queued, Passed, WritesLast
  <2>4. Outcome'
    BY <2>1 DEF Inv, Outcome, Names, RefusalChangesNothing
  <2>5. QED
    BY <2>2, <2>3, <2>4 DEF Inv
<1>11. CASE Crash
  <2>1. /\ Running /\ pc' = "crashed" /\ taken' = {}
        /\ lock' = [r \in Refs |-> IF lock[r] = "bbfg" THEN "other" ELSE lock[r]]
        /\ UNCHANGED <<updates, refs, next, queued, written, reason>>
    BY <1>11 DEF Crash
  <2>2. TypeOK'
    BY <2>1 DEF Inv, TypeOK, Names, Running
  <2>3. Validated' /\ Locked' /\ Rechecked' /\ Queued' /\ WritesLast'
    BY <2>1 DEF Validated, Locked, Rechecked, Queued, Passed, WritesLast
  <2>4. Taken'
    BY <2>1 DEF Inv, TypeOK, Taken
  <2>5. Outcome'
    BY <2>1 DEF Inv, Outcome, RefusalChangesNothing
  <2>6. QED
    BY <2>2, <2>3, <2>4, <2>5 DEF Inv
<1>12. ASSUME NEW r \in Refs, OtherLocks(r) \/ OtherUnlocks(r) PROVE Inv'
  <2>1. /\ lock[r] # "bbfg"
        /\ lock' \in {[lock EXCEPT ![r] = "other"], [lock EXCEPT ![r] = "none"]}
        /\ refs' = refs \/ \E value \in RefValues : refs' = [refs EXCEPT ![r] = value]
        /\ UNCHANGED <<updates, pc, next, taken, queued, written, reason>>
    BY <1>12 DEF OtherLocks, OtherUnlocks
  <2>2. /\ lock' \in [Refs -> {"none", "bbfg", "other"}] /\ refs' \in [Refs -> RefValues]
        /\ \A q \in Refs : lock'[q] = "bbfg" <=> lock[q] = "bbfg"
        /\ \A q \in Refs : q # r => refs'[q] = refs[q]
    BY <2>1 DEF Inv, TypeOK
  <2>3. TypeOK'
    BY <2>1, <2>2 DEF Inv, TypeOK, Names, Running
  <2>4. Validated' /\ Locked' /\ Queued' /\ WritesLast'
    BY <2>1 DEF Inv, Validated, Locked, Queued, Passed, ValidName, ValidTarget, WritesLast
  <2>5. Rechecked'
    <3>1. r \notin taken
      BY <2>1 DEF Inv, Taken
    <3>2. \A i \in DOMAIN updates :
            /\ updates[i].name \in Refs
            /\ updates[i].name \in taken => refs'[updates[i].name] = refs[updates[i].name]
      BY <1>0, <2>2, <3>1, UpdateFacts
    <3>3. \A i \in DOMAIN updates : pc \in {"recheck", "queue", "commit"} =>
            updates[i].name \in written \/ updates[i].name \in taken
      BY DEF Inv, Locked, Passed
    <3>4. QED
      BY <2>1, <3>2, <3>3 DEF Inv, Rechecked, Passed, Replaceable
  <2>6. Taken'
    BY <2>1, <2>2 DEF Inv, Taken
  <2>7. Outcome'
    BY <2>1 DEF Inv, Outcome, Names, RefusalChangesNothing
  <2>8. QED
    BY <2>3, <2>4, <2>5, <2>6, <2>7 DEF Inv
<1>13. CASE UNCHANGED vars
  <2>1. UNCHANGED <<updates, refs, lock, pc, next, taken, queued, written, reason>>
    BY <1>13 DEF vars
  <2>2. TypeOK' /\ Taken' /\ Outcome'
    BY <2>1 DEF Inv, TypeOK, Names, Running, Taken, Outcome, RefusalChangesNothing
  <2>3. Validated' /\ Locked' /\ Rechecked' /\ Queued' /\ WritesLast'
    BY <2>1 DEF Inv, Validated, Locked, Rechecked, Queued, Passed, ValidName, ValidTarget,
                Replaceable, WritesLast
  <2>4. QED
    BY <2>2, <2>3 DEF Inv
<1>14. QED
  BY <1>1, <1>2, <1>3, <1>4, <1>5, <1>6, <1>7, <1>8, <1>9, <1>10, <1>11, <1>12, <1>13
     DEF Next, Step, Others

LEMMA Invariant == Spec => []Inv
BY InitInv, StepInv, PTL DEF Spec

-----------------------------------------------------------------------------
(* The state of an update is always well typed. *)
THEOREM TypeCorrect == Spec => []TypeOK
BY Invariant, PTL DEF Inv

(* For every list of updates and all that others do, every ref not yet     *)
(* written stays locked, and replaceable once it was looked at again.      *)
THEOREM LocksProtect == Spec => []LooksAgainUnderTheLocks
<1>1. ASSUME Inv PROVE LooksAgainUnderTheLocks
  <2>1. updates \in Updates
    BY <1>1 DEF Inv, TypeOK
  <2>2. \A i \in DOMAIN updates : updates[i].name \in Refs
    BY <2>1, UpdateFacts
  <2>3. QED
    BY <1>1, <2>2 DEF Inv, Locked, Rechecked, Passed, Taken, LooksAgainUnderTheLocks, Names
<1>2. QED
  BY <1>1, Invariant, PTL

(* For every list of updates and all that others do, a call that is turned *)
(* away, or that fails before its commit, has changed no ref at all.       *)
THEOREM RefusalsAreClean == Spec => []RefusalChangesNothing
<1>1. Inv => RefusalChangesNothing
  BY DEF Inv, Outcome
<1>2. QED
  BY <1>1, Invariant, PTL

(* For every list of updates, a call that returned holds no lock, whether  *)
(* it returned before the transaction, from the lock loop with some of the *)
(* locks, or from any later exit: each frees what the transaction holds.   *)
THEOREM LocksAreReleased == Spec => []NoLockLeftBehind
<1>1. Inv => NoLockLeftBehind
  BY DEF Inv, Taken, NoLockLeftBehind
<1>2. QED
  BY <1>1, Invariant, PTL

(* A call that succeeds has replaced every ref of its list. *)
THEOREM SuccessesAreComplete == Spec => []SuccessIsComplete
<1>1. Inv => SuccessIsComplete
  BY DEF Inv, Outcome, SuccessIsComplete
<1>2. QED
  BY <1>1, Invariant, PTL

(* For every list of updates and all that others do, only missing or       *)
(* direct refs to commits are replaced, by what their namespace may hold.  *)
THEOREM OnlyPlainRefsAreReplaced == Spec => ReplacesOnlyPlainRefs
<1> DEFINE Plain ==
      \A r \in written' \ written :
        /\ Replaceable(refs[r]) /\ lock[r] = "bbfg"
        /\ \/ Space[r] = "heads" /\ TypeOf[refs'[r]] = "commit"
           \/ Space[r] = "tags" /\ TypeOf[refs'[r]] \in {"commit", "tag"}
<1>1. ASSUME Inv, NEW i \in DOMAIN updates, CommitOne(i) PROVE Plain
  <2>0. updates[i].name \in Refs
    BY <1>1, UpdateFacts DEF Inv, TypeOK
  <2>1. /\ pc = "commit" /\ lock[updates[i].name] = "bbfg"
        /\ \/ /\ refs' = [refs EXCEPT ![updates[i].name] = updates[i].target]
              /\ written' = written \cup {updates[i].name}
           \/ written' = written
    BY <1>1, <2>0 DEF CommitOne, Inv, Taken
  <2>2. CASE written' = written
    BY <2>2
  <2>3. CASE updates[i].name \notin written
    <3>1. /\ ValidName(updates[i].name) /\ ValidTarget(updates[i].name, updates[i].target)
          /\ Replaceable(refs[updates[i].name])
      BY <1>1, <2>1, <2>3 DEF Inv, Validated, Rechecked, Passed
    <3>2. QED
      BY <1>1, <2>0, <2>1, <3>1 DEF ValidName, ValidTarget, Inv, TypeOK
  <2>4. QED
    BY <2>1, <2>2, <2>3
<1>2. ASSUME [Next]_vars, \A i \in DOMAIN updates : ~CommitOne(i) PROVE written' = written
  BY <1>2 DEF Next, Step, Others, ValidateOne, Begin, LockOne, RecheckOne, QueueOne, CommitDone,
              FreeOne, FreeDone, IOError, ValidateFails, BeginFails, LockFails, RecheckFails,
              QueueFails, CommitFails, Leave, Crash, OtherLocks, OtherUnlocks, vars
<1>3. Inv /\ [Next]_vars => Plain
  BY <1>1, <1>2
<1>4. QED
  BY <1>3, Invariant, PTL DEF Spec, ReplacesOnlyPlainRefs

-----------------------------------------------------------------------------
(* Refinement. *)

LEMMA StatusBusy ==
  ASSUME Running, reason = "none"
  PROVE  Status = "busy"
BY DEF Running, Status, Refusals

LEMMA BusyMeans ==
  ASSUME Inv, Status = "busy"
  PROVE  Running /\ reason = "none"
<1>1. pc # "ok" /\ reason \notin Refusals /\ reason # "commit"
  BY DEF Status
<1>2. reason = "none" /\ pc # "crashed"
  BY <1>1 DEF Inv, TypeOK, Refusals, Status
<1>3. pc # "failed"
  BY <1>2 DEF Inv, Outcome
<1>4. QED
  BY <1>1, <1>2, <1>3 DEF Running

(* An exit refuses before the first write, and may stop after it.          *)
LEMMA LeaveMaps ==
  ASSUME Inv, Running, reason = "none", NEW phase \in {"free", "failed"},
         NEW why \in {"invalid", "locked", "changed", "io", "commit"}, Leave(phase, why),
         why # "commit" => written = {}
  PROVE  Abstract!Refuse \/ Abstract!Stop
<1>1. Status = "busy"
  BY StatusBusy
<1>2. Status' = IF why = "commit" THEN "stopped" ELSE "refused"
  BY DEF Leave, Status, Refusals
<1>3. UNCHANGED <<updates, refs, written>>
  BY DEF Leave
<1>4. QED
  BY <1>1, <1>2, <1>3 DEF Abstract!Refuse, Abstract!Stop

LEMMA InitMaps == Init => Abstract!Init
<1> SUFFICES ASSUME Init PROVE Abstract!Init
  OBVIOUS
<1>1. Status = IF updates = <<>> THEN "ok" ELSE "busy"
  BY DEF Init, Status, Refusals
<1>2. QED
  BY <1>1 DEF Init, Abstract!Init, RefValues, Abstract!RefValues

LEMMA StepMaps == Inv /\ [Next]_vars => [Abstract!Next]_(Abstract!vars)
<1> SUFFICES ASSUME Inv, [Next]_vars PROVE [Abstract!Next]_(Abstract!vars)
  OBVIOUS
<1>0. TypeOK /\ updates \in Updates
  BY DEF Inv, TypeOK
<1> DEFINE before == {"validate", "begin", "lock", "recheck", "queue"}
<1> USE DEF Abstract!vars
<1>1. pc \in before \cup {"commit"} => Running /\ reason = "none"
  BY DEF Inv, Outcome, Running
<1>2. ASSUME pc \in before, pc' \in before \cup {"commit"},
             UNCHANGED <<refs, updates, written, reason>>
      PROVE  UNCHANGED Abstract!vars
  <2>1. Status = "busy"
    BY <1>1, <1>2, StatusBusy
  <2>2. Status' = "busy"
    BY <1>1, <1>2 DEF Status, Refusals
  <2>3. QED
    BY <1>2, <2>1, <2>2
<1>3. ASSUME NEW phase \in {"free", "failed"}, NEW why \in {"invalid", "locked", "changed", "io"},
             Leave(phase, why), pc \in before
      PROVE  Abstract!Next
  BY <1>1, <1>3, LeaveMaps DEF Inv, WritesLast, Abstract!Next
<1>4. CASE ValidateOne
  BY <1>2, <1>3, <1>4 DEF ValidateOne, Advance
<1>5. CASE Begin
  BY <1>2, <1>5 DEF Begin
<1>6. CASE LockOne
  BY <1>2, <1>3, <1>6 DEF LockOne, Advance
<1>7. CASE RecheckOne
  BY <1>2, <1>3, <1>7 DEF RecheckOne, Advance
<1>8. CASE QueueOne
  BY <1>2, <1>8 DEF QueueOne, Advance
<1>9. ASSUME NEW i \in DOMAIN updates, CommitOne(i) PROVE Abstract!Next
  <2>1. /\ pc = "commit" /\ updates[i].name \in taken /\ updates[i].name \in queued
        /\ UNCHANGED <<updates, pc, reason>>
    BY <1>9 DEF CommitOne, Inv, Queued, Passed
  <2>2. /\ refs' = [refs EXCEPT ![updates[i].name] = updates[i].target]
        /\ written' = written \cup {updates[i].name}
    BY <1>9, <2>1 DEF CommitOne
  <2>3. Status = "busy" /\ Status' = Status
    <3>1. Status = "busy"
      BY <1>1, <2>1, StatusBusy
    <3>2. Status' = Status
      BY <2>1 DEF Status
    <3>3. QED
      BY <3>1, <3>2
  <2>4. updates[i].name \notin written
    BY <2>1 DEF Inv, Taken
  <2>5. \A j \in DOMAIN updates : updates[j].name \notin written => Abstract!MayChange(updates[j])
    BY <2>1 DEF Inv, Validated, Rechecked, Passed, Abstract!MayChange, ValidName, ValidTarget,
                Replaceable, Abstract!ValidName, Abstract!ValidTarget, Abstract!Replaceable
  <2>6. Abstract!Write(i)
    BY <2>1, <2>2, <2>3, <2>4, <2>5 DEF Abstract!Write
  <2>7. QED
    BY <1>9, <2>6 DEF Abstract!Next
<1>10. CASE CommitDone
  <2>1. /\ pc = "commit" /\ pc' = "free" /\ reason = "none"
        /\ UNCHANGED <<updates, refs, written, reason>>
    BY <1>1, <1>10 DEF CommitDone
  <2>2. Status = "busy" /\ Status' = "busy"
    BY <2>1 DEF Status, Refusals
  <2>3. QED
    BY <2>1, <2>2
<1>11. CASE IOError
  <2>1. CASE CommitFails
    BY <1>1, <2>1, LeaveMaps DEF CommitFails, Abstract!Next
  <2>2. CASE ~CommitFails
    BY <1>3, <1>11, <2>2 DEF IOError, ValidateFails, BeginFails, LockFails, RecheckFails, QueueFails
  <2>3. QED
    BY <2>1, <2>2
<1>12. ASSUME NEW r \in Refs, FreeOne(r) PROVE UNCHANGED Abstract!vars
  BY <1>12 DEF FreeOne, Status
<1>13. CASE FreeDone
  <2>1. /\ pc = "free" /\ pc' = (IF reason = "none" THEN "ok" ELSE "failed")
        /\ UNCHANGED <<updates, refs, written, reason>>
    BY <1>13 DEF FreeDone
  <2>2. CASE reason = "none"
    <3>1. written = Names
      BY <2>1, <2>2 DEF Inv, Outcome
    <3>2. Status = "busy" /\ Status' = "ok"
      BY <2>1, <2>2 DEF Status, Refusals
    <3>3. Abstract!Succeed
      BY <2>1, <3>1, <3>2 DEF Abstract!Succeed, Abstract!Names, Names
    <3>4. QED
      BY <3>3 DEF Abstract!Next
  <2>3. CASE reason # "none"
    <3>1. Status' = Status
      BY <2>1, <2>3 DEF Inv, TypeOK, Status, Refusals
    <3>2. QED
      BY <2>1, <3>1
  <2>4. QED
    BY <2>2, <2>3
<1>14. CASE Crash
  <2>1. Running /\ pc' = "crashed" /\ UNCHANGED <<updates, refs, written, reason>>
    BY <1>14 DEF Crash
  <2>2. CASE reason = "none"
    <3>1. Status = "busy" /\ Status' = "stopped"
      BY <2>1, <2>2, StatusBusy DEF Status, Refusals
    <3>2. Abstract!Stop
      BY <2>1, <3>1 DEF Abstract!Stop
    <3>3. QED
      BY <3>2 DEF Abstract!Next
  <2>3. CASE reason # "none"
    <3>1. Status' = Status
      BY <2>1, <2>3 DEF Inv, TypeOK, Running, Status, Refusals
    <3>2. QED
      BY <2>1, <3>1
  <2>4. QED
    BY <2>2, <2>3
<1>15. ASSUME NEW r \in Refs, OtherLocks(r) PROVE UNCHANGED Abstract!vars
  BY <1>15 DEF OtherLocks, Status
<1>16. ASSUME NEW r \in Refs, OtherUnlocks(r) PROVE Abstract!Next
  <2>1. /\ lock[r] = "other" /\ UNCHANGED <<updates, pc, written, reason>>
        /\ \E value \in RefValues : refs' = [refs EXCEPT ![r] = value]
    BY <1>16 DEF OtherUnlocks
  <2>2. Status' = Status
    BY <2>1 DEF Status
  <2>3. CASE Status = "busy" /\ written # {}
    <3>1. Running /\ reason = "none"
      BY <2>3, BusyMeans
    <3>2. pc \in {"commit", "free"}
      BY <2>3, <3>1 DEF Inv, TypeOK, WritesLast, Running
    <3>3. r \notin taken
      BY <2>1 DEF Inv, Taken
    <3>4. r \notin Names \ written
      <4>1. CASE pc = "commit"
        BY <3>3, <4>1 DEF Inv, Locked, Passed, Names
      <4>2. CASE pc = "free"
        BY <3>1, <4>2 DEF Inv, Outcome
      <4>3. QED
        BY <3>2, <4>1, <4>2
    <3>5. QED
      BY <2>1, <2>2, <3>4 DEF Abstract!OthersChange, Abstract!Next, Abstract!Names, Names,
                              Abstract!RefValues, RefValues
  <2>4. CASE ~(Status = "busy" /\ written # {})
    BY <2>1, <2>2, <2>4 DEF Abstract!OthersChange, Abstract!Next, Abstract!RefValues, RefValues
  <2>5. QED
    BY <2>3, <2>4
<1>17. CASE UNCHANGED vars
  BY <1>17 DEF vars, Status
<1>18. QED
  BY <1>4, <1>5, <1>6, <1>7, <1>8, <1>9, <1>10, <1>11, <1>12, <1>13, <1>14, <1>15, <1>16, <1>17
     DEF Next, Step, Others

(* The four loops, the locks and the commit implement the abstract update, *)
(* for every list of updates and whatever others do.                       *)
THEOREM Refinement == Spec => ImplementsRefUpdate
BY InitMaps, StepMaps, Invariant, PTL DEF Spec, ImplementsRefUpdate, Abstract!Spec
=============================================================================
