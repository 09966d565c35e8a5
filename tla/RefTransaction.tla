--------------------------- MODULE RefTransaction ---------------------------
(***************************************************************************)
(* The update of the refs at the end of a command: bbfg_write_refs of      *)
(* src/src/refs.c, among other git processes that lock, move, delete and   *)
(* create refs at any moment.  A ref is changed under its lock file only;  *)
(* taking a lock that is held fails at once, nobody waits.                 *)
(*                                                                         *)
(* libgit2 commits a transaction ref by ref, in the order of a hash table, *)
(* without comparing a ref with the value that was read for it earlier;    *)
(* git_transaction_free unlocks, one by one, the refs it has not committed. *)
(***************************************************************************)
EXTENDS RefRules

CONSTANT Updates  \* the sequences of [name, target] that may be asked for

ASSUME UpdatesAssumption == \A u \in Updates : IsUpdateList(u)

VARIABLES
  updates,  \* the update list of the call
  refs,     \* the refs of the repository
  lock,     \* who holds the lock file of each ref: "none", "bbfg", "other"
  pc,       \* "validate", "begin", "lock", "recheck", "queue", "commit", "free",
            \* "ok", "failed", "crashed"
  next,     \* the index of the loop that pc names
  taken,    \* the refs in the transaction, locked and not yet committed
  queued,   \* the refs whose new target is noted in the transaction
  written,  \* the refs this call has changed
  reason    \* why it fails: "none", "invalid", "locked", "changed", "io",
            \* "commit" when it is git_transaction_commit that fails

vars == <<updates, refs, lock, pc, next, taken, queued, written, reason>>

Names == {updates[i].name : i \in DOMAIN updates}

Init ==
  /\ updates \in Updates
  /\ refs \in [Refs -> RefValues]
  /\ lock = [r \in Refs |-> "none"]
  /\ pc = IF updates = <<>> THEN "ok" ELSE "validate"
  /\ next = 1 /\ taken = {} /\ queued = {} /\ written = {} /\ reason = "none"

-----------------------------------------------------------------------------
(* The steps of bbfg_write_refs. *)

(* Defect: the loop runs once too often. *)
AdvanceTooFar(phase) ==
  IF next <= Len(updates)
  THEN next' = next + 1 /\ UNCHANGED pc
  ELSE next' = 1 /\ pc' = phase

(* The end of one round of the loop pc: the next round, or the next phase. *)
Advance(phase) ==
  IF next < Len(updates)
  THEN next' = next + 1 /\ UNCHANGED pc
  ELSE next' = 1 /\ pc' = phase

(* An error: on to the phase, either "free" or straight out of the call. *)
Leave(phase, why) ==
  /\ pc' = phase /\ reason' = why
  /\ UNCHANGED <<updates, refs, lock, next, taken, queued, written>>

(* No transaction exists yet: an update that is not valid ends the call,   *)
(* as does a failing lookup.                                               *)
ValidateOne ==
  LET r == updates[next].name IN
    /\ pc = "validate"
    /\ IF ValidName(r) /\ ValidTarget(r, updates[next].target) /\ Replaceable(refs[r])
       THEN Advance("begin") /\ UNCHANGED <<updates, refs, lock, taken, queued, written, reason>>
       ELSE Leave("failed", "invalid")
ValidateFails == pc = "validate" /\ Leave("failed", "io")

(* git_transaction_new *)
Begin ==
  /\ pc = "begin" /\ pc' = "lock" /\ next' = 1
  /\ UNCHANGED <<updates, refs, lock, taken, queued, written, reason>>
BeginFails == pc = "begin" /\ Leave("failed", "io")

(* Defects: a held lock is not an error; a held lock is waited for. *)
LockOneOptional ==
  LET r == updates[next].name IN
    /\ pc = "lock"
    /\ IF lock[r] = "none"
       THEN lock' = [lock EXCEPT ![r] = "bbfg"] /\ taken' = taken \cup {r}
       ELSE UNCHANGED <<lock, taken>>
    /\ Advance("recheck")
    /\ UNCHANGED <<updates, refs, queued, written, reason>>
LockOneWaits ==
  LET r == updates[next].name IN
    /\ pc = "lock" /\ lock[r] = "none"
    /\ lock' = [lock EXCEPT ![r] = "bbfg"] /\ taken' = taken \cup {r}
    /\ Advance("recheck")
    /\ UNCHANGED <<updates, refs, queued, written, reason>>

LockOne ==
  LET r == updates[next].name IN
    /\ pc = "lock"
    /\ IF lock[r] = "none"
       THEN /\ lock' = [lock EXCEPT ![r] = "bbfg"] /\ taken' = taken \cup {r}
            /\ Advance("recheck")
            /\ UNCHANGED <<updates, refs, queued, written, reason>>
       ELSE Leave("free", "locked")
LockFails == pc = "lock" /\ Leave("free", "io")

(* Defects: nothing is looked at again under the lock; the error return of *)
(* this loop does not free the transaction.                                *)
RecheckNothing ==
  /\ pc = "recheck"
  /\ Advance("queue") /\ UNCHANGED <<updates, refs, lock, taken, queued, written, reason>>
RecheckOneKeepsLocks ==
  /\ pc = "recheck"
  /\ IF Replaceable(refs[updates[next].name])
     THEN Advance("queue") /\ UNCHANGED <<updates, refs, lock, taken, queued, written, reason>>
     ELSE Leave("failed", "changed")

RecheckOne ==
  /\ pc = "recheck"
  /\ IF Replaceable(refs[updates[next].name])
     THEN Advance("queue") /\ UNCHANGED <<updates, refs, lock, taken, queued, written, reason>>
     ELSE Leave("free", "changed")
RecheckFails == pc = "recheck" /\ Leave("free", "io")

(* Defect: the index is not used. *)
QueueFirstOnly ==
  /\ pc = "queue"
  /\ queued' = queued \cup {updates[1].name}
  /\ Advance("commit") /\ UNCHANGED <<updates, refs, lock, taken, written, reason>>

(* The new target is noted in the transaction, where nobody else sees it. *)
QueueOne ==
  /\ pc = "queue"
  /\ queued' = queued \cup {updates[next].name}
  /\ Advance("commit") /\ UNCHANGED <<updates, refs, lock, taken, written, reason>>
QueueFails == pc = "queue" /\ Leave("free", "io")

(* git_transaction_commit writes a ref by renaming its lock file onto it.  *)
(* A ref that was locked and has no new target is only unlocked.           *)
CommitOne(i) ==
  LET r == updates[i].name IN
    /\ pc = "commit" /\ r \in taken
    /\ IF r \in queued
       THEN /\ refs' = [refs EXCEPT ![r] = updates[i].target]
            /\ written' = written \cup {r}
       ELSE UNCHANGED <<refs, written>>
    /\ lock' = [lock EXCEPT ![r] = "none"] /\ taken' = taken \ {r}
    /\ UNCHANGED <<updates, pc, next, queued, reason>>

(* Its result is kept while the transaction is freed. *)
CommitDone ==
  /\ pc = "commit" /\ taken = {}
  /\ pc' = "free"
  /\ UNCHANGED <<updates, refs, lock, next, taken, queued, written, reason>>
CommitFails == pc = "commit" /\ taken # {} /\ Leave("free", "commit")

(* git_transaction_free *)
FreeOne(r) ==
  /\ pc = "free" /\ r \in taken
  /\ lock' = [lock EXCEPT ![r] = "none"] /\ taken' = taken \ {r}
  /\ UNCHANGED <<updates, refs, pc, next, queued, written, reason>>

FreeDone ==
  /\ pc = "free" /\ taken = {}
  /\ pc' = IF reason = "none" THEN "ok" ELSE "failed"
  /\ UNCHANGED <<updates, refs, lock, next, taken, queued, written, reason>>

Running == pc \notin {"ok", "failed", "crashed"}

(* The process is killed: its lock files stay, and hold others off until   *)
(* somebody removes them.                                                  *)
Crash ==
  /\ Running
  /\ pc' = "crashed" /\ taken' = {}
  /\ lock' = [r \in Refs |-> IF lock[r] = "bbfg" THEN "other" ELSE lock[r]]
  /\ UNCHANGED <<updates, refs, next, queued, written, reason>>

-----------------------------------------------------------------------------
(* Other git processes. *)

OtherLocks(r) ==
  /\ lock[r] = "none"
  /\ lock' = [lock EXCEPT ![r] = "other"]
  /\ UNCHANGED <<updates, refs, pc, next, taken, queued, written, reason>>

(* It commits a new value, a deletion or nothing, and unlocks; or it      *)
(* removes a stale lock file.                                             *)
OtherUnlocks(r) ==
  /\ lock[r] = "other"
  /\ \E value \in RefValues : refs' = [refs EXCEPT ![r] = value]
  /\ lock' = [lock EXCEPT ![r] = "none"]
  /\ UNCHANGED <<updates, pc, next, taken, queued, written, reason>>

-----------------------------------------------------------------------------
Step ==
  \/ ValidateOne \/ Begin \/ LockOne \/ RecheckOne \/ QueueOne
  \/ (\E i \in DOMAIN updates : CommitOne(i))
  \/ CommitDone
  \/ (\E r \in Refs : FreeOne(r))
  \/ FreeDone

(* A libgit2 call or an allocation fails, in the middle of the commit too. *)
IOError ==
  ValidateFails \/ BeginFails \/ LockFails \/ RecheckFails \/ QueueFails \/ CommitFails

Others == \E r \in Refs : OtherLocks(r) \/ OtherUnlocks(r)

Next == Step \/ IOError \/ Crash \/ Others

Spec == Init /\ [][Next]_vars
(* bbfg_write_refs runs to its end by itself; nothing is assumed of others, *)
(* who may keep a lock for ever.                                            *)
FairSpec == Spec /\ WF_vars(Step)

-----------------------------------------------------------------------------
(* Properties. *)

(* The state is well typed, and the loop index points to an update. *)
TypeOK ==
  /\ updates \in Updates
  /\ refs \in [Refs -> RefValues]
  /\ lock \in [Refs -> {"none", "bbfg", "other"}]
  /\ pc \in {"validate", "begin", "lock", "recheck", "queue", "commit", "free",
            "ok", "failed", "crashed"}
  /\ next \in Nat \ {0} /\ (Running => next \in DOMAIN updates)
  /\ taken \subseteq Names
  /\ queued \subseteq Names /\ written \subseteq queued
  /\ reason \in {"none", "invalid", "locked", "changed", "io", "commit"}

(* A ref that this call replaces was, at that very moment, missing or a    *)
(* direct ref to something that peels to a commit: never symbolic, however *)
(* others moved it after validate_ref_updates looked (README: only direct  *)
(* refs under refs/heads and refs/tags are updated).  And what is written  *)
(* suits the namespace: a branch never points to a tag object.             *)
ReplacesOnlyPlainRefs ==
  [][\A r \in written' \ written :
       /\ Replaceable(refs[r]) /\ lock[r] = "bbfg"
       /\ \/ Space[r] = "heads" /\ TypeOf[refs'[r]] = "commit"
          \/ Space[r] = "tags" /\ TypeOf[refs'[r]] \in {"commit", "tag"}]_vars

(* From the moment it looks again until each ref is committed, the call    *)
(* holds the lock of every ref of the list, and what it saw then is still  *)
(* true when it commits, although others keep moving refs.                 *)
LooksAgainUnderTheLocks ==
  /\ pc \in {"recheck", "queue", "commit"} => \A r \in Names \ written : lock[r] = "bbfg"
  /\ pc \in {"queue", "commit"} => \A r \in Names \ written : Replaceable(refs[r])

(* A call that is turned away (a bad name or target, a ref of the wrong    *)
(* kind, a held lock, a ref changed before the lock was taken) or that     *)
(* fails for any other reason before its commit has changed no ref at all, *)
(* even when only the last ref of the list is at fault.                    *)
(* (Part of ImplementsRefUpdate, like SuccessIsComplete.)                  *)
Refusals == {"invalid", "locked", "changed", "io"}
RefusalChangesNothing ==
  reason \in Refusals => written = {}

(* A call that returned holds no lock, whichever return it took: those out *)
(* of the lock loop, the second look, the queue and the commit each have   *)
(* to free the transaction, with the locks that were taken by then.        *)
NoLockLeftBehind ==
  pc \in {"ok", "failed"} => \A r \in Refs : lock[r] # "bbfg"

(* Success means that every ref of the list was replaced: libgit2 commits  *)
(* what is locked and has a target, so each loop must reach each update.   *)
SuccessIsComplete == pc = "ok" => written = Names

(* The call returns, although others may hold the locks it needs for ever: *)
(* it never waits for one.                                                 *)
Returns == <>(~Running)

(* What a caller sees of a call.  A failing commit may come when some refs *)
(* are written, as may a kill; every other failure comes before.           *)
Status ==
  CASE pc = "ok" -> "ok"
    [] reason \in Refusals -> "refused"
    [] reason = "commit" \/ (pc = "crashed" /\ reason = "none") -> "stopped"
    [] OTHER -> "busy"
Abstract == INSTANCE RefUpdate WITH status <- Status

(* Four loops, a lock per ref and a commit in any order come to what        *)
(* RefUpdate says, whatever others do: nothing is written before all of    *)
(* the list may be, and nobody gets between the first write and the last.  *)
ImplementsRefUpdate == Abstract!Spec
=============================================================================
