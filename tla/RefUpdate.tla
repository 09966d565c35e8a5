----------------------------- MODULE RefUpdate ------------------------------
(***************************************************************************)
(* What bbfg_write_refs promises, without its locks and loops: the refs of *)
(* the list change one at a time, but none before all of them may change,  *)
(* and from the first one on nobody else gets between.  A call that is     *)
(* refused changed nothing, one that succeeds changed everything, and one  *)
(* that is stopped in the middle (by an error or a kill) changed some.     *)
(***************************************************************************)
EXTENDS RefRules

CONSTANT Updates  \* the sequences of [name, target] that may be asked for

VARIABLES
  updates,  \* the update list of the call
  refs,     \* the refs of the repository
  written,  \* the refs this call has changed
  status    \* "busy", "ok", "refused", "stopped"

vars == <<updates, refs, written, status>>

Names == {updates[i].name : i \in DOMAIN updates}

Init ==
  /\ updates \in Updates
  /\ refs \in [Refs -> RefValues]
  /\ written = {}
  /\ status = IF updates = <<>> THEN "ok" ELSE "busy"

MayChange(u) ==
  ValidName(u.name) /\ ValidTarget(u.name, u.target) /\ Replaceable(refs[u.name])

Write(i) ==
  /\ status = "busy" /\ updates[i].name \notin written
  /\ \A j \in DOMAIN updates : updates[j].name \notin written => MayChange(updates[j])
  /\ refs' = [refs EXCEPT ![updates[i].name] = updates[i].target]
  /\ written' = written \cup {updates[i].name}
  /\ UNCHANGED <<updates, status>>

Succeed ==
  /\ status = "busy" /\ written = Names
  /\ status' = "ok"
  /\ UNCHANGED <<updates, refs, written>>

Refuse ==
  /\ status = "busy" /\ written = {}
  /\ status' = "refused"
  /\ UNCHANGED <<updates, refs, written>>

Stop ==
  /\ status = "busy"
  /\ status' = "stopped"
  /\ UNCHANGED <<updates, refs, written>>

(* Others change what this call is not in the middle of changing. *)
OthersChange(r) ==
  /\ (status = "busy" /\ written # {}) => r \notin Names \ written
  /\ \E value \in RefValues : refs' = [refs EXCEPT ![r] = value]
  /\ UNCHANGED <<updates, written, status>>

Next ==
  \/ \E i \in DOMAIN updates : Write(i)
  \/ Succeed \/ Refuse \/ Stop
  \/ \E r \in Refs : OthersChange(r)

Spec == Init /\ [][Next]_vars
=============================================================================
