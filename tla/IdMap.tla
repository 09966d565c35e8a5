------------------------------- MODULE IdMap --------------------------------
(***************************************************************************)
(* What src/src/oid_map.h promises, one call at a time: a map from old ids *)
(* to new ids (get) that can also be read in the order in which its keys   *)
(* first came (value_at).  A put may fail, and then changed nothing.       *)
(* HistoryRewrite uses its maps as this; OidMap is shown to implement it.  *)
(***************************************************************************)
EXTENDS GitObjects

CONSTANTS Keys, Values

VARIABLES
  map,     \* the map: old id -> new id
  order,   \* its keys, oldest first
  key,     \* the arguments of the last call of put
  value,
  result   \* how that call ended: "none" while it runs, "ok", "failed"

vars == <<map, order, key, value, result>>

Init ==
  /\ map = EmptyMap /\ order = <<>>
  /\ key \in Keys /\ value \in Values /\ result = "ok"

CallPut(k, v) ==
  /\ result # "none"
  /\ key' = k /\ value' = v /\ result' = "none"
  /\ UNCHANGED <<map, order>>

PutSucceeds ==
  /\ result = "none"
  /\ map' = Put(map, key, value)
  /\ order' = IF key \in DOMAIN map THEN order ELSE Append(order, key)
  /\ result' = "ok"
  /\ UNCHANGED <<key, value>>

PutFails ==
  /\ result = "none"
  /\ result' = "failed"
  /\ UNCHANGED <<map, order, key, value>>

Dispose ==
  /\ result # "none"
  /\ map' = EmptyMap /\ order' = <<>>
  /\ UNCHANGED <<key, value, result>>

Next ==
  \/ \E k \in Keys, v \in Values : CallPut(k, v)
  \/ PutSucceeds \/ PutFails \/ Dispose

Spec == Init /\ [][Next]_vars
=============================================================================
