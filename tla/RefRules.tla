------------------------------ MODULE RefRules ------------------------------
(***************************************************************************)
(* Which refs src/src/refs.c updates, and to what: the rules that          *)
(* RefTransaction follows step by step and RefUpdate promises.             *)
(***************************************************************************)
EXTENDS Naturals, Sequences

CONSTANTS
  Refs,      \* ref names
  Space,     \* Space[r]: "heads", "tags" or "other", by the prefix of the name
  Ids,       \* ids of objects that refs may point to
  TypeOf,    \* TypeOf[id]: "commit", "tag", "blob"; "absent" for no such object
  Peels,     \* the ids that peel to a commit
  Missing,   \* the value of a ref that does not exist
  Symbolic   \* the value of a symbolic ref

RefValues == Ids \cup {Missing, Symbolic}

IsUpdateList(u) ==
  /\ u \in Seq([name : Refs, target : Ids])
  /\ \A i, j \in DOMAIN u : u[i].name = u[j].name => i = j

ASSUME SpaceAssumption == Space \in [Refs -> {"heads", "tags", "other"}]
ASSUME IdsAssumption ==
  /\ TypeOf \in [Ids -> {"commit", "tag", "blob", "absent"}]
  /\ \A id \in Ids : TypeOf[id] = "commit" => id \in Peels
  /\ Missing \notin Ids \cup Peels /\ Symbolic \notin Ids \cup Peels
  /\ Missing # Symbolic

ValidName(r) == Space[r] \in {"heads", "tags"}
ValidTarget(r, id) == TypeOf[id] = "commit" \/ (Space[r] = "tags" /\ TypeOf[id] = "tag")

(* validate_existing_ref with allow_missing: what may be replaced. *)
Replaceable(value) == value = Missing \/ value \in Peels
=============================================================================
