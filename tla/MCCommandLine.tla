--------------------------- MODULE MCCommandLine ----------------------------
(* Every command line of up to three options of the kinds below, and a     *)
(* single --strip-blobs-bigger-than with every size around 2^5 = 32.       *)
EXTENDS CommandLine

CONSTANTS p, q

Size(number, suffix) == [short |-> "S", arg |-> [digit |-> TRUE, number |-> number, suffix |-> suffix]]
NoSize == [short |-> "S", arg |-> [digit |-> FALSE, number |-> 0, suffix |-> ""]]

SomeOptions ==
  [short : {"d", "H", "W", "u", "D", "F"}, arg : {p}] \cup [short : {"D"}, arg : {q}]
    \cup [short : {"c", "U", "N", "h", "?"}, arg : {NULL}]
    \cup {Size(1, "K"), Size(16, "K"), NoSize}
Sizes == {Size(n, suffix) : n \in 0..33, suffix \in {"", "K", "M", "G", "T", "other"}}
(* Three rules leave room for a fourth: the array does not grow for it.    *)
Paths(n) == [i \in 1..n |-> [short |-> "D", arg |-> p]]
AllSizes ==
  {<<[short |-> "U", arg |-> NULL], size>> : size \in Sizes}
    \cup {<<[short |-> "U", arg |-> NULL]>> \o Paths(3) \o <<size>> : size \in Sizes}
    \cup {<<[short |-> "u", arg |-> p], size, [short |-> "S", arg |-> text]>> :
            size \in {Size(31, ""), Size(15, "K")}, text \in {s.arg : s \in Sizes}}

SomeArgLists == UNION {[1..n -> SomeOptions] : n \in 0..3} \cup AllSizes
=============================================================================
