-------------------------- MODULE MCHistoryRewrite --------------------------
(***************************************************************************)
(* Small repositories for HistoryRewrite.  Trees: x0 and y0 are clean, x1  *)
(* and x2 both become x0 (two trees that differ in filtered files only),   *)
(* y1 becomes y0.                                                          *)
(***************************************************************************)
EXTENDS HistoryRewrite, FiniteSets

MCTrees == {"x0", "x1", "x2", "y0", "y1"}
MCCleanTree ==
  [t \in MCTrees |-> CASE t \in {"x1", "x2"} -> "x0" [] t = "y1" -> "y0" [] OTHER -> t]

RECURSIVE Ancestors(_), Objects(_)
Ancestors(c) == {c} \cup UNION {Ancestors(p) : p \in Range(c.parents)}
Objects(o) == {o} \cup UNION {Objects(n) : n \in Needs(o)}

(* The input that push_ref_tips reads for these refs. *)
DirectRef(c) == [kind |-> "direct", id |-> c, tip |-> c]
TagRef(t, tip) == [kind |-> "tag", id |-> t, tip |-> tip]
Run(refs, protect, leftovers) ==
  [refs |-> refs,
   walk |-> UNION {Ancestors(refs[i].tip) : i \in DOMAIN refs},
   protect |-> protect,
   odb |-> UNION {Objects(o) : o \in leftovers \cup {refs[i].id : i \in DOMAIN refs}
                                          \cup {refs[i].tip : i \in DOMAIN refs}}]

(* A line of three: the tip shares its dirty tree with the root, the middle *)
(* commit is clean and signed, so only its parent makes it change.          *)
A == Commit("a", FALSE, "x1", <<>>)
B == Commit("b", TRUE, "x0", <<A>>)
C == Commit("c", FALSE, "x1", <<B>>)
D == Commit("d", FALSE, "y1", <<C>>)
V1 == Tag("v1", B)
V2 == Tag("v2", V1)
W == Tag("w", V1)

Lines(protect) ==
  {Run(<<DirectRef(C)>>, protect, {}),
   Run(<<DirectRef(D), DirectRef(A)>>, protect, {}),
   Run(<<DirectRef(B), TagRef(V2, B), TagRef(V1, B), TagRef(W, B)>>, protect, {}),
   Run(<<TagRef(Tag("t", C), C), TagRef(V2, B)>>, protect, {})}

(* A merge of two commits that differ in filtered files only and become    *)
(* one commit; a third branch; a signed clean root that stays as it is.    *)
R  == Commit("r", TRUE, "y0", <<>>)
X1 == Commit("x", FALSE, "x1", <<R>>)
X2 == Commit("x", FALSE, "x2", <<R>>)
X3 == Commit("z", FALSE, "x2", <<R>>)
M  == Commit("m", FALSE, "y1", <<X1, X2>>)
N  == Commit("n", FALSE, "x0", <<M, X3>>)

Merges(protect) ==
  {Run(<<DirectRef(M), TagRef(Tag("r", R), R)>>, protect, {}),
   Run(<<DirectRef(N), DirectRef(X1)>>, protect, {}),
   Run(<<DirectRef(X3), DirectRef(M), DirectRef(X2)>>, protect, {})}

(* What an earlier run made of the line, without protection. *)
A0 == Commit("a", FALSE, "x0", <<>>)
B0 == Commit("b", FALSE, "x0", <<A0>>)
C0 == Commit("c", FALSE, "x0", <<B0>>)

C1 == Commit("c", FALSE, "x1", <<B0>>)  \* C, when the tip was protected

(* The earlier run moved one of the refs only, or died between its packs,  *)
(* or was followed by a commit on top of the old branch.                   *)
Reruns(protect) ==
  {Run(<<DirectRef(C), DirectRef(B0)>>, protect, {}),
   Run(<<DirectRef(C0), TagRef(V1, B)>>, protect, {}),
   Run(<<TagRef(V1, B), DirectRef(C)>>, protect, {B0}),
   Run(<<DirectRef(Commit("d", FALSE, "y1", <<C, C0>>))>>, protect, {}),
   Run(<<DirectRef(C), DirectRef(Commit("e", FALSE, "y1", <<C1>>))>>, protect, {})}

(* The ref moved between classify_ref and bbfg_lookup_ref_commit: forward  *)
(* on its branch, to a commit that does not contain the tagged one, from a *)
(* branch to a tag; and a tag that peels to no commit at all.              *)
Torn(protect) ==
  {Run(<<TagRef(V1, C)>>, protect, {}),
   Run(<<TagRef(V1, A), DirectRef(A)>>, protect, {}),
   Run(<<[kind |-> "direct", id |-> A, tip |-> B]>>, protect, {}),
   Run(<<TagRef(Tag("b", BlobObject), A)>>, protect, {})}

MCRuns ==
  UNION {Lines(p) \cup Merges(p) \cup Reruns(p) \cup Torn(p) : p \in BOOLEAN}
=============================================================================
