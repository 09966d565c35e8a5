---------------------------- MODULE MCTreeFilter ----------------------------
(***************************************************************************)
(* All trees of depth two over two names, with blobs at and above the size *)
(* limit, a gitlink and empty directories; chains of directories of depth  *)
(* three; and all filters of one or two rules over paths that are plain,   *)
(* nested, end or begin with a slash, or hold two.                         *)
(***************************************************************************)
EXTENDS TreeFilter, TLC

MCNames == {"a", "b"}
MCSizes == {1, 2}
Flat == TreesUpTo[0]
Deep == TreesOver({Blob(1), Blob(2)} \cup {Subtree(t) : t \in Flat})
Chains ==
  {[n \in {"a"} |-> Subtree(t)] : t \in TreesOver({Blob(2), Subtree("b" :> Blob(2)), Subtree(EmptyTree)})}
MCOriginals == Deep \cup Chains

MCRules ==
  {DeletePath(p) : p \in {<<"a">>, <<"a", "b">>, <<"a", "">>, <<"", "a">>, <<"a", "", "b">>,
                          <<"a", "b", "">>, <<"a", "a", "b">>}}
    \cup {DeleteFilename("b"), DeleteLargeBlob(1)}
MCFilters == {<<r>> : r \in MCRules} \cup {<<r, s>> : r, s \in MCRules}
=============================================================================
