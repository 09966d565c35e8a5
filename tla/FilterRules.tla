---------------------------- MODULE FilterRules -----------------------------
(***************************************************************************)
(* The rules of a BbfgFilter (src/src/filter.h), as the command line makes *)
(* them and the tree filter reads them.                                    *)
(***************************************************************************)

DeletePath(path) == [kind |-> "path", path |-> path]
DeleteFilename(name) == [kind |-> "filename", name |-> name]
DeleteLargeBlob(max) == [kind |-> "large", max |-> max]
=============================================================================
