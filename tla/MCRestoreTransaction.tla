------------------------ MODULE MCRestoreTransaction ------------------------
(* A small instance of RestoreTransaction: two file contents that refer to  *)
(* different attachment objects, and a bounded number of faults.            *)
EXTENDS RestoreTransaction, TLC

CONSTANTS c1, c2, o1, o2, o3

MCRefs == (c1 :> {o1, o2}) @@ (c2 :> {o2, o3})
MCRefs1 == c1 :> {o1, o2}
=============================================================================
