----------------------------- MODULE MCFileStore -----------------------------
(* Two daemons on one directory with a writer each, one of them with a     *)
(* reader; two temporary files, so that a file is replaced or two writes   *)
(* are under way at once and one is left over.                             *)
EXTENDS FileStore

MCOwner == [x \in Writers \cup Readers |-> IF x = "w2" THEN "d2" ELSE "d1"]
=============================================================================
