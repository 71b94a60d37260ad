---------------------------- MODULE MCNamespace ----------------------------
(* Namespace for TLC: two names, one of one byte and one of five, so that  *)
(* a 40-byte block holds ".", ".." and one short entry and a long name    *)
(* takes a second block, and every path of lsfs_dir_add is taken.         *)
EXTENDS Namespace, TLC

MCNames == {"a", "b"}

MCNameLen == ("." :> 1) @@ (".." :> 2) @@ ("a" :> 1) @@ ("b" :> 5)

=============================================================================
