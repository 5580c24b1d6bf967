-------------------------- MODULE MCLastModification --------------------------
(* LastModification for TLC, with the constants of MCFileStore.               *)
EXTENDS MCFileStore, LastModification
===============================================================================
