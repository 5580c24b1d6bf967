----------------------------- MODULE MCFileHistory -----------------------------
(* FileHistory for TLC, with the constants of MCFileStore.                    *)
EXTENDS MCFileStore, FileHistory
===============================================================================
