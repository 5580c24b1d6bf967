---------------------------- MODULE MCScratchStore ----------------------------
(* ScratchStore for TLC.                                                      *)
EXTENDS ScratchStore

CONSTANTS c1, c2, c3, x, y, v
===============================================================================
