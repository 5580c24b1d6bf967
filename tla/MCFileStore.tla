------------------------------ MODULE MCFileStore ------------------------------
(* FileStore for TLC: contents of at most two tokens, and edits whose old_text *)
(* occurs once, occurs twice, does not occur, or is empty.                    *)
EXTENDS FileStore, TLC

CONSTANTS a, b, c1, c2, p1, p2

FewTexts == {<<a>>, <<b, b>>}
OneText  == {<<a, b>>}

Replace(x, y)    == [old |-> x, new |-> y, all |-> FALSE]
ReplaceAll(x, y) == [old |-> x, new |-> y, all |-> TRUE]

FewBatches == {<<Replace(a, b), Replace(b, a)>>,
               <<ReplaceAll(b, a), Replace(NoText, a)>>}
OneBatch   == {<<Replace(a, b), Replace(NoText, a)>>}

Symmetry == Permutations(Calls) \cup Permutations(Paths)
===============================================================================
