-------------------------------- MODULE PathGlob --------------------------------
(******************************************************************************)
(* The path patterns of RBAC rules (matchGlob, internal/rbac/rbac.go).         *)
(* Patterns and paths are sequences of characters, because what a pattern      *)
(* matches is decided character by character.  Character classes, "?" and      *)
(* escapes are left out.                                                       *)
(******************************************************************************)
EXTENDS Naturals, Sequences, SequencesExt

Star  == "*"
Slash == "/"
DeepSuffix == <<Slash, Star, Star>>

(* filepath.Match: a star stands for any run of characters without a slash.    *)
Match(pattern, name) ==
  LET m[i \in 1..(Len(pattern) + 1), j \in 1..(Len(name) + 1)] ==
        IF i > Len(pattern) THEN j > Len(name)
        ELSE IF pattern[i] = Star
             THEN \/ m[i + 1, j]
                  \/ j <= Len(name) /\ name[j] # Slash /\ m[i, j + 1]
             ELSE j <= Len(name) /\ name[j] = pattern[i] /\ m[i + 1, j + 1]
  IN  m[1, 1]

Trimmed(pattern) == SubSeq(pattern, 1, Len(pattern) - Len(DeepSuffix))

(* Variant: the suffix is two stars like any other.                            *)
MatchOnly(pattern, path) == Match(pattern, path)

matchGlob(pattern, path) ==
  \/ IsSuffix(DeepSuffix, pattern) /\ IsPrefix(Trimmed(pattern), path)
  \/ Match(pattern, path)
===============================================================================
