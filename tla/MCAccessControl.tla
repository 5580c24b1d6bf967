---------------------------- MODULE MCAccessControl ----------------------------
(* AccessControl for TLC: lists of at most two rules over a wildcard, a subtree *)
(* and a subtree below a wildcard, one condition, and targets in and outside.  *)
EXTENDS AccessControl

CONSTANTS admin

Wild    == <<"/", "u", "/", "*">>
Subtree == <<"/", "v", "/", "*", "*">>
Mixed   == <<"/", "*", "/", "v", "/", "*", "*">>

MCRule ==
  [when : {{}, {admin}}, paths : {{Wild}, {Subtree}, {Wild, Mixed}},
   operations : {{"read"}, {"write"}, {"read", "exec"}}]
MCRuleSets == {<<>>} \cup {<<r>> : r \in MCRule} \cup {<<r, s>> : r, s \in MCRule}

MCTargets ==
  {<<"/", "u", "/", "v">>, <<"/", "v", "/", "u">>, <<"/", "u">>,
   <<"/", "v", "/", "u", "/", "u">>, <<"/", "u", "/", "v", "/", "u">>, <<"/", "u", "/", "v", "/", "u", "/", "u">>}
===============================================================================
