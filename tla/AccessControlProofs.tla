-------------------------- MODULE AccessControlProofs -------------------------
(******************************************************************************)
(* The verdict of the RBAC engine for any rules, conditions, calls and          *)
(* payloads: the two loops of Check come to the same as the union of the rules. *)
(******************************************************************************)
EXTENDS AccessControl, SequenceTheorems, TLAPS

(* What the configuration says of a path of this call, the loops left out.     *)
Grants(r, p) == Applies(r, p) /\ matchesOperation(r, Category)
Allowed(p)   == policy.fallback = "allow" \/ \E r \in RulesAsSet : Grants(r, p)

(* The configuration and the arguments of Check are lists.                     *)
Lists == request.paths \in Seq(Targets) /\ policy.rules \in Seq(Rule)

(* The paths before the present one are allowed, by a rule or by default; the   *)
(* rules before the present one do not grant the present path.                 *)
PathsSoFar ==
  /\ pc = "check" => path = 1
  /\ pc \in {"path", "rule"} =>
       Restricted /\ \A i \in 1..(path - 1) : Allowed(request.paths[i])
RulesSoFar ==
  pc = "rule" =>
    /\ path <= Len(request.paths)
    /\ \A i \in 1..(rule - 1) : ~Grants(policy.rules[i], request.paths[path])

(* A verdict is given at the end, and is the one that the rules give; where     *)
(* they say nothing, unknown tools alone are refused.                          *)
VerdictAtEnd ==
  /\ pc = "end" <=> verdict # "none"
  /\ pc = "end" /\ ~Restricted =>
       (verdict = "allow" <=> ~policy.enabled \/ request.tool \in pathFreeTools)
  /\ pc = "end" /\ Restricted =>
       \/ verdict = "allow" /\ \A i \in 1..Len(request.paths) : Allowed(request.paths[i])
       \/ verdict = "deny" /\ \E i \in 1..Len(request.paths) : ~Allowed(request.paths[i])

ACInv == TypeOK /\ Lists /\ PathsSoFar /\ RulesSoFar /\ VerdictAtEnd

-------------------------------------------------------------------------------
LEMMA PathListsAreLists ==
  ASSUME NEW t, NEW l \in PathLists(t)
  PROVE  l \in Seq(Targets)
<1>1. CASE t = "diff"
  <2>1. PathLists(t) = {<<p, q>> : p, q \in Targets}
    BY <1>1 DEF PathLists, pathFreeTools
  <2>2. PICK p \in Targets, q \in Targets : l = <<p, q>>
    BY <2>1
  <2> QED
    BY <2>2
<1>2. CASE t # "diff" /\ t \in {"process_status", "process_kill"} \cup pathFreeTools
  <2>1. PathLists(t) = {<<>>}
    BY <1>2 DEF PathLists
  <2> QED
    BY <2>1, EmptySeq
<1>3. CASE t # "diff" /\ t \notin {"process_status", "process_kill"} \cup pathFreeTools
  <2>1. PathLists(t) = {<<p>> : p \in Targets}
    BY <1>3 DEF PathLists
  <2>2. PICK p \in Targets : l = <<p>>
    BY <2>1
  <2> QED
    BY <2>2
<1> QED
  BY <1>1, <1>2, <1>3

LEMMA ACInvInit == Init => ACInv
<1> SUFFICES ASSUME Init PROVE ACInv
  OBVIOUS
<1>1. request.paths \in Seq(Targets)
  <2>1. \E t \in Tools : request \in [tool : {t}, paths : PathLists(t), payload : Payloads]
    BY DEF Init, ToolCalls
  <2> QED
    BY <2>1, PathListsAreLists
<1>2. policy.rules \in Seq(Rule)
  BY AccessControlAssumption, EmptySeq DEF Init, PolicyInit
<1>3. Len(request.paths) \in Nat /\ Len(policy.rules) \in Nat
  BY <1>1, <1>2, LenProperties
<1>4. TypeOK
  BY <1>3 DEF Init, TypeOK
<1>5. PathsSoFar /\ RulesSoFar /\ VerdictAtEnd
  BY DEF Init, PathsSoFar, RulesSoFar, VerdictAtEnd
<1> QED
  BY <1>1, <1>2, <1>4, <1>5 DEF ACInv, Lists

(* The configuration and the call do not change, so neither does what they     *)
(* allow.                                                                     *)
LEMMA SameQuestion ==
  ASSUME ACInv, UNCHANGED <<policy, request>>
  PROVE  /\ Lists' /\ (Restricted' <=> Restricted)
         /\ \A p : Allowed(p)' <=> Allowed(p)
         /\ \A r, p : Grants(r, p)' <=> Grants(r, p)
         /\ Len(request.paths) \in Nat /\ Len(policy.rules) \in Nat
<1>1. Lists' /\ Len(request.paths) \in Nat /\ Len(policy.rules) \in Nat
  BY LenProperties DEF ACInv, Lists
<1>2. Restricted' <=> Restricted
  BY DEF Restricted
<1>3. \A r, p : Grants(r, p)' <=> Grants(r, p)
  BY DEF Grants, Applies, Category
<1>4. \A p : Allowed(p)' <=> Allowed(p)
  BY <1>3 DEF Allowed, RulesAsSet
<1> QED
  BY <1>1, <1>2, <1>3, <1>4

-------------------------------------------------------------------------------
LEMMA ACInvCheck == ACInv /\ Check => ACInv'
<1> SUFFICES ASSUME ACInv, Check PROVE ACInv'
  OBVIOUS
<1>1. UNCHANGED <<policy, request, path, rule>> /\ pc = "check" /\ path = 1
  BY DEF Check, Decide, ACInv, PathsSoFar
<1>2. /\ Lists' /\ (Restricted' <=> Restricted)
      /\ \A p : Allowed(p)' <=> Allowed(p)
  BY <1>1, SameQuestion
<1>3. TypeOK'
  BY <1>1 DEF Check, Decide, ACInv, TypeOK
<1>4. \/ pc' = "path" /\ Restricted /\ verdict' = verdict
      \/ /\ pc' = "end" /\ ~Restricted /\ verdict' # "none"
         /\ verdict' = "allow" <=> ~policy.enabled \/ request.tool \in pathFreeTools
  BY DEF Check, Decide, Restricted, pathFreeTools, operationCategory,
         ReadTools, WriteTools, ExecTools
<1>5. PathsSoFar' /\ RulesSoFar' /\ VerdictAtEnd'
  BY <1>1, <1>2, <1>4 DEF ACInv, PathsSoFar, RulesSoFar, VerdictAtEnd
<1> QED
  BY <1>2, <1>3, <1>5 DEF ACInv

LEMMA ACInvNextPath == ACInv /\ NextPath => ACInv'
<1> SUFFICES ASSUME ACInv, NextPath PROVE ACInv'
  OBVIOUS
<1>1. UNCHANGED <<policy, request, path>> /\ pc = "path"
  BY DEF NextPath, Decide
<1>2. /\ Lists' /\ (Restricted' <=> Restricted)
      /\ \A p : Allowed(p)' <=> Allowed(p)
      /\ \A r, p : Grants(r, p)' <=> Grants(r, p)
      /\ Len(request.paths) \in Nat /\ Len(policy.rules) \in Nat
  BY <1>1, SameQuestion
<1>3. Restricted /\ \A i \in 1..(path - 1) : Allowed(request.paths[i])
  BY <1>1 DEF ACInv, PathsSoFar
<1>4. path \in 1..(Len(request.paths) + 1) /\ rule \in 1..(Len(policy.rules) + 1)
  BY DEF ACInv, TypeOK
<1>5. CASE path > Len(request.paths) /\ Decide("allow")
  <2>1. TypeOK'
    BY <1>1, <1>5 DEF Decide, ACInv, TypeOK
  <2>2. \A i \in 1..Len(request.paths) : Allowed(request.paths[i])
    BY <1>2, <1>3, <1>4, <1>5
  <2>3. PathsSoFar' /\ RulesSoFar' /\ VerdictAtEnd'
    BY <1>1, <1>2, <1>3, <1>5, <2>2 DEF Decide, PathsSoFar, RulesSoFar, VerdictAtEnd
  <2> QED
    BY <1>2, <2>1, <2>3 DEF ACInv
<1>6. CASE path <= Len(request.paths) /\ pc' = "rule" /\ rule' = 1 /\ UNCHANGED <<path, verdict>>
  <2>1. TypeOK'
    BY <1>1, <1>2, <1>6 DEF ACInv, TypeOK
  <2>2. PathsSoFar' /\ VerdictAtEnd'
    BY <1>1, <1>2, <1>3, <1>6 DEF ACInv, PathsSoFar, VerdictAtEnd
  <2>3. RulesSoFar'
    BY <1>1, <1>6 DEF RulesSoFar
  <2> QED
    BY <1>2, <2>1, <2>2, <2>3 DEF ACInv
<1> QED
  BY <1>5, <1>6 DEF NextPath

(* An allowed path is left behind, whoever allowed it.                          *)
LEMMA ACInvPathAllowed ==
  ASSUME ACInv, pc = "rule", PathAllowed, UNCHANGED <<policy, request>>,
         Allowed(request.paths[path])
  PROVE  ACInv'
<1>1. /\ Lists' /\ (Restricted' <=> Restricted)
      /\ \A p : Allowed(p)' <=> Allowed(p)
      /\ Len(request.paths) \in Nat /\ Len(policy.rules) \in Nat
  BY SameQuestion
<1>2. Restricted /\ \A i \in 1..(path - 1) : Allowed(request.paths[i])
  BY DEF ACInv, PathsSoFar
<1>3. path \in 1..Len(request.paths) /\ pc' = "path" /\ path' = path + 1
  BY <1>1 DEF ACInv, TypeOK, RulesSoFar, PathAllowed
<1>4. TypeOK'
  BY <1>1, <1>3 DEF ACInv, TypeOK, PathAllowed
<1>5. \A i \in 1..(path' - 1) : Allowed(request.paths[i])
  BY <1>1, <1>2, <1>3
<1>6. PathsSoFar' /\ RulesSoFar' /\ VerdictAtEnd'
  BY <1>1, <1>2, <1>3, <1>5 DEF ACInv, PathAllowed, PathsSoFar, RulesSoFar, VerdictAtEnd
<1> QED
  BY <1>1, <1>4, <1>6 DEF ACInv

LEMMA ACInvTryRule == ACInv /\ TryRule => ACInv'
<1> SUFFICES ASSUME ACInv, TryRule PROVE ACInv'
  OBVIOUS
<1>1. UNCHANGED <<policy, request>> /\ pc = "rule" /\ rule <= Len(policy.rules)
  BY DEF TryRule
<1>2. /\ Lists' /\ (Restricted' <=> Restricted)
      /\ \A p : Allowed(p)' <=> Allowed(p)
      /\ \A r, p : Grants(r, p)' <=> Grants(r, p)
      /\ Len(request.paths) \in Nat /\ Len(policy.rules) \in Nat
  BY <1>1, SameQuestion
<1>3. rule \in 1..Len(policy.rules)
  BY <1>1, <1>2 DEF ACInv, TypeOK
<1>4. CASE Grants(policy.rules[rule], request.paths[path])
  <2>1. PathAllowed
    BY <1>4 DEF TryRule, Grants, Applies, Category
  <2>2. policy.rules[rule] \in RulesAsSet
    BY <1>3, LenProperties DEF RulesAsSet, ToSet, ACInv, Lists
  <2>3. Allowed(request.paths[path])
    BY <1>4, <2>2 DEF Allowed
  <2> QED
    BY <1>1, <2>1, <2>3, ACInvPathAllowed
<1>5. CASE ~Grants(policy.rules[rule], request.paths[path])
  <2>1. rule' = rule + 1 /\ UNCHANGED <<pc, path, verdict>>
    BY <1>5 DEF TryRule, Grants, Applies, Category
  <2>2. TypeOK'
    BY <1>1, <1>2, <1>3, <2>1 DEF ACInv, TypeOK
  <2>3. PathsSoFar' /\ VerdictAtEnd'
    BY <1>1, <1>2, <2>1 DEF ACInv, PathsSoFar, VerdictAtEnd
  <2>4. \A i \in 1..(rule' - 1) : ~Grants(policy.rules[i], request.paths[path])
    BY <1>1, <1>3, <1>5, <2>1 DEF ACInv, RulesSoFar
  <2>5. RulesSoFar'
    BY <1>1, <1>2, <2>1, <2>4 DEF ACInv, RulesSoFar
  <2> QED
    BY <1>2, <2>2, <2>3, <2>5 DEF ACInv
<1> QED
  BY <1>4, <1>5

LEMMA ACInvDefaultPolicy == ACInv /\ DefaultPolicy => ACInv'
<1> SUFFICES ASSUME ACInv, DefaultPolicy PROVE ACInv'
  OBVIOUS
<1>1. UNCHANGED <<policy, request>> /\ pc = "rule" /\ rule > Len(policy.rules)
  BY DEF DefaultPolicy
<1>2. CASE policy.fallback = "allow"
  BY <1>1, <1>2, ACInvPathAllowed DEF DefaultPolicy, Allowed
<1>3. CASE policy.fallback # "allow"
  <2>1. Decide("deny")
    BY <1>3 DEF DefaultPolicy
  <2>2. /\ Lists' /\ (Restricted' <=> Restricted)
        /\ \A p : Allowed(p)' <=> Allowed(p)
        /\ Len(request.paths) \in Nat /\ Len(policy.rules) \in Nat
    BY <1>1, SameQuestion
  <2>3. path \in 1..Len(request.paths)
    BY <1>1, <2>2 DEF ACInv, TypeOK, RulesSoFar
  <2>4. \A i \in 1..Len(policy.rules) : ~Grants(policy.rules[i], request.paths[path])
    BY <1>1, <2>2 DEF ACInv, TypeOK, RulesSoFar
  <2>5. ~Allowed(request.paths[path])
    BY <1>3, <2>4, LenProperties DEF Allowed, RulesAsSet, ToSet, ACInv, Lists
  <2>6. TypeOK'
    BY <1>1, <2>1 DEF Decide, ACInv, TypeOK
  <2>7. PathsSoFar' /\ RulesSoFar' /\ VerdictAtEnd'
    BY <1>1, <2>1, <2>2, <2>3, <2>5 DEF Decide, ACInv, PathsSoFar, RulesSoFar, VerdictAtEnd
  <2> QED
    BY <2>2, <2>6, <2>7 DEF ACInv
<1> QED
  BY <1>2, <1>3

(* What the two loops have left behind, and the verdict they come to.          *)
THEOREM ACInvariant == Spec => []ACInv
<1>1. Init => ACInv
  BY ACInvInit
<1>2. ACInv /\ [Next]_vars => ACInv'
  <2> SUFFICES ASSUME ACInv, [Next]_vars PROVE ACInv'
    OBVIOUS
  <2>1. CASE Next
    BY <2>1, ACInvCheck, ACInvNextPath, ACInvTryRule, ACInvDefaultPolicy DEF Next
  <2>2. CASE UNCHANGED vars
    BY <2>2, SameQuestion
       DEF vars, ACInv, TypeOK, PathsSoFar, RulesSoFar, VerdictAtEnd
  <2> QED
    BY <2>1, <2>2
<1> QED
  BY <1>1, <1>2, PTL DEF Spec

(* Every variable keeps to its type, and the two loops of Check stay within the *)
(* lists of paths and rules (rbac.go:89-137).                                    *)
THEOREM TypeCorrect == Spec => []TypeOK
<1>1. ACInv => TypeOK
  BY DEF ACInv
<1> QED
  BY <1>1, ACInvariant, PTL

(* Whatever the rules, their order and duplicates, the conditions and the call, *)
(* Check allows it exactly when every path of it is granted by some rule or by  *)
(* the default policy (rbac.go:89-165).                                         *)
THEOREM VerdictIsTheUnion == Spec => []VerdictIsUnionOfRules
<1>1. ACInv => VerdictIsUnionOfRules
  <2> SUFFICES ASSUME ACInv, pc = "end", Restricted
               PROVE  verdict = "allow" <=> \A p \in ToSet(request.paths) : Allowed(p)
    BY DEF VerdictIsUnionOfRules, Allowed, Grants
  <2>1. DOMAIN request.paths = 1..Len(request.paths)
    BY LenProperties DEF ACInv, Lists
  <2> QED
    BY <2>1 DEF ACInv, VerdictAtEnd, ToSet
<1> QED
  BY <1>1, ACInvariant, PTL
===============================================================================
