----------------------------- MODULE AccessControl -----------------------------
(******************************************************************************)
(* The RBAC engine (internal/rbac/rbac.go): Check, which every tool handler    *)
(* calls with the tool's name, the paths of the call and the JWT payload       *)
(* before it does anything else.  One turn of a loop is one action.            *)
(******************************************************************************)
EXTENDS PathGlob, FiniteSets

CONSTANTS
  Conditions,  (* CEL expressions of the rules' "when"                        *)
  RuleSets,    (* lists of rules to configure                                 *)
  Targets,     (* absolute paths that calls name                              *)
  NoPayload    (* no JWT: validation is off                                   *)

Categories == {"read", "write", "exec"}
Rule == [when : SUBSET Conditions, paths : SUBSET Seq({Star, Slash, "u", "v"}),
         operations : SUBSET Categories]

ASSUME AccessControlAssumption ==
  /\ RuleSets \subseteq Seq(Rule)
  /\ \A t \in Targets : t # <<>> /\ Head(t) = Slash
  /\ NoPayload \notin [Conditions -> {"true", "false", "error"}]

ReadTools  == {"ls", "read_file", "search", "diff"}
WriteTools == {"write_file", "edit_file", "undo"}
ExecTools  == {"exec", "process_status", "process_kill"}

(* Variant: undo is left out of the table.                                    *)
CategoryWithoutUndo ==
  [t \in ReadTools \cup (WriteTools \ {"undo"}) \cup ExecTools |->
     CASE t \in ReadTools -> "read" [] t \in WriteTools -> "write" [] OTHER -> "exec"]

operationCategory ==
  [t \in ReadTools \cup WriteTools \cup ExecTools |->
     CASE t \in ReadTools -> "read" [] t \in WriteTools -> "write" [] OTHER -> "exec"]
pathFreeTools == {"system_info", "scratch"}

(* The paths a handler passes: diff two, the process tools none, others one.   *)
Tools == DOMAIN operationCategory \cup pathFreeTools \cup {"other"}
PathLists(t) ==
  CASE t = "diff" -> {<<p, q>> : p, q \in Targets}
    [] t \in {"process_status", "process_kill"} \cup pathFreeTools -> {<<>>}
    [] OTHER -> {<<p>> : p \in Targets}

VARIABLES
  policy,   (* the configuration: enabled, fallback (default_policy), rules   *)
  request,  (* arguments of Check                                            *)
  pc, path, rule,   (* where Check is, and the two loop indices               *)
  verdict

vars == <<policy, request, pc, path, rule, verdict>>

(* What the conditions find in a verified payload.                             *)
Payloads == [Conditions -> {"true", "false", "error"}] \cup {NoPayload}
ToolCalls ==
  UNION {[tool : {t}, paths : PathLists(t), payload : Payloads] : t \in Tools}

PolicyInit ==
  \/ policy \in [enabled : {TRUE}, fallback : {"allow", "deny"}, rules : RuleSets]
  \/ policy \in [enabled : {FALSE}, fallback : {"deny"}, rules : {<<>>}]

Init ==
  /\ PolicyInit
  /\ request \in ToolCalls
  /\ pc = "check" /\ path = 1 /\ rule = 1 /\ verdict = "none"

Decide(v) == verdict' = v /\ pc' = "end" /\ UNCHANGED <<path, rule>>

Check ==
  /\ pc = "check"
  /\ \/ /\ ~policy.enabled \/ request.tool \in pathFreeTools
        /\ Decide("allow")
     \/ /\ policy.enabled
        /\ request.tool \notin pathFreeTools \cup DOMAIN operationCategory
        /\ Decide("deny")
     \/ /\ policy.enabled
        /\ request.tool \in DOMAIN operationCategory
        /\ pc' = "path"
        /\ UNCHANGED <<path, rule, verdict>>
  /\ UNCHANGED <<policy, request>>

NextPath ==
  /\ pc = "path"
  /\ \/ /\ path > Len(request.paths)
        /\ Decide("allow")
     \/ /\ path <= Len(request.paths)
        /\ pc' = "rule" /\ rule' = 1
        /\ UNCHANGED <<path, verdict>>
  /\ UNCHANGED <<policy, request>>

(* Conditions are all true; one that fails to evaluate is not.                 *)
matchesWhen(r, payload) ==
  \/ r.when = {}
  \/ payload # NoPayload /\ \A c \in r.when : payload[c] = "true"
matchesPath(r, p)       == \E g \in r.paths : matchGlob(g, p)
matchesOperation(r, op) == op \in r.operations

(* Variants: the first allowed path allows the call; a path is skipped.        *)
FirstPathAllows == Decide("allow")
PathSkipped     == pc' = "path" /\ path' = path + 2 /\ UNCHANGED <<rule, verdict>>

PathAllowed == pc' = "path" /\ path' = path + 1 /\ UNCHANGED <<rule, verdict>>

(* One turn of checkPath's loop: a rule that does not grant is passed over.    *)
TryRule ==
  /\ pc = "rule" /\ rule <= Len(policy.rules)
  /\ LET r == policy.rules[rule]
         grants == /\ matchesWhen(r, request.payload)
                   /\ matchesPath(r, request.paths[path])
                   /\ matchesOperation(r, operationCategory[request.tool])
     IN  \/ grants /\ PathAllowed
         \/ ~grants /\ rule' = rule + 1 /\ UNCHANGED <<pc, path, verdict>>
  /\ UNCHANGED <<policy, request>>

DefaultPolicy ==
  /\ pc = "rule" /\ rule > Len(policy.rules)
  /\ \/ policy.fallback = "allow" /\ PathAllowed
     \/ policy.fallback # "allow" /\ Decide("deny")
  /\ UNCHANGED <<policy, request>>

Next == Check \/ NextPath \/ TryRule \/ DefaultPolicy
Spec == Init /\ [][Next]_vars

-------------------------------------------------------------------------------
(* Every variable keeps to its type; the loop indices end one past the lists.   *)
TypeOK ==
  /\ pc \in {"check", "path", "rule", "end"}
  /\ verdict \in {"none", "allow", "deny"}
  /\ path \in 1..(Len(request.paths) + 1)
  /\ rule \in 1..(Len(policy.rules) + 1)

Applies(r, p) == matchesWhen(r, request.payload) /\ matchesPath(r, p)
Category      == operationCategory[request.tool]
RulesAsSet    == ToSet(policy.rules)
Restricted    == policy.enabled /\ request.tool \in DOMAIN operationCategory

(* A call that names paths is allowed exactly when every one of them is, by     *)
(* whatever rule or by the default policy: the rules are a set, their order     *)
(* and duplicates do not count, and one refused path refuses the call.         *)
VerdictIsUnionOfRules ==
  pc = "end" /\ Restricted =>
    (verdict = "allow" <=>
       \A p \in ToSet(request.paths) :
         \/ policy.fallback = "allow"
         \/ \E r \in RulesAsSet : Applies(r, p) /\ matchesOperation(r, Category))

(* "Rules are evaluated in order -- first match wins" (README.md:52): the first *)
(* rule that applies to the identity and the path decides.                     *)
FirstMatchWins ==
  pc = "end" /\ Restricted /\ Len(request.paths) = 1 =>
    LET p == request.paths[1]
        First(i) == /\ Applies(policy.rules[i], p)
                    /\ \A j \in 1..(i - 1) : ~Applies(policy.rules[j], p)
    IN  \A i \in DOMAIN policy.rules :
          First(i) =>
            (verdict = "allow" <=> matchesOperation(policy.rules[i], Category))

(* "`/**` suffix matches everything recursively" (README.md:97), said without    *)
(* matchGlob.  A call is not refused when each of its paths lies below a folder *)
(* that a rule which grants names before "/**", at any depth; a wildcard before *)
(* "/**" is the exception (rbac.go:177).  And where the default policy is "deny" *)
(* no path is granted that does not begin as a pattern of a rule that grants    *)
(* does, up to its first wildcard.                                             *)
Below(g, p) ==
  /\ IsSuffix(DeepSuffix, g) /\ Star \notin ToSet(Trimmed(g))
  /\ IsPrefix(Append(Trimmed(g), Slash), p)
Reaches(g, p) ==
  \E n \in 0..Len(g) :
    /\ IsPrefix(SubSeq(g, 1, n), p)
    /\ SubSeq(g, n + 1, Len(g)) \in {<<>>, DeepSuffix} \/ g[n + 1] = Star
PatternReach ==
  pc = "end" /\ Restricted =>
    LET Patterns == UNION {r.paths : r \in {q \in RulesAsSet :
          matchesWhen(q, request.payload) /\ matchesOperation(q, Category)}}
    IN  /\ verdict = "deny" =>
             \E p \in ToSet(request.paths) : \A g \in Patterns : ~Below(g, p)
        /\ verdict = "allow" /\ policy.fallback = "deny" =>
             \A p \in ToSet(request.paths) : \E g \in Patterns : Reaches(g, p)
===============================================================================
