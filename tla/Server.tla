--------------------------------- MODULE Server ---------------------------------
(******************************************************************************)
(* A request on its way through the whole server, as cmd/main.go puts it       *)
(* together: the HTTP transport with the JWT validation before it, or stdio     *)
(* without; the payload in the request's context; the tool that AddTools has   *)
(* registered; and RBAC.Check with that payload, before the tool does anything. *)
(*                                                                            *)
(* JwtValidation is extended, with its worker and provider running beside the   *)
(* requests; the RBAC engine is an instance of AccessControl.  One request is   *)
(* served at a time: the context and the locals of Check are its own, and the   *)
(* engine keeps no state.                                                     *)
(******************************************************************************)
EXTENDS JwtValidation

CONSTANTS
  Rules,       (* expressions of the rules' "when"                            *)
  RuleSets,
  Targets,
  ClientCalls  (* tools and paths that clients name in their requests         *)

VARIABLES
  transport,   (* server.transport.type: "http" or anything else, for stdio    *)
  bearer,      (* whose token the tool call came with                         *)
  call,        (* arguments of RBAC.Check                                     *)
  policy, pc, path, rule, verdict

Rbac == INSTANCE AccessControl WITH Conditions <- Rules, request <- call

rbacVars   == <<call, policy, pc, path, rule, verdict>>
serverVars == <<vars, transport, bearer, rbacVars>>

(* AddTools.                                                                   *)
Registered ==
  {"system_info", "ls", "read_file", "write_file", "edit_file", "search",
   "diff", "exec", "process_status", "process_kill", "undo", "scratch"}

(* The engine's assumptions for the instance, claims that the engine can read,  *)
(* and calls of registered tools.                                             *)
ASSUME ServerAssumption ==
  /\ RuleSets \subseteq Seq(Rbac!Rule)
  /\ \A t \in Targets : t # <<>> /\ Head(t) = Rbac!Slash
  /\ NoPayload \notin [Rules -> {"true", "false", "error"}]
  /\ Claims \subseteq Rbac!Payloads \ {NoPayload}
  /\ \A c \in ClientCalls :
       c.tool \in Registered /\ c.paths \in Rbac!PathLists(c.tool)

NoCall == [tool |-> "other", paths |-> <<>>, payload |-> NoPayload]

ServerInit ==
  /\ Init
  /\ transport \in {"http", "stdio"}
  /\ bearer = NoHeader /\ call = NoCall
  /\ Rbac!PolicyInit
  /\ pc = "off" /\ path = 1 /\ rule = 1 /\ verdict = "none"

-------------------------------------------------------------------------------
(* An HTTP request with token t comes in; its body is read after validation.    *)
Receive(h, t) ==
  /\ transport = "http"
  /\ pc = "off"
  /\ Arrive(h, t)
  /\ UNCHANGED <<transport, bearer, rbacVars>>

(* handler: the tool call c runs the handler that AddTools registered for it.   *)
(* system_info and scratch ask the engine nothing; the others begin with Check  *)
(* of their own name and paths, and with the payload found in the context.     *)
Handle(c, payload) ==
  /\ call' = [tool |-> c.tool, paths |-> c.paths, payload |-> payload]
  /\ path' = 1 /\ rule' = 1
  /\ \/ c.tool \in {"system_info", "scratch"} /\ pc' = "end" /\ verdict' = "allow"
     \/ c.tool \notin {"system_info", "scratch"} /\ pc' = "check" /\ verdict' = "none"

(* Variant: the payload is decoded wherever there is a token, validated or not. *)
UnverifiedPayload(h) ==
  IF request[h].token \in Tokens THEN request[h].token.claims ELSE NoPayload

ContextPayload(h) == request[h].payload

(* The MCP server takes the call out of a request that was let through; a      *)
(* request without one is simply followed by the next.                        *)
Dispatch(h) ==
  /\ pc = "off" /\ request[h].reply = "next"
  /\ \E c \in ClientCalls : Handle(c, ContextPayload(h))
  /\ bearer' = request[h].token
  /\ request' = [request EXCEPT ![h] = Blank]
  /\ UNCHANGED <<config, booted, published, worker, jwks, transport, policy>>

(* ServeStdio: the context of a call has no payload.                           *)
DispatchStdio ==
  /\ booted /\ transport # "http" /\ pc = "off"
  /\ \E c \in ClientCalls : Handle(c, NoPayload)
  /\ bearer' = NoHeader
  /\ UNCHANGED <<vars, transport, policy>>

CheckStep == Rbac!Next /\ UNCHANGED <<vars, transport, bearer>>

(* The tool runs, or answers the engine's error; the context of the call ends.  *)
Finish ==
  /\ pc = "end"
  /\ pc' = "off" /\ verdict' = "none" /\ path' = 1 /\ rule' = 1
  /\ bearer' = NoHeader /\ call' = NoCall
  /\ UNCHANGED <<vars, transport, policy>>

ServerNext ==
  \/ (Boot \/ Provider \/ Worker) /\ UNCHANGED <<transport, bearer, rbacVars>>
  \/ \E h \in Handlers :
       \/ \E t \in Tokens \cup {NoHeader, Malformed} : Receive(h, t)
       \/ Validate(h) /\ UNCHANGED <<transport, bearer, rbacVars>>
       \/ Dispatch(h)
  \/ DispatchStdio \/ CheckStep \/ Finish

ServerSpec == ServerInit /\ [][ServerNext]_serverVars /\ Fairness

-------------------------------------------------------------------------------
(* Every variable keeps to its type.                                          *)
ServerTypeOK ==
  /\ TypeOK
  /\ transport \in {"http", "stdio"}
  /\ bearer \in Tokens \cup {NoHeader, Malformed}
  /\ pc \in {"off", "check", "path", "rule", "end"}
  /\ verdict \in {"none", "allow", "deny"} /\ (pc = "end" <=> verdict # "none")
  /\ call.payload \in Claims \cup {NoPayload}
  /\ path \in 1..(Len(call.paths) + 1) /\ rule \in 1..(Len(policy.rules) + 1)

(* Who the caller has shown to be: the token's claims where tokens are          *)
(* validated, and nobody on stdio or with validation off.                      *)
Validated == transport = "http" /\ config.enabled
Shown(c) == Validated /\ bearer.claims[c] = "true"

(* What the configuration says of a path, for this caller and this tool.        *)
Granted(p) ==
  \/ policy.fallback = "allow"
  \/ \E r \in ToSet(policy.rules) :
       /\ \A c \in r.when : Shown(c)
       /\ \E g \in r.paths : Rbac!matchGlob(g, p)
       /\ Rbac!operationCategory[call.tool] \in r.operations

(* "pathFreeTools are tools that don't operate on filesystem paths"             *)
(* (rbac.go:81).                                                               *)
Unrestricted == ~policy.enabled \/ call.tool \in Rbac!pathFreeTools

(* Some rule for this caller has the tool's operation.                          *)
MayUse ==
  \/ policy.fallback = "allow"
  \/ \E r \in ToSet(policy.rules) :
       /\ \A c \in r.when : Shown(c)
       /\ Rbac!operationCategory[call.tool] \in r.operations

(* A tool runs only for a caller whose own token, where tokens are validated,   *)
(* is signed with a published key, only on paths that the rules grant to that   *)
(* caller, and only if some rule gives that caller the tool's operation: never  *)
(* on the strength of the payload of another request, of a token that was not   *)
(* verified, or of a condition nobody could have met.  Two tools name no path   *)
(* and are not asked for their operation (tool_processes.go:17), although       *)
(* README.md:60 lists them under exec.                                         *)
RunIsAuthorised ==
  pc = "end" /\ verdict = "allow" =>
    /\ Validated => \E K \in ToSet(published) : Accepts(K, bearer)
    /\ Unrestricted \/ \A p \in ToSet(call.paths) : Granted(p)
    /\ Unrestricted \/ MayUse \/ call.tool \in {"process_status", "process_kill"}

(* A tool that AddTools registers is refused only because of a path that the    *)
(* rules do not grant: the engine knows every registered tool, and the caller's *)
(* payload reaches it.                                                         *)
DenialIsJustified ==
  pc = "end" /\ verdict = "deny" =>
    ~Unrestricted /\ \E p \in ToSet(call.paths) : ~Granted(p)
===============================================================================
