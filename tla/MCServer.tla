-------------------------------- MODULE MCServer --------------------------------
(* Server for TLC: the key sets and tokens of MCJwtValidation, an administrator *)
(* and a user, and rules that tell the two apart by a claim, by a path and by   *)
(* the category of the tool.                                                  *)
EXTENDS MCJwtValidation, Server

CONSTANT admin

Admin == [c \in {admin} |-> "true"]
User  == [c \in {admin} |-> "error"]
MCClaims == {Admin, User}
MCTokens ==
  {T(old, rs, s1, TRUE, User), T(old, rs, s1, FALSE, Admin), T(old, hs, s2, TRUE, User),
   T(new, rs, s2, TRUE, Admin), T(new, hs, s2, TRUE, Admin), T(new, ps, s2, TRUE, Admin),
   T(new, rs, s1, TRUE, Admin), T(None, rs, s1, TRUE, Admin)}

Homes  == <<"/", "u", "/", "*", "*">>
All    == <<"/", "*", "*">>
Read   == [when |-> {}, paths |-> {Homes}, operations |-> {"read"}]
Write  == [when |-> {admin}, paths |-> {Homes}, operations |-> {"read", "write"}]
Full   == [when |-> {admin}, paths |-> {All}, operations |-> {"read", "write", "exec"}]
MCRuleSets == {<<Read, Write, Full>>}

Home == <<"/", "u", "/", "v">>
Etc  == <<"/", "v">>
MCTargets == {Home, Etc}

C(tool, paths) == [tool |-> tool, paths |-> paths]
MCClientCalls ==
  {C("diff", <<Home, Etc>>), C("read_file", <<Home>>), C("undo", <<Home>>),
   C("exec", <<Etc>>), C("process_kill", <<>>), C("scratch", <<>>)}
===============================================================================
