----------------------------- MODULE JwtValidation -----------------------------
(******************************************************************************)
(* The JWT validation of the HTTP transport (internal/middlewares): the worker *)
(* that fetches the provider's key set from time to time, and the requests     *)
(* whose tokens are checked against the set that it has cached.               *)
(*                                                                            *)
(* The cached set is replaced as a whole and read as a pointer, both under the *)
(* mutex, so that taking it is one action; a request then works on the set it  *)
(* took, however often the worker replaces it.  Signatures, base64, JSON and   *)
(* CEL are external: a token is what these find in it.                        *)
(******************************************************************************)
EXTENDS Naturals, Sequences, SequencesExt

CONSTANTS
  Handlers,     (* goroutines that serve HTTP requests                        *)
  Kids, Algs, Secrets,
  Family,       (* the type of key that an algorithm of getSigningMethod uses *)
  Claims,       (* payloads of tokens                                         *)
  KeySets,      (* lists of keys that the provider may publish                *)
  Tokens,       (* well-formed tokens that requests carry                     *)
  MaxRotations, (* bound on how often the provider changes its keys           *)
  Faults,       (* answers the provider may give instead of its keys:         *)
                (* "unreachable", "garbage" (no JSON), "document" (JSON of    *)
                (* another kind, as of an error)                              *)
  NoHeader,     (* a request without an Authorization header                  *)
  Malformed,    (* a header that holds no token                               *)
  NoPayload,    (* no verified payload in the context of a request            *)
  NoKeys,       (* nothing fetched yet                                        *)
  Garbage,      (* a body that does not decode                                *)
  None          (* no alg or kid, an unusable key, a token nobody signed      *)

(* A key's secret is None when its parameters are incomplete or do not decode. *)
Key   == [kid : Kids, kty : {"RSA", "EC", "oct", "other"}, use : {"", "sig", "enc"},
          alg : Algs \cup {None}, secret : Secrets \cup {None}]
Token == [kid : Kids \cup {None}, alg : Algs \cup {None},
          signer : Secrets \cup {None}, meets : BOOLEAN, claims : Claims]

ASSUME JwtValidationAssumption ==
  /\ KeySets \subseteq Seq(Key) \ {<<>>} /\ KeySets # {}
  /\ Tokens \subseteq Token
  /\ DOMAIN Family \subseteq Algs
  /\ \A m \in DOMAIN Family : Family[m] \in {"RSA", "EC", "oct"}
  /\ MaxRotations \in Nat
  /\ NoPayload \notin Claims
  /\ None \notin Kids \cup Algs \cup Secrets

VARIABLES
  config,    (* jwt.enabled, and whether the allow_conditions compile          *)
  booted,    (* main has built the middleware and serves                      *)
  published, (* the key sets the provider has published, the current one last  *)
  worker,    (* cacheJWKS                                                     *)
  jwks,      (* the cached key set                                            *)
  request    (* request[h]: the request h serves, or served last              *)

vars == <<config, booted, published, worker, jwks, request>>

Blank == [pc |-> "idle", token |-> NoHeader, keys |-> NoKeys,
          payload |-> NoPayload, reply |-> "none"]
At(h, l) == request[h].pc = l

Init ==
  /\ config \in [enabled : BOOLEAN, compiles : BOOLEAN]
  /\ booted = FALSE
  /\ \E s \in KeySets : published = <<s>>
  /\ worker = [pc |-> "off", body |-> NoKeys]
  /\ jwks = NoKeys
  /\ request = [h \in Handlers |-> Blank]

-------------------------------------------------------------------------------
(* NewJWTValidationMiddleware: the worker first, then the conditions, enabled   *)
(* or not.  When they do not compile, main logs it and serves with a nil       *)
(* middleware.                                                                *)
Boot ==
  /\ ~booted
  /\ booted' = TRUE
  /\ worker' = [worker EXCEPT !.pc = IF config.enabled THEN "get" ELSE "off"]
  /\ UNCHANGED <<config, published, jwks, request>>

(* The provider changes its keys.                                             *)
Rotate ==
  /\ Len(published) <= MaxRotations
  /\ \E s \in KeySets : published' = Append(published, s)
  /\ UNCHANGED <<config, booted, worker, jwks, request>>

(* http.Get; the status of the answer is not looked at.                        *)
AnswerKeys ==
  /\ worker.pc = "get"
  /\ worker' = [pc |-> "decode", body |-> Last(published)]
  /\ UNCHANGED <<config, booted, published, jwks, request>>

AnswerOtherwise ==
  /\ worker.pc = "get"
  /\ \/ "unreachable" \in Faults /\ worker' = [worker EXCEPT !.pc = "nap"]
     \/ "garbage" \in Faults /\ worker' = [pc |-> "decode", body |-> Garbage]
     \/ "document" \in Faults /\ worker' = [pc |-> "decode", body |-> <<>>]
  /\ UNCHANGED <<config, booted, published, jwks, request>>

(* Variant: what could not be decoded is an empty set.                         *)
DecodeAnyway ==
  /\ worker.pc = "decode"
  /\ worker' = [pc |-> "publish",
                body |-> IF worker.body = Garbage THEN <<>> ELSE worker.body]
  /\ UNCHANGED <<config, booted, published, jwks, request>>

(* A JSON object without keys decodes to an empty list of keys.                *)
Decode ==
  /\ worker.pc = "decode"
  /\ worker' = IF worker.body = Garbage THEN [pc |-> "nap", body |-> NoKeys]
               ELSE [worker EXCEPT !.pc = "publish"]
  /\ UNCHANGED <<config, booted, published, jwks, request>>

Publish ==
  /\ worker.pc = "publish"
  /\ jwks' = worker.body
  /\ worker' = [pc |-> "nap", body |-> NoKeys]
  /\ UNCHANGED <<config, booted, published, request>>

Nap ==
  /\ worker.pc = "nap"
  /\ worker' = [worker EXCEPT !.pc = "get"]
  /\ UNCHANGED <<config, booted, published, jwks, request>>

-------------------------------------------------------------------------------
(* A request.  "next" is the call of the MCP server; "aborted" is a nil         *)
(* dereference, at which net/http gives the request up.                       *)

Reply(h, r) == request' = [request EXCEPT ![h].pc = "idle", ![h].reply = r,
                                          ![h].keys = NoKeys]

HasIdAndAlg(t) == t \notin {NoHeader, Malformed} /\ None \notin {t.kid, t.alg}

Arrive(h, t) ==
  /\ booted /\ At(h, "idle")
  /\ LET Start(l, r) ==
           request' = [request EXCEPT ![h] = [Blank EXCEPT !.pc = l, !.token = t,
                                                           !.reply = r]]
     IN  \/ ~config.compiles /\ Start("idle", "aborted")
         \/ config.compiles /\ ~config.enabled /\ Start("idle", "next")
         \/ /\ config.compiles /\ config.enabled
            /\ \/ HasIdAndAlg(t) /\ Start("keys", "none")
               \/ ~HasIdAndAlg(t) /\ Start("idle", "unauthorized")
  /\ UNCHANGED <<config, booted, published, worker, jwks>>

(* Variant: the loop over the keys of a nil set does nothing.                  *)
TakeKeysUnchecked(h) ==
  /\ At(h, "keys")
  /\ request' = [request EXCEPT ![h].pc = "match", ![h].keys = jwks]
  /\ UNCHANGED <<config, booted, published, worker, jwks>>

TakeKeys(h) ==
  /\ At(h, "keys")
  /\ \/ jwks = NoKeys /\ Reply(h, "aborted")
     \/ /\ jwks # NoKeys
        /\ request' = [request EXCEPT ![h].pc = "match", ![h].keys = jwks]
  /\ UNCHANGED <<config, booted, published, worker, jwks>>

(* Variant: the use of a key does not matter.                                  *)
FittingAnyUse(K, t) == {i \in DOMAIN K : K[i].kid = t.kid}

(* The keys that carry the token's kid and may sign; the first one counts.     *)
Fitting(K, t)  == {i \in DOMAIN K : K[i].kid = t.kid /\ K[i].use \in {"", "sig"}}
Matching(K, t) == K[CHOOSE i \in Fitting(K, t) : \A j \in Fitting(K, t) : i <= j]

(* The key's algorithm, if it has one, is the token's, and jwkToKey makes a key *)
(* of it.                                                                      *)
jwkToKey(k)  == IF k.kty \in {"RSA", "EC", "oct"} THEN k.secret ELSE None
Usable(k, t) == k.alg \in {None, t.alg} /\ jwkToKey(k) # None

(* jwt.Parse verifies with the method of the token's algorithm, which takes     *)
(* keys of its own type only.                                                  *)
Verifies(k, t) ==
  /\ t.alg \in DOMAIN Family /\ Family[t.alg] = k.kty
  /\ t.signer = jwkToKey(k)

Match(h) ==
  /\ At(h, "match")
  /\ LET K == request[h].keys
         t == request[h].token
     IN  \/ /\ Fitting(K, t) # {} /\ Usable(Matching(K, t), t)
            /\ request' = [request EXCEPT ![h].pc = "verify"]
         \/ /\ Fitting(K, t) # {} => ~Usable(Matching(K, t), t)
            /\ Reply(h, "unauthorized")
  /\ UNCHANGED <<config, booted, published, worker, jwks>>

Verify(h) ==
  /\ At(h, "verify")
  /\ LET t == request[h].token
         k == Matching(request[h].keys, t)
     IN  \/ Verifies(k, t) /\ request' = [request EXCEPT ![h].pc = "conditions"]
         \/ ~Verifies(k, t) /\ Reply(h, "unauthorized")
  /\ UNCHANGED <<config, booted, published, worker, jwks>>

(* The allow_conditions: one that is not true, or fails, refuses the request;   *)
(* the payload of a token that meets them goes into the request's context.     *)
AllowConditions(h) ==
  /\ At(h, "conditions")
  /\ LET t == request[h].token
     IN  \/ ~t.meets /\ Reply(h, "unauthorized")
         \/ /\ t.meets
            /\ request' = [request EXCEPT ![h].pc = "idle", ![h].reply = "next",
                             ![h].keys = NoKeys, ![h].payload = t.claims]
  /\ UNCHANGED <<config, booted, published, worker, jwks>>

-------------------------------------------------------------------------------
Worker == Decode \/ Publish \/ Nap
Provider == Rotate \/ AnswerKeys \/ AnswerOtherwise
Validate(h) == TakeKeys(h) \/ Match(h) \/ Verify(h) \/ AllowConditions(h)

Next ==
  \/ Boot \/ Provider \/ Worker
  \/ \E h \in Handlers :
       \/ \E t \in Tokens \cup {NoHeader, Malformed} : Arrive(h, t)
       \/ Validate(h)

Spec == Init /\ [][Next]_vars

(* main starts and the worker runs; the provider answers with its keys again    *)
(* and again, if not always.                                                  *)
Fairness == WF_vars(Boot) /\ WF_vars(Worker) /\ SF_vars(AnswerKeys)
FairSpec == Spec /\ Fairness

-------------------------------------------------------------------------------
(* Every variable keeps to its type; past its lookup a request has keys.        *)
TypeOK ==
  /\ config \in [enabled : BOOLEAN, compiles : BOOLEAN]
  /\ booted \in BOOLEAN
  /\ published \in Seq(KeySets) \ {<<>>}
  /\ worker.pc \in {"off", "get", "decode", "publish", "nap"}
  /\ jwks \in KeySets \cup {NoKeys, <<>>}
  /\ \A h \in Handlers :
       /\ request[h].pc \in {"idle", "keys", "match", "verify", "conditions"}
       /\ request[h].reply \in {"none", "next", "unauthorized", "aborted"}
       /\ request[h].payload \in Claims \cup {NoPayload}
       /\ ~At(h, "idle") /\ ~At(h, "keys") => request[h].keys # NoKeys

(* What a set of keys says of a token, in one formula.                         *)
Signs(k, t) ==
  /\ k.kid = t.kid /\ k.use # "enc" /\ k.alg \in {None, t.alg}
  /\ k.secret = t.signer /\ t.signer # None /\ k.kty = Family[t.alg]
Accepts(K, t) ==
  /\ HasIdAndAlg(t) /\ t.alg \in DOMAIN Family /\ t.meets
  /\ \E i \in DOMAIN K :
       /\ Signs(K[i], t)
       /\ \A j \in 1..(i - 1) : K[j].kid = t.kid => K[j].use = "enc"

(* Where tokens are validated, the MCP server sees only requests whose token    *)
(* is signed with a key that the provider has published for signatures, and    *)
(* meets every condition: also while keys change under the request, while the  *)
(* provider fails, and when the middleware could not be built.                 *)
ServedIsVerified ==
  config.enabled =>
    \A h \in Handlers :
      request[h].reply = "next" =>
        \E K \in ToSet(published) : Accepts(K, request[h].token)

(* A step refuses a request only when some published key set refuses its token, *)
(* or when the keys it has taken come out of an error document, which has none  *)
(* (jwt_validation_utils.go:57-72).  A token that every published set accepts is *)
(* let through while keys are replaced under the request, while the provider    *)
(* cannot be reached, and while it answers what is no JSON.                     *)
RefusalIsJustified ==
  [][\A h \in Handlers :
       request'[h] # request[h] /\ request'[h].reply = "unauthorized" =>
         \/ "document" \in Faults /\ request[h].keys = <<>>
         \/ \E K \in ToSet(published) : ~Accepts(K, request'[h].token)]_request

(* "[...] keep internal cache reasonable up-to-date"                           *)
(* (jwt_validation_utils.go:42): when the provider's keys change no more, and   *)
(* error documents come in no more, the cache ends up with the keys.           *)
CacheCatchesUp ==
  config.enabled /\ <>[](worker.pc = "decode" => worker.body # <<>>) =>
    <>[](jwks = Last(published))

(* "Middleware returns an HTTP handler that validates the JWT on every request" *)
(* (jwt_validation.go:80): no request is given up without a verdict.           *)
EveryRequestIsValidated ==
  config.compiles => \A h \in Handlers : request[h].reply # "aborted"
===============================================================================
