------------------------------ MODULE ServerProofs -----------------------------
(******************************************************************************)
(* The whole way of a request, for any tokens, key sets, rules and calls: a      *)
(* tool runs for a caller whose own token was verified, on paths that the rules *)
(* grant to that caller, and is refused only because of a path they do not.     *)
(* First the token checks by themselves: who is served, and who is refused,     *)
(* while the provider's keys change and the fetches fail.                      *)
(******************************************************************************)
EXTENDS Server, SequenceTheorems, WellFoundedInduction, TLAPS

(* What a fetch may find: a published set, or the empty list in another JSON    *)
(* document.                                                                  *)
Published == ToSet(published)
Obtained  == Published \cup {l \in {<<>>} : "document" \in Faults}

WorkerInv ==
  /\ worker \in [pc : {"off", "get", "decode", "publish", "nap"},
                 body : KeySets \cup {NoKeys, Garbage, <<>>}]
  /\ worker.pc = "decode" => worker.body \in Obtained \cup {Garbage}
  /\ worker.pc = "publish" => worker.body \in Obtained
  /\ jwks \in Obtained \cup {NoKeys}

(* The key that validateToken finds for a token, if it goes on with one.        *)
KeyFound(K, t) == Fitting(K, t) # {} /\ Usable(Matching(K, t), t)

Request ==
  [pc : {"idle", "keys", "match", "verify", "conditions"},
   token : Tokens \cup {NoHeader, Malformed}, keys : KeySets \cup {NoKeys, <<>>},
   payload : Claims \cup {NoPayload},
   reply : {"none", "next", "unauthorized", "aborted"}]

(* What is known of a request, by where it is: each check that it has passed    *)
(* stays true of the keys it took, whatever the cache holds by now.            *)
Underway(r) ==
  /\ r.pc # "idle" =>
       config.enabled /\ r.reply = "none" /\ r.token \in Tokens /\ HasIdAndAlg(r.token)
  /\ r.pc \in {"match", "verify", "conditions"} => r.keys \in Obtained \ {NoKeys}
  /\ r.pc \in {"verify", "conditions"} => KeyFound(r.keys, r.token)
  /\ r.pc = "conditions" => Verifies(Matching(r.keys, r.token), r.token)

(* A served request has been verified, and its payload is the token's claims;   *)
(* without validation it has none.                                             *)
Served(r) ==
  r.reply = "next" =>
    /\ config.enabled => /\ \E K \in Published : Accepts(K, r.token)
                         /\ r.payload = r.token.claims
    /\ ~config.enabled => r.payload = NoPayload

RequestInv(r) == r \in Request /\ Underway(r) /\ Served(r)

JVInv ==
  /\ config \in [enabled : BOOLEAN, compiles : BOOLEAN]
  /\ booted \in BOOLEAN
  /\ published \in Seq(KeySets) \ {<<>>}
  /\ WorkerInv
  /\ request \in [Handlers -> Request]
  /\ \A h \in Handlers : RequestInv(request[h])

-------------------------------------------------------------------------------
LEMMA SmallestIndex ==
  ASSUME NEW S \in SUBSET Nat, S # {}
  PROVE  \E i \in S : \A j \in S : i <= j
<1> DEFINE R == OpToRel(<, Nat)
<1>1. IsWellFoundedOn(R, Nat)
  BY NatLessThanWellFounded
<1>2. \A m, n \in Nat : m < n => <<m, n>> \in R
  BY DEF OpToRel
<1> HIDE DEF R
<1>3. \E i \in S : \A j \in S : ~(<<j, i>> \in R)
  BY <1>1, WFMin
<1>4. PICK i \in S : \A j \in S : ~(<<j, i>> \in R)
  BY <1>3
<1>5. ASSUME NEW j \in S PROVE i <= j
  <2>1. i \in Nat /\ j \in Nat /\ ~(j < i)
    BY <1>2, <1>4
  <2> QED
    BY <2>1
<1> QED
  BY <1>5

(* The first of the keys that fit is one of them.                              *)
LEMMA MatchingIsFirst ==
  ASSUME NEW K \in Seq(Key), NEW t, Fitting(K, t) # {}
  PROVE  \E i \in Fitting(K, t) :
           Matching(K, t) = K[i] /\ \A j \in Fitting(K, t) : i <= j
<1>1. Fitting(K, t) \subseteq Nat
  <2>1. DOMAIN K \subseteq Nat
    BY LenProperties
  <2>2. Fitting(K, t) \subseteq DOMAIN K
    BY DEF Fitting
  <2> QED
    BY <2>1, <2>2
<1>2. \E i \in Fitting(K, t) : \A j \in Fitting(K, t) : i <= j
  BY <1>1, SmallestIndex
<1> QED
  BY <1>2 DEF Matching

LEMMA NothingFits ==
  ASSUME NEW t
  PROVE  Fitting(<<>>, t) = {}
<1>1. DOMAIN <<>> = {}
  OBVIOUS
<1>2. Fitting(<<>>, t) \subseteq DOMAIN <<>>
  BY DEF Fitting
<1> QED
  BY <1>1, <1>2

(* The three steps of validateToken and the conditions come to the one formula: *)
(* a token that is well-formed is accepted exactly when a key is found for it,   *)
(* the key verifies it and it meets the conditions.                            *)
LEMMA StepsAreAccepts ==
  ASSUME NEW K \in Seq(Key), NEW t \in Tokens, HasIdAndAlg(t)
  PROVE  Accepts(K, t) <=>
           KeyFound(K, t) /\ Verifies(Matching(K, t), t) /\ t.meets
<1> DEFINE F == Fitting(K, t)
<1>1. /\ t.kid \in Kids /\ t.alg \in Algs /\ t.signer \in Secrets \cup {None}
      /\ t.meets \in BOOLEAN
  BY JwtValidationAssumption DEF HasIdAndAlg, Token
<1>2. DOMAIN K = 1..Len(K) /\ Len(K) \in Nat /\ \A i \in DOMAIN K : K[i] \in Key
  BY LenProperties, ElementOfSeq
<1>3. ASSUME KeyFound(K, t), Verifies(Matching(K, t), t), t.meets
      PROVE  Accepts(K, t)
  <2>1. PICK i \in F : Matching(K, t) = K[i] /\ \A j \in F : i <= j
    BY <1>3, MatchingIsFirst DEF KeyFound
  <2>2. i \in DOMAIN K /\ K[i].kid = t.kid /\ K[i].use \in {"", "sig"}
    BY DEF Fitting
  <2>3. Signs(K[i], t)
    BY <1>3, <2>1, <2>2 DEF KeyFound, Usable, Verifies, jwkToKey, Signs
  <2>4. \A j \in 1..(i - 1) : K[j].kid = t.kid => K[j].use = "enc"
    <3> SUFFICES ASSUME NEW j \in 1..(i - 1), K[j].kid = t.kid
                 PROVE  K[j].use = "enc"
      OBVIOUS
    <3>1. j \in DOMAIN K /\ ~(i <= j)
      <4>1. i \in 1..Len(K)
        BY <1>2, <2>2
      <4>2. j \in 1..Len(K) /\ ~(i <= j)
        BY <1>2, <4>1
      <4> QED
        BY <1>2, <4>2
    <3>2. j \notin F
      BY <2>1, <3>1
    <3> QED
      BY <1>2, <3>1, <3>2 DEF Fitting, Key
  <2> QED
    BY <1>3, <2>2, <2>3, <2>4 DEF Accepts, Verifies
<1>4. ASSUME Accepts(K, t)
      PROVE  KeyFound(K, t) /\ Verifies(Matching(K, t), t) /\ t.meets
  <2>1. PICK i \in DOMAIN K :
          /\ Signs(K[i], t)
          /\ \A j \in 1..(i - 1) : K[j].kid = t.kid => K[j].use = "enc"
    BY <1>4 DEF Accepts
  <2>2. i \in F
    BY <1>2, <2>1 DEF Signs, Fitting, Key
  <2>3. PICK m \in F : Matching(K, t) = K[m] /\ \A j \in F : m <= j
    BY <2>2, MatchingIsFirst
  <2>4. m \in DOMAIN K /\ K[m].kid = t.kid /\ K[m].use \in {"", "sig"}
    BY DEF Fitting
  <2>5. m = i
    <3>1. m <= i
      BY <2>2, <2>3
    <3>2. m \in 1..Len(K) /\ i \in 1..Len(K)
      BY <1>2, <2>1, <2>4
    <3>3. m \notin 1..(i - 1)
      BY <2>1, <2>4
    <3> QED
      BY <1>2, <3>1, <3>2, <3>3
  <2>6. Family[t.alg] \in {"RSA", "EC", "oct"}
    BY <1>4, JwtValidationAssumption DEF Accepts
  <2>7. Usable(K[i], t) /\ Verifies(K[i], t)
    BY <1>4, <2>1, <2>6 DEF Accepts, Signs, Usable, Verifies, jwkToKey
  <2> QED
    BY <1>4, <2>2, <2>3, <2>5, <2>7 DEF KeyFound, Accepts
<1> QED
  BY <1>3, <1>4

-------------------------------------------------------------------------------
LEMMA JVInvInit == Init => JVInv
<1> SUFFICES ASSUME Init PROVE JVInv
  OBVIOUS
<1>1. published \in Seq(KeySets) \ {<<>>}
  <2>1. PICK s \in KeySets : published = <<s>>
    BY DEF Init
  <2> QED
    BY <2>1
<1>2. WorkerInv
  BY DEF Init, WorkerInv
<1>3. Blank \in Request /\ RequestInv(Blank)
  BY DEF Blank, Request, RequestInv, Underway, Served
<1>4. request = [h \in Handlers |-> Blank]
  BY DEF Init
<1>5. request \in [Handlers -> Request] /\ \A h \in Handlers : RequestInv(request[h])
  <2>1. request \in [Handlers -> Request]
    BY <1>3, <1>4
  <2>2. \A h \in Handlers : request[h] = Blank
    BY <1>4
  <2> QED
    BY <1>3, <2>1, <2>2
<1> QED
  BY <1>1, <1>2, <1>5 DEF JVInv, Init

LEMMA PublishedIsSome ==
  ASSUME published \in Seq(KeySets) \ {<<>>}
  PROVE  /\ Published # {} /\ Published \subseteq KeySets
         /\ Last(published) \in Published
<1>1. published \in Seq(KeySets) /\ published # <<>>
  OBVIOUS
<1>2. DOMAIN published = 1..Len(published) /\ Len(published) \in Nat \ {0}
  BY <1>1, LenProperties, EmptySeq
<1>3. \A i \in 1..Len(published) : published[i] \in KeySets
  BY <1>1, ElementOfSeq
<1>4. Len(published) \in DOMAIN published
  BY <1>2
<1> QED
  BY <1>2, <1>3, <1>4 DEF Published, ToSet, Last

(* No step changes the configuration or takes back a published set.             *)
LEMMA PublishedGrows ==
  ASSUME published \in Seq(KeySets) \ {<<>>}, [Next]_vars
  PROVE  UNCHANGED config /\ Published \subseteq Published'
<1>1. UNCHANGED config /\ (Rotate \/ UNCHANGED published)
  BY DEF Next, Boot, Provider, AnswerKeys, AnswerOtherwise, Worker, Decode, Publish, Nap,
         Rotate, Arrive, Validate, TakeKeys, Match, Verify, AllowConditions, vars
<1>2. CASE UNCHANGED published
  BY <1>1, <1>2 DEF Published
<1>3. CASE Rotate
  <2>1. PICK s \in KeySets : published' = Append(published, s)
    BY <1>3 DEF Rotate
  <2>2. /\ DOMAIN published' = 1..(Len(published) + 1)
        /\ DOMAIN published = 1..Len(published) /\ Len(published) \in Nat
        /\ \A i \in 1..Len(published) : published'[i] = published[i]
    BY <2>1, AppendProperties, LenProperties
  <2> QED
    BY <1>1, <2>2 DEF Published, ToSet
<1> QED
  BY <1>1, <1>2, <1>3

(* What holds of a request stays true when the provider publishes more.         *)
LEMMA RequestInvMonotone ==
  ASSUME NEW r, RequestInv(r), UNCHANGED config, Published \subseteq Published'
  PROVE  RequestInv(r)'
<1>1. Obtained \subseteq Obtained'
  BY DEF Obtained
<1> QED
  BY <1>1 DEF RequestInv, Underway, Served

(* A step of one request.                                                      *)
LEMMA RequestStep ==
  ASSUME JVInv, NEW h \in Handlers, NEW r,
         request' = [request EXCEPT ![h] = r], RequestInv(r),
         UNCHANGED <<config, booted, published, worker, jwks>>
  PROVE  JVInv'
<1>1. Published' = Published /\ Obtained' = Obtained /\ WorkerInv'
  BY DEF Published, Obtained, WorkerInv, JVInv
<1>2. RequestInv(r)'
  BY <1>1, RequestInvMonotone
<1>3. \A g \in Handlers \ {h} : request'[g] = request[g]
  BY DEF JVInv
<1>4. \A g \in Handlers \ {h} : RequestInv(request[g])'
  BY <1>1, <1>3, RequestInvMonotone DEF JVInv
<1>5. request' \in [Handlers -> Request] /\ request'[h] = r
  BY DEF JVInv, RequestInv
<1>6. \A g \in Handlers : RequestInv(request[g])'
  BY <1>2, <1>4, <1>5
<1> QED
  BY <1>1, <1>5, <1>6 DEF JVInv

(* A step that leaves the requests alone.                                      *)
LEMMA BackgroundStep ==
  ASSUME JVInv, UNCHANGED <<config, request>>, booted' \in BOOLEAN,
         published' \in Seq(KeySets) \ {<<>>}, Published \subseteq Published',
         WorkerInv'
  PROVE  JVInv'
<1>1. \A h \in Handlers : RequestInv(request[h])'
  BY RequestInvMonotone DEF JVInv
<1> QED
  BY <1>1 DEF JVInv

LEMMA JVInvBoot == JVInv /\ Boot => JVInv'
<1> SUFFICES ASSUME JVInv, Boot PROVE JVInv'
  OBVIOUS
<1>1. Published' = Published /\ Obtained' = Obtained
  BY DEF Boot, Published, Obtained
<1>2. WorkerInv'
  BY <1>1 DEF Boot, JVInv, WorkerInv
<1> QED
  BY <1>1, <1>2, BackgroundStep DEF Boot, JVInv

LEMMA JVInvRotate == JVInv /\ Rotate => JVInv'
<1> SUFFICES ASSUME JVInv, Rotate PROVE JVInv'
  OBVIOUS
<1>1. PICK s \in KeySets : published' = Append(published, s)
  BY DEF Rotate
<1>2. published \in Seq(KeySets)
  BY DEF JVInv
<1>3. published' \in Seq(KeySets) /\ published' # <<>>
  BY <1>1, <1>2, AppendProperties
<1>4. Published \subseteq Published'
  BY PublishedGrows DEF JVInv, Next, Provider
<1>5. WorkerInv'
  BY <1>4 DEF Rotate, JVInv, WorkerInv, Obtained
<1> QED
  BY <1>3, <1>4, <1>5, BackgroundStep DEF Rotate, JVInv

(* The worker's steps, and the provider's answers.                             *)
LEMMA JVInvWorker ==
  JVInv /\ (AnswerKeys \/ AnswerOtherwise \/ Worker) => JVInv'
<1> SUFFICES ASSUME JVInv, AnswerKeys \/ AnswerOtherwise \/ Worker PROVE JVInv'
  OBVIOUS
<1>1. UNCHANGED <<config, booted, published, request>>
  BY DEF AnswerKeys, AnswerOtherwise, Worker, Decode, Publish, Nap
<1>2. /\ Published' = Published /\ Obtained' = Obtained
      /\ Published \subseteq KeySets /\ Last(published) \in Published
  BY <1>1, PublishedIsSome DEF Published, Obtained, JVInv
<1>3. WorkerInv
  BY DEF JVInv
<1>4. ASSUME AnswerKeys PROVE WorkerInv'
  BY <1>2, <1>3, <1>4 DEF AnswerKeys, WorkerInv, Obtained
<1>5. ASSUME AnswerOtherwise PROVE WorkerInv'
  BY <1>2, <1>3, <1>5 DEF AnswerOtherwise, WorkerInv, Obtained
<1>6. ASSUME Decode PROVE WorkerInv'
  BY <1>2, <1>3, <1>6 DEF Decode, WorkerInv
<1>7. ASSUME Publish PROVE WorkerInv'
  BY <1>2, <1>3, <1>7 DEF Publish, WorkerInv
<1>8. ASSUME Nap PROVE WorkerInv'
  BY <1>2, <1>3, <1>8 DEF Nap, WorkerInv
<1>9. WorkerInv'
  BY <1>4, <1>5, <1>6, <1>7, <1>8 DEF Worker
<1> QED
  BY <1>1, <1>2, <1>9, BackgroundStep DEF JVInv

-------------------------------------------------------------------------------
(* A request is answered with v before it is let through.                      *)
LEMMA ReplyStep ==
  ASSUME JVInv, NEW h \in Handlers, NEW v \in {"unauthorized", "aborted"},
         Reply(h, v), UNCHANGED <<config, booted, published, worker, jwks>>
  PROVE  JVInv'
<1> DEFINE r == [request[h] EXCEPT !.pc = "idle", !.reply = v, !.keys = NoKeys]
<1>1. request[h] \in Request
  BY DEF JVInv
<1>2. request' = [request EXCEPT ![h] = r]
  BY DEF Reply
<1>3. /\ r \in Request /\ r.pc = "idle" /\ r.reply = v
      /\ r.token = request[h].token
  BY <1>1 DEF Request
<1> HIDE DEF r
<1>4. RequestInv(r)
  BY <1>3 DEF RequestInv, Underway, Served
<1> QED
  BY <1>2, <1>4, RequestStep

LEMMA JVInvArrive ==
  ASSUME JVInv, NEW h \in Handlers, NEW t \in Tokens \cup {NoHeader, Malformed},
         Arrive(h, t)
  PROVE  JVInv'
<1> DEFINE r(l, v) == [Blank EXCEPT !.pc = l, !.token = t, !.reply = v]
<1>1. \E l \in {"idle", "keys"} : \E v \in {"none", "next", "unauthorized", "aborted"} :
        /\ request' = [request EXCEPT ![h] = r(l, v)]
        /\ l = "keys" => config.enabled /\ HasIdAndAlg(t) /\ v = "none"
        /\ v = "next" => ~config.enabled
        /\ v = "unauthorized" => ~HasIdAndAlg(t)
  BY DEF Arrive, Blank
<1>2. PICK l \in {"idle", "keys"}, v \in {"none", "next", "unauthorized", "aborted"} :
        /\ request' = [request EXCEPT ![h] = r(l, v)]
        /\ l = "keys" => config.enabled /\ HasIdAndAlg(t) /\ v = "none"
        /\ v = "next" => ~config.enabled
        /\ v = "unauthorized" => ~HasIdAndAlg(t)
  BY <1>1
<1> DEFINE q == r(l, v)
<1>3. /\ q \in Request /\ q.pc = l /\ q.reply = v /\ q.token = t
      /\ q.payload = NoPayload
  BY DEF Blank, Request
<1>4. request' = [request EXCEPT ![h] = q]
  BY <1>2
<1> HIDE DEF q, r
<1>5. Underway(q) /\ Served(q)
  BY <1>2, <1>3 DEF Underway, Served, HasIdAndAlg
<1> QED
  BY <1>3, <1>4, <1>5, RequestStep DEF Arrive, RequestInv

LEMMA JVInvTakeKeys ==
  ASSUME JVInv, NEW h \in Handlers, TakeKeys(h)
  PROVE  JVInv'
<1>1. CASE Reply(h, "aborted")
  BY <1>1, ReplyStep DEF TakeKeys
<1>2. CASE jwks # NoKeys /\ request' = [request EXCEPT ![h].pc = "match", ![h].keys = jwks]
  <2> DEFINE r == [request[h] EXCEPT !.pc = "match", !.keys = jwks]
  <2>1. request[h] \in Request /\ RequestInv(request[h]) /\ request[h].pc = "keys"
    BY DEF JVInv, TakeKeys, At
  <2>2. jwks \in Obtained /\ jwks \in KeySets \cup {<<>>}
    BY <1>2, PublishedIsSome DEF JVInv, WorkerInv, Obtained
  <2>3. request' = [request EXCEPT ![h] = r]
    BY <1>2
  <2>4. /\ r \in Request /\ r.pc = "match" /\ r.keys = jwks
        /\ r.token = request[h].token /\ r.reply = request[h].reply
        /\ r.payload = request[h].payload
    BY <2>1, <2>2 DEF Request
  <2> HIDE DEF r
  <2>5. RequestInv(r)
    BY <1>2, <2>1, <2>2, <2>4 DEF RequestInv, Underway, Served
  <2> QED
    BY <2>3, <2>5, RequestStep DEF TakeKeys
<1> QED
  BY <1>1, <1>2 DEF TakeKeys

(* Whatever fails, the keys that the request took do not accept its token.      *)
LEMMA KeysOfRequest ==
  ASSUME JVInv, NEW h \in Handlers, request[h].pc \in {"match", "verify", "conditions"}
  PROVE  LET K == request[h].keys
             t == request[h].token
         IN  /\ t \in Tokens
             /\ "document" \notin Faults \/ K # <<>> => K \in Published
             /\ K \in Published =>
                  (Accepts(K, t) <=>
                     KeyFound(K, t) /\ Verifies(Matching(K, t), t) /\ t.meets)
<1> DEFINE K == request[h].keys
           t == request[h].token
<1>1. Underway(request[h]) /\ Published \subseteq KeySets
  BY PublishedIsSome DEF JVInv, RequestInv
<1>2. t \in Tokens /\ HasIdAndAlg(t) /\ K \in Obtained
  BY <1>1 DEF Underway
<1>3. "document" \notin Faults \/ K # <<>> => K \in Published
  BY <1>2 DEF Obtained
<1>4. ASSUME K \in Published
      PROVE  Accepts(K, t) <=>
               KeyFound(K, t) /\ Verifies(Matching(K, t), t) /\ t.meets
  <2>1. K \in Seq(Key)
    BY <1>1, <1>4, JwtValidationAssumption
  <2> QED
    BY <1>2, <2>1, StepsAreAccepts
<1> QED
  BY <1>2, <1>3, <1>4

(* A step of a request that goes on to l with the keys it has.                  *)
LEMMA GoOnStep ==
  ASSUME JVInv, NEW h \in Handlers, NEW l \in {"verify", "conditions"},
         request[h].pc \in {"match", "verify"},
         request' = [request EXCEPT ![h].pc = l],
         UNCHANGED <<config, booted, published, worker, jwks>>,
         KeyFound(request[h].keys, request[h].token),
         l = "conditions" =>
           Verifies(Matching(request[h].keys, request[h].token), request[h].token)
  PROVE  JVInv'
<1> DEFINE r == [request[h] EXCEPT !.pc = l]
<1>1. request[h] \in Request /\ RequestInv(request[h])
  BY DEF JVInv
<1>2. request' = [request EXCEPT ![h] = r]
  OBVIOUS
<1>3. /\ r \in Request /\ r.pc = l /\ r.keys = request[h].keys
      /\ r.token = request[h].token /\ r.reply = request[h].reply
      /\ r.payload = request[h].payload
  BY <1>1 DEF Request
<1> HIDE DEF r
<1>4. RequestInv(r)
  BY <1>1, <1>3 DEF RequestInv, Underway, Served
<1> QED
  BY <1>2, <1>4, RequestStep

LEMMA JVInvMatch ==
  ASSUME JVInv, NEW h \in Handlers, Match(h)
  PROVE  JVInv'
<1> DEFINE K == request[h].keys
           t == request[h].token
<1>1. request[h].pc = "match" /\ UNCHANGED <<config, booted, published, worker, jwks>>
  BY DEF Match, At
<1>2. CASE KeyFound(K, t) /\ request' = [request EXCEPT ![h].pc = "verify"]
  BY <1>1, <1>2, GoOnStep
<1>3. CASE Reply(h, "unauthorized")
  BY <1>1, <1>3, ReplyStep
<1> QED
  BY <1>2, <1>3 DEF Match, KeyFound

LEMMA JVInvVerify ==
  ASSUME JVInv, NEW h \in Handlers, Verify(h)
  PROVE  JVInv'
<1> DEFINE K == request[h].keys
           t == request[h].token
<1>1. request[h].pc = "verify" /\ UNCHANGED <<config, booted, published, worker, jwks>>
  BY DEF Verify, At
<1>2. KeyFound(K, t)
  BY <1>1 DEF JVInv, RequestInv, Underway
<1>3. CASE Verifies(Matching(K, t), t) /\ request' = [request EXCEPT ![h].pc = "conditions"]
  BY <1>1, <1>2, <1>3, GoOnStep
<1>4. CASE Reply(h, "unauthorized")
  BY <1>1, <1>4, ReplyStep
<1> QED
  BY <1>3, <1>4 DEF Verify

LEMMA JVInvAllowConditions ==
  ASSUME JVInv, NEW h \in Handlers, AllowConditions(h)
  PROVE  JVInv'
<1> DEFINE K == request[h].keys
           t == request[h].token
           r == [request[h] EXCEPT !.pc = "idle", !.reply = "next", !.keys = NoKeys,
                                   !.payload = t.claims]
<1>1. request[h].pc = "conditions" /\ UNCHANGED <<config, booted, published, worker, jwks>>
  BY DEF AllowConditions, At
<1>2. /\ request[h] \in Request /\ config.enabled
      /\ KeyFound(K, t) /\ Verifies(Matching(K, t), t)
  BY <1>1 DEF JVInv, RequestInv, Underway
<1>3. t \in Tokens /\ t.claims \in Claims
  BY <1>1, KeysOfRequest, JwtValidationAssumption DEF Token
<1>4. CASE Reply(h, "unauthorized")
  BY <1>1, <1>4, ReplyStep
<1>5. CASE t.meets /\ request' = [request EXCEPT ![h] = r]
  <2>1. Accepts(K, t) /\ K \in Published
    <3>1. K # <<>>
      BY <1>2, NothingFits DEF KeyFound
    <3> QED
      BY <1>1, <1>2, <1>5, <3>1, KeysOfRequest
  <2>2. /\ r \in Request /\ r.pc = "idle" /\ r.reply = "next"
        /\ r.token = t /\ r.payload = t.claims
    BY <1>2, <1>3 DEF Request
  <2>3. request' = [request EXCEPT ![h] = r]
    BY <1>5
  <2> HIDE DEF r
  <2>4. RequestInv(r)
    BY <1>2, <2>1, <2>2 DEF RequestInv, Underway, Served
  <2> QED
    BY <1>1, <2>3, <2>4, RequestStep
<1> QED
  BY <1>4, <1>5 DEF AllowConditions

LEMMA JVInvNext == JVInv /\ [Next]_vars => JVInv'
<1> SUFFICES ASSUME JVInv, [Next]_vars PROVE JVInv'
  OBVIOUS
<1>1. ASSUME Boot \/ Provider \/ Worker PROVE JVInv'
  BY <1>1, JVInvBoot, JVInvRotate, JVInvWorker DEF Provider
<1>2. ASSUME NEW h \in Handlers, NEW t \in Tokens \cup {NoHeader, Malformed}, Arrive(h, t)
      PROVE  JVInv'
  BY <1>2, JVInvArrive
<1>3. ASSUME NEW h \in Handlers, Validate(h) PROVE JVInv'
  BY <1>3, JVInvTakeKeys, JVInvMatch, JVInvVerify, JVInvAllowConditions DEF Validate
<1>4. ASSUME UNCHANGED vars PROVE JVInv'
  <2>1. Published' = Published /\ WorkerInv' /\ UNCHANGED <<config, request>>
    BY <1>4 DEF vars, JVInv, WorkerInv, Obtained, Published
  <2> QED
    BY <1>4, <2>1, BackgroundStep DEF vars, JVInv
<1> QED
  BY <1>1, <1>2, <1>3, <1>4 DEF Next

(* What the worker holds is published, and what each request has passed holds. *)
THEOREM JVInvariant == Spec => []JVInv
BY JVInvInit, JVInvNext, PTL DEF Spec

LEMMA JVInvGives ==
  ASSUME JVInv
  PROVE  TypeOK /\ ServedIsVerified
<1>1. \A h \in Handlers : RequestInv(request[h])
  BY DEF JVInv
<1>2. jwks \in KeySets \cup {NoKeys, <<>>}
  BY PublishedIsSome DEF JVInv, WorkerInv, Obtained
<1>3. TypeOK
  <2>1. worker.pc \in {"off", "get", "decode", "publish", "nap"}
    BY DEF JVInv, WorkerInv
  <2>2. ASSUME NEW h \in Handlers
        PROVE  /\ request[h].pc \in {"idle", "keys", "match", "verify", "conditions"}
               /\ request[h].reply \in {"none", "next", "unauthorized", "aborted"}
               /\ request[h].payload \in Claims \cup {NoPayload}
               /\ ~At(h, "idle") /\ ~At(h, "keys") => request[h].keys # NoKeys
    BY <1>1 DEF RequestInv, Request, Underway, At
  <2> QED
    BY <1>2, <2>1, <2>2 DEF TypeOK, JVInv
<1>4. ServedIsVerified
  BY <1>1 DEF RequestInv, Served, ServedIsVerified, Published
<1> QED
  BY <1>3, <1>4

(* Every variable keeps to its type, and past its lookup a request has keys.    *)
THEOREM TypeCorrect == Spec => []TypeOK
BY JVInvariant, JVInvGives, PTL

(* Where tokens are validated, the MCP server sees only requests whose token is *)
(* signed with a key that the provider has published, and meets the conditions, *)
(* however many handlers, key rotations and failed fetches there are           *)
(* (jwt_validation.go:81-150).                                                 *)
THEOREM OnlyVerifiedAreServed == Spec => []ServedIsVerified
BY JVInvariant, JVInvGives, PTL

(* A step of the middleware that refuses h's request.                          *)
Refuses(h) == request'[h] # request[h] /\ request'[h].reply = "unauthorized"
Justified(h) ==
  \/ "document" \in Faults /\ request[h].keys = <<>>
  \/ \E K \in Published : ~Accepts(K, request'[h].token)

LEMMA ArriveRefuses ==
  ASSUME JVInv, NEW h \in Handlers, NEW g \in Handlers,
         NEW t \in Tokens \cup {NoHeader, Malformed}, Arrive(g, t), Refuses(h)
  PROVE  Justified(h)
<1>1. request \in [Handlers -> Request]
  BY DEF JVInv
<1>2. h = g
  BY <1>1 DEF Arrive, Refuses
<1>3. request'[h].token = t /\ ~HasIdAndAlg(t)
  BY <1>1, <1>2 DEF Arrive, Refuses, Blank
<1>4. PICK K : K \in Published
  BY PublishedIsSome DEF JVInv
<1> QED
  BY <1>3, <1>4 DEF Justified, Accepts

(* Validation refuses when the keys that the request took do not accept it, and *)
(* these were published, or are none at all.                                   *)
LEMMA ValidateRefuses ==
  ASSUME JVInv, NEW h \in Handlers, NEW g \in Handlers, Validate(g), Refuses(h)
  PROVE  Justified(h)
<1> DEFINE K == request[h].keys
           t == request[h].token
<1>1. request \in [Handlers -> Request] /\ Underway(request[h])
  BY DEF JVInv, RequestInv
<1>2. h = g
  BY <1>1 DEF Validate, TakeKeys, Match, Verify, AllowConditions, Reply, Refuses
<1>3. request[h].pc # "idle" /\ request[h].reply = "none"
  BY <1>1, <1>2 DEF Validate, TakeKeys, Match, Verify, AllowConditions, At, Underway
<1>4. request'[h].token = t
  BY <1>1, <1>2 DEF Validate, TakeKeys, Match, Verify, AllowConditions, Reply, Request
<1>5. /\ request[h].pc \in {"match", "verify", "conditions"}
      /\ ~(KeyFound(K, t) /\ Verifies(Matching(K, t), t) /\ t.meets)
  <2>1. CASE TakeKeys(h)
    BY <1>1, <1>3, <2>1 DEF TakeKeys, Reply, Refuses, Request
  <2>2. CASE Match(h)
    BY <1>1, <1>3, <2>2 DEF Match, At, KeyFound, Refuses, Request
  <2>3. CASE Verify(h)
    BY <1>1, <1>3, <2>3 DEF Verify, At, Refuses, Request
  <2>4. CASE AllowConditions(h)
    BY <1>1, <1>3, <2>4 DEF AllowConditions, At, Refuses, Request
  <2> QED
    BY <1>2, <2>1, <2>2, <2>3, <2>4 DEF Validate
<1>6. /\ ("document" \in Faults /\ K = <<>>) \/ K \in Published
      /\ K \in Published =>
           (Accepts(K, t) <=>
              KeyFound(K, t) /\ Verifies(Matching(K, t), t) /\ t.meets)
  BY <1>5, KeysOfRequest
<1>7. ("document" \in Faults /\ K = <<>>) \/ \E L \in Published : ~Accepts(L, t)
  BY <1>5, <1>6
<1> QED
  BY <1>4, <1>7 DEF Justified

LEMMA NextRefuses ==
  ASSUME JVInv, [Next]_vars, NEW h \in Handlers, Refuses(h)
  PROVE  Justified(h)
<1>1. ~UNCHANGED request
  BY DEF Refuses
<1>2. PICK g \in Handlers :
        (\E t \in Tokens \cup {NoHeader, Malformed} : Arrive(g, t)) \/ Validate(g)
  BY <1>1 DEF Next, Boot, Provider, Rotate, AnswerKeys, AnswerOtherwise, Worker, Decode,
             Publish, Nap, vars
<1> QED
  BY <1>2, ArriveRefuses, ValidateRefuses

LEMMA StepsRefuseJustly ==
  JVInv /\ [Next]_vars =>
    [\A h \in Handlers :
       request'[h] # request[h] /\ request'[h].reply = "unauthorized" =>
         \/ "document" \in Faults /\ request[h].keys = <<>>
         \/ \E K \in ToSet(published) : ~Accepts(K, request'[h].token)]_request
BY NextRefuses DEF Refuses, Justified, Published

(* A request is refused only when some published key set does not accept its     *)
(* token, or when the keys it was checked against are none, out of an error     *)
(* document that replaced the cached set (jwt_validation.go:81-150,             *)
(* jwt_validation_utils.go:57-72).                                             *)
THEOREM RefusalsAreJustified == Spec => RefusalIsJustified
BY JVInvariant, StepsRefuseJustly, PTL DEF Spec, RefusalIsJustified

-------------------------------------------------------------------------------
(* The way of a request.                                                       *)

(* What the rules grant, said of the caller and not of the payload.             *)
GrantedBy(r, p) ==
  /\ \A c \in r.when : Shown(c)
  /\ \E g \in r.paths : Rbac!matchGlob(g, p)
  /\ Rbac!operationCategory[call.tool] \in r.operations

(* Without HTTP no request comes in through the middleware.                     *)
TransportInv ==
  /\ transport \in {"http", "stdio"}
  /\ transport # "http" => \A h \in Handlers : request[h] = Blank

(* The call that the engine is asked about carries what its own caller has      *)
(* shown: the claims of a token that a published key set accepts, or nothing.   *)
PathlessTools == {"process_status", "process_kill"} \cup Rbac!pathFreeTools
CallInv ==
  /\ bearer \in Tokens \cup {NoHeader, Malformed}
  /\ call.payload \in Claims \cup {NoPayload}
  /\ pc # "off" =>
       /\ call.tool \in Registered
       /\ call.paths = <<>> => call.tool \in PathlessTools
       /\ Validated => /\ bearer \in Tokens
                       /\ \E K \in Published : Accepts(K, bearer)
                       /\ call.payload = bearer.claims
       /\ ~Validated => call.payload = NoPayload

EngineTypeInv ==
  /\ call.paths \in Seq(Targets) /\ policy.rules \in Seq(Rbac!Rule)
  /\ pc \in {"off", "check", "path", "rule", "end"}
  /\ verdict \in {"none", "allow", "deny"} /\ (pc = "end" <=> verdict # "none")
  /\ path \in 1..(Len(call.paths) + 1) /\ rule \in 1..(Len(policy.rules) + 1)
  /\ pc = "check" => path = 1

(* The engine's loops: the paths and the rules left behind, and the verdict.    *)
EngineLoopInv ==
  /\ pc \in {"path", "rule"} =>
       ~Unrestricted /\ \A i \in 1..(path - 1) : Granted(call.paths[i])
  /\ pc = "rule" =>
       /\ path <= Len(call.paths)
       /\ \A i \in 1..(rule - 1) : ~GrantedBy(policy.rules[i], call.paths[path])
  /\ pc = "end" =>
       \/ /\ verdict = "allow"
          /\ Unrestricted \/ \A i \in 1..Len(call.paths) : Granted(call.paths[i])
       \/ /\ verdict = "deny" /\ ~Unrestricted
          /\ \E i \in 1..Len(call.paths) : ~Granted(call.paths[i])

EngineInv == EngineTypeInv /\ EngineLoopInv
SInv == JVInv /\ TransportInv /\ CallInv /\ EngineInv

-------------------------------------------------------------------------------
LEMMA CallsNameTargets ==
  ASSUME NEW c \in ClientCalls
  PROVE  /\ c.tool \in Registered /\ c.paths \in Seq(Targets)
         /\ c.paths = <<>> => c.tool \in PathlessTools
<1> DEFINE t == c.tool
           l == c.paths
<1>1. t \in Registered /\ l \in Rbac!PathLists(t)
  BY ServerAssumption
<1> HIDE DEF t, l
<1>2. CASE t = "diff"
  <2>1. Rbac!PathLists(t) = {<<p, q>> : p, q \in Targets}
    BY <1>2 DEF Rbac!PathLists, Rbac!pathFreeTools
  <2>2. PICK p \in Targets, q \in Targets : l = <<p, q>>
    BY <1>1, <2>1
  <2> QED
    BY <1>1, <2>2 DEF t, l
<1>3. CASE t # "diff" /\ t \in {"process_status", "process_kill"} \cup Rbac!pathFreeTools
  <2>1. Rbac!PathLists(t) = {<<>>}
    BY <1>3 DEF Rbac!PathLists
  <2> QED
    BY <1>1, <1>3, <2>1, EmptySeq DEF t, l, PathlessTools
<1>4. CASE t # "diff" /\ t \notin {"process_status", "process_kill"} \cup Rbac!pathFreeTools
  <2>1. Rbac!PathLists(t) = {<<p>> : p \in Targets}
    BY <1>4 DEF Rbac!PathLists
  <2>2. PICK p \in Targets : l = <<p>>
    BY <1>1, <2>1
  <2> QED
    BY <1>1, <2>2 DEF t, l
<1> QED
  BY <1>2, <1>3, <1>4

(* The engine knows every registered tool.                                     *)
LEMMA RegisteredAreKnown ==
  ASSUME NEW t \in Registered
  PROVE  t \in Rbac!pathFreeTools <=> t \notin DOMAIN Rbac!operationCategory
BY DEF Registered, Rbac!pathFreeTools, Rbac!operationCategory, Rbac!ReadTools,
       Rbac!WriteTools, Rbac!ExecTools

(* matchesWhen finds in the payload what the caller has shown.                  *)
LEMMA PayloadIsCaller ==
  ASSUME CallInv, pc # "off", NEW r
  PROVE  Rbac!matchesWhen(r, call.payload) <=> \A c \in r.when : Shown(c)
<1>1. CASE Validated
  <2>1. call.payload = bearer.claims /\ bearer.claims # NoPayload
    BY <1>1, JwtValidationAssumption DEF CallInv, Token
  <2>2. \A c : Shown(c) <=> call.payload[c] = "true"
    BY <1>1, <2>1 DEF Shown
  <2> QED
    BY <2>1, <2>2 DEF Rbac!matchesWhen
<1>2. CASE ~Validated
  <2>1. call.payload = NoPayload /\ \A c : ~Shown(c)
    BY <1>2 DEF CallInv, Shown
  <2> QED
    BY <2>1 DEF Rbac!matchesWhen
<1> QED
  BY <1>1, <1>2

LEMMA GrantIsMatch ==
  ASSUME CallInv, pc # "off", NEW r, NEW p
  PROVE  GrantedBy(r, p) <=>
           /\ Rbac!matchesWhen(r, call.payload)
           /\ Rbac!matchesPath(r, p)
           /\ Rbac!matchesOperation(r, Rbac!operationCategory[call.tool])
BY PayloadIsCaller DEF GrantedBy, Rbac!matchesPath, Rbac!matchesOperation

(* While the call, the configuration and the caller stay, so does what is       *)
(* granted.                                                                    *)
Same == UNCHANGED <<config, transport, bearer, call, policy>>
LEMMA SameGrants ==
  ASSUME EngineTypeInv, Same
  PROVE  /\ \A p : Granted(p)' <=> Granted(p)
         /\ \A r, p : GrantedBy(r, p)' <=> GrantedBy(r, p)
         /\ Unrestricted' <=> Unrestricted
         /\ Validated' <=> Validated
         /\ Len(call.paths) \in Nat /\ Len(policy.rules) \in Nat
<1>1. Validated' <=> Validated
  BY DEF Same, Validated
<1>2. \A c : Shown(c)' <=> Shown(c)
  BY <1>1 DEF Same, Shown
<1>3. \A r, p : GrantedBy(r, p)' <=> GrantedBy(r, p)
  BY <1>2 DEF Same, GrantedBy
<1>4. \A p : Granted(p) <=> \/ policy.fallback = "allow"
                            \/ \E r \in ToSet(policy.rules) : GrantedBy(r, p)
  BY DEF Granted, GrantedBy
<1>5. \A p : Granted(p)' <=> \/ policy'.fallback = "allow"
                             \/ \E r \in ToSet(policy'.rules) : GrantedBy(r, p)'
  BY DEF Granted, GrantedBy
<1>6. \A p : Granted(p)' <=> Granted(p)
  BY <1>3, <1>4, <1>5 DEF Same
<1>7. Unrestricted' <=> Unrestricted
  BY DEF Same, Unrestricted
<1>8. Len(call.paths) \in Nat /\ Len(policy.rules) \in Nat
  BY LenProperties DEF EngineTypeInv
<1> QED
  BY <1>1, <1>3, <1>6, <1>7, <1>8

-------------------------------------------------------------------------------
(* The engine's steps.                                                        *)

LEMMA EngineCheck ==
  ASSUME CallInv, EngineInv, Same, Rbac!Check
  PROVE  EngineInv'
<1>1. /\ pc = "check" /\ path = 1 /\ UNCHANGED <<path, rule>>
      /\ call.tool \in Registered
  BY DEF EngineInv, EngineTypeInv, CallInv, Rbac!Check, Rbac!Decide
<1>2. call.tool \in Rbac!pathFreeTools <=> call.tool \notin DOMAIN Rbac!operationCategory
  BY <1>1, RegisteredAreKnown
<1>3. \/ pc' = "end" /\ verdict' = "allow" /\ Unrestricted
      \/ pc' = "path" /\ verdict' = verdict /\ ~Unrestricted
  BY <1>2 DEF Rbac!Check, Rbac!Decide, Unrestricted
<1>4. EngineTypeInv'
  BY <1>1, <1>3 DEF Same, EngineInv, EngineTypeInv
<1>5. Unrestricted' <=> Unrestricted
  BY SameGrants DEF EngineInv
<1>6. EngineLoopInv'
  BY <1>1, <1>3, <1>5 DEF EngineLoopInv
<1> QED
  BY <1>4, <1>6 DEF EngineInv

LEMMA EngineNextPath ==
  ASSUME EngineInv, Same, Rbac!NextPath
  PROVE  EngineInv'
<1>1. pc = "path" /\ UNCHANGED path
  BY DEF Rbac!NextPath, Rbac!Decide
<1>2. /\ \A p : Granted(p)' <=> Granted(p)
      /\ Unrestricted' <=> Unrestricted
      /\ Len(call.paths) \in Nat /\ Len(policy.rules) \in Nat
  BY SameGrants DEF EngineInv
<1>3. ~Unrestricted /\ \A i \in 1..(path - 1) : Granted(call.paths[i])
  BY <1>1 DEF EngineInv, EngineLoopInv
<1>4. path \in 1..(Len(call.paths) + 1) /\ rule \in 1..(Len(policy.rules) + 1)
  BY DEF EngineInv, EngineTypeInv
<1>5. CASE path > Len(call.paths) /\ Rbac!Decide("allow")
  <2>1. EngineTypeInv'
    BY <1>1, <1>5 DEF Rbac!Decide, Same, EngineInv, EngineTypeInv
  <2>2. \A i \in 1..Len(call.paths) : Granted(call.paths[i])
    BY <1>2, <1>3, <1>4, <1>5
  <2>3. EngineLoopInv'
    BY <1>2, <1>5, <2>2 DEF Rbac!Decide, Same, EngineLoopInv
  <2> QED
    BY <2>1, <2>3 DEF EngineInv
<1>6. CASE path <= Len(call.paths) /\ pc' = "rule" /\ rule' = 1 /\ UNCHANGED <<path, verdict>>
  <2>1. EngineTypeInv'
    BY <1>1, <1>2, <1>6 DEF Same, EngineInv, EngineTypeInv
  <2>2. EngineLoopInv'
    BY <1>2, <1>3, <1>6 DEF Same, EngineLoopInv
  <2> QED
    BY <2>1, <2>2 DEF EngineInv
<1> QED
  BY <1>5, <1>6 DEF Rbac!NextPath

LEMMA EnginePathAllowed ==
  ASSUME EngineInv, Same, pc = "rule", Rbac!PathAllowed, Granted(call.paths[path])
  PROVE  EngineInv'
<1>1. /\ \A p : Granted(p)' <=> Granted(p)
      /\ Unrestricted' <=> Unrestricted
      /\ Len(call.paths) \in Nat
  BY SameGrants DEF EngineInv
<1>2. ~Unrestricted /\ \A i \in 1..(path - 1) : Granted(call.paths[i])
  BY DEF EngineInv, EngineLoopInv
<1>3. path \in 1..Len(call.paths) /\ pc' = "path" /\ path' = path + 1
  BY <1>1 DEF EngineInv, EngineTypeInv, EngineLoopInv, Rbac!PathAllowed
<1>4. EngineTypeInv'
  BY <1>1, <1>3 DEF Same, EngineInv, EngineTypeInv, Rbac!PathAllowed
<1>5. \A i \in 1..(path' - 1) : Granted(call.paths[i])
  BY <1>1, <1>2, <1>3
<1>6. EngineLoopInv'
  BY <1>1, <1>2, <1>3, <1>5 DEF Same, EngineLoopInv
<1> QED
  BY <1>4, <1>6 DEF EngineInv

LEMMA EngineTryRule ==
  ASSUME CallInv, EngineInv, Same, Rbac!TryRule
  PROVE  EngineInv'
<1> DEFINE r == policy.rules[rule]
           p == call.paths[path]
<1>1. pc = "rule" /\ rule <= Len(policy.rules)
  BY DEF Rbac!TryRule
<1>2. /\ \A q : Granted(q)' <=> Granted(q)
      /\ \A s, q : GrantedBy(s, q)' <=> GrantedBy(s, q)
      /\ Unrestricted' <=> Unrestricted
      /\ Len(call.paths) \in Nat /\ Len(policy.rules) \in Nat
  BY SameGrants DEF EngineInv
<1>3. rule \in 1..Len(policy.rules)
  BY <1>1, <1>2 DEF EngineInv, EngineTypeInv
<1>4. GrantedBy(r, p) <=> /\ Rbac!matchesWhen(r, call.payload)
                          /\ Rbac!matchesPath(r, p)
                          /\ Rbac!matchesOperation(r, Rbac!operationCategory[call.tool])
  BY <1>1, GrantIsMatch
<1>5. CASE GrantedBy(r, p)
  <2>1. Rbac!PathAllowed
    BY <1>4, <1>5 DEF Rbac!TryRule
  <2>2. r \in ToSet(policy.rules)
    BY <1>3, LenProperties DEF ToSet, EngineInv, EngineTypeInv
  <2>3. Granted(p)
    BY <1>5, <2>2 DEF Granted, GrantedBy
  <2> QED
    BY <1>1, <2>1, <2>3, EnginePathAllowed
<1>6. CASE ~GrantedBy(r, p)
  <2>1. rule' = rule + 1 /\ UNCHANGED <<pc, path, verdict>>
    BY <1>4, <1>6 DEF Rbac!TryRule
  <2>2. EngineTypeInv'
    BY <1>1, <1>2, <1>3, <2>1 DEF Same, EngineInv, EngineTypeInv
  <2>3. /\ ~Unrestricted /\ path <= Len(call.paths)
        /\ \A i \in 1..(path - 1) : Granted(call.paths[i])
    BY <1>1 DEF EngineInv, EngineLoopInv
  <2>4. \A i \in 1..(rule' - 1) : ~GrantedBy(policy.rules[i], p)
    BY <1>1, <1>3, <1>6, <2>1 DEF EngineInv, EngineLoopInv
  <2>5. EngineLoopInv'
    BY <1>1, <1>2, <2>1, <2>3, <2>4 DEF Same, EngineLoopInv
  <2> QED
    BY <2>2, <2>5 DEF EngineInv
<1> QED
  BY <1>5, <1>6

LEMMA EngineDefaultPolicy ==
  ASSUME EngineInv, Same, Rbac!DefaultPolicy
  PROVE  EngineInv'
<1> DEFINE p == call.paths[path]
<1>1. pc = "rule" /\ rule > Len(policy.rules)
  BY DEF Rbac!DefaultPolicy
<1>2. CASE policy.fallback = "allow"
  BY <1>1, <1>2, EnginePathAllowed DEF Rbac!DefaultPolicy, Granted
<1>3. CASE policy.fallback # "allow"
  <2>1. Rbac!Decide("deny")
    BY <1>3 DEF Rbac!DefaultPolicy
  <2>2. /\ \A q : Granted(q)' <=> Granted(q)
        /\ Unrestricted' <=> Unrestricted
        /\ Len(call.paths) \in Nat /\ Len(policy.rules) \in Nat
    BY SameGrants DEF EngineInv
  <2>3. path \in 1..Len(call.paths) /\ ~Unrestricted
    BY <1>1, <2>2 DEF EngineInv, EngineTypeInv, EngineLoopInv
  <2>4. \A i \in 1..Len(policy.rules) : ~GrantedBy(policy.rules[i], p)
    BY <1>1, <2>2 DEF EngineInv, EngineTypeInv, EngineLoopInv
  <2>5. ToSet(policy.rules) = {policy.rules[i] : i \in 1..Len(policy.rules)}
    BY LenProperties DEF ToSet, EngineInv, EngineTypeInv
  <2>6. ~Granted(p)
    BY <1>3, <2>4, <2>5 DEF Granted, GrantedBy
  <2>7. EngineTypeInv'
    BY <1>1, <2>1 DEF Rbac!Decide, Same, EngineInv, EngineTypeInv
  <2>8. EngineLoopInv'
    BY <1>1, <2>1, <2>2, <2>3, <2>6 DEF Rbac!Decide, Same, EngineLoopInv
  <2> QED
    BY <2>7, <2>8 DEF EngineInv
<1> QED
  BY <1>2, <1>3

-------------------------------------------------------------------------------
(* A step of the middleware, its worker or the provider leaves the call that is  *)
(* being checked to itself.                                                    *)
LEMMA MiddlewareStep ==
  ASSUME SInv, [Next]_vars, UNCHANGED <<transport, bearer, rbacVars>>, TransportInv'
  PROVE  SInv'
<1>1. JVInv' /\ UNCHANGED config /\ Published \subseteq Published'
  BY JVInvNext, PublishedGrows DEF SInv, JVInv
<1>2. Same /\ UNCHANGED <<pc, path, rule, verdict>>
  BY <1>1 DEF Same, rbacVars
<1>3. /\ \A p : Granted(p)' <=> Granted(p)
      /\ \A r, p : GrantedBy(r, p)' <=> GrantedBy(r, p)
      /\ (Unrestricted' <=> Unrestricted) /\ (Validated' <=> Validated)
  BY <1>2, SameGrants DEF SInv, EngineInv
<1>4. CallInv'
  BY <1>1, <1>2, <1>3 DEF Same, SInv, CallInv
<1>5. EngineTypeInv'
  BY <1>2 DEF Same, SInv, EngineInv, EngineTypeInv
<1>6. EngineLoopInv'
  BY <1>2, <1>3 DEF Same, SInv, EngineInv, EngineLoopInv
<1> QED
  BY <1>1, <1>4, <1>5, <1>6 DEF SInv, EngineInv

LEMMA SInvCheckStep == SInv /\ CheckStep => SInv'
<1> SUFFICES ASSUME SInv, CheckStep PROVE SInv'
  OBVIOUS
<1>1. /\ Rbac!Check \/ Rbac!NextPath \/ Rbac!TryRule \/ Rbac!DefaultPolicy
      /\ UNCHANGED <<vars, transport, bearer>>
  BY DEF CheckStep, Rbac!Next
<1>2. UNCHANGED <<call, policy>> /\ pc # "off"
  BY <1>1 DEF Rbac!Check, Rbac!NextPath, Rbac!TryRule, Rbac!DefaultPolicy
<1>3. Same
  BY <1>1, <1>2 DEF Same, vars
<1>4. EngineInv'
  BY <1>1, <1>3, EngineCheck, EngineNextPath, EngineTryRule, EngineDefaultPolicy DEF SInv
<1>5. JVInv' /\ Published' = Published
  BY <1>1, JVInvNext DEF SInv, vars, Published
<1>6. TransportInv'
  BY <1>1 DEF SInv, TransportInv, vars, Blank
<1>7. CallInv'
  <2>1. Validated' <=> Validated
    BY <1>3 DEF Same, Validated
  <2> QED
    BY <1>2, <1>3, <1>5, <2>1 DEF Same, SInv, CallInv
<1> QED
  BY <1>4, <1>5, <1>6, <1>7 DEF SInv

(* A tool call that comes in with its caller's token, or without one.           *)
LEMMA HandleStep ==
  ASSUME SInv, NEW c \in ClientCalls, NEW payload \in Claims \cup {NoPayload},
         Handle(c, payload), UNCHANGED <<config, published, transport, policy>>,
         JVInv', TransportInv', bearer' \in Tokens \cup {NoHeader, Malformed},
         Validated => /\ bearer' \in Tokens /\ payload = bearer'.claims
                      /\ \E K \in Published : Accepts(K, bearer'),
         ~Validated => payload = NoPayload
  PROVE  SInv'
<1>1. /\ call'.tool = c.tool /\ call'.paths = c.paths /\ call'.payload = payload
      /\ path' = 1 /\ rule' = 1
      /\ \/ c.tool \in Rbac!pathFreeTools /\ pc' = "end" /\ verdict' = "allow"
         \/ pc' = "check" /\ verdict' = "none"
  BY DEF Handle, Rbac!pathFreeTools
<1>2. /\ c.tool \in Registered /\ c.paths \in Seq(Targets)
      /\ c.paths = <<>> => c.tool \in PathlessTools
  BY CallsNameTargets
<1>3. (Validated' <=> Validated) /\ Published' = Published
  BY DEF Validated, Published
<1>4. CallInv'
  BY <1>1, <1>2, <1>3 DEF CallInv
<1>5. Len(c.paths) \in Nat /\ Len(policy.rules) \in Nat
  BY <1>2, LenProperties DEF SInv, EngineInv, EngineTypeInv
<1>6. EngineTypeInv'
  BY <1>1, <1>2, <1>5 DEF SInv, EngineInv, EngineTypeInv
<1>7. EngineLoopInv'
  BY <1>1 DEF EngineLoopInv, Unrestricted
<1> QED
  BY <1>4, <1>6, <1>7 DEF SInv, EngineInv

LEMMA SInvDispatch ==
  ASSUME SInv, NEW h \in Handlers, Dispatch(h)
  PROVE  SInv'
<1>1. /\ request[h].reply = "next" /\ request' = [request EXCEPT ![h] = Blank]
      /\ bearer' = request[h].token
      /\ UNCHANGED <<config, booted, published, worker, jwks, transport, policy>>
  BY DEF Dispatch
<1>2. PICK c \in ClientCalls : Handle(c, request[h].payload)
  BY DEF Dispatch, ContextPayload
<1>3. request[h] \in Request /\ Served(request[h])
  BY DEF SInv, JVInv, RequestInv
<1>4. RequestInv(Blank)
  BY DEF Blank, Request, RequestInv, Underway, Served
<1>5. JVInv'
  BY <1>1, <1>4, RequestStep DEF SInv
<1>6. transport = "http"
  BY <1>1 DEF SInv, TransportInv, Blank
<1>7. TransportInv'
  BY <1>1, <1>6 DEF TransportInv
<1>8. /\ request[h].payload \in Claims \cup {NoPayload}
      /\ request[h].token \in Tokens \cup {NoHeader, Malformed}
  BY <1>3 DEF Request
<1>9. /\ Validated => /\ request[h].token \in Tokens
                      /\ request[h].payload = request[h].token.claims
                      /\ \E K \in Published : Accepts(K, request[h].token)
      /\ ~Validated => request[h].payload = NoPayload
  BY <1>1, <1>3, <1>6, <1>8 DEF Validated, Served, Accepts, HasIdAndAlg
<1> QED
  BY <1>1, <1>2, <1>5, <1>7, <1>8, <1>9, HandleStep

LEMMA SInvDispatchStdio == SInv /\ DispatchStdio => SInv'
<1> SUFFICES ASSUME SInv, DispatchStdio PROVE SInv'
  OBVIOUS
<1>1. /\ transport # "http" /\ bearer' = NoHeader /\ UNCHANGED <<vars, transport, policy>>
  BY DEF DispatchStdio
<1>2. PICK c \in ClientCalls : Handle(c, NoPayload)
  BY DEF DispatchStdio
<1>3. JVInv'
  BY <1>1, JVInvNext DEF SInv
<1>4. TransportInv'
  BY <1>1 DEF SInv, TransportInv, vars, Blank
<1>5. ~Validated
  BY <1>1 DEF Validated
<1> QED
  BY <1>1, <1>2, <1>3, <1>4, <1>5, HandleStep DEF vars

LEMMA SInvFinish == SInv /\ Finish => SInv'
<1> SUFFICES ASSUME SInv, Finish PROVE SInv'
  OBVIOUS
<1>1. /\ pc' = "off" /\ verdict' = "none" /\ path' = 1 /\ rule' = 1
      /\ bearer' = NoHeader /\ call' = NoCall
      /\ UNCHANGED <<vars, transport, policy>>
  BY DEF Finish
<1>2. JVInv'
  BY <1>1, JVInvNext DEF SInv
<1>3. TransportInv'
  BY <1>1 DEF SInv, TransportInv, vars, Blank
<1>4. CallInv'
  BY <1>1 DEF CallInv, NoCall
<1>5. EngineTypeInv'
  <2>1. Len(policy.rules) \in Nat /\ Len(NoCall.paths) = 0 /\ NoCall.paths \in Seq(Targets)
    BY LenProperties, EmptySeq DEF SInv, EngineInv, EngineTypeInv, NoCall
  <2> QED
    BY <1>1, <2>1 DEF SInv, EngineInv, EngineTypeInv
<1>6. EngineLoopInv'
  BY <1>1 DEF EngineLoopInv
<1> QED
  BY <1>2, <1>3, <1>4, <1>5, <1>6 DEF SInv, EngineInv

-------------------------------------------------------------------------------
LEMMA SInvInit == ServerInit => SInv
<1> SUFFICES ASSUME ServerInit PROVE SInv
  OBVIOUS
<1>1. JVInv
  BY JVInvInit DEF ServerInit
<1>2. TransportInv
  BY DEF ServerInit, TransportInv, Init
<1>3. CallInv
  BY DEF ServerInit, CallInv, NoCall
<1>4. policy.rules \in Seq(Rbac!Rule)
  BY ServerAssumption, EmptySeq DEF ServerInit, Rbac!PolicyInit
<1>5. EngineTypeInv
  <2>1. Len(policy.rules) \in Nat /\ Len(NoCall.paths) = 0 /\ NoCall.paths \in Seq(Targets)
    BY <1>4, LenProperties, EmptySeq DEF NoCall
  <2> QED
    BY <1>4, <2>1 DEF ServerInit, EngineTypeInv
<1>6. EngineLoopInv
  BY DEF ServerInit, EngineLoopInv
<1> QED
  BY <1>1, <1>2, <1>3, <1>5, <1>6 DEF SInv, EngineInv

LEMMA SInvNext == SInv /\ [ServerNext]_serverVars => SInv'
<1> SUFFICES ASSUME SInv, [ServerNext]_serverVars PROVE SInv'
  OBVIOUS
<1>1. ASSUME Boot \/ Provider \/ Worker, UNCHANGED <<transport, bearer, rbacVars>>
      PROVE  SInv'
  <2>1. UNCHANGED request
    BY <1>1 DEF Boot, Provider, Rotate, AnswerKeys, AnswerOtherwise,
                Worker, Decode, Publish, Nap
  <2>2. TransportInv'
    BY <1>1, <2>1 DEF SInv, TransportInv, Blank
  <2> QED
    BY <1>1, <2>2, MiddlewareStep DEF Next
<1>2. ASSUME NEW h \in Handlers, NEW t \in Tokens \cup {NoHeader, Malformed}, Receive(h, t)
      PROVE  SInv'
  <2>1. TransportInv'
    BY <1>2 DEF Receive, TransportInv
  <2> QED
    BY <1>2, <2>1, MiddlewareStep DEF Receive, Next
<1>3. ASSUME NEW h \in Handlers, Validate(h), UNCHANGED <<transport, bearer, rbacVars>>
      PROVE  SInv'
  <2>1. request[h].pc # "idle"
    BY <1>3 DEF Validate, TakeKeys, Match, Verify, AllowConditions, At
  <2>2. transport = "http"
    BY <2>1 DEF SInv, TransportInv, Blank
  <2>3. TransportInv'
    BY <1>3, <2>2 DEF TransportInv
  <2> QED
    BY <1>3, <2>3, MiddlewareStep DEF Next
<1>4. ASSUME UNCHANGED serverVars PROVE SInv'
  <2>1. UNCHANGED vars /\ UNCHANGED <<transport, bearer, rbacVars>>
    BY <1>4 DEF serverVars
  <2>2. TransportInv'
    BY <2>1 DEF SInv, TransportInv, vars, Blank
  <2> QED
    BY <2>1, <2>2, MiddlewareStep
<1> QED
  BY <1>1, <1>2, <1>3, <1>4, SInvDispatch, SInvDispatchStdio, SInvCheckStep, SInvFinish
     DEF ServerNext

(* The engine is asked about the caller whose token was verified, and what its  *)
(* loops have left behind stays true of that caller.                          *)
THEOREM ServerInvariant == ServerSpec => []SInv
BY SInvInit, SInvNext, PTL DEF ServerSpec

(* Every variable keeps to its type; the engine has given a verdict exactly when *)
(* it is at the end of Check.                                                  *)
THEOREM ServerTypeCorrect == ServerSpec => []ServerTypeOK
<1>1. SInv => ServerTypeOK
  <2> SUFFICES ASSUME SInv PROVE ServerTypeOK
    OBVIOUS
  <2>1. TypeOK
    BY JVInvGives DEF SInv
  <2> QED
    BY <2>1 DEF SInv, TransportInv, CallInv, EngineInv, EngineTypeInv, ServerTypeOK
<1> QED
  BY <1>1, ServerInvariant, PTL

(* A tool runs only for a caller whose own token, where tokens are validated, is *)
(* signed with a published key and meets the conditions, only on paths that the *)
(* rules grant to that caller, and, the two process tools without a path apart, *)
(* only with an operation that they give (jwt_validation.go:81, rbac.go:89).     *)
THEOREM RunsAreAuthorised == ServerSpec => []RunIsAuthorised
<1>1. SInv => RunIsAuthorised
  <2> SUFFICES ASSUME SInv, pc = "end", verdict = "allow"
               PROVE  /\ Validated => \E K \in ToSet(published) : Accepts(K, bearer)
                      /\ Unrestricted \/ \A p \in ToSet(call.paths) : Granted(p)
                      /\ Unrestricted \/ MayUse
                           \/ call.tool \in {"process_status", "process_kill"}
    BY DEF RunIsAuthorised
  <2>1. Validated => \E K \in ToSet(published) : Accepts(K, bearer)
    BY DEF SInv, CallInv, Published
  <2>2. Unrestricted \/ \A i \in 1..Len(call.paths) : Granted(call.paths[i])
    BY DEF SInv, EngineInv, EngineLoopInv
  <2>3. ToSet(call.paths) = {call.paths[i] : i \in 1..Len(call.paths)}
    BY LenProperties DEF ToSet, SInv, EngineInv, EngineTypeInv
  <2>4. call.paths # <<>> \/ Unrestricted \/ call.tool \in {"process_status", "process_kill"}
    BY DEF SInv, CallInv, PathlessTools, Unrestricted
  <2>5. call.paths # <<>> => 1 \in 1..Len(call.paths)
    BY LenProperties, EmptySeq DEF SInv, EngineInv, EngineTypeInv
  <2>6. \A p \in Targets : Granted(p) => MayUse
    BY DEF Granted, MayUse
  <2>7. call.paths # <<>> => call.paths[1] \in Targets
    BY <2>5, ElementOfSeq DEF SInv, EngineInv, EngineTypeInv
  <2> QED
    BY <2>1, <2>2, <2>3, <2>4, <2>5, <2>6, <2>7
<1> QED
  BY <1>1, ServerInvariant, PTL

(* A registered tool is refused only because of a path that the rules do not     *)
(* grant to its caller (tools.go:41-219, rbac.go:89).                           *)
THEOREM DenialsAreJustified == ServerSpec => []DenialIsJustified
<1>1. SInv => DenialIsJustified
  <2> SUFFICES ASSUME SInv, pc = "end", verdict = "deny"
               PROVE  ~Unrestricted /\ \E p \in ToSet(call.paths) : ~Granted(p)
    BY DEF DenialIsJustified
  <2>1. ~Unrestricted /\ \E i \in 1..Len(call.paths) : ~Granted(call.paths[i])
    BY DEF SInv, EngineInv, EngineLoopInv
  <2>2. ToSet(call.paths) = {call.paths[i] : i \in 1..Len(call.paths)}
    BY LenProperties DEF ToSet, SInv, EngineInv, EngineTypeInv
  <2> QED
    BY <2>1, <2>2
<1> QED
  BY <1>1, ServerInvariant, PTL

LEMMA ServerStepsRefuseJustly ==
  SInv /\ [ServerNext]_serverVars =>
    [\A h \in Handlers :
       request'[h] # request[h] /\ request'[h].reply = "unauthorized" =>
         \/ "document" \in Faults /\ request[h].keys = <<>>
         \/ \E K \in ToSet(published) : ~Accepts(K, request'[h].token)]_request
<1> SUFFICES ASSUME SInv, [ServerNext]_serverVars, NEW h \in Handlers, Refuses(h)
             PROVE  Justified(h)
  BY DEF Refuses, Justified, Published
<1>1. CASE [Next]_vars
  BY <1>1, NextRefuses DEF SInv
<1>2. ASSUME NEW g \in Handlers, Dispatch(g) PROVE FALSE
  <2>1. request \in [Handlers -> Request] /\ request' = [request EXCEPT ![g] = Blank]
    BY <1>2 DEF SInv, JVInv, Dispatch
  <2> QED
    BY <2>1 DEF Refuses, Blank
<1>3. [Next]_vars \/ \E g \in Handlers : Dispatch(g)
  BY DEF ServerNext, Next, Receive, DispatchStdio, CheckStep, Finish, serverVars
<1> QED
  BY <1>1, <1>2, <1>3

(* The middleware's promises, of the whole server.                             *)
THEOREM ServerServesTheVerified ==
  ServerSpec => []ServedIsVerified /\ RefusalIsJustified
<1>1. SInv => ServedIsVerified
  BY JVInvGives DEF SInv
<1> QED
  BY <1>1, ServerInvariant, ServerStepsRefuseJustly, PTL DEF ServerSpec, RefusalIsJustified
===============================================================================
