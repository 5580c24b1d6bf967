---------------------------- MODULE MCJwtValidation ----------------------------
(* JwtValidation for TLC: a provider that goes over from one key to another by *)
(* way of a set with both; keys without a use or an algorithm, one that is not  *)
(* for signatures, one that cannot be used and a symmetric one.                *)
EXTENDS JwtValidation, TLC

CONSTANTS old, new, rs, hs, ps, s1, s2, h1, aUser

MCFamily == rs :> "RSA" @@ hs :> "oct"

K(kid, kty, use, alg, secret) ==
  [kid |-> kid, kty |-> kty, use |-> use, alg |-> alg, secret |-> secret]
OldKey == K(old, "RSA", "sig", rs, s1)
NewKey == K(new, "RSA", "", None, s2)

MCKeySets ==
  {<<OldKey>>, <<OldKey, NewKey>>,
   <<K(new, "RSA", "enc", rs, s1), NewKey>>,
   <<K(new, "RSA", "enc", rs, s1), K(new, "EC", "sig", rs, None),
     K(old, "oct", "", hs, s2)>>}
FewKeySets == {<<OldKey>>, <<OldKey, NewKey>>, <<NewKey>>}

T(kid, alg, signer, meets, claims) ==
  [kid |-> kid, alg |-> alg, signer |-> signer, meets |-> meets, claims |-> claims]
OneToken == {T(old, rs, s1, TRUE, aUser)}
===============================================================================
