----------------------------- MODULE MCIdempotency -----------------------------
(***************************************************************************)
(* Three requests of one key (the first, a retry with the same body and    *)
(* one with another body) and a request with a key of its own.             *)
(***************************************************************************)
EXTENDS Idempotency, TLC

CONSTANTS k1, k2, first, retry, changed, other, b1, b2

MCKeyOf == first :> k1 @@ retry :> k1 @@ changed :> k1 @@ other :> k2
MCBodyOf == first :> b1 @@ retry :> b1 @@ changed :> b2 @@ other :> b1

\* Nothing tells the first request from its retry.
MCSymmetry == Permutations({first, retry})
=============================================================================
