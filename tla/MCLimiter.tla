----------------------------- MODULE MCLimiter ------------------------------
(***************************************************************************)
(* Instances of Limiter for TLC.  Three requests share key k1, so that two *)
(* of them can queue behind the third; the others reach the global limit   *)
(* by themselves, with a key of their own or with none.                    *)
(***************************************************************************)
EXTENDS Limiter, TLC

CONSTANTS r1, r2, r3, r4, r5, k1, k2

MixedKeyOf == r1 :> k1 @@ r2 :> k1 @@ r3 :> k1 @@ r4 :> k2 @@ r5 :> NoKey

(* Two requests with one key and two others, for liveness. *)
PairKeyOf == r1 :> k1 @@ r2 :> k1 @@ r4 :> k2 @@ r5 :> NoKey

(* r1, r2 and r3 are alike in MixedKeyOf; not used for liveness. *)
Symmetry == Permutations({r1, r2, r3})
=============================================================================
