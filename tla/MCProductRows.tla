--------------------------- MODULE MCProductRows ---------------------------
(***************************************************************************)
(* Three orders: A and B both contain the product p, which has a price in  *)
(* A only; C shares nothing with them.                                     *)
(***************************************************************************)
EXTENDS ProductRows, TLC

CONSTANTS A, B, C, p, q, r

SharedItems == (A :> {p, q}) @@ (B :> {p}) @@ (C :> {r})

SharedPrices == (A :> {p, q}) @@ (B :> {}) @@ (C :> {r})

CallSymmetry == Permutations(Calls)
=============================================================================
