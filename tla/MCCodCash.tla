----------------------------- MODULE MCCodCash -----------------------------
(* Small instances of CodCash: the rider's side with overlapping handlers,  *)
(* with handlers that die, and the store's and a rider's order undisturbed. *)
EXTENDS CodCash, TLC

CONSTANTS h1, h2

RidersCash == (1 :> 2) @@ (2 :> 1)

With(orders, payments, amount, surprises) ==
  [orders |-> orders, payments |-> payments, amount |-> amount, surprises |-> surprises]
MCSettings ==
  { With({1, 2}, 0, 4, {"together"}), With({1}, 1, 4, {"together"}),
    With({3}, 0, 0, {"together"}), With({1, 2}, 1, 4, {"crash"}),
    With({1}, 2, 4, {}), With({1, 2}, 1, 4, {}), With({3, 4}, 1, 4, {}),
    With({1, 3}, 1, 4, {}) }
=============================================================================
