-------------------------- MODULE MCPaymentCapture --------------------------
(* Small instances of PaymentCapture: model values for the orders of a       *)
(* checkout, payment attempts, charges and handlers.                         *)
EXTENDS PaymentCapture, TLC

CONSTANTS o1, o2, g1, g2, c1, c2, h1, h2

MCPaymentPerms ==
  Permutations(Orders) \cup Permutations(Payments) \cup Permutations(Charges)
    \cup Permutations(Handlers)
=============================================================================
