----------------------------- MODULE MCCheckout -----------------------------
(* Small instances of Checkout: two requests of one customer who may use the *)
(* coupon once, of two customers for a coupon with one use, or for the last  *)
(* unit, under one kind of fault at a time; one request that is sent until   *)
(* it is answered, while processes die and its key is forgotten.             *)
EXTENDS Checkout, TLC

CONSTANTS k1, k2, o1, o2, o3, h1, h2, c1, c2

Paying(customer, fromCart, withCoupon, online) ==
  [customer |-> customer, fromCart |-> fromCart, coupon |-> withCoupon, wallet |-> online,
   online |-> online]

OneCoupon == (k1 :> Paying(c1, TRUE, TRUE, TRUE)) @@ (k2 :> Paying(c1, FALSE, TRUE, FALSE))
LastCoupon == (k1 :> Paying(c1, TRUE, TRUE, TRUE)) @@ (k2 :> Paying(c2, FALSE, TRUE, FALSE))
OneUnit == (k1 :> Paying(c1, TRUE, TRUE, TRUE)) @@ (k2 :> Paying(c1, TRUE, FALSE, FALSE))
OneRequest == k1 :> Paying(c1, TRUE, TRUE, TRUE)

With(requests, limit, surprises) ==
  [requests |-> requests, usageLimit |-> limit, surprises |-> surprises]

OneFaultAtATime ==
  { With(OneCoupon, 2, {"doubled", "expired", "unknownCommit"}),
    With(OneCoupon, 2, {"staleCancel", "crash"}),
    With(LastCoupon, 1, {"crash"}),
    With(OneUnit, 2, {"doubled"}), With(OneUnit, 2, {"cacheDown"}),
    With(OneUnit, 2, {"crash"}), With(OneUnit, 2, {"cleanup"}) }
Dying == {With(OneRequest, 2, {"staleCancel", "crash", "cleanup"})}

MCHandlerPerms == Permutations(Handlers)
=============================================================================
