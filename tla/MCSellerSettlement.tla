------------------------- MODULE MCSellerSettlement -------------------------
(* Small instances of SellerSettlement: payment by hand whatever happens     *)
(* around it, payment through the gateway while handlers may die, and        *)
(* payment through a gateway whose answers get lost, repeated or reversed.   *)
EXTENDS SellerSettlement, TLC

CONSTANTS q1, q2, q3, k1, k2, h1, h2

ByHand == [modes |-> {"MANUAL"}, surprises |-> Surprises]
Dying == [modes |-> {"AUTOMATIC"}, surprises |-> {"crash"}]
Undisturbed == [modes |-> Modes, surprises |-> {}]
Unreliable == [modes |-> {"AUTOMATIC"}, surprises |-> {"lost", "redelivered", "reversed"}]
AnswerLost == [modes |-> {"AUTOMATIC"}, surprises |-> {"lost"}]

HandOrDying == {ByHand, Dying}
AnyGateway == {Undisturbed, Unreliable}
OnlyAnswerLost == {AnswerLost}

MCSettlementPerms == Permutations(Handlers)
=============================================================================
