-------------------------- MODULE MCPaymentGateway --------------------------
(* Instances of PaymentGateway for TLC. u1 and u2 are students and, for each *)
(* other, staff.                                                             *)
EXTENDS PaymentGateway, TLC

CONSTANTS u1, u2, t1, t2

\* One student asks twice, or two students ask once each.
OneOwner == [t \in Txn |-> u1]
TwoOwners == t1 :> u1 @@ t2 :> u2

BankRail == [t \in Txn |-> "bank_transfer"]
CardRail == [t \in Txn |-> Cmi]

\* References play the same part in every action.
RefSymmetry == Permutations(Ref)
=============================================================================
