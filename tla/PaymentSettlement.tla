-------------------------- MODULE PaymentSettlement --------------------------
(***************************************************************************)
(* What finance is promised about payment requests, without handlers,      *)
(* locks or deadlines: a request is decided at most once, for good; a      *)
(* provider's reference decides at most one request of its rail; a student *)
(* becomes pro exactly when a payment of theirs is confirmed.              *)
(***************************************************************************)
CONSTANTS Txn, Ref, NoRef, Owner, RailOf, Verdict

VARIABLES
  verdict,  \* the decision about a request, or "open"
  basis,    \* the reference a decision rests on, NoRef if it rests on staff
  pro       \* the users with pro access

svars == <<verdict, basis, pro>>

Init ==
  /\ verdict = [t \in Txn |-> "open"]
  /\ basis = [t \in Txn |-> NoRef]
  /\ pro = {}

\* The decision rests on a reference that no request of the rail rests on, or
\* on a member of staff.
Decide(t, v) ==
  /\ verdict[t] = "open"
  /\ verdict' = [verdict EXCEPT ![t] = v]
  /\ pro' = IF v = "payment_confirmed" THEN pro \cup {Owner[t]} ELSE pro
  /\ \/ UNCHANGED basis
     \/ \E r \in Ref : /\ \A s \in Txn : RailOf[s] = RailOf[t] => basis[s] # r
                       /\ basis' = [basis EXCEPT ![t] = r]

Next == \E t \in Txn, v \in Verdict : Decide(t, v)

Spec == Init /\ [][Next]_svars
=============================================================================
