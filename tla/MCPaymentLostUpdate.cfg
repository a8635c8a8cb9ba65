\* An approval races a student who looks at an expired request.
CONSTANTS
  u1 = u1
  u2 = u2
  t1 = t1
  t2 = t2
  NoTxn = NoTxn
  NoRef = NoRef
  User = {u1, u2}
  Txn = {t1, t2}
  ManualRail = {"bank_transfer"}
  Ref = {r1}
  Digest = {}
  Owner <- TwoOwners
  RailOf <- BankRail
SPECIFICATION Spec
INVARIANT PaidStaysPaid
