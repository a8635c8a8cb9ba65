\* A student whose bank request is followed by a second one; one bank
\* reference, which either request may be reconciled with; one proof.
CONSTANTS
  u1 = u1
  u2 = u2
  t1 = t1
  t2 = t2
  NoTxn = NoTxn
  NoRef = NoRef
  User = {u1, u2}
  Txn = {t1, t2}
  ManualRail = {"bank_transfer"}
  Ref = {r1}
  Digest = {d1}
  Owner <- OneOwner
  RailOf <- BankRail
SPECIFICATION Spec
INVARIANTS
  TypeOK
  OpenRequests
  OneVerdict
  StatusFollowsLedger
  ReferenceSettlesOne
  RefsAreRecorded
  ProIsPaidFor
  ProofsAreListed
PROPERTIES
  DecidedIsFinal
  DecidesAsPromised
