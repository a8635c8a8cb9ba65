\* Two card requests of one student; two authorisations.
CONSTANTS
  u1 = u1
  u2 = u2
  t1 = t1
  t2 = t2
  NoTxn = NoTxn
  NoRef = NoRef
  User = {u1, u2}
  Txn = {t1, t2}
  ManualRail = {}
  Ref = {r1, r2}
  Digest = {}
  Owner <- OneOwner
  RailOf <- CardRail
SPECIFICATION Spec
PROPERTY DecidesAsPromised
INVARIANTS
  CaptureIsBooked
