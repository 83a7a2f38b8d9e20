SPECIFICATION Spec
CONSTANTS
  Slots = {s1}
  Accounts = {ann, bob}
  None = None
  Stranger = Stranger
  MaxClaims = 2
  MaxQuota = 1
  MaxLate = 1
  PartialWipe = FALSE
INVARIANT FreeMeansWiped
