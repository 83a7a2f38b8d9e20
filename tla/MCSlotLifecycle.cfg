SPECIFICATION TwoFleets
CONSTANTS
  s1 = s1
  s2 = s2
  ann = ann
  bob = bob
  Slots = {s1, s2}
  Accounts = {ann, bob}
  None = None
  Stranger = Stranger
  MaxClaims = 2
  MaxQuota = 1
  MaxLate = 1
  PartialWipe = TRUE
SYMMETRY FleetSymmetry
INVARIANT ReadyMeansBuilt
PROPERTIES GenerationTellsHoldersApart ClaimsWithinQuota
