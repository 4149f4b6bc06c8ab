SPECIFICATION Spec
CONSTANTS
  a1 = a1
  a2 = a2
  b1 = b1
  b2 = b2
  j = j
  r = r
  NoAtom = NoAtom
  NoGroup = "none"
  Atoms = {a1, a2, b1, b2}
  ScanOrder <- MCScanOrder
  GroupOf <- MCGroupOf
  CreatedAt <- MCCreatedAt
  Worlds <- MCWorlds
  Passes = {j, r}
  Jobs = {j}
  PageSize = 3
  Ids = {1, 2, 3, 4}
INVARIANT Survivor
PROPERTIES AcceptedMeansMerged RejectionStands StaleProposalsLeave GroupsHaveTheirTurn
