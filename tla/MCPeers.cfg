\* Three profiles, two of which fit in the store, and three interactions.
CONSTANTS
  ProfileOwners = {o1, o2, o3}
  NoProfile = NoProfile
  Bodies <- CBodies
  Filters <- CFilters
  MaxProfiles = 2
  MaxProposals = 1
  MaxInteractions = 3
  MaxRounds = 2
SPECIFICATION PeersSpec
SYMMETRY OwnerSymmetry
INVARIANTS
  UpgradedByAcceptance
PROPERTIES
  SearchFindsBest
CONSTRAINT OnePartAtATime
CHECK_DEADLOCK FALSE
