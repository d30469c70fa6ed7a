\* Recommendations are made of profiles and of a Want that is found or not; interactions are
\* upgraded by proposals that were made or not.
CONSTANTS
  ProfileOwners = {o1, o2, o3}
  NoProfile = NoProfile
  Bodies <- CBodies
  Filters <- CFilters
  MaxProfiles = 2
  MaxProposals = 1
  MaxInteractions = 3
  MaxRounds = 2
SPECIFICATION PeersSpec
SYMMETRY OwnerSymmetry
INVARIANTS
  RecommendationsAnswer
  UpgradesWereProposed
CONSTRAINT OnePartAtATime
CHECK_DEADLOCK FALSE
