\* Every question, over every input of a small size.
CONSTANTS
  Inputs <- MCInputs
  Keys <- MCKeys
  Lists <- MCLists
  Roots <- MCRoots
  Names = {"r", "l"}
  Files = {1, 2, 3}
  MaxVersion = 2
  MaxOthers = 3
  Statuses <- MCStatuses
  Listings <- MCListings
  Version = "new"
  Absent = Absent
  Releases <- MCReleases
  Instants = {1, 2}
  Offsets = {0, 2}
  Limits = {1, 2}
  MaxEmitted = 2
SPECIFICATION MCSpec
INVARIANTS
  PlanIsRight
  PollsAreJudged
  ObservedIsTrue
  PromotionIsWatched
  DependenciesAreFresh
  ListingIsRight
  
  CheckIsHonest
  SchemasAreTrue
  LocalInstallIsSafe
\* A plan is compiled once, and a selection is made once.
CHECK_DEADLOCK FALSE
