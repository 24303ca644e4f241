\* Two permissions, pending at the same time or one after the other.
CONSTANTS
  Offers <- MCOffers
  MaxAsks = 2
  MaxUpdates = 1
  MaxFailures = 2
SPECIFICATION FairSpec
INVARIANTS AsksShown AnsweredOnce DecisionMeansItself
PROPERTIES EndNoticed
CHECK_DEADLOCK FALSE
