\* An update of the card and a purchase that keeps its card, two handlers.
SPECIFICATION FairSpec
CONSTANTS
  u1 = u1
  p1 = p1
  w1 = w1
  w2 = w2
  Updates <- OneUpdate
  Purchases <- OnePurchase
  Workers <- TwoHandlers
  NoCard = NoCard
  FirstCard = FirstCard
  NoPage = NoPage
INVARIANTS
  FailureNeedsLiveResult
PROPERTIES
  SavedCardSpec
  StoredIsShown
  PollRecovers
\* An owner who has the answer stops asking.
CHECK_DEADLOCK FALSE
