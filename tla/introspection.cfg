SPECIFICATION FairSpec
CONSTANTS
  h = h
  Topics = {h}
  Hidden = {h}
  Batches <- McBatches
  ChangeLimit = 1
INVARIANTS TypeOK ThreadFollowsFlag SnapshotConsistent
PROPERTIES CallbackReturns NotifiedIsShown
