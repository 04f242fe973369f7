SPECIFICATION FairSpec
CONSTANTS
  h = h
  Topics = {h}
  Hidden = {h}
  Batches <- McNoBatches
  ChangeLimit = 1
PROPERTIES Fresh
