SPECIFICATION Spec
CONSTANTS
  a = a
  b = b
  none = none
  one = one
  two = two
  broken = broken
  Topics = {a, b}
  Texts <- McTexts
  Malformed = {broken}
  Parsed <- McParsed
  Unknown = {b}
  Intervals = {TRUE, FALSE}
  Batches <- McBatches
  MessageLimit = 3
INVARIANTS TypeOK RuntimeFollowsState ConfigurationCurrent ReportsBalance
PROPERTIES KeepsContract
