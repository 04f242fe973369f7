SPECIFICATION FairSpec
CONSTANTS
  k = k
  m = m
  derived = derived
  mapped = mapped
  illegal = illegal
  byPrefix = byPrefix
  byMapping = byMapping
  KafkaTopics = {k, m}
  RosTopics = {derived, mapped, illegal}
  Nameless = {illegal}
  Routings = {byPrefix, byMapping}
  Default = byPrefix
  Route <- McRoute
  NoTopic = NoTopic
  MessageLimit = 2
INVARIANTS TypeOK RuntimeFollowsState CountersAddUp RoutedAsConfigured
PROPERTIES DeactivationReturns
