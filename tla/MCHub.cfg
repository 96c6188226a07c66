CONSTANTS
  mutator = mutator
  ticker = ticker
  s1 = s1
  s2 = s2
  Nobody = Nobody
  Sources <- MCSources
  Recovered <- MCRecovered
  Subscribers <- MCSubscribers
  Leavers <- MCLeavers
  Cap = 1
  MaxEvents <- MCMaxEvents
SPECIFICATION FairSpec
CHECK_DEADLOCK FALSE
INVARIANTS
  TypeOK
  RegistrationMatchesChannel
  LossHasACause
PROPERTIES
  PublishTerminates
  CloseEndsStreams
  FeedSpec
