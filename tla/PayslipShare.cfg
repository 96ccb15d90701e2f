SPECIFICATION FairSlipSpec
CONSTANTS
  Handlers = {c1}
  PollTimeout = 2
  WorkSites = {s1}
  Nowhere = Nowhere
  MaxHours = 1
  Addresses = {a1}
  NoAddress = NoAddress
  AllSites = AllSites
  NoShare = NoShare
INVARIANTS
  SlipTypeOK
  PollsBounded
  SlipsAddUp
PROPERTIES
  RendersAsPromised
  SharesEnd
CHECK_DEADLOCK FALSE
