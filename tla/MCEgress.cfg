\* Every policy of up to two deny rules and one allow rule of nine.
SPECIFICATION Spec
CONSTANTS
  pub = pub
  priv = priv
  NoAddress = NoAddress
  Addresses <- TwoAddresses
  Ports <- TwoPorts
  Targets <- EveryTarget
  DenyLists <- UpToTwoRules
  AllowLists <- UpToOneRule
  MaxAnswers = 2
INVARIANTS
  
  OnlyListed
  Monotone
  
