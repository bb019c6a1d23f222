SPECIFICATION FairSpec
CONSTANTS
  Senders <- Three
  Receivers <- Two
  Child <- Forked
  ARGS = 2
  CAPACITY = 2
  Programs <- Both
PROPERTIES
  LostOnlyLate
  Settles
