\* Two hosts, two tokens, three attempts besides init, one removal.
SPECIFICATION FairSpec
CONSTANTS
  Coordinator = c
  Hosts = {h1, h2}
  Tokens = {t1, t2}
  MaxAttempts = 4
  MaxFaults = 1
  MaxRemovals = 1
INVARIANTS
  OneMemberPerToken
  IdentityIsConsistent
  MembersAreKnown
PROPERTIES
  TokenMakesAMember
  RegisteredInTheEnd
CHECK_DEADLOCK FALSE
