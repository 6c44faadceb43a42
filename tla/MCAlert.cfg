\* A webhook and an email, a notice and a test of each, one PUT, one fault.
SPECIFICATION FairSpec
CONSTANTS
  Channels = {w, e}
  Emails = {e}
  Puts = {p1}
  MaxNotices = 1
  MaxFaults = 1
INVARIANTS
  AtMostOnce
  SuccessWasDelivered
  HistoryHasChannel
PROPERTY
  AttemptsAreRecorded
CHECK_DEADLOCK FALSE
