\* A PUT that only renames the channel.
SPECIFICATION Spec
CONSTANTS
  Channels = {w}
  Emails = {}
  Puts = {p1}
  MaxNotices = 1
  MaxFaults = 0
PROPERTY EnabledIsKept
CHECK_DEADLOCK FALSE
