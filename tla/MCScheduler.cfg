\* A monitor that may come back once, created, deleted, checked and stopped in
\* any order beside one without a checker.
SPECIFICATION FairSpec
CONSTANTS
  Monitors = {m1, m2}
  Registered = {m1}
  MaxLives = 2
  MaxFaults = 1
INVARIANTS
  LoopsAreScheduled
  NoOverlapWhileUp
  RunningIsTruthful
PROPERTIES
  MonitorsAreChecked
  CancelledLoopsEnd
