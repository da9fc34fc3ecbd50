CONSTANTS
  Event <- MCEvent
  Poller <- MCPoller
  Retry <- MCRetry
  Spawn <- MCSpawn
  Interval <- MCInterval
  RetryInterval = 2
  Size = 10
  ResetOrder <- MCResetOrder
SPECIFICATION PoliteSpec
INVARIANTS QueueSound
PROPERTIES ImplementsTimers PollersRun
