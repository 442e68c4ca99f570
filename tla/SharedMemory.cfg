\* Increment programs: two launches of two children counting to two, one fault.
\* Segments: two processes on each side, three at a time, texts of up to two
\* characters, one death.
CONSTANTS
  Apis = {"posix", "sysv"}
  Launches = 2
  Procs = 2
  Cap = 2
  MaxFaults = 1
  MaxMet = 1
  None = None
  Nobody = Nobody
  Producers = {1, 2}
  Consumers = {3, 4}
  MaxLen = 2
  MaxLive = 3
  MaxDeaths = 1
SPECIFICATION SessionSpec
INVARIANTS Exclusive ExactCount NoLeftovers
INVARIANTS WholeText PrintsAPrefix NoStaleText
PROPERTIES Termination ServerAnswers
CHECK_DEADLOCK FALSE
