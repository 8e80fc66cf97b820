CONSTANTS
  w1 = w1  w2 = w2  w3 = w3
  Workers <- WorkersThree
  MaxCommands = 3
  MaxEvents = 3
  MaxSessions = 3
  PostMayFail = TRUE
SPECIFICATION Spec
SYMMETRY Symmetry
INVARIANTS TypeOK ActiveCallbacksExact StopIsQuiet NoCrossSession CommandHasDrain EventHasWorker
PROPERTIES CommandsInOrder EventsInOrder
CHECK_DEADLOCK FALSE
