SPECIFICATION CallsSpec
CONSTANTS
  Pids = {p1, p2, p3}
  Absent = Absent
  MaxCalls = 3
  MaxRequests = 2
  MaxJunk = 1
  Callers = {c1, c2}
  Suspicious = {c2}
  Capacity = 1
  Minute = 2
  Patience = 3
  Nap = 1
  MaxTime = 6
  MaxBack = 1
  Searches = {"q1", "q2"}
  RerankThreads = {"w1", "w2"}
  Backends <- MCBackends
  Hits = 2
  Scores = {1, 9}
  None0 = "none"
  MaxRerankFaults = 2
  Pool = {"w1", "w2"}
  MaxSessions = 2
  MaxTurns = 2
  MaxBreaks = 1
  Nothing = Nothing
  MaxTexts = 2
  Helpers = {h1}
  MaxWorkers = 4
  MaxFaults <- EveryFault
INVARIANTS AllTypesOK OneWatcher NoDesync OneWorker NoAnswerLost RanksByOwnScore
PROPERTIES DaemonStarts EveryCallEnds EveryWaitEnds AgentKeepsGoing
CHECK_DEADLOCK FALSE
