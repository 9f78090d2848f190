CONSTANTS
  w1 = w1
  w2 = w2
  w3 = w3
  Workers <- MCWorkers
  NoThread = NoThread
  Messages <- AllMessages
  Promises <- ButStopWhileWaiting
  BacklogLimit = 2
  MaxRequests = 3
  MaxSignals = 2
SPECIFICATION SessionSpec
PROPERTY SigtermEndsProcess
CHECK_DEADLOCK FALSE
