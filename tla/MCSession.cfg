CONSTANTS
  w1 = w1
  w2 = w2
  w3 = w3
  Workers <- MCWorkers
  NoThread = NoThread
  Messages <- AllMessages
  Promises <- AllPromises
  BacklogLimit = 2
  MaxRequests = 4
  MaxSignals = 2
SPECIFICATION SessionSpec
INVARIANTS SessionTypeOK LoopsAreHeld TeardownIsFinal HandlersUseLiveMembers
PROPERTIES
  
  StopEndsSendLoop
  ListenReturnsAfterStop
  StopOnListenerEndsListening
  StopStreamEndsProcess
  SigtermEndsProcess
CHECK_DEADLOCK FALSE
