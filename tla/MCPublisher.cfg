SPECIFICATION FairSpec
CONSTANTS
  Callers = {p1}
  Chans = {c1, c2}
  NoChan = NoChan
  PubCap = 1
  ChanCap = 1
  MaxMessages = 2
INVARIANTS
  TypeOK
  ReceivesEveryMessage
PROPERTIES
  SilentAfterUnsubscribe
  ImplementsBroadcast
  CallsReturn
  AcceptedIsDelivered
  CloseEndsWorker
CHECK_DEADLOCK FALSE
