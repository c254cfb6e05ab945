CONSTANTS
  NumTopics = 2
  Subscribers <- MCSubscribers
  Begins <- MCBegins
  Publishers = {p1, p2}
  Client = client
  NoMutex = null
  Free = free
SPECIFICATION FairSpec
INVARIANTS
  TypeOK
  EndpointExclusive
  LinkReported
  
PROPERTY
  CallsReturn
