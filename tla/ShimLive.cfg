CONSTANTS
  s1 = s1  s2 = s2  uiWorker = uiWorker  uiThread = uiThread
  k1 = k1  k2 = k2  p1 = p1
  None = None
  Sources <- SourcesOne
  UiWorker <- uiWorker
  UiThread <- uiThread
  Kinds <- KindsTwo
  Instances <- OneInstance
  MayThrow = TRUE
SPECIFICATION FairSpec
INVARIANT QuietAfterUnsubscribe
PROPERTY HostReturns
