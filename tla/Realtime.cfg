CONSTANTS
  s1 = s1
  home = home
  Sockets = {s1}
  Sessions = {home}
  Session <- OneSession
  Batch = 1
  MaxCalm = 3
  MaxTroubled = 2
  Revocable = {home}
  Faults = {"bus", "database", "network"}
SPECIFICATION LiveSpec
INVARIANT TypeOK
INVARIANT RemovedWasReceived
PROPERTY StoppedStaysSilent
PROPERTY EveryRowArrives
PROPERTY RevokedIsCut
PROPERTY EveryRowIsPushed
