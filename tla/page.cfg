SPECIFICATION FairSpec
CONSTANTS
  Protocols = {p1, p2, p3}
  AcProtocols = {p1}
  NoProtocol = NoProtocol
  Fans = {"Auto", "Min"}
  MaxDetected = 2
  MaxSaved = 3
  MaxEvents = 2
  MaxTicks = 2
  MaxReloads = 1
  MaxEdit = 1
INVARIANTS
  TypeOK
  DetectedInOrder
PROPERTIES
  RemovedStaysRemoved
  MirrorsInTheEnd
