SPECIFICATION Spec
CONSTANTS
  LastReg = 1
  LastByte = 2
  MaxPolls = 2
  Live <- McLive
  FakeWords <- McFakeWords
  FakeFails = {1}
  Machines <- McMachines
  WriteValues <- McWrites
INVARIANTS
  TypeOK
  AnswersMatch
  PortsHeldInPairs
PROPERTIES
  FailedWritesHaveNoEffect
  JobsEnd
  ImplementsAccess
