SPECIFICATION FieldSpec
CONSTANTS
  Threads = {t1}
  Protocols = {"modbus"}
  Words = {0,1}
  Forced = {}
  Faults = {"answer"}
  MaxEvents = 3
  None = None
PROPERTIES
  InputReachesOutput
