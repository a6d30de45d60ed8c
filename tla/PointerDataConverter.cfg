SPECIFICATION ConverterSpec
CONSTANTS
  Device = {touch, trackpad}
  Trackpad = {trackpad}
  View = {v0, v1}
  ImplicitView = v0
  Place = {0, 1}
  Pan = {0, 1}
  MaxPointers = 3
INVARIANTS
  ConverterTypeOK
  ReaderAgrees
PROPERTIES
  StreamIsLegal
  LocationIsContinuous
CHECK_DEADLOCK FALSE
