SPECIFICATION Spec
CONSTANTS
  v0 = v0
  v1 = v1
  trackpad0 = trackpad0
  trackpad1 = trackpad1
  Device = {mouse, touch, trackpad0, trackpad1}
  Trackpad = {trackpad0, trackpad1}
  View = {v0, v1}
  ImplicitView = v0
  Place = {0}
  Pan = {0}
  MaxPointers = 2
  Mouse = mouse
  Touch = touch
  TrackpadOf <- Trackpads
  Button = {left, right}
  Left = left
  NoView = NoView
  MergedUI = TRUE
  MaxInbox = 2
  RestartAnyTime = TRUE
  WheelToFocus = FALSE
INVARIANT
  AssertionsHold
CHECK_DEADLOCK FALSE
