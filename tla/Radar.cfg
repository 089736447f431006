SPECIFICATION MCSpec
CONSTANTS
  Unset = Unset
  Specs <- AllTypes
  Freq = {0, 2, 4}
  Pri = {0, 12, 13}
  Width = {0, 1, 2}
  Overflow = {0, 25}
  WEATHER = 70
  LONG_RADAR_DURATION = 20
  LONG_RADAR_BURST_MIN_DURATION = 7
  LONG_RADAR_MAX_BURST = 4
  MaxPulses = 8
  Settings <- AllSettings
CHECK_DEADLOCK FALSE
INVARIANTS DetectorsConsistent TrainDetected PatternReal MultipleCorrect
