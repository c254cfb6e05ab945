CONSTANTS
  DeadTime = 3
  LongTime = 7
SPECIFICATION DecoderSpec
INVARIANT DecoderTypeOK
PROPERTIES
  CountIsCycle
  ButtonStory
