SPECIFICATION Spec
CONSTANTS
  MagicLen = 2
  HeaderLen = 3
  MaxItems = 4
  MaxPayload = 2
  MaxNoise = 3
  BufSizes = {4, 5, 1000}
  SplitMagic = FALSE
INVARIANTS
  TypeOK
  NoFrameIsLost
  HangsUpOnlyOnLongFrames
PROPERTIES
  FramesArrive
