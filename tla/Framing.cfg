SPECIFICATION FairSpec
CONSTANTS
  Base = 4
  kFrameMagic <- MCMagic
  protocol_version = 1
  LastType = 2
  kMaxPayloadLength = 9
  Frames <- MCFrames
  Undecodable <- MCUndecodable
  TearPoints <- MCTearPoints
  MaxFrames = 3
INVARIANTS SoundStreamNeverRefused
PROPERTIES ImplementsChannel SentIsDispatched
CHECK_DEADLOCK FALSE
