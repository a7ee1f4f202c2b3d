SPECIFICATION FairSpec
CONSTANTS
  KEY_BUFFER_SIZE = 4
  KEY_LSHIFT = 42
  Keys <- MCKeys
  scancode_to_ascii <- MCPlain
  scancode_to_ascii_shift <- MCShift
INVARIANTS TypeOK EventIntact
PROPERTIES ImplementsKeyQueue EveryKeyTaken
