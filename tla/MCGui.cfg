SPECIFICATION FairDesktop
CONSTANTS
  Packets <- Sent
  Sessions <- All
  Keys <- AllKeys
  NOTEPAD_MAX_TEXT = 3
  Pixels <- Looked
  Inked <- GlyphPixels
  Moments <- Frames
  Regions <- Memory
INVARIANTS OnePressOneClick CalendarCounts TextEndsAtCursor ScreenIsLastFrame
PROPERTIES PressOpens KeysTaken
