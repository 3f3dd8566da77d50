SPECIFICATION Spec
CONSTANTS
  a = a
  b = b
  b2 = b2
  c = c
  d = d
  r = r
  x = x
  y = y
  Services = {"A", "B", "C", "D", "R"}
  Plain = {"R"}
  Usb = {"C"}
  Channels = {x, y}
  ChannelID <- MCChannelID
  Names = {a, b, c, d, r}
  Ref <- MCRef
  Bouquet <- MCBouquet
  MaxFCC = 3
  History = TRUE
  None = None
  MaxZaps = 2
  MaxDisturbances = 1
INVARIANT ChannelsCounted
INVARIANT OneIsWatched
INVARIANT WithinMax
INVARIANT NeverStalls
INVARIANT NothingBesideRecording
CHECK_DEADLOCK FALSE
