CONSTANTS
  l1 = l1
  NoRequest = NoRequest
  Line <- MCLine
  WordIdx <- MCWordIdx
  Lane <- MCLane
  Byte <- MCByte
  Requests <- MCRequests
  FbLine <- MCFbLine
  LineBeats = 1
  BeatPix = 1
  Rows = 1
  Locks = {TRUE, FALSE}
SPECIFICATION PortSpec
INVARIANTS
  BeatsReachTheirOwner
PROPERTIES
  PortImplementsWordMemory
