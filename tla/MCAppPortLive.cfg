CONSTANTS
  l1 = l1
  NoRequest = NoRequest
  Line <- MCLine
  WordIdx <- MCWordIdx
  Lane <- NoLanes
  Byte <- MCByte
  Requests <- BareRequests
  FbLine <- MCFbLine
  LineBeats = 1
  BeatPix = 1
  Rows = 1
  Locks <- NoLocks
SPECIFICATION FairPortSpec
PROPERTIES
  CpuServed
  LcdServed
