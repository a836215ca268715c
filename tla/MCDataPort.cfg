CONSTANTS
  ram1 = ram1
  mmio1 = mmio1
  data1 = data1
  code1 = code1
  code2 = code2
  pte1 = pte1
  pte0 = pte0
  rom1 = rom1
  NoAck = NoAck
  RamAddr <- MCRam
  MmioAddr <- MCMmio
  DdrAddr <- MCDdr
  RomAddr <- MCRom
  Value <- MCValue
  Zero <- MCZero
  Content0 <- MCContent0
  FetchAddr <- RomFetch
  Ops <- MCOps
  RootPte = pte1
  LeafPte = pte0
SPECIFICATION DataPortSpec
INVARIANTS
  WalkerReadsTable
PROPERTIES
  AccessesCorrect
  AtomicsAtomic
