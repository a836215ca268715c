--------------------------- MODULE DataPortProofs ---------------------------
(***************************************************************************)
(* The data port, the walker and the fetch stage get their own words: the  *)
(* inductive invariant of DataPort, and the proofs of FetchCorrect,        *)
(* WalkerReadsTable, AccessesCorrect and AtomicsAtomic.                    *)
(***************************************************************************)
EXTENDS DataPort, TLAPS

\* Where the page tables are: with tables in DATARAM the walker can take a
\* reply meant for the core.
TablesInDdr == RootPte \in DdrAddr /\ LeafPte \in DdrAddr

----------------------------------------------------------------------------
\* The invariant.

DdrWord == [{0} -> Value]
DdrReq == [we : BOOLEAN, line : DdrAddr, word : {0}, dat_w : DdrWord, sel : {{0}}]

SocTypeOK ==
  /\ ddr_owner_valid \in BOOLEAN /\ ddr_owner_is_data \in BOOLEAN /\ ddr_owner_cooldown \in BOOLEAN
  /\ instr_ddr_pending \in BOOLEAN /\ instr_ddr_killed \in BOOLEAN
  /\ instr_ddr_addr \in DdrAddr /\ instr_ddr_rdata_q \in Value
  /\ mmio_ack_q \in BOOLEAN /\ cpu_data_rdata_q \in Value
  /\ ram \in [RamAddr -> Value] /\ ram_ack \in BOOLEAN /\ ram_dat_r \in Value
  /\ mmio \in [MmioAddr -> Value]
  /\ ddr_mem \in [DdrAddr -> [{0} -> DdrWord]]
  /\ ddr_phase \in {"idle", "accepted", "performed"}
  /\ ddr_cur \in DdrReq /\ ddr_found \in DdrWord /\ ddr_ack \in DdrWord \union {NoAck}

CoreTypeOK ==
  /\ op \in Ops \union {NoOp} /\ mem_started \in BOOLEAN
  /\ atomic_state \in AtomicStates /\ atomic_started \in BOOLEAN
  /\ atomic_old_value \in Value /\ atomic_new_value \in Value
  /\ reservation_valid \in BOOLEAN /\ reservation_word_addr \in RamAddr \union DdrAddr
  /\ ptw_state \in PtwStates /\ walk_pte_addr \in {RootPte, LeafPte} /\ walk_pte \in Value
  /\ walk_store \in BOOLEAN /\ walk_is_instr \in BOOLEAN /\ if_valid \in BOOLEAN

\* A request is with the bridge, or its acknowledgement is on the bus.
InFlight == ddr_phase # "idle" \/ ddr_bus_ack

\* While a request is in flight the bridge's owner does not change; a request
\* of the fetch stage is the one that is pending; what was performed is still
\* what memory holds.
OwnerOK ==
  /\ ddr_owner_cooldown => ~ddr_owner_valid
  /\ ddr_bus_ack => ddr_phase = "idle" /\ ddr_ack = ddr_found
  /\ InFlight => ddr_owner_valid
  /\ InFlight /\ ~ddr_owner_is_data =>
       instr_ddr_pending /\ ddr_cur = DdrRequest(FALSE, instr_ddr_addr, Zero)
  /\ ddr_phase = "performed" \/ ddr_bus_ack =>
       ddr_mem[ddr_cur.line][0] = IF ddr_cur.we THEN ddr_cur.dat_w ELSE ddr_found

\* The operation in the atomic unit is of the kind its state is for.
UnitOK ==
  /\ atomic_state \in {"ATOMIC_LR_READ", "ATOMIC_LR_CAPTURE"} => op.kind = "lr"
  /\ atomic_state = "ATOMIC_SC_WRITE" => op.kind = "sc"
  /\ atomic_state \in {"ATOMIC_AMO_READ", "ATOMIC_AMO_CAPTURE", "ATOMIC_AMO_WRITE"} => op.kind = "amo"
  /\ atomic_state = "ATOMIC_COMPLETE" => isAtomic

FetchInv == SocTypeOK /\ CoreTypeOK /\ OwnerOK /\ UnitOK /\ FetchCorrect

\* A request of the data port in flight is what the port drives now, and the
\* cycle in which the walker looks at an entry and the core drives the port
\* brings nothing of the core's into flight.
RequestOK ==
  /\ InFlight /\ ddr_owner_is_data =>
       /\ phys_data.cyc /\ phys_data.stb /\ phys_data.adr \in DdrAddr
       /\ ddr_cur = DdrRequest(phys_data.we, phys_data.adr, phys_data.dat)
  /\ ptw_state \in {"PTW_L1_CHECK", "PTW_L0_CHECK"} => ~ddr_owner_valid /\ ~ram_ack

\* The reply of RAM or of a device is to the access in the memory stage.
ReplyOK ==
  /\ ram_ack /\ mem_req /\ mem_started =>
       /\ op.adr \in RamAddr
       /\ ram[op.adr] = IF op.kind = "store" THEN op.dat ELSE ram_dat_r
  /\ mmio_ack_q /\ op.kind = "store" /\ mem_started =>
       op.adr \in MmioAddr /\ mmio[op.adr] = op.dat

AccessInv == FetchInv /\ RequestOK /\ ReplyOK

\* The walker goes by an entry as it is in the table: nothing else writes it
\* from the read until the write of its accessed and dirty bits.
WalkOK ==
  /\ ptw_state \in {"PTW_L1_CHECK", "PTW_L0_CHECK"} => Content(walk_pte_addr) = walk_pte
  /\ ptw_state = "PTW_AD_WAIT" => Content(walk_pte_addr) \in {walk_pte, WithAD(walk_pte)}

\* The word read is captured before anything can change it.
CaptureOK ==
  atomic_state \in {"ATOMIC_LR_CAPTURE", "ATOMIC_AMO_CAPTURE"} =>
    /\ ptw_state \in {"PTW_IDLE", "PTW_FAULT"}
    /\ op.adr \in RamAddr => ram_ack /\ ram_dat_r = ram[op.adr]
    /\ op.adr \in DdrAddr => ~InFlight /\ cpu_data_rdata_q = Content(op.adr)

\* now is what old has become at a by the walker's doing alone.
Near(a, old, now) ==
  \/ now = old
  \/ a \in {RootPte, LeafPte} /\ old \subseteq now /\ now \subseteq old \union {"A", "D"}

\* The core's write to a word of DDR is with the bridge or being acknowledged,
\* so that the walker cannot have the port.
Writing == InFlight /\ ddr_owner_is_data /\ ~ptw_owns

\* The word reserved, and the one being written by an atomic operation until it
\* is, is as it was read but for the walker; then it is the new one.
ReservationOK ==
  /\ reservation_valid /\ op.kind # "store" /\ atomic_state # "ATOMIC_SC_WRITE" =>
       Near(reservation_word_addr, atomic_old_value, Content(reservation_word_addr))
  /\ atomic_state = "ATOMIC_SC_WRITE" =>
       /\ reservation_valid /\ reservation_word_addr = op.adr
       /\ \/ Near(op.adr, atomic_old_value, Content(op.adr))
          \/ Content(op.adr) = op.dat /\ (op.adr \in DdrAddr => Writing)
  /\ atomic_state = "ATOMIC_AMO_WRITE" =>
       /\ ~reservation_valid
       /\ \/ Near(op.adr, atomic_old_value, Content(op.adr))
          \/ Content(op.adr) = atomic_new_value /\ (op.adr \in DdrAddr => Writing)

AtomicInv == AccessInv /\ WalkOK /\ CaptureOK /\ ReservationOK

----------------------------------------------------------------------------
\* The interconnect, for whatever the two ports drive.

Drive == [cyc : BOOLEAN, stb : BOOLEAN, we : BOOLEAN, adr : DataAddr, dat : Value, lock : BOOLEAN]

\* The bridge is asked for nothing, or for a request.
LEMMA RequestType ==
  ASSUME SocTypeOK, NEW d \in Drive, NEW i, ddr_bus_request(d, i) # NoAck
  PROVE  ddr_bus_request(d, i) \in DdrReq
<1>1. Zero \in Value
  BY SocBusAssumption
<1>2. \A we \in BOOLEAN, a \in DdrAddr, v \in Value : DdrRequest(we, a, v) \in DdrReq
  BY DEF DdrRequest, DdrReq, InLane, DdrWord
<1> QED
  BY <1>1, <1>2 DEF ddr_bus_request, ddr_data_cyc, ddr_instr_cyc, Drive, SocTypeOK, ToData, ToInstr

\* The steps of the bridge one by one.
LEMMA BridgeCases ==
  ASSUME NEW r, BridgeStep(r)
  PROVE  \/ ddr_bus_ack /\ Ddr!EndAck
         \/ ~ddr_bus_ack /\ r # NoAck /\ Ddr!Accept(r)
         \/ ~ddr_bus_ack /\ Ddr!Perform
         \/ ~ddr_bus_ack /\ Ddr!Acknowledge
         \/ ~ddr_bus_ack /\ UNCHANGED ddrVars
BY DEF BridgeStep

\* What a write leaves in memory, and that nothing else is touched.
LEMMA Performs ==
  ASSUME SocTypeOK, Ddr!Perform
  PROVE  /\ ddr_mem' \in [DdrAddr -> [{0} -> DdrWord]] /\ ddr_found' \in DdrWord
         /\ ddr_mem'[ddr_cur.line][0] = IF ddr_cur.we THEN ddr_cur.dat_w ELSE ddr_found'
         /\ \A a \in DdrAddr : ddr_mem'[a] # ddr_mem[a] => ddr_cur.we /\ a = ddr_cur.line
<1>1. /\ ddr_cur.line \in DdrAddr /\ ddr_cur.word = 0 /\ ddr_cur.dat_w \in DdrWord
      /\ ddr_cur.sel = {0} /\ ddr_cur.we \in BOOLEAN
  BY DEF SocTypeOK, DdrReq
<1>2. \A w : Ddr!Written(w) = ddr_cur.dat_w
  BY <1>1 DEF Ddr!Written, DdrWord
<1>3. CASE ddr_cur.we
  <2>1. ddr_mem' = [ddr_mem EXCEPT ![ddr_cur.line][0] = ddr_cur.dat_w] /\ ddr_found' = ddr_found
    BY <1>1, <1>2, <1>3 DEF Ddr!Perform
  <2> QED
    BY <1>1, <1>3, <2>1 DEF SocTypeOK
<1>4. CASE ~ddr_cur.we
  BY <1>1, <1>4 DEF Ddr!Perform, SocTypeOK
<1> QED
  BY <1>3, <1>4

\* Every register of the interconnect keeps its type.
LEMMA SocTypeStep ==
  ASSUME SocTypeOK, NEW d \in Drive, NEW i, SocStep(d, i)
  PROVE  SocTypeOK'
<1> USE DEF SocTypeOK
<1>1. /\ ddr_owner_valid' \in BOOLEAN /\ ddr_owner_is_data' \in BOOLEAN /\ ddr_owner_cooldown' \in BOOLEAN
  BY DEF SocStep, OwnerStep, ddr_data_cyc, ddr_instr_cyc, ddr_bus_ack, ddr_bus_stall
<1>2. ddr_ack # NoAck => ddr_ack[0] \in Value
  BY DEF DdrWord
<1>3. /\ instr_ddr_pending' \in BOOLEAN /\ instr_ddr_killed' \in BOOLEAN
      /\ instr_ddr_addr' \in DdrAddr /\ instr_ddr_rdata_q' \in Value
  BY <1>2 DEF SocStep, InstrStep, instrVars, ddr_instr_ack, ddr_bus_ack
<1>4. /\ mmio_ack_q' \in BOOLEAN /\ mmio' \in [MmioAddr -> Value]
  BY DEF SocStep, MmioStep, MmioStrobe, Drive
<1>5. ram' \in [RamAddr -> Value] /\ ram_ack' \in BOOLEAN /\ ram_dat_r' \in Value
  BY DEF SocStep, RamStep, Drive
<1>6. cpu_data_rdata_q' \in Value
  <2>1. cpu_data_rdata_mux(d) \in Value
    BY <1>2 DEF cpu_data_rdata_mux, Drive, ddr_data_ack, ddr_bus_ack
  <2> QED
    BY <2>1 DEF SocStep, ReplyStep
<1>7. /\ ddr_mem' \in [DdrAddr -> [{0} -> DdrWord]]
      /\ ddr_phase' \in {"idle", "accepted", "performed"}
      /\ ddr_cur' \in DdrReq /\ ddr_found' \in DdrWord /\ ddr_ack' \in DdrWord \union {NoAck}
  <2> DEFINE r == ddr_bus_request(d, i)
  <2> HIDE DEF r
  <2>1. BridgeStep(r) /\ (r # NoAck => r \in DdrReq)
    BY RequestType DEF SocStep, r
  <2>2. CASE Ddr!EndAck
    BY <2>2 DEF Ddr!EndAck
  <2>3. CASE r # NoAck /\ Ddr!Accept(r)
    BY <2>1, <2>3 DEF Ddr!Accept
  <2>4. CASE Ddr!Perform
    BY <2>4, Performs DEF Ddr!Perform
  <2>5. CASE Ddr!Acknowledge
    BY <2>5 DEF Ddr!Acknowledge
  <2>6. CASE UNCHANGED ddrVars
    BY <2>6 DEF ddrVars
  <2> QED
    BY <2>1, <2>2, <2>3, <2>4, <2>5, <2>6, BridgeCases
<1> QED
  BY <1>1, <1>3, <1>4, <1>5, <1>6, <1>7

\* While a request is in flight its owner keeps the bridge.
LEMMA OwnerKept ==
  ASSUME SocTypeOK, OwnerOK, NEW d \in Drive, NEW i, SocStep(d, i), InFlight'
  PROVE  /\ ddr_owner_valid /\ ddr_owner_valid' /\ ~ddr_owner_cooldown
         /\ ddr_owner_is_data' = ddr_owner_is_data
         /\ ~ddr_bus_ack
<1> DEFINE r == ddr_bus_request(d, i)
<1>1. BridgeStep(r)
  BY DEF SocStep
<1>2. ~ddr_bus_ack /\ (ddr_phase = "idle" => r # NoAck)
  BY <1>1 DEF BridgeStep, InFlight, ddr_bus_ack, OwnerOK, Ddr!EndAck, Ddr!Perform,
              Ddr!Acknowledge, ddrVars
<1>3. CASE ddr_phase # "idle"
  BY <1>2, <1>3 DEF SocStep, OwnerStep, OwnerOK, InFlight, ddr_bus_stall
<1>4. CASE ddr_phase = "idle"
  BY <1>2, <1>4 DEF SocStep, OwnerStep, ddr_bus_request, ToData, ToInstr
<1> QED
  BY <1>3, <1>4

\* The bridge serves one owner at a time, and whom it serves.
LEMMA OwnerStepOK ==
  ASSUME SocTypeOK, OwnerOK, NEW d \in Drive, NEW i, SocStep(d, i)
  PROVE  OwnerOK'
<1> DEFINE r == ddr_bus_request(d, i)
<1>1. BridgeStep(r)
  BY DEF SocStep
<1>2. (ddr_owner_cooldown => ~ddr_owner_valid)'
  BY DEF SocStep, OwnerStep, OwnerOK
<1>3. (InFlight => ddr_owner_valid)'
  BY OwnerKept
<1>4. ASSUME (InFlight /\ ~ddr_owner_is_data)'
      PROVE  (instr_ddr_pending /\ ddr_cur = DdrRequest(FALSE, instr_ddr_addr, Zero))'
  <2>1. ddr_owner_valid /\ ~ddr_owner_cooldown /\ ~ddr_owner_is_data /\ ~ddr_bus_ack
    BY <1>4, OwnerKept DEF SocTypeOK
  <2>2. ~ddr_instr_ack
    BY <2>1 DEF ddr_instr_ack
  <2>3. CASE ddr_phase # "idle"
    <3>1. instr_ddr_pending /\ ddr_cur = DdrRequest(FALSE, instr_ddr_addr, Zero)
      BY <2>1, <2>3 DEF OwnerOK, InFlight
    <3>2. instr_ddr_pending' = instr_ddr_pending /\ instr_ddr_addr' = instr_ddr_addr
      BY <2>2, <3>1 DEF SocStep, InstrStep, instrVars
    <3>3. ddr_cur' = ddr_cur
      BY <1>1, <2>1, <2>3 DEF BridgeStep, Ddr!Perform, Ddr!Acknowledge, ddrVars
    <3> QED
      BY <3>1, <3>2, <3>3 DEF DdrRequest
  <2>4. CASE ddr_phase = "idle"
    <3>1. r # NoAck /\ Ddr!Accept(r)
      BY <1>1, <1>4, <2>1, <2>4
         DEF BridgeStep, Ddr!Perform, Ddr!Acknowledge, ddrVars, InFlight, ddr_bus_ack
    <3>2. /\ ddr_instr_cyc(i)
          /\ r = DdrRequest(FALSE, IF instr_ddr_pending THEN instr_ddr_addr ELSE i.addr, Zero)
      BY <2>1, <3>1 DEF ddr_bus_request, ToData, ToInstr
    <3>3. /\ instr_ddr_pending'
          /\ instr_ddr_addr' = IF instr_ddr_pending THEN instr_ddr_addr ELSE i.addr
      BY <2>2, <3>2 DEF SocStep, InstrStep, instrVars, ddr_instr_cyc
    <3>4. ddr_cur' = r
      BY <3>1 DEF Ddr!Accept
    <3> QED
      BY <3>2, <3>3, <3>4 DEF DdrRequest
  <2> QED
    BY <2>3, <2>4
<1>5. /\ (ddr_bus_ack => ddr_phase = "idle" /\ ddr_ack = ddr_found)'
      /\ (ddr_phase = "performed" \/ ddr_bus_ack =>
            ddr_mem[ddr_cur.line][0] = IF ddr_cur.we THEN ddr_cur.dat_w ELSE ddr_found)'
  <2>1. CASE ddr_bus_ack /\ Ddr!EndAck
    BY <2>1 DEF Ddr!EndAck, OwnerOK, ddr_bus_ack
  <2>2. CASE ~ddr_bus_ack /\ Ddr!Accept(r)
    BY <2>2 DEF Ddr!Accept, OwnerOK, ddr_bus_ack
  <2>3. CASE ~ddr_bus_ack /\ Ddr!Perform
    BY <2>3, Performs DEF Ddr!Perform, OwnerOK, ddr_bus_ack
  <2>4. CASE ~ddr_bus_ack /\ Ddr!Acknowledge
    BY <2>4 DEF Ddr!Acknowledge, OwnerOK, ddr_bus_ack
  <2>5. CASE ~ddr_bus_ack /\ UNCHANGED ddrVars
    BY <2>5 DEF ddrVars, OwnerOK, ddr_bus_ack
  <2> QED
    BY <1>1, <2>1, <2>2, <2>3, <2>4, <2>5, BridgeCases
<1> QED
  BY <1>2, <1>3, <1>4, <1>5 DEF OwnerOK

\* An acknowledgement ends with memory as it was.
LEMMA AckKeepsMemory ==
  ASSUME NEW d, NEW i, SocStep(d, i), ddr_bus_ack
  PROVE  ddr_mem' = ddr_mem
BY DEF SocStep, BridgeStep, Ddr!EndAck

----------------------------------------------------------------------------
\* The registers of the core, the walker and the fetch stage.

\* A word is any set of flags.
LEMMA Words ==
  /\ Zero \in Value
  /\ \A u, v \in Value : \A fn : amo_compute(fn, u, v) \in Value
  /\ \A u \in Value : WithAD(u) \in Value
BY SocBusAssumption, DataPortAssumption DEF amo_compute, WithAD, Flags

\* What the operation in the memory stage may be.
LEMMA OpFacts ==
  ASSUME CoreTypeOK
  PROVE  /\ op.adr \in DataAddr /\ op.dat \in Value
         /\ op.kind \in {"load", "store", "lr", "sc", "amo", "none"}
         /\ isAtomic => op.adr \in RamAddr \union DdrAddr /\ op.adr \notin MmioAddr
<1>1. CASE op = NoOp
  BY <1>1, SocBusAssumption, DataPortAssumption DEF NoOp, DataAddr, isAtomic
<1>2. CASE op \in Ops
  BY <1>2, SocBusAssumption, DataPortAssumption DEF Op, DataAddr, isAtomic
<1> QED
  BY <1>1, <1>2 DEF CoreTypeOK

\* What the port carries: the walker's access or the core's.
LEMMA PortDrives ==
  ASSUME CoreTypeOK
  PROVE  /\ phys_data \in Drive
         /\ ptw_owns =>
              /\ phys_data.cyc /\ phys_data.stb /\ phys_data.we = ~walk_active
              /\ phys_data.adr = walk_pte_addr /\ phys_data.dat = WithAD(walk_pte)
              /\ phys_data.lock = ~walk_active
         /\ ~ptw_owns =>
              /\ phys_data = core_data
              /\ phys_data.cyc = coreCyc
              /\ phys_data.stb = (coreCyc /\ IF atomic_state # "ATOMIC_IDLE" THEN atomic_started ELSE mem_started)
              /\ phys_data.we = (op.kind = "store" \/ atomic_state \in {"ATOMIC_SC_WRITE", "ATOMIC_AMO_WRITE"})
              /\ phys_data.adr = op.adr
              /\ phys_data.dat = IF atomic_state = "ATOMIC_AMO_WRITE" THEN atomic_new_value ELSE op.dat
              /\ phys_data.lock = (atomic_state \in Accessing \union {"ATOMIC_LR_CAPTURE", "ATOMIC_AMO_CAPTURE"})
<1>1. WithAD(walk_pte) \in Value
  BY Words DEF CoreTypeOK
<1>2. op.adr \in DataAddr /\ op.dat \in Value
  BY OpFacts
<1>3. walk_pte_addr \in DataAddr
  BY DataPortAssumption DEF CoreTypeOK, DataAddr
<1>4. coreCyc \in BOOLEAN /\ walk_active \in BOOLEAN
  BY DEF coreCyc, walk_active, mem_req
<1>5. CASE ptw_owns
  BY <1>1, <1>3, <1>4, <1>5 DEF phys_data, Drive
<1>6. CASE ~ptw_owns
  BY <1>2, <1>4, <1>6 DEF phys_data, core_data, Drive, CoreTypeOK
<1> QED
  BY <1>5, <1>6

\* A reply on the data port is a word.
LEMMA ReplyType ==
  ASSUME SocTypeOK, NEW d \in Drive
  PROVE  DataRdata(d) \in Value
<1>1. ddr_ack # NoAck => ddr_ack[0] \in Value
  BY DEF SocTypeOK, DdrWord
<1> QED
  BY <1>1 DEF DataRdata, cpu_data_rdata_mux, SocTypeOK, Drive, ddr_data_ack, ddr_bus_ack

\* Every register of the core keeps its type.
LEMMA CoreTypeStep ==
  ASSUME SocTypeOK, CoreTypeOK, UnitOK, NEW trap \in BOOLEAN, NEW next \in Ops \union {NoOp},
         NEW walk, NEW i, NEW target, ClkEdge(next, trap, walk, i, target)
  PROVE  CoreTypeOK'
<1> USE DEF CoreTypeOK
<1>1. core_dat_r \in Value /\ DataRdata(phys_data) \in Value
  BY ReplyType, PortDrives, Words DEF core_dat_r
<1>2. /\ op' \in Ops \union {NoOp} /\ mem_started' \in BOOLEAN
  BY DEF ClkEdge, CoreStep, AtomicStart, AtomicAccess, AtomicCapture, AtomicComplete, MemStep
<1>3. op.dat \in Value /\ (isAtomic => op.adr \in RamAddr \union DdrAddr)
  BY OpFacts
<1>4. atomic_state' \in AtomicStates /\ atomic_started' \in BOOLEAN
      /\ atomic_old_value' \in Value /\ atomic_new_value' \in Value
      /\ reservation_valid' \in BOOLEAN
  BY <1>1, <1>3, Words
     DEF ClkEdge, CoreStep, AtomicStart, AtomicAccess, AtomicCapture, AtomicComplete, AtomicIdle,
         AtomicStates, Accessing, AfterAccess, isAtomic
<1>5. reservation_word_addr' \in RamAddr \union DdrAddr
  BY <1>3 DEF ClkEdge, CoreStep, AtomicStart, AtomicAccess, AtomicCapture, AtomicComplete, AtomicIdle,
              UnitOK, isAtomic
<1>6. ptw_state' \in PtwStates
  BY DEF ClkEdge, PtwStep, PtwIdle, PtwWait, PtwCheck, PtwUpdate, PtwEnd, ptwVars, PtwStates
<1>7. walk_pte_addr' \in {RootPte, LeafPte} /\ walk_pte' \in Value
  BY <1>1, Words DEF ClkEdge, PtwStep, PtwIdle, PtwWait, PtwCheck, PtwUpdate, PtwEnd, ptwVars
<1>8. walk_store' \in BOOLEAN /\ walk_is_instr' \in BOOLEAN
  BY DEF ClkEdge, PtwStep, PtwIdle, PtwWait, PtwCheck, PtwUpdate, PtwEnd, ptwVars
<1>9. if_valid' \in BOOLEAN
  BY DEF ClkEdge, FetchStep
<1> QED
  BY <1>2, <1>4, <1>5, <1>6, <1>7, <1>8, <1>9

\* The atomic unit keeps to its operation.
LEMMA UnitStep ==
  ASSUME CoreTypeOK, UnitOK, NEW trap, NEW next, CoreStep(next, trap)
  PROVE  UnitOK'
<1> USE DEF CoreTypeOK, UnitOK, isAtomic
<1>1. CASE AtomicStart
  BY <1>1 DEF AtomicStart
<1>2. CASE AtomicAccess
  BY <1>2 DEF AtomicAccess, Accessing, AfterAccess
<1>3. CASE AtomicCapture
  BY <1>3 DEF AtomicCapture
<1>4. CASE AtomicComplete
  BY <1>4 DEF AtomicComplete
<1>5. CASE AtomicIdle(trap)
  BY <1>5 DEF AtomicIdle, stall_atomic
<1> QED
  BY <1>1, <1>2, <1>3, <1>4, <1>5 DEF CoreStep

----------------------------------------------------------------------------
\* The fetch stage.

\* An address of DDR is no other, and holds a word of the bridge's memory.
LEMMA DdrContent ==
  \A a \in DdrAddr : a \notin RamAddr /\ a \notin MmioAddr /\ Content(a) = ddr_mem[a][0][0]
BY SocBusAssumption DEF Content

\* The word that comes in is the word at the address it is taken for.
LEMMA FetchStepOK ==
  ASSUME SocTypeOK, OwnerOK, NEW d \in Drive, NEW i, NEW target, i.addr = pc_f,
         SocStep(d, i), FetchStep(i, target), (if_valid /\ if_pc \in DdrAddr)'
  PROVE  FetchCorrect'
<1>1. ~i.flush /\ i.ren /\ ~InstrStall(i) /\ if_pc' = pc_f /\ pc_f \in DdrAddr
  BY DEF FetchStep
<1>2. /\ ddr_instr_ack /\ instr_ddr_pending /\ ~instr_ddr_killed /\ pc_f = instr_ddr_addr
  BY <1>1 DEF InstrStall
<1>3. instr_ddr_rdata_q' = ddr_ack[0]
  BY <1>1, <1>2 DEF SocStep, InstrStep
<1>4. InFlight /\ ddr_bus_ack /\ ~ddr_owner_is_data
  BY <1>2 DEF ddr_instr_ack, ToInstr, InFlight
<1>5. ddr_cur = DdrRequest(FALSE, pc_f, Zero)
  BY <1>2, <1>4 DEF OwnerOK
<1>6. ddr_mem[pc_f][0] = ddr_ack
  BY <1>4, <1>5 DEF OwnerOK, DdrRequest
<1>7. ddr_mem' = ddr_mem
  BY <1>4, AckKeepsMemory
<1>8. Content(if_pc)' = ddr_mem'[if_pc'][0][0]
  BY SocBusAssumption DEF Content
<1> QED
  BY <1>1, <1>3, <1>6, <1>7, <1>8 DEF FetchCorrect

\* What is chosen freely in a step.
LEMMA NextCases ==
  ASSUME DataPortNext
  PROVE  \E next \in Ops \union {NoOp}, trap \in BOOLEAN, walk \in Walks :
           \E i, target : ClkEdge(next, trap, walk, i, target) /\ i.addr = pc_f
<1>1. PICK walk \in NextWalks : \E next \in NextOps(walk), i \in Fetches(walk) :
        \E target \in IF i.flush THEN FetchAddr ELSE {pc_f}, trap \in {FALSE, i.flush} :
          ClkEdge(next, trap, walk, i, target)
  BY DEF DataPortNext
<1>5. PICK next \in NextOps(walk), i \in Fetches(walk) :
        \E target \in IF i.flush THEN FetchAddr ELSE {pc_f}, trap \in {FALSE, i.flush} :
          ClkEdge(next, trap, walk, i, target)
  BY <1>1
<1>2. walk \in Walks
  BY DEF NextWalks, Walks
<1>3. next \in Ops \union {NoOp}
  BY DEF NextOps
<1>4. i.addr = pc_f /\ i.flush \in BOOLEAN
  <2>1. \/ \E r \in BOOLEAN : i = [ren |-> r, addr |-> pc_f, flush |-> FALSE]
        \/ i = [ren |-> FALSE, addr |-> pc_f, flush |-> TRUE]
    BY DEF Fetches
  <2>2. ASSUME NEW r \in BOOLEAN, i = [ren |-> r, addr |-> pc_f, flush |-> FALSE]
        PROVE  i.addr = pc_f /\ i.flush = FALSE
    BY <2>2
  <2>3. ASSUME i = [ren |-> FALSE, addr |-> pc_f, flush |-> TRUE]
        PROVE  i.addr = pc_f /\ i.flush = TRUE
    BY <2>3
  <2> QED
    BY <2>1, <2>2, <2>3
<1>6. PICK trap \in {FALSE, i.flush} : \E target : ClkEdge(next, trap, walk, i, target)
  BY <1>5
<1>7. trap \in BOOLEAN
  BY <1>4
<1> QED
  BY <1>2, <1>3, <1>4, <1>6, <1>7

LEMMA FetchInitInv == DataPortInit => FetchInv
<1> SUFFICES ASSUME DataPortInit PROVE FetchInv
  OBVIOUS
<1>1. (CHOOSE a \in DdrAddr : TRUE) \in DdrAddr /\ Zero \in Value /\ InLane(Zero) \in DdrWord
  BY SocBusAssumption DEF InLane, DdrWord
<1>2. RamAddr \subseteq DataAddr /\ MmioAddr \subseteq DataAddr /\ DdrAddr \subseteq DataAddr
  BY DEF DataAddr
<1>3. \A a \in DdrAddr : InLane(Content0[a]) \in DdrWord
  BY <1>2, SocBusAssumption DEF InLane, DdrWord
<1>4. ddr_mem \in [DdrAddr -> [{0} -> DdrWord]]
  BY <1>3 DEF DataPortInit, SocInit
<1>5. ram \in [RamAddr -> Value] /\ mmio \in [MmioAddr -> Value]
  BY <1>2, SocBusAssumption DEF DataPortInit, SocInit
<1>6. ddr_cur \in DdrReq
  BY <1>1 DEF DataPortInit, SocInit, DdrRequest, DdrReq
<1>7. SocTypeOK
  BY <1>1, <1>4, <1>5, <1>6 DEF DataPortInit, SocInit, SocTypeOK
<1>8. CoreTypeOK
  BY <1>1, DataPortAssumption DEF DataPortInit, CoreTypeOK, AtomicStates, PtwStates
<1>9. OwnerOK
  BY DEF DataPortInit, SocInit, OwnerOK, InFlight, ddr_bus_ack
<1> QED
  BY <1>7, <1>8, <1>9 DEF DataPortInit, UnitOK, FetchInv, FetchCorrect

LEMMA FetchInvStep == FetchInv /\ [DataPortNext]_portVars => FetchInv'
<1>1. ASSUME FetchInv, DataPortNext PROVE FetchInv'
  <2>0. PICK next \in Ops \union {NoOp}, trap \in BOOLEAN, walk \in Walks :
          \E i, target : ClkEdge(next, trap, walk, i, target) /\ i.addr = pc_f
    BY <1>1, NextCases
  <2>1. PICK i, target : ClkEdge(next, trap, walk, i, target) /\ i.addr = pc_f
    BY <2>0
  <2>2. phys_data \in Drive
    BY <1>1, PortDrives DEF FetchInv
  <2>3. SocStep(phys_data, i) /\ CoreStep(next, trap) /\ FetchStep(i, target)
    BY <2>1 DEF ClkEdge
  <2>4. SocTypeOK'
    BY <1>1, <2>2, <2>3, SocTypeStep DEF FetchInv
  <2>5. CoreTypeOK'
    BY <1>1, <2>1, CoreTypeStep DEF FetchInv
  <2>6. OwnerOK'
    BY <1>1, <2>2, <2>3, OwnerStepOK DEF FetchInv
  <2>7. UnitOK'
    BY <1>1, <2>3, UnitStep DEF FetchInv
  <2>8. FetchCorrect'
    <3>1. CASE (if_valid /\ if_pc \in DdrAddr)'
      BY <1>1, <2>1, <2>2, <2>3, <3>1, FetchStepOK DEF FetchInv
    <3>2. CASE ~(if_valid /\ if_pc \in DdrAddr)'
      BY <3>2 DEF FetchCorrect
    <3> QED
      BY <3>1, <3>2
  <2> QED
    BY <2>4, <2>5, <2>6, <2>7, <2>8 DEF FetchInv
<1>2. ASSUME FetchInv, UNCHANGED portVars PROVE FetchInv'
  BY <1>2 DEF FetchInv, portVars, socVars, coreVars, ptwVars, fetchVars, ownerVars, instrVars, ddrVars,
              SocTypeOK, CoreTypeOK, OwnerOK, UnitOK, FetchCorrect, InFlight, ddr_bus_ack, DdrRequest,
              isAtomic, Content
<1> QED
  BY <1>1, <1>2

\* Registers, owner and fetch stage, for every layout of memory, every program
\* and every set of operations.
THEOREM FetchInvariant == DataPortSpec => []FetchInv
BY FetchInitInv, FetchInvStep, PTL DEF DataPortSpec

\* The fetch stage never takes a word for the one at another address, whatever
\* is redirected, killed, or served for the data port in between.
THEOREM FetchesAreCorrect == DataPortSpec => []FetchCorrect
<1>1. FetchInv => FetchCorrect
  BY DEF FetchInv
<1> QED
  BY <1>1, FetchInvariant, PTL

----------------------------------------------------------------------------
\* Accesses of the core and of the walker, with tables in DDR.

\* The walker's addresses are in DDR, so its reply is the bridge's.
LEMMA WalkerInDdr ==
  ASSUME TablesInDdr, CoreTypeOK, ptw_owns
  PROVE  /\ phys_data.adr \in DdrAddr /\ phys_data.adr \notin RamAddr /\ phys_data.adr \notin MmioAddr
         /\ phys_ack = ddr_data_ack
BY PortDrives, DdrContent DEF TablesInDdr, CoreTypeOK, phys_ack, DataAck

\* Outside of the atomic unit the port carries the load or store in the memory
\* stage; inside of it there is an atomic operation.
LEMMA CorePort ==
  ASSUME CoreTypeOK, UnitOK
  PROVE  /\ coreCyc => (mem_req /\ atomic_state = "ATOMIC_IDLE") \/ atomic_state \in Accessing
         /\ stall_atomic => isAtomic /\ ~mem_req
         /\ mem_req => ~stall_atomic
BY DEF CoreTypeOK, UnitOK, coreCyc, mem_req, stall_atomic, isAtomic, Accessing, AtomicStates

\* Until it is acknowledged, an access stays on the port as it is.
LEMMA PortHeld ==
  ASSUME CoreTypeOK, UnitOK, phys_data.cyc, phys_data.stb, ~phys_ack,
         ptw_state \notin {"PTW_L1_CHECK", "PTW_L0_CHECK"},
         NEW trap, NEW next, NEW walk, CoreStep(next, trap), PtwStep(walk)
  PROVE  phys_data' = phys_data
<1>1. CASE ptw_owns
  <2>1. UNCHANGED ptwVars
    BY <1>1 DEF ptw_owns, walk_active, PtwStep, PtwIdle, PtwWait, PtwCheck, PtwUpdate, PtwEnd, ptwVars
  <2> QED
    BY <1>1, <2>1 DEF ptw_owns, walk_active, phys_data, WithAD, ptwVars
<1>2. CASE ~ptw_owns
  <2>1. coreCyc /\ IF atomic_state # "ATOMIC_IDLE" THEN atomic_started ELSE mem_started
    BY <1>2, PortDrives
  <2>2. ptw_state \in {"PTW_IDLE", "PTW_FILL", "PTW_FAULT"}
    BY <1>2 DEF CoreTypeOK, PtwStates, ptw_owns, walk_active
  <2>3. ptw_state' \in {"PTW_IDLE", "PTW_FAULT"}
    BY <2>1, <2>2 DEF PtwStep, PtwIdle, PtwWait, PtwCheck, PtwUpdate, PtwEnd, ptwVars, walk_active
  <2>4. ~ptw_owns'
    BY <2>3 DEF ptw_owns, walk_active
  <2>5. ~core_ack
    BY <1>2 DEF core_ack
  <2>6. CASE mem_req /\ atomic_state = "ATOMIC_IDLE"
    <3>1. mem_started' = TRUE /\ UNCHANGED <<op, atomic_state, atomic_started, atomic_new_value>>
      BY <2>5, <2>6, CorePort
         DEF CoreStep, AtomicStart, AtomicAccess, AtomicCapture, AtomicComplete, AtomicIdle, MemStep,
             stall_mem, isAtomic, mem_req, Accessing
    <3>2. mem_started' = mem_started
      BY <2>1, <2>6, <3>1 DEF CoreTypeOK
    <3>3. core_data' = core_data
      BY <3>1, <3>2 DEF core_data, coreCyc, mem_req
    <3> QED
      BY <1>2, <2>4, <3>3 DEF phys_data
  <2>7. CASE atomic_state \in Accessing
    <3>1. atomic_started' = TRUE /\ UNCHANGED <<op, mem_started, atomic_state, atomic_new_value>>
      BY <2>5, <2>7
         DEF CoreStep, AtomicStart, AtomicAccess, AtomicCapture, AtomicComplete, AtomicIdle,
             stall_atomic, Accessing
    <3>2. atomic_started' = atomic_started
      BY <2>1, <2>7, <3>1 DEF Accessing, CoreTypeOK
    <3>3. core_data' = core_data
      BY <3>1, <3>2 DEF core_data, coreCyc, mem_req
    <3> QED
      BY <1>2, <2>4, <3>3 DEF phys_data
  <2> QED
    BY <2>1, <2>6, <2>7, CorePort
<1> QED
  BY <1>1, <1>2

\* A request of the data port is the port's until it is acknowledged.
LEMMA RequestStep ==
  ASSUME TablesInDdr, SocTypeOK, CoreTypeOK, OwnerOK, UnitOK, RequestOK,
         NEW trap, NEW next, NEW walk, NEW i, NEW target, ClkEdge(next, trap, walk, i, target)
  PROVE  RequestOK'
<1> DEFINE d == phys_data
           r == ddr_bus_request(d, i)
<1>0. /\ d \in Drive
      /\ SocStep(d, i) /\ CoreStep(next, trap) /\ PtwStep(walk) /\ BridgeStep(r)
  BY PortDrives DEF ClkEdge, SocStep
<1>1. ASSUME (InFlight /\ ddr_owner_is_data)'
      PROVE  /\ d.cyc /\ d.stb /\ d.adr \in DdrAddr /\ d' = d
             /\ ddr_cur' = DdrRequest(d.we, d.adr, d.dat)
  <2>1. ddr_owner_valid /\ ~ddr_owner_cooldown /\ ddr_owner_is_data /\ ~ddr_bus_ack
    BY <1>0, <1>1, OwnerKept
  <2>2. d.cyc /\ d.stb /\ d.adr \in DdrAddr /\ ddr_cur' = DdrRequest(d.we, d.adr, d.dat)
    <3>1. CASE ddr_phase # "idle"
      <4>1. ddr_cur' = ddr_cur
        BY <1>0, <2>1, <3>1 DEF BridgeStep, Ddr!Perform, Ddr!Acknowledge, ddrVars
      <4> QED
        BY <2>1, <3>1, <4>1 DEF RequestOK, InFlight
    <3>2. CASE ddr_phase = "idle"
      <4>1. r # NoAck /\ Ddr!Accept(r)
        BY <1>0, <1>1, <2>1, <3>2
           DEF BridgeStep, Ddr!Perform, Ddr!Acknowledge, ddrVars, InFlight, ddr_bus_ack
      <4>2. d.cyc /\ d.stb /\ d.adr \in DdrAddr /\ r = DdrRequest(d.we, d.adr, d.dat)
        BY <2>1, <4>1 DEF ddr_bus_request, ToData, ToInstr, ddr_data_cyc
      <4> QED
        BY <4>1, <4>2 DEF Ddr!Accept
    <3> QED
      BY <3>1, <3>2
  <2>3. ~phys_ack
    BY <2>1, <2>2, DdrContent DEF phys_ack, DataAck, ddr_data_ack
  <2>4. ptw_state \notin {"PTW_L1_CHECK", "PTW_L0_CHECK"}
    BY <2>1 DEF RequestOK
  <2>5. d' = d
    BY <1>0, <2>2, <2>3, <2>4, PortHeld
  <2> QED
    BY <2>2, <2>5
<1>2. ASSUME ptw_state' \in {"PTW_L1_CHECK", "PTW_L0_CHECK"}
      PROVE  ~ddr_owner_valid' /\ ~ram_ack'
  <2>1. walk_active /\ phys_ack
    BY <1>0, <1>2
       DEF PtwStep, PtwIdle, PtwWait, PtwCheck, PtwUpdate, PtwEnd, ptwVars, walk_active
  <2>2. ptw_owns
    BY <2>1 DEF ptw_owns
  <2>3. ddr_data_ack /\ ~d.lock /\ d.adr \notin RamAddr
    BY <2>1, <2>2, PortDrives, WalkerInDdr
  <2>4. ~ddr_owner_valid'
    BY <1>0, <2>3 DEF SocStep, OwnerStep, ddr_data_ack, ToData
  <2>5. ~ram_ack'
    BY <1>0, <2>3 DEF SocStep, RamStep
  <2> QED
    BY <2>4, <2>5
<1>3. (InFlight /\ ddr_owner_is_data =>
         /\ phys_data.cyc /\ phys_data.stb /\ phys_data.adr \in DdrAddr
         /\ ddr_cur = DdrRequest(phys_data.we, phys_data.adr, phys_data.dat))'
  BY <1>1 DEF DdrRequest
<1> QED
  BY <1>2, <1>3 DEF RequestOK

\* Who is at the port when RAM or a device is strobed, and what becomes of a
\* load or store that stays in the memory stage.
LEMMA StrobeOfCore ==
  ASSUME TablesInDdr, CoreTypeOK, UnitOK, phys_data.cyc, phys_data.stb, phys_data.adr \notin DdrAddr,
         NEW trap, NEW next, CoreStep(next, trap), mem_req', mem_started'
  PROVE  /\ ~ptw_owns /\ op' = op /\ mem_req
         /\ phys_data.adr = op.adr /\ phys_data.dat = op.dat /\ phys_data.we = (op.kind = "store")
<1>1. ~ptw_owns
  BY WalkerInDdr
<1>2. ~stall_atomic
  <2> SUFFICES ASSUME stall_atomic PROVE FALSE
    OBVIOUS
  <2>1. isAtomic
    BY CorePort
  <2>2. op' = op \/ op' = NoOp
    BY DEF CoreStep, AtomicStart, AtomicAccess, AtomicCapture, AtomicComplete, AtomicIdle
  <2>3. ~mem_req'
    BY <2>1, <2>2 DEF mem_req, NoOp, isAtomic
  <2> QED
    BY <2>3
<1>3. op' = op /\ mem_req
  BY <1>2 DEF CoreStep, AtomicStart, AtomicAccess, AtomicCapture, AtomicComplete, MemStep,
              stall_atomic, stall_mem, Accessing
<1>4. atomic_state = "ATOMIC_IDLE"
  BY <1>2 DEF stall_atomic
<1>5. phys_data.adr = op.adr /\ phys_data.dat = op.dat
  BY <1>1, <1>4, PortDrives
<1>6. phys_data.we = (op.kind = "store")
  <2>1. phys_data.we = (op.kind = "store" \/ atomic_state \in {"ATOMIC_SC_WRITE", "ATOMIC_AMO_WRITE"})
    BY <1>1, PortDrives
  <2>2. atomic_state \notin {"ATOMIC_SC_WRITE", "ATOMIC_AMO_WRITE"}
    BY <1>4
  <2> QED
    BY <2>1, <2>2
<1> QED
  BY <1>1, <1>3, <1>5, <1>6

\* A reply of RAM or of a device stands for the access in the memory stage.
LEMMA ReplyStepOK ==
  ASSUME TablesInDdr, SocTypeOK, CoreTypeOK, UnitOK,
         NEW trap, NEW next, NEW walk, NEW i, NEW target, ClkEdge(next, trap, walk, i, target)
  PROVE  ReplyOK'
<1> DEFINE d == phys_data
<1>0. d \in Drive /\ SocStep(d, i) /\ CoreStep(next, trap)
  BY PortDrives DEF ClkEdge
<1>1. ASSUME (ram_ack /\ mem_req /\ mem_started)'
      PROVE  (op.adr \in RamAddr /\ ram[op.adr] = IF op.kind = "store" THEN op.dat ELSE ram_dat_r)'
  <2>1. d.cyc /\ d.stb /\ d.adr \in RamAddr
    BY <1>0, <1>1 DEF SocStep, RamStep
  <2>2. d.adr \notin DdrAddr
    BY <2>1, DdrContent
  <2>3. op' = op /\ d.adr = op.adr /\ d.dat = op.dat /\ d.we = (op.kind = "store")
    BY <1>0, <1>1, <2>1, <2>2, StrobeOfCore
  <2>4. /\ ram_dat_r' = IF ~d.we THEN ram[d.adr] ELSE ram_dat_r
        /\ ram' = IF d.we THEN [ram EXCEPT ![d.adr] = d.dat] ELSE ram
    BY <1>0, <2>1 DEF SocStep, RamStep
  <2> QED
    BY <2>1, <2>3, <2>4 DEF SocTypeOK
<1>2. ASSUME (mmio_ack_q /\ op.kind = "store" /\ mem_started)'
      PROVE  (op.adr \in MmioAddr /\ mmio[op.adr] = op.dat)'
  <2>1. MmioStrobe(d)
    BY <1>0, <1>2 DEF SocStep, MmioStep
  <2>2. d.cyc /\ d.stb /\ d.adr \in MmioAddr /\ d.adr \notin DdrAddr /\ mem_req'
    BY <1>2, <2>1, DdrContent DEF MmioStrobe, mem_req
  <2>3. op' = op /\ d.adr = op.adr /\ d.dat = op.dat /\ d.we = (op.kind = "store")
    BY <1>0, <1>2, <2>2, StrobeOfCore
  <2>4. mmio' = [mmio EXCEPT ![d.adr] = d.dat]
    BY <1>0, <1>2, <2>1, <2>3 DEF SocStep, MmioStep
  <2> QED
    BY <2>2, <2>3, <2>4 DEF SocTypeOK
<1> QED
  BY <1>1, <1>2 DEF ReplyOK

LEMMA AccessInitInv == DataPortInit => AccessInv
<1>1. DataPortInit => RequestOK /\ ReplyOK
  BY DEF DataPortInit, SocInit, RequestOK, ReplyOK, InFlight, ddr_bus_ack
<1> QED
  BY <1>1, FetchInitInv DEF AccessInv

LEMMA AccessInvStep == TablesInDdr /\ AccessInv /\ [DataPortNext]_portVars => AccessInv'
<1>1. ASSUME TablesInDdr, AccessInv, DataPortNext PROVE AccessInv'
  <2>0. PICK next \in Ops \union {NoOp}, trap \in BOOLEAN, walk \in Walks :
          \E i, target : ClkEdge(next, trap, walk, i, target) /\ i.addr = pc_f
    BY <1>1, NextCases
  <2>1. PICK i, target : ClkEdge(next, trap, walk, i, target) /\ i.addr = pc_f
    BY <2>0
  <2>2. FetchInv'
    BY <1>1, FetchInvStep DEF AccessInv
  <2>3. RequestOK'
    BY <1>1, <2>1, RequestStep DEF AccessInv, FetchInv
  <2>4. ReplyOK'
    BY <1>1, <2>1, ReplyStepOK DEF AccessInv, FetchInv
  <2> QED
    BY <2>2, <2>3, <2>4 DEF AccessInv
<1>2. ASSUME AccessInv, UNCHANGED portVars PROVE AccessInv'
  <2>1. FetchInv'
    BY <1>2, FetchInvStep DEF AccessInv
  <2>2. phys_data' = phys_data
    BY <1>2 DEF portVars, coreVars, ptwVars, phys_data, core_data, ptw_owns, walk_active, WithAD,
                coreCyc, mem_req
  <2>3. RequestOK' /\ ReplyOK'
    BY <1>2, <2>2 DEF AccessInv, RequestOK, ReplyOK, portVars, socVars, coreVars, ptwVars, ownerVars,
                ddrVars, InFlight, ddr_bus_ack, DdrRequest, mem_req
  <2> QED
    BY <2>1, <2>3 DEF AccessInv
<1> QED
  BY <1>1, <1>2

\* Requests in flight and replies belong to the access on the port, when the
\* page tables are in DDR.
THEOREM AccessInvariant == TablesInDdr => (DataPortSpec => []AccessInv)
<1> SUFFICES ASSUME TablesInDdr PROVE DataPortSpec => []AccessInv
  OBVIOUS
<1>1. AccessInv /\ [DataPortNext]_portVars => AccessInv'
  BY AccessInvStep
<1> QED
  BY <1>1, AccessInitInv, PTL DEF DataPortSpec

\* What the bridge acknowledges to the data port is what memory holds.
LEMMA DataReply ==
  ASSUME OwnerOK, RequestOK, ddr_data_ack
  PROVE  /\ phys_data.adr \in DdrAddr
         /\ ddr_mem[phys_data.adr][0] = IF phys_data.we THEN InLane(phys_data.dat) ELSE ddr_ack
<1>1. InFlight /\ ddr_bus_ack /\ ddr_owner_is_data
  BY DEF ddr_data_ack, ToData, InFlight
<1>2. phys_data.adr \in DdrAddr /\ ddr_cur = DdrRequest(phys_data.we, phys_data.adr, phys_data.dat)
  BY <1>1 DEF RequestOK
<1> QED
  BY <1>1, <1>2 DEF OwnerOK, DdrRequest

\* What the walker takes for its entry is what the table holds.
LEMMA WalkerTakesEntry ==
  ASSUME TablesInDdr, AccessInv, walk_active, phys_ack
  PROVE  DataRdata(phys_data) = Content(walk_pte_addr)
<1>1. CoreTypeOK /\ OwnerOK /\ RequestOK
  BY DEF AccessInv, FetchInv
<1>2. ptw_owns
  BY DEF ptw_owns
<1>3. phys_data.adr = walk_pte_addr /\ ~phys_data.we
  BY <1>1, <1>2, PortDrives
<1>4. walk_pte_addr \in DdrAddr /\ ddr_data_ack
  BY <1>1, <1>2, <1>3, WalkerInDdr
<1>5. DataRdata(phys_data) = ddr_ack[0]
  BY <1>3, <1>4, DdrContent DEF DataRdata, DataAck, cpu_data_rdata_mux
<1>6. ddr_mem[walk_pte_addr][0] = ddr_ack
  BY <1>1, <1>3, <1>4, DataReply
<1> QED
  BY <1>4, <1>5, <1>6, DdrContent

\* The walker reads the entry that is in its table, with tables in DDR.
THEOREM WalkerReadsItsTable == TablesInDdr => (DataPortSpec => []WalkerReadsTable)
<1> SUFFICES ASSUME TablesInDdr PROVE DataPortSpec => []WalkerReadsTable
  OBVIOUS
<1>1. AccessInv => WalkerReadsTable
  BY WalkerTakesEntry DEF WalkerReadsTable
<1> QED
  BY <1>1, AccessInvariant, PTL

\* The access that ends is the one the port carries, and its reply is its own.
LEMMA MemDoneFacts ==
  ASSUME AccessInv, MemDone
  PROVE  /\ ~ptw_owns /\ phys_ack /\ phys_data.adr = op.adr /\ op.adr \in DataAddr
         /\ phys_data.cyc /\ phys_data.stb /\ core_dat_r = DataRdata(phys_data)
         /\ phys_data.we = (op.kind = "store") /\ phys_data.dat = op.dat
<1>1. CoreTypeOK /\ UnitOK
  BY DEF AccessInv, FetchInv
<1>2. ~ptw_owns /\ phys_ack /\ mem_req /\ mem_started
  BY DEF MemDone, core_ack
<1>3. atomic_state = "ATOMIC_IDLE"
  BY <1>1, <1>2, CorePort DEF stall_atomic
<1>4. coreCyc
  BY <1>2 DEF coreCyc
<1>5. phys_data.adr = op.adr /\ phys_data.cyc /\ phys_data.stb /\ phys_data.dat = op.dat
  BY <1>1, <1>2, <1>3, <1>4, PortDrives
<1>6. phys_data.we = (op.kind = "store")
  <2>1. phys_data.we = (op.kind = "store" \/ atomic_state \in {"ATOMIC_SC_WRITE", "ATOMIC_AMO_WRITE"})
    BY <1>1, <1>2, PortDrives
  <2> QED
    BY <1>3, <2>1
<1>7. op.adr \in DataAddr /\ core_dat_r = DataRdata(phys_data)
  BY <1>1, <1>2, OpFacts DEF core_dat_r
<1> QED
  BY <1>2, <1>5, <1>6, <1>7

\* A load takes the word that its address holds.
LEMMA LoadTakesContent ==
  ASSUME AccessInv, MemDone, op.kind = "load"
  PROVE  core_dat_r = Content(op.adr)
<1>1. /\ ~ptw_owns /\ phys_ack /\ phys_data.adr = op.adr /\ op.adr \in DataAddr
      /\ ~phys_data.we /\ core_dat_r = DataRdata(phys_data) /\ mem_req /\ mem_started
  BY MemDoneFacts DEF MemDone
<1>2. core_dat_r = cpu_data_rdata_mux(phys_data)
  BY <1>1 DEF phys_ack, DataRdata
<1>3. CASE op.adr \in MmioAddr
  BY <1>1, <1>2, <1>3, SocBusAssumption DEF cpu_data_rdata_mux, Content
<1>4. CASE op.adr \in DdrAddr
  <2>1. ddr_data_ack
    BY <1>1, <1>4, DdrContent DEF phys_ack, DataAck
  <2>2. ddr_mem[op.adr][0] = ddr_ack
    BY <1>1, <2>1, DataReply DEF AccessInv, FetchInv
  <2> QED
    BY <1>1, <1>2, <1>4, <2>1, <2>2, DdrContent DEF cpu_data_rdata_mux
<1>5. CASE op.adr \in RamAddr
  <2>1. op.adr \notin MmioAddr /\ op.adr \notin DdrAddr
    BY <1>5, SocBusAssumption
  <2>2. ram_ack
    BY <1>1, <2>1 DEF phys_ack, DataAck
  <2>3. ram[op.adr] = ram_dat_r
    BY <1>1, <2>2 DEF AccessInv, ReplyOK
  <2> QED
    BY <1>1, <1>2, <1>5, <2>1, <2>3 DEF cpu_data_rdata_mux, Content
<1> QED
  BY <1>1, <1>3, <1>4, <1>5 DEF DataAddr

\* A store leaves its word behind.
LEMMA StoreLeavesContent ==
  ASSUME AccessInv, MemDone, op.kind = "store", NEW i, SocStep(phys_data, i), NEW a, a = op.adr
  PROVE  Content(a)' = op.dat
<1>1. /\ phys_ack /\ phys_data.adr = a /\ a \in DataAddr /\ phys_data.cyc /\ phys_data.stb
      /\ phys_data.we /\ phys_data.dat = op.dat /\ mem_req /\ mem_started
  BY MemDoneFacts DEF MemDone
<1>2. SocTypeOK /\ OwnerOK /\ RequestOK /\ ReplyOK
  BY DEF AccessInv, FetchInv
<1>3. CASE a \in MmioAddr
  <2>1. mmio_ack_q
    BY <1>1, <1>3 DEF phys_ack, DataAck
  <2>2. mmio' = mmio
    BY <2>1 DEF SocStep, MmioStep, MmioStrobe
  <2>3. mmio[a] = op.dat
    BY <1>1, <1>2, <2>1 DEF ReplyOK
  <2> QED
    BY <1>3, <2>2, <2>3, SocBusAssumption DEF Content
<1>4. CASE a \in DdrAddr
  <2>1. ddr_data_ack
    BY <1>1, <1>4, DdrContent DEF phys_ack, DataAck
  <2>2. ddr_mem[a][0] = InLane(op.dat)
    BY <1>1, <1>2, <2>1, DataReply
  <2>3. ddr_mem' = ddr_mem
    BY <2>1, AckKeepsMemory DEF ddr_data_ack
  <2> QED
    BY <1>4, <2>2, <2>3, SocBusAssumption DEF Content, InLane
<1>5. CASE a \in RamAddr
  <2>1. ram' = [ram EXCEPT ![a] = op.dat]
    BY <1>1, <1>5 DEF SocStep, RamStep
  <2> QED
    BY <1>2, <1>5, <2>1 DEF Content, SocTypeOK
<1> QED
  BY <1>1, <1>3, <1>4, <1>5 DEF DataAddr

\* Every load takes the word at its address and every store leaves its own,
\* with tables in DDR, whatever the walker and the fetch stage do.
THEOREM AccessesAreCorrect == TablesInDdr => (DataPortSpec => AccessesCorrect)
<1> SUFFICES ASSUME TablesInDdr PROVE DataPortSpec => AccessesCorrect
  OBVIOUS
<1>1. AccessInv /\ DataPortNext
        => (MemDone /\ op.kind = "store" => \A a \in {op.adr} : Content(a)' = op.dat)
  <2> SUFFICES ASSUME AccessInv, DataPortNext, MemDone, op.kind = "store", NEW a \in {op.adr}
               PROVE  Content(a)' = op.dat
    OBVIOUS
  <2>1. \E i : SocStep(phys_data, i)
    BY NextCases DEF ClkEdge
  <2> QED
    BY <2>1, StoreLeavesContent
<1>2. AccessInv => (MemDone /\ op.kind = "load" => core_dat_r = Content(op.adr))
  BY LoadTakesContent
<1>3. AccessInv /\ [DataPortNext]_portVars
        => [MemDone /\ op.kind = "store" => \A a \in {op.adr} : Content(a)' = op.dat]_portVars
  BY <1>1
<1> QED
  BY <1>2, <1>3, AccessInvariant, PTL DEF DataPortSpec, AccessesCorrect

----------------------------------------------------------------------------
\* Atomicity.

\* What an address of memory holds, of given contents.
Holds(r, m, a) == IF a \in RamAddr THEN r[a] ELSE m[a][0][0]

LEMMA MemoryContent ==
  /\ \A a \in RamAddr \union DdrAddr : Content(a) = Holds(ram, ddr_mem, a)
  /\ \A a \in RamAddr \union DdrAddr : Content(a)' = Holds(ram', ddr_mem', a)
BY SocBusAssumption DEF Content, Holds

\* A word that stays as it is is near what it was, and so is one after two
\* steps of the walker's.
LEMMA NearFacts ==
  /\ \A a, x : Near(a, x, x)
  /\ \A a, x, y, z : Near(a, x, y) /\ Near(a, y, z) => Near(a, x, z)
BY DEF Near

\* A word that changes is written by what the port drives, and if it is in DDR
\* the data port's request is in flight.
LEMMA PortWrites ==
  ASSUME TablesInDdr, AccessInv, NEW i, SocStep(phys_data, i), NEW a \in RamAddr \union DdrAddr,
         Holds(ram', ddr_mem', a) # Holds(ram, ddr_mem, a)
  PROVE  /\ phys_data.cyc /\ phys_data.we /\ a = phys_data.adr
         /\ Holds(ram', ddr_mem', a) = phys_data.dat
         /\ a \in DdrAddr => InFlight /\ ddr_owner_is_data
<1> DEFINE d == phys_data
<1>1. SocTypeOK /\ OwnerOK /\ RequestOK
  BY DEF AccessInv, FetchInv
<1>2. CASE a \in RamAddr
  <2>1. ram' # ram
    BY <1>2 DEF Holds
  <2>2. d.cyc /\ d.we /\ ram' = [ram EXCEPT ![d.adr] = d.dat]
    BY <2>1 DEF SocStep, RamStep
  <2> QED
    BY <1>1, <1>2, <2>2, DdrContent DEF Holds, SocTypeOK
<1>3. CASE a \in DdrAddr
  <2>1. a \notin RamAddr /\ ddr_mem'[a] # ddr_mem[a]
    BY <1>3, DdrContent DEF Holds
  <2>2. ddr_mem' # ddr_mem
    BY <2>1
  <2>3. ~ddr_bus_ack /\ Ddr!Perform
    BY <2>2, BridgeCases DEF SocStep, Ddr!EndAck, Ddr!Accept, Ddr!Acknowledge, ddrVars
  <2>4. /\ ddr_cur.we /\ a = ddr_cur.line /\ ddr_mem'[a][0] = ddr_cur.dat_w
        /\ InFlight
    BY <1>1, <1>3, <2>1, <2>3, Performs DEF Ddr!Perform, InFlight
  <2>5. ddr_owner_is_data
    BY <1>1, <2>4 DEF OwnerOK, DdrRequest
  <2>6. d.cyc /\ ddr_cur = DdrRequest(d.we, d.adr, d.dat)
    BY <1>1, <2>4, <2>5 DEF RequestOK
  <2>7. d.we /\ a = d.adr /\ ddr_mem'[a][0] = InLane(d.dat)
    BY <2>4, <2>6 DEF DdrRequest
  <2> QED
    BY <2>1, <2>4, <2>5, <2>6, <2>7 DEF Holds, InLane
<1> QED
  BY <1>2, <1>3

\* The core's writes: the operation in the memory stage, at its address.
LEMMA CoreWrites ==
  ASSUME TablesInDdr, AccessInv, NEW i, SocStep(phys_data, i), ~ptw_owns,
         NEW a \in RamAddr \union DdrAddr, Holds(ram', ddr_mem', a) # Holds(ram, ddr_mem, a)
  PROVE  /\ op.kind = "store" \/ atomic_state \in {"ATOMIC_SC_WRITE", "ATOMIC_AMO_WRITE"}
         /\ a = op.adr
         /\ Holds(ram', ddr_mem', a) = IF atomic_state = "ATOMIC_AMO_WRITE" THEN atomic_new_value ELSE op.dat
         /\ a \in DdrAddr => Writing
<1>1. CoreTypeOK
  BY DEF AccessInv, FetchInv
<1>2. /\ phys_data.we /\ a = phys_data.adr /\ Holds(ram', ddr_mem', a) = phys_data.dat
      /\ a \in DdrAddr => Writing
  BY PortWrites DEF Writing
<1> QED
  BY <1>1, <1>2, PortDrives

\* The walker's: accessed and dirty bits of the entry it has read.
LEMMA WalkerWrites ==
  ASSUME TablesInDdr, AccessInv, NEW i, SocStep(phys_data, i), ptw_owns,
         NEW a \in RamAddr \union DdrAddr, Holds(ram', ddr_mem', a) # Holds(ram, ddr_mem, a)
  PROVE  /\ ptw_state = "PTW_AD_WAIT" /\ a = walk_pte_addr
         /\ Holds(ram', ddr_mem', a) = WithAD(walk_pte)
<1>1. CoreTypeOK
  BY DEF AccessInv, FetchInv
<1>2. phys_data.we /\ a = phys_data.adr /\ Holds(ram', ddr_mem', a) = phys_data.dat
  BY PortWrites
<1>3. ~walk_active /\ a = walk_pte_addr /\ Holds(ram', ddr_mem', a) = WithAD(walk_pte)
  BY <1>1, <1>2, PortDrives
<1> QED
  BY <1>3 DEF ptw_owns

\* So a word that the core does not write stays as it is, or near.
LEMMA NothingElseWritten ==
  ASSUME TablesInDdr, AccessInv, WalkOK, NEW i, SocStep(phys_data, i),
         NEW a \in RamAddr \union DdrAddr,
         ptw_owns \/ (op.kind # "store" /\ atomic_state \notin {"ATOMIC_SC_WRITE", "ATOMIC_AMO_WRITE"})
  PROVE  Near(a, Holds(ram, ddr_mem, a), Holds(ram', ddr_mem', a))
<1> DEFINE held  == Holds(ram, ddr_mem, a)
           holds == Holds(ram', ddr_mem', a)
<1>1. CASE holds = held
  BY <1>1 DEF Near
<1>2. CASE holds # held
  <2>1. ptw_owns
    BY <1>2, CoreWrites
  <2>2. ptw_state = "PTW_AD_WAIT" /\ a = walk_pte_addr /\ holds = WithAD(walk_pte)
    BY <1>2, <2>1, WalkerWrites
  <2>3. a \in {RootPte, LeafPte} /\ Content(a) = held
    BY <2>2, MemoryContent DEF AccessInv, FetchInv, CoreTypeOK
  <2>4. held \in {walk_pte, WithAD(walk_pte)}
    BY <2>2, <2>3 DEF WalkOK
  <2>5. held \subseteq holds /\ holds \subseteq held \union {"A", "D"}
    BY <2>2, <2>4 DEF WithAD
  <2> QED
    BY <2>3, <2>5 DEF Near
<1> QED
  BY <1>1, <1>2

\* The walker's entry stays what it has read of it, up to its own write.
LEMMA WalkStep ==
  ASSUME TablesInDdr, AccessInv, WalkOK, NEW trap, NEW next, NEW walk, NEW i, NEW target,
         ClkEdge(next, trap, walk, i, target)
  PROVE  WalkOK'
<1>1. SocTypeOK /\ CoreTypeOK /\ OwnerOK /\ RequestOK
  BY DEF AccessInv, FetchInv
<1>2. SocStep(phys_data, i) /\ PtwStep(walk)
  BY DEF ClkEdge
<1> DEFINE held  == Holds(ram, ddr_mem, walk_pte_addr)
           holds == Holds(ram', ddr_mem', walk_pte_addr)
<1>3. walk_pte_addr \in DdrAddr /\ walk_pte_addr \notin RamAddr
  BY <1>1, DdrContent DEF CoreTypeOK, TablesInDdr
<1>4. Content(walk_pte_addr) = held
  BY <1>3, MemoryContent
<1>5. walk_pte_addr' = walk_pte_addr => Content(walk_pte_addr)' = holds
  BY <1>3, SocBusAssumption DEF Content, Holds
<1>6. ddr_mem' = ddr_mem => holds = held
  BY <1>3 DEF Holds
<1> HIDE DEF held, holds
<1>7. ASSUME ptw_state' \in {"PTW_L1_CHECK", "PTW_L0_CHECK"}
      PROVE  Content(walk_pte_addr)' = walk_pte'
  <2>1. walk_active /\ phys_ack /\ walk_pte' = DataRdata(phys_data) /\ walk_pte_addr' = walk_pte_addr
    BY <1>2, <1>7
       DEF PtwStep, PtwIdle, PtwWait, PtwCheck, PtwUpdate, PtwEnd, ptwVars, walk_active
  <2>2. DataRdata(phys_data) = Content(walk_pte_addr)
    BY <2>1, WalkerTakesEntry
  <2>3. ddr_bus_ack
    BY <1>1, <2>1, WalkerInDdr DEF ptw_owns, ddr_data_ack
  <2>4. ddr_mem' = ddr_mem
    BY <1>2, <2>3, AckKeepsMemory
  <2> QED
    BY <1>4, <1>5, <1>6, <2>1, <2>2, <2>4
<1>8. ASSUME ptw_state' = "PTW_AD_WAIT"
      PROVE  Content(walk_pte_addr)' \in {walk_pte', WithAD(walk_pte)'}
  <2>1. /\ ptw_state \in {"PTW_L1_CHECK", "PTW_L0_CHECK", "PTW_AD_WAIT"}
        /\ walk_pte_addr' = walk_pte_addr /\ walk_pte' = walk_pte /\ walk_store' = walk_store
    BY <1>2, <1>8
       DEF PtwStep, PtwIdle, PtwWait, PtwCheck, PtwUpdate, PtwEnd, ptwVars, walk_active
  <2>2. WithAD(walk_pte)' = WithAD(walk_pte)
    BY <2>1 DEF WithAD
  <2>3. CASE ptw_state \in {"PTW_L1_CHECK", "PTW_L0_CHECK"}
    <3>1. ~InFlight
      BY <1>1, <2>3 DEF RequestOK, OwnerOK
    <3>2. ddr_mem' = ddr_mem
      BY <1>2, <3>1, BridgeCases
         DEF SocStep, InFlight, Ddr!EndAck, Ddr!Accept, Ddr!Perform, Ddr!Acknowledge, ddrVars
    <3>3. held = walk_pte
      BY <1>4, <2>3 DEF WalkOK
    <3> QED
      BY <1>5, <1>6, <2>1, <3>2, <3>3
  <2>4. CASE ptw_state = "PTW_AD_WAIT"
    <3>1. held \in {walk_pte, WithAD(walk_pte)}
      BY <1>4, <2>4 DEF WalkOK
    <3>2. holds = held \/ holds = WithAD(walk_pte)
      <4>1. ptw_owns
        BY <2>4 DEF ptw_owns
      <4> QED
        BY <1>2, <1>3, <4>1, WalkerWrites DEF held, holds
    <3> QED
      BY <1>5, <2>1, <2>2, <3>1, <3>2
  <2> QED
    BY <2>1, <2>3, <2>4
<1> QED
  BY <1>7, <1>8 DEF WalkOK

\* A write of the atomic unit that is with the bridge stays so, and keeps the
\* walker from the port, until it is acknowledged.
LEMMA WritingKept ==
  ASSUME TablesInDdr, AccessInv, NEW trap, NEW next, NEW walk, NEW i, NEW target,
         ClkEdge(next, trap, walk, i, target), Writing,
         atomic_state \in {"ATOMIC_SC_WRITE", "ATOMIC_AMO_WRITE"}, atomic_state' = atomic_state
  PROVE  Writing'
<1> DEFINE d == phys_data
           r == ddr_bus_request(d, i)
<1>1. SocTypeOK /\ CoreTypeOK /\ OwnerOK /\ RequestOK
  BY DEF AccessInv, FetchInv
<1>2. d \in Drive /\ SocStep(d, i) /\ CoreStep(next, trap) /\ PtwStep(walk) /\ BridgeStep(r)
  BY <1>1, PortDrives DEF ClkEdge, SocStep
<1>3. InFlight /\ ddr_owner_is_data /\ ddr_owner_valid /\ ~ptw_owns
  BY <1>1 DEF Writing, OwnerOK
<1>4. d.cyc /\ d.stb /\ d.adr \in DdrAddr
  BY <1>1, <1>3 DEF RequestOK
<1>5. coreCyc /\ atomic_started
  BY <1>1, <1>3, <1>4, PortDrives
<1>6. ~phys_ack
  <2>1. AtomicAccess
    BY <1>2 DEF CoreStep, AtomicStart, AtomicCapture, AtomicComplete, AtomicIdle, stall_atomic
  <2>2. AfterAccess[atomic_state] # atomic_state
    BY DEF AfterAccess, Accessing
  <2> QED
    BY <1>3, <1>5, <2>1, <2>2 DEF AtomicAccess, core_ack
<1>7. ~ddr_bus_ack /\ ddr_phase # "idle"
  BY <1>1, <1>3, <1>4, <1>6, DdrContent DEF phys_ack, DataAck, ddr_data_ack, ToData, InFlight, OwnerOK
<1>8. InFlight'
  <2>1. CASE Ddr!Perform
    BY <2>1 DEF Ddr!Perform, InFlight
  <2>2. CASE Ddr!Acknowledge
    BY <1>1, <2>2, SocBusAssumption DEF Ddr!Acknowledge, InFlight, ddr_bus_ack, SocTypeOK, DdrWord
  <2>3. CASE UNCHANGED ddrVars
    BY <1>7, <2>3 DEF ddrVars, InFlight
  <2> QED
    BY <1>2, <1>7, <2>1, <2>2, <2>3, BridgeCases DEF Ddr!Accept
<1>9. ddr_owner_is_data'
  BY <1>1, <1>2, <1>3, <1>8, OwnerKept
<1>10. ~ptw_owns'
  <2>1. ptw_state \in {"PTW_IDLE", "PTW_FILL", "PTW_FAULT"}
    BY <1>1, <1>3 DEF RequestOK, CoreTypeOK, PtwStates, ptw_owns, walk_active
  <2>2. ptw_state' \in {"PTW_IDLE", "PTW_FAULT"}
    BY <1>2, <1>5, <2>1 DEF PtwStep, PtwIdle, PtwWait, PtwCheck, PtwUpdate, PtwEnd, ptwVars, walk_active
  <2> QED
    BY <2>2 DEF ptw_owns, walk_active
<1> QED
  BY <1>8, <1>9, <1>10 DEF Writing

\* The word that an SC or an AMO is about to write, one step on.
LEMMA WriteStep ==
  ASSUME TablesInDdr, AccessInv, WalkOK, NEW trap, NEW next, NEW walk, NEW i, NEW target,
         ClkEdge(next, trap, walk, i, target),
         atomic_state \in {"ATOMIC_SC_WRITE", "ATOMIC_AMO_WRITE"}, atomic_state' = atomic_state,
         NEW a \in RamAddr \union DdrAddr, a = op.adr, NEW old, NEW new,
         new = IF atomic_state = "ATOMIC_AMO_WRITE" THEN atomic_new_value ELSE op.dat,
         \/ Near(a, old, Holds(ram, ddr_mem, a))
         \/ Holds(ram, ddr_mem, a) = new /\ (a \in DdrAddr => Writing)
  PROVE  \/ Near(a, old, Holds(ram', ddr_mem', a))
         \/ Holds(ram', ddr_mem', a) = new /\ (a \in DdrAddr => Writing')
<1> DEFINE held  == Holds(ram, ddr_mem, a)
           holds == Holds(ram', ddr_mem', a)
<1>1. SocStep(phys_data, i)
  BY DEF ClkEdge
<1>2. CASE ~ptw_owns /\ holds # held
  <2>1. holds = new /\ (a \in DdrAddr => Writing)
    BY <1>1, <1>2, CoreWrites
  <2> QED
    BY <2>1, WritingKept
<1>3. CASE holds = held
  BY <1>3, WritingKept
<1>4. CASE ptw_owns
  <2>1. Near(a, held, holds)
    BY <1>1, <1>4, NothingElseWritten
  <2>2. CASE Near(a, old, held)
    BY <2>1, <2>2, NearFacts
  <2>3. CASE held = new /\ (a \in DdrAddr => Writing)
    <3>1. a \notin DdrAddr
      BY <1>4, <2>3 DEF Writing
    <3>2. holds = held
      BY <2>1, <3>1 DEF Near, TablesInDdr
    <3> QED
      BY <2>3, <3>1, <3>2
  <2> QED
    BY <2>2, <2>3
<1> QED
  BY <1>2, <1>3, <1>4

\* The value captured is the word's, and in that cycle nobody writes it.
LEMMA CaptureTakesContent ==
  ASSUME TablesInDdr, AccessInv, CaptureOK, NEW i, SocStep(phys_data, i),
         atomic_state \in {"ATOMIC_LR_CAPTURE", "ATOMIC_AMO_CAPTURE"}
  PROVE  /\ core_dat_r = Holds(ram, ddr_mem, op.adr)
         /\ Holds(ram', ddr_mem', op.adr) = Holds(ram, ddr_mem, op.adr)
<1>1. CoreTypeOK /\ UnitOK
  BY DEF AccessInv, FetchInv
<1>2. isAtomic /\ op.kind # "store"
  BY <1>1 DEF UnitOK, isAtomic
<1>3. op.adr \in RamAddr \union DdrAddr /\ op.adr \notin MmioAddr
  BY <1>1, <1>2, OpFacts
<1>4. ~ptw_owns
  BY DEF CaptureOK, ptw_owns, walk_active
<1>5. core_dat_r = DataRdata(phys_data) /\ phys_data.adr = op.adr
  BY <1>1, <1>4, PortDrives DEF core_dat_r
<1>6. core_dat_r = Holds(ram, ddr_mem, op.adr)
  <2>1. CASE op.adr \in RamAddr
    BY <1>3, <1>5, <2>1, DdrContent
       DEF CaptureOK, DataRdata, DataAck, cpu_data_rdata_mux, Holds
  <2>2. CASE op.adr \in DdrAddr
    <3>1. ~ddr_data_ack /\ cpu_data_rdata_q = Content(op.adr)
      BY <2>2 DEF CaptureOK, InFlight, ddr_data_ack
    <3> QED
      BY <1>3, <1>5, <2>2, <3>1, MemoryContent DEF DataRdata, DataAck
  <2> QED
    BY <1>3, <2>1, <2>2
<1>7. Holds(ram', ddr_mem', op.adr) = Holds(ram, ddr_mem, op.adr)
  BY <1>2, <1>3, <1>4, CoreWrites
<1> QED
  BY <1>6, <1>7

\* How the capture is reached.
LEMMA CaptureStep ==
  ASSUME TablesInDdr, AccessInv, NEW trap, NEW next, NEW walk, NEW i, NEW target,
         ClkEdge(next, trap, walk, i, target)
  PROVE  CaptureOK'
<1> DEFINE d == phys_data
<1> SUFFICES ASSUME atomic_state' \in {"ATOMIC_LR_CAPTURE", "ATOMIC_AMO_CAPTURE"}
             PROVE  (/\ ptw_state \in {"PTW_IDLE", "PTW_FAULT"}
                     /\ op.adr \in RamAddr => ram_ack /\ ram_dat_r = ram[op.adr]
                     /\ op.adr \in DdrAddr => ~InFlight /\ cpu_data_rdata_q = Content(op.adr))'
  BY DEF CaptureOK
<1>1. SocTypeOK /\ CoreTypeOK /\ UnitOK /\ OwnerOK /\ RequestOK
  BY DEF AccessInv, FetchInv
<1>2. SocStep(d, i) /\ CoreStep(next, trap) /\ PtwStep(walk)
  BY DEF ClkEdge
<1>3. /\ atomic_state \in {"ATOMIC_LR_READ", "ATOMIC_AMO_READ"} /\ atomic_started /\ core_ack
      /\ op' = op
  <2>1. AtomicAccess
    BY <1>2 DEF CoreStep, AtomicStart, AtomicCapture, AtomicComplete, AtomicIdle, stall_atomic, isAtomic
  <2>2. ~(atomic_state \in {"ATOMIC_LR_CAPTURE", "ATOMIC_AMO_CAPTURE"})
    BY <2>1 DEF AtomicAccess, Accessing
  <2>3. atomic_started /\ core_ack /\ atomic_state' = AfterAccess[atomic_state] /\ op' = op
    BY <2>1, <2>2 DEF AtomicAccess
  <2> QED
    BY <2>1, <2>3 DEF AtomicAccess, Accessing, AfterAccess
<1>4. isAtomic /\ op.kind # "store"
  BY <1>1, <1>3 DEF UnitOK, isAtomic
<1>5. op.adr \in RamAddr \union DdrAddr /\ op.adr \notin MmioAddr
  BY <1>1, <1>4, OpFacts
<1>6. ~ptw_owns /\ phys_ack /\ coreCyc
  BY <1>3 DEF core_ack, coreCyc, Accessing
<1>7. d.cyc /\ d.stb /\ ~d.we /\ d.adr = op.adr
  <2>1. d.we = (op.kind = "store" \/ atomic_state \in {"ATOMIC_SC_WRITE", "ATOMIC_AMO_WRITE"})
    BY <1>1, <1>6, PortDrives
  <2>2. ~d.we
    BY <1>3, <1>4, <2>1
  <2> QED
    BY <1>1, <1>3, <1>6, <2>2, PortDrives
<1>8. ptw_state' \in {"PTW_IDLE", "PTW_FAULT"}
  <2>1. ram_ack \/ ddr_owner_valid
    BY <1>5, <1>6, <1>7, DdrContent DEF phys_ack, DataAck, ddr_data_ack, ToData
  <2>2. ptw_state \in {"PTW_IDLE", "PTW_FILL", "PTW_FAULT"}
    BY <1>1, <1>6, <2>1 DEF RequestOK, CoreTypeOK, PtwStates, ptw_owns, walk_active
  <2> QED
    BY <1>2, <1>6, <2>2 DEF PtwStep, PtwIdle, PtwWait, PtwCheck, PtwUpdate, PtwEnd, ptwVars, walk_active
<1>9. CASE op.adr \in RamAddr
  <2>1. ram_ack' /\ ram_dat_r' = ram[op.adr] /\ ram' = ram
    BY <1>2, <1>7, <1>9 DEF SocStep, RamStep
  <2> QED
    BY <1>3, <1>8, <1>9, <2>1, DdrContent
<1>10. CASE op.adr \in DdrAddr
  <2>1. ddr_data_ack /\ ddr_bus_ack /\ op.adr \notin RamAddr
    BY <1>6, <1>7, <1>10, DdrContent DEF phys_ack, DataAck, ddr_data_ack
  <2>2. ddr_mem[op.adr][0] = ddr_ack
    BY <1>1, <1>7, <2>1, DataReply
  <2>3. ~InFlight' /\ ddr_mem' = ddr_mem
    BY <1>1, <1>2, <2>1 DEF SocStep, BridgeStep, Ddr!EndAck, InFlight, ddr_bus_ack, OwnerOK
  <2>4. cpu_data_rdata_q' = ddr_ack[0]
    BY <1>2, <1>6, <1>7, <1>10, <2>1, DdrContent DEF SocStep, ReplyStep, phys_ack, cpu_data_rdata_mux
  <2>5. Content(op.adr)' = ddr_mem'[op.adr][0][0]
    BY <1>3, <1>10, SocBusAssumption DEF Content
  <2> QED
    BY <1>3, <1>8, <2>1, <2>2, <2>3, <2>4, <2>5
<1> QED
  BY <1>5, <1>9, <1>10

\* The value that the reservation or the operation is held to is the word's, in
\* every step of the atomic unit and of a load or store.
LEMMA ReservationStep ==
  ASSUME TablesInDdr, AccessInv, WalkOK, CaptureOK, ReservationOK,
         AccessInv', NEW trap, NEW next, NEW walk, NEW i, NEW target,
         ClkEdge(next, trap, walk, i, target)
  PROVE  ReservationOK'
<1> DEFINE held(a)  == Holds(ram, ddr_mem, a)
           holds(a) == Holds(ram', ddr_mem', a)
           new == IF atomic_state = "ATOMIC_AMO_WRITE" THEN atomic_new_value ELSE op.dat
<1>1. SocStep(phys_data, i) /\ CoreStep(next, trap)
  BY DEF ClkEdge
<1>2. CoreTypeOK /\ UnitOK /\ CoreTypeOK' /\ UnitOK'
  BY DEF AccessInv, FetchInv
<1>3. isAtomic => op.adr \in RamAddr \union DdrAddr
  BY <1>2, OpFacts
<1>4. ASSUME op.kind # "store", atomic_state \notin {"ATOMIC_SC_WRITE", "ATOMIC_AMO_WRITE"},
             NEW a \in RamAddr \union DdrAddr, NEW old, Near(a, old, held(a))
      PROVE  Near(a, old, holds(a))
  <2>1. Near(a, held(a), holds(a))
    BY <1>1, <1>4, NothingElseWritten
  <2> QED
    BY <1>4, <2>1, NearFacts
<1>5. /\ reservation_valid /\ op.kind # "store" /\ atomic_state # "ATOMIC_SC_WRITE" =>
           Near(reservation_word_addr, atomic_old_value, held(reservation_word_addr))
      /\ atomic_state = "ATOMIC_SC_WRITE" =>
           /\ reservation_valid /\ reservation_word_addr = op.adr
           /\ \/ Near(op.adr, atomic_old_value, held(op.adr))
              \/ held(op.adr) = op.dat /\ (op.adr \in DdrAddr => Writing)
      /\ atomic_state = "ATOMIC_AMO_WRITE" =>
           /\ ~reservation_valid
           /\ \/ Near(op.adr, atomic_old_value, held(op.adr))
              \/ held(op.adr) = atomic_new_value /\ (op.adr \in DdrAddr => Writing)
  <2>1. reservation_word_addr \in RamAddr \union DdrAddr
    BY <1>2 DEF CoreTypeOK
  <2>2. atomic_state \in {"ATOMIC_SC_WRITE", "ATOMIC_AMO_WRITE"} => op.adr \in RamAddr \union DdrAddr
    BY <1>2, <1>3 DEF UnitOK, isAtomic
  <2> QED
    BY <2>1, <2>2, MemoryContent DEF ReservationOK
<1>6. SUFFICES
        /\ reservation_valid' /\ op'.kind # "store" /\ atomic_state' # "ATOMIC_SC_WRITE" =>
             Near(reservation_word_addr', atomic_old_value', holds(reservation_word_addr'))
        /\ atomic_state' = "ATOMIC_SC_WRITE" =>
             /\ reservation_valid' /\ reservation_word_addr' = op'.adr
             /\ \/ Near(op'.adr, atomic_old_value', holds(op'.adr))
                \/ holds(op'.adr) = op'.dat /\ (op'.adr \in DdrAddr => Writing')
        /\ atomic_state' = "ATOMIC_AMO_WRITE" =>
             /\ ~reservation_valid'
             /\ \/ Near(op'.adr, atomic_old_value', holds(op'.adr))
                \/ holds(op'.adr) = atomic_new_value' /\ (op'.adr \in DdrAddr => Writing')
  <2>1. reservation_word_addr' \in RamAddr \union DdrAddr
    BY <1>2 DEF CoreTypeOK
  <2>2. Content(reservation_word_addr)' = holds(reservation_word_addr')
    BY <2>1, SocBusAssumption DEF Content, Holds
  <2>3. atomic_state' \in {"ATOMIC_SC_WRITE", "ATOMIC_AMO_WRITE"} => op'.adr \in RamAddr \union DdrAddr
    <3> SUFFICES ASSUME atomic_state' \in {"ATOMIC_SC_WRITE", "ATOMIC_AMO_WRITE"}
                 PROVE  op'.adr \in RamAddr \union DdrAddr
      OBVIOUS
    <3>1. op'.kind \in {"sc", "amo"}
      BY <1>2 DEF UnitOK
    <3>2. op' \in Ops
      BY <1>2, <3>1 DEF CoreTypeOK, NoOp
    <3> QED
      BY <3>1, <3>2, DataPortAssumption DEF Op, DataAddr
  <2>4. atomic_state' \in {"ATOMIC_SC_WRITE", "ATOMIC_AMO_WRITE"} => Content(op.adr)' = holds(op'.adr)
    BY <2>3, SocBusAssumption DEF Content, Holds
  <2>5. Near(reservation_word_addr, atomic_old_value, Content(reservation_word_addr))'
          = Near(reservation_word_addr', atomic_old_value', Content(reservation_word_addr)')
    BY DEF Near
  <2>6. Near(op.adr, atomic_old_value, Content(op.adr))' = Near(op'.adr, atomic_old_value', Content(op.adr)')
    BY DEF Near
  <2> QED
    BY <2>2, <2>4, <2>5, <2>6 DEF ReservationOK
<1>7. ASSUME atomic_state \in {"ATOMIC_SC_WRITE", "ATOMIC_AMO_WRITE"}, atomic_state' = atomic_state
      PROVE  \/ Near(op.adr, atomic_old_value, holds(op.adr))
             \/ holds(op.adr) = new /\ (op.adr \in DdrAddr => Writing')
  <2>1. op.adr \in RamAddr \union DdrAddr
    BY <1>2, <1>3, <1>7 DEF UnitOK, isAtomic
  <2>2. \/ Near(op.adr, atomic_old_value, held(op.adr))
        \/ held(op.adr) = new /\ (op.adr \in DdrAddr => Writing)
    BY <1>5, <1>7
  <2> QED
    BY <1>7, <2>1, <2>2, WriteStep
<1> HIDE DEF held, holds
<1>8. ASSUME reservation_valid, op.kind # "store",
             atomic_state \notin {"ATOMIC_SC_WRITE", "ATOMIC_AMO_WRITE"}
      PROVE  Near(reservation_word_addr, atomic_old_value, holds(reservation_word_addr))
  BY <1>2, <1>4, <1>5, <1>8 DEF CoreTypeOK
<1>9. CASE AtomicStart
  <2>1. /\ isAtomic /\ atomic_state = "ATOMIC_IDLE" /\ op' = op
        /\ atomic_old_value' = atomic_old_value /\ reservation_word_addr' = reservation_word_addr
        /\ reservation_valid' => reservation_valid
        /\ atomic_state' = "ATOMIC_SC_WRITE" =>
             reservation_valid /\ reservation_valid' /\ reservation_word_addr = op.adr
        /\ atomic_state' # "ATOMIC_AMO_WRITE"
    BY <1>2, <1>9 DEF AtomicStart, CoreTypeOK, isAtomic
  <2>2. op.kind # "store"
    BY <2>1 DEF isAtomic
  <2> QED
    BY <1>8, <2>1, <2>2
<1>10. CASE AtomicAccess
  <2>1. /\ op' = op /\ atomic_old_value' = atomic_old_value /\ atomic_new_value' = atomic_new_value
        /\ reservation_word_addr' = reservation_word_addr
        /\ reservation_valid' => reservation_valid
        /\ atomic_state \in Accessing
    BY <1>2, <1>10 DEF AtomicAccess, CoreTypeOK
  <2>2. isAtomic /\ op.kind # "store"
    BY <1>2, <2>1 DEF UnitOK, isAtomic, Accessing
  <2>3. CASE atomic_state \in {"ATOMIC_LR_READ", "ATOMIC_AMO_READ"}
    <3>1. atomic_state' \notin {"ATOMIC_SC_WRITE", "ATOMIC_AMO_WRITE"}
      BY <1>10, <2>3 DEF AtomicAccess, AfterAccess, Accessing
    <3> QED
      BY <1>8, <2>1, <2>2, <2>3, <3>1
  <2>4. CASE atomic_state = "ATOMIC_SC_WRITE"
    <3>1. \/ ~reservation_valid' /\ atomic_state' = "ATOMIC_COMPLETE"
          \/ reservation_valid' = reservation_valid /\ atomic_state' = atomic_state
      BY <1>10, <2>4 DEF AtomicAccess, AfterAccess, Accessing
    <3> QED
      BY <1>5, <1>7, <2>1, <2>4, <3>1
  <2>5. CASE atomic_state = "ATOMIC_AMO_WRITE"
    <3>1. atomic_state' \in {"ATOMIC_COMPLETE", "ATOMIC_AMO_WRITE"}
      BY <1>10, <2>5 DEF AtomicAccess, AfterAccess, Accessing
    <3> QED
      BY <1>5, <1>7, <2>1, <2>5, <3>1
  <2> QED
    BY <2>1, <2>3, <2>4, <2>5 DEF Accessing
<1>11. CASE AtomicCapture
  <2>1. /\ atomic_state \in {"ATOMIC_LR_CAPTURE", "ATOMIC_AMO_CAPTURE"}
        /\ op' = op /\ atomic_old_value' = core_dat_r
    BY <1>11 DEF AtomicCapture
  <2>2. Near(op.adr, core_dat_r, holds(op.adr))
    <3>1. core_dat_r = held(op.adr) /\ holds(op.adr) = held(op.adr)
      BY <1>1, <2>1, CaptureTakesContent DEF held, holds
    <3> QED
      BY <3>1, NearFacts
  <2>3. CASE atomic_state = "ATOMIC_LR_CAPTURE"
    <3>1. reservation_word_addr' = op.adr /\ atomic_state' = "ATOMIC_COMPLETE"
      BY <1>11, <2>3 DEF AtomicCapture
    <3> QED
      BY <2>1, <2>2, <3>1
  <2>4. CASE atomic_state = "ATOMIC_AMO_CAPTURE"
    <3>1. ~reservation_valid' /\ atomic_state' = "ATOMIC_AMO_WRITE"
      BY <1>11, <2>4 DEF AtomicCapture
    <3> QED
      BY <2>1, <2>2, <3>1
  <2> QED
    BY <2>1, <2>3, <2>4
<1>12. CASE AtomicComplete
  <2>1. /\ atomic_state = "ATOMIC_COMPLETE" /\ atomic_state' = "ATOMIC_IDLE"
        /\ atomic_old_value' = atomic_old_value /\ reservation_word_addr' = reservation_word_addr
        /\ reservation_valid' = reservation_valid
    BY <1>12 DEF AtomicComplete
  <2>2. op.kind # "store"
    BY <1>2, <2>1 DEF UnitOK, isAtomic
  <2> QED
    BY <1>8, <2>1, <2>2
<1>13. CASE AtomicIdle(trap) /\ MemStep(next)
  <2>1. /\ atomic_state = "ATOMIC_IDLE" /\ atomic_state' = atomic_state
        /\ atomic_old_value' = atomic_old_value /\ reservation_word_addr' = reservation_word_addr
        /\ reservation_valid' => reservation_valid /\ ~(op.kind = "store" /\ core_ack)
    BY <1>2, <1>13 DEF AtomicIdle, stall_atomic, CoreTypeOK
  <2>2. CASE op.kind = "store"
    <3>1. reservation_valid' => op' = op
      BY <1>13, <2>1, <2>2 DEF AtomicIdle, MemStep, stall_mem, mem_req
    <3> QED
      BY <2>1, <2>2, <3>1
  <2>3. CASE op.kind # "store"
    BY <1>8, <2>1, <2>3
  <2> QED
    BY <2>2, <2>3
<1> QED
  BY <1>1, <1>9, <1>10, <1>11, <1>12, <1>13 DEF CoreStep

LEMMA AtomicInitInv == DataPortInit => AtomicInv
<1>1. DataPortInit => WalkOK /\ CaptureOK /\ ReservationOK
  BY DEF DataPortInit, WalkOK, CaptureOK, ReservationOK
<1> QED
  BY <1>1, AccessInitInv DEF AtomicInv

LEMMA AtomicInvStep == TablesInDdr /\ AtomicInv /\ [DataPortNext]_portVars => AtomicInv'
<1>1. ASSUME TablesInDdr, AtomicInv, DataPortNext PROVE AtomicInv'
  <2>0. PICK next \in Ops \union {NoOp}, trap \in BOOLEAN, walk \in Walks :
          \E i, target : ClkEdge(next, trap, walk, i, target) /\ i.addr = pc_f
    BY <1>1, NextCases
  <2>1. PICK i, target : ClkEdge(next, trap, walk, i, target) /\ i.addr = pc_f
    BY <2>0
  <2>2. AccessInv'
    BY <1>1, AccessInvStep DEF AtomicInv
  <2>3. WalkOK'
    BY <1>1, <2>1, WalkStep DEF AtomicInv
  <2>4. CaptureOK'
    BY <1>1, <2>1, CaptureStep DEF AtomicInv
  <2>5. ReservationOK'
    BY <1>1, <2>1, <2>2, ReservationStep DEF AtomicInv
  <2> QED
    BY <2>2, <2>3, <2>4, <2>5 DEF AtomicInv
<1>2. ASSUME TablesInDdr, AtomicInv, UNCHANGED portVars PROVE AtomicInv'
  <2>1. AccessInv'
    BY <1>2, AccessInvStep DEF AtomicInv
  <2>2. WalkOK' /\ CaptureOK' /\ ReservationOK'
    BY <1>2 DEF AtomicInv, WalkOK, CaptureOK, ReservationOK, portVars, socVars, coreVars, ptwVars,
                ddrVars, ownerVars, InFlight, Writing, Near, WithAD, ptw_owns, walk_active,
                ddr_bus_ack, Content
  <2> QED
    BY <2>1, <2>2 DEF AtomicInv
<1> QED
  BY <1>1, <1>2

\* The word of an atomic operation is as it was read until it is written, but
\* for accessed and dirty bits that the walker adds to an entry, when the
\* tables are in DDR.
THEOREM AtomicInvariant == TablesInDdr => (DataPortSpec => []AtomicInv)
<1> SUFFICES ASSUME TablesInDdr PROVE DataPortSpec => []AtomicInv
  OBVIOUS
<1>1. AtomicInv /\ [DataPortNext]_portVars => AtomicInv'
  BY AtomicInvStep
<1> QED
  BY <1>1, AtomicInitInv, PTL DEF DataPortSpec

\* Whatever operations the program issues, on entries of the tables too,
\* nothing gets between an AMO's read and its write, or between an LR and an SC
\* that succeeds, but the walker's accessed and dirty bits.
THEOREM AtomicsAreAtomic == TablesInDdr => (DataPortSpec => AtomicsAtomic)
<1> SUFFICES ASSUME TablesInDdr PROVE DataPortSpec => AtomicsAtomic
  OBVIOUS
<1>1. ASSUME AtomicInv, DataPortNext, NEW a \in {op.adr}, Content(a)' # Content(a),
             ~ptw_owns, atomic_state \in {"ATOMIC_SC_WRITE", "ATOMIC_AMO_WRITE"}
      PROVE  Kept(op.adr, atomic_old_value)
  <2>1. AccessInv /\ ReservationOK /\ CoreTypeOK /\ UnitOK
    BY <1>1 DEF AtomicInv, AccessInv, FetchInv
  <2>2. isAtomic
    BY <1>1, <2>1 DEF UnitOK, isAtomic
  <2>3. a = op.adr /\ a \in RamAddr \union DdrAddr
    BY <1>1, <2>1, <2>2, OpFacts
  <2>4. PICK i : SocStep(phys_data, i)
    BY <1>1, NextCases DEF ClkEdge
  <2>5. Holds(ram', ddr_mem', a) # Holds(ram, ddr_mem, a)
    BY <1>1, <2>3, MemoryContent
  <2>6. Holds(ram', ddr_mem', a) = IF atomic_state = "ATOMIC_AMO_WRITE" THEN atomic_new_value ELSE op.dat
    BY <1>1, <2>1, <2>3, <2>4, <2>5, CoreWrites
  <2>7. Near(a, atomic_old_value, Content(a))
    <3>1. Content(a) = Holds(ram, ddr_mem, a)
      BY <2>3, MemoryContent
    <3> QED
      BY <1>1, <2>1, <2>3, <2>5, <2>6, <3>1 DEF ReservationOK
  <2> QED
    BY <2>3, <2>7 DEF Near, Kept
<1>2. AtomicInv /\ [DataPortNext]_portVars
        => [/\ \E a \in {op.adr} : Content(a)' # Content(a)
            /\ ~ptw_owns
            /\ atomic_state \in {"ATOMIC_SC_WRITE", "ATOMIC_AMO_WRITE"}
            => Kept(op.adr, atomic_old_value)]_portVars
  BY <1>1
<1> QED
  BY <1>2, AtomicInvariant, PTL DEF DataPortSpec, AtomicsAtomic
=============================================================================
