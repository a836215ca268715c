------------------------------- MODULE SocBus ------------------------------
(***************************************************************************)
(* The interconnect of src/rtl/soc.sv: the CPU's data port decoded to the  *)
(* on-chip RAM (src/rtl/core/mem.sv), the MMIO registers and DDR, the      *)
(* instruction port's DDR path, and the arbiter that lends the one DDR     *)
(* bridge to the data or to the instruction port.                          *)
(*                                                                         *)
(* The bridge is the word memory that DdrBridge is proved to implement,    *)
(* with its clk-side timing: it accepts a request at the first edge at     *)
(* which it is free, and its acknowledgement lasts one cycle.              *)
(*                                                                         *)
(* Wires are arguments: d is what the data port drives in this cycle       *)
(* (cyc, stb, we, adr, dat, lock), i what the fetch unit drives (ren,      *)
(* addr, flush).  An access to an unmapped address faults in the CPU and   *)
(* never reaches the bus.                                                  *)
(***************************************************************************)
EXTENDS Integers

CONSTANTS
  RamAddr, MmioAddr, DdrAddr,   \* is_dataram_region, is_mapped_mmio, is_ddr_region
  RomAddr,                      \* fetch addresses outside DDR
  Value, Zero,                  \* words, and the word 0 registers are reset to
  Content0,                     \* initial contents of the data addresses
  NoAck                         \* the bridge does not acknowledge

DataAddr == RamAddr \union MmioAddr \union DdrAddr

ASSUME SocBusAssumption ==
  /\ RamAddr \intersect MmioAddr = {}
  /\ (RamAddr \union MmioAddr \union RomAddr) \intersect DdrAddr = {}
  /\ DdrAddr # {} /\ Zero \in Value /\ Content0 \in [DataAddr -> Value]
  /\ NoAck \notin [{0} -> Value]

VARIABLES
  ddr_owner_valid, ddr_owner_is_data, ddr_owner_cooldown,
  instr_ddr_pending, instr_ddr_killed, instr_ddr_addr, instr_ddr_rdata_q,
  mmio_ack_q, cpu_data_rdata_q,
  ram, ram_ack, ram_dat_r,      \* DATARAM and its registered reply
  mmio,                         \* the device registers
  ddr_mem, ddr_phase, ddr_cur, ddr_found, ddr_ack

ownerVars == <<ddr_owner_valid, ddr_owner_is_data, ddr_owner_cooldown>>
instrVars == <<instr_ddr_pending, instr_ddr_killed, instr_ddr_addr, instr_ddr_rdata_q>>
ddrVars == <<ddr_mem, ddr_phase, ddr_cur, ddr_found, ddr_ack>>
socVars == <<ownerVars, instrVars, mmio_ack_q, cpu_data_rdata_q, ram, ram_ack, ram_dat_r,
             mmio, ddrVars>>

\* DDR words, as WordMemory has them: one word to a line, one lane to a word.
InLane(v) == [l \in {0} |-> v]
DdrRequest(we, a, v) == [we |-> we, line |-> a, word |-> 0, dat_w |-> InLane(v), sel |-> {0}]
Ddr == INSTANCE WordMemory WITH
  Line <- DdrAddr, WordIdx <- {0}, Lane <- {0}, Byte <- Value,
  Requests <- [we : BOOLEAN, line : DdrAddr, word : {0}, dat_w : [{0} -> Value], sel : {{0}}],
  mem <- ddr_mem, phase <- ddr_phase, cur <- ddr_cur, found <- ddr_found, ack <- ddr_ack

\* What a data address holds.
Content(a) == IF a \in RamAddr THEN ram[a] ELSE IF a \in MmioAddr THEN mmio[a] ELSE ddr_mem[a][0][0]

SocInit ==
  /\ ddr_owner_valid = FALSE /\ ddr_owner_is_data = FALSE /\ ddr_owner_cooldown = FALSE
  /\ instr_ddr_pending = FALSE /\ instr_ddr_killed = FALSE
  /\ instr_ddr_addr = (CHOOSE a \in DdrAddr : TRUE)
  /\ instr_ddr_rdata_q = Zero
  /\ mmio_ack_q = FALSE /\ cpu_data_rdata_q = Zero
  /\ ram = [a \in RamAddr |-> Content0[a]] /\ ram_ack = FALSE
  /\ ram_dat_r = Zero
  /\ mmio = [a \in MmioAddr |-> Content0[a]]
  /\ ddr_mem = [a \in DdrAddr |-> [w \in {0} |-> InLane(Content0[a])]]
  /\ ddr_phase = "idle" /\ ddr_ack = NoAck
  /\ ddr_cur = DdrRequest(FALSE, CHOOSE a \in DdrAddr : TRUE, Zero)
  /\ ddr_found = InLane(Zero)

----------------------------------------------------------------------------
\* Routing of the bridge to its owner.

ddr_bus_ack == ddr_ack # NoAck
ddr_bus_stall == ddr_phase # "idle"
ToData == ddr_owner_valid /\ ~ddr_owner_cooldown /\ ddr_owner_is_data
ToInstr == ddr_owner_valid /\ ~ddr_owner_cooldown /\ ~ddr_owner_is_data
ddr_data_ack == ToData /\ ddr_bus_ack
ddr_instr_ack == ToInstr /\ ddr_bus_ack

ddr_data_cyc(d) == d.cyc /\ d.adr \in DdrAddr
ddr_instr_cyc(i) == instr_ddr_pending \/ (i.ren /\ i.addr \in DdrAddr)

\* What the bridge is asked for in this cycle.
ddr_bus_request(d, i) ==
  IF ToData /\ ddr_data_cyc(d) /\ d.stb THEN DdrRequest(d.we, d.adr, d.dat)
  ELSE IF ToInstr /\ ddr_instr_cyc(i)
  THEN DdrRequest(FALSE, IF instr_ddr_pending THEN instr_ddr_addr ELSE i.addr, Zero)
  ELSE NoAck

\* The data port's acknowledge and read data, selected by the address driven.
DataAck(d) ==
  IF d.adr \in MmioAddr THEN mmio_ack_q
  ELSE IF d.adr \in DdrAddr THEN ddr_data_ack ELSE ram_ack
cpu_data_rdata_mux(d) ==
  IF d.adr \in MmioAddr THEN mmio[d.adr]
  ELSE IF d.adr \in DdrAddr THEN (IF ddr_data_ack THEN ddr_ack[0] ELSE cpu_data_rdata_q) ELSE ram_dat_r
DataRdata(d) == IF DataAck(d) THEN cpu_data_rdata_mux(d) ELSE cpu_data_rdata_q

\* The fetch unit's stall.
InstrStall(i) ==
  i.addr \in DdrAddr =>
    ~(/\ ddr_instr_ack /\ instr_ddr_pending /\ ~instr_ddr_killed
      /\ ~i.flush /\ i.addr = instr_ddr_addr)

\* A device sees an access for one cycle: the one before mmio_ack_q.
MmioStrobe(d) == d.cyc /\ d.stb /\ d.adr \in MmioAddr /\ ~mmio_ack_q

----------------------------------------------------------------------------
\* One clk edge of each part.

\* Mutant: the data port takes the bridge from the instruction port.
OwnerStep_preempts(d, i) ==
  /\ ddr_owner_valid' = (ddr_data_cyc(d) \/ ddr_instr_cyc(i))
  /\ ddr_owner_is_data' = ddr_data_cyc(d)
  /\ ddr_owner_cooldown' = FALSE

\* Mutant: the idle routing cycle is never left.
OwnerStep_stays_cool(d, i) ==
  IF ddr_owner_valid
  THEN LET cyc == IF ddr_owner_is_data THEN ddr_data_cyc(d) ELSE ddr_instr_cyc(i)
           lock == ddr_owner_is_data /\ d.lock
           release == ~lock /\ (ddr_bus_ack \/ (~cyc /\ ~ddr_bus_stall))
       IN /\ ddr_owner_valid' = ~release
          /\ ddr_owner_cooldown' = IF release THEN ddr_bus_ack ELSE ddr_owner_cooldown
          /\ UNCHANGED ddr_owner_is_data
  ELSE /\ ddr_owner_valid' = (~ddr_owner_cooldown /\ (ddr_data_cyc(d) \/ ddr_instr_cyc(i)))
       /\ ddr_owner_is_data' = IF ddr_owner_valid' THEN ddr_data_cyc(d) ELSE ddr_owner_is_data
       /\ UNCHANGED ddr_owner_cooldown

OwnerStep(d, i) ==
  IF ddr_owner_valid
  THEN LET cyc == IF ddr_owner_is_data THEN ddr_data_cyc(d) ELSE ddr_instr_cyc(i)
           lock == ddr_owner_is_data /\ d.lock
           release == ~lock /\ (ddr_bus_ack \/ (~cyc /\ ~ddr_bus_stall))
       IN /\ ddr_owner_valid' = ~release
          /\ ddr_owner_cooldown' = IF release THEN ddr_bus_ack ELSE ddr_owner_cooldown
          /\ UNCHANGED ddr_owner_is_data
  ELSE IF ddr_owner_cooldown
  THEN ddr_owner_cooldown' = FALSE /\ UNCHANGED <<ddr_owner_valid, ddr_owner_is_data>>
  ELSE /\ ddr_owner_valid' = (ddr_data_cyc(d) \/ ddr_instr_cyc(i))
       /\ ddr_owner_is_data' = IF ddr_owner_valid' THEN ddr_data_cyc(d) ELSE ddr_owner_is_data
       /\ UNCHANGED ddr_owner_cooldown

\* Mutant: a redirect does not kill the fetch in flight.
InstrStep_no_kill(i) ==
  IF ddr_instr_ack
  THEN /\ instr_ddr_pending' = FALSE /\ instr_ddr_killed' = FALSE
       /\ instr_ddr_rdata_q' = ddr_ack[0]
       /\ UNCHANGED instr_ddr_addr
  ELSE IF i.ren /\ i.addr \in DdrAddr
  THEN /\ instr_ddr_pending' = TRUE /\ instr_ddr_addr' = i.addr
       /\ UNCHANGED <<instr_ddr_rdata_q, instr_ddr_killed>>
  ELSE UNCHANGED instrVars

InstrStep(i) ==
  IF ddr_instr_ack
  THEN /\ instr_ddr_pending' = FALSE /\ instr_ddr_killed' = FALSE
       /\ instr_ddr_rdata_q' = IF instr_ddr_killed \/ i.flush THEN instr_ddr_rdata_q ELSE ddr_ack[0]
       /\ UNCHANGED instr_ddr_addr
  ELSE IF i.flush /\ instr_ddr_pending
  THEN instr_ddr_killed' = TRUE /\ UNCHANGED <<instr_ddr_pending, instr_ddr_addr, instr_ddr_rdata_q>>
  ELSE IF ~instr_ddr_pending /\ i.ren /\ i.addr \in DdrAddr
  THEN /\ instr_ddr_pending' = TRUE /\ instr_ddr_killed' = FALSE /\ instr_ddr_addr' = i.addr
       /\ UNCHANGED instr_ddr_rdata_q
  ELSE UNCHANGED instrVars

RamStep(d) ==
  LET hit == d.cyc /\ d.stb /\ d.adr \in RamAddr
  IN /\ ram_ack' = hit
     /\ ram_dat_r' = IF hit /\ ~d.we THEN ram[d.adr] ELSE ram_dat_r
     /\ ram' = IF hit /\ d.we THEN [ram EXCEPT ![d.adr] = d.dat] ELSE ram

MmioStep(d) ==
  /\ mmio_ack_q' = MmioStrobe(d)
  /\ mmio' = IF MmioStrobe(d) /\ d.we THEN [mmio EXCEPT ![d.adr] = d.dat] ELSE mmio

ReplyStep(d) ==
  cpu_data_rdata_q' = IF d.cyc /\ d.stb /\ DataAck(d) THEN cpu_data_rdata_mux(d) ELSE cpu_data_rdata_q

\* The bridge: a request waiting at a free bridge is accepted, an
\* acknowledgement ends; the rest takes as long as it takes.
BridgeStep(r) ==
  IF ddr_bus_ack THEN Ddr!EndAck
  ELSE IF ddr_phase = "idle" /\ r # NoAck THEN Ddr!Accept(r)
  ELSE Ddr!Perform \/ Ddr!Acknowledge \/ UNCHANGED ddrVars

SocStep(d, i) ==
  /\ OwnerStep(d, i) /\ InstrStep(i)
  /\ RamStep(d) /\ MmioStep(d) /\ ReplyStep(d)
  /\ BridgeStep(ddr_bus_request(d, i))
=============================================================================
