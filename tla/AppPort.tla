------------------------------ MODULE AppPort ------------------------------
(***************************************************************************)
(* The DDR APP port shared by the CPU's bridge and the LCD DMA: the        *)
(* arbiter of src/rtl/top.v composed with DdrBridge and LcdDma.            *)
(*                                                                         *)
(* The LCD is granted the port only while the bridge is idle; the bridge   *)
(* sees no cmd_rdy while the LCD is granted.  Read beats come back in      *)
(* order with no tag; inflight_lcd decides whose they are.                 *)
(*                                                                         *)
(* The panel is an input: it wants a new line whenever it likes.           *)
(***************************************************************************)
EXTENDS DdrBridge, LcdDma

CONSTANTS
  FbLine      \* FbLine[b]: the DDR line of framebuffer beat b

ASSUME FbLineAssumption == FbLine \in [0..FbBeats - 1 -> Line]

VARIABLES
  lcd_grant, inflight_lcd,
  cpu_app_lock,                          \* clk domain: the bus's lock wire
  cpu_app_lock_meta, cpu_app_lock_sync,
  ddr_owners       \* auxiliary: who issued each outstanding read

arbVars == <<lcd_grant, inflight_lcd, cpu_app_lock_sync>>
portVars == <<bridgeVars, dmaRegs, line_req_a2, arbVars, cpu_app_lock, cpu_app_lock_meta, ddr_owners>>

----------------------------------------------------------------------------

cpu_app_cmd_rdy == ~lcd_grant /\ ddr_cmd_rdy
lcd_app_cmd_rdy == lcd_grant /\ ddr_cmd_rdy
lcd_issue == lcd_grant /\ lcd_cmd_en /\ lcd_app_cmd_rdy

PortInit ==
  /\ BridgeInit /\ DdrInit /\ DmaInit
  /\ lcd_grant = FALSE /\ inflight_lcd = 0
  /\ cpu_app_lock = FALSE /\ cpu_app_lock_meta = FALSE /\ cpu_app_lock_sync = FALSE
  /\ ddr_owners = <<>>

\* Mutant: the LCD is granted without waiting for the bridge to be idle.
Grant_any_time ==
  lcd_grant' = IF ~lcd_grant THEN ~cpu_app_lock_sync /\ inflight_lcd = 0 /\ lcd_cmd_en
               ELSE ~(inflight_lcd = 0 /\ (~lcd_cmd_en \/ cpu_app_lock_sync))

\* Mutant: the release does not look at the LCD's request or at the lock.
Grant_never_released ==
  lcd_grant' = (lcd_grant \/ (~cpu_app_lock_sync /\ app_idle /\ inflight_lcd = 0 /\ lcd_cmd_en))

Grant ==
  lcd_grant' = IF ~lcd_grant
               THEN ~cpu_app_lock_sync /\ app_idle /\ inflight_lcd = 0 /\ lcd_cmd_en
               ELSE ~(inflight_lcd = 0 /\ (~lcd_cmd_en \/ cpu_app_lock_sync))

\* Mutant: a beat issued in the cycle that takes the grant away is not counted.
CountBeats_if_still_granted(valid) ==
  LET retire == valid /\ inflight_lcd # 0 IN
  inflight_lcd' = IF lcd_issue /\ lcd_grant' /\ ~retire THEN (inflight_lcd + 1) % 4
                  ELSE IF ~lcd_issue /\ retire THEN inflight_lcd - 1
                  ELSE inflight_lcd

CountBeats(valid) ==
  LET retire == valid /\ inflight_lcd # 0 IN
  inflight_lcd' = IF lcd_issue /\ ~retire THEN (inflight_lcd + 1) % 4
                  ELSE IF ~lcd_issue /\ retire THEN inflight_lcd - 1
                  ELSE inflight_lcd

\* The command multiplexer towards the controller.
PortDdr(valid) ==
  IF lcd_grant
  THEN DdrStep(lcd_cmd_en, "read", FbLine[f_beat], app_wren, app_data, valid)
  ELSE DdrStep(app_cmd_en, app_cmd, app_addr, app_wren, app_data, valid)

TrackOwners(valid) ==
  LET left == IF valid THEN Tail(ddr_owners) ELSE ddr_owners
      cpuReads == ~lcd_grant /\ app_cmd = "read" /\ DdrTakes(app_cmd_en, app_cmd, app_wren)
  IN ddr_owners' = IF lcd_issue THEN Append(left, "lcd")
                   ELSE IF cpuReads THEN Append(left, "cpu") ELSE left

\* One app_clk edge of bridge, DMA, arbiter and controller.
PortStep(wanted, valid) ==
  LET beat_is_lcd == inflight_lcd # 0 IN
  /\ valid => ddr_reads # <<>>
  /\ AppStep(cpu_app_cmd_rdy, ddr_data_rdy, valid /\ ~beat_is_lcd, DdrRdata)
  /\ DmaStep(init_calib_complete, wanted, lcd_app_cmd_rdy, valid /\ beat_is_lcd, f_beat)
  /\ Grant /\ CountBeats(valid)
  /\ PortDdr(valid)
  /\ TrackOwners(valid)
  /\ cpu_app_lock_sync' = cpu_app_lock_meta
  /\ UNCHANGED line_req_a2

LockSample == cpu_app_lock_meta' \in {cpu_app_lock, cpu_app_lock'}

\* One clk edge: the CPU side may raise or drop its lock with it.
PortBusEdge(r, lock) ==
  /\ BusStep(r)
  /\ cpu_app_lock' = lock
  /\ UNCHANGED <<appFsm, appSync, appMeta, ddrVars, dmaRegs, line_req_a2, arbVars,
                 cpu_app_lock_meta, ddr_owners>>
  /\ BusSample

PortAppEdge(wanted, valid) ==
  /\ PortStep(wanted, valid)
  /\ UNCHANGED <<busRegs, busMeta, cpu_app_lock>>
  /\ AppSample /\ LockSample

PortBothEdges(r, lock, wanted, valid) ==
  /\ BusStep(r)
  /\ cpu_app_lock' = lock
  /\ PortStep(wanted, valid)
  /\ BusSample /\ AppSample /\ LockSample

PortCalibrate ==
  /\ DdrCalibrate
  /\ UNCHANGED <<busRegs, busMeta, appFsm, appSync, appMeta, dmaRegs, line_req_a2, arbVars,
                 cpu_app_lock, cpu_app_lock_meta, ddr_owners>>

CONSTANT Locks   \* values the CPU's lock may take: BOOLEAN, or {FALSE}

\* The inputs that make a difference: a request is looked at only by a free bus
\* side, the panel's wish for a line only by an idle DMA.
Inputs == IF bus_busy \/ bus_ack THEN {NoRequest} ELSE Requests \union {NoRequest}
Wishes == IF d_st = "D_IDLE" /\ primed THEN BOOLEAN ELSE {FALSE}
Valids == IF ddr_reads = <<>> THEN {FALSE} ELSE BOOLEAN

PortNext ==
  \/ \E r \in Inputs, lock \in Locks : PortBusEdge(r, lock)
  \/ \E wanted \in Wishes, valid \in Valids : PortAppEdge(wanted, valid)
  \/ \E r \in Inputs, lock \in Locks, wanted \in Wishes, valid \in Valids : PortBothEdges(r, lock, wanted, valid)
  \/ PortCalibrate

PortSpec == PortInit /\ [][PortNext]_portVars

\* The clocks run, calibration ends, the controller gets ready again and
\* returns every line it has read.
PortFairness ==
  /\ WF_portVars(PortCalibrate)
  /\ WF_portVars(\E r \in Inputs, lock \in Locks :
       PortBusEdge(r, lock) \/ \E wanted \in Wishes, valid \in Valids : PortBothEdges(r, lock, wanted, valid))
  /\ WF_portVars(\E r \in Inputs, lock \in Locks, wanted \in Wishes, valid \in Valids :
       /\ PortAppEdge(wanted, valid) \/ PortBothEdges(r, lock, wanted, valid)
       /\ ddr_cmd_rdy' /\ ddr_data_rdy')
  /\ WF_portVars(\E r \in Inputs, lock \in Locks, wanted \in Wishes :
       PortAppEdge(wanted, TRUE) \/ PortBothEdges(r, lock, wanted, TRUE))

FairPortSpec == PortSpec /\ PortFairness

----------------------------------------------------------------------------
\* Properties

\* A returning read beat is routed to the master that asked for it, and that
\* master is in the state that takes it.
BeatsReachTheirOwner ==
  ddr_owners # <<>> =>
    IF inflight_lcd # 0
    THEN Head(ddr_owners) = "lcd" /\ d_st = "D_WAIT"
    ELSE Head(ddr_owners) = "cpu" /\ app_state = "S_READ_WAIT"

\* Sharing the port with the LCD leaves the CPU with the same word memory.
PortImplementsWordMemory == Memory!Spec

\* The CPU is never starved by the LCD: every accepted request is acknowledged.
CpuServed == bus_busy ~> bus_ack

\* While the CPU takes no lock the LCD is not starved by the CPU either, even if
\* the CPU issues request after request.
LcdServed == (d_st = "D_REQ") ~> (d_st = "D_WAIT")
=============================================================================
