----------------------------- MODULE DdrBridge -----------------------------
(***************************************************************************)
(* The bridge between the SoC's 32-bit bus and the 128-bit APP port of the *)
(* DDR3 controller (src/rtl/peripheral/ddr3_wb_bridge.sv).                 *)
(*                                                                         *)
(* The bridge lives in two clock domains that have no fixed ratio.  A      *)
(* request crosses from clk to app_clk as a toggle plus a payload, and the *)
(* response crosses back the same way, each through two flip-flops.  A     *)
(* write is a read of the line, a merge of the selected byte lanes and a   *)
(* write of the whole line, because the APP byte mask is tied off.         *)
(*                                                                         *)
(* One step is a rising edge of clk (BusEdge), of app_clk (AppEdge), or of *)
(* both at once (BothEdges).  In the last case a first-stage flip-flop     *)
(* samples a wire while it changes: a toggle settles to its old or its new *)
(* value, a payload of several wires to any value at all.                  *)
(***************************************************************************)
EXTENDS Integers, Sequences

CONSTANTS
  Line,       \* line addresses, app_line_addr
  WordIdx,    \* words of a line, app_word_sel (the code has 4)
  Lane,       \* byte lanes of a word, wb_if.sel (the code has 4)
  Byte,       \* byte values
  Requests,   \* the requests the bus master may make
  NoRequest   \* the master drives no cyc/stb

Word == [Lane -> Byte]
LineData == [WordIdx -> Word]
Request == [we : BOOLEAN, line : Line, word : WordIdx, dat_w : Word, sel : SUBSET Lane]

\* Requests are well formed, and every register has a value to be reset to.
ASSUME DdrBridgeAssumption ==
  /\ Requests \subseteq Request
  /\ NoRequest \notin Request \union Word
  /\ Line # {} /\ WordIdx # {} /\ Byte # {}

ResetByte == CHOOSE b \in Byte : TRUE
ResetWord == [i \in Lane |-> ResetByte]
ResetLine == [w \in WordIdx |-> ResetWord]
ResetAddr == CHOOSE a \in Line : TRUE
ResetReq == [we |-> FALSE, line |-> ResetAddr, word |-> CHOOSE w \in WordIdx : TRUE,
             dat_w |-> ResetWord, sel |-> {}]

AppStates == {"S_IDLE", "S_CAPTURE", "S_READ_CMD", "S_READ_WAIT", "S_WRITE_CMD", "S_ACK"}

VARIABLES
  \* --- clk domain
  bus_busy, req_toggle, req,            \* req = <req_we, req_addr, req_dat_w, req_sel>
  rsp_toggle_bus_meta, rsp_toggle_bus_sync, rsp_toggle_bus_seen,
  rsp_ack_pending, rsp_dat_r_bus_meta, rsp_dat_r_bus_sync,
  bus_dat_r, bus_ack,
  \* --- app_clk domain
  app_state,
  req_toggle_app_meta, req_toggle_app_sync, req_toggle_app_seen,
  req_app_meta, req_app_sync, app_req,
  rsp_toggle, rsp_dat_r, line,
  app_cmd_en, app_cmd, app_addr, app_wren, app_data,
  \* --- the DDR3 controller (external)
  ddr_mem, ddr_reads, ddr_cmd_rdy, ddr_data_rdy, init_calib_complete

busRegs == <<bus_busy, req_toggle, req, rsp_toggle_bus_sync, rsp_toggle_bus_seen,
             rsp_ack_pending, rsp_dat_r_bus_sync, bus_dat_r, bus_ack>>
busMeta == <<rsp_toggle_bus_meta, rsp_dat_r_bus_meta>>
appFsm  == <<app_state, req_toggle_app_seen, app_req, rsp_toggle, rsp_dat_r, line,
             app_cmd_en, app_cmd, app_addr, app_wren, app_data>>
appSync == <<req_toggle_app_sync, req_app_sync>>
appMeta == <<req_toggle_app_meta, req_app_meta>>
ddrVars == <<ddr_mem, ddr_reads, ddr_cmd_rdy, ddr_data_rdy, init_calib_complete>>
bridgeVars == <<busRegs, busMeta, appFsm, appSync, appMeta, ddrVars>>

----------------------------------------------------------------------------

\* Mutant: the byte select is ignored and whole words are written.
merge_word_all_lanes(old, w, d, sel) == [old EXCEPT ![w] = d]

\* Byte lanes of d selected by sel replace those of word w of the old line.
merge_word(old, w, d, sel) ==
  [old EXCEPT ![w] = [i \in Lane |-> IF i \in sel THEN d[i] ELSE old[w][i]]]

\* The values a first-stage flip-flop may hold after an edge at which its
\* source goes from old to new; `any' is every value of the sampled wires.
Sampled(old, new, any) == IF old = new THEN {old} ELSE any

\* The bridge is idle with no request in flight (output to the APP arbiter).
app_idle == app_state = "S_IDLE" /\ req_toggle_app_sync = req_toggle_app_seen

BridgeInit ==
  /\ bus_busy = FALSE /\ req_toggle = 0 /\ req = ResetReq
  /\ rsp_toggle_bus_meta = 0 /\ rsp_toggle_bus_sync = 0
  /\ rsp_toggle_bus_seen = 0 /\ rsp_ack_pending = FALSE
  /\ rsp_dat_r_bus_meta = ResetWord /\ rsp_dat_r_bus_sync = ResetWord
  /\ bus_dat_r = ResetWord /\ bus_ack = FALSE
  /\ app_state = "S_IDLE"
  /\ req_toggle_app_meta = 0 /\ req_toggle_app_sync = 0
  /\ req_toggle_app_seen = 0
  /\ req_app_meta = ResetReq /\ req_app_sync = ResetReq /\ app_req = ResetReq
  /\ rsp_toggle = 0 /\ rsp_dat_r = ResetWord /\ line = ResetLine
  /\ app_cmd_en = FALSE /\ app_cmd = "write" /\ app_addr = ResetAddr
  /\ app_wren = FALSE /\ app_data = ResetLine

\* The controller starts uncalibrated, with arbitrary but fixed contents.
DdrInit ==
  /\ ddr_mem = [a \in Line |-> ResetLine]
  /\ ddr_reads = <<>>
  /\ ddr_cmd_rdy = FALSE /\ ddr_data_rdy = FALSE
  /\ init_calib_complete = FALSE

----------------------------------------------------------------------------
\* The clk domain.  r is what the master drives: a request (cyc and stb) or
\* NoRequest.  Everything but the first-stage samples.

BusReply ==
  /\ rsp_ack_pending
  /\ bus_ack' = TRUE /\ bus_busy' = FALSE /\ rsp_ack_pending' = FALSE
  /\ UNCHANGED <<req_toggle, req, rsp_toggle_bus_seen, bus_dat_r>>

BusSeeResponse ==
  /\ ~rsp_ack_pending
  /\ bus_busy /\ rsp_toggle_bus_sync # rsp_toggle_bus_seen
  /\ rsp_toggle_bus_seen' = rsp_toggle_bus_sync
  /\ bus_dat_r' = rsp_dat_r_bus_sync
  /\ rsp_ack_pending' = TRUE /\ bus_ack' = FALSE
  /\ UNCHANGED <<req_toggle, req, bus_busy>>

BusAccept(r) ==
  /\ ~rsp_ack_pending
  /\ ~bus_busy /\ r # NoRequest /\ ~bus_ack
  /\ req' = r /\ req_toggle' = 1 - req_toggle
  /\ bus_busy' = TRUE /\ bus_ack' = FALSE
  /\ UNCHANGED <<rsp_toggle_bus_seen, rsp_ack_pending, bus_dat_r>>

BusWait(r) ==
  /\ ~rsp_ack_pending
  /\ IF bus_busy THEN rsp_toggle_bus_sync = rsp_toggle_bus_seen
                 ELSE r = NoRequest \/ bus_ack
  /\ bus_ack' = FALSE
  /\ UNCHANGED <<bus_busy, req_toggle, req, rsp_toggle_bus_seen, rsp_ack_pending, bus_dat_r>>

BusStep(r) ==
  /\ BusReply \/ BusSeeResponse \/ BusAccept(r) \/ BusWait(r)
  /\ rsp_toggle_bus_sync' = rsp_toggle_bus_meta
  /\ rsp_dat_r_bus_sync' = rsp_dat_r_bus_meta

\* First stage of the response synchroniser.
BusSample ==
  /\ rsp_toggle_bus_meta' \in Sampled(rsp_toggle, rsp_toggle', {0, 1})
  /\ rsp_dat_r_bus_meta' \in Sampled(rsp_dat_r, rsp_dat_r', Word)

----------------------------------------------------------------------------
\* The app_clk domain: the six states of the APP FSM.  cmd_rdy, data_rdy,
\* valid and rdata are the APP port's inputs in this cycle.

\* Mutant: the payload is captured in the cycle that sees the toggle.
S_IDLE_captures ==
  /\ app_state = "S_IDLE"
  /\ IF req_toggle_app_sync # req_toggle_app_seen /\ init_calib_complete
     THEN /\ req_toggle_app_seen' = req_toggle_app_sync /\ app_state' = "S_READ_CMD"
          /\ app_req' = req_app_sync
     ELSE UNCHANGED <<req_toggle_app_seen, app_state, app_req>>
  /\ app_cmd_en' = FALSE /\ app_wren' = FALSE
  /\ UNCHANGED <<rsp_toggle, rsp_dat_r, line, app_cmd, app_addr, app_data>>

S_IDLE ==
  /\ app_state = "S_IDLE"
  /\ IF req_toggle_app_sync # req_toggle_app_seen /\ init_calib_complete
     THEN req_toggle_app_seen' = req_toggle_app_sync /\ app_state' = "S_CAPTURE"
     ELSE UNCHANGED <<req_toggle_app_seen, app_state>>
  /\ app_cmd_en' = FALSE /\ app_wren' = FALSE
  /\ UNCHANGED <<app_req, rsp_toggle, rsp_dat_r, line, app_cmd, app_addr, app_data>>

S_CAPTURE ==
  /\ app_state = "S_CAPTURE"
  /\ app_req' = req_app_sync
  /\ app_state' = "S_READ_CMD"
  /\ app_cmd_en' = FALSE /\ app_wren' = FALSE
  /\ UNCHANGED <<req_toggle_app_seen, rsp_toggle, rsp_dat_r, line, app_cmd, app_addr, app_data>>

\* Mutant: the read is issued without looking at cmd_rdy.
S_READ_CMD_any_time(cmd_rdy) ==
  /\ app_state = "S_READ_CMD"
  /\ app_addr' = app_req.line /\ app_cmd' = "read"
  /\ app_cmd_en' = TRUE /\ app_wren' = FALSE
  /\ app_state' = "S_READ_WAIT"
  /\ UNCHANGED <<req_toggle_app_seen, app_req, rsp_toggle, rsp_dat_r, line, app_data>>

S_READ_CMD(cmd_rdy) ==
  /\ app_state = "S_READ_CMD"
  /\ app_addr' = app_req.line /\ app_cmd' = "read"
  /\ app_cmd_en' = cmd_rdy /\ app_wren' = FALSE
  /\ app_state' = IF cmd_rdy THEN "S_READ_WAIT" ELSE app_state
  /\ UNCHANGED <<req_toggle_app_seen, app_req, rsp_toggle, rsp_dat_r, line, app_data>>

S_READ_WAIT(valid, rdata) ==
  /\ app_state = "S_READ_WAIT"
  /\ app_cmd_en' = FALSE /\ app_wren' = FALSE
  /\ IF ~valid
     THEN UNCHANGED <<app_state, line, app_data, rsp_dat_r>>
     ELSE /\ line' = rdata
          /\ IF app_req.we
             THEN /\ app_data' = merge_word(rdata, app_req.word, app_req.dat_w, app_req.sel)
                  /\ app_state' = "S_WRITE_CMD"
                  /\ UNCHANGED rsp_dat_r
             ELSE /\ rsp_dat_r' = rdata[app_req.word]
                  /\ app_state' = "S_ACK"
                  /\ UNCHANGED app_data
  /\ UNCHANGED <<req_toggle_app_seen, app_req, rsp_toggle, app_cmd, app_addr>>

\* Mutant: the write looks at cmd_rdy but not at data_rdy.
S_WRITE_CMD_no_data_rdy(cmd_rdy, data_rdy) ==
  /\ app_state = "S_WRITE_CMD"
  /\ app_addr' = app_req.line /\ app_cmd' = "write"
  /\ app_data' = merge_word(line, app_req.word, app_req.dat_w, app_req.sel)
  /\ app_cmd_en' = cmd_rdy /\ app_wren' = cmd_rdy
  /\ app_state' = IF cmd_rdy THEN "S_ACK" ELSE app_state
  /\ UNCHANGED <<req_toggle_app_seen, app_req, rsp_toggle, rsp_dat_r, line>>

S_WRITE_CMD(cmd_rdy, data_rdy) ==
  /\ app_state = "S_WRITE_CMD"
  /\ app_addr' = app_req.line /\ app_cmd' = "write"
  /\ app_data' = merge_word(line, app_req.word, app_req.dat_w, app_req.sel)
  /\ app_cmd_en' = (cmd_rdy /\ data_rdy) /\ app_wren' = (cmd_rdy /\ data_rdy)
  /\ app_state' = IF cmd_rdy /\ data_rdy THEN "S_ACK" ELSE app_state
  /\ UNCHANGED <<req_toggle_app_seen, app_req, rsp_toggle, rsp_dat_r, line>>

S_ACK ==
  /\ app_state = "S_ACK"
  /\ rsp_toggle' = 1 - rsp_toggle /\ app_state' = "S_IDLE"
  /\ app_cmd_en' = FALSE /\ app_wren' = FALSE
  /\ UNCHANGED <<req_toggle_app_seen, app_req, rsp_dat_r, line, app_cmd, app_addr, app_data>>

AppStep(cmd_rdy, data_rdy, valid, rdata) ==
  /\ \/ S_IDLE \/ S_CAPTURE \/ S_READ_CMD(cmd_rdy)
     \/ S_READ_WAIT(valid, rdata) \/ S_WRITE_CMD(cmd_rdy, data_rdy) \/ S_ACK
  /\ req_toggle_app_sync' = req_toggle_app_meta
  /\ req_app_sync' = req_app_meta

\* First stage of the request synchroniser.
AppSample ==
  /\ req_toggle_app_meta' \in Sampled(req_toggle, req_toggle', {0, 1})
  /\ req_app_meta' \in Sampled(req, req', Request)

----------------------------------------------------------------------------
\* External: the DDR3 controller's user interface.  It executes commands in
\* order; a command taken at an edge is modelled as executed there, and the
\* line a read returns waits in ddr_reads for an arbitrary time.  A ready line
\* that is up stays up until a command is taken: the bridge needs that, because
\* its registered app_cmd_en reaches the controller a cycle after it saw ready.

DdrTakes(cmd_en, cmd, wren) ==
  cmd_en /\ ddr_cmd_rdy /\ (cmd = "write" => wren /\ ddr_data_rdy)

DdrStep(cmd_en, cmd, addr, wren, data, valid) ==
  /\ ddr_mem' = IF DdrTakes(cmd_en, cmd, wren) /\ cmd = "write"
                THEN [ddr_mem EXCEPT ![addr] = data] ELSE ddr_mem
  /\ LET left == IF valid THEN Tail(ddr_reads) ELSE ddr_reads
     IN ddr_reads' = IF DdrTakes(cmd_en, cmd, wren) /\ cmd = "read"
                     THEN Append(left, ddr_mem[addr]) ELSE left
  /\ ddr_cmd_rdy' \in {TRUE, ddr_cmd_rdy /\ ~DdrTakes(cmd_en, cmd, wren)}
  /\ ddr_data_rdy' \in {TRUE, ddr_data_rdy /\ ~wren}
  /\ UNCHANGED init_calib_complete

DdrRdata == IF ddr_reads = <<>> THEN ResetLine ELSE Head(ddr_reads)

DdrCalibrate ==
  /\ ~init_calib_complete
  /\ init_calib_complete' = TRUE
  /\ UNCHANGED <<ddr_mem, ddr_reads, ddr_cmd_rdy, ddr_data_rdy>>

----------------------------------------------------------------------------
\* The bridge alone: any master, and an APP port that it shares with nobody.

AppAndDdr(valid) ==
  /\ valid => ddr_reads # <<>>
  /\ AppStep(ddr_cmd_rdy, ddr_data_rdy, valid, DdrRdata)
  /\ DdrStep(app_cmd_en, app_cmd, app_addr, app_wren, app_data, valid)

BusEdge(r) ==
  /\ BusStep(r)
  /\ UNCHANGED <<appFsm, appSync, appMeta, ddrVars>>
  /\ BusSample

AppEdge(valid) ==
  /\ AppAndDdr(valid)
  /\ UNCHANGED <<busRegs, busMeta>>
  /\ AppSample

BothEdges(r, valid) ==
  /\ BusStep(r)
  /\ AppAndDdr(valid)
  /\ BusSample /\ AppSample

Calibrate ==
  /\ DdrCalibrate
  /\ UNCHANGED <<busRegs, busMeta, appFsm, appSync, appMeta>>

BridgeNext ==
  \/ \E r \in Requests \union {NoRequest} : BusEdge(r)
  \/ \E valid \in BOOLEAN : AppEdge(valid)
  \/ \E r \in Requests \union {NoRequest} :
       \E valid \in BOOLEAN : BothEdges(r, valid)
  \/ Calibrate

\* Bridge and controller after reset.
SystemInit == BridgeInit /\ DdrInit

BridgeSpec == SystemInit /\ [][BridgeNext]_bridgeVars

----------------------------------------------------------------------------
\* Properties

BusTypeOK ==
  /\ bus_busy \in BOOLEAN /\ req_toggle \in {0, 1} /\ req \in Request
  /\ rsp_toggle_bus_meta \in {0, 1} /\ rsp_toggle_bus_sync \in {0, 1}
  /\ rsp_toggle_bus_seen \in {0, 1} /\ rsp_ack_pending \in BOOLEAN
  /\ rsp_dat_r_bus_meta \in Word /\ rsp_dat_r_bus_sync \in Word
  /\ bus_dat_r \in Word /\ bus_ack \in BOOLEAN

AppTypeOK ==
  /\ app_state \in AppStates
  /\ req_toggle_app_meta \in {0, 1} /\ req_toggle_app_sync \in {0, 1}
  /\ req_toggle_app_seen \in {0, 1}
  /\ req_app_meta \in Request /\ req_app_sync \in Request /\ app_req \in Request
  /\ rsp_toggle \in {0, 1} /\ rsp_dat_r \in Word /\ line \in LineData
  /\ app_cmd_en \in BOOLEAN /\ app_cmd \in {"read", "write"} /\ app_addr \in Line
  /\ app_wren \in BOOLEAN /\ app_data \in LineData

DdrTypeOK ==
  /\ ddr_mem \in [Line -> LineData] /\ ddr_reads \in Seq(LineData)
  /\ ddr_cmd_rdy \in BOOLEAN /\ ddr_data_rdy \in BOOLEAN
  /\ init_calib_complete \in BOOLEAN

\* Every register of the bridge and the controller holds a value of its type.
TypeOK == BusTypeOK /\ AppTypeOK /\ DdrTypeOK

\* The request the APP side works on is the one the bus side latched, never a
\* payload torn by sampling it while it changed: S_IDLE acts on the toggle, and
\* S_CAPTURE takes the payload one app_clk later, when it has settled.
RequestCapturedWhole ==
  app_state \in {"S_READ_CMD", "S_READ_WAIT", "S_WRITE_CMD", "S_ACK"} => app_req = req

\* The word handed to the bus is the word the APP side answered with: the
\* response payload has crossed by the time its toggle has.
ResponseCrossesWhole ==
  rsp_ack_pending \/ bus_ack => bus_dat_r = rsp_dat_r

\* No command pulse is wasted: when the registered app_cmd_en reaches the
\* controller, the ready it was sampled with still stands.
CommandTaken ==
  app_cmd_en => DdrTakes(app_cmd_en, app_cmd, app_wren)

\* The bridge never has more than one read outstanding in the controller, and
\* one only while it waits for it, so no returned line can meet another request.
OneReadOutstanding ==
  /\ Len(ddr_reads) <= 1
  /\ ddr_reads # <<>> => app_state = "S_READ_WAIT" /\ ~app_cmd_en

\* The strengthening that makes the properties above inductive.
\* At most one toggle of the request travels down the synchroniser, and the
\* payload behind it has settled one stage later than the toggle.
RequestCrossing ==
  /\ req_toggle_app_meta # req_toggle => req_toggle_app_sync = req_toggle_app_meta
  /\ req_toggle_app_sync # req_toggle => req_toggle_app_seen = req_toggle_app_sync
  /\ req_toggle_app_sync = req_toggle => req_app_meta = req
  /\ req_toggle_app_seen = req_toggle => req_app_sync = req

\* The APP FSM is busy exactly while it owes a response to the last request.
AppOwes ==
  /\ app_state = "S_IDLE" <=> rsp_toggle = req_toggle_app_seen
  /\ app_state # "S_IDLE" => req_toggle_app_seen = req_toggle

\* At most one toggle of the response travels back, its payload with it.
ResponseCrossing ==
  /\ rsp_toggle # req_toggle => rsp_toggle = rsp_toggle_bus_seen
  /\ rsp_toggle_bus_meta # rsp_toggle => rsp_toggle_bus_sync = rsp_toggle_bus_meta
  /\ rsp_toggle_bus_sync # rsp_toggle => rsp_toggle_bus_seen = rsp_toggle_bus_sync
  /\ rsp_toggle_bus_meta # rsp_toggle_bus_seen => rsp_dat_r_bus_meta = rsp_dat_r
  /\ rsp_toggle_bus_sync # rsp_toggle_bus_seen => rsp_dat_r_bus_sync = rsp_dat_r

\* The bus side is busy exactly while the last request's response is unseen or
\* unacknowledged.
BusOwed ==
  /\ rsp_toggle_bus_seen = req_toggle <=> ~bus_busy \/ rsp_ack_pending
  /\ rsp_ack_pending => bus_busy
  /\ bus_ack => ~bus_busy

\* What is in the controller agrees with where the APP FSM is, and the line
\* being modified is the line in memory.
ControllerAgrees ==
  /\ app_state # "S_READ_WAIT" => ddr_reads = <<>>
  /\ app_state = "S_READ_WAIT" =>
       IF app_cmd_en THEN ddr_reads = <<>> /\ app_cmd = "read" /\ app_addr = app_req.line /\ ddr_cmd_rdy
                     ELSE ddr_reads = <<ddr_mem[app_req.line]>>
  /\ app_state = "S_WRITE_CMD" => app_req.we /\ line = ddr_mem[app_req.line]
  /\ app_cmd_en => app_state \in {"S_READ_WAIT", "S_ACK"}
  /\ app_wren => app_cmd_en
  /\ app_state = "S_ACK" =>
       IF app_req.we
       THEN /\ app_cmd_en /\ app_wren /\ app_cmd = "write" /\ app_addr = app_req.line
            /\ ddr_cmd_rdy /\ ddr_data_rdy
            /\ app_data = merge_word(ddr_mem[app_req.line], app_req.word, app_req.dat_w, app_req.sel)
       ELSE ~app_cmd_en

\* Everything the two sides know of one another through the toggles.
Handshake ==
  /\ RequestCapturedWhole /\ ResponseCrossesWhole
  /\ RequestCrossing /\ AppOwes /\ ResponseCrossing /\ BusOwed

\* The inductive invariant of the bridge.
BridgeInv == Handshake /\ ControllerAgrees

\* The abstract step of a request is done: a write when S_ACK hands the line to
\* the controller, a read when its line has come back.
Performed == rsp_toggle = req_toggle \/ (app_state = "S_ACK" /\ ~app_req.we)

Memory == INSTANCE WordMemory WITH
  NoAck <- NoRequest,
  mem   <- ddr_mem,
  phase <- IF ~bus_busy THEN "idle" ELSE IF Performed THEN "performed" ELSE "accepted",
  cur   <- req,
  found <- rsp_dat_r,
  ack   <- IF bus_ack THEN bus_dat_r ELSE NoRequest

\* The two-clock bridge with its read-modify-write is a word memory that does
\* one request at a time, atomically, and acknowledges it once.
ImplementsWordMemory == Memory!Spec
=============================================================================
