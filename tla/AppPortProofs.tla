--------------------------- MODULE AppPortProofs ---------------------------
(***************************************************************************)
(* Proofs about the DDR bridge, and about the APP port that it and the LCD *)
(* DMA share, for every number of lines, words, lanes and byte values,     *)
(* every set of requests, every framebuffer and every use of the lock.     *)
(*                                                                         *)
(* First the bridge on its own; what its sharing the port adds is the      *)
(* queue of reads in the controller, in which a beat of each master may    *)
(* wait, the LCD's first.                                                  *)
(***************************************************************************)
EXTENDS AppPort, SequenceTheorems, TLAPS

\* A merged line is a line.
LEMMA MergeType ==
  ASSUME NEW old \in LineData, NEW w \in WordIdx, NEW d \in Word, NEW sel \in SUBSET Lane
  PROVE  merge_word(old, w, d, sel) \in LineData
BY DEF merge_word, LineData, Word

\* The registers' reset values have the registers' types.
LEMMA ResetTypes ==
  /\ ResetWord \in Word /\ ResetLine \in LineData
  /\ ResetReq \in Request /\ ResetAddr \in Line
BY DdrBridgeAssumption
   DEF ResetWord, ResetLine, ResetReq, ResetAddr, ResetByte, Word, LineData, Request

\* The reset state is well typed.
LEMMA InitType == BridgeInit /\ DdrInit => TypeOK
<1> SUFFICES ASSUME BridgeInit, DdrInit PROVE TypeOK
  OBVIOUS
<1> USE ResetTypes
<1>1. BusTypeOK
  BY DEF BridgeInit, BusTypeOK
<1>2. AppTypeOK
  BY DEF BridgeInit, AppTypeOK, AppStates
<1>3. DdrTypeOK
  BY EmptySeq DEF DdrInit, DdrTypeOK
<1> QED BY <1>1, <1>2, <1>3 DEF TypeOK

\* A clk edge keeps the bus-side registers well typed.
LEMMA BusEdgeType ==
  ASSUME TypeOK, NEW r \in Requests \union {NoRequest}, BusStep(r), BusSample
  PROVE  BusTypeOK'
<1> USE DEF TypeOK, BusTypeOK
<1>1. /\ rsp_toggle_bus_meta' \in {0, 1} /\ rsp_dat_r_bus_meta' \in Word
      /\ rsp_toggle_bus_sync' \in {0, 1} /\ rsp_dat_r_bus_sync' \in Word
  BY DEF BusStep, BusSample, Sampled, AppTypeOK
<1>2. CASE BusReply
  BY <1>1, <1>2 DEF BusReply
<1>3. CASE BusSeeResponse
  BY <1>1, <1>3 DEF BusSeeResponse
<1>4. CASE BusAccept(r)
  <2>1. 1 - req_toggle \in {0, 1}
    OBVIOUS
  <2>2. r \in Request
    BY <1>4, DdrBridgeAssumption DEF BusAccept
  <2> QED BY <1>1, <1>4, <2>1, <2>2 DEF BusAccept
<1>5. CASE BusWait(r)
  BY <1>1, <1>5 DEF BusWait
<1> QED BY <1>2, <1>3, <1>4, <1>5 DEF BusStep

\* An app_clk edge keeps the APP-side registers well typed.
LEMMA AppEdgeType ==
  ASSUME TypeOK, NEW cmd_rdy \in BOOLEAN, NEW data_rdy \in BOOLEAN, NEW valid \in BOOLEAN,
         NEW rdata \in LineData, AppStep(cmd_rdy, data_rdy, valid, rdata), AppSample
  PROVE  AppTypeOK'
<1> USE DEF TypeOK, AppTypeOK, AppStates
<1>1. /\ req_toggle_app_meta' \in {0, 1} /\ req_app_meta' \in Request
      /\ req_toggle_app_sync' \in {0, 1} /\ req_app_sync' \in Request
  BY DEF AppStep, AppSample, Sampled, BusTypeOK
<1>2. /\ app_req.line \in Line /\ app_req.word \in WordIdx
      /\ app_req.dat_w \in Word /\ app_req.sel \in SUBSET Lane /\ app_req.we \in BOOLEAN
  BY DEF Request
<1>3. CASE S_IDLE
  BY <1>1, <1>3 DEF S_IDLE
<1>4. CASE S_CAPTURE
  BY <1>1, <1>4 DEF S_CAPTURE
<1>5. CASE S_READ_CMD(cmd_rdy)
  BY <1>1, <1>2, <1>5 DEF S_READ_CMD
<1>6. CASE S_READ_WAIT(valid, rdata)
  <2>1. rdata[app_req.word] \in Word
    BY <1>2 DEF LineData
  <2>2. merge_word(rdata, app_req.word, app_req.dat_w, app_req.sel) \in LineData
    BY <1>2, MergeType
  <2> QED BY <1>1, <1>6, <2>1, <2>2 DEF S_READ_WAIT
<1>7. CASE S_WRITE_CMD(cmd_rdy, data_rdy)
  <2>1. merge_word(line, app_req.word, app_req.dat_w, app_req.sel) \in LineData
    BY <1>2, MergeType
  <2> QED BY <1>1, <1>2, <1>7, <2>1 DEF S_WRITE_CMD
<1>8. CASE S_ACK
  <2>1. 1 - rsp_toggle \in {0, 1}
    OBVIOUS
  <2> QED BY <1>1, <1>8, <2>1 DEF S_ACK
<1> QED BY <1>3, <1>4, <1>5, <1>6, <1>7, <1>8 DEF AppStep

\* The controller returns lines and stores lines.
LEMMA DdrEdgeType ==
  ASSUME TypeOK, NEW cmd_en, NEW cmd, NEW addr \in Line, NEW wren, NEW data \in LineData,
         NEW valid \in BOOLEAN, valid => ddr_reads # <<>>,
         DdrStep(cmd_en, cmd, addr, wren, data, valid)
  PROVE  DdrRdata \in LineData /\ DdrTypeOK'
<1> USE DEF TypeOK, AppTypeOK, DdrTypeOK
<1>1. DdrRdata \in LineData
  BY ResetTypes DEF DdrRdata
<1>2. ddr_mem' \in [Line -> LineData]
  BY DEF DdrStep
<1>3. (IF valid THEN Tail(ddr_reads) ELSE ddr_reads) \in Seq(LineData)
  OBVIOUS
<1>4. ddr_mem[addr] \in LineData
  OBVIOUS
<1>5. ddr_reads' \in Seq(LineData)
  BY <1>3, <1>4 DEF DdrStep
<1>6. ddr_cmd_rdy' \in BOOLEAN /\ ddr_data_rdy' \in BOOLEAN
  BY DEF DdrStep, DdrTakes
<1> QED BY <1>1, <1>2, <1>5, <1>6 DEF DdrStep

----------------------------------------------------------------------------
\* One step seen from each side: its clock ticks, or its registers keep.
BusSide(r) == (BusStep(r) /\ BusSample) \/ UNCHANGED <<busRegs, busMeta>>
AppSide(valid) ==
  \/ AppAndDdr(valid) /\ AppSample
  \/ UNCHANGED <<appFsm, appSync, appMeta, ddr_mem, ddr_reads, ddr_cmd_rdy, ddr_data_rdy>>

\* The APP FSM alone, whatever its APP port does.
FsmEdge ==
  \E cmd_rdy, data_rdy, valid \in BOOLEAN, rdata \in LineData :
    AppStep(cmd_rdy, data_rdy, valid, rdata) /\ AppSample
FsmSide == FsmEdge \/ UNCHANGED <<appFsm, appSync, appMeta>>

\* Every step of the bridge is a pair of such sides.
LEMMA StepSides ==
  ASSUME [BridgeNext]_bridgeVars
  PROVE  \E r \in Requests \union {NoRequest}, valid \in BOOLEAN :
           BusSide(r) /\ AppSide(valid)
<1>1. CASE \E r \in Requests \union {NoRequest} : BusEdge(r)
  BY <1>1 DEF BusEdge, BusSide, AppSide, ddrVars
<1>2. CASE \E valid \in BOOLEAN : AppEdge(valid)
  BY <1>2 DEF AppEdge, BusSide, AppSide
<1>3. CASE \E r \in Requests \union {NoRequest} :
             \E valid \in BOOLEAN : BothEdges(r, valid)
  BY <1>3 DEF BothEdges, BusSide, AppSide
<1>4. CASE Calibrate
  BY <1>4 DEF Calibrate, DdrCalibrate, BusSide, AppSide
<1>5. CASE UNCHANGED bridgeVars
  BY <1>5 DEF bridgeVars, ddrVars, BusSide, AppSide
<1> QED BY <1>1, <1>2, <1>3, <1>4, <1>5 DEF BridgeNext

\* The bridge's own port is such a port.
LEMMA SideIsFsmSide ==
  ASSUME TypeOK, NEW valid \in BOOLEAN, AppSide(valid)
  PROVE  FsmSide
<1>1. CASE AppAndDdr(valid) /\ AppSample
  <2>1. DdrRdata \in LineData /\ ddr_cmd_rdy \in BOOLEAN /\ ddr_data_rdy \in BOOLEAN
    BY ResetTypes DEF DdrRdata, TypeOK, DdrTypeOK
  <2> QED BY <1>1, <2>1 DEF AppAndDdr, FsmEdge, FsmSide
<1>2. CASE UNCHANGED <<appFsm, appSync, appMeta, ddr_mem, ddr_reads, ddr_cmd_rdy, ddr_data_rdy>>
  BY <1>2 DEF FsmSide
<1> QED BY <1>1, <1>2 DEF AppSide

\* Every step, whichever clocks tick in it, keeps every register well typed.
LEMMA TypeStep == TypeOK /\ [BridgeNext]_bridgeVars => TypeOK'
<1> SUFFICES ASSUME TypeOK, [BridgeNext]_bridgeVars PROVE TypeOK'
  OBVIOUS
<1>1. PICK r \in Requests \union {NoRequest}, valid \in BOOLEAN :
        BusSide(r) /\ AppSide(valid)
  BY StepSides
<1>2. BusTypeOK'
  <2>1. CASE BusStep(r) /\ BusSample
    BY <2>1, BusEdgeType
  <2>2. CASE UNCHANGED <<busRegs, busMeta>>
    BY <2>2 DEF busRegs, busMeta, TypeOK, BusTypeOK
  <2> QED BY <1>1, <2>1, <2>2 DEF BusSide
<1>3. /\ AppTypeOK' /\ ddr_mem' \in [Line -> LineData] /\ ddr_reads' \in Seq(LineData)
      /\ ddr_cmd_rdy' \in BOOLEAN /\ ddr_data_rdy' \in BOOLEAN
  <2>1. CASE AppAndDdr(valid) /\ AppSample
    <3>1. DdrRdata \in LineData /\ DdrTypeOK'
      BY <2>1, DdrEdgeType DEF AppAndDdr, TypeOK, AppTypeOK
    <3>2. ddr_cmd_rdy \in BOOLEAN /\ ddr_data_rdy \in BOOLEAN
      BY DEF TypeOK, DdrTypeOK
    <3> QED BY <2>1, <3>1, <3>2, AppEdgeType DEF AppAndDdr, DdrTypeOK
  <2>2. CASE UNCHANGED <<appFsm, appSync, appMeta, ddr_mem, ddr_reads, ddr_cmd_rdy, ddr_data_rdy>>
    BY <2>2 DEF appFsm, appSync, appMeta, TypeOK, AppTypeOK, DdrTypeOK
  <2> QED BY <1>1, <2>1, <2>2 DEF AppSide
<1>4. init_calib_complete' \in BOOLEAN
  BY DEF BridgeNext, BusEdge, AppEdge, BothEdges, Calibrate, AppAndDdr, DdrStep, DdrCalibrate,
         ddrVars, bridgeVars, TypeOK, DdrTypeOK
<1> QED BY <1>2, <1>3, <1>4 DEF TypeOK, DdrTypeOK

\* The bridge's registers always hold values of their types.
THEOREM TypeCorrect == BridgeSpec => []TypeOK
<1>1. BridgeInit /\ DdrInit => TypeOK
  BY InitType
<1>2. TypeOK /\ [BridgeNext]_bridgeVars => TypeOK'
  BY TypeStep
<1> QED BY <1>1, <1>2, PTL DEF BridgeSpec, SystemInit

----------------------------------------------------------------------------
\* While the APP FSM works, the request has fully arrived and nothing of a
\* response is on its way back.
LEMMA AppBusyFacts ==
  ASSUME TypeOK, Handshake, app_state # "S_IDLE"
  PROVE  /\ req_toggle_app_seen = req_toggle /\ req_toggle_app_sync = req_toggle
         /\ req_toggle_app_meta = req_toggle /\ req_app_meta = req /\ req_app_sync = req
         /\ rsp_toggle # req_toggle /\ rsp_toggle_bus_seen = rsp_toggle
         /\ rsp_toggle_bus_sync = rsp_toggle /\ rsp_toggle_bus_meta = rsp_toggle
         /\ bus_busy /\ ~rsp_ack_pending /\ ~bus_ack
BY DEF TypeOK, BusTypeOK, AppTypeOK, Handshake, RequestCrossing, AppOwes, ResponseCrossing, BusOwed

\* While the bus side is free, nothing is on its way in either direction.
LEMMA BusFreeFacts ==
  ASSUME TypeOK, Handshake, ~bus_busy
  PROVE  /\ app_state = "S_IDLE" /\ ~rsp_ack_pending
         /\ req_toggle_app_seen = req_toggle /\ req_toggle_app_sync = req_toggle
         /\ req_toggle_app_meta = req_toggle
         /\ rsp_toggle = req_toggle /\ rsp_toggle_bus_seen = req_toggle
         /\ rsp_toggle_bus_sync = req_toggle /\ rsp_toggle_bus_meta = req_toggle
BY DEF TypeOK, BusTypeOK, AppTypeOK, Handshake, RequestCrossing, AppOwes, ResponseCrossing, BusOwed

\* A request is latched only when the bus side is free.
LEMMA BusReqEffect ==
  ASSUME NEW r, BusSide(r)
  PROVE  \/ UNCHANGED <<req_toggle, req>>
         \/ ~bus_busy /\ req_toggle' = 1 - req_toggle
BY DEF BusSide, BusStep, BusReply, BusSeeResponse, BusAccept, BusWait, busRegs

\* What an app_clk edge does to the request's synchroniser.
LEMMA AppReqEffect ==
  ASSUME FsmSide
  PROVE  \/ UNCHANGED <<req_toggle_app_meta, req_toggle_app_sync, req_toggle_app_seen,
                        req_app_meta, req_app_sync, rsp_toggle, app_state>>
         \/ /\ AppSample
            /\ req_toggle_app_sync' = req_toggle_app_meta /\ req_app_sync' = req_app_meta
            /\ \/ req_toggle_app_seen' = req_toggle_app_seen /\ app_state = "S_IDLE"
                  /\ app_state' = "S_IDLE" /\ rsp_toggle' = rsp_toggle
               \/ req_toggle_app_seen' = req_toggle_app_sync /\ app_state = "S_IDLE"
                  /\ app_state' = "S_CAPTURE" /\ rsp_toggle' = rsp_toggle
                  /\ req_toggle_app_sync # req_toggle_app_seen
               \/ req_toggle_app_seen' = req_toggle_app_seen /\ app_state # "S_IDLE"
                  /\ app_state' # "S_IDLE" /\ rsp_toggle' = rsp_toggle
               \/ req_toggle_app_seen' = req_toggle_app_seen /\ app_state = "S_ACK"
                  /\ app_state' = "S_IDLE" /\ rsp_toggle' = 1 - rsp_toggle
<1>1. CASE UNCHANGED <<appFsm, appSync, appMeta>>
  BY <1>1 DEF appFsm, appSync, appMeta
<1>2. CASE FsmEdge
  BY <1>2 DEF FsmEdge, AppStep, S_IDLE, S_CAPTURE, S_READ_CMD, S_READ_WAIT, S_WRITE_CMD, S_ACK
<1> QED BY <1>1, <1>2 DEF FsmSide

\* The request side of the handshake is preserved.
LEMMA RequestStep ==
  ASSUME TypeOK, TypeOK', Handshake, NEW r, BusSide(r),
         FsmSide
  PROVE  RequestCrossing' /\ AppOwes'
<1> USE DEF TypeOK, BusTypeOK, AppTypeOK
<1>1. CASE UNCHANGED <<req_toggle_app_meta, req_toggle_app_sync, req_toggle_app_seen,
                       req_app_meta, req_app_sync, rsp_toggle, app_state>>
  <2>1. CASE UNCHANGED <<req_toggle, req>>
    BY <1>1, <2>1 DEF Handshake, RequestCrossing, AppOwes
  <2>2. CASE ~bus_busy /\ req_toggle' = 1 - req_toggle
    BY <1>1, <2>2, BusFreeFacts DEF RequestCrossing, AppOwes
  <2> QED BY <2>1, <2>2, BusReqEffect
<1>2. CASE /\ AppSample
           /\ req_toggle_app_sync' = req_toggle_app_meta /\ req_app_sync' = req_app_meta
  <2>1. CASE UNCHANGED <<req_toggle, req>>
    <3>1. req_toggle_app_meta' = req_toggle /\ req_app_meta' = req
      BY <1>2, <2>1 DEF AppSample, Sampled
    <3> QED BY <1>2, <2>1, <3>1, AppReqEffect DEF Handshake, RequestCrossing, AppOwes
  <2>2. CASE ~bus_busy /\ req_toggle' = 1 - req_toggle
    <3>1. req_toggle_app_meta' \in {0, 1}
      OBVIOUS
    <3>2. /\ app_state' = "S_IDLE" /\ rsp_toggle' = rsp_toggle
          /\ req_toggle_app_seen' = req_toggle_app_seen
      BY <2>2, BusFreeFacts, AppReqEffect
    <3> QED BY <1>2, <2>2, <3>1, <3>2, BusFreeFacts DEF RequestCrossing, AppOwes
  <2> QED BY <2>1, <2>2, BusReqEffect
<1> QED BY <1>1, <1>2, AppReqEffect

\* Only S_READ_WAIT sets the answer and only S_ACK announces it.
LEMMA AppRspEffect ==
  ASSUME FsmSide
  PROVE  \/ UNCHANGED <<rsp_toggle, rsp_dat_r>>
         \/ app_state = "S_READ_WAIT" /\ rsp_toggle' = rsp_toggle
         \/ app_state = "S_ACK" /\ rsp_dat_r' = rsp_dat_r /\ rsp_toggle' = 1 - rsp_toggle
<1>1. CASE UNCHANGED <<appFsm, appSync, appMeta>>
  BY <1>1 DEF appFsm
<1>2. CASE FsmEdge
  BY <1>2 DEF FsmEdge, AppStep, S_IDLE, S_CAPTURE, S_READ_CMD, S_READ_WAIT, S_WRITE_CMD, S_ACK
<1> QED BY <1>1, <1>2 DEF FsmSide

\* The response side of the handshake is preserved.
LEMMA ResponseStep ==
  ASSUME TypeOK, TypeOK', Handshake, NEW r, BusSide(r),
         FsmSide
  PROVE  ResponseCrossing' /\ BusOwed' /\ ResponseCrossesWhole'
<1> USE DEF TypeOK, BusTypeOK, AppTypeOK
<1> DEFINE Goal == ResponseCrossing' /\ BusOwed' /\ ResponseCrossesWhole'
<1>1. CASE UNCHANGED <<rsp_toggle, rsp_dat_r>>
  <2>1. CASE UNCHANGED <<busRegs, busMeta>>
    BY <1>1, <2>1 DEF busRegs, busMeta, Handshake, ResponseCrossing, BusOwed, ResponseCrossesWhole
  <2>2. CASE BusStep(r) /\ BusSample
    <3>1. rsp_toggle_bus_meta' = rsp_toggle /\ rsp_dat_r_bus_meta' = rsp_dat_r
      BY <1>1, <2>2 DEF BusSample, Sampled
    <3>2. CASE BusAccept(r)
      BY <1>1, <2>2, <3>1, <3>2, BusFreeFacts
         DEF BusStep, BusAccept, Handshake, ResponseCrossing, BusOwed, ResponseCrossesWhole
    <3>3. CASE BusReply
      BY <1>1, <2>2, <3>1, <3>3
         DEF BusStep, BusReply, Handshake, ResponseCrossing, BusOwed, ResponseCrossesWhole
    <3>4. CASE BusSeeResponse
      BY <1>1, <2>2, <3>1, <3>4
         DEF BusStep, BusSeeResponse, Handshake, ResponseCrossing, BusOwed, ResponseCrossesWhole
    <3>5. CASE BusWait(r)
      BY <1>1, <2>2, <3>1, <3>5
         DEF BusStep, BusWait, Handshake, ResponseCrossing, BusOwed, ResponseCrossesWhole
    <3> QED BY <2>2, <3>2, <3>3, <3>4, <3>5 DEF BusStep
  <2> QED BY <2>1, <2>2 DEF BusSide
<1>2. CASE app_state \in {"S_READ_WAIT", "S_ACK"} /\ ~UNCHANGED <<rsp_toggle, rsp_dat_r>>
  <2>1. /\ rsp_toggle # req_toggle /\ rsp_toggle_bus_seen = rsp_toggle
        /\ rsp_toggle_bus_sync = rsp_toggle /\ rsp_toggle_bus_meta = rsp_toggle
        /\ bus_busy /\ ~rsp_ack_pending /\ ~bus_ack
    BY <1>2, AppBusyFacts
  <2>2. /\ UNCHANGED <<req_toggle, rsp_toggle_bus_seen, bus_busy, rsp_ack_pending>>
        /\ ~bus_ack' /\ rsp_toggle_bus_sync' = rsp_toggle
    BY <2>1 DEF BusSide, BusStep, BusReply, BusSeeResponse, BusAccept, BusWait, busRegs
  <2>3. CASE app_state = "S_READ_WAIT" /\ rsp_toggle' = rsp_toggle
    <3>1. rsp_toggle_bus_meta' = rsp_toggle
      BY <2>1, <2>3 DEF BusSide, BusSample, Sampled, busMeta
    <3> QED BY <2>1, <2>2, <2>3, <3>1 DEF ResponseCrossing, BusOwed, ResponseCrossesWhole
  <2>4. CASE app_state = "S_ACK" /\ rsp_dat_r' = rsp_dat_r /\ rsp_toggle' = 1 - rsp_toggle
    <3>1. rsp_toggle_bus_meta' # rsp_toggle => rsp_dat_r_bus_meta' = rsp_dat_r
      BY <2>1, <2>4 DEF BusSide, BusSample, Sampled, busMeta
    <3>2. rsp_toggle_bus_meta' \in {0, 1}
      OBVIOUS
    <3> QED BY <2>1, <2>2, <2>4, <3>1, <3>2 DEF ResponseCrossing, BusOwed, ResponseCrossesWhole
  <2> QED BY <1>2, <2>3, <2>4, AppRspEffect
<1> QED BY <1>1, <1>2, AppRspEffect

\* The captured request stays the latched one.
LEMMA CaptureStep ==
  ASSUME TypeOK, Handshake, NEW r, BusSide(r),
         FsmSide
  PROVE  RequestCapturedWhole'
<1>1. CASE app_state = "S_IDLE"
  <2>1. app_state' \in {"S_IDLE", "S_CAPTURE"}
    BY <1>1, AppReqEffect
  <2> QED BY <2>1 DEF RequestCapturedWhole
<1>2. CASE app_state # "S_IDLE"
  <2>1. req_app_sync = req /\ UNCHANGED req
    BY <1>2, AppBusyFacts, BusReqEffect
  <2>2. CASE UNCHANGED <<appFsm, appSync, appMeta>>
    BY <2>1, <2>2 DEF appFsm, Handshake, RequestCapturedWhole
  <2>3. CASE FsmEdge
    BY <1>2, <2>1, <2>3
       DEF FsmEdge, AppStep, S_IDLE, S_CAPTURE, S_READ_CMD, S_READ_WAIT, S_WRITE_CMD, S_ACK,
           Handshake, RequestCapturedWhole, TypeOK, AppTypeOK, AppStates
  <2> QED BY <2>2, <2>3 DEF FsmSide
<1> QED BY <1>1, <1>2

\* A step of both sides preserves the handshake, part by part.
LEMMA HandshakeStep ==
  ASSUME TypeOK, TypeOK', Handshake, NEW r, BusSide(r), FsmSide
  PROVE  Handshake'
BY RequestStep, ResponseStep, CaptureStep DEF Handshake

\* A queue of one line: what Append, Head and Tail make of it.
LEMMA OneLine ==
  ASSUME NEW x \in LineData
  PROVE  /\ Append(<<>>, x) = <<x>> /\ Head(<<x>>) = x /\ Tail(<<x>>) = <<>> /\ <<x>> # <<>>
OBVIOUS

\* The controller's state keeps agreeing with the APP FSM's.
LEMMA ControllerStep ==
  ASSUME TypeOK, BridgeInv,
         NEW valid \in BOOLEAN,
         AppSide(valid)
  PROVE  ControllerAgrees'
<1> USE DEF TypeOK, AppTypeOK, DdrTypeOK
<1> DEFINE L == app_req.line
<1>0. ControllerAgrees /\ L \in Line /\ ddr_mem[L] \in LineData /\ ddr_mem[app_addr] \in LineData
  BY DEF BridgeInv, Handshake, Request
<1>1. CASE UNCHANGED <<appFsm, appSync, appMeta, ddr_mem, ddr_reads, ddr_cmd_rdy, ddr_data_rdy>>
  BY <1>0, <1>1 DEF appFsm, ControllerAgrees, merge_word
<1>2. CASE AppAndDdr(valid) /\ AppSample
  <2> USE DEF AppAndDdr
  <2>1. CASE S_IDLE
    <3>1. ddr_reads = <<>> /\ ~app_cmd_en /\ ~valid
      BY <1>0, <1>2, <2>1 DEF S_IDLE, ControllerAgrees
    <3>2. ddr_mem' = ddr_mem /\ ddr_reads' = <<>>
      BY <1>2, <3>1 DEF DdrStep, DdrTakes
    <3> QED BY <2>1, <3>2 DEF S_IDLE, ControllerAgrees
  <2>2. CASE S_CAPTURE
    <3>1. ddr_reads = <<>> /\ ~app_cmd_en /\ ~valid
      BY <1>0, <1>2, <2>2 DEF S_CAPTURE, ControllerAgrees
    <3>2. ddr_mem' = ddr_mem /\ ddr_reads' = <<>>
      BY <1>2, <3>1 DEF DdrStep, DdrTakes
    <3> QED BY <2>2, <3>2 DEF S_CAPTURE, ControllerAgrees
  <2>3. CASE S_READ_CMD(ddr_cmd_rdy)
    <3>1. ddr_reads = <<>> /\ ~app_cmd_en /\ ~valid
      BY <1>0, <1>2, <2>3 DEF S_READ_CMD, ControllerAgrees
    <3>2. ddr_mem' = ddr_mem /\ ddr_reads' = <<>> /\ (ddr_cmd_rdy => ddr_cmd_rdy')
      BY <1>2, <3>1 DEF DdrStep, DdrTakes
    <3> QED BY <2>3, <3>2 DEF S_READ_CMD, ControllerAgrees
  <2>4. CASE S_READ_WAIT(valid, DdrRdata)
    <3>1. CASE app_cmd_en
      <4>1. ddr_reads = <<>> /\ app_cmd = "read" /\ app_addr = L /\ ~valid /\ ddr_cmd_rdy
        BY <1>0, <1>2, <2>4, <3>1 DEF S_READ_WAIT, ControllerAgrees
      <4>2. ddr_mem' = ddr_mem /\ ddr_reads' = <<ddr_mem[L]>>
        BY <1>0, <1>2, <3>1, <4>1, OneLine DEF DdrStep, DdrTakes
      <4> QED BY <1>0, <2>4, <4>1, <4>2, OneLine DEF S_READ_WAIT, ControllerAgrees
    <3>2. CASE ~app_cmd_en
      <4>1. ddr_reads = <<ddr_mem[L]>>
        BY <1>0, <2>4, <3>2 DEF S_READ_WAIT, ControllerAgrees
      <4>2. DdrRdata = ddr_mem[L] /\ ddr_mem' = ddr_mem
        BY <1>0, <1>2, <3>2, <4>1, OneLine DEF DdrRdata, DdrStep, DdrTakes
      <4>3. ddr_reads' = IF valid THEN <<>> ELSE <<ddr_mem[L]>>
        BY <1>0, <1>2, <3>2, <4>1, OneLine DEF DdrStep, DdrTakes
      <4>4. CASE valid
        BY <2>4, <4>2, <4>3, <4>4 DEF S_READ_WAIT, ControllerAgrees
      <4>5. CASE ~valid
        BY <2>4, <4>2, <4>3, <4>5 DEF S_READ_WAIT, ControllerAgrees
      <4> QED BY <4>4, <4>5
    <3> QED BY <3>1, <3>2
  <2>5. CASE S_WRITE_CMD(ddr_cmd_rdy, ddr_data_rdy)
    <3>1. ddr_reads = <<>> /\ ~app_cmd_en /\ ~valid /\ app_req.we /\ line = ddr_mem[L] /\ ~app_wren
      BY <1>0, <1>2, <2>5 DEF S_WRITE_CMD, ControllerAgrees
    <3>2. /\ ddr_mem' = ddr_mem /\ ddr_reads' = <<>>
          /\ (ddr_cmd_rdy => ddr_cmd_rdy') /\ (ddr_data_rdy => ddr_data_rdy')
      BY <1>2, <3>1 DEF DdrStep, DdrTakes
    <3>3. app_data' = merge_word(ddr_mem[L], app_req.word, app_req.dat_w, app_req.sel)
      BY <2>5, <3>1 DEF S_WRITE_CMD
    <3> QED BY <2>5, <3>1, <3>2, <3>3 DEF S_WRITE_CMD, ControllerAgrees, merge_word
  <2>6. CASE S_ACK
    <3>1. ddr_reads = <<>> /\ ~valid /\ (app_cmd_en => app_cmd = "write")
      BY <1>0, <1>2, <2>6 DEF S_ACK, ControllerAgrees
    <3>2. ddr_reads' = <<>>
      BY <1>2, <3>1 DEF DdrStep, DdrTakes
    <3> QED BY <2>6, <3>2 DEF S_ACK, ControllerAgrees
  <2> QED BY <1>2, <2>1, <2>2, <2>3, <2>4, <2>5, <2>6 DEF AppStep
<1> QED BY <1>1, <1>2 DEF AppSide

\* After reset nothing is on its way in either direction.
LEMMA InvInit == BridgeInit /\ DdrInit => BridgeInv
BY DEF BridgeInit, DdrInit, BridgeInv, Handshake, RequestCapturedWhole, ResponseCrossesWhole,
       RequestCrossing, AppOwes, ResponseCrossing, BusOwed, ControllerAgrees

\* Every step preserves the bridge's invariant.
LEMMA InvStep == TypeOK /\ TypeOK' /\ BridgeInv /\ [BridgeNext]_bridgeVars => BridgeInv'
<1> SUFFICES ASSUME TypeOK, TypeOK', BridgeInv, [BridgeNext]_bridgeVars PROVE BridgeInv'
  OBVIOUS
<1>1. PICK r \in Requests \union {NoRequest}, valid \in BOOLEAN :
        BusSide(r) /\ AppSide(valid)
  BY StepSides
<1>2. Handshake'
  BY <1>1, SideIsFsmSide, HandshakeStep DEF BridgeInv
<1>3. ControllerAgrees'
  BY <1>1, ControllerStep
<1> QED BY <1>2, <1>3 DEF BridgeInv

\* The handshake invariant holds for every clock ratio and every outcome of
\* sampling a changing wire.
THEOREM HandshakeCorrect == BridgeSpec => []BridgeInv
<1>1. BridgeInit /\ DdrInit => BridgeInv
  BY InvInit
<1>2. TypeOK /\ TypeOK' /\ BridgeInv /\ [BridgeNext]_bridgeVars => BridgeInv'
  BY InvStep
<1> QED BY <1>1, <1>2, TypeCorrect, PTL DEF BridgeSpec, SystemInit

\* No torn request is ever acted on and no torn response ever acknowledged.
THEOREM PayloadsCrossWhole == BridgeSpec => [](RequestCapturedWhole /\ ResponseCrossesWhole)
<1>1. BridgeInv => RequestCapturedWhole /\ ResponseCrossesWhole
  BY DEF BridgeInv, Handshake
<1> QED BY <1>1, HandshakeCorrect, PTL

\* At most one read is outstanding, and only while the FSM waits for it.
THEOREM ReadsBounded == BridgeSpec => []OneReadOutstanding
<1>1. TypeOK /\ BridgeInv => OneReadOutstanding
  <2> SUFFICES ASSUME TypeOK, BridgeInv PROVE OneReadOutstanding
    OBVIOUS
  <2>1. CASE ddr_reads = <<>>
    BY <2>1, EmptySeq DEF OneReadOutstanding
  <2>2. CASE ddr_reads # <<>>
    <3>1. app_state = "S_READ_WAIT" /\ ~app_cmd_en /\ ddr_reads = <<ddr_mem[app_req.line]>>
      BY <2>2 DEF BridgeInv, ControllerAgrees
    <3> QED BY <3>1 DEF OneReadOutstanding
  <2> QED BY <2>1, <2>2
<1> QED BY <1>1, TypeCorrect, HandshakeCorrect, PTL

\* No command is dropped: whenever the registered app_cmd_en is up, so are the
\* ready signals, and the controller takes it.
THEOREM CommandsTaken == BridgeSpec => []CommandTaken
<1>1. TypeOK /\ BridgeInv => CommandTaken
  <2> SUFFICES ASSUME TypeOK, BridgeInv, app_cmd_en PROVE DdrTakes(app_cmd_en, app_cmd, app_wren)
    BY DEF CommandTaken
  <2>1. app_state \in {"S_READ_WAIT", "S_ACK"}
    BY DEF BridgeInv, ControllerAgrees
  <2>2. CASE app_state = "S_READ_WAIT"
    BY <2>2 DEF BridgeInv, ControllerAgrees, DdrTakes
  <2>3. CASE app_state = "S_ACK"
    BY <2>3 DEF BridgeInv, ControllerAgrees, DdrTakes
  <2> QED BY <2>1, <2>2, <2>3
<1> QED BY <1>1, TypeCorrect, HandshakeCorrect, PTL

----------------------------------------------------------------------------
\* The refinement: initial states map to initial states, and every step maps
\* to one step of the word memory or to a stutter.

\* The reset state is the word memory before its first request.
LEMMA RefInit == BridgeInit /\ DdrInit => Memory!Init
BY ResetTypes DEF BridgeInit, DdrInit, Memory!Init, Request, Word, LineData, Memory!Word

\* What the APP side may do to memory, to the answer and to the phase: nothing,
\* take a line that has come back, announce a read, hand over a write.
Nothing ==
  /\ UNCHANGED <<ddr_mem, rsp_dat_r, rsp_toggle>>
  /\ (app_state = "S_ACK" /\ ~app_req.we) <=> (app_state' = "S_ACK" /\ ~app_req'.we)
LineBack ==
  /\ app_state = "S_READ_WAIT" /\ app_state' = "S_ACK" /\ ~app_req.we /\ app_req' = app_req
  /\ UNCHANGED <<ddr_mem, rsp_toggle>>
  /\ rsp_dat_r' = ddr_mem[app_req.line][app_req.word]
ReadDone ==
  /\ app_state = "S_ACK" /\ ~app_req.we /\ app_state' = "S_IDLE"
  /\ UNCHANGED <<ddr_mem, rsp_dat_r>> /\ rsp_toggle' = 1 - rsp_toggle
WriteDone ==
  /\ app_state = "S_ACK" /\ app_req.we /\ app_state' = "S_IDLE"
  /\ rsp_toggle' = 1 - rsp_toggle /\ UNCHANGED rsp_dat_r
  /\ ddr_mem' = [ddr_mem EXCEPT ![app_req.line] =
                   merge_word(@, app_req.word, app_req.dat_w, app_req.sel)]
AbstractEffect == Nothing \/ LineBack \/ ReadDone \/ WriteDone

\* The bridge with its own port does no more than that.
LEMMA AppAbstractEffect ==
  ASSUME TypeOK, BridgeInv, NEW valid \in BOOLEAN, AppSide(valid)
  PROVE  AbstractEffect
<1> USE DEF AbstractEffect, Nothing, LineBack, ReadDone, WriteDone
<1> USE DEF TypeOK, AppTypeOK, DdrTypeOK
<1> DEFINE L == app_req.line
<1>0. ControllerAgrees /\ L \in Line /\ ddr_mem[L] \in LineData
  BY DEF BridgeInv, Handshake, Request
<1>1. CASE UNCHANGED <<appFsm, appSync, appMeta, ddr_mem, ddr_reads, ddr_cmd_rdy, ddr_data_rdy>>
  BY <1>1 DEF appFsm
<1>2. CASE AppAndDdr(valid) /\ AppSample
  <2> USE DEF AppAndDdr
  <2>1. CASE S_IDLE \/ S_CAPTURE \/ S_READ_CMD(ddr_cmd_rdy) \/ S_WRITE_CMD(ddr_cmd_rdy, ddr_data_rdy)
    <3>1. ~app_cmd_en
      BY <1>0, <2>1 DEF S_IDLE, S_CAPTURE, S_READ_CMD, S_WRITE_CMD, ControllerAgrees
    <3>2. ddr_mem' = ddr_mem
      BY <1>2, <3>1 DEF DdrStep, DdrTakes
    <3>3. app_state = "S_WRITE_CMD" => app_req.we
      BY <1>0 DEF ControllerAgrees
    <3> QED BY <2>1, <3>2, <3>3 DEF S_IDLE, S_CAPTURE, S_READ_CMD, S_WRITE_CMD
  <2>2. CASE S_READ_WAIT(valid, DdrRdata)
    <3>1. app_cmd_en => app_cmd = "read" /\ ~valid
      BY <1>0, <1>2, <2>2 DEF S_READ_WAIT, ControllerAgrees
    <3>2. ddr_mem' = ddr_mem
      BY <1>2, <3>1 DEF DdrStep, DdrTakes
    <3>3. valid => DdrRdata = ddr_mem[L]
      BY <1>0, <2>2, <3>1, OneLine DEF S_READ_WAIT, ControllerAgrees, DdrRdata
    <3> QED BY <2>2, <3>2, <3>3 DEF S_READ_WAIT
  <2>3. CASE S_ACK /\ ~app_req.we
    <3>1. ddr_mem' = ddr_mem
      BY <1>0, <1>2, <2>3 DEF DdrStep, DdrTakes, S_ACK, ControllerAgrees
    <3> QED BY <2>3, <3>1 DEF S_ACK
  <2>4. CASE S_ACK /\ app_req.we
    <3>1. ddr_mem' = [ddr_mem EXCEPT ![L] = app_data]
      BY <1>0, <1>2, <2>4 DEF DdrStep, DdrTakes, S_ACK, ControllerAgrees
    <3>2. app_data = merge_word(ddr_mem[L], app_req.word, app_req.dat_w, app_req.sel)
      BY <1>0, <2>4 DEF S_ACK, ControllerAgrees
    <3> QED BY <2>4, <3>1, <3>2 DEF S_ACK
  <2> QED BY <1>2, <2>1, <2>2, <2>3, <2>4 DEF AppStep
<1> QED BY <1>1, <1>2 DEF AppSide

\* Merging a word into a line is the word memory's write of the selected lanes.
LEMMA MergeIsWrite ==
  ASSUME TypeOK, app_req = req
  PROVE  [ddr_mem EXCEPT ![app_req.line] = merge_word(@, app_req.word, app_req.dat_w, app_req.sel)]
         = [ddr_mem EXCEPT ![req.line][req.word] = Memory!Written(@)]
BY DEF TypeOK, DdrTypeOK, merge_word, Memory!Written

\* A step of both sides is one step of the word memory, or none: a write
\* happens when S_ACK hands the merged line over, a read when its line returns.
LEMMA SidesRefine ==
  ASSUME TypeOK, TypeOK', Handshake,
         NEW r \in Requests \union {NoRequest}, BusSide(r), FsmSide, AbstractEffect
  PROVE  Memory!Next \/ UNCHANGED Memory!wmVars
<1> USE DEF TypeOK, BusTypeOK, AppTypeOK
<1>0. \/ UNCHANGED <<ddr_mem, rsp_dat_r, rsp_toggle>> \/ app_state \in {"S_READ_WAIT", "S_ACK"}
  BY DEF AbstractEffect, Nothing, LineBack, ReadDone, WriteDone
<1>1. CASE BusAccept(r) /\ ~bus_busy
  <2>1. app_state = "S_IDLE" /\ rsp_toggle = req_toggle /\ req_toggle_app_sync = req_toggle_app_seen
    BY <1>1, BusFreeFacts
  <2>2. UNCHANGED <<ddr_mem, rsp_dat_r, rsp_toggle>> /\ app_state' # "S_ACK"
    BY <1>0, <2>1, AppReqEffect
  <2>3. Memory!Accept(r)
    BY <1>1, <2>1, <2>2 DEF BusAccept, Memory!Accept, Performed
  <2>4. r \in Requests
    BY <1>1 DEF BusAccept
  <2> QED BY <2>3, <2>4 DEF Memory!Next
<1>2. CASE BusReply
  <2>1. /\ bus_busy /\ rsp_toggle = req_toggle /\ app_state = "S_IDLE"
    BY <1>2, AppBusyFacts DEF BusReply, Handshake, BusOwed, ResponseCrossing
  <2>2. UNCHANGED <<ddr_mem, rsp_dat_r, rsp_toggle>>
    BY <1>0, <2>1
  <2>3. bus_dat_r = rsp_dat_r /\ ~bus_ack
    BY <1>2, <2>1 DEF BusReply, Handshake, ResponseCrossesWhole, BusOwed
  <2>4. Memory!Acknowledge
    BY <1>2, <2>1, <2>2, <2>3 DEF BusReply, Memory!Acknowledge, Performed, Word, Memory!Word
  <2> QED BY <2>4 DEF Memory!Next
<1>3. CASE ~bus_busy /\ bus_ack /\ BusWait(r)
  <2>1. app_state = "S_IDLE" /\ rsp_toggle = req_toggle
    BY <1>3, BusFreeFacts
  <2>2. UNCHANGED <<ddr_mem, rsp_dat_r, rsp_toggle>>
    BY <1>0, <2>1
  <2>3. bus_dat_r # NoRequest
    BY DdrBridgeAssumption
  <2>4. Memory!EndAck
    BY <1>3, <2>1, <2>2, <2>3 DEF BusWait, Memory!EndAck
  <2> QED BY <2>4 DEF Memory!Next
<1>4. CASE /\ UNCHANGED <<req_toggle, req, bus_busy>>
           /\ (IF bus_ack THEN bus_dat_r ELSE NoRequest)' = IF bus_ack THEN bus_dat_r ELSE NoRequest
  <2>1. CASE Nothing
    BY <1>4, <2>1 DEF Nothing, Memory!wmVars, Performed
  <2>2. CASE app_state \in {"S_READ_WAIT", "S_ACK"}
    <3>1. app_req = req /\ rsp_toggle # req_toggle /\ bus_busy
      BY <2>2, AppBusyFacts DEF Handshake, RequestCapturedWhole
    <3>2. CASE LineBack
      <4>1. Memory!Perform
        BY <1>4, <3>1, <3>2 DEF LineBack, Memory!Perform, Performed
      <4> QED BY <4>1 DEF Memory!Next
    <3>3. CASE ReadDone
      BY <1>4, <3>1, <3>3 DEF ReadDone, Memory!wmVars, Performed
    <3>4. CASE WriteDone
      <4>1. ddr_mem' = [ddr_mem EXCEPT ![req.line][req.word] = Memory!Written(@)]
        BY <3>1, <3>4, MergeIsWrite DEF WriteDone
      <4>2. (IF ~bus_busy THEN "idle" ELSE IF Performed THEN "performed" ELSE "accepted") = "accepted"
        BY <3>1, <3>4 DEF WriteDone, Performed
      <4>3. (IF ~bus_busy THEN "idle" ELSE IF Performed THEN "performed" ELSE "accepted")' = "performed"
        <5>1. rsp_toggle' = req_toggle'
          BY <1>4, <3>1, <3>4 DEF WriteDone
        <5> QED BY <1>4, <3>1, <5>1 DEF Performed
      <4>4. req.we /\ UNCHANGED <<req, rsp_dat_r>>
        BY <1>4, <3>1, <3>4 DEF WriteDone
      <4>5. Memory!Perform
        BY <1>4, <4>1, <4>2, <4>3, <4>4 DEF Memory!Perform
      <4> QED BY <4>5 DEF Memory!Next
    <3> QED BY <2>1, <3>2, <3>3, <3>4 DEF AbstractEffect
  <2> QED BY <2>1, <2>2 DEF AbstractEffect, LineBack, ReadDone, WriteDone
<1>5. \/ BusAccept(r) /\ ~bus_busy
      \/ BusReply
      \/ ~bus_busy /\ bus_ack /\ BusWait(r)
      \/ /\ UNCHANGED <<req_toggle, req, bus_busy>>
         /\ (IF bus_ack THEN bus_dat_r ELSE NoRequest)' = IF bus_ack THEN bus_dat_r ELSE NoRequest
  BY DEF BusSide, BusStep, BusReply, BusSeeResponse, BusAccept, BusWait, busRegs,
              Handshake, BusOwed
<1> QED BY <1>1, <1>2, <1>3, <1>4, <1>5

\* Every step of the bridge refines the word memory.
LEMMA RefStep ==
  TypeOK /\ TypeOK' /\ BridgeInv /\ [BridgeNext]_bridgeVars => [Memory!Next]_(Memory!wmVars)
<1> SUFFICES ASSUME TypeOK, TypeOK', BridgeInv, [BridgeNext]_bridgeVars
             PROVE  Memory!Next \/ UNCHANGED Memory!wmVars
  OBVIOUS
<1>1. PICK r \in Requests \union {NoRequest}, valid \in BOOLEAN :
        BusSide(r) /\ AppSide(valid)
  BY StepSides
<1>2. FsmSide /\ AbstractEffect /\ Handshake
  BY <1>1, SideIsFsmSide, AppAbstractEffect DEF BridgeInv
<1> QED BY <1>1, <1>2, SidesRefine

\* The bridge implements the word memory for every value of the constants.
THEOREM BridgeImplementsMemory == BridgeSpec => ImplementsWordMemory
<1>1. BridgeInit /\ DdrInit => Memory!Init
  BY RefInit
<1>2. TypeOK /\ TypeOK' /\ BridgeInv /\ [BridgeNext]_bridgeVars
      => [Memory!Next]_(Memory!wmVars)
  BY RefStep
<1> QED BY <1>1, <1>2, TypeCorrect, HandshakeCorrect, PTL
        DEF BridgeSpec, SystemInit, ImplementsWordMemory, Memory!Spec

----------------------------------------------------------------------------
\* The inductive invariant.

LcdOut == inflight_lcd # 0
CpuOut == app_state = "S_READ_WAIT" /\ ~app_cmd_en

ArbTypeOK ==
  /\ lcd_grant \in BOOLEAN /\ inflight_lcd \in {0, 1}
  /\ d_st \in DStates /\ lcd_cmd_en \in BOOLEAN /\ f_beat \in 0..FbBeats - 1

\* The lines rd in the controller and their owners ow: lcd lines of the LCD's, at
\* most one, and cpu lines of the CPU's behind it, at most one, which is y.
Queue(rd, ow, lcd, cpu, y) ==
  \/ lcd = 0 /\ cpu = 0 /\ rd = <<>> /\ ow = <<>>
  \/ lcd = 0 /\ cpu = 1 /\ rd = <<y>> /\ ow = <<"cpu">>
  \/ lcd = 1 /\ cpu = 0 /\ ow = <<"lcd">> /\ \E x \in LineData : rd = <<x>>
  \/ lcd = 1 /\ cpu = 1 /\ ow = <<"lcd", "cpu">> /\ \E x \in LineData : rd = <<x, y>>

inflight_cpu == IF CpuOut THEN 1 ELSE 0
QueueOK == Queue(ddr_reads, ddr_owners, inflight_lcd, inflight_cpu, ddr_mem[app_req.line])

\* The DMA waits exactly while a beat of its is out; the bridge has issued
\* nothing while the LCD is granted.
GrantOK ==
  /\ LcdOut <=> d_st = "D_WAIT"
  /\ lcd_cmd_en => d_st = "D_REQ"
  /\ lcd_grant => app_state \in {"S_IDLE", "S_CAPTURE", "S_READ_CMD"}

\* The bridge's registers and the line in memory, as ControllerAgrees has them.
CommandOK ==
  /\ app_cmd_en => app_state \in {"S_READ_WAIT", "S_ACK"}
  /\ app_wren => app_cmd_en
  /\ app_state = "S_READ_WAIT" /\ app_cmd_en =>
       app_cmd = "read" /\ app_addr = app_req.line /\ ddr_cmd_rdy
  /\ app_state = "S_WRITE_CMD" => app_req.we /\ line = ddr_mem[app_req.line]
  /\ app_state = "S_ACK" =>
       IF app_req.we
       THEN /\ app_cmd_en /\ app_wren /\ app_cmd = "write" /\ app_addr = app_req.line
            /\ ddr_cmd_rdy /\ ddr_data_rdy
            /\ app_data = merge_word(ddr_mem[app_req.line], app_req.word, app_req.dat_w, app_req.sel)
       ELSE ~app_cmd_en

PortInv == TypeOK /\ ArbTypeOK /\ Handshake /\ QueueOK /\ GrantOK /\ CommandOK

----------------------------------------------------------------------------
\* The queue.

\* What Append, Head and Tail make of queues of at most two.
LEMMA ShortQueues ==
  ASSUME NEW S, NEW x \in S, NEW y \in S
  PROVE  /\ Append(<<>>, x) = <<x>> /\ Append(<<x>>, y) = <<x, y>>
         /\ Head(<<x>>) = x /\ Tail(<<x>>) = <<>>
         /\ Head(<<x, y>>) = x /\ Tail(<<x, y>>) = <<y>>
         /\ <<x>> # <<>> /\ <<x, y>> # <<>>
<1>1. Append(<<>>, x) = <<x>>
  OBVIOUS
<1>2. Append(<<x>>, y) = <<x, y>>
  <2>1. <<x>> \in Seq(S) /\ <<x, y>> \in Seq(S)
    OBVIOUS
  <2>2. /\ Append(<<x>>, y) \in Seq(S) /\ Len(Append(<<x>>, y)) = 2
        /\ Append(<<x>>, y)[1] = x /\ Append(<<x>>, y)[2] = y
    BY <2>1, AppendProperties
  <2>3. Len(<<x, y>>) = 2 /\ <<x, y>>[1] = x /\ <<x, y>>[2] = y
    OBVIOUS
  <2> DEFINE s == Append(<<x>>, y)
             t == <<x, y>>
  <2>4. \A i \in 1..2 : i = 1 \/ i = 2
    OBVIOUS
  <2>5. s \in Seq(S) /\ t \in Seq(S) /\ Len(s) = Len(t) /\ \A i \in 1..Len(s) : s[i] = t[i]
    BY <2>1, <2>2, <2>3, <2>4
  <2> HIDE DEF s, t
  <2>6. s = t
    BY <2>5, SeqEqual
  <2> QED
    BY <2>6 DEF s, t
<1>3. Head(<<x>>) = x /\ Tail(<<x>>) = <<>>
  OBVIOUS
<1>4. Head(<<x, y>>) = x
  OBVIOUS
<1>5. Tail(<<x, y>>) = <<y>>
  OBVIOUS
<1>6. <<x>> # <<>> /\ <<x, y>> # <<>>
  OBVIOUS
<1> QED
  BY <1>1, <1>2, <1>3, <1>4, <1>5, <1>6

\* The first of the queue leaves it: the LCD's, if it has one there.
LEMMA QueueLeave ==
  ASSUME NEW rd, NEW ow, NEW lcd, NEW cpu, NEW y \in LineData,
         Queue(rd, ow, lcd, cpu, y), rd # <<>>
  PROVE  /\ lcd # 0 => Queue(Tail(rd), Tail(ow), 0, cpu, y) /\ Head(ow) = "lcd"
         /\ lcd = 0 => cpu = 1 /\ Queue(Tail(rd), Tail(ow), 0, 0, y) /\ Head(ow) = "cpu" /\ Head(rd) = y
<1> DEFINE M == {"lcd", "cpu"}
<1>1. "lcd" \in M /\ "cpu" \in M
  OBVIOUS
<1>2. CASE lcd = 0 /\ cpu = 1
  <2>1. rd = <<y>> /\ ow = <<"cpu">>
    BY <1>2 DEF Queue
  <2>2. Head(rd) = y /\ Tail(rd) = <<>>
    BY <2>1, ShortQueues
  <2>3. Head(ow) = "cpu" /\ Tail(ow) = <<>>
    BY <1>1, <2>1, ShortQueues
  <2> QED
    BY <1>2, <2>2, <2>3 DEF Queue
<1>3. CASE lcd = 1 /\ cpu = 0
  <2>1. PICK x \in LineData : rd = <<x>>
    BY <1>3 DEF Queue
  <2>2. Tail(rd) = <<>>
    BY <2>1, ShortQueues
  <2>3. ow = <<"lcd">>
    BY <1>3 DEF Queue
  <2>4. Head(ow) = "lcd" /\ Tail(ow) = <<>>
    BY <1>1, <2>3, ShortQueues
  <2> QED
    BY <1>3, <2>2, <2>4 DEF Queue
<1>4. CASE lcd = 1 /\ cpu = 1
  <2>1. PICK x \in LineData : rd = <<x, y>>
    BY <1>4 DEF Queue
  <2>2. Tail(rd) = <<y>>
    BY <2>1, ShortQueues
  <2>3. ow = <<"lcd", "cpu">>
    BY <1>4 DEF Queue
  <2>4. Head(ow) = "lcd" /\ Tail(ow) = <<"cpu">>
    BY <1>1, <2>3, ShortQueues
  <2> QED
    BY <1>4, <2>2, <2>4 DEF Queue
<1> QED
  BY <1>2, <1>3, <1>4 DEF Queue

\* A read of each master joins it.
LEMMA QueueJoin ==
  ASSUME NEW rd, NEW ow, NEW lcd, NEW y, NEW x \in LineData,
         Queue(rd, ow, lcd, 0, y)
  PROVE  /\ lcd = 0 => Queue(Append(rd, x), Append(ow, "lcd"), 1, 0, y)
         /\ Queue(Append(rd, x), Append(ow, "cpu"), lcd, 1, x)
<1> DEFINE M == {"lcd", "cpu"}
<1>1. "lcd" \in M /\ "cpu" \in M
  OBVIOUS
<1>2. CASE lcd = 0
  BY <1>1, <1>2, ShortQueues DEF Queue
<1>3. CASE lcd = 1
  <2>1. PICK z \in LineData : rd = <<z>>
    BY <1>3 DEF Queue
  <2>2. Append(rd, x) = <<z, x>>
    BY <2>1, ShortQueues
  <2>3. ow = <<"lcd">>
    BY <1>3 DEF Queue
  <2>4. Append(ow, "cpu") = <<"lcd", "cpu">>
    BY <1>1, <2>3, ShortQueues
  <2> QED
    BY <1>3, <2>2, <2>4 DEF Queue
<1> QED
  BY <1>2, <1>3 DEF Queue

\* Without a read of the CPU's the queue does not depend on its line.
LEMMA QueueAny ==
  ASSUME NEW rd, NEW ow, NEW lcd, NEW y, NEW z, Queue(rd, ow, lcd, 0, y)
  PROVE  Queue(rd, ow, lcd, 0, z)
BY DEF Queue

----------------------------------------------------------------------------
\* One step of each part.

\* The APP side of a step: bridge FSM, DMA, arbiter and controller tick
\* together, or none of them does.
PortSide(wanted, valid) ==
  \/ PortStep(wanted, valid) /\ AppSample
  \/ UNCHANGED <<appFsm, appSync, appMeta, ddr_mem, ddr_reads, ddr_cmd_rdy, ddr_data_rdy,
                 dmaRegs, lcd_grant, inflight_lcd, ddr_owners>>

\* Every step of the port is a pair of sides.
LEMMA PortSides ==
  ASSUME [PortNext]_portVars
  PROVE  \E r \in Requests \union {NoRequest}, wanted \in BOOLEAN, valid \in BOOLEAN :
           BusSide(r) /\ PortSide(wanted, valid)
<1>0. /\ Inputs \subseteq Requests \union {NoRequest}
      /\ Wishes \subseteq BOOLEAN /\ Valids \subseteq BOOLEAN
  BY DEF Inputs, Wishes, Valids
<1>1. ASSUME NEW r \in Inputs, NEW lock \in Locks, PortBusEdge(r, lock)
      PROVE  BusSide(r) /\ PortSide(FALSE, FALSE)
  BY <1>1 DEF PortBusEdge, BusSide, PortSide, ddrVars, arbVars
<1>2. ASSUME NEW wanted \in Wishes, NEW valid \in Valids, PortAppEdge(wanted, valid)
      PROVE  BusSide(NoRequest) /\ PortSide(wanted, valid)
  BY <1>2 DEF PortAppEdge, BusSide, PortSide
<1>3. ASSUME NEW r \in Inputs, NEW lock \in Locks, NEW wanted \in Wishes, NEW valid \in Valids,
             PortBothEdges(r, lock, wanted, valid)
      PROVE  BusSide(r) /\ PortSide(wanted, valid)
  BY <1>3 DEF PortBothEdges, BusSide, PortSide
<1>4. CASE PortCalibrate
  BY <1>4 DEF PortCalibrate, DdrCalibrate, BusSide, PortSide, arbVars
<1>5. CASE UNCHANGED portVars
  BY <1>5 DEF portVars, bridgeVars, ddrVars, arbVars, BusSide, PortSide
<1> QED
  BY <1>0, <1>1, <1>2, <1>3, <1>4, <1>5 DEF PortNext

\* What a read beat, if there is one, means to each master.
LcdBeat(valid) == valid /\ LcdOut
CpuBeat(valid) == valid /\ ~LcdOut

\* The DMA's edge, as the arbiter sees it: it waits from the issue of a beat to
\* its return.
LEMMA DmaEffect ==
  ASSUME ArbTypeOK, GrantOK, NEW wanted \in BOOLEAN, NEW valid \in BOOLEAN, NEW calib \in BOOLEAN,
         DmaStep(calib, wanted, lcd_app_cmd_rdy, LcdBeat(valid), f_beat)
  PROVE  /\ d_st' \in DStates /\ lcd_cmd_en' \in BOOLEAN /\ f_beat' \in 0..FbBeats - 1
         /\ lcd_cmd_en' => d_st' = "D_REQ"
         /\ d_st' = "D_WAIT" <=> lcd_issue \/ (LcdOut /\ ~valid)
<1> USE DEF ArbTypeOK, GrantOK, DStates
<1>1. CASE D_IDLE(calib, wanted)
  BY <1>1 DEF D_IDLE, lcd_issue
<1>2. CASE D_REQ(calib, lcd_app_cmd_rdy)
  BY <1>2 DEF D_REQ, lcd_issue, lcd_app_cmd_rdy
<1>3. CASE D_WAIT(LcdBeat(valid), f_beat)
  BY <1>3 DEF D_WAIT, lcd_issue, LcdBeat
<1>4. CASE D_PUSH
  <2>1. NextBeat(f_beat) \in 0..FbBeats - 1
    <3>1. FbBeats \in Nat \ {0}
      BY LcdAssumption DEF FbBeats
    <3> QED
      BY <3>1 DEF NextBeat
  <2> QED
    BY <1>4, <2>1 DEF D_PUSH, lcd_issue
<1> QED
  BY <1>1, <1>2, <1>3, <1>4 DEF DmaStep

\* The counter of the LCD's beats never leaves 0 and 1, and never wraps.
LEMMA CountEffect ==
  ASSUME ArbTypeOK, GrantOK, NEW valid \in BOOLEAN, CountBeats(valid)
  PROVE  /\ inflight_lcd' \in {0, 1}
         /\ inflight_lcd' # 0 <=> lcd_issue \/ (LcdOut /\ ~valid)
         /\ lcd_issue => ~LcdOut
<1>1. lcd_issue => inflight_lcd = 0
  BY DEF lcd_issue, GrantOK, LcdOut
<1>2. (0 + 1) % 4 = 1
  OBVIOUS
<1> QED
  BY <1>1, <1>2 DEF CountBeats, ArbTypeOK, LcdOut

\* The types of what the port hands to each part.
LEMMA PortInputs ==
  ASSUME TypeOK, ArbTypeOK
  PROVE  /\ cpu_app_cmd_rdy \in BOOLEAN /\ ddr_data_rdy \in BOOLEAN /\ DdrRdata \in LineData
         /\ FbLine[f_beat] \in Line /\ app_req.line \in Line
         /\ ddr_mem[app_req.line] \in LineData /\ ddr_mem[FbLine[f_beat]] \in LineData
<1>1. FbLine[f_beat] \in Line
  BY FbLineAssumption DEF ArbTypeOK
<1>2. app_req.line \in Line
  BY DEF TypeOK, AppTypeOK, Request
<1>3. DdrRdata \in LineData
  BY ResetTypes DEF DdrRdata, TypeOK, DdrTypeOK
<1> QED
  BY <1>1, <1>2, <1>3 DEF TypeOK, DdrTypeOK, ArbTypeOK, cpu_app_cmd_rdy

\* To the bridge's FSM the shared port is a port like any other.
LEMMA PortFsmSide ==
  ASSUME TypeOK, ArbTypeOK, NEW wanted \in BOOLEAN, NEW valid \in BOOLEAN, PortSide(wanted, valid)
  PROVE  FsmSide
<1>1. CASE PortStep(wanted, valid) /\ AppSample
  <2>1. AppStep(cpu_app_cmd_rdy, ddr_data_rdy, CpuBeat(valid), DdrRdata)
    BY <1>1 DEF PortStep, CpuBeat, LcdOut
  <2>2. CpuBeat(valid) \in BOOLEAN
    BY DEF CpuBeat
  <2> QED
    BY <1>1, <2>1, <2>2, PortInputs DEF FsmSide, FsmEdge
<1>2. CASE UNCHANGED <<appFsm, appSync, appMeta>>
  BY <1>2 DEF FsmSide
<1> QED
  BY <1>1, <1>2 DEF PortSide

\* The registers of bridge and controller keep their types.
LEMMA PortTypeStep ==
  ASSUME TypeOK, ArbTypeOK, [PortNext]_portVars
  PROVE  TypeOK'
<1>1. PICK r \in Requests \union {NoRequest}, wanted \in BOOLEAN, valid \in BOOLEAN :
        BusSide(r) /\ PortSide(wanted, valid)
  BY PortSides
<1>2. BusTypeOK'
  <2>1. CASE BusStep(r) /\ BusSample
    BY <2>1, BusEdgeType
  <2>2. CASE UNCHANGED <<busRegs, busMeta>>
    BY <2>2 DEF busRegs, busMeta, TypeOK, BusTypeOK
  <2> QED
    BY <1>1, <2>1, <2>2 DEF BusSide
<1>3. AppTypeOK'
  <2>1. CASE FsmEdge
    BY <2>1, AppEdgeType DEF FsmEdge
  <2>2. CASE UNCHANGED <<appFsm, appSync, appMeta>>
    BY <2>2 DEF appFsm, appSync, appMeta, TypeOK, AppTypeOK
  <2> QED
    BY <1>1, <2>1, <2>2, PortFsmSide DEF FsmSide
<1>4. /\ ddr_mem' \in [Line -> LineData] /\ ddr_reads' \in Seq(LineData)
      /\ ddr_cmd_rdy' \in BOOLEAN /\ ddr_data_rdy' \in BOOLEAN
  <2>1. CASE PortStep(wanted, valid)
    <3>1. app_addr \in Line /\ app_data \in LineData /\ (valid => ddr_reads # <<>>)
      BY <2>1 DEF PortStep, TypeOK, AppTypeOK
    <3>2. DdrTypeOK'
      BY <2>1, <3>1, PortInputs, DdrEdgeType DEF PortStep, PortDdr
    <3> QED
      BY <3>2 DEF DdrTypeOK
  <2>2. CASE UNCHANGED <<ddr_mem, ddr_reads, ddr_cmd_rdy, ddr_data_rdy>>
    BY <2>2 DEF TypeOK, DdrTypeOK
  <2> QED
    BY <1>1, <2>1, <2>2 DEF PortSide
<1>5. init_calib_complete' \in BOOLEAN
  BY DEF PortNext, PortBusEdge, PortAppEdge, PortBothEdges, PortCalibrate, PortStep, PortDdr,
         DdrStep, DdrCalibrate, ddrVars, portVars, bridgeVars, TypeOK, DdrTypeOK
<1> QED
  BY <1>2, <1>3, <1>4, <1>5 DEF TypeOK, DdrTypeOK

\* The arbiter and the DMA keep in step, and a grant never meets a command of
\* the bridge.
LEMMA GrantStep ==
  ASSUME TypeOK, ArbTypeOK, GrantOK, NEW wanted \in BOOLEAN, NEW valid \in BOOLEAN,
         PortStep(wanted, valid)
  PROVE  ArbTypeOK' /\ GrantOK'
<1>1. DmaStep(init_calib_complete, wanted, lcd_app_cmd_rdy, LcdBeat(valid), f_beat)
  BY DEF PortStep, LcdBeat, LcdOut
<1>2. init_calib_complete \in BOOLEAN
  BY DEF TypeOK, DdrTypeOK
<1>3. /\ d_st' \in DStates /\ lcd_cmd_en' \in BOOLEAN /\ f_beat' \in 0..FbBeats - 1
      /\ lcd_cmd_en' => d_st' = "D_REQ"
      /\ d_st' = "D_WAIT" <=> lcd_issue \/ (LcdOut /\ ~valid)
  BY <1>1, <1>2, DmaEffect
<1>4. /\ inflight_lcd' \in {0, 1}
      /\ inflight_lcd' # 0 <=> lcd_issue \/ (LcdOut /\ ~valid)
  BY CountEffect DEF PortStep
<1>5. lcd_grant' \in BOOLEAN
  BY DEF PortStep, Grant
<1>6. AppStep(cpu_app_cmd_rdy, ddr_data_rdy, CpuBeat(valid), DdrRdata)
  BY DEF PortStep, CpuBeat, LcdOut
<1>7. lcd_grant' => app_state' \in {"S_IDLE", "S_CAPTURE", "S_READ_CMD"}
  <2>1. CASE lcd_grant
    <3>1. ~cpu_app_cmd_rdy /\ app_state \in {"S_IDLE", "S_CAPTURE", "S_READ_CMD"}
      BY <2>1 DEF cpu_app_cmd_rdy, GrantOK
    <3> QED
      BY <1>6, <3>1 DEF AppStep, S_IDLE, S_CAPTURE, S_READ_CMD, S_READ_WAIT, S_WRITE_CMD, S_ACK
  <2>2. CASE ~lcd_grant /\ lcd_grant'
    <3>1. app_idle
      BY <2>2 DEF PortStep, Grant
    <3> QED
      BY <1>6, <3>1 DEF app_idle, AppStep, S_IDLE, S_CAPTURE, S_READ_CMD, S_READ_WAIT, S_WRITE_CMD, S_ACK
  <2> QED
    BY <2>1, <2>2
<1> QED
  BY <1>3, <1>4, <1>5, <1>7 DEF ArbTypeOK, GrantOK, LcdOut

\* The bridge's read command reaches the controller in this step.
CpuIssue == app_state = "S_READ_WAIT" /\ app_cmd_en

\* What the controller does with the bridge's commands: only S_ACK writes, and
\* a ready line that a command was registered for stays up.
LEMMA PortMemory ==
  ASSUME TypeOK, ArbTypeOK, GrantOK, CommandOK, NEW wanted \in BOOLEAN, NEW valid \in BOOLEAN,
         PortStep(wanted, valid)
  PROVE  /\ ddr_mem' = IF app_state = "S_ACK" /\ app_req.we
                       THEN [ddr_mem EXCEPT ![app_req.line] = app_data] ELSE ddr_mem
         /\ app_state = "S_READ_CMD" /\ cpu_app_cmd_rdy => ddr_cmd_rdy'
         /\ app_state = "S_WRITE_CMD" /\ cpu_app_cmd_rdy /\ ddr_data_rdy => ddr_cmd_rdy' /\ ddr_data_rdy'
<1>1. CASE lcd_grant
  <2>1. ~(app_state = "S_ACK") /\ app_state # "S_WRITE_CMD" /\ ~cpu_app_cmd_rdy
    BY <1>1 DEF GrantOK, cpu_app_cmd_rdy
  <2>2. DdrStep(lcd_cmd_en, "read", FbLine[f_beat], app_wren, app_data, valid)
    BY <1>1 DEF PortStep, PortDdr
  <2>3. ddr_mem' = ddr_mem
    BY <2>2 DEF DdrStep
  <2> QED
    BY <2>1, <2>3
<1>2. CASE ~lcd_grant
  <2>1. DdrStep(app_cmd_en, app_cmd, app_addr, app_wren, app_data, valid)
    BY <1>2 DEF PortStep, PortDdr
  <2>2. CASE app_state = "S_ACK" /\ app_req.we
    BY <2>1, <2>2 DEF DdrStep, DdrTakes, CommandOK
  <2>3. CASE ~(app_state = "S_ACK" /\ app_req.we)
    <3>1. app_cmd_en => app_cmd = "read"
      BY <2>3 DEF CommandOK
    <3>2. ddr_mem' = ddr_mem
      BY <2>1, <3>1 DEF DdrStep, DdrTakes
    <3>3. app_state \in {"S_READ_CMD", "S_WRITE_CMD"} => ~app_cmd_en /\ ~app_wren
      BY DEF CommandOK
    <3>4. app_state \in {"S_READ_CMD", "S_WRITE_CMD"} =>
            (ddr_cmd_rdy => ddr_cmd_rdy') /\ (ddr_data_rdy => ddr_data_rdy')
      BY <2>1, <3>3 DEF DdrStep, DdrTakes
    <3> QED
      BY <2>3, <3>2, <3>4 DEF cpu_app_cmd_rdy
  <2> QED
    BY <2>2, <2>3
<1> QED
  BY <1>1, <1>2

\* The queue after the beat that returns, if any, has left it.
LEMMA QueueRest ==
  ASSUME TypeOK, ArbTypeOK, QueueOK, NEW valid \in BOOLEAN, valid => ddr_reads # <<>>
  PROVE  /\ Queue(IF valid THEN Tail(ddr_reads) ELSE ddr_reads,
                  IF valid THEN Tail(ddr_owners) ELSE ddr_owners,
                  IF LcdOut /\ ~valid THEN 1 ELSE 0, IF CpuOut /\ ~CpuBeat(valid) THEN 1 ELSE 0,
                  ddr_mem[app_req.line])
         /\ CpuBeat(valid) => CpuOut /\ DdrRdata = ddr_mem[app_req.line]
<1> DEFINE y == ddr_mem[app_req.line]
<1>1. y \in LineData /\ Queue(ddr_reads, ddr_owners, inflight_lcd, inflight_cpu, y)
  BY PortInputs DEF QueueOK
<1> HIDE DEF y
<1>2. CASE valid
  <2>1. /\ LcdOut => Queue(Tail(ddr_reads), Tail(ddr_owners), 0, inflight_cpu, y)
        /\ ~LcdOut => inflight_cpu = 1 /\ Queue(Tail(ddr_reads), Tail(ddr_owners), 0, 0, y)
                      /\ Head(ddr_reads) = y
    BY <1>1, <1>2, QueueLeave DEF LcdOut
  <2> QED
    BY <1>2, <2>1 DEF CpuBeat, DdrRdata, inflight_cpu, y
<1>3. CASE ~valid
  BY <1>1, <1>3 DEF CpuBeat, y, LcdOut, inflight_cpu, ArbTypeOK
<1> QED
  BY <1>2, <1>3

\* The bridge's FSM has a read out from its issue to the return of its line.
LEMMA CpuOutEffect ==
  ASSUME TypeOK, ArbTypeOK, QueueOK, GrantOK, CommandOK, NEW wanted \in BOOLEAN, NEW valid \in BOOLEAN,
         PortStep(wanted, valid)
  PROVE  /\ CpuOut' <=> CpuIssue \/ (CpuOut /\ ~CpuBeat(valid))
         /\ CpuOut' => app_req' = app_req /\ ddr_mem' = ddr_mem
         /\ CpuIssue => ~CpuBeat(valid) /\ ~lcd_grant
<1>1. valid => ddr_reads # <<>>
  BY DEF PortStep
<1>2. CpuBeat(valid) => CpuOut
  BY <1>1, QueueRest
<1>3. AppStep(cpu_app_cmd_rdy, ddr_data_rdy, CpuBeat(valid), DdrRdata)
  BY DEF PortStep, CpuBeat, LcdOut
<1>4. CASE app_state = "S_READ_WAIT"
  <2>1. S_READ_WAIT(CpuBeat(valid), DdrRdata)
    BY <1>3, <1>4 DEF AppStep, S_IDLE, S_CAPTURE, S_READ_CMD, S_WRITE_CMD, S_ACK
  <2>2. ddr_mem' = ddr_mem
    BY <1>4, PortMemory
  <2> QED
    BY <1>2, <1>4, <2>1, <2>2 DEF S_READ_WAIT, CpuOut, CpuIssue, GrantOK
<1>5. CASE app_state # "S_READ_WAIT"
  BY <1>3, <1>5 DEF AppStep, S_IDLE, S_CAPTURE, S_READ_CMD, S_READ_WAIT, S_WRITE_CMD, S_ACK, CpuOut, CpuIssue
<1> QED
  BY <1>4, <1>5

\* Reads join and leave the queue in step with the two masters.
LEMMA QueueStep ==
  ASSUME TypeOK, ArbTypeOK, QueueOK, GrantOK, CommandOK, NEW wanted \in BOOLEAN, NEW valid \in BOOLEAN,
         PortStep(wanted, valid)
  PROVE  QueueOK'
<1> DEFINE y == ddr_mem[app_req.line]
           rd == IF valid THEN Tail(ddr_reads) ELSE ddr_reads
           ow == IF valid THEN Tail(ddr_owners) ELSE ddr_owners
           lcd == IF LcdOut /\ ~valid THEN 1 ELSE 0
           cpu == IF CpuOut /\ ~CpuBeat(valid) THEN 1 ELSE 0
<1>1. (valid => ddr_reads # <<>>) /\ CountBeats(valid) /\ TrackOwners(valid)
  BY DEF PortStep
<1>2. Queue(rd, ow, lcd, cpu, y) /\ y \in LineData
  BY <1>1, QueueRest, PortInputs
<1>3. /\ inflight_lcd' \in {0, 1}
      /\ inflight_lcd' # 0 <=> lcd_issue \/ (LcdOut /\ ~valid)
      /\ lcd_issue => ~LcdOut
  BY <1>1, CountEffect
<1>4. /\ CpuOut' <=> CpuIssue \/ (CpuOut /\ ~CpuBeat(valid))
      /\ CpuOut' => app_req' = app_req /\ ddr_mem' = ddr_mem
      /\ CpuIssue => ~CpuBeat(valid) /\ ~lcd_grant
  BY CpuOutEffect
<1>5. CpuOut' => ddr_mem'[app_req'.line] = y
  BY <1>4
<1>6. CASE lcd_issue
  <2>1. lcd_grant /\ lcd_cmd_en /\ ddr_cmd_rdy
    BY <1>6 DEF lcd_issue, lcd_app_cmd_rdy
  <2>2. ~CpuOut /\ ~CpuIssue
    BY <2>1 DEF CpuOut, CpuIssue, GrantOK
  <2>3. ddr_reads' = Append(rd, ddr_mem[FbLine[f_beat]]) /\ ddr_owners' = Append(ow, "lcd")
    BY <1>1, <1>6, <2>1 DEF PortStep, PortDdr, DdrStep, DdrTakes, TrackOwners
  <2>4. lcd = 0 /\ cpu = 0 /\ inflight_lcd' = 1 /\ inflight_cpu' = 0
    BY <1>3, <1>4, <1>6, <2>2 DEF inflight_cpu
  <2> HIDE DEF y, rd, ow, lcd, cpu
  <2>5. Queue(rd, ow, 0, 0, y)
    BY <1>2, <2>4
  <2>6. Queue(Append(rd, ddr_mem[FbLine[f_beat]]), Append(ow, "lcd"), 1, 0, y)
    BY <2>5, QueueJoin, PortInputs
  <2>7. Queue(ddr_reads', ddr_owners', 1, 0, ddr_mem'[app_req'.line])
    BY <2>3, <2>6, QueueAny
  <2> QED
    BY <2>4, <2>7 DEF QueueOK, Queue
<1>7. CASE CpuIssue
  <2>1. ~lcd_grant /\ ~lcd_issue /\ app_cmd = "read" /\ app_addr = app_req.line /\ ddr_cmd_rdy
    BY <1>4, <1>7 DEF lcd_issue, CpuIssue, CommandOK
  <2>2. ddr_reads' = Append(rd, y) /\ ddr_owners' = Append(ow, "cpu")
    BY <1>1, <1>7, <2>1 DEF CpuIssue, PortStep, PortDdr, DdrStep, DdrTakes, TrackOwners
  <2>3. cpu = 0 /\ inflight_lcd' = lcd /\ inflight_cpu' = 1
    BY <1>3, <1>4, <1>7, <2>1 DEF inflight_cpu, CpuIssue, CpuOut
  <2>4. ddr_mem'[app_req'.line] = y
    BY <1>4, <1>5, <1>7
  <2> HIDE DEF y, rd, ow, lcd, cpu
  <2>5. Queue(rd, ow, lcd, 0, y)
    BY <1>2, <2>3
  <2>6. Queue(Append(rd, y), Append(ow, "cpu"), lcd, 1, y)
    BY <1>2, <2>5, QueueJoin
  <2> QED
    BY <2>2, <2>3, <2>4, <2>6 DEF QueueOK, Queue
<1>8. CASE ~lcd_issue /\ ~CpuIssue
  <2>1. ~lcd_grant => ~(app_cmd = "read" /\ DdrTakes(app_cmd_en, app_cmd, app_wren))
    BY <1>8 DEF CpuIssue, CommandOK, DdrTakes
  <2>2. ddr_reads' = rd /\ ddr_owners' = ow
    <3>1. CASE lcd_grant
      BY <1>1, <1>8, <3>1 DEF lcd_issue, lcd_app_cmd_rdy, PortStep, PortDdr, DdrStep, DdrTakes, TrackOwners
    <3>2. CASE ~lcd_grant
      BY <1>1, <1>8, <2>1, <3>2 DEF PortStep, PortDdr, DdrStep, TrackOwners
    <3> QED
      BY <3>1, <3>2
  <2>3. inflight_lcd' = lcd /\ inflight_cpu' = cpu
    BY <1>3, <1>4, <1>8 DEF inflight_cpu
  <2>4. CASE CpuOut'
    <3>1. ddr_mem'[app_req'.line] = y
      BY <1>5, <2>4
    <3> HIDE DEF y, rd, ow, lcd, cpu
    <3> QED
      BY <1>2, <2>2, <2>3, <3>1 DEF QueueOK, Queue
  <2>5. CASE ~CpuOut'
    <3>1. cpu = 0
      BY <2>3, <2>5 DEF inflight_cpu
    <3> HIDE DEF y, rd, ow, lcd, cpu
    <3>2. Queue(rd, ow, lcd, 0, ddr_mem'[app_req'.line])
      BY <1>2, <3>1, QueueAny
    <3> QED
      BY <2>2, <2>3, <3>1, <3>2 DEF QueueOK, Queue
  <2> QED
    BY <2>4, <2>5
<1> QED
  BY <1>6, <1>7, <1>8

\* The bridge's registers keep agreeing with memory, and all it does to memory
\* and to its answer is what it did with a port of its own.
LEMMA CommandStep ==
  ASSUME TypeOK, ArbTypeOK, QueueOK, GrantOK, CommandOK, NEW wanted \in BOOLEAN, NEW valid \in BOOLEAN,
         PortStep(wanted, valid)
  PROVE  CommandOK' /\ AbstractEffect
<1> DEFINE L == app_req.line
<1>1. AppStep(cpu_app_cmd_rdy, ddr_data_rdy, CpuBeat(valid), DdrRdata)
  BY DEF PortStep, CpuBeat, LcdOut
<1>2. /\ ddr_mem' = IF app_state = "S_ACK" /\ app_req.we
                    THEN [ddr_mem EXCEPT ![L] = app_data] ELSE ddr_mem
      /\ app_state = "S_READ_CMD" /\ cpu_app_cmd_rdy => ddr_cmd_rdy'
      /\ app_state = "S_WRITE_CMD" /\ cpu_app_cmd_rdy /\ ddr_data_rdy => ddr_cmd_rdy' /\ ddr_data_rdy'
  BY PortMemory
<1>3. CpuBeat(valid) => CpuOut /\ DdrRdata = ddr_mem[L]
  BY QueueRest DEF PortStep
<1>4. ddr_cmd_rdy' \in BOOLEAN /\ cpu_app_cmd_rdy \in BOOLEAN /\ ddr_data_rdy \in BOOLEAN
  BY PortInputs DEF PortStep, PortDdr, DdrStep, DdrTakes
<1> USE DEF AbstractEffect, Nothing, LineBack, ReadDone, WriteDone
<1>5. CASE S_IDLE
  BY <1>2, <1>5 DEF S_IDLE, CommandOK
<1>6. CASE S_CAPTURE
  BY <1>2, <1>6 DEF S_CAPTURE, CommandOK
<1>7. CASE S_READ_CMD(cpu_app_cmd_rdy)
  BY <1>2, <1>7 DEF S_READ_CMD, CommandOK
<1>8. CASE S_READ_WAIT(CpuBeat(valid), DdrRdata)
  BY <1>2, <1>3, <1>8 DEF S_READ_WAIT, CommandOK
<1>9. CASE S_WRITE_CMD(cpu_app_cmd_rdy, ddr_data_rdy)
  <2>1. app_req.we /\ line = ddr_mem[L] /\ ddr_mem' = ddr_mem
    BY <1>2, <1>9 DEF S_WRITE_CMD, CommandOK
  <2>2. app_data' = merge_word(ddr_mem[L], app_req.word, app_req.dat_w, app_req.sel)
    BY <1>9, <2>1 DEF S_WRITE_CMD
  <2>3. merge_word(ddr_mem[L], app_req.word, app_req.dat_w, app_req.sel)
        = merge_word(ddr_mem[L], app_req.word, app_req.dat_w, app_req.sel)'
    BY <1>9, <2>1 DEF S_WRITE_CMD, merge_word
  <2> QED
    BY <1>2, <1>9, <2>1, <2>2, <2>3 DEF S_WRITE_CMD, CommandOK
<1>10. CASE S_ACK
  <2>1. CommandOK'
    BY <1>10 DEF S_ACK, CommandOK
  <2>2. CASE app_req.we
    <3>1. ddr_mem' = [ddr_mem EXCEPT ![L] = app_data]
      BY <1>2, <1>10, <2>2 DEF S_ACK
    <3>2. app_data = merge_word(ddr_mem[L], app_req.word, app_req.dat_w, app_req.sel)
      BY <1>10, <2>2 DEF S_ACK, CommandOK
    <3> QED
      BY <1>10, <2>1, <2>2, <3>1, <3>2 DEF S_ACK
  <2>3. CASE ~app_req.we
    BY <1>2, <1>10, <2>1, <2>3 DEF S_ACK
  <2> QED
    BY <2>2, <2>3
<1> QED
  BY <1>1, <1>5, <1>6, <1>7, <1>8, <1>9, <1>10 DEF AppStep

----------------------------------------------------------------------------

\* After reset nothing is out, in either direction and for either master.
LEMMA PortInitInv == PortInit => PortInv
<1> SUFFICES ASSUME PortInit PROVE PortInv
  OBVIOUS
<1>1. TypeOK
  BY InitType DEF PortInit
<1>2. Handshake
  BY InvInit DEF PortInit, BridgeInv
<1>3. ArbTypeOK
  <2>1. FbBeats \in Nat \ {0}
    BY LcdAssumption DEF FbBeats
  <2>2. 0 \in 0..FbBeats - 1
    BY <2>1
  <2> QED
    BY <2>2 DEF PortInit, DmaInit, ArbTypeOK, DStates
<1>4. QueueOK
  BY DEF PortInit, BridgeInit, DdrInit, QueueOK, Queue, inflight_cpu, CpuOut
<1>5. GrantOK /\ CommandOK
  BY DEF PortInit, BridgeInit, DmaInit, GrantOK, LcdOut, CommandOK
<1> QED
  BY <1>1, <1>2, <1>3, <1>4, <1>5 DEF PortInv

\* Every step of the shared port keeps the invariant and refines the word memory.
LEMMA PortInvStep ==
  PortInv /\ [PortNext]_portVars => PortInv' /\ [Memory!Next]_(Memory!wmVars)
<1> SUFFICES ASSUME PortInv, [PortNext]_portVars
             PROVE  PortInv' /\ (Memory!Next \/ UNCHANGED Memory!wmVars)
  OBVIOUS
<1> USE DEF PortInv
<1>1. PICK r \in Requests \union {NoRequest}, wanted \in BOOLEAN, valid \in BOOLEAN :
        BusSide(r) /\ PortSide(wanted, valid)
  BY PortSides
<1>2. TypeOK' /\ FsmSide
  BY <1>1, PortTypeStep, PortFsmSide
<1>3. Handshake'
  BY <1>1, <1>2, HandshakeStep
<1>4. ArbTypeOK' /\ GrantOK' /\ QueueOK' /\ CommandOK' /\ AbstractEffect
  <2>1. CASE PortStep(wanted, valid)
    BY <2>1, GrantStep, QueueStep, CommandStep
  <2>2. CASE UNCHANGED <<appFsm, appSync, appMeta, ddr_mem, ddr_reads, ddr_cmd_rdy, ddr_data_rdy,
                         dmaRegs, lcd_grant, inflight_lcd, ddr_owners>>
    <3>1. ArbTypeOK' /\ GrantOK'
      BY <2>2 DEF appFsm, dmaRegs, ArbTypeOK, GrantOK, LcdOut
    <3>2. QueueOK'
      BY <2>2 DEF appFsm, QueueOK, Queue, inflight_cpu, CpuOut
    <3>3. CommandOK'
      BY <2>2 DEF appFsm, CommandOK, merge_word
    <3>4. AbstractEffect
      BY <2>2 DEF appFsm, AbstractEffect, Nothing
    <3> QED
      BY <3>1, <3>2, <3>3, <3>4
  <2> QED
    BY <1>1, <2>1, <2>2 DEF PortSide
<1>5. Memory!Next \/ UNCHANGED Memory!wmVars
  BY <1>1, <1>2, <1>4, SidesRefine
<1> QED
  BY <1>2, <1>3, <1>4, <1>5

\* The invariant of bridge, DMA, arbiter and controller together.
THEOREM PortInvariant == PortSpec => []PortInv
<1>1. PortInv /\ [PortNext]_portVars => PortInv'
  BY PortInvStep
<1> QED
  BY <1>1, PortInitInv, PTL DEF PortSpec

\* Every read beat reaches the master that asked for it, in the state that
\* takes it, however grants, the lock and late beats meet.
THEOREM BeatsReachOwners == PortSpec => []BeatsReachTheirOwner
<1>1. PortInv => BeatsReachTheirOwner
  <2> SUFFICES ASSUME PortInv, ddr_owners # <<>>
               PROVE  IF inflight_lcd # 0
                      THEN Head(ddr_owners) = "lcd" /\ d_st = "D_WAIT"
                      ELSE Head(ddr_owners) = "cpu" /\ app_state = "S_READ_WAIT"
    BY DEF BeatsReachTheirOwner
  <2>1. /\ Queue(ddr_reads, ddr_owners, inflight_lcd, inflight_cpu, ddr_mem[app_req.line])
        /\ ddr_mem[app_req.line] \in LineData
    BY PortInputs DEF PortInv, QueueOK
  <2>2. ddr_reads # <<>>
    BY <2>1, ShortQueues DEF Queue
  <2>3. /\ inflight_lcd # 0 => Head(ddr_owners) = "lcd"
        /\ inflight_lcd = 0 => inflight_cpu = 1 /\ Head(ddr_owners) = "cpu"
    BY <2>1, <2>2, QueueLeave
  <2> QED
    BY <2>3 DEF PortInv, GrantOK, LcdOut, inflight_cpu, CpuOut
<1> QED
  BY <1>1, PortInvariant, PTL

\* The CPU has the same word memory when it shares the port with the LCD.
THEOREM PortImplementsMemory == PortSpec => PortImplementsWordMemory
<1>1. PortInit => Memory!Init
  BY RefInit DEF PortInit
<1>2. PortInv /\ [PortNext]_portVars => [Memory!Next]_(Memory!wmVars)
  BY PortInvStep
<1> QED
  BY <1>1, <1>2, PortInvariant, PTL DEF PortSpec, PortImplementsWordMemory, Memory!Spec
=============================================================================
