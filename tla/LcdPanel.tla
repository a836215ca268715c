----------------------------- MODULE LcdPanel ------------------------------
(***************************************************************************)
(* The LCD framebuffer DMA together with the panel it feeds                *)
(* (src/rtl/peripheral/lcd_dma.sv, vga_timing.sv).                         *)
(*                                                                         *)
(* The DMA fills one line buffer in the app_clk domain while the panel     *)
(* shows the other in the pix_clk domain; a request toggle and an          *)
(* acknowledge toggle swap them.  app_clk is more than ten times as fast   *)
(* as pix_clk (src/rtl/top.v); the model only uses that at least one       *)
(* app_clk edge falls between two pix_clk edges.                           *)
(***************************************************************************)
EXTENDS LcdDma

CONSTANTS
  HFp, HBlank, \* H_FP, and H_FP + H_SYNC + H_BP
  VBlank       \* V_FP + V_SYNC + V_BP

ASSUME PanelAssumption ==
  {HFp, VBlank} \subseteq Nat \ {0} /\ HBlank \in Nat /\ HFp < HBlank

HTotal == HBlank + LcdW
VTotal == VBlank + Rows

VARIABLES
  h_cnt, v_cnt, h_active, v_active, active_x, de_d,       \* vga_timing
  show_sel, line_req_toggle, line_ack_p1, line_ack_p2, line_ack_seen,
  line_req_a1,
  lines,        \* the line RAMs: lines[0] is lineA, lines[1] is lineB
  app_ticked,   \* an app_clk edge has happened since the last pix_clk edge
  calib         \* init_calib_complete

vgaVars == <<h_cnt, v_cnt, h_active, v_active, active_x, de_d>>
panelRegs == <<show_sel, line_req_toggle, line_ack_p2, line_ack_seen>>
lcdVars == <<vgaVars, panelRegs, line_ack_p1, dmaRegs, line_req_a1, line_req_a2, lines,
             app_ticked, calib>>

\* Panel timing and the swap.

PanelInit ==
  /\ h_cnt = 0 /\ v_cnt = 0 /\ h_active = FALSE /\ v_active = FALSE
  /\ active_x = 0 /\ de_d = FALSE
  /\ show_sel = 0 /\ line_req_toggle = 0 /\ line_ack_seen = 0
  /\ line_ack_p1 = 0 /\ line_ack_p2 = 0

de == h_active /\ v_active
line_pulse == de /\ ~de_d
new_line_ready == line_ack_p2 # line_ack_seen

VgaStep ==
  /\ h_cnt' = (h_cnt + 1) % HTotal
  /\ v_cnt' = IF h_cnt = HFp - 1 THEN (v_cnt + 1) % VTotal ELSE v_cnt
  /\ h_active' = (h_cnt = HBlank - 1 \/ (h_active /\ h_cnt # HTotal - 1))
  /\ v_active' = IF h_cnt # HFp - 1 THEN v_active
                 ELSE v_cnt = VBlank - 1 \/ (v_active /\ v_cnt # VTotal - 1)
  /\ active_x' = IF h_cnt >= HBlank THEN h_cnt - HBlank ELSE active_x
  /\ de_d' = de

\* Mutant: the swap does not wait for the line to be ready.
PanelSwap_unready ==
  IF line_pulse
  THEN /\ line_ack_seen' = line_ack_p2
       /\ show_sel' = 1 - show_sel
       /\ line_req_toggle' = 1 - line_req_toggle
  ELSE UNCHANGED <<line_ack_seen, show_sel, line_req_toggle>>

\* Mutant: the acknowledgement is not remembered and is adopted twice.
PanelSwap_forgets_seen ==
  IF line_pulse /\ new_line_ready
  THEN /\ show_sel' = 1 - show_sel
       /\ line_req_toggle' = 1 - line_req_toggle
       /\ UNCHANGED line_ack_seen
  ELSE UNCHANGED <<line_ack_seen, show_sel, line_req_toggle>>

\* Mutant: adopting a line does not ask for the next.
PanelSwap_no_request ==
  IF line_pulse /\ new_line_ready
  THEN line_ack_seen' = line_ack_p2 /\ show_sel' = 1 - show_sel /\ UNCHANGED line_req_toggle
  ELSE UNCHANGED <<line_ack_seen, show_sel, line_req_toggle>>

PanelSwap ==
  IF line_pulse /\ new_line_ready
  THEN /\ line_ack_seen' = line_ack_p2
       /\ show_sel' = 1 - show_sel
       /\ line_req_toggle' = 1 - line_req_toggle
  ELSE UNCHANGED <<line_ack_seen, show_sel, line_req_toggle>>

PanelStep == VgaStep /\ PanelSwap /\ line_ack_p2' = line_ack_p1

\* The pixel the panel is given in this cycle.
rd_pix == lines[show_sel][active_x]

----------------------------------------------------------------------------
\* The line-RAM write port: the registered write of the cycle before.
LineWrite ==
  lines' = IF wr_en THEN [lines EXCEPT ![fill_sel][wr_addr] = wr_data] ELSE lines

\* First stages of the two toggle synchronisers: a toggle sampled while it
\* changes settles either way.
Sample(old, new) == {old, new}

PixEdge ==
  /\ app_ticked
  /\ PanelStep
  /\ app_ticked' = FALSE
  /\ UNCHANGED <<dmaRegs, line_req_a1, line_req_a2, lines, calib>>
  /\ line_ack_p1' = line_ack_toggle

\* The DMA ticks; the APP port is ready, or answers, when it likes.
AppTick(rdy, valid) ==
  /\ DmaStep(calib, line_req_edge, rdy, valid, f_beat)
  /\ LineWrite
  /\ line_req_a2' = line_req_a1

AppEdge(rdy, valid) ==
  /\ AppTick(rdy, valid)
  /\ app_ticked' = TRUE
  /\ UNCHANGED <<vgaVars, panelRegs, line_ack_p1, calib>>
  /\ line_req_a1' = line_req_toggle

\* Both edges at once.  The pixel side still sees the registers of before.
BothEdges(rdy, valid) ==
  /\ app_ticked
  /\ PanelStep
  /\ AppTick(rdy, valid)
  /\ app_ticked' = FALSE
  /\ line_ack_p1' \in Sample(line_ack_toggle, line_ack_toggle')
  /\ line_req_a1' \in Sample(line_req_toggle, line_req_toggle')
  /\ UNCHANGED calib

Calibrate ==
  /\ ~calib /\ calib' = TRUE
  /\ UNCHANGED <<vgaVars, panelRegs, line_ack_p1, dmaRegs, line_req_a1, line_req_a2, lines, app_ticked>>

LcdInit ==
  /\ PanelInit /\ DmaInit /\ line_req_a1 = 0
  /\ lines = [b \in {0, 1} |-> [x \in 0..LcdW - 1 |-> -1]]
  /\ app_ticked = FALSE /\ calib = FALSE

LcdNext ==
  \/ PixEdge
  \/ \E rdy, valid \in BOOLEAN : AppEdge(rdy, valid) \/ BothEdges(rdy, valid)
  \/ Calibrate

LcdSpec == LcdInit /\ [][LcdNext]_lcdVars

\* Both clocks run; the APP port serves the DMA again and again.
PixelClock == PixEdge \/ \E rdy, valid \in BOOLEAN : BothEdges(rdy, valid)
ServedAppClock == AppEdge(TRUE, TRUE) \/ BothEdges(TRUE, TRUE)
LcdFairness == WF_lcdVars(Calibrate) /\ WF_lcdVars(PixelClock) /\ WF_lcdVars(ServedAppClock)

FairLcdSpec == LcdSpec /\ LcdFairness

----------------------------------------------------------------------------
\* Properties

Blank(b) == \A x \in 0..LcdW - 1 : lines[b][x] = -1
ShownLine(b) == lines[b][0] \div LcdW
Whole(b) == \A x \in 0..LcdW - 1 : lines[b][x] = ShownLine(b) * LcdW + x

\* The DMA never writes into the buffer the panel is showing, although the two
\* sides learn of a swap at different times.
NoTearing == wr_en => fill_sel # show_sel

\* What the panel shows is one whole framebuffer line (or the reset contents):
\* the last pixel, written a cycle after the acknowledge toggles, is in place.
ShownLineWhole == Blank(show_sel) \/ Whole(show_sel)

\* A swap moves on by exactly one line of the frame, and starts at the first:
\* however late the DMA is, no line is skipped and none is adopted twice.
LinesInOrder ==
  [][show_sel' # show_sel =>
       ShownLine(show_sel') = IF Blank(show_sel) THEN 0 ELSE (ShownLine(show_sel) + 1) % Rows]_lcdVars

\* The two sides never wait for each other: the panel is given a new line
\* again and again.
PanelFed == []<>(line_pulse /\ new_line_ready)
=============================================================================
