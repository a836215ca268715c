------------------------------ MODULE LcdDma -------------------------------
(***************************************************************************)
(* The app_clk side of the LCD framebuffer DMA                             *)
(* (src/rtl/peripheral/lcd_dma.sv): it reads a framebuffer line beat by    *)
(* beat from the DDR APP port and pushes its pixels into a line buffer.    *)
(* LcdPanel puts it together with the panel, AppPort with the DDR bridge.  *)
(*                                                                         *)
(* A pixel is modelled by its position in the framebuffer, so that what is *)
(* shown says where it came from.                                          *)
(***************************************************************************)
EXTENDS Integers

CONSTANTS
  LineBeats,   \* 128-bit beats of a line, LINE_BEATS
  BeatPix,     \* pixels of a beat, BEAT_PIX
  Rows         \* displayed lines, LCD_H

ASSUME LcdAssumption == {LineBeats, BeatPix, Rows} \subseteq Nat \ {0}

LcdW == LineBeats * BeatPix
FbBeats == Rows * LineBeats

VARIABLES
  d_st, lcd_cmd_en, f_beat, cap, pix_idx, beat_cnt, fill_sel,
  wr_en, wr_addr, wr_data, primed,
  line_req_a2, line_req_seen, line_ack_toggle

dmaRegs == <<d_st, lcd_cmd_en, f_beat, cap, pix_idx, beat_cnt, fill_sel,
             wr_en, wr_addr, wr_data, primed, line_req_seen, line_ack_toggle>>

DStates == {"D_IDLE", "D_REQ", "D_WAIT", "D_PUSH"}

----------------------------------------------------------------------------
\* The DMA.  rdy and valid are the APP port's inputs to it in this cycle.

DmaInit ==
  /\ d_st = "D_IDLE" /\ lcd_cmd_en = FALSE /\ f_beat = 0 /\ cap = 0
  /\ pix_idx = 0 /\ beat_cnt = 0 /\ fill_sel = 0
  /\ wr_en = FALSE /\ wr_addr = 0 /\ wr_data = 0 /\ primed = FALSE
  /\ line_req_a2 = 0 /\ line_req_seen = 0 /\ line_ack_toggle = 0

line_req_edge == line_req_a2 # line_req_seen

D_IDLE(calib, wanted) ==
  /\ d_st = "D_IDLE"
  /\ lcd_cmd_en' = FALSE /\ wr_en' = FALSE
  /\ IF calib /\ (~primed \/ wanted)
     THEN /\ primed' = TRUE /\ line_req_seen' = line_req_a2
          /\ fill_sel' = 1 - fill_sel
          /\ beat_cnt' = 0 /\ pix_idx' = 0 /\ d_st' = "D_REQ"
     ELSE UNCHANGED <<primed, line_req_seen, fill_sel, beat_cnt, pix_idx, d_st>>
  /\ UNCHANGED <<f_beat, cap, wr_addr, wr_data, line_ack_toggle>>

\* Mutant: the request is a pulse and does not wait to be granted.
D_REQ_pulses(calib, rdy) ==
  /\ d_st = "D_REQ"
  /\ wr_en' = FALSE
  /\ lcd_cmd_en' = (calib /\ ~lcd_cmd_en)
  /\ d_st' = IF lcd_cmd_en /\ rdy THEN "D_WAIT" ELSE d_st
  /\ UNCHANGED <<f_beat, cap, pix_idx, beat_cnt, fill_sel, wr_addr, wr_data, primed,
                 line_req_seen, line_ack_toggle>>

D_REQ(calib, rdy) ==
  /\ d_st = "D_REQ"
  /\ wr_en' = FALSE
  /\ IF lcd_cmd_en /\ rdy
     THEN lcd_cmd_en' = FALSE /\ d_st' = "D_WAIT"
     ELSE lcd_cmd_en' = calib /\ d_st' = d_st
  /\ UNCHANGED <<f_beat, cap, pix_idx, beat_cnt, fill_sel, wr_addr, wr_data, primed,
                 line_req_seen, line_ack_toggle>>

D_WAIT(valid, beat) ==
  /\ d_st = "D_WAIT"
  /\ lcd_cmd_en' = FALSE /\ wr_en' = FALSE
  /\ IF valid THEN cap' = beat /\ pix_idx' = 0 /\ d_st' = "D_PUSH"
              ELSE UNCHANGED <<cap, pix_idx, d_st>>
  /\ UNCHANGED <<f_beat, beat_cnt, fill_sel, wr_addr, wr_data, primed,
                 line_req_seen, line_ack_toggle>>

\* The beat after b; the frame is scanned round and round.
NextBeat(b) == IF b >= FbBeats - 1 THEN 0 ELSE b + 1

\* Mutant: the line is announced when its first beat is in, not its last.
D_PUSH_early_ack ==
  /\ d_st = "D_PUSH"
  /\ lcd_cmd_en' = FALSE /\ wr_en' = TRUE
  /\ wr_data' = cap * BeatPix + pix_idx
  /\ wr_addr' = beat_cnt * BeatPix + pix_idx
  /\ line_ack_toggle' = IF pix_idx = BeatPix - 1 /\ beat_cnt = 0
                        THEN 1 - line_ack_toggle ELSE line_ack_toggle
  /\ IF pix_idx # BeatPix - 1
     THEN pix_idx' = pix_idx + 1 /\ UNCHANGED <<f_beat, beat_cnt, d_st>>
     ELSE /\ f_beat' = NextBeat(f_beat)
          /\ IF beat_cnt = LineBeats - 1
             THEN d_st' = "D_IDLE" /\ UNCHANGED beat_cnt
             ELSE d_st' = "D_REQ" /\ beat_cnt' = beat_cnt + 1
          /\ UNCHANGED pix_idx
  /\ UNCHANGED <<cap, fill_sel, primed, line_req_seen>>

D_PUSH ==
  /\ d_st = "D_PUSH"
  /\ lcd_cmd_en' = FALSE /\ wr_en' = TRUE
  /\ wr_data' = cap * BeatPix + pix_idx
  /\ wr_addr' = beat_cnt * BeatPix + pix_idx
  /\ IF pix_idx # BeatPix - 1
     THEN pix_idx' = pix_idx + 1 /\ UNCHANGED <<f_beat, beat_cnt, line_ack_toggle, d_st>>
     ELSE /\ f_beat' = NextBeat(f_beat)
          /\ IF beat_cnt = LineBeats - 1
             THEN line_ack_toggle' = 1 - line_ack_toggle /\ d_st' = "D_IDLE" /\ UNCHANGED beat_cnt
             ELSE beat_cnt' = beat_cnt + 1 /\ d_st' = "D_REQ" /\ UNCHANGED line_ack_toggle
          /\ UNCHANGED pix_idx
  /\ UNCHANGED <<cap, fill_sel, primed, line_req_seen>>

DmaStep(calib, wanted, rdy, valid, beat) ==
  \/ D_IDLE(calib, wanted) \/ D_REQ(calib, rdy) \/ D_WAIT(valid, beat) \/ D_PUSH

=============================================================================
