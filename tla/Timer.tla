------------------------------- MODULE Timer -------------------------------
(***************************************************************************)
(* The timer peripheral (src/rtl/peripheral/timer_mmio.sv) and the delay   *)
(* loop of its driver (src/program/drivers/timer.c).                       *)
(*                                                                         *)
(* A bus write and a tick can meet in one clk edge.  The code assigns the  *)
(* registers for the write first and for the tick after it, so the tick's  *)
(* value is the one that stays.                                            *)
(*                                                                         *)
(* CountMod is the number of values of a 32-bit register.                  *)
(***************************************************************************)
EXTENDS Integers

CONSTANTS
  CountMod,
  Writes,   \* register writes software may make: records [reg, val]
  Ticks     \* arguments of timer_delay_ticks

Ctrl == [en : BOOLEAN, armed : BOOLEAN, periodic : BOOLEAN, presc_en : BOOLEAN,
         irq_en : BOOLEAN, soft_reset : BOOLEAN]
Off == [en |-> FALSE, armed |-> FALSE, periodic |-> FALSE, presc_en |-> FALSE,
        irq_en |-> FALSE, soft_reset |-> FALSE]

\* A write to a register of a number carries one the register can hold.
ASSUME TimerAssumption ==
  /\ CountMod \in Nat \ {0, 1} /\ Ticks \subseteq 0..CountMod - 1
  /\ \A w \in Writes : /\ w.reg \in {"COUNT", "CMP", "PERIOD", "PRESC"} => w.val \in 0..CountMod - 1
                       /\ w.reg = "CTRL" => w.val \in Ctrl
                       /\ w.reg = "STATUS" => w.val \in BOOLEAN

VARIABLES
  ctrl,                    \* ctrl_en, ctrl_armed, ... (soft_reset reads as 0)
  presc_reg, count_reg, cmp_reg, period_reg, pending, presc_cnt,
  start, want,             \* timer_delay_ticks: its locals; want = CountMod when not in it
  elapsed                  \* auxiliary: ticks since the delay began, at most 2 CountMod

regs == <<ctrl, presc_reg, count_reg, cmp_reg, period_reg, pending, presc_cnt>>
delay == <<start, want, elapsed>>
timerVars == <<regs, delay>>

tick == ctrl.en /\ (ctrl.presc_en => presc_cnt >= presc_reg)
match == tick /\ ctrl.armed /\ (count_reg + 1) % CountMod = cmp_reg

NoWrite == [reg |-> "none", val |-> 0]

TimerInit ==
  /\ ctrl = Off /\ pending = FALSE
  /\ presc_reg = 0 /\ count_reg = 0 /\ cmp_reg = 0 /\ period_reg = 0 /\ presc_cnt = 0
  /\ start = 0 /\ want = CountMod /\ elapsed = 0

----------------------------------------------------------------------------
\* The registers after one edge with write w: what the tick assigns, else what
\* the write assigns, else what they were.

IsReset(w) == w.reg = "CTRL" /\ w.val.soft_reset

Written(w, reg, old) == IF w.reg = reg THEN w.val ELSE IF IsReset(w) THEN 0 ELSE old

Count(w) == count_reg' = IF tick THEN (count_reg + 1) % CountMod ELSE Written(w, "COUNT", count_reg)

Compare(w) ==
  cmp_reg' = IF match /\ ctrl.periodic THEN (cmp_reg + period_reg) % CountMod ELSE Written(w, "CMP", cmp_reg)

CtrlReg(w) ==
  LET c == IF IsReset(w) THEN Off ELSE IF w.reg = "CTRL" THEN w.val ELSE ctrl
  IN ctrl' = [c EXCEPT !.armed = @ /\ ~(match /\ ~ctrl.periodic)]

Pending(w) ==
  pending' = (\/ match
              \/ w.reg = "CMP" /\ ctrl.en /\ ctrl.armed /\ count_reg >= w.val
              \/ pending /\ ~IsReset(w) /\ ~(w.reg = "STATUS" /\ w.val))

Prescale(w) ==
  /\ presc_reg' = Written(w, "PRESC", presc_reg)
  /\ presc_cnt' = IF ctrl.en /\ ctrl.presc_en /\ ~tick THEN (presc_cnt + 1) % CountMod ELSE 0

Period(w) == period_reg' = Written(w, "PERIOD", period_reg)

Edge(w) == Count(w) /\ Compare(w) /\ CtrlReg(w) /\ Pending(w) /\ Prescale(w) /\ Period(w)

----------------------------------------------------------------------------
\* timer_delay_ticks: the count is read once, and then again and again until
\* it has moved by ticks.  Meanwhile the hart writes no timer register.

InDelay == want # CountMod

Elapse == elapsed' = IF ~InDelay THEN 0 ELSE IF tick /\ elapsed < 2 * CountMod THEN elapsed + 1 ELSE elapsed

RegWrite(w) == ~InDelay /\ Edge(w) /\ UNCHANGED delay
Run == Edge(NoWrite) /\ Elapse /\ UNCHANGED <<start, want>>

DelayBegin(n) ==
  /\ ~InDelay /\ ctrl.en
  /\ start' = count_reg /\ want' = n /\ elapsed' = IF tick THEN 1 ELSE 0
  /\ Edge(NoWrite)

\* Mutant: the deadline is computed once and compared as a number.
Expired_deadline == count_reg >= (start + want) % CountMod

Expired == (count_reg - start) % CountMod >= want

DelayPoll ==
  /\ InDelay
  /\ Edge(NoWrite)
  /\ IF Expired THEN want' = CountMod /\ elapsed' = 0 ELSE UNCHANGED want /\ Elapse
  /\ UNCHANGED start

TimerNext ==
  \/ \E w \in Writes : RegWrite(w)
  \/ Run
  \/ \E n \in Ticks : DelayBegin(n)
  \/ DelayPoll

TimerSpec == TimerInit /\ [][TimerNext]_timerVars

----------------------------------------------------------------------------
\* Properties

\* A delay that ends has lasted: at least as many ticks as asked for have gone
\* by, also when the counter wrapped meanwhile.
DelayLongEnough == [][InDelay /\ want' = CountMod => elapsed >= want]_timerVars

=============================================================================
