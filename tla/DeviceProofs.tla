---------------------------- MODULE DeviceProofs ----------------------------
(***************************************************************************)
(* Proofs about the devices beside the memory system.                      *)
(*   Clint: a 64-bit register read and written by halves, for every width  *)
(* W of a half, every delay and every length of the tick.                  *)
(*   Timer: the delay loop, for every width of the counter, every mode and *)
(* every register write.                                                   *)
(*   LcdPanel: the line DMA and the panel it feeds, for every size of a    *)
(* beat, a line and a frame and every video timing.  The handshake passes  *)
(* one token round: a line is being filled, or its acknowledge is on its   *)
(* way to the panel, or the request for the next line is on its way to the *)
(* DMA.                                                                    *)
(*   Xmodem: what the loader has stored is the beginning of the image, for *)
(* every image of fewer blocks than there are block numbers and any noise. *)
(***************************************************************************)
EXTENDS Clint, Timer, LcdPanel, Xmodem, SequenceTheorems, TLAPS

(***************************************************************************)
(* Clint and its driver.                                                   *)
(***************************************************************************)

----------------------------------------------------------------------------
\* Halves of a number.

\* A number is its halves, joined.
LEMMA Halves ==
  ASSUME NEW t \in Nat
  PROVE  /\ Hi(t) \in Nat /\ Lo(t) \in 0..W - 1
         /\ Join(Hi(t), Lo(t)) = t
BY ClintAssumption DEF Hi, Lo, Join

\* The products of different numbers differ by a whole factor.
LEMMA Multiples ==
  ASSUME NEW a \in Int, NEW b \in Int, NEW w \in Nat, a < b
  PROVE  a * w + w <= b * w
OBVIOUS

\* A product of two numbers of registers is a number.
LEMMA JoinType ==
  ASSUME NEW h \in Nat, NEW l \in 0..W - 1
  PROVE  Join(h, l) \in Nat
BY ClintAssumption DEF Join

\* The halves of a joined number are the ones it was joined from.
LEMMA JoinHalves ==
  ASSUME NEW h \in Nat, NEW l \in 0..W - 1
  PROVE  Hi(Join(h, l)) = h /\ Lo(Join(h, l)) = l
<1> DEFINE t == Join(h, l)
<1>1. /\ Hi(t) \in Nat /\ Lo(t) \in 0..W - 1
      /\ Hi(t) * W + Lo(t) = h * W + l
  BY Halves, JoinType DEF Join
<1> HIDE DEF t
<1>2. ~(h < Hi(t))
  BY <1>1, Multiples, ClintAssumption
<1>3. ~(Hi(t) < h)
  BY <1>1, Multiples, ClintAssumption
<1>4. Hi(t) = h
  BY <1>1, <1>2, <1>3
<1> QED
  BY <1>1, <1>4, ClintAssumption DEF t

\* The high half never runs backwards.
LEMMA HiMonotone ==
  ASSUME NEW s \in Nat, NEW t \in Nat, s <= t
  PROVE  Hi(s) <= Hi(t)
<1>1. /\ Hi(s) \in Nat /\ Lo(s) \in 0..W - 1 /\ s = Hi(s) * W + Lo(s)
      /\ Hi(t) \in Nat /\ Lo(t) \in 0..W - 1 /\ t = Hi(t) * W + Lo(t)
  BY Halves DEF Join
<1>2. ~(Hi(t) < Hi(s))
  BY <1>1, Multiples, ClintAssumption
<1> QED
  BY <1>1, <1>2

\* The addition of halves with a carry that the tick interrupt does.
LEMMA AddWithCarry ==
  ASSUME NEW u \in Nat, NEW n \in 1..W - 1
  PROVE  LET low == (Lo(u) + n) % W
             carry == IF low < Lo(u) THEN 1 ELSE 0
         IN Join(Hi(u) + carry, low) = u + n
<1> DEFINE low == (Lo(u) + n) % W
<1>1. /\ Hi(u) \in Nat /\ Lo(u) \in 0..W - 1 /\ u = Hi(u) * W + Lo(u)
  BY Halves DEF Join
<1>2. CASE Lo(u) + n < W
  <2>1. low = Lo(u) + n
    BY <1>1, <1>2, ClintAssumption
  <2> QED
    BY <1>1, <2>1, ClintAssumption DEF Join
<1>3. CASE Lo(u) + n >= W
  <2>1. low = Lo(u) + n - W
    BY <1>1, <1>3, ClintAssumption
  <2>2. (Hi(u) + 1) * W = Hi(u) * W + W
    BY <1>1, ClintAssumption
  <2> QED
    BY <1>1, <2>1, <2>2, ClintAssumption DEF Join
<1> QED
  BY <1>1, <1>2, <1>3, ClintAssumption

----------------------------------------------------------------------------
\* The inductive invariant.

Writing == pc \in {"set_lo", "set_hi", "arm_hi", "arm_lo"}
Reading == pc \in {"hi", "lo", "check", "got"}

ClintTypeOK ==
  /\ mtime \in Nat /\ mtimecmp \in Nat /\ val \in Nat
  /\ pc = "idle" \/ Reading \/ Writing
  /\ hi \in Nat /\ lo \in 0..W - 1 /\ called \in Nat
  /\ ullNextTime \in Nat /\ base \in Int /\ ticks \in Nat

\* What clint_get_mtime knows at each of its reads: the high half it has is
\* not ahead of the timer, and the low half is that of a time during the call
\* that the high half is not ahead of either.
ReadInv ==
  Reading =>
    /\ base < 0 /\ called <= mtime
    /\ pc = "lo" => hi <= Hi(mtime)
    /\ pc = "check" => \E t \in called..mtime : lo = Lo(t) /\ hi <= Hi(t)
    /\ pc = "got" => called <= Join(hi, lo) /\ Join(hi, lo) <= mtime

\* The half of the compare register that is written already, and all of it
\* once the driver is done.
CompareInv ==
  /\ ~Writing => mtimecmp = val
  /\ pc = "set_hi" => Lo(mtimecmp) = Lo(val)
  /\ pc = "arm_lo" => Hi(mtimecmp) = Hi(val)

\* The port's two compare values are the next two multiples of the tick.
TickInv ==
  base >= 0 => /\ val = base + (ticks + 1) * TickIncrement
               /\ ullNextTime = val + TickIncrement

ClintInv == ClintTypeOK /\ ReadInv /\ CompareInv /\ TickInv

\* The machine starts in the invariant.
LEMMA ClintInitInv == ClintInit => ClintInv
<1> SUFFICES ASSUME ClintInit PROVE ClintInv
  OBVIOUS
<1>1. MaxTime \in Nat
  BY ClintAssumption DEF MaxTime
<1> QED
  BY <1>1, ClintAssumption
     DEF ClintInit, ClintInv, ClintTypeOK, Reading, Writing, ReadInv, CompareInv, TickInv

\* Every step of the timer, the driver and the port keeps the invariant.
LEMMA ClintStep == ClintInv /\ [ClintNext]_clintVars => ClintInv'
<1> SUFFICES ASSUME ClintInv, [ClintNext]_clintVars PROVE ClintInv'
  OBVIOUS
<1> USE DEF ClintTypeOK, ReadInv, CompareInv, TickInv, Reading, Writing
<1>h. /\ Hi(mtime) \in Nat /\ Lo(mtime) \in 0..W - 1
      /\ Hi(val) \in Nat /\ Lo(val) \in 0..W - 1
      /\ Hi(mtimecmp) \in Nat /\ Lo(mtimecmp) \in 0..W - 1
      /\ Hi(mtime + 1) \in Nat /\ Hi(mtime) <= Hi(mtime + 1)
  BY Halves, HiMonotone DEF ClintInv
<1>1. CASE Idle
  <2>1. mtime' = mtime + 1 /\ UNCHANGED <<mtimecmp, pc, hi, lo, val, called, ullNextTime, base, ticks>>
    BY <1>1 DEF Idle, Tick, hart, port
  <2>2. pc = "check" => \E t \in called..mtime' : lo = Lo(t) /\ hi <= Hi(t)
    <3>1. SUFFICES ASSUME NEW t \in called..mtime PROVE t \in called..mtime'
      BY <2>1 DEF ClintInv
    <3> QED
      BY <2>1 DEF ClintInv
  <2>3. Join(hi, lo) \in Nat
    BY JoinType DEF ClintInv
  <2> QED
    BY <2>1, <2>2, <2>3, <1>h DEF ClintInv
<1>2. CASE Call
  BY <1>2, <1>h DEF Call, Tick, port, ClintInv
<1>3. CASE ReadHi
  BY <1>3, <1>h DEF ReadHi, Tick, port, ClintInv
<1>4. CASE ReadLo
  <2>1. mtime \in called..mtime' /\ lo' = Lo(mtime) /\ hi <= Hi(mtime)
    BY <1>4 DEF ReadLo, Tick, ClintInv
  <2> QED
    BY <1>4, <1>h, <2>1 DEF ReadLo, Tick, port, ClintInv
<1>5. CASE CheckHi
  <2>1. CASE hi = Hi(mtime)
    <3>1. PICK t \in called..mtime : lo = Lo(t) /\ hi <= Hi(t)
      BY <1>5 DEF CheckHi, ClintInv
    <3>2. t \in Nat /\ t <= mtime
      BY DEF ClintInv
    <3>3. Hi(t) = hi
      BY <2>1, <3>1, <3>2, <1>h, Halves, HiMonotone DEF ClintInv
    <3>4. Join(hi, lo) = t
      BY <3>1, <3>2, <3>3, Halves
    <3> QED
      BY <1>5, <2>1, <3>2, <3>4 DEF CheckHi, Tick, port, ClintInv
  <2>2. CASE hi # Hi(mtime)
    BY <1>5, <2>2, <1>h DEF CheckHi, Tick, port, ClintInv
  <2> QED
    BY <2>1, <2>2
<1>6. CASE SetLo
  <2>1. /\ mtimecmp' \in Nat /\ Lo(mtimecmp') = Lo(val)
    BY <1>6, <1>h, JoinType, JoinHalves DEF SetLo
  <2> QED
    BY <1>6, <2>1 DEF SetLo, Tick, port, ClintInv
<1>7. CASE SetHi
  <2>1. mtimecmp' = val
    BY <1>7, <1>h, Halves DEF SetHi, ClintInv
  <2> QED
    BY <1>7, <2>1 DEF SetHi, Tick, port, ClintInv
<1>8. ASSUME NEW d \in Delays, Prepare(d) PROVE ClintInv'
  <2>1. d \in Nat
    BY ClintAssumption DEF MaxTime
  <2>2. W * W \in Nat \ {0}
    BY ClintAssumption
  <2>3. Join(hi, lo) \in Nat
    BY JoinType DEF ClintInv
  <2>4. val' \in Nat
    BY <1>8, <2>1, <2>2, <2>3 DEF Prepare
  <2> QED
    BY <1>8, <2>4 DEF Prepare, Tick, port, ClintInv
<1>9. CASE vPortSetupTimerInterrupt
  <2>1. Join(hi, lo) \in Nat
    BY JoinType DEF ClintInv
  <2> QED
    BY <1>9, <2>1, ClintAssumption DEF vPortSetupTimerInterrupt, Tick, ClintInv
<1>10. CASE TickInterrupt
  <2>1. ullNextTime' = ullNextTime + TickIncrement
    BY <1>10, AddWithCarry, ClintAssumption DEF TickInterrupt, ClintInv
  <2>2. mtimecmp' \in Nat
    BY <1>10, <1>h, JoinType, ClintAssumption DEF TickInterrupt
  <2>3. (ticks + 2) * TickIncrement = (ticks + 1) * TickIncrement + TickIncrement
    BY ClintAssumption DEF ClintInv
  <2>4. val' = base + (ticks' + 1) * TickIncrement
    BY <1>10, <2>3, ClintAssumption DEF TickInterrupt, ClintInv
  <2> QED
    BY <1>10, <2>1, <2>2, <2>4, ClintAssumption DEF TickInterrupt, Tick, ClintInv
<1>11. CASE ArmHi
  <2>1. mtimecmp' \in Nat /\ Hi(mtimecmp') = Hi(val)
    BY <1>11, <1>h, JoinType, JoinHalves DEF ArmHi
  <2> QED
    BY <1>11, <2>1 DEF ArmHi, Tick, port, ClintInv
<1>12. CASE ArmLo
  <2>1. mtimecmp' = val
    BY <1>12, <1>h, Halves DEF ArmLo, ClintInv
  <2> QED
    BY <1>12, <2>1 DEF ArmLo, Tick, port, ClintInv
<1>13. ASSUME NEW b \in BOOLEAN, SetMsip(b) PROVE ClintInv'
  BY <1>13, <1>h DEF SetMsip, Tick, hart, port, ClintInv
<1>14. CASE UNCHANGED clintVars
  BY <1>14 DEF clintVars, hart, port, ClintInv
<1> QED
  BY <1>1, <1>2, <1>3, <1>4, <1>5, <1>6, <1>7, <1>8, <1>9, <1>10, <1>11, <1>12, <1>13, <1>14
     DEF ClintNext

----------------------------------------------------------------------------

\* The invariant holds in every state of the component.
THEOREM ClintInvariant == ClintSpec => []ClintInv
BY ClintInitInv, ClintStep, PTL DEF ClintSpec

\* clint_get_mtime never joins the halves of two times, for every width of the
\* halves.
THEOREM MtimeIsReadWhole == ClintSpec => []MtimeReadWhole
<1>1. ClintInv => MtimeReadWhole
  BY DEF ClintInv, ReadInv, Reading, MtimeReadWhole
<1> QED
  BY <1>1, ClintInvariant, PTL

\* The timer interrupt is up exactly when the time asked for has come, and the
\* port's ticks are at the multiples of the tick, for every width of the halves
\* and every length of the tick.
THEOREM IrqIsWhenDue == ClintSpec => []IrqWhenDue
<1>1. ClintInv => IrqWhenDue
  BY DEF ClintInv, CompareInv, TickInv, Writing, IrqWhenDue, timer_irq
<1> QED
  BY <1>1, ClintInvariant, PTL

(***************************************************************************)
(* Timer and its driver.                                                   *)
(***************************************************************************)

----------------------------------------------------------------------------
\* Arithmetic modulo the width of the counter.

\* What the wrap-around of an unsigned difference or sum comes to.
LEMMA Wrap ==
  /\ \A a \in 0..CountMod - 1 : a % CountMod = a
  /\ \A a \in -CountMod..-1 : a % CountMod = a + CountMod
  /\ \A a \in CountMod..2 * CountMod - 1 : a % CountMod = a - CountMod
BY TimerAssumption

\* The value of a register of CountMod values stays one.
LEMMA InRange == \A a \in Int : a % CountMod \in 0..CountMod - 1
BY TimerAssumption

----------------------------------------------------------------------------
\* The inductive invariant.

RegsOK ==
  /\ ctrl \in Ctrl /\ pending \in BOOLEAN
  /\ {presc_reg, count_reg, cmp_reg, period_reg, presc_cnt} \subseteq 0..CountMod - 1

DelayOK ==
  /\ start \in 0..CountMod - 1 /\ want \in 0..CountMod /\ elapsed \in 0..2 * CountMod

\* The ticks that have gone by are the distance the count has moved, but for
\* the times it has wrapped (until the auxiliary elapsed stops counting).
Tracked ==
  InDelay /\ elapsed < 2 * CountMod =>
    \E wraps \in 0..2 : elapsed = count_reg - start + wraps * CountMod

TimerInv == RegsOK /\ DelayOK /\ Tracked

\* Every register keeps to its values at every edge, whatever is written.
LEMMA EdgeRegs ==
  ASSUME RegsOK, NEW w \in Writes \cup {NoWrite}, Edge(w)
  PROVE  RegsOK'
<1>1. /\ w.reg \in {"COUNT", "CMP", "PERIOD", "PRESC"} => w.val \in 0..CountMod - 1
      /\ w.reg = "CTRL" => w.val \in Ctrl
  BY TimerAssumption DEF NoWrite
<1>2. ASSUME NEW reg \in {"COUNT", "CMP", "PERIOD", "PRESC"}, NEW old \in 0..CountMod - 1
      PROVE  Written(w, reg, old) \in 0..CountMod - 1
  BY <1>1, TimerAssumption DEF Written
<1>3. count_reg' \in 0..CountMod - 1
  BY <1>2, InRange DEF Edge, Count, RegsOK
<1>4. cmp_reg' \in 0..CountMod - 1
  BY <1>2, InRange DEF Edge, Compare, RegsOK
<1>5. ctrl' \in Ctrl
  BY <1>1 DEF Edge, CtrlReg, RegsOK, Ctrl, Off
<1>6. pending' \in BOOLEAN
  BY DEF Edge, Pending
<1>7. presc_reg' \in 0..CountMod - 1 /\ presc_cnt' \in 0..CountMod - 1
  BY <1>2, InRange, TimerAssumption DEF Edge, Prescale, RegsOK
<1>8. period_reg' \in 0..CountMod - 1
  BY <1>2 DEF Edge, Period, RegsOK
<1> QED
  BY <1>3, <1>4, <1>5, <1>6, <1>7, <1>8 DEF RegsOK

\* Without a write the count moves on by one at a tick and stays otherwise.
LEMMA CountMoves ==
  ASSUME RegsOK, Edge(NoWrite)
  PROVE  /\ ~tick => count_reg' = count_reg
         /\ tick /\ count_reg < CountMod - 1 => count_reg' = count_reg + 1
         /\ tick /\ count_reg = CountMod - 1 => count_reg' = 0
<1>1. count_reg' = IF tick THEN (count_reg + 1) % CountMod ELSE count_reg
  BY DEF Edge, Count, Written, NoWrite, IsReset
<1> QED
  BY <1>1, Wrap, TimerAssumption DEF RegsOK

\* While the driver waits, the ticks counted follow the count.
LEMMA ElapseTracks ==
  ASSUME TimerInv, Edge(NoWrite), Elapse, UNCHANGED <<start, want>>
  PROVE  DelayOK' /\ Tracked'
<1>1. CASE ~InDelay
  BY <1>1, TimerAssumption DEF Elapse, DelayOK, Tracked, InDelay, TimerInv
<1>2. CASE InDelay /\ elapsed = 2 * CountMod
  BY <1>2, TimerAssumption DEF Elapse, DelayOK, Tracked, InDelay, TimerInv
<1>3. CASE InDelay /\ elapsed < 2 * CountMod
  <2>1. PICK wraps \in 0..2 : elapsed = count_reg - start + wraps * CountMod
    BY <1>3 DEF TimerInv, Tracked
  <2>2. CASE ~tick
    BY <1>3, <2>1, <2>2, CountMoves DEF Elapse, DelayOK, Tracked, InDelay, TimerInv
  <2>3. CASE tick /\ count_reg < CountMod - 1
    <3>1. elapsed' = count_reg' - start' + wraps * CountMod
      BY <1>3, <2>1, <2>3, CountMoves, TimerAssumption DEF Elapse, DelayOK, RegsOK, TimerInv
    <3> QED
      BY <1>3, <2>3, <3>1, TimerAssumption DEF Elapse, DelayOK, Tracked, TimerInv
  <2>4. CASE tick /\ count_reg = CountMod - 1
    <3>1. elapsed' = count_reg' - start' + wraps * CountMod + CountMod
      BY <1>3, <2>1, <2>4, CountMoves, TimerAssumption DEF Elapse, DelayOK, RegsOK, TimerInv
    <3>2. elapsed' < 2 * CountMod => wraps + 1 \in 0..2
      BY <3>1, <2>4, CountMoves, TimerAssumption DEF DelayOK, TimerInv
    <3>3. wraps * CountMod + CountMod = (wraps + 1) * CountMod
      BY TimerAssumption
    <3> QED
      BY <1>3, <2>4, <3>1, <3>2, <3>3, CountMoves, TimerAssumption
         DEF Elapse, DelayOK, Tracked, TimerInv
  <2> QED
    BY <2>2, <2>3, <2>4, TimerAssumption DEF TimerInv, RegsOK
<1> QED
  BY <1>1, <1>2, <1>3, TimerAssumption DEF TimerInv, DelayOK

\* The timer starts in the invariant.
LEMMA TimerInitInv == TimerInit => TimerInv
<1> SUFFICES ASSUME TimerInit PROVE TimerInv
  OBVIOUS
<1>1. RegsOK
  <2>1. Off \in Ctrl
    BY DEF Off, Ctrl
  <2>2. 0 \in 0..CountMod - 1
    BY TimerAssumption
  <2> QED
    BY <2>1, <2>2 DEF TimerInit, RegsOK
<1>2. DelayOK /\ Tracked
  BY TimerAssumption DEF TimerInit, DelayOK, Tracked, InDelay
<1> QED
  BY <1>1, <1>2 DEF TimerInv

\* Every edge, and every step of the delay loop, keeps the invariant.
LEMMA TimerStep == TimerInv /\ [TimerNext]_timerVars => TimerInv'
<1> SUFFICES ASSUME TimerInv, [TimerNext]_timerVars PROVE TimerInv'
  OBVIOUS
<1>1. ASSUME NEW w \in Writes, RegWrite(w) PROVE TimerInv'
  BY <1>1, EdgeRegs DEF RegWrite, delay, TimerInv, DelayOK, Tracked, InDelay
<1>2. CASE Run
  BY <1>2, EdgeRegs, ElapseTracks DEF Run, TimerInv
<1>3. ASSUME NEW n \in Ticks, DelayBegin(n) PROVE TimerInv'
  <2>1. RegsOK'
    BY <1>3, EdgeRegs DEF DelayBegin, TimerInv
  <2>2. DelayOK'
    BY <1>3, TimerAssumption DEF DelayBegin, TimerInv, DelayOK, RegsOK
  <2>3. \/ elapsed' = count_reg' - start' + 0 * CountMod
        \/ elapsed' = count_reg' - start' + 1 * CountMod
    BY <1>3, CountMoves, TimerAssumption DEF DelayBegin, TimerInv, RegsOK
  <2> QED
    BY <2>1, <2>2, <2>3 DEF TimerInv, Tracked
<1>4. CASE DelayPoll
  <2>1. CASE Expired
    BY <1>4, <2>1, EdgeRegs, TimerAssumption DEF DelayPoll, TimerInv, DelayOK, Tracked, InDelay
  <2>2. CASE ~Expired
    BY <1>4, <2>2, EdgeRegs, ElapseTracks DEF DelayPoll, TimerInv
  <2> QED
    BY <2>1, <2>2
<1>5. CASE UNCHANGED timerVars
  BY <1>5 DEF timerVars, regs, delay, TimerInv, RegsOK, DelayOK, Tracked, InDelay
<1> QED
  BY <1>1, <1>2, <1>3, <1>4, <1>5 DEF TimerNext

\* The difference the driver computes is one the ticks have covered.
LEMMA ExpiredElapsed ==
  ASSUME TimerInv, InDelay, Expired
  PROVE  elapsed >= want
<1>1. CASE elapsed < 2 * CountMod
  <2>1. PICK wraps \in 0..2 : elapsed = count_reg - start + wraps * CountMod
    BY <1>1 DEF TimerInv, Tracked
  <2>2. wraps * CountMod \in {0, CountMod, 2 * CountMod}
    BY TimerAssumption
  <2>3. CASE count_reg >= start
    <3>1. (count_reg - start) % CountMod = count_reg - start
      BY <2>3, Wrap, TimerAssumption DEF TimerInv, RegsOK, DelayOK
    <3> QED
      BY <2>1, <2>2, <3>1, TimerAssumption DEF Expired, TimerInv, RegsOK, DelayOK
  <2>4. CASE count_reg < start
    <3>1. (count_reg - start) % CountMod = count_reg - start + CountMod
      BY <2>4, Wrap, TimerAssumption DEF TimerInv, RegsOK, DelayOK
    <3> QED
      BY <2>1, <2>2, <2>4, <3>1, TimerAssumption DEF Expired, TimerInv, RegsOK, DelayOK
  <2> QED
    BY <2>3, <2>4 DEF TimerInv, RegsOK, DelayOK
<1>2. CASE elapsed = 2 * CountMod
  BY <1>2, TimerAssumption DEF TimerInv, DelayOK
<1> QED
  BY <1>1, <1>2, TimerAssumption DEF TimerInv, DelayOK

----------------------------------------------------------------------------

\* The invariant holds in every state of the timer and its driver.
THEOREM TimerInvariant == TimerSpec => []TimerInv
BY TimerInitInv, TimerStep, PTL DEF TimerSpec

\* timer_delay_ticks never returns early, for every width of the counter and
\* every length of the delay, also when the counter wraps during it.
THEOREM DelayIsLongEnough == TimerSpec => DelayLongEnough
<1>1. TimerInv /\ [TimerNext]_timerVars => [InDelay /\ want' = CountMod => elapsed >= want]_timerVars
  <2> SUFFICES ASSUME TimerInv, TimerNext, InDelay, want' = CountMod PROVE elapsed >= want
    OBVIOUS
  <2>1. ~ \E w \in Writes : RegWrite(w)
    BY DEF RegWrite
  <2>2. ~Run
    BY DEF Run, InDelay
  <2>3. ~ \E n \in Ticks : DelayBegin(n)
    BY DEF DelayBegin
  <2>4. DelayPoll /\ Expired
    BY <2>1, <2>2, <2>3 DEF TimerNext, DelayPoll, InDelay
  <2> QED
    BY <2>4, ExpiredElapsed
<1> QED
  BY <1>1, TimerInvariant, PTL DEF TimerSpec, DelayLongEnough

(***************************************************************************)
(* LcdPanel and the line DMA.                                              *)
(***************************************************************************)

----------------------------------------------------------------------------
\* The inductive invariant.

Filling == d_st # "D_IDLE"
AckBusy == line_ack_toggle # line_ack_seen
ReqBusy == line_req_toggle # line_req_seen

LcdTypeOK ==
  /\ d_st \in DStates /\ wr_en \in BOOLEAN /\ primed \in BOOLEAN /\ app_ticked \in BOOLEAN
  /\ {fill_sel, show_sel} \subseteq {0, 1}
  /\ {line_req_toggle, line_req_a1, line_req_a2, line_req_seen} \subseteq {0, 1}
  /\ {line_ack_toggle, line_ack_p1, line_ack_p2, line_ack_seen} \subseteq {0, 1}
  /\ beat_cnt \in 0..LineBeats - 1 /\ pix_idx \in 0..BeatPix - 1
  /\ f_beat \in Nat /\ cap \in Nat /\ wr_data \in Nat /\ wr_addr \in 0..LcdW - 1
  /\ lines \in [{0, 1} -> [0..LcdW - 1 -> Int]]

\* One token, and where it is: each synchroniser's stages still agree or have
\* changed in order.
TokenInv ==
  /\ ~(Filling /\ AckBusy) /\ ~(Filling /\ ReqBusy) /\ ~(AckBusy /\ ReqBusy)
  /\ primed <=> Filling \/ AckBusy \/ ReqBusy
  /\ ~ReqBusy \/ line_req_a2 = line_req_toggle => line_req_a1 = line_req_toggle
  /\ ~ReqBusy => line_req_a2 = line_req_toggle
  /\ ~AckBusy \/ line_ack_p2 = line_ack_toggle => line_ack_p1 = line_ack_toggle
  /\ ~AckBusy => line_ack_p2 = line_ack_toggle

\* The buffers are apart until the panel adopts the line, and a write is still
\* pending only while the acknowledge cannot have reached the panel.
BufferInv ==
  /\ Filling \/ AckBusy <=> fill_sel # show_sel
  /\ wr_en => Filling \/ AckBusy
  /\ wr_en /\ AckBusy => /\ line_ack_p2 # line_ack_toggle
                         /\ line_ack_p1 = line_ack_toggle => ~app_ticked

\* The pixels of the line that have been pushed.
Pos == IF ~Filling THEN LcdW
       ELSE IF d_st = "D_PUSH" THEN beat_cnt * BeatPix + pix_idx ELSE beat_cnt * BeatPix

\* The line after line n, round and round; buffer b holds line n.
NextLine(n) == IF n = Rows - 1 THEN 0 ELSE n + 1
IsLine(b, n) == \A x \in 0..LcdW - 1 : lines[b][x] = n * LcdW + x

\* What the pushes so far, the last of them perhaps still pending, have made of
\* line n, and the beat that comes next.
Pushed(n) ==
  /\ wr_en => wr_addr = Pos - 1 /\ wr_data = n * LcdW + (Pos - 1)
  /\ \A x \in 0..LcdW - 1 : x < (IF wr_en THEN Pos - 1 ELSE Pos) => lines[fill_sel][x] = n * LcdW + x
BeatOK(n) ==
  /\ f_beat = IF Filling THEN n * LineBeats + beat_cnt ELSE NextLine(n) * LineBeats
  /\ d_st = "D_PUSH" => cap = f_beat

\* Buffer b holds what is shown before line n.
Precedes(b, n) == (n = 0 /\ Blank(b)) \/ \E s \in 0..Rows - 1 : n = NextLine(s) /\ IsLine(b, s)

\* n is the line that is, or was last, filled.
LineInv(n) ==
  /\ ~primed => n = 0 /\ f_beat = 0 /\ Blank(show_sel)
  /\ primed => BeatOK(n)
  /\ Filling \/ AckBusy => Pushed(n) /\ Precedes(show_sel, n)
  /\ ReqBusy => IsLine(show_sel, n)

LcdInv == LcdTypeOK /\ TokenInv /\ BufferInv /\ \E n \in 0..Rows - 1 : LineInv(n)

----------------------------------------------------------------------------
\* Positions in the frame.

\* The constants are positive, and so is the width of a line.
LEMMA Sizes ==
  /\ LineBeats \in Nat \ {0} /\ BeatPix \in Nat \ {0} /\ Rows \in Nat \ {0}
  /\ LcdW \in Nat \ {0} /\ LcdW = LineBeats * BeatPix
BY LcdAssumption DEF LcdW

\* Pixel p of beat b is inside the line, and the beats follow on each other.
LEMMA PixelInLine ==
  ASSUME NEW b \in 0..LineBeats - 1, NEW p \in 0..BeatPix - 1
  PROVE  /\ b * BeatPix \in Nat /\ b * BeatPix + p \in 0..LcdW - 1
         /\ (b + 1) * BeatPix = b * BeatPix + BeatPix
<1>1. b * BeatPix + BeatPix <= LineBeats * BeatPix
  BY Multiples, Sizes
<1> QED
  BY <1>1, Sizes

\* Where a pixel of a beat of the frame is: D_PUSH computes its value from the
\* beat and its address from the count of beats.
LEMMA PixelOfBeat ==
  ASSUME NEW n \in Nat, NEW b \in Nat, NEW p \in Nat
  PROVE  (n * LineBeats + b) * BeatPix + p = n * LcdW + (b * BeatPix + p)
BY Sizes

\* The scan of the frame: on to the next beat of the line, or to the next line.
LEMMA ScanOrder ==
  ASSUME NEW n \in 0..Rows - 1, NEW b \in 0..LineBeats - 1
  PROVE  /\ b # LineBeats - 1 => NextBeat(n * LineBeats + b) = n * LineBeats + (b + 1)
         /\ b = LineBeats - 1 => NextBeat(n * LineBeats + b) = NextLine(n) * LineBeats
<1>1. n * LineBeats \in Nat /\ (n + 1) * LineBeats = n * LineBeats + LineBeats
  BY Sizes
<1>2. FbBeats = (Rows - 1) * LineBeats + LineBeats
  BY Sizes DEF FbBeats
<1>3. CASE n = Rows - 1
  BY <1>1, <1>2, <1>3, Sizes DEF NextBeat, NextLine
<1>4. CASE n < Rows - 1
  <2>1. n * LineBeats + LineBeats <= (Rows - 1) * LineBeats
    BY <1>4, Multiples, Sizes
  <2> QED
    BY <1>1, <1>2, <1>4, <2>1, Sizes DEF NextBeat, NextLine
<1> QED
  BY <1>3, <1>4, Sizes

----------------------------------------------------------------------------
\* What a step of each side does.

\* The panel's edge: it adopts the line that is ready, or stays with its own.
Adopt ==
  /\ line_ack_p2 # line_ack_seen
  /\ line_ack_seen' = line_ack_p2 /\ show_sel' = 1 - show_sel
  /\ line_req_toggle' = 1 - line_req_toggle
Keep == UNCHANGED <<line_ack_seen, show_sel, line_req_toggle>>

\* A panel step is one of the two, and moves the acknowledge on.
LEMMA PanelCases == PanelStep => (Adopt \/ Keep) /\ line_ack_p2' = line_ack_p1
BY DEF PanelStep, PanelSwap, Adopt, Keep, new_line_ready

\* The DMA's edge as far as the handshake is concerned.
Rest == /\ ~Filling /\ ~Filling' /\ wr_en' = FALSE
        /\ UNCHANGED <<d_st, f_beat, beat_cnt, pix_idx, fill_sel, primed, line_req_seen,
                        line_ack_toggle, cap, wr_addr, wr_data>>
Begin == /\ ~Filling /\ d_st' = "D_REQ" /\ wr_en' = FALSE
         /\ ~primed \/ line_req_a2 # line_req_seen
         /\ primed' = TRUE /\ line_req_seen' = line_req_a2 /\ fill_sel' = 1 - fill_sel
         /\ beat_cnt' = 0 /\ pix_idx' = 0
         /\ UNCHANGED <<f_beat, line_ack_toggle, cap, wr_addr, wr_data>>
Wait == /\ Filling /\ Filling' /\ wr_en' = FALSE /\ d_st # "D_PUSH"
        /\ d_st' \in DStates /\ cap' \in {cap, f_beat} /\ pix_idx' \in {pix_idx, 0}
        /\ d_st' = "D_PUSH" => cap' = f_beat /\ pix_idx' = 0
        /\ UNCHANGED <<f_beat, beat_cnt, fill_sel, primed, line_req_seen, line_ack_toggle,
                       wr_addr, wr_data>>
Push == /\ d_st = "D_PUSH" /\ wr_en' = TRUE
        /\ wr_data' = cap * BeatPix + pix_idx /\ wr_addr' = beat_cnt * BeatPix + pix_idx
        /\ UNCHANGED <<cap, fill_sel, primed, line_req_seen>>
PushMore == /\ Push /\ pix_idx # BeatPix - 1 /\ d_st' = d_st /\ pix_idx' = pix_idx + 1
            /\ UNCHANGED <<f_beat, beat_cnt, line_ack_toggle>>
PushBeat == /\ Push /\ pix_idx = BeatPix - 1 /\ beat_cnt # LineBeats - 1
            /\ d_st' = "D_REQ" /\ beat_cnt' = beat_cnt + 1 /\ f_beat' = NextBeat(f_beat)
            /\ UNCHANGED <<pix_idx, line_ack_toggle>>
PushLine == /\ Push /\ pix_idx = BeatPix - 1 /\ beat_cnt = LineBeats - 1
            /\ d_st' = "D_IDLE" /\ f_beat' = NextBeat(f_beat)
            /\ line_ack_toggle' = 1 - line_ack_toggle
            /\ UNCHANGED <<pix_idx, beat_cnt>>

\* A DMA step is one of these.
LEMMA DmaCases ==
  ASSUME LcdTypeOK, NEW rdy \in BOOLEAN, NEW valid \in BOOLEAN, AppTick(rdy, valid)
  PROVE  Rest \/ Begin \/ Wait \/ PushMore \/ PushBeat \/ PushLine
<1>1. CASE D_IDLE(calib, line_req_edge)
  BY <1>1 DEF D_IDLE, line_req_edge, Filling, Rest, Begin
<1>2. CASE D_REQ(calib, rdy)
  BY <1>2 DEF D_REQ, Filling, Wait, DStates
<1>3. CASE D_WAIT(valid, f_beat)
  BY <1>3 DEF D_WAIT, Filling, Wait, DStates
<1>4. CASE D_PUSH
  BY <1>4 DEF D_PUSH, Push, PushMore, PushBeat, PushLine
<1> QED
  BY <1>1, <1>2, <1>3, <1>4 DEF AppTick, DmaStep

\* The pending write goes into the buffer being filled, and nowhere else.
LEMMA WriteLands ==
  ASSUME LcdTypeOK, LineWrite
  PROVE  /\ lines' \in [{0, 1} -> [0..LcdW - 1 -> Int]]
         /\ ~wr_en => lines' = lines
         /\ wr_en => lines'[1 - fill_sel] = lines[1 - fill_sel]
         /\ wr_en => \A x \in 0..LcdW - 1 :
                       lines'[fill_sel][x] = IF x = wr_addr THEN wr_data ELSE lines[fill_sel][x]
<1>1. CASE ~wr_en
  BY <1>1 DEF LcdTypeOK, LineWrite
<1>2. CASE wr_en
  <2> DEFINE new == [lines[fill_sel] EXCEPT ![wr_addr] = wr_data]
  <2>1. lines' = [lines EXCEPT ![fill_sel] = new]
    BY <1>2 DEF LineWrite
  <2>2. /\ lines \in [{0, 1} -> [0..LcdW - 1 -> Int]] /\ fill_sel \in {0, 1}
        /\ wr_addr \in 0..LcdW - 1 /\ wr_data \in Int
    BY DEF LcdTypeOK
  <2>3. lines[fill_sel] \in [0..LcdW - 1 -> Int]
    BY <2>2
  <2>4. /\ new \in [0..LcdW - 1 -> Int]
        /\ \A x \in 0..LcdW - 1 : new[x] = IF x = wr_addr THEN wr_data ELSE lines[fill_sel][x]
    BY <2>2, <2>3
  <2> HIDE DEF new
  <2> QED
    BY <1>2, <2>1, <2>2, <2>4
<1> QED
  BY <1>1, <1>2

\* After the pending write the line is in place as far as it was pushed.
LEMMA LineWritten ==
  ASSUME LcdTypeOK, LineWrite, NEW n \in 0..Rows - 1, Pushed(n)
  PROVE  \A x \in 0..LcdW - 1 : x < Pos => lines'[fill_sel][x] = n * LcdW + x
<1>1. Pos \in Int
  BY Sizes, PixelInLine DEF Pos, LcdTypeOK
<1>2. CASE wr_en
  <2> SUFFICES ASSUME NEW x \in 0..LcdW - 1, x < Pos
               PROVE  lines'[fill_sel][x] = n * LcdW + x
    OBVIOUS
  <2>1. lines'[fill_sel][x] = IF x = wr_addr THEN wr_data ELSE lines[fill_sel][x]
    BY <1>2, WriteLands
  <2>2. CASE x = Pos - 1
    BY <1>2, <2>1, <2>2 DEF Pushed
  <2>3. CASE x < Pos - 1
    BY <1>1, <1>2, <2>1, <2>3 DEF Pushed
  <2> QED
    BY <1>1, <2>2, <2>3
<1>3. CASE ~wr_en
  BY <1>1, <1>3, WriteLands DEF Pushed
<1> QED
  BY <1>2, <1>3

\* The line being filled stays the same line while the DMA goes on with it.
LEMMA FillGoesOn ==
  ASSUME LcdTypeOK, LineWrite, NEW n \in 0..Rows - 1, Pushed(n), BeatOK(n),
         Rest \/ Wait \/ PushMore \/ PushBeat \/ PushLine
  PROVE  Pushed(n)' /\ BeatOK(n)'
<1>1. \A x \in 0..LcdW - 1 : x < Pos => lines'[fill_sel][x] = n * LcdW + x
  BY LineWritten
<1>2. ASSUME Rest \/ Wait PROVE Pushed(n)' /\ BeatOK(n)'
  <2>1. wr_en' = FALSE /\ fill_sel' = fill_sel
    BY <1>2 DEF Rest, Wait
  <2>2. Pos' = Pos
    <3>1. CASE Rest
      BY <3>1 DEF Rest, Pos
    <3>2. CASE Wait
      <4>1. beat_cnt * BeatPix \in Nat /\ Pos = beat_cnt * BeatPix
        BY <3>2, Sizes DEF Wait, Pos, LcdTypeOK
      <4>2. Pos' = beat_cnt * BeatPix + 0 \/ Pos' = beat_cnt * BeatPix
        BY <3>2 DEF Wait, Pos
      <4> QED
        BY <4>1, <4>2
    <3> QED
      BY <1>2, <3>1, <3>2
  <2>3. Pushed(n)'
    BY <1>1, <2>1, <2>2 DEF Pushed
  <2>4. BeatOK(n)'
    BY <1>2 DEF Rest, Wait, BeatOK, Filling
  <2> QED
    BY <2>3, <2>4
<1>3. ASSUME PushMore \/ PushBeat \/ PushLine PROVE Pushed(n)' /\ BeatOK(n)'
  <2>1. /\ Push /\ d_st = "D_PUSH" /\ Filling
        /\ f_beat = n * LineBeats + beat_cnt /\ cap = f_beat
        /\ Pos = beat_cnt * BeatPix + pix_idx
    BY <1>3 DEF PushMore, PushBeat, PushLine, Push, BeatOK, Filling, Pos
  <2>2. /\ beat_cnt * BeatPix \in Nat /\ Pos \in 0..LcdW - 1
        /\ (beat_cnt + 1) * BeatPix = beat_cnt * BeatPix + BeatPix
    BY <2>1, PixelInLine DEF LcdTypeOK
  <2>3. wr_en' = TRUE /\ fill_sel' = fill_sel /\ wr_addr' = Pos /\ wr_data' = n * LcdW + Pos
    BY <2>1, PixelOfBeat, Sizes DEF Push, LcdTypeOK
  <2>4. Pos' = Pos + 1
    <3>1. CASE PushMore
      BY <3>1, <2>1, <2>2, Sizes DEF PushMore, Push, Pos, Filling, LcdTypeOK
    <3>2. CASE PushBeat
      BY <3>2, <2>1, <2>2, Sizes DEF PushBeat, Push, Pos, Filling, LcdTypeOK
    <3>3. CASE PushLine
      <4>1. LcdW = beat_cnt * BeatPix + BeatPix
        BY <3>3, <2>2, Sizes DEF PushLine
      <4> QED
        BY <3>3, <4>1, <2>1, <2>2, Sizes DEF PushLine, Push, Pos, Filling, LcdTypeOK
    <3> QED
      BY <1>3, <3>1, <3>2, <3>3
  <2>5. Pushed(n)'
    BY <1>1, <2>2, <2>3, <2>4 DEF Pushed
  <2>6. BeatOK(n)'
    <3>1. CASE PushMore
      BY <3>1, <2>1 DEF PushMore, Push, BeatOK, Filling
    <3>2. CASE PushBeat
      BY <3>2, <2>1, ScanOrder DEF PushBeat, BeatOK, Filling, LcdTypeOK
    <3>3. CASE PushLine
      BY <3>3, <2>1, ScanOrder DEF PushLine, BeatOK, Filling, LcdTypeOK
    <3> QED
      BY <1>3, <3>1, <3>2, <3>3
  <2> QED
    BY <2>5, <2>6
<1> QED
  BY <1>2, <1>3

\* A line that is begun is the one the scan has come to.
LEMMA FillBegins ==
  ASSUME LcdTypeOK, NEW m \in 0..Rows - 1, Begin, f_beat = m * LineBeats
  PROVE  Pushed(m)' /\ BeatOK(m)'
<1>1. Pos' = 0
  BY Sizes DEF Begin, Pos, Filling
<1>2. Pushed(m)'
  BY <1>1 DEF Begin, Pushed
<1>3. BeatOK(m)'
  BY Sizes DEF Begin, BeatOK, Filling
<1> QED
  BY <1>2, <1>3

\* What a buffer shows depends on that buffer alone.
LEMMA ShownKept ==
  ASSUME show_sel' = show_sel, lines'[show_sel] = lines[show_sel], NEW n \in 0..Rows - 1
  PROVE  /\ Blank(show_sel) => Blank(show_sel)'
         /\ IsLine(show_sel, n) => IsLine(show_sel, n)'
         /\ Precedes(show_sel, n) => Precedes(show_sel, n)'
BY DEF Blank, IsLine, Precedes

----------------------------------------------------------------------------
\* A step of the whole: an edge of each clock, of both, or of neither.

DmaMoves == Rest \/ Begin \/ Wait \/ PushMore \/ PushBeat \/ PushLine

PixOnly ==
  /\ Adopt \/ Keep
  /\ app_ticked /\ app_ticked' = FALSE
  /\ line_ack_p2' = line_ack_p1 /\ line_ack_p1' = line_ack_toggle
  /\ UNCHANGED <<dmaRegs, line_req_a1, line_req_a2, lines>>
AppOnly ==
  /\ Keep
  /\ app_ticked' = TRUE
  /\ DmaMoves /\ LineWrite
  /\ line_req_a2' = line_req_a1 /\ line_req_a1' = line_req_toggle
  /\ UNCHANGED <<line_ack_p1, line_ack_p2>>
Both ==
  /\ Adopt \/ Keep
  /\ app_ticked /\ app_ticked' = FALSE
  /\ DmaMoves /\ LineWrite
  /\ line_ack_p2' = line_ack_p1 /\ line_ack_p1' \in {line_ack_toggle, line_ack_toggle'}
  /\ line_req_a2' = line_req_a1 /\ line_req_a1' \in {line_req_toggle, line_req_toggle'}
Neither ==
  /\ Keep
  /\ UNCHANGED <<dmaRegs, line_req_a1, line_req_a2, line_ack_p1, line_ack_p2, lines, app_ticked>>

\* Every step is one of the four.
LEMMA StepCases ==
  ASSUME LcdTypeOK, [LcdNext]_lcdVars
  PROVE  PixOnly \/ AppOnly \/ Both \/ Neither
<1>1. CASE PixEdge
  BY <1>1, PanelCases DEF PixEdge, PixOnly
<1>2. ASSUME NEW rdy \in BOOLEAN, NEW valid \in BOOLEAN, AppEdge(rdy, valid) PROVE AppOnly
  <2>1. DmaMoves
    BY <1>2, DmaCases DEF AppEdge, DmaMoves
  <2> QED
    BY <1>2, <2>1 DEF AppEdge, AppTick, AppOnly, Keep, panelRegs
<1>3. ASSUME NEW rdy \in BOOLEAN, NEW valid \in BOOLEAN, BothEdges(rdy, valid) PROVE Both
  <2>1. DmaMoves
    BY <1>3, DmaCases DEF BothEdges, DmaMoves
  <2> QED
    BY <1>3, <2>1, PanelCases DEF BothEdges, AppTick, Both, Sample
<1>4. CASE Calibrate
  BY <1>4 DEF Calibrate, Neither, Keep, panelRegs
<1>5. CASE UNCHANGED lcdVars
  BY <1>5 DEF lcdVars, Neither, Keep, panelRegs
<1> QED
  BY <1>1, <1>2, <1>3, <1>4, <1>5 DEF LcdNext

\* Every register and every buffer keeps to its values.
LEMMA TypeStep ==
  ASSUME LcdTypeOK, PixOnly \/ AppOnly \/ Both \/ Neither
  PROVE  LcdTypeOK'
<1>1. ASSUME DmaMoves, LineWrite
      PROVE  /\ d_st' \in DStates /\ wr_en' \in BOOLEAN /\ primed' \in BOOLEAN
             /\ fill_sel' \in {0, 1} /\ line_ack_toggle' \in {0, 1} /\ line_req_seen' \in {0, 1}
             /\ beat_cnt' \in 0..LineBeats - 1 /\ pix_idx' \in 0..BeatPix - 1
             /\ f_beat' \in Nat /\ cap' \in Nat /\ wr_data' \in Nat /\ wr_addr' \in 0..LcdW - 1
             /\ lines' \in [{0, 1} -> [0..LcdW - 1 -> Int]]
  <2>1. CASE Rest
    BY <1>1, <2>1, WriteLands DEF Rest, LcdTypeOK
  <2>2. CASE Begin
    <3>1. 0 \in 0..LineBeats - 1 /\ 0 \in 0..BeatPix - 1 /\ "D_REQ" \in DStates
      BY Sizes DEF DStates
    <3>2. 1 - fill_sel \in {0, 1}
      BY DEF LcdTypeOK
    <3> QED
      BY <1>1, <2>2, <3>1, <3>2, WriteLands DEF Begin, LcdTypeOK
  <2>3. CASE Wait
    <3>1. pix_idx' \in 0..BeatPix - 1
      BY <2>3, Sizes DEF Wait, LcdTypeOK
    <3>2. cap' \in Nat
      BY <2>3 DEF Wait, LcdTypeOK
    <3> QED
      BY <1>1, <2>3, <3>1, <3>2, WriteLands DEF Wait, LcdTypeOK
  <2>4. CASE PushMore \/ PushBeat \/ PushLine
    <3>1. /\ Push /\ beat_cnt' \in 0..LineBeats - 1 /\ pix_idx' \in 0..BeatPix - 1 /\ d_st' \in DStates
          /\ line_ack_toggle' \in {0, 1}
      BY <2>4, Sizes DEF PushMore, PushBeat, PushLine, Push, LcdTypeOK, DStates
    <3>2. NextBeat(f_beat) \in Nat
      BY DEF NextBeat, LcdTypeOK
    <3>3. f_beat' \in Nat
      BY <2>4, <3>2 DEF PushMore, PushBeat, PushLine, LcdTypeOK
    <3>4. wr_addr' \in 0..LcdW - 1
      BY <3>1, PixelInLine DEF Push, LcdTypeOK
    <3>5. wr_data' \in Nat
      BY <3>1, Sizes DEF Push, LcdTypeOK
    <3> QED
      BY <1>1, <3>1, <3>3, <3>4, <3>5, WriteLands DEF Push, LcdTypeOK
  <2> QED
    BY <1>1, <2>1, <2>2, <2>3, <2>4 DEF DmaMoves
<1>2. ASSUME Adopt \/ Keep
      PROVE  show_sel' \in {0, 1} /\ line_req_toggle' \in {0, 1} /\ line_ack_seen' \in {0, 1}
  BY <1>2 DEF Adopt, Keep, LcdTypeOK
<1>3. CASE PixOnly
  BY <1>2, <1>3 DEF PixOnly, LcdTypeOK, dmaRegs
<1>4. CASE AppOnly
  BY <1>1, <1>2, <1>4 DEF AppOnly, LcdTypeOK
<1>5. CASE Both
  <2>1. DmaMoves /\ LineWrite /\ (Adopt \/ Keep)
    BY <1>5 DEF Both
  <2>2. /\ line_ack_p2' \in {0, 1} /\ line_ack_p1' \in {0, 1}
        /\ line_req_a2' \in {0, 1} /\ line_req_a1' \in {0, 1} /\ app_ticked' \in BOOLEAN
    BY <1>1, <1>2, <1>5, <2>1 DEF Both, LcdTypeOK
  <2> QED
    BY <1>1, <1>2, <2>1, <2>2 DEF LcdTypeOK
<1>6. CASE Neither
  BY <1>2, <1>6 DEF Neither, LcdTypeOK, dmaRegs
<1> QED
  BY <1>3, <1>4, <1>5, <1>6

\* The token goes round, and the buffers with it.
LEMMA HandshakeStep ==
  ASSUME LcdTypeOK, TokenInv, BufferInv, PixOnly \/ AppOnly \/ Both \/ Neither
  PROVE  TokenInv' /\ BufferInv'
<1> USE DEF TokenInv, BufferInv, Filling, AckBusy, ReqBusy, Adopt, Keep
<1>t. /\ fill_sel \in {0, 1} /\ show_sel \in {0, 1} /\ app_ticked \in BOOLEAN
      /\ wr_en \in BOOLEAN /\ primed \in BOOLEAN
      /\ line_req_toggle \in {0, 1} /\ line_req_a1 \in {0, 1} /\ line_req_a2 \in {0, 1} /\ line_req_seen \in {0, 1}
      /\ line_ack_toggle \in {0, 1} /\ line_ack_p1 \in {0, 1} /\ line_ack_p2 \in {0, 1} /\ line_ack_seen \in {0, 1}
  BY DEF LcdTypeOK
<1>1. CASE PixOnly
  BY <1>1, <1>t DEF PixOnly, dmaRegs
<1>2. CASE AppOnly
  <2>1. CASE Rest
    BY <1>2, <1>t, <2>1 DEF AppOnly, Rest
  <2>2. CASE Begin
    BY <1>2, <1>t, <2>2 DEF AppOnly, Begin
  <2>3. CASE Wait
    BY <1>2, <1>t, <2>3 DEF AppOnly, Wait
  <2>4. CASE PushMore \/ PushBeat
    BY <1>2, <1>t, <2>4 DEF AppOnly, PushMore, PushBeat, Push
  <2>5. CASE PushLine
    BY <1>2, <1>t, <2>5 DEF AppOnly, PushLine, Push
  <2> QED
    BY <1>2, <2>1, <2>2, <2>3, <2>4, <2>5 DEF AppOnly, DmaMoves
<1>3. CASE Both
  <2>1. CASE Rest
    BY <1>3, <1>t, <2>1 DEF Both, Rest
  <2>2. CASE Begin
    BY <1>3, <1>t, <2>2 DEF Both, Begin
  <2>3. CASE Wait
    BY <1>3, <1>t, <2>3 DEF Both, Wait
  <2>4. CASE PushMore \/ PushBeat
    BY <1>3, <1>t, <2>4 DEF Both, PushMore, PushBeat, Push
  <2>5. CASE PushLine
    BY <1>3, <1>t, <2>5 DEF Both, PushLine, Push
  <2> QED
    BY <1>3, <2>1, <2>2, <2>3, <2>4, <2>5 DEF Both, DmaMoves
<1>4. CASE Neither
  BY <1>4, <1>t DEF Neither, dmaRegs
<1> QED
  BY <1>1, <1>2, <1>3, <1>4

\* The line that is, or was last, filled; the next one once it is begun.
LEMMA LineStep ==
  ASSUME LcdTypeOK, TokenInv, BufferInv, PixOnly \/ AppOnly \/ Both \/ Neither,
         NEW n \in 0..Rows - 1, LineInv(n)
  PROVE  \E m \in 0..Rows - 1 : LineInv(m)'
<1> USE DEF AckBusy, ReqBusy
<1>t. /\ fill_sel \in {0, 1} /\ show_sel \in {0, 1} /\ app_ticked \in BOOLEAN
      /\ wr_en \in BOOLEAN /\ primed \in BOOLEAN
      /\ line_req_toggle \in {0, 1} /\ line_req_a1 \in {0, 1} /\ line_req_a2 \in {0, 1} /\ line_req_seen \in {0, 1}
      /\ line_ack_toggle \in {0, 1} /\ line_ack_p1 \in {0, 1} /\ line_ack_p2 \in {0, 1} /\ line_ack_seen \in {0, 1}
  BY DEF LcdTypeOK
<1>h. TokenInv' /\ BufferInv'
  BY HandshakeStep
<1>1. CASE Adopt
  <2>1. AckBusy /\ line_ack_p2 = line_ack_toggle
    BY <1>1, <1>t DEF Adopt, TokenInv
  <2>2. /\ ~Filling /\ ~ReqBusy /\ ~wr_en /\ primed /\ fill_sel # show_sel
        /\ line_req_a2 = line_req_seen
    BY <2>1, <1>t DEF TokenInv, BufferInv
  <2>3. /\ UNCHANGED <<d_st, f_beat, beat_cnt, cap, fill_sel, primed, line_ack_toggle, line_req_seen>>
        /\ lines' = lines
    <3>1. ~Begin /\ ~Wait /\ ~Push
      BY <2>2 DEF Begin, Wait, Push, Filling
    <3>2. Rest \/ UNCHANGED dmaRegs
      BY <1>1, <3>1, <1>t DEF PixOnly, AppOnly, Both, Neither, DmaMoves, PushMore, PushBeat, PushLine, Adopt, Keep
    <3>3. LineWrite \/ lines' = lines
      BY DEF PixOnly, AppOnly, Both, Neither
    <3> QED
      BY <2>2, <3>2, <3>3 DEF Rest, dmaRegs, LineWrite
  <2>4. IsLine(fill_sel, n)
    BY <2>1, <2>2, Sizes DEF LineInv, Pushed, Pos, IsLine
  <2>5. show_sel' = fill_sel /\ ~AckBusy' /\ ~Filling'
    BY <1>1, <1>t, <2>1, <2>2, <2>3 DEF Adopt, Filling
  <2>6. IsLine(show_sel, n)'
    BY <2>3, <2>4, <2>5 DEF IsLine
  <2>7. BeatOK(n)'
    BY <2>2, <2>3 DEF LineInv, BeatOK, Filling
  <2> QED
    BY <2>2, <2>3, <2>5, <2>6, <2>7 DEF LineInv
<1>2. CASE Keep /\ Begin /\ LineWrite
  <2>1. /\ ~AckBusy /\ ~wr_en /\ (~primed \/ ReqBusy) /\ ~Filling
        /\ ReqBusy => primed
    BY <1>2, <1>t DEF Begin, TokenInv, BufferInv
  <2>2. show_sel' = show_sel /\ lines' = lines /\ Filling' /\ primed'
    BY <1>2, <2>1 DEF Keep, Begin, LineWrite, Filling
  <2>3. ~ReqBusy' /\ ~AckBusy'
    BY <1>h, <2>2 DEF TokenInv
  <2>4. CASE ~primed
    <3>1. n = 0 /\ f_beat = 0 * LineBeats /\ Blank(show_sel)
      BY <2>4, Sizes DEF LineInv
    <3>2. Pushed(n)' /\ BeatOK(n)'
      BY <1>2, <3>1, FillBegins
    <3>3. Precedes(show_sel, n)'
      BY <2>2, <3>1, ShownKept DEF Precedes
    <3> QED
      BY <2>2, <2>3, <3>2, <3>3 DEF LineInv
  <2>5. CASE ReqBusy
    <3> DEFINE m == NextLine(n)
    <3>1. m \in 0..Rows - 1
      BY Sizes DEF NextLine
    <3>2. f_beat = m * LineBeats /\ IsLine(show_sel, n)
      BY <2>1, <2>5 DEF LineInv, BeatOK
    <3>3. Pushed(m)' /\ BeatOK(m)'
      BY <1>2, <3>1, <3>2, FillBegins
    <3>4. Precedes(show_sel, m)'
      <4>1. IsLine(show_sel, n)'
        BY <2>2, <3>2, ShownKept
      <4> QED
        BY <4>1 DEF Precedes
    <3>5. LineInv(m)'
      BY <2>2, <2>3, <3>3, <3>4 DEF LineInv
    <3> QED
      BY <3>1, <3>5
  <2> QED
    BY <2>1, <2>4, <2>5
<1>3. CASE Keep /\ LineWrite /\ (Rest \/ Wait \/ PushMore \/ PushBeat \/ PushLine)
  <2>1. /\ show_sel' = show_sel /\ primed' = primed /\ fill_sel' = fill_sel
        /\ line_req_toggle' = line_req_toggle /\ line_req_seen' = line_req_seen
        /\ line_ack_seen' = line_ack_seen
    BY <1>3 DEF Keep, Rest, Wait, PushMore, PushBeat, PushLine, Push
  <2>2. CASE Filling \/ AckBusy
    <3>1. primed /\ ~ReqBusy /\ fill_sel # show_sel
      BY <2>2, <1>t DEF TokenInv, BufferInv
    <3>2. Pushed(n)' /\ BeatOK(n)'
      BY <1>3, <2>2, <3>1, FillGoesOn DEF LineInv
    <3>3. lines'[show_sel] = lines[show_sel]
      BY <1>3, <1>t, <3>1, WriteLands
    <3>4. Precedes(show_sel, n)'
      BY <2>1, <2>2, <3>3, ShownKept DEF LineInv
    <3> QED
      BY <2>1, <3>1, <3>2, <3>4 DEF LineInv
  <2>3. CASE ~Filling /\ ~AckBusy
    <3>1. Rest /\ ~wr_en
      BY <1>3, <2>3 DEF Wait, PushMore, PushBeat, PushLine, Push, Filling, BufferInv
    <3>2. /\ lines' = lines /\ ~Filling' /\ ~AckBusy'
          /\ UNCHANGED <<d_st, f_beat, beat_cnt, cap>>
      BY <1>3, <2>1, <2>3, <3>1 DEF LineWrite, Rest
    <3>3. BeatOK(n) => BeatOK(n)'
      BY <3>2 DEF BeatOK, Filling
    <3> QED
      BY <2>1, <2>3, <3>2, <3>3, ShownKept DEF LineInv
  <2> QED
    BY <2>2, <2>3
<1>4. CASE Keep /\ UNCHANGED <<dmaRegs, lines>>
  <2>1. LineInv(n)'
    BY <1>4 DEF Keep, dmaRegs, LineInv, BeatOK, Pushed, Precedes, IsLine, Blank, Filling, Pos
  <2> QED
    BY <2>1
<1> QED
  BY <1>1, <1>2, <1>3, <1>4 DEF PixOnly, AppOnly, Both, Neither, DmaMoves

----------------------------------------------------------------------------

\* The DMA and the panel start in the invariant.
LEMMA LcdInitInv == LcdInit => LcdInv
<1> SUFFICES ASSUME LcdInit PROVE LcdInv
  OBVIOUS
<1> USE DEF LcdInit, PanelInit, DmaInit, Filling, AckBusy, ReqBusy
<1>1. LcdTypeOK
  <2>1. lines \in [{0, 1} -> [0..LcdW - 1 -> Int]]
    OBVIOUS
  <2>2. 0 \in 0..LcdW - 1 /\ 0 \in 0..LineBeats - 1 /\ 0 \in 0..BeatPix - 1
    BY Sizes
  <2> QED
    BY <2>1, <2>2 DEF LcdTypeOK, DStates
<1>2. TokenInv /\ BufferInv
  BY DEF TokenInv, BufferInv
<1>3. Blank(show_sel)
  BY DEF Blank
<1>4. LineInv(0)
  BY <1>3 DEF LineInv
<1> QED
  BY <1>1, <1>2, <1>4, Sizes DEF LcdInv

\* Every edge keeps the invariant.
LEMMA LcdStep == LcdInv /\ [LcdNext]_lcdVars => LcdInv'
BY StepCases, TypeStep, HandshakeStep, LineStep DEF LcdInv

\* The invariant holds in every state of the LCD.
THEOREM LcdInvariant == LcdSpec => []LcdInv
BY LcdInitInv, LcdStep, PTL DEF LcdSpec

\* The DMA never writes into the buffer that is shown, for every video timing
\* and every service of the APP port.
THEOREM NeverTears == LcdSpec => []NoTearing
<1>1. LcdInv => NoTearing
  BY DEF LcdInv, BufferInv, NoTearing
<1> QED
  BY <1>1, LcdInvariant, PTL

\* Line n, joined from its pixels, is line n.
LEMMA ShownLineOf ==
  ASSUME NEW b, NEW n \in Nat, IsLine(b, n)
  PROVE  ShownLine(b) = n /\ Whole(b) /\ ~Blank(b)
<1>1. lines[b][0] = n * LcdW + 0
  BY Sizes DEF IsLine
<1>2. (n * LcdW + 0) \div LcdW = n
  BY Sizes
<1>3. ShownLine(b) = n
  BY <1>1, <1>2 DEF ShownLine
<1> QED
  BY <1>1, <1>3, Sizes DEF IsLine, Whole, Blank

\* What is shown is one whole line of the frame, or the reset contents.
THEOREM ShowsWholeLines == LcdSpec => []ShownLineWhole
<1>1. LcdInv => ShownLineWhole
  <2> SUFFICES ASSUME LcdInv PROVE ShownLineWhole
    OBVIOUS
  <2>1. PICK n \in 0..Rows - 1 : LineInv(n)
    BY DEF LcdInv
  <2>2. Blank(show_sel) \/ \E s \in 0..Rows - 1 : IsLine(show_sel, s)
    BY <2>1 DEF LcdInv, TokenInv, LineInv, Precedes
  <2> QED
    BY <2>2, ShownLineOf, Sizes DEF ShownLineWhole
<1> QED
  BY <1>1, LcdInvariant, PTL

\* The lines of the frame are shown one after the other, none skipped and none
\* twice, however late the DMA is.
THEOREM ShowsLinesInOrder == LcdSpec => LinesInOrder
<1> DEFINE A == show_sel' # show_sel =>
       ShownLine(show_sel') = IF Blank(show_sel) THEN 0 ELSE (ShownLine(show_sel) + 1) % Rows
<1>1. LcdInv /\ [LcdNext]_lcdVars => [A]_lcdVars
  <2> SUFFICES ASSUME LcdInv, LcdNext, show_sel' # show_sel PROVE A
    OBVIOUS
  <2>t. /\ LcdTypeOK /\ TokenInv /\ BufferInv
        /\ fill_sel \in {0, 1} /\ show_sel \in {0, 1}
        /\ line_ack_toggle \in {0, 1} /\ line_ack_p2 \in {0, 1} /\ line_ack_seen \in {0, 1}
    BY DEF LcdInv, LcdTypeOK
  <2>1. Adopt
    BY <2>t, StepCases DEF PixOnly, AppOnly, Both, Neither, Keep
  <2>2. AckBusy /\ line_ack_p2 = line_ack_toggle
    BY <2>1, <2>t DEF Adopt, TokenInv, AckBusy
  <2>3. ~wr_en /\ ~Filling /\ show_sel' = fill_sel
    BY <2>1, <2>2, <2>t DEF Adopt, TokenInv, BufferInv
  <2>4. PICK n \in 0..Rows - 1 : LineInv(n)
    BY DEF LcdInv
  <2>5. IsLine(show_sel', n)
    BY <2>2, <2>3, <2>4, Sizes DEF LineInv, Pushed, Pos, IsLine
  <2>6. ShownLine(show_sel') = n
    BY <2>5, ShownLineOf, Sizes
  <2>7. Precedes(show_sel, n)
    BY <2>2, <2>4 DEF LineInv
  <2>8. CASE n = 0 /\ Blank(show_sel)
    BY <2>6, <2>8
  <2>9. ASSUME NEW s \in 0..Rows - 1, n = NextLine(s), IsLine(show_sel, s) PROVE A
    <3>1. ShownLine(show_sel) = s /\ ~Blank(show_sel)
      BY <2>9, ShownLineOf, Sizes
    <3>2. (s + 1) % Rows = NextLine(s)
      BY Sizes DEF NextLine
    <3> QED
      BY <2>6, <2>9, <3>1, <3>2
  <2> QED
    BY <2>7, <2>8, <2>9 DEF Precedes
<1> QED
  BY <1>1, LcdInvariant, PTL DEF LcdSpec, LinesInOrder

(***************************************************************************)
(* Xmodem: the boot loader and its sender.                                 *)
(***************************************************************************)

\* Wherever a checksum is on its way, what is left of its frame is before it:
\* each byte the sender's or noise.
WholeFrames(s) ==
  \A i \in 1..Len(s) : s[i] > 255 =>
    \E n \in 1..Len(Image) :
      /\ s[i] = crc16_ccitt(Image[n])
      /\ \A j \in 1..DataSize + 2 :
           j < i => s[i - j] \in {Frame(n)[DataSize + 4 - j]} \union Noise

LineOK ==
  /\ line \in Seq(Int) /\ got \in Seq(Int) /\ index \in 1..Len(Image)
  /\ Len(got) < DataSize + 3 /\ (r_pc # "block" => got = <<>>)
  /\ WholeFrames(got \o line)

StoredOK ==
  /\ stored \in Seq(Seq(Byte)) /\ Len(stored) <= Len(Image)
  /\ expected_block = (Len(stored) + 1) % BlockMod
  /\ \A k \in 1..Len(stored) : stored[k] = Image[k]
  /\ r_pc = "ok" => Len(stored) = Len(Image)

XmodemInv == LineOK /\ StoredOK

----------------------------------------------------------------------------
\* The constants.

\* The image's blocks are all of one size, which is a number of bytes.
LEMMA SizeFacts == DataSize \in Nat /\ Len(Image) \in Nat /\ Len(Image) >= 1
<1>1. Image \in Seq(Seq(Byte)) /\ Len(Image) >= 1 BY XmodemAssumption
<1>2. Image[1] \in Seq(Byte) BY <1>1
<1> QED BY <1>1, <1>2, XmodemAssumption DEF DataSize

LEMMA ImageFacts ==
  /\ DOMAIN Image = 1..Len(Image)
  /\ \A n \in 1..Len(Image) : Image[n] \in Seq(Byte) /\ Len(Image[n]) = DataSize
BY XmodemAssumption

\* The checksum is no byte, and that of a block of the image is its alone.
LEMMA CrcFacts ==
  /\ \A data : crc16_ccitt(data) \in Int /\ crc16_ccitt(data) > 255
  /\ \A n \in 1..Len(Image) : \A data :
        crc16_ccitt(data) = crc16_ccitt(Image[n]) => data = Image[n]
<1> DEFINE at(data) == CHOOSE n \in DOMAIN Image : Image[n] = data
<1>1. ASSUME NEW data, \E n \in DOMAIN Image : Image[n] = data
      PROVE  at(data) \in 1..Len(Image) /\ Image[at(data)] = data
             /\ crc16_ccitt(data) = 256 + at(data)
  BY <1>1, ImageFacts DEF crc16_ccitt
<1>2. ASSUME NEW data, ~ \E n \in DOMAIN Image : Image[n] = data
      PROVE  crc16_ccitt(data) = 256
  BY <1>2 DEF crc16_ccitt
<1> HIDE DEF at
<1>3. ASSUME NEW data PROVE crc16_ccitt(data) \in Int /\ crc16_ccitt(data) > 255
  BY <1>1, <1>2, SizeFacts
<1>4. ASSUME NEW n \in 1..Len(Image), NEW data, crc16_ccitt(data) = crc16_ccitt(Image[n])
      PROVE  data = Image[n]
  <2>1. at(Image[n]) \in 1..Len(Image) /\ Image[at(Image[n])] = Image[n]
        /\ crc16_ccitt(Image[n]) = 256 + at(Image[n])
    BY <1>1, ImageFacts
  <2>2. \E m \in DOMAIN Image : Image[m] = data BY <1>2, <1>4, <2>1, ImageFacts
  <2>3. at(data) \in 1..Len(Image) /\ Image[at(data)] = data /\ crc16_ccitt(data) = 256 + at(data)
    BY <1>1, <2>2
  <2> QED BY <1>4, <2>1, <2>3
<1> QED BY <1>3, <1>4

\* Two sequences one behind the other, element by element.
LEMMA ConcatFacts ==
  ASSUME NEW a \in Seq(Int), NEW b \in Seq(Int)
  PROVE  /\ a \o b \in Seq(Int) /\ Len(a \o b) = Len(a) + Len(b)
         /\ \A i \in 1..Len(a) : (a \o b)[i] = a[i]
         /\ \A i \in 1..Len(b) : (a \o b)[Len(a) + i] = b[i]
OBVIOUS

LEMMA ConcatTwo ==
  ASSUME NEW a \in Seq(Int), NEW b \in Seq(Int), NEW c \in Seq(Int)
  PROVE  a \o (b \o c) = (a \o b) \o c
<1>1. a \in Seq(Int) /\ b \in Seq(Int) /\ c \in Seq(Int) OBVIOUS
<1>2. (a \o b) \o c = a \o (b \o c) BY <1>1, ConcatAssociative
<1> QED BY <1>2

\* A sequence whose first element is moved to the end of what comes before it.
LEMMA HeadTailConcat ==
  ASSUME NEW a \in Seq(Int), NEW b \in Seq(Int), b # <<>>
  PROVE  Append(a, Head(b)) \o Tail(b) = a \o b
<1>1. Head(b) \in Int /\ Tail(b) \in Seq(Int) BY HeadTailProperties
<1>2. <<Head(b)>> \in Seq(Int) /\ Append(a, Head(b)) = a \o <<Head(b)>> BY <1>1, AppendIsConcat
<1>3. <<Head(b)>> \o Tail(b) = b
  <2> DEFINE t == <<Head(b)>> \o Tail(b)
  <2>1. Len(<<Head(b)>>) = 1 /\ <<Head(b)>>[1] = b[1] /\ Len(b) \in Nat /\ Len(b) > 0 BY <1>1
  <2>2. Len(Tail(b)) = Len(b) - 1 /\ \A i \in 1..Len(Tail(b)) : Tail(b)[i] = b[i + 1] BY HeadTailProperties
  <2>3. /\ t \in Seq(Int) /\ Len(t) = 1 + Len(Tail(b)) /\ t[1] = b[1]
        /\ \A i \in 1..Len(Tail(b)) : t[1 + i] = Tail(b)[i]
    BY <1>1, <1>2, <2>1, ConcatFacts
  <2> HIDE DEF t
  <2>4. ASSUME NEW i \in 1..Len(b) PROVE t[i] = b[i]
    <3>1. CASE i = 1 BY <2>3, <3>1
    <3>2. CASE i # 1
      <4>1. PICK j \in 1..Len(Tail(b)) : i = 1 + j
        <5>1. i - 1 \in 1..Len(Tail(b)) /\ i = 1 + (i - 1) BY <2>1, <2>2, <3>2
        <5> QED BY <5>1
      <4> QED BY <2>2, <2>3, <4>1
    <3> QED BY <3>1, <3>2
  <2>5. Len(t) = Len(b) BY <2>1, <2>2, <2>3
  <2> QED BY <2>3, <2>4, <2>5, SeqEqual DEF t
<1> QED BY <1>1, <1>2, <1>3, ConcatAssociative

\* A frame: the block's number, the complement of it, and the checksum behind
\* the data, the only symbol of the frame that is no byte.
LEMMA FrameFacts ==
  ASSUME NEW n \in 1..Len(Image)
  PROVE  /\ Frame(n) \in Seq(Int) /\ Len(Frame(n)) = DataSize + 4
         /\ Frame(n)[2] = n % BlockMod /\ Frame(n)[3] = BlockMod - 1 - (n % BlockMod)
         /\ Frame(n)[DataSize + 4] = crc16_ccitt(Image[n])
         /\ \A i \in 1..DataSize + 3 : Frame(n)[i] <= 255
<1> DEFINE number == n % BlockMod
           complement == BlockMod - 1 - number
           head == <<SOH, number, complement>>
           data == Image[n]
           crc == <<crc16_ccitt(data)>>
           front == head \o data
<1>1. number \in 0..255 /\ complement \in 0..255
  <2>1. n \in Nat /\ BlockMod \in 2..256 BY XmodemAssumption, SizeFacts
  <2>2. number \in 0..BlockMod - 1 BY <2>1
  <2> HIDE DEF number
  <2> QED BY <2>1, <2>2 DEF complement
<1> HIDE DEF number, complement
<1>2. head \in Seq(Int) /\ Len(head) = 3 /\ head[2] = number /\ head[3] = complement
      /\ \A i \in 1..3 : head[i] <= 255
  BY <1>1 DEF SOH
<1>3. data \in Seq(Int) /\ Len(data) = DataSize /\ \A i \in 1..DataSize : data[i] <= 255
  <2>1. data \in Seq(Byte) /\ Len(data) = DataSize BY ImageFacts
  <2> HIDE DEF data
  <2>2. data \in [1..DataSize -> Byte] BY <2>1
  <2>3. ASSUME NEW i \in 1..DataSize PROVE data[i] \in Int /\ data[i] <= 255
    <3>1. data[i] \in Byte BY <2>2
    <3>2. \A x \in Byte : x \in Int /\ x <= 255 BY DEF Byte
    <3> QED BY <3>1, <3>2
  <2> QED BY <2>1, <2>3
<1> HIDE DEF data
<1>4. crc \in Seq(Int) /\ Len(crc) = 1 /\ crc[1] = crc16_ccitt(data) BY CrcFacts
<1> HIDE DEF head, crc
<1>5. /\ front \in Seq(Int) /\ Len(front) = 3 + DataSize
      /\ \A i \in 1..3 : front[i] = head[i]
      /\ \A i \in 1..DataSize : front[3 + i] = data[i]
  <2>1. /\ front \in Seq(Int) /\ Len(front) = Len(head) + Len(data)
        /\ \A i \in 1..Len(head) : front[i] = head[i]
        /\ \A i \in 1..Len(data) : front[Len(head) + i] = data[i]
    BY <1>2, <1>3, ConcatFacts
  <2> QED BY <1>2, <1>3, <2>1
<1>6. ASSUME NEW i \in 1..DataSize + 3 PROVE front[i] <= 255
  <2>1. CASE i <= 3
    <3>1. i \in 1..3 BY <2>1, SizeFacts
    <3> QED BY <1>2, <1>5, <3>1
  <2>2. CASE i > 3
    <3>1. i - 3 \in 1..DataSize /\ 3 + (i - 3) = i BY <2>2, SizeFacts
    <3> QED BY <1>3, <1>5, <3>1
  <2>3. i <= 3 \/ i > 3 BY SizeFacts
  <2> QED BY <2>1, <2>2, <2>3
<1> HIDE DEF front
<1>7. /\ front \o crc \in Seq(Int) /\ Len(front \o crc) = (3 + DataSize) + 1
      /\ \A i \in 1..3 + DataSize : (front \o crc)[i] = front[i]
      /\ (front \o crc)[(3 + DataSize) + 1] = crc[1]
  <2>1. /\ front \o crc \in Seq(Int) /\ Len(front \o crc) = Len(front) + Len(crc)
        /\ \A i \in 1..Len(front) : (front \o crc)[i] = front[i]
        /\ \A i \in 1..Len(crc) : (front \o crc)[Len(front) + i] = crc[i]
    BY <1>4, <1>5, ConcatFacts
  <2> QED BY <1>4, <1>5, <2>1
<1>8. Frame(n) = front \o crc BY DEF Frame, front, head, data, crc, number, complement
<1>9. 2 \in 1..3 + DataSize /\ 3 \in 1..3 + DataSize /\ 3 + DataSize = DataSize + 3
      /\ (3 + DataSize) + 1 = DataSize + 4
  BY SizeFacts
<1>10. front[2] = number /\ front[3] = complement BY <1>2, <1>5
<1> QED BY <1>4, <1>6, <1>7, <1>8, <1>9, <1>10 DEF number, complement, data

\* A block number wraps only where there are as many blocks as numbers.
LEMMA NumberFacts == \A n \in 0..Len(Image) : n % BlockMod = n
<1>1. ASSUME NEW n \in Nat, NEW m \in Nat, n < m PROVE n % m = n BY <1>1
<1>2. BlockMod \in Nat /\ Len(Image) \in Nat /\ Len(Image) < BlockMod BY XmodemAssumption
<1>3. \A n \in 0..Len(Image) : n \in Nat /\ n < BlockMod BY <1>2
<1> QED BY <1>1, <1>2, <1>3

----------------------------------------------------------------------------
\* What is on the line.

\* What is left of the line when its beginning has been read.
LEMMA WholeFramesSuffix ==
  ASSUME NEW s \in Seq(Int), NEW t \in Seq(Int), WholeFrames(s \o t)
  PROVE  WholeFrames(t)
<1> DEFINE st == s \o t
<1>1. st \in Seq(Int) /\ Len(st) = Len(s) + Len(t) /\ \A i \in 1..Len(t) : st[Len(s) + i] = t[i]
  OBVIOUS
<1> HIDE DEF st
<1>2. SUFFICES ASSUME NEW i \in 1..Len(t), t[i] > 255
      PROVE  \E n \in 1..Len(Image) :
               /\ t[i] = crc16_ccitt(Image[n])
               /\ \A j \in 1..DataSize + 2 :
                    j < i => t[i - j] \in {Frame(n)[DataSize + 4 - j]} \union Noise
  BY DEF WholeFrames
<1>3. PICK p \in 1..Len(st) : p = Len(s) + i /\ st[p] = t[i]
  <2>1. Len(s) + i \in 1..Len(st) BY <1>1
  <2> QED BY <1>1, <2>1
<1>4. WholeFrames(st) BY DEF st
<1>5. PICK n \in 1..Len(Image) :
        /\ st[p] = crc16_ccitt(Image[n])
        /\ \A j \in 1..DataSize + 2 : j < p => st[p - j] \in {Frame(n)[DataSize + 4 - j]} \union Noise
  BY <1>2, <1>3, <1>4 DEF WholeFrames
<1>6. ASSUME NEW j \in 1..DataSize + 2, j < i
      PROVE  t[i - j] \in {Frame(n)[DataSize + 4 - j]} \union Noise
  <2>1. j \in Nat BY SizeFacts
  <2>2. i - j \in 1..Len(t) BY <1>6, <2>1
  <2>3. st[Len(s) + (i - j)] = t[i - j] BY <1>1, <2>2
  <2>4. p - j = Len(s) + (i - j) /\ j < p BY <1>3, <1>6, <2>1
  <2> QED BY <1>5, <2>3, <2>4
<1> QED BY <1>3, <1>5, <1>6

\* A byte more.
LEMMA WholeFramesByte ==
  ASSUME NEW s \in Seq(Int), NEW c \in Int, c <= 255, WholeFrames(s)
  PROVE  Append(s, c) \in Seq(Int) /\ WholeFrames(Append(s, c))
<1> DEFINE t == Append(s, c)
<1>1. t \in Seq(Int) /\ Len(t) = Len(s) + 1 /\ t[Len(s) + 1] = c /\ \A i \in 1..Len(s) : t[i] = s[i]
  OBVIOUS
<1> HIDE DEF t
<1>2. ASSUME NEW i \in 1..Len(t), t[i] > 255
      PROVE  \E n \in 1..Len(Image) :
               /\ t[i] = crc16_ccitt(Image[n])
               /\ \A j \in 1..DataSize + 2 :
                    j < i => t[i - j] \in {Frame(n)[DataSize + 4 - j]} \union Noise
  <2>1. i \in 1..Len(s) BY <1>1, <1>2
  <2>2. ASSUME NEW j \in 1..DataSize + 2, j < i PROVE t[i - j] = s[i - j]
    <3>1. i - j \in 1..Len(s) BY <2>1, <2>2, SizeFacts
    <3> QED BY <1>1, <3>1
  <2>3. t[i] = s[i] /\ s[i] > 255 BY <1>1, <1>2, <2>1
  <2> QED BY <2>1, <2>2, <2>3 DEF WholeFrames
<1> QED BY <1>1, <1>2 DEF WholeFrames, t

\* A frame more.
LEMMA WholeFramesFrame ==
  ASSUME NEW s \in Seq(Int), NEW m \in 1..Len(Image), WholeFrames(s)
  PROVE  WholeFrames(s \o Frame(m))
<1> DEFINE f == Frame(m)
           t == s \o f
<1>1. f \in Seq(Int) /\ Len(f) = DataSize + 4 /\ f[DataSize + 4] = crc16_ccitt(Image[m])
      /\ \A i \in 1..DataSize + 3 : f[i] <= 255
  BY FrameFacts
<1>2. t \in Seq(Int) /\ Len(t) = Len(s) + Len(f)
      /\ (\A i \in 1..Len(s) : t[i] = s[i]) /\ \A i \in 1..Len(f) : t[Len(s) + i] = f[i]
  BY <1>1
<1> HIDE DEF t
<1>3. ASSUME NEW i \in 1..Len(t), t[i] > 255
      PROVE  \E n \in 1..Len(Image) :
               /\ t[i] = crc16_ccitt(Image[n])
               /\ \A j \in 1..DataSize + 2 :
                    j < i => t[i - j] \in {Frame(n)[DataSize + 4 - j]} \union Noise
  <2>1. CASE i <= Len(s)
    <3>1. ASSUME NEW j \in 1..DataSize + 2, j < i PROVE t[i - j] = s[i - j]
      <4>1. i - j \in 1..Len(s) BY <2>1, <3>1, SizeFacts
      <4> QED BY <1>2, <4>1
    <3>2. t[i] = s[i] /\ s[i] > 255 /\ i \in 1..Len(s) BY <1>2, <1>3, <2>1
    <3> QED BY <3>1, <3>2 DEF WholeFrames
  <2>2. CASE i > Len(s)
    <3> DEFINE k == i - Len(s)
    <3>1. k \in 1..Len(f) /\ i = Len(s) + k
      <4>1. i <= Len(s) + Len(f) /\ Len(f) \in Nat BY <1>1, <1>2, SizeFacts
      <4> QED BY <2>2, <4>1
    <3> HIDE DEF k
    <3>4. t[i] = f[k] BY <1>2, <3>1
    <3>2. k = DataSize + 4
      <4>1. ~ (k \in 1..DataSize + 3)
        <5>1. SUFFICES ASSUME k \in 1..DataSize + 3 PROVE FALSE OBVIOUS
        <5>2. f[k] <= 255 BY <1>1, <5>1
        <5>3. f[k] \in Int BY <1>1, <3>1
        <5> QED BY <1>3, <3>4, <5>2, <5>3
      <4> QED BY <1>1, <3>1, <4>1, SizeFacts
    <3>3. ASSUME NEW j \in 1..DataSize + 2 PROVE t[i - j] = f[DataSize + 4 - j]
      <4>1. DataSize + 4 - j \in 1..Len(f) /\ i - j = Len(s) + (DataSize + 4 - j)
        BY <1>1, <3>1, <3>2, SizeFacts
      <4> QED BY <1>2, <4>1
    <3> QED BY <1>1, <3>2, <3>3, <3>4
  <2> QED BY <2>1, <2>2, <1>2
<1> QED BY <1>3 DEF WholeFrames, t

\* Noise in the place of some bytes.
LEMMA WholeFramesNoise ==
  ASSUME NEW s \in Seq(Int), NEW t \in Seq(Int), Len(t) = Len(s), WholeFrames(s),
         \A i \in 1..Len(s) : t[i] = s[i] \/ t[i] \in Noise
  PROVE  WholeFrames(t)
<1>1. \A b \in Noise : b \in Int /\ b <= 255 BY XmodemAssumption DEF Byte, ERR
<1>2. ASSUME NEW i \in 1..Len(t), t[i] > 255
      PROVE  \E n \in 1..Len(Image) :
               /\ t[i] = crc16_ccitt(Image[n])
               /\ \A j \in 1..DataSize + 2 :
                    j < i => t[i - j] \in {Frame(n)[DataSize + 4 - j]} \union Noise
  <2>1. t[i] = s[i] /\ s[i] > 255 BY <1>1, <1>2
  <2>2. PICK n \in 1..Len(Image) :
          /\ s[i] = crc16_ccitt(Image[n])
          /\ \A j \in 1..DataSize + 2 :
               j < i => s[i - j] \in {Frame(n)[DataSize + 4 - j]} \union Noise
    BY <2>1 DEF WholeFrames
  <2>3. \A j \in 1..DataSize + 2 : j < i => i - j \in 1..Len(s) BY SizeFacts
  <2> QED BY <2>1, <2>2, <2>3
<1> QED BY <1>2 DEF WholeFrames

----------------------------------------------------------------------------
\* The receiver.

\* A frame that is taken has a block's number, complement and data: only the
\* block's own checksum matches the data, and the two bytes before the data
\* make no pair unless they are the block's.
LEMMA FrameTaken ==
  ASSUME NEW b \in Seq(Int), NEW rest \in Seq(Int), WholeFrames(b \o rest),
         Len(b) = DataSize + 3, b[1] + b[2] = BlockMod - 1,
         b[DataSize + 3] = crc16_ccitt(SubSeq(b, 3, DataSize + 2))
  PROVE  \E n \in 1..Len(Image) :
           b[1] = n % BlockMod /\ SubSeq(b, 3, DataSize + 2) = Image[n]
<1> DEFINE s == b \o rest
<1>1. /\ s \in Seq(Int) /\ Len(s) = Len(b) + Len(rest) /\ \A i \in 1..Len(b) : s[i] = b[i]
  BY ConcatFacts
<1>2. WholeFrames(s) OBVIOUS
<1> HIDE DEF s
<1>3. PICK i \in 1..Len(s) : i = DataSize + 3 /\ s[i] = b[DataSize + 3]
  <2>1. DataSize + 3 \in 1..Len(b) BY SizeFacts
  <2>2. DataSize + 3 \in 1..Len(s) BY <1>1, SizeFacts
  <2> QED BY <1>1, <2>1, <2>2
<1>4. s[i] > 255 BY <1>3, CrcFacts
<1>5. PICK n \in 1..Len(Image) :
        /\ s[i] = crc16_ccitt(Image[n])
        /\ \A j \in 1..DataSize + 2 : j < i => s[i - j] \in {Frame(n)[DataSize + 4 - j]} \union Noise
  BY <1>2, <1>4 DEF WholeFrames
<1>6. SubSeq(b, 3, DataSize + 2) = Image[n] BY <1>3, <1>5, CrcFacts
<1>7. b[1] \in {n % BlockMod} \union Noise
  <2>1. DataSize + 2 \in 1..DataSize + 2 /\ DataSize + 2 < i /\ i - (DataSize + 2) = 1
        /\ DataSize + 4 - (DataSize + 2) = 2 /\ 1 \in 1..Len(b)
    BY <1>3, SizeFacts
  <2>2. s[i - (DataSize + 2)] \in {Frame(n)[DataSize + 4 - (DataSize + 2)]} \union Noise BY <1>5, <2>1
  <2>3. b[1] \in {Frame(n)[2]} \union Noise BY <1>1, <2>1, <2>2
  <2> QED BY <2>3, FrameFacts
<1>8. b[2] \in {BlockMod - 1 - (n % BlockMod)} \union Noise
  <2>1. DataSize + 1 \in 1..DataSize + 2 /\ DataSize + 1 < i /\ i - (DataSize + 1) = 2
        /\ DataSize + 4 - (DataSize + 1) = 3 /\ 2 \in 1..Len(b)
    BY <1>3, SizeFacts
  <2>2. s[i - (DataSize + 1)] \in {Frame(n)[DataSize + 4 - (DataSize + 1)]} \union Noise BY <1>5, <2>1
  <2>3. b[2] \in {Frame(n)[3]} \union Noise BY <1>1, <2>1, <2>2
  <2> QED BY <2>3, FrameFacts
<1>9. b[1] = n % BlockMod
  <2>1. ~ (b[1] \in Noise /\ b[2] \in Noise) BY XmodemAssumption
  <2>2. n \in Nat /\ BlockMod \in Nat \ {0} BY SizeFacts, XmodemAssumption
  <2>3. n % BlockMod \in Int BY <2>2
  <2>4. b[1] \in Int /\ b[2] \in Int
    <3>1. 1 \in 1..Len(b) /\ 2 \in 1..Len(b) BY SizeFacts
    <3> QED BY <3>1
  <2>5. CASE b[1] = n % BlockMod BY <2>5
  <2>6. CASE b[2] = BlockMod - 1 - (n % BlockMod)
    <3>1. PICK x \in Int : x = n % BlockMod BY <2>3
    <3>2. b[1] + (BlockMod - 1 - x) = BlockMod - 1 BY <2>6, <3>1
    <3>3. ASSUME NEW y \in Int, NEW z \in Int, NEW m \in Int, y + (m - 1 - z) = m - 1 PROVE y = z
      BY <3>3
    <3>4. BlockMod \in Int BY <2>2
    <3> QED BY <2>4, <3>1, <3>2, <3>3, <3>4
  <2> QED BY <1>7, <1>8, <2>1, <2>5, <2>6
<1> QED BY <1>6, <1>9

\* The three ways a byte, or none, can go: what has come of a frame is dropped
\* or grows, or it is taken as the block that is due.
Dropped ==
  /\ got' = <<>> /\ UNCHANGED <<stored, expected_block>>
  /\ r_pc' = "ok" => Complete

Grown(c) ==
  /\ got' = Append(got, c) /\ Len(got') < DataSize + 3 /\ r_pc' = "block"
  /\ UNCHANGED <<stored, expected_block>>

Taken(c) ==
  LET b == Append(got, c)
  IN /\ ~Complete /\ got' = <<>> /\ r_pc' # "ok"
     /\ Len(b) = DataSize + 3 /\ b[1] = expected_block /\ b[1] + b[2] = BlockMod - 1
     /\ b[DataSize + 3] = crc16_ccitt(SubSeq(b, 3, DataSize + 2))
     /\ stored' = Append(stored, SubSeq(b, 3, DataSize + 2))
     /\ expected_block' = (expected_block + 1) % BlockMod

LEMMA RetryDrops ==
  ASSUME NEW result, result # "ok", NEW out, NEW started, Retry(result, out, started)
  PROVE  Dropped
BY DEF Retry, Return, Again, Dropped

LEMMA ReceiveOutcome ==
  ASSUME LineOK, NEW c \in Int, Receive(c)
  PROVE  Dropped \/ Grown(c) \/ Taken(c)
<1>1. CASE Control(c)
  <2>0. got = <<>> BY <1>1 DEF LineOK, Control
  <2>1. CASE c = TIMEOUT
    BY <1>1, <2>1 DEF Control, TIMEOUT, ERR, CAN, EOT, SOH, Dropped, Return, Again
  <2>2. CASE c = ERR
    <3>1. Retry("uart", <<NAK>>, sync_started)
      BY <1>1, <2>2 DEF Control, TIMEOUT, ERR, CAN, EOT, SOH
    <3> QED BY <3>1, RetryDrops
  <2>3. CASE c \in {CAN, SOH}
    BY <1>1, <2>0, <2>3 DEF Control, TIMEOUT, ERR, CAN, EOT, SOH, Dropped
  <2>4. CASE c = EOT
    BY <1>1, <2>4 DEF Control, TIMEOUT, ERR, CAN, EOT, SOH, Dropped, Return
  <2>5. CASE c \notin {TIMEOUT, ERR, CAN, EOT, SOH}
    <3>1. Retry("protocol", <<>>, sync_started) BY <1>1, <2>5 DEF Control
    <3> QED BY <3>1, RetryDrops
  <2> QED BY <2>1, <2>2, <2>3, <2>4, <2>5
<1>2. CASE SecondCan(c) BY <1>2 DEF SecondCan, Return, Again, Dropped
<1>3. CASE Block(c)
  <2> DEFINE b == Append(got, c)
             failed == Len(b) >= 2 /\ \E i \in DOMAIN b : b[i] < 0
             right == b[1] + b[2] = BlockMod - 1
                      /\ b[DataSize + 3] = crc16_ccitt(SubSeq(b, 3, DataSize + 2))
  <2>1. CASE failed
    <3>1. Retry("byte", <<NAK>>, sync_started) BY <1>3, <2>1 DEF Block
    <3> QED BY <3>1, RetryDrops
  <2>2. CASE ~failed /\ Len(b) < DataSize + 3
    BY <1>3, <2>2 DEF Block, Grown
  <2>3. CASE ~failed /\ ~ (Len(b) < DataSize + 3)
    <3>1. BlockEnd(b) BY <1>3, <2>3 DEF Block
    <3>2. Len(b) = DataSize + 3 BY <2>3, SizeFacts DEF LineOK
    <3> HIDE DEF b
    <3>3. CASE ~right
      <4>1. Retry("crc", <<NAK>>, sync_started) BY <3>1, <3>3 DEF BlockEnd
      <4> QED BY <4>1, RetryDrops
    <3>4. CASE right /\ b[1] = (expected_block - 1) % BlockMod
      BY <3>1, <3>4 DEF BlockEnd, Again, Dropped
    <3>5. CASE right /\ b[1] # (expected_block - 1) % BlockMod /\ b[1] # expected_block
      <4>1. Retry("protocol", <<NAK>>, sync_started) BY <3>1, <3>5 DEF BlockEnd
      <4> QED BY <4>1, RetryDrops
    <3>6. CASE right /\ b[1] # (expected_block - 1) % BlockMod /\ b[1] = expected_block
      <4>1. Store(SubSeq(b, 3, DataSize + 2)) BY <3>1, <3>6 DEF BlockEnd
      <4>2. CASE Complete BY <4>1, <4>2 DEF Store, Return, Dropped
      <4>3. CASE ~Complete
        <5>1. /\ got' = <<>> /\ r_pc' # "ok"
              /\ stored' = Append(stored, SubSeq(b, 3, DataSize + 2))
              /\ expected_block' = (expected_block + 1) % BlockMod
          BY <4>1, <4>3 DEF Store, Again
        <5> QED BY <3>2, <3>6, <4>3, <5>1 DEF Taken, b
      <4> QED BY <4>2, <4>3
    <3> QED BY <3>3, <3>4, <3>5, <3>6
  <2> QED BY <2>1, <2>2, <2>3
<1> QED BY <1>1, <1>2, <1>3 DEF Receive

----------------------------------------------------------------------------
\* The invariant.

\* A step of the receiver keeps it: the block that is taken is the one that is
\* due, because there are fewer blocks than block numbers.
LEMMA ReceiveStep ==
  ASSUME XmodemInv, NEW c \in Int, NEW rest \in Seq(Int), Receive(c),
         WholeFrames(Append(got, c) \o rest), line' = rest, UNCHANGED index
  PROVE  XmodemInv'
<1> DEFINE b == Append(got, c)
<1>1. b \in Seq(Int) BY DEF XmodemInv, LineOK
<1>2. WholeFrames(rest) BY <1>1, WholeFramesSuffix
<1>3. <<>> \in Seq(Int) /\ <<>> \o rest = rest BY ConcatEmptySeq
<1>4. ASSUME got' = <<>> PROVE LineOK'
  <2>1. WholeFrames(got' \o line') BY <1>2, <1>3, <1>4
  <2>2. WholeFrames(got \o line)' BY <2>1 DEF WholeFrames
  <2> QED BY <1>3, <1>4, <2>2, SizeFacts DEF LineOK, XmodemInv
<1>5. CASE Dropped
  <2>1. StoredOK' BY <1>5 DEF Dropped, StoredOK, XmodemInv, Complete
  <2> QED BY <1>4, <1>5, <2>1 DEF Dropped, XmodemInv
<1>6. CASE Grown(c)
  <2>1. WholeFrames(got' \o line') BY <1>6 DEF Grown
  <2>2. LineOK' BY <1>1, <1>6, <2>1 DEF Grown, LineOK, XmodemInv, WholeFrames
  <2>3. StoredOK' BY <1>6 DEF Grown, StoredOK, XmodemInv
  <2> QED BY <2>2, <2>3 DEF XmodemInv
<1>7. CASE Taken(c)
  <2> DEFINE data == SubSeq(b, 3, DataSize + 2)
             k == Len(stored) + 1
  <2>1. PICK n \in 1..Len(Image) : b[1] = n % BlockMod /\ data = Image[n]
    BY <1>1, <1>7, FrameTaken DEF Taken
  <2>2. k \in 1..Len(Image) BY <1>7, SizeFacts DEF Taken, Complete, XmodemInv, StoredOK
  <2>3. n = k
    <3>1. b[1] = k % BlockMod BY <1>7 DEF Taken, XmodemInv, StoredOK
    <3>2. k \in 0..Len(Image) /\ n \in 0..Len(Image) BY <2>2, SizeFacts
    <3> QED BY <2>1, <3>1, <3>2, NumberFacts
  <2>4. stored' = Append(stored, Image[k]) BY <1>7, <2>1, <2>3 DEF Taken
  <2>5. Image[k] \in Seq(Byte) BY <2>2, ImageFacts
  <2> HIDE DEF b, data
  <2>6. expected_block' = (k + 1) % BlockMod
    <3>1. k \in 0..Len(Image) BY <2>2, SizeFacts
    <3>2. expected_block = k BY <3>1, NumberFacts DEF XmodemInv, StoredOK
    <3> QED BY <1>7, <3>2 DEF Taken
  <2>7. stored \in Seq(Seq(Byte)) /\ \A i \in 1..Len(stored) : stored[i] = Image[i]
    BY DEF XmodemInv, StoredOK
  <2>8. /\ stored' \in Seq(Seq(Byte)) /\ Len(stored') = k
        /\ \A i \in 1..Len(stored') : stored'[i] = Image[i]
    BY <2>4, <2>5, <2>7
  <2>9. StoredOK'
    <3>1. r_pc' # "ok" /\ expected_block' = (Len(stored') + 1) % BlockMod BY <1>7, <2>6, <2>8 DEF Taken
    <3>2. Len(stored') <= Len(Image) BY <2>2, <2>8, SizeFacts
    <3> QED BY <2>8, <3>1, <3>2 DEF StoredOK
  <2>10. got' = <<>> BY <1>7 DEF Taken
  <2> QED BY <1>4, <2>9, <2>10 DEF XmodemInv
<1> QED BY <1>5, <1>6, <1>7, ReceiveOutcome DEF XmodemInv

\* So does a step of the sender, which adds a frame, the end or nothing.
LEMMA AnswerStep ==
  ASSUME XmodemInv, NEW c, Answer(c), UNCHANGED receiver
  PROVE  XmodemInv'
<1> DEFINE s == got \o line
<1>1. got \in Seq(Int) /\ line \in Seq(Int) /\ s \in Seq(Int) /\ WholeFrames(s)
      /\ index \in 1..Len(Image)
  BY ConcatFacts DEF XmodemInv, LineOK
<1>2. ASSUME line' \in Seq(Int), index' \in 1..Len(Image), WholeFrames(got \o line')
      PROVE  XmodemInv'
  <2>1. WholeFrames(got \o line)' BY <1>2 DEF WholeFrames, receiver
  <2>2. LineOK' BY <1>2, <2>1 DEF XmodemInv, LineOK, receiver
  <2>3. StoredOK' BY DEF XmodemInv, StoredOK, receiver
  <2> QED BY <2>2, <2>3 DEF XmodemInv
<1>3. ASSUME NEW n \in 1..Len(Image), NEW try, SendFrame(n, try) PROVE XmodemInv'
  <2>1. Frame(n) \in Seq(Int) BY FrameFacts
  <2>2. line' = line \o Frame(n) /\ index' = n BY <1>3 DEF SendFrame
  <2>3. line' \in Seq(Int) BY <1>1, <2>1, <2>2, ConcatFacts
  <2>4. got \o line' = s \o Frame(n)
    <3> HIDE DEF s
    <3>0. got \in Seq(Int) /\ line \in Seq(Int) BY <1>1
    <3>1. \A f \in Seq(Int) : got \o (line \o f) = (got \o line) \o f
      BY <3>0, ConcatTwo
    <3>2. got \o (line \o Frame(n)) = (got \o line) \o Frame(n) BY <2>1, <3>1
    <3> QED BY <2>2, <3>2 DEF s
  <2>5. WholeFrames(got \o line') BY <1>1, <2>4, WholeFramesFrame
  <2> QED BY <1>2, <2>2, <2>3, <2>5
<1>4. ASSUME NEW try, SendEot(try) PROVE XmodemInv'
  <2>1. line' = Append(line, EOT) /\ index' = index BY <1>4 DEF SendEot
  <2>2. EOT \in Int /\ EOT <= 255 BY DEF EOT
  <2>3. line' \in Seq(Int) BY <1>1, <2>1, <2>2
  <2>4. got \o line' = Append(s, EOT)
    <3>1. <<EOT>> \in Seq(Int) BY <2>2
    <3>2. line' = line \o <<EOT>> BY <1>1, <2>1, <2>2, AppendIsConcat
    <3>3. Append(s, EOT) = s \o <<EOT>> BY <1>1, <2>2, AppendIsConcat
    <3> QED BY <1>1, <3>1, <3>2, <3>3, ConcatAssociative
  <2>5. WholeFrames(got \o line') BY <1>1, <2>2, <2>4, WholeFramesByte
  <2> QED BY <1>1, <1>2, <2>1, <2>3, <2>5
<1>5. ASSUME UNCHANGED <<index, line>> PROVE XmodemInv' BY <1>1, <1>2, <1>5
<1>6. CASE Sync(c)
  <2>1. 1 \in 1..Len(Image) BY SizeFacts
  <2> QED BY <1>3, <1>5, <1>6, <2>1 DEF Sync, Fail, sender
<1>7. CASE SendBlock(c)
  <2>1. CASE Outcome(c) = "next"
    <3>1. CASE index < Len(Image)
      <4>1. index + 1 \in 1..Len(Image) BY <1>1, <3>1, SizeFacts
      <4> QED BY <1>3, <1>7, <2>1, <3>1, <4>1 DEF SendBlock
    <3>2. CASE ~ (index < Len(Image)) BY <1>4, <1>7, <2>1, <3>2 DEF SendBlock
    <3> QED BY <3>1, <3>2
  <2>2. CASE Outcome(c) = "again" BY <1>1, <1>3, <1>7, <2>2 DEF SendBlock
  <2>3. CASE Outcome(c) = "fail" BY <1>5, <1>7, <2>3 DEF SendBlock, Fail
  <2> QED BY <2>1, <2>2, <2>3 DEF Outcome
<1>8. CASE EndTransfer(c)
  <2>1. CASE Outcome(c) = "next" BY <1>5, <1>8, <2>1 DEF EndTransfer
  <2>2. CASE Outcome(c) = "again" BY <1>4, <1>8, <2>2 DEF EndTransfer
  <2>3. CASE Outcome(c) = "fail" BY <1>5, <1>8, <2>3 DEF EndTransfer, Fail
  <2> QED BY <2>1, <2>2, <2>3 DEF Outcome
<1> QED BY <1>6, <1>7, <1>8 DEF Answer

\* And noise: what it puts in a byte's place is no checksum.
LEMMA GarbleStep ==
  ASSUME XmodemInv, Garble PROVE XmodemInv'
<1>1. PICK i \in DOMAIN line, b \in Noise : line' = [line EXCEPT ![i] = b] BY DEF Garble
<1>2. /\ got \in Seq(Int) /\ line \in Seq(Int) /\ WholeFrames(got \o line)
      /\ UNCHANGED <<sender, receiver>>
  BY DEF XmodemInv, LineOK, Garble
<1>3. b \in Int BY XmodemAssumption DEF Byte, ERR
<1>4. i \in 1..Len(line) BY <1>2
<1>5. /\ line' \in Seq(Int) /\ Len(line') = Len(line)
      /\ \A j \in 1..Len(line) : line'[j] = IF j = i THEN b ELSE line[j]
  BY <1>1, <1>2, <1>3, <1>4, ExceptSeq
<1> DEFINE s == got \o line
           t == got \o line'
<1>6. /\ s \in Seq(Int) /\ Len(s) = Len(got) + Len(line)
      /\ \A j \in 1..Len(got) : s[j] = got[j]
      /\ \A j \in 1..Len(line) : s[Len(got) + j] = line[j]
  BY <1>2, ConcatFacts
<1>7. /\ t \in Seq(Int) /\ Len(t) = Len(got) + Len(line')
      /\ \A j \in 1..Len(got) : t[j] = got[j]
      /\ \A j \in 1..Len(line') : t[Len(got) + j] = line'[j]
  BY <1>2, <1>5, ConcatFacts
<1> HIDE DEF s, t
<1>8. ASSUME NEW k \in 1..Len(s) PROVE t[k] = s[k] \/ t[k] \in Noise
  <2>1. CASE k <= Len(got)
    <3>1. k \in 1..Len(got) BY <1>2, <2>1
    <3> QED BY <1>6, <1>7, <3>1
  <2>2. CASE ~ (k <= Len(got))
    <3>1. PICK j \in 1..Len(line) : k = Len(got) + j
      <4>1. k - Len(got) \in 1..Len(line) /\ k = Len(got) + (k - Len(got)) BY <1>2, <1>6, <2>2
      <4> QED BY <4>1
    <3>2. s[k] = line[j] /\ t[k] = line'[j] BY <1>5, <1>6, <1>7, <3>1
    <3> QED BY <1>5, <3>1, <3>2
  <2> QED BY <2>1, <2>2
<1>9. WholeFrames(s) BY <1>2 DEF s
<1>10. WholeFrames(t) BY <1>5, <1>6, <1>7, <1>8, <1>9, WholeFramesNoise
<1>11. WholeFrames(got \o line)' BY <1>2, <1>10 DEF WholeFrames, t, receiver
<1>12. LineOK' BY <1>2, <1>5, <1>11 DEF XmodemInv, LineOK, sender, receiver
<1>13. StoredOK' BY <1>2 DEF XmodemInv, StoredOK, receiver
<1> QED BY <1>12, <1>13 DEF XmodemInv

\* What has been stored is the image's first blocks, and whatever checksum is
\* on the line has its own block's frame before it, however the line garbles.
THEOREM XmodemInvariant == XmodemSpec => []XmodemInv
<1>1. XmodemInit => XmodemInv
  <2> SUFFICES ASSUME XmodemInit PROVE XmodemInv OBVIOUS
  <2>1. <<>> \o <<>> = <<>> /\ Len(<<>>) = 0 BY ConcatEmptySeq
  <2>2. WholeFrames(got \o line) BY <2>1 DEF XmodemInit, WholeFrames
  <2>3. LineOK BY <2>1, <2>2, SizeFacts DEF XmodemInit, LineOK
  <2>4. 1 % BlockMod = 1 BY NumberFacts, SizeFacts
  <2>5. StoredOK BY <2>1, <2>4, SizeFacts DEF XmodemInit, StoredOK
  <2> QED BY <2>3, <2>5 DEF XmodemInv
<1>2. XmodemInv /\ [XmodemNext]_xmodemVars => XmodemInv'
  <2> SUFFICES ASSUME XmodemInv, [XmodemNext]_xmodemVars PROVE XmodemInv' OBVIOUS
  <2>0. got \in Seq(Int) /\ line \in Seq(Int) /\ WholeFrames(got \o line) BY DEF XmodemInv, LineOK
  <2>1. CASE GetByte
    <3> DEFINE c == Head(line)
               rest == Tail(line)
    <3>1. line # <<>> /\ Receive(c) /\ line' = rest /\ UNCHANGED index BY <2>1 DEF GetByte, sender
    <3>2. c \in Int /\ rest \in Seq(Int) BY <2>0, <3>1, HeadTailProperties
    <3>3. Append(got, c) \o rest = got \o line BY <2>0, <3>1, HeadTailConcat
    <3> QED BY <2>0, <3>1, <3>2, <3>3, ReceiveStep
  <2>2. CASE Timeout
    <3>1. line = <<>> /\ Receive(TIMEOUT) /\ line' = <<>> /\ UNCHANGED index
      BY <2>2 DEF Timeout, sender
    <3>2. TIMEOUT \in Int /\ TIMEOUT <= 255 /\ <<>> \in Seq(Int) BY DEF TIMEOUT
    <3>3. WholeFrames(got) BY <2>0, <3>1, ConcatEmptySeq
    <3>4. Append(got, TIMEOUT) \in Seq(Int) /\ WholeFrames(Append(got, TIMEOUT))
      BY <2>0, <3>2, <3>3, WholeFramesByte
    <3>5. WholeFrames(Append(got, TIMEOUT) \o <<>>) BY <3>4, ConcatEmptySeq
    <3> QED BY <3>1, <3>2, <3>5, ReceiveStep
  <2>3. CASE GetAnswer BY <2>3, AnswerStep DEF GetAnswer
  <2>4. CASE NoAnswer BY <2>4, AnswerStep DEF NoAnswer
  <2>5. CASE Garble BY <2>5, GarbleStep
  <2>6. CASE LoseAnswer \/ UNCHANGED xmodemVars
    <3>1. UNCHANGED <<line, sender, receiver>> BY <2>6 DEF LoseAnswer, xmodemVars
    <3>2. WholeFrames(got \o line)' BY <2>0, <3>1 DEF WholeFrames, receiver
    <3>3. LineOK' BY <3>1, <3>2 DEF XmodemInv, LineOK, sender, receiver
    <3>4. StoredOK' BY <3>1 DEF XmodemInv, StoredOK, receiver
    <3> QED BY <3>3, <3>4 DEF XmodemInv
  <2> QED BY <2>1, <2>2, <2>3, <2>4, <2>5, <2>6 DEF XmodemNext
<1> QED BY <1>1, <1>2, PTL DEF XmodemSpec

\* What the loader stores is the beginning of the image, and it reports success
\* with the whole of it in memory, whatever was repeated, damaged or lost.
THEOREM LoadsTheImage == XmodemSpec => []LoadedWhole
<1>1. XmodemInv => LoadedWhole
  <2> SUFFICES ASSUME XmodemInv PROVE LoadedWhole OBVIOUS
  <2>1. /\ stored \in Seq(Seq(Byte)) /\ Image \in Seq(Seq(Byte)) /\ Len(stored) <= Len(Image)
        /\ \A k \in 1..Len(stored) : stored[k] = Image[k]
    BY XmodemAssumption DEF XmodemInv, StoredOK
  <2>2. SubSeq(stored, 1, Len(stored)) = SubSeq(Image, 1, Len(stored)) BY <2>1
  <2>3. IsPrefix(stored, Image) BY <2>1, <2>2 DEF IsPrefix
  <2>4. r_pc = "ok" => stored = Image BY <2>1, SeqEqual DEF XmodemInv, StoredOK
  <2> QED BY <2>3, <2>4 DEF LoadedWhole
<1> QED BY <1>1, XmodemInvariant, PTL
=============================================================================
