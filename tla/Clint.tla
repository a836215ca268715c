------------------------------- MODULE Clint -------------------------------
(***************************************************************************)
(* The core-local interruptor (src/rtl/peripheral/clint.sv), its driver    *)
(* (src/program/drivers/clint.h) and the tick of the FreeRTOS port         *)
(* (port.c, portASM.S): a 64-bit timer and compare register that a 32-bit  *)
(* hart can only read and write one half at a time, while the timer runs.  *)
(*                                                                         *)
(* W is the number of values of a 32-bit half.  The 64-bit timer itself    *)
(* does not wrap: at one count per clock it would take centuries.          *)
(***************************************************************************)
EXTENDS Integers

CONSTANTS
  W,       \* 2^32 in the code
  Delays,  \* arguments of clint_set_mtimecmp(clint_get_mtime() + delay)
  TickIncrement  \* uxTimerIncrementsForOneTick

MaxTime == W * W - 1

ASSUME ClintAssumption ==
  W \in Nat \ {0, 1} /\ Delays \subseteq 0..MaxTime /\ TickIncrement \in 1..W - 1

VARIABLES
  mtime, mtimecmp, msip_reg,
  pc,           \* where the hart is in the driver
  hi, lo,       \* locals of clint_get_mtime
  val,          \* the compare value asked for
  called,       \* auxiliary: mtime when clint_get_mtime was called
  ullNextTime,  \* the port's compare value after the next
  base, ticks   \* auxiliary: the time the port started from, -1 if it has
                \* not, and the tick interrupts it has taken

port == <<ullNextTime, base, ticks>>
hart == <<pc, hi, lo, val, called, port>>
clintVars == <<mtime, mtimecmp, msip_reg, hart>>

Hi(t) == t \div W
Lo(t) == t % W
Join(h, l) == h * W + l

timer_irq == mtime >= mtimecmp
sw_irq == msip_reg

ClintInit ==
  /\ mtime = 0 /\ mtimecmp = MaxTime /\ msip_reg = FALSE
  /\ pc = "idle" /\ hi = 0 /\ lo = 0 /\ val = MaxTime /\ called = 0
  /\ ullNextTime = 0 /\ base = -1 /\ ticks = 0

----------------------------------------------------------------------------
\* One clk edge; the write the bus brings with it takes effect at the edge.

Tick == mtime < MaxTime /\ mtime' = mtime + 1

Idle == Tick /\ UNCHANGED <<mtimecmp, msip_reg, hart>>

\* clint_get_mtime, and the same loop in vPortSetupTimerInterrupt: the high
\* half, the low half, the high half again, over again if it has changed.
Call == Tick /\ pc = "idle" /\ base < 0 /\ pc' = "hi" /\ called' = mtime /\ UNCHANGED <<mtimecmp, msip_reg, hi, lo, val, port>>
ReadHi == Tick /\ pc = "hi" /\ hi' = Hi(mtime) /\ pc' = "lo" /\ UNCHANGED <<mtimecmp, msip_reg, lo, val, called, port>>
ReadLo == Tick /\ pc = "lo" /\ lo' = Lo(mtime) /\ pc' = "check" /\ UNCHANGED <<mtimecmp, msip_reg, hi, val, called, port>>

\* Mutant: the high half is not looked at again.
CheckHi_never ==
  /\ Tick /\ pc = "check"
  /\ pc' = "got"
  /\ UNCHANGED <<mtimecmp, msip_reg, hi, lo, val, called, port>>

CheckHi ==
  /\ Tick /\ pc = "check"
  /\ pc' = IF hi = Hi(mtime) THEN "got" ELSE "hi"
  /\ UNCHANGED <<mtimecmp, msip_reg, hi, lo, val, called, port>>

\* clint_set_mtimecmp: the low half, then the high half, each of them in the
\* register as soon as it is written.
Prepare(delay) ==
  /\ Tick /\ pc = "got"
  /\ val' = (Join(hi, lo) + delay) % (W * W) /\ pc' = "set_lo"
  /\ UNCHANGED <<mtimecmp, msip_reg, hi, lo, called, port>>

SetLo ==
  /\ Tick /\ pc = "set_lo"
  /\ mtimecmp' = Join(Hi(mtimecmp), Lo(val)) /\ pc' = "set_hi"
  /\ UNCHANGED <<msip_reg, hi, lo, val, called, port>>

\* Mutant: the high half of the old compare value stays.
SetHi_missing ==
  /\ Tick /\ pc = "set_hi"
  /\ pc' = "idle"
  /\ UNCHANGED <<mtimecmp, msip_reg, hi, lo, val, called, port>>

SetHi ==
  /\ Tick /\ pc = "set_hi"
  /\ mtimecmp' = Join(Hi(val), Lo(mtimecmp)) /\ pc' = "idle"
  /\ UNCHANGED <<msip_reg, hi, lo, val, called, port>>

\* vPortSetupTimerInterrupt, with the time it has read: the two halves of one
\* 64-bit store, in the order the compiler chose.  The timer interrupt is not
\* enabled yet.
vPortSetupTimerInterrupt ==
  /\ Tick /\ pc = "got"
  /\ base' = Join(hi, lo) /\ ticks' = 0
  /\ val' = base' + TickIncrement /\ ullNextTime' = val' + TickIncrement
  /\ pc' \in {"set_lo", "arm_hi"}
  /\ UNCHANGED <<mtimecmp, msip_reg, hi, lo, called>>

\* portUPDATE_MTIMER_COMPARE_REGISTER in the interrupt: all ones in the low half
\* first, then the new high and low halves; the time after this one is got by
\* an addition of halves with a carry.
TickInterrupt ==
  /\ Tick /\ pc = "idle" /\ base >= 0 /\ timer_irq
  /\ val' = ullNextTime /\ ticks' = ticks + 1
  /\ LET low == (Lo(ullNextTime) + TickIncrement) % W
         carry == IF low < Lo(ullNextTime) THEN 1 ELSE 0
     IN ullNextTime' = Join(Hi(ullNextTime) + carry, low)
  /\ mtimecmp' = Join(Hi(mtimecmp), W - 1) /\ pc' = "arm_hi"
  /\ UNCHANGED <<msip_reg, hi, lo, called, base>>

ArmHi ==
  /\ Tick /\ pc = "arm_hi"
  /\ mtimecmp' = Join(Hi(val), Lo(mtimecmp)) /\ pc' = "arm_lo"
  /\ UNCHANGED <<msip_reg, hi, lo, val, called, port>>

ArmLo ==
  /\ Tick /\ pc = "arm_lo"
  /\ mtimecmp' = Join(Hi(mtimecmp), Lo(val)) /\ pc' = "idle"
  /\ UNCHANGED <<msip_reg, hi, lo, val, called, port>>

\* clint_set_msip, clint_clear_msip.
SetMsip(b) == Tick /\ pc = "idle" /\ msip_reg' = b /\ UNCHANGED <<mtimecmp, hart>>

ClintNext ==
  \/ Idle \/ Call \/ ReadHi \/ ReadLo \/ CheckHi \/ SetLo \/ SetHi
  \/ \E delay \in Delays : Prepare(delay)
  \/ vPortSetupTimerInterrupt \/ TickInterrupt \/ ArmHi \/ ArmLo
  \/ \E b \in BOOLEAN : SetMsip(b)

ClintSpec == ClintInit /\ [][ClintNext]_clintVars

----------------------------------------------------------------------------
\* Properties

\* clint_get_mtime returns a value the timer had during the call, never one
\* joined from the halves of two times, also when the low half rolls over
\* between the reads.
MtimeReadWhole == pc = "got" => called <= Join(hi, lo) /\ Join(hi, lo) <= mtime

\* Between the writes of its halves the compare register holds the time asked
\* for, and the interrupt is up exactly when that has come.  For the port it is
\* the next multiple of the tick after those taken: no tick is lost or comes
\* twice, however late an interrupt is and however the halves carry.
IrqWhenDue ==
  pc \notin {"set_lo", "set_hi", "arm_hi", "arm_lo"} =>
    /\ timer_irq <=> mtime >= val
    /\ base >= 0 => val = base + (ticks + 1) * TickIncrement

=============================================================================
