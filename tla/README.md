# MelonSoC in TLA+

MelonSoC is a RISC-V system on a chip (RV32IMAC, machine/supervisor/user mode,
Sv32) in SystemVerilog for the Tang Primer 20K, with a boot ROM in C that loads
an image over UART or from an SD card, and a port of the FreeRTOS kernel that runs
from DDR. This directory holds a TLA+ model of its concurrent parts, hardware,
boot path and kernel, the TLC configurations that check it and TLAPS proofs about
the memory system, the LCD, CLINT, timer, XMODEM loader and the kernel's heap, lists and
scheduler.

Run a check with `tlc -config MCX.cfg MCX`, the proofs with `tlapm XProofs.tla`.
`PROJECT.json` maps every definition to the lines it models and lists runs, findings,
hazards and theorems.

## Inventory

Paths are relative to `src/src/`.

| Part | State | Operations | What makes it correct |
|---|---|---|---|
| DDR bridge, `rtl/peripheral/ddr3_wb_bridge.sv` | request/response toggles and payloads in two clock domains, app-side FSM | accept, capture, read, merge, write, acknowledge | payloads cross whole; each request done once; lanes merged; nothing hangs |
| LCD DMA and panel, `lcd_dma.sv`, `vga_timing.sv` | two line RAMs, request/acknowledge toggles, pixel counters, beat counter | fetch a line, push pixels, swap at a line boundary | never write the shown buffer; whole lines, in order; never freeze |
| DDR port arbiter, `rtl/top.v` | grant, in-flight LCD beats, lock synchroniser | grant, release, route a beat | beats to their owner; no command lost; no starvation |
| Interconnect, `rtl/soc.sv`, `lib/soc_pkg.sv` | DDR owner/cooldown, fetch pending/killed, reply registers, MMIO acknowledge | decode, route, arbitrate | every reply to the access it belongs to |
| RAM/ROM, `rtl/core/mem.sv` | contents, registered acknowledge | read, write | as above |
| Core memory stage and atomics, `rtl/core/cpu.sv` | EX/MEM, `mem_started`, atomic FSM, reservation | load, store, LR, SC, AMO | right data; each device access once; atomicity |
| Core front end and execute, `cpu.sv`, `lib/rvc.sv`, `util/divider.sv` | fetch registers, instruction buffer, pipeline registers | fetch, redirect, decode, execute | right words in program order |
| MMU, `rtl/core/sv32_mmu.sv` | TLBs, walker FSM | translate, walk, set A/D, fill, fault, flush | walker reads the table; no stale entries after a fence |
| CSRs, `rtl/core/priv_csr.sv` | privilege, mstatus, delegation, interrupt state | trap, return, CSR access | privilege stack restored; no lost interrupt |
| CLINT, `clint.sv`, `drivers/clint.h` | mtime, mtimecmp, msip | 64-bit read and compare by halves | time read is a time that was; interrupt when due |
| Timer, `timer_mmio.sv`, `drivers/timer.c` | count, compare, prescaler, pending | register writes, tick, match, delay | no lost match; delay long enough |
| XMODEM, `boot/xmodem.c`, `tools/xmodem_send.py` | expected block, retries, offset; sender's block and attempt | request, receive, store, ack, nak, cancel | what is stored is the image |
| SD host and driver, `sdhost_mmio.sv`, `drivers/sdcard.c` | host FSM, status, answer, block buffer; card address and kind | bring the card up, read a block, retry | no block taken for another, no damaged block |
| FAT boot and boot image, `boot/fatboot.c`, `boot_image.c`, `sdload` in `app/main.c` | position in volume, directory and chain; bytes stored | mount, find, check, load | stays in range, loads the file or says why not |
| FreeRTOS lists, `rtos/FreeRTOS/list.c` | rings of items, `pxIndex` | insert, insert by value, remove, walk | round-robin order, time order |
| FreeRTOS scheduler, `tasks.c` | ready, delayed, suspended, termination and event lists, tick, cached next wake-up, pended ticks, control blocks | delay, suspend, resume, priorities, create, delete, notify, tick, switch | lists right, highest ready task runs, nobody oversleeps, no freed block used |
| FreeRTOS queues, `queue.c` | ring, count, locks, waiters, mutex holder, set | send, receive, peek, take, give, reset, from tasks and interrupts | first in first out, no lost wake-up, exact time-outs, priority inheritance |
| FreeRTOS timers, `timers.c` | two timer lists, command queue | start, stop, change, delete, expire, reload | each callback once and in time |
| FreeRTOS heap, `portable/MemMang/heap_4.c` | free list, headers, byte counts | allocate, free, merge | blocks apart, fails only when full |
| FreeRTOS port, `portable/GCC/RISC-V/port.c` | next compare value | set up and re-arm the tick | a tick for every interval |
| UART, I2C, SPI, GPIO and drivers | shift registers, FSMs, status flags | byte transfers | no lost or stale status |
| Shell, printing, RTOS demonstration, Linux glue, benches | - | - | user interface, start-up and test code |

How they interact: the core's load/store port goes through the MMU (which puts
the walker's accesses on it) to the interconnect; that decodes to RAM, MMIO
devices or DDR. Fetches go to ROM or DDR. One DDR bridge is lent to the data or
the instruction side by the owner FSM in `soc.sv`; behind the bridge, the one
controller port is lent to bridge or LCD by the arbiter in `top.v`. Three clocks
meet: `clk` (core, bus), `clk_x1`/`app_clk` (controller, arbiter, DMA) and the
pixel clock. Drivers poll devices; CLINT and timer interrupt the core. The CLINT's
interrupt is the kernel's tick; queues and timers stand on the scheduler, the timer
task on a queue, and all of them take memory from the heap. The loaders write the
image the kernel runs from into DDR.

Hard behaviours: clock-domain crossings; three masters on one bus with untagged
replies; the walker taking the port between a request and its acknowledge;
registered replies seen a cycle later by somebody else; register writes that
meet a tick; 64-bit registers accessed by halves; a noisy serial line; a card that
misses commands, and a driver that gives up on it while the host goes on; in the
kernel, interrupts and preemption between any two critical sections of a call, a tick
counter that wraps, deferred wake-ups, tasks deleted in the middle of a call. The
forty that matter most are hazards in `PROJECT.json`, with the properties that watch
them or why none does; the others are under "Met while modelling" below.

## Modules

| Module | Models | State and actions |
|---|---|---|
| `WordMemory` | what the bridge promises | a memory of words with byte lanes; Accept, Perform (atomic), Acknowledge, EndAck |
| `DdrBridge` | the bridge and, as external, the DDR3 controller | registers by their names; BusEdge, AppEdge, BothEdges, one operator per FSM state; refinement mapping to `WordMemory` |
| `XProofs` | | theorems and proofs about module `X` (`HeapProofs`: `Heap4`; `ListProofs`: `ListC`; `KernelProofs`: `Kernel`; `TaskProofs`: `Tasks`; `QueueProofs`: `Queues`; `AppPortProofs`: `DdrBridge` and `AppPort`; `DeviceProofs`: `Clint`, `Timer`, `LcdPanel` and `Xmodem`), under Proofs below |
| `LcdDma` | DMA FSM of `lcd_dma.sv` | D_IDLE, D_REQ, D_WAIT, D_PUSH |
| `LcdPanel` | DMA with panel side and timing | PixEdge, AppEdge, BothEdges, Calibrate |
| `AppPort` | arbiter of `top.v`, composing `DdrBridge` and `LcdDma` | Grant, CountBeats, routing; ghost `ddr_owners` remembers who asked for each outstanding read |
| `SocBus` | interconnect, RAM, owner FSM | wires are arguments of SocStep; the bridge is an instance of `WordMemory` |
| `DataPort` | memory stage, atomic unit, walker and fetch stage on `SocBus` | one step is one clk edge: CoreStep, PtwStep, FetchStep, SocStep together |
| `Clint`, `Timer` | devices with their drivers' sequences; the kernel port's tick set-up and handler | one step is one clk edge with at most one bus access |
| `Xmodem` | loader, sender and a faulty line | GetByte, Timeout, GetAnswer, NoAnswer, Garble, LoseAnswer |
| `SdBoot` | `sdload`, FAT loader, card driver, SD host and, as external, the card | DriverStep (a poll, a command, the use of a block), HostStep (a state of the host); sectors are records of what the loader may take them for |
| `Lists` | the kernel's lists from outside | a sequence and the position of `pxIndex`; the operators the kernel's modules use |
| `ListSpec`, `ListC` | lists as a specification; the linked rings of `list.c` | ListC has the pointers and refines ListSpec, which is built from `Lists` |
| `Kernel` | the scheduler's data and the routines of `tasks.c` | one record; a routine maps a record to a record, so that they nest as the calls do |
| `Tasks` | tasks, tick, interrupts and the idle task over `Kernel` | one step is one critical section; `pc[t]` is the place in the call a task is in |
| `BoundedFifo` | what a queue promises | sequences of bounded length; send to back or front, overwrite, receive, peek, reset |
| `Queues` | `queue.c` over `Tasks` | places try, hold, lock, check, unlockTx, unlockRx of a call that may block; calls from interrupts; refinement mapping to `BoundedFifo` |
| `SwTimers` | `timers.c` over `Queues` | the timer task's loop and the commands of tasks, interrupts and callbacks; ghost `due` is when the next callback is owed |
| `Heap4` | `heap_4.c` with any number of users in the middle of a call | pvPortMalloc, vPortFree in two steps, prvHeapInit, the reset of the low-water mark in two (`StoreMinimum`) |

An MC module gives the constants values. `MCParts` puts parts that share no state (heap,
lists, CLINT, timer, XMODEM, LCD) side by side, `MCPeripherals` the bridge and the SD
boot: Init picks the one a behaviour is about. `MCTasks`, `MCQueues` and `MCTimers` list
workloads: the tasks there are, their priorities, and what each of them and the
interrupts may call; Init picks one.

The kernel is configured as `FreeRTOSConfig.h` has it (one core, preemption, time
slicing, generic task selection). Features which that file turns off but whose code is
in the repository are modelled as well: mutexes and priority inheritance, recursive
mutexes, counting semaphores, notifications, queue sets, `xTaskDelayUntil`,
`xTaskAbortDelay`, `xTaskResumeFromISR`, `xTaskCatchUpTicks`.

A clocked block is translated as a conjunction of primed equations; a state of an
FSM is an operator. A synchroniser's first flip-flop that samples a wire while it
changes takes the old or the new value of a toggle, and any value at all of a
multi-bit payload (`Sampled`), so metastability and skew are in the model.

Definitions named `X_suffix` and marked "Mutant" are variants of `X` with a
plausible mistake; they are not part of any specification. Each shows that the
property it is listed with notices that mistake.

## Runs

| Run | Shows |
|---|---|
| `peripherals` | the bridge, with every interleaving and coincidence of the two clocks: payloads cross whole, one read outstanding, no command lost, the inductive invariant, refinement of `WordMemory`; the SD boot, with thirteen cards of both kinds, with and without a partition table, whole, cut short or wrong, under lost commands, garbled answers and damaged blocks: what is in memory is the beginning of the image, success means all of it, and few enough faults change nothing |
| `app_port` | arbitration is invisible: beats to their owner, commands reach the port, still a word memory |
| `app_port_live` | neither client of the port starves; every request the bridge accepts is acknowledged |
| `data_port` | accesses of RAM and walks in DDR each get their own replies; AMO and LR/SC are atomic, but for the accessed and dirty bits of a walk of the very entry they are on; page tables in DDR |
| `data_port_fetch` | fetches from DDR and ROM with redirects, walks and stores competing for the bridge |
| `data_port_live` | AMOs and loads from DDR and a device, against fetches and walks: every access ends |
| `data_port_mmio` | expected to fail: a device access is issued twice (below) |
| `heap_minimum` | expected to fail: the reset of the heap's low-water mark leaves it above what is free (below) |
| `parts` | heap: blocks tile the heap, the free list is sorted and merged, nothing lent overlaps, and an allocation fails only for want of room; lists: the pointers implement sequences; CLINT: time reads are consistent, the interrupt is up when due, also as the kernel's tick; timer: delays long enough across wraps; XMODEM: what is stored is a prefix of the image, success means all of it, lost answers only delay; LCD: no tearing, whole lines, lines in order, and the panel keeps getting lines |
| `tasks` | ten workloads: every list and cached value right after any sequence of calls, highest ready task runs, no pointer to a freed block, sleepers wake neither late nor early across the wrap, no notification slept through, equal tasks share the processor |
| `queues` | twelve workloads: no wake-up lost to a locked queue, time-outs exact, the mutex holder's priority exact, the ring is a first-in first-out queue |
| `timers` | seven workloads: each callback owed comes once and not early, the timer task sleeps past none |

### Findings

`data_port_mmio`: a device access that waits behind an instruction walk is strobed in
the walk's CHECK cycle, its acknowledge is masked, and it is strobed again. A UART read
then loses a byte.

`heap_minimum`: `xPortResetHeapMinimumEverFreeHeapSize` (`heap_4.c:425`) is a load and a
store, with neither a critical section nor the scheduler suspended. An allocation of
another task in between leaves `xMinimumEverFreeBytesRemaining` above what is free, until
the next allocation. Nothing else depends on the mark: `HeapSound` holds with resets half
done.

Met while modelling, and not covered by a property of its own:

- A walk can run between the read and the write of an AMO, or between LR and SC; if
  they are on the page-table entry the walk marks, the write undoes the accessed and
  dirty bits. `AtomicsAtomic` allows exactly that, and no other loss.
- With page tables in DATARAM the walker takes the reply to a core access of the
  CHECK cycle for its entry. Tables in DDR, as Linux and `test_sv32.S` have them,
  are safe (`data_port`).
- The tick's assignments follow the write's in the `always_ff` of the timer: a soft
  reset of a running timer leaves the count at one more than it was, and a CMP
  equal to the count being reached waits for the counter to wrap.
- The comment at `clint.sv:11` has the high half commit the compare; the low half takes
  effect at once, and an interrupt can come before either time. Both drivers write the
  halves in an order that keeps it from mattering (`IrqWhenDue`).
- The comments at `clint.h:43` and `timer.c:10`, under `program/drivers/`, say that the
  first read of a device after a change of address can return the register read before.
  In the RTL the word that goes with an acknowledge is selected by the address still on
  the bus (`soc.sv:227`) and is the one held afterwards, so none does. The drivers read
  twice, which these registers do not mind; the models read once.
- `sfence.vma` in the cycle a walk fills the TLB leaves the entry valid; a redirect in the
  cycle an instruction walk faults leaves a fault pending; the A/D update writes back
  an entry read some cycles before. All three wait for a module of the TLBs.
- Loss of the pixel PLL's lock resets only the panel's half of the line handshake.
- `active_x` trails `de` by a cycle; a late line is replaced by the line before and
  the rest of the frame comes a line late; the LCD gives the DDR port back after
  every beat, where the comment in `top.v` speaks of several.
- SD: S_DONE can last 136 cycles of the slow clock and then overrides a start written
  meanwhile. All commands but the first CMD17 after CMD16 have a delay before them; there
  it is the shell's printing. `ClearStatus` assumes it. The checksum of an answer is not
  looked at. `sdcard_rd`, typed while the host still waits, would print the buffer of an
  earlier command; `sdload` is safe, as its first command's result is not used. The
  driver gives up only on commands slower than its poll loop, which CMD17 with its own
  time-out in the host is not.
- FAT: an empty BOOT.BIN has cluster 0, the sign of "not found", and the search goes on
  past the table (it ends with an error); a chain that is a cycle is followed for ever.
- XMODEM: once a block has begun, a sender that stops leaves the receiver waiting.
- Scheduler: `prvAddNewTaskToReadyList` reads the new task's priority for the yield after
  the critical section, when the task may already be deleted and freed; the model then
  chooses freely. A task deleted in the middle of creating or deleting another leaves
  that block allocated for ever, and the blocks that one was creating or deleting in turn
  (a chain longer than the runs have tasks for, which the proof brought up). A task deleted
  while notified stays asleep, of course: `NotifiedTaskWakes` is about live ones.
- Queues: giving a mutex to a waiter of lower priority (`queue.c:1040`) skips the yield
  that losing an inherited priority asked for, until the next tick, so
  `HighestPriorityRuns` is checked where there is no mutex. `xQueueGenericReset` lets one
  sender go though all places are free, as its comment says. `cTxLock` stops at the number
  of tasks, so a set can miss events of a member that gets more items while locked. A
  call held up past its time-out for a whole turn of the counter waits again.

### Bounds, and why they are enough

- Bridge: one line of two words of two lanes over two byte values. Requests write a
  whole word, part of a word and the neighbour word, so a lost lane, word or stale
  read shows. The proofs cover all other sizes.
- LCD: 2 beats of 2 pixels, 3 rows (so "one on" and "one back" differ), short
  porches. `HFp < HBlank` as in the panel's timing. At least one `app_clk` edge falls
  between two pixel clock edges (the real ratio is above ten).
- Arbiter: one DDR line of one word, one beat per LCD line. Liveness leaves the data
  out (words without lanes), as progress does not depend on it.
- Data port: one word of RAM, a device register, and a DDR word each for data, two for
  code and two for page tables, each with a content of its own; words are sets of
  flags. `data_port` has its atomic operations, and a store, on the level 0 entry,
  which the walker writes; atomic operations on another word meet fewer writers. Every
  combination of next operation, TLB miss, fetch and redirect is tried in every cycle.
  Each run has the operations its question needs; `data_port_live` has the longest, an
  AMO. `mmio_hits` counts to 2.
- CLINT: halves of 4 values; timer: registers of 4 values, so wraps are frequent. The
  64-bit time itself does not wrap; the run stops at its end, hence no deadlock check.
- XMODEM: 2 blocks of 3 bytes that look like control bytes, 3 retries, 3 faults; a frame
  has more bytes than there are retries, as in the code (133 and 16). The system may
  stop: both programs end.
- Heap: 21 bytes, units of alignment 2 and headers of 2, `size_t` of 6 bits, two users with
  up to 3 blocks: every split and merge, and each of the overflows of a size.
- Lists: two lists, three items, two values, one of them the end marker's.
- SD: sectors of 2 units, tables of 4 entries a sector, files of up to three clusters, so that
  directory, table and file each cross a sector; sector numbers wrap at 128. `MaxNoise` 3
  faults reach the last of the driver's 3 attempts; `InitTries` 2; `MaxBoots` 2, so that one
  load starts from whatever the one before left in the host.
- Kernel: the tick counter has 4 values and turns over (`Overflows` 2 or 3; absolute time is
  counted modulo `Cycle`, long enough for no two times in use to be confused). `MaxPended`:
  ticks held back while the scheduler is suspended. `MaxNotify`: the largest notification
  value. `MaxDepth`: recursive takes. `MaxLate`: how many ticks a blocked call that is over
  may be kept from running, and `load.late` the same for the timer task: beyond a turn of
  the counter (seven weeks) times are ambiguous to the code itself. Timer periods are at most
  `MaxDelay` less that; delays of `xTaskDelayUntil` stay within a turn.
- Workloads have at most three tasks and the idle task, two queues and two timers; each was
  chosen for a pair or triple of calls that meet. Members of a set are received from
  without waiting, as its rules demand; `xTaskAbortDelay` is not combined with queue calls.

### Fairness

Clocks run: weak fairness of each edge. (The pixel clock, once enabled by an
`app_clk` edge, stays enabled until it ticks.) The controller finishes
calibration, is ready again and again, and returns what it has read: its contract
towards any user. The CPU may keep the LCD waiting only through its lock, so
`app_port_live` has none (locks are held for one atomic operation). In `DataPort` the
bridge comes to the end of its request again and again, which is `CpuServed` of
`AppPort`. In `Xmodem` both
programs go on, the line need not do anything. Answers are faster than timeouts (one
second at the receiver, three at the sender, against 12 ms for a frame). In `SdBoot` host
and driver go on; the card need not. In `Tasks` only the tick is fair: it comes again and
again, which is the CLINT's `IrqWhenDue`; that a task gets on with its own code is not
assumed. `MCParts` states the fairness of the part a behaviour is about.

## Proofs

Eight modules prove safety for every value of the constants. Each states an inductive
invariant, proves that Init implies it and every action keeps it, and draws from it the
property that a run checks on a small instance. TLC finds the invariants true on the
instances of the runs as well.

| Module | Proved | Inductive invariant |
|---|---|---|
| `AppPortProofs` | `TypeCorrect`, `HandshakeCorrect`, `PayloadsCrossWhole`, `ReadsBounded`, `CommandsTaken`, `BridgeImplementsMemory` of the bridge; `BeatsReachOwners`, `PortImplementsMemory` of the port | `BridgeInv`; `PortInv` |
| `DataPortProofs` | `FetchesAreCorrect`, `WalkerReadsItsTable`, `AccessesAreCorrect`, `AtomicsAreAtomic` | `FetchInv`, `AccessInv`, `AtomicInv` |
| `DeviceProofs` | `MtimeIsReadWhole`, `IrqIsWhenDue`; `DelayIsLongEnough`; `NeverTears`, `ShowsWholeLines`, `ShowsLinesInOrder`; `LoadsTheImage` | `ClintInv`; `TimerInv`; `LcdInv`; `XmodemInv` |
| `HeapProofs` | `HeapIsSound`, `FailsOnlyWhenHeapIsFull` | `HeapInv` |
| `ListProofs` | `ListsImplementSequences` | `ListInv` |
| `KernelProofs` | what each routine of `Kernel` does to a record whose lists are consistent | - |
| `TaskProofs` | `TasksListsConsistent`, `TasksNoUseAfterFree`, `TasksHighestPriorityRuns`, `TasksNeverLate`, `TasksNeverEarly`, `TasksNotifiedTaskWakes` | `TaskInv`, `Clocked`, `WakeInv` |
| `QueueProofs` | `QueuesImplementFifo` | `Inv`, that is `Right` and `Places` |

**Bridge.** That the captured request is the one the bus latched is not inductive: it
needs to know that at most one toggle is travelling down each synchroniser and that the
payload has settled one stage behind it (`RequestCrossing`, `ResponseCrossing`), that the
app side is busy exactly while it owes a response (`AppOwes`), the bus side exactly while
it waits for one (`BusOwed`) - together `Handshake` - and that commands and reads in the
controller agree with the FSM's state and with the line being merged
(`ControllerAgrees`). For the refinement of `WordMemory` the write is performed when
S_ACK hands the merged line to the controller, the read when its line returns; every
other step is a stutter. This is what lets `SocBus` use `WordMemory` for the bridge. The
proofs assume of the controller what `DdrStep` says: commands in order, and a ready line
that is up stays up until a command is taken; the bridge depends on the latter, as its
command is registered a cycle after it saw ready.

**Arbiter.** `PortInv` keeps the bridge's `Handshake`, with the lemmas about the bridge
alone, and says what is new: `QueueOK`, that in the controller there is at
most one read of each master, the LCD's in front; `GrantOK`, that the DMA waits exactly
while a beat of its is out and that the bridge has issued nothing while the LCD is
granted; `CommandOK`, what the bridge's registers say of the line in memory. Beats carry
no tag, so that the first beat is its taker's can only follow from where every beat is.

**LCD.** The handshake passes one token: a line is being filled, or its acknowledge is on
the way, or the next request is (`TokenInv`). The buffers are apart from the start of a
line until the panel adopts it; the one delicate case is the write still pending when the
acknowledge leaves, which has one `app_clk` edge to land (`BufferInv`, with `app_ticked`).
`LineInv` says which line the fill is about and how much of it is there, with the last
pixel perhaps still pending. All three properties follow from it.

**Data port.** In three layers, because the first needs no hypothesis. `FetchInv`:
while a request is with the bridge its owner does not change, a request of the fetch
stage is the one that is pending, and what the bridge performed is still what memory
holds until the acknowledge. `AccessInv`: a request of the data port in flight is what
the port drives now, and replies of RAM and devices are to the access in the memory
stage. It holds only with page tables in DDR (hypothesis `TablesInDdr`; with tables in
DATARAM the code does give the walker a reply of the core's, under Findings).
`AtomicInv`: what an LR or AMO has captured is still in memory until it is written.
What is there may differ by accessed and dirty bits if the word is an entry of the
tables (`Near`), and atomic operations may be on any word. That a walk adds nothing
but those bits needs in turn that the entry it has read is still in memory when it
writes it back (`WalkOK`); no store of the core's can fall in between, because the
walk holds the port, and a store already with the bridge keeps the walk from the port
until it is acknowledged (`Writing`). The runs of `DataPort` satisfy `TablesInDdr`.
The bridge is `WordMemory`, which `PortImplementsMemory` justifies. `Value` is every
set of flags, closed under what the walker writes back; `DdrAddr` is not empty, as the
registers need a reset value.

**CLINT.** `ReadInv` says what each of the three reads knows: the high half is not ahead
of the timer, and the low half is that of some time during the call. `CompareInv` and
`TickInv` say which half of the compare register is already written and that the kernel
port's two values are the next two multiples of the tick.

**Timer.** `Tracked`: the ticks gone by in a delay are the distance the count has moved,
but for the times it wrapped. `TimerAssumption` has written values fit their registers,
as they do on a 32-bit bus.

**XMODEM.** What is stored is a prefix of the image (`StoredOK`), which rests on what is
on the line (`LineOK`): before each checksum on its way stands what is left of its own
frame, each byte the sender's or noise (`WholeFrames`). Bytes of a spoiled frame are taken
for anything, and still a block whose checksum fits is whole. The checksum is ideal, and
noise never makes a block number with its complement (`XmodemAssumption`). The image has
fewer blocks than there are block numbers: the sender refuses one of more than 255
(`xmodem_send.py:85`). A number then says which block it is.

**Heap.** `HeapInv` is `HeapCanonical` and `AllocationsDisjoint` taken apart for induction
(the low-water mark is in neither; a reset, in two steps, touches no header and no count):
headers lie where they should (`Placed`), tile the heap (`Tiled`), the free list goes
through exactly the given blocks in order of address (`Linked`), no two of which touch
(`Apart`); the list holds the unused blocks that are not half freed; the count is the
number of bytes on it; each block lent is in a used header of its own and large enough
(`Lends`); and no two tasks free the same block. That a block half freed is on no list and
in no one's hands is what makes `vPortFree` safe to be interrupted. The walks of the
source are the recursive functions `Iterate` and `vPortGetHeapStats`: what they find is
proved with the least or the greatest address at which it would be wrong, which exists by
well-founded order, so that no induction principle has to be applied. `CarveFacts` is
about splitting, `LinkFacts` and `MergeFacts` about putting a block behind its predecessor
and merging it on either side. `HeapAssumption` has the header a multiple of the alignment,
as `xHeapStructSize` is computed, and the heap no larger than half of `size_t`'s range
(1 MiB against 4 GiB), so that its size fits below the allocated bit.

**Lists.** `ListInv` says that every list holds the sequence met from its end marker on
(`Holds`): the links both ways are that sequence's (`Chain`), its items are those whose
pxContainer is the list, as many as are counted, and pxIndex is on one of them or the end
marker, for an ordered list on the end marker. The refinement mapping walks the links;
`WalkFacts` shows that a walk along a `Chain` gives its sequence, by the least step at
which it would not. `PastFacts` does the same for the search of `vListInsert`, from the
far end: it stops behind the last item whose value is not larger, where the abstract
operator does. `JoinHolds` and `LeaveHolds` are about one list gaining or losing an item
while the others keep theirs, which no other list's node takes part in (`Spares`). The
theorem covers the cases the source has no test for: removal of the item under pxIndex,
equal values, the largest value, a list that becomes empty. Lists and items are any sets;
values are numbers up to `EndValue`, portMAX_DELAY.

**Scheduler.** `KernelProofs` takes the routines one by one, in the order they call each
other: from a record whose lists are `Good` (every placed task in one state list, at the
priority it has; event lists sorted; the delayed lists sorted with the next wake-up cached)
each gives one whose lists are, and says which tasks it moved and what it left alone.
Loops that wake or ready many tasks are recursive functions; `LoopExists` and
`LoopInvariant` treat them once, by the least step at which the invariant would fail.
`TaskProofs` then has one lemma per action. `TaskInv` says: whose the control blocks are
that are being built or freed, each in one task's hands (`Blocks`); the lists are good for
exactly the tasks nobody is building or freeing (`Sound`), so that a block about to be
freed is on no list; what each place in a call implies (`Places`): the places at which the
scheduler is suspended are the current task's only, with the nesting the call has left; and
the current task is ready and outranked by nobody unless it is on its way off the processor,
or a yield is pending behind a suspended scheduler, or it has just readied the task that
outranks it and comes to the yield next (`Running`). No task, workload, priority or width of
the tick is fixed.

Time and notifications take two more parts, together `Inductive`. `Clocked` says that every
sleeping task's deadline is what the lists say (`Timely`): ahead of the tick and in this turn
of the counter if the task is on the current delayed list, behind it and in the next turn if
on the overflow list. Every routine of `KernelProofs` keeps that for whoever sleeps on
(`Later`: so many ticks are counted, and whom time wakes has had his deadline among them), so
`NeverLate` and `NeverEarly` follow for any width of the counter and any number of ticks held
back; what is left is that `vTaskDelay`, `xTaskDelayUntil` and the waits put a task on the
list that `Timely` wants, for which `UntilFalls` takes the cases of the counter's wrap.
`WakeInv` says of a task inside a wait that it has not been notified or is awake, which only
holds because of what it says one step earlier: a task about to sleep has not been notified,
or the interrupt that did so has put it on xPendingReadyList, for `xTaskResumeAll` to wake. It
needs `Gentle` of every other call, that nobody falls asleep who did not ask to, and gives
`NotifiedTaskWakes`.

`TasksAssumption` has the tasks finite, delays within the counter's range
and priorities below `MaxPriorities`, and the idle task at priority 0 making no calls, which
is how `vTaskStartScheduler` creates it.

**Queues.** `Right` says what the record of a queue of items holds: the write index lies one
place behind the last item counted from the read index, and what lies between are items
(`Ring`), with `Low` for the remainder, since an index never runs ahead by three turns.
`RingBack`, `RingFront`, `RingOver` and `RingTake` are the four things that happen to a ring
and what they do to the sequence in it. `Places` says of a task at a place of `queue.c` that
its call is a legal one there: it sends an item to a queue of items, at a position that the
length allows, receives from one, or takes a semaphore or a mutex; every step of `Tasks` and
of `queue.c` keeps it, so nothing a scheduler does between two places of a call turns it into
another. What remains is the queue set: an item of a member is told to the set in the same
step (`Spread`), unless the member is locked, and then `prvUnlockQueue` tells it so many times
as were counted, while the set may fill up, be locked itself, or have no room (`Told`: a
number of equal entries behind what was there). Its loop is a recursive function; `TurnsKeep`
treats it by the least turn that would go wrong. `QueueAssumption` has lengths positive, as
`xQueueGenericCreate` checks, no set a member of itself, and `NoQueue` no item. The proof
needs nothing of the scheduler but that it leaves the queues alone.

Beyond this prover and only model-checked: liveness and ENABLED. Model-checked and not
yet proved: what queues and software timers ask of the scheduler (`NoLostWakeup`,
`TimeoutsExact`, `HolderPriorityExact`, `CallbacksExact`, `DaemonWakesInTime`), whose calls
nest those of the scheduler at a dozen places,
and the SD boot (a walk of FAT chains). Bounds such as
`MaxOwned` and `MaxFaults` are any number in the proofs.

## Not modelled

- RAM byte selects, unmapped addresses (they fault before the bus), MMIO devices'
  behaviour behind the interconnect (a register each).
- TLBs, permissions, ASIDs and killed walks in `DataPort`: a walk starts or not, freely.
- Instruction decode, ALU, forwarding, divider; CSRs and traps.
- UART, I2C, SPI, GPIO, shell commands other than `sdload`. Image header and padding in
  `Xmodem`. In `SdBoot` bits, clocks and checksums are a block being whole or not.
- FreeRTOS: several cores, MPU and static-allocation variants, co-routines, statistics and
  listings, thread-local storage, tickless idle, the queue registry, `vQueueDelete` and
  changes of a set's members, pended function calls, getters without effect. Event groups,
  stream and message buffers have headers only. The timer task's accesses of a timer's
  `ucStatus` (`timers.c:735`, `1002`) are part of a step, though they are outside a critical
  section: a `vTimerSetReloadMode` of a task of higher priority in between would be lost. In
  the workloads its caller is below the timer task. Saving and restoring registers is
  assembly. What a ring held is forgotten when it is received; the heap's counters of
  successful calls are left out.
- About a fifth of the lines of C in the repository are mapped. Half of the rest are the
  kernel's headers, documentation with declarations and defaults and, for event groups,
  stream buffers, co-routines and MPU, of code that is not there; most of the other half is
  kernel code for configurations this one-core system does not build, and comments between
  functions. None of it has state or steps that a model of this system would have.
- XMODEM sender's result: two answers to one block can put the sender a block ahead, and
  with more faults than the run allows it can report success early; the receiver does not.

## Plan

Done: the memory system (bridge, arbiter, LCD, interconnect, data port), CLINT, timer,
XMODEM, SD boot, and the FreeRTOS kernel from its lists to its timers. Next:

1. `Sv32Mmu`: TLBs, fills, sfence, killed walks, pending instruction faults, on the
   walker of `DataPort`; no stale entry, no fault for a cancelled fetch.
2. `PrivCsr`: trap entry, delegation, return, interrupts, against a privilege stack.
3. `Uart` with its driver, then `Xmodem` on it.
4. `Fetch`: instruction buffer and compressed instructions across words; divider against
   integer division.
5. Proofs: `NoLostWakeup` of `Queues` on top of `Places` of `QueueProofs` and the records
   of `KernelProofs`; `SdLoadedWhole` of `SdBoot`.
