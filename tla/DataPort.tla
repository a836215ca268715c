------------------------------ MODULE DataPort -----------------------------
(***************************************************************************)
(* The CPU's side of the bus: the memory stage and the atomic unit of      *)
(* src/rtl/core/cpu.sv, the page-table walker of src/rtl/core/sv32_mmu.sv  *)
(* that shares the data port with them, and the fetch stage, on top of     *)
(* SocBus.  One step is one edge of clk.                                   *)
(*                                                                         *)
(* A word is a set of flags, so that page-table entries and the atomics    *)
(* and/or/swap on them need no encoding: V valid and permitted, L leaf, A  *)
(* accessed, D dirty.  What the pipeline issues next, when it redirects,   *)
(* and when a translation misses, is chosen freely.  The walker has one    *)
(* table of each level; TLBs and permissions are not modelled here.        *)
(***************************************************************************)
EXTENDS SocBus

CONSTANTS
  Ops,                  \* what may enter EX/MEM: records of Op
  FetchAddr,            \* where the program runs
  RootPte, LeafPte      \* the level 1 and level 0 entries of the walk

Flags == {"V", "L", "A", "D"}
Op == [kind : {"load", "store", "lr", "sc", "amo"}, adr : DataAddr, dat : Value, fn : {"and", "or", "swap"}]

ASSUME DataPortAssumption ==
  /\ Ops \subseteq Op /\ Value = SUBSET Flags /\ Zero = {}
  /\ FetchAddr \subseteq DdrAddr \union RomAddr
  /\ RootPte \in RamAddr \union DdrAddr /\ LeafPte \in RamAddr \union DdrAddr
  /\ \A o \in Ops : o.kind \in {"lr", "sc", "amo"} => o.adr \notin MmioAddr   \* supports_atomic

VARIABLES
  op,                                  \* EX/MEM: what is in the memory stage
  mem_started,
  atomic_state, atomic_started, atomic_old_value, atomic_new_value,
  reservation_valid, reservation_word_addr,
  ptw_state, walk_pte_addr, walk_pte, walk_store, walk_is_instr,
  pc_f, if_valid, if_pc,
  mmio_hits                            \* auxiliary: strobes of the current op, at most 2

coreVars == <<op, mem_started, atomic_state, atomic_started, atomic_old_value, atomic_new_value,
              reservation_valid, reservation_word_addr>>
ptwVars == <<ptw_state, walk_pte_addr, walk_pte, walk_store, walk_is_instr>>
fetchVars == <<pc_f, if_valid, if_pc>>
portVars == <<socVars, coreVars, ptwVars, fetchVars, mmio_hits>>

PtwStates == {"PTW_IDLE", "PTW_L1_WAIT", "PTW_L1_CHECK", "PTW_L0_WAIT", "PTW_L0_CHECK",
              "PTW_AD_WAIT", "PTW_FILL", "PTW_FAULT"}
AtomicStates == {"ATOMIC_IDLE", "ATOMIC_LR_READ", "ATOMIC_LR_CAPTURE", "ATOMIC_SC_WRITE",
                 "ATOMIC_AMO_READ", "ATOMIC_AMO_CAPTURE", "ATOMIC_AMO_WRITE", "ATOMIC_COMPLETE"}

NoOp == [kind |-> "none", adr |-> RootPte, dat |-> Zero, fn |-> "swap"]

DataPortInit ==
  /\ SocInit
  /\ op = NoOp /\ mem_started = FALSE
  /\ atomic_state = "ATOMIC_IDLE" /\ atomic_started = FALSE
  /\ atomic_old_value = Zero /\ atomic_new_value = Zero
  /\ reservation_valid = FALSE /\ reservation_word_addr = RootPte
  /\ ptw_state = "PTW_IDLE" /\ walk_pte_addr = RootPte /\ walk_pte = Zero
  /\ walk_store = FALSE /\ walk_is_instr = FALSE
  /\ pc_f = (CHOOSE a \in FetchAddr : TRUE) /\ if_valid = FALSE /\ if_pc = pc_f
  /\ mmio_hits = 0

----------------------------------------------------------------------------
\* Wires.

mem_req == op.kind \in {"load", "store"}
isAtomic == op.kind \in {"lr", "sc", "amo"}
Accessing == {"ATOMIC_LR_READ", "ATOMIC_SC_WRITE", "ATOMIC_AMO_READ", "ATOMIC_AMO_WRITE"}
coreCyc == mem_req \/ atomic_state \in Accessing

\* What the core drives.
core_data ==
  [cyc  |-> coreCyc,
   stb  |-> coreCyc /\ IF atomic_state # "ATOMIC_IDLE" THEN atomic_started ELSE mem_started,
   we   |-> op.kind = "store" \/ atomic_state \in {"ATOMIC_SC_WRITE", "ATOMIC_AMO_WRITE"},
   adr  |-> op.adr,
   dat  |-> IF atomic_state = "ATOMIC_AMO_WRITE" THEN atomic_new_value ELSE op.dat,
   lock |-> atomic_state \in Accessing \union {"ATOMIC_LR_CAPTURE", "ATOMIC_AMO_CAPTURE"}]

\* The entry with its accessed, and for a store its dirty, bit set.
WithAD(pte) == pte \union {"A"} \union (IF walk_store THEN {"D"} ELSE {})

\* The walker has the port while it waits for a reply, the core otherwise.
walk_active == ptw_state \in {"PTW_L1_WAIT", "PTW_L0_WAIT"}
ptw_owns == walk_active \/ ptw_state = "PTW_AD_WAIT"

phys_data ==
  IF ptw_owns
  THEN [cyc |-> TRUE, stb |-> TRUE, we |-> ~walk_active, adr |-> walk_pte_addr,
        dat |-> WithAD(walk_pte), lock |-> ~walk_active]
  ELSE core_data

phys_ack == DataAck(phys_data)
core_ack == ~ptw_owns /\ phys_ack
core_dat_r == IF ptw_owns THEN Zero ELSE DataRdata(phys_data)

stall_mem == mem_req /\ (~mem_started \/ ~core_ack)
stall_atomic == atomic_state # "ATOMIC_IDLE" \/ isAtomic

----------------------------------------------------------------------------
\* The memory stage: a load or store holds cyc, and stb from the second cycle
\* on, until it is acknowledged; next is what the pipeline has ready then.

amo_compute(fn, old, rhs) ==
  CASE fn = "and" -> old \intersect rhs
    [] fn = "or" -> old \union rhs
    [] OTHER -> rhs

\* Mutant: stb goes out with cyc, and a late acknowledgement is taken for it.
MemStep_no_started(next) ==
  IF stall_atomic THEN UNCHANGED <<op, mem_started>>
  ELSE IF mem_req /\ ~core_ack THEN mem_started' = TRUE /\ UNCHANGED op
  ELSE /\ op' = next
       /\ mem_started' = mem_req

MemStep(next) ==
  IF stall_atomic THEN UNCHANGED <<op, mem_started>>
  ELSE IF stall_mem THEN mem_started' = TRUE /\ UNCHANGED op
  ELSE /\ op' = next
       /\ mem_started' = FALSE

\* The atomic unit: one held operation, one or two bus transactions.
AtomicStart ==
  /\ isAtomic /\ atomic_state = "ATOMIC_IDLE"
  /\ LET fails == op.kind = "sc" /\ ~(reservation_valid /\ reservation_word_addr = op.adr)
     IN /\ atomic_state' = CASE fails -> "ATOMIC_COMPLETE"
                             [] op.kind = "lr" -> "ATOMIC_LR_READ"
                             [] op.kind = "sc" /\ ~fails -> "ATOMIC_SC_WRITE"
                             [] op.kind = "amo" -> "ATOMIC_AMO_READ"
        /\ reservation_valid' = (reservation_valid /\ ~fails)
  /\ atomic_started' = FALSE
  /\ UNCHANGED <<op, atomic_old_value, atomic_new_value, reservation_word_addr>>

AfterAccess ==
  [s \in Accessing |-> CASE s = "ATOMIC_LR_READ" -> "ATOMIC_LR_CAPTURE"
                         [] s = "ATOMIC_AMO_READ" -> "ATOMIC_AMO_CAPTURE"
                         [] OTHER -> "ATOMIC_COMPLETE"]

AtomicAccess ==
  /\ atomic_state \in Accessing
  /\ IF atomic_started /\ core_ack
     THEN /\ atomic_started' = FALSE
          /\ atomic_state' = AfterAccess[atomic_state]
          /\ reservation_valid' = (reservation_valid /\ atomic_state \in {"ATOMIC_LR_READ", "ATOMIC_AMO_READ"})
     ELSE atomic_started' = TRUE /\ UNCHANGED <<atomic_state, reservation_valid>>
  /\ UNCHANGED <<op, atomic_old_value, atomic_new_value, reservation_word_addr>>

AtomicCapture ==
  /\ atomic_state \in {"ATOMIC_LR_CAPTURE", "ATOMIC_AMO_CAPTURE"}
  /\ atomic_old_value' = core_dat_r
  /\ IF atomic_state = "ATOMIC_LR_CAPTURE"
     THEN /\ reservation_valid' = TRUE /\ reservation_word_addr' = op.adr
          /\ atomic_state' = "ATOMIC_COMPLETE"
          /\ UNCHANGED atomic_new_value
     ELSE /\ atomic_new_value' = amo_compute(op.fn, core_dat_r, op.dat)
          /\ reservation_valid' = FALSE
          /\ atomic_state' = "ATOMIC_AMO_WRITE"
          /\ UNCHANGED reservation_word_addr
  /\ UNCHANGED <<op, atomic_started>>

AtomicComplete ==
  /\ atomic_state = "ATOMIC_COMPLETE"
  /\ op' = NoOp /\ atomic_state' = "ATOMIC_IDLE"
  /\ UNCHANGED <<atomic_started, atomic_old_value, atomic_new_value, reservation_valid,
                 reservation_word_addr>>

\* Mutant: a store between LR and SC leaves the reservation standing.
AtomicIdle_store_keeps(trap) ==
  /\ ~stall_atomic
  /\ reservation_valid' = (reservation_valid /\ ~trap)
  /\ UNCHANGED <<atomic_state, atomic_started, atomic_old_value, atomic_new_value,
                 reservation_word_addr>>

\* Nothing atomic in the memory stage: a store, once acknowledged, ends any
\* reservation, and so does a trap or a return.
AtomicIdle(trap) ==
  /\ ~stall_atomic
  /\ reservation_valid' = (reservation_valid /\ ~(op.kind = "store" /\ core_ack) /\ ~trap)
  /\ UNCHANGED <<atomic_state, atomic_started, atomic_old_value, atomic_new_value,
                 reservation_word_addr>>

CoreStep(next, trap) ==
  \/ /\ AtomicStart \/ AtomicAccess \/ AtomicCapture \/ AtomicComplete
     /\ UNCHANGED mem_started
  \/ AtomicIdle(trap) /\ MemStep(next)

----------------------------------------------------------------------------
\* The walker.  walk is the translation that misses in this cycle, if any; a
\* root table outside memory is an access fault at once.

Walks == {"none", "fetch", "load", "store"}

PtwIdle(walk) ==
  /\ ptw_state = "PTW_IDLE"
  /\ IF walk # "none" /\ ~coreCyc
     THEN /\ ptw_state' \in {"PTW_L1_WAIT", "PTW_FAULT"} /\ walk_pte_addr' = RootPte
          /\ walk_store' = (walk = "store") /\ walk_is_instr' = (walk = "fetch")
          /\ UNCHANGED walk_pte
     ELSE UNCHANGED ptwVars

PtwWait ==
  /\ walk_active
  /\ IF phys_ack
     THEN /\ walk_pte' = DataRdata(phys_data)
          /\ ptw_state' = IF ptw_state = "PTW_L1_WAIT" THEN "PTW_L1_CHECK" ELSE "PTW_L0_CHECK"
     ELSE UNCHANGED <<walk_pte, ptw_state>>
  /\ UNCHANGED <<walk_pte_addr, walk_store, walk_is_instr>>

PtwCheck ==
  /\ ptw_state \in {"PTW_L1_CHECK", "PTW_L0_CHECK"}
  /\ IF "V" \notin walk_pte \/ ("L" \notin walk_pte /\ ptw_state = "PTW_L0_CHECK")
     THEN ptw_state' = "PTW_FAULT" /\ UNCHANGED walk_pte_addr
     ELSE IF "L" \in walk_pte
     THEN /\ ptw_state' = IF WithAD(walk_pte) # walk_pte THEN "PTW_AD_WAIT" ELSE "PTW_FILL"
          /\ UNCHANGED walk_pte_addr
     ELSE ptw_state' = "PTW_L0_WAIT" /\ walk_pte_addr' = LeafPte
  /\ UNCHANGED <<walk_pte, walk_store, walk_is_instr>>

PtwUpdate ==
  /\ ptw_state = "PTW_AD_WAIT"
  /\ IF phys_ack THEN walk_pte' = WithAD(walk_pte) /\ ptw_state' = "PTW_FILL"
                 ELSE UNCHANGED <<walk_pte, ptw_state>>
  /\ UNCHANGED <<walk_pte_addr, walk_store, walk_is_instr>>

\* Any walk ends at once but a data walk that faults: that one waits for its
\* request to go.
PtwEnd ==
  /\ ptw_state \in {"PTW_FILL", "PTW_FAULT"}
  /\ \/ ptw_state' = "PTW_IDLE"
     \/ ptw_state = "PTW_FAULT" /\ ~walk_is_instr /\ UNCHANGED ptw_state
  /\ UNCHANGED <<walk_pte_addr, walk_pte, walk_store, walk_is_instr>>

PtwStep(walk) == PtwIdle(walk) \/ PtwWait \/ PtwCheck \/ PtwUpdate \/ PtwEnd

----------------------------------------------------------------------------
\* The fetch stage.  A redirect flushes; it comes from EX, which stands still
\* while the memory stage does.

FetchStep(i, target) ==
  IF i.flush
  THEN pc_f' = target /\ if_valid' = FALSE /\ if_pc' = target
  ELSE IF i.ren /\ ~InstrStall(i)
  THEN /\ if_pc' = pc_f /\ if_valid' = TRUE
       /\ pc_f' \in IF pc_f \in DdrAddr THEN FetchAddr \intersect DdrAddr ELSE FetchAddr \intersect RomAddr
  ELSE if_valid' = FALSE /\ UNCHANGED <<pc_f, if_pc>>

ClkEdge(next, trap, walk, i, target) ==
  /\ SocStep(phys_data, i)
  /\ CoreStep(next, trap)
  /\ PtwStep(walk)
  /\ FetchStep(i, target)
  /\ mmio_hits' = IF op' # op \/ (mem_req /\ ~stall_mem) THEN 0
                  ELSE IF MmioStrobe(phys_data) /\ mmio_hits < 2 THEN mmio_hits + 1
                  ELSE mmio_hits

\* The data translation in EX is not ready: a walk for it begins or goes on.
stall_mmu(walk) ==
  \/ walk \in {"load", "store"}
  \/ ptw_state \notin {"PTW_IDLE", "PTW_FAULT"} /\ ~walk_is_instr

\* What EX may do in this cycle: send an operation to the memory stage, miss
\* in a TLB, redirect the fetch stage.
NextOps(walk) == IF stall_mem \/ stall_atomic \/ stall_mmu(walk) THEN {NoOp} ELSE Ops \union {NoOp}
NextWalks == IF ptw_state = "PTW_IDLE" /\ ~coreCyc THEN Walks ELSE {"none"}
Fetches(walk) ==
  {[ren |-> r, addr |-> pc_f, flush |-> FALSE] : r \in BOOLEAN} \union
  (IF stall_mem \/ stall_atomic \/ stall_mmu(walk) THEN {}
   ELSE {[ren |-> FALSE, addr |-> pc_f, flush |-> TRUE]})

DataPortNext ==
  \E walk \in NextWalks : \E next \in NextOps(walk), i \in Fetches(walk) :
    \E target \in IF i.flush THEN FetchAddr ELSE {pc_f}, trap \in {FALSE, i.flush} :
      ClkEdge(next, trap, walk, i, target)

DataPortSpec == DataPortInit /\ [][DataPortNext]_portVars

\* clk runs, and the bridge comes to the end of every request (CpuServed of
\* AppPort).
FairDataPortSpec == DataPortSpec /\ WF_portVars(DataPortNext) /\ []<>(ddr_phase = "idle")

----------------------------------------------------------------------------
\* Properties

MemDone == mem_req /\ mem_started /\ core_ack

\* A load that leaves the memory stage takes the word its address holds, and a
\* store leaves it there: no reply meant for the walker or for an earlier
\* access is taken for this one's.
AccessesCorrect ==
  /\ [][MemDone /\ op.kind = "store" => \A a \in {op.adr} : Content(a)' = op.dat]_portVars
  /\ [](MemDone /\ op.kind = "load" => core_dat_r = Content(op.adr))

\* The walker goes by the entry that is in the table, never by data that some
\* access of the core brought.
WalkerReadsTable ==
  walk_active /\ phys_ack => DataRdata(phys_data) = Content(walk_pte_addr)

\* A fetched word is the word at the address it was fetched from, redirects
\* and killed fetches notwithstanding.
FetchCorrect ==
  if_valid /\ if_pc \in DdrAddr => instr_ddr_rdata_q = Content(if_pc)

\* The word at a has kept what was read of it, old, but for accessed and dirty
\* bits that the walker has set in an entry of the tables.
Kept(a, old) ==
  \/ Content(a) = old
  \/ /\ a \in {RootPte, LeafPte}
     /\ old \subseteq Content(a) /\ Content(a) \subseteq old \union {"A", "D"}

\* Between an AMO's read and write of a word, or an LR and an SC that succeeds,
\* nothing of the core's writes it, and the walker at most sets an entry's
\* accessed and dirty bits: those are all the write can undo.
AtomicsAtomic ==
  [][/\ \E a \in {op.adr} : Content(a)' # Content(a)
     /\ ~ptw_owns
     /\ atomic_state \in {"ATOMIC_SC_WRITE", "ATOMIC_AMO_WRITE"}
     => Kept(op.adr, atomic_old_value)]_portVars

\* A device sees each access of the core once: the access is not issued again
\* after the walker took the port away from it.
MmioOnce == mmio_hits <= 1

\* Whatever the walker and the fetch stage do, an access of the core ends.
AccessesEnd == (op.kind # "none") ~> (op.kind = "none" \/ MemDone)

=============================================================================
