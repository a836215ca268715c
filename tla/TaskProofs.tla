----------------------------- MODULE TaskProofs -----------------------------
(***************************************************************************)
(* The scheduler keeps its lists consistent, frees no control block that   *)
(* it still points at, runs a task of the highest priority, wakes each     *)
(* sleeping task at its deadline and loses no notification: for any tasks, *)
(* priorities, workloads and widths of the tick.                           *)
(***************************************************************************)
EXTENDS Tasks, KernelProofs, FiniteSetTheorems

-----------------------------------------------------------------------------
(* The inductive invariant.                                                *)

(* The kernel's data when P are the tasks that are on its lists.           *)
Sound(x, P) ==
    /\ Good(x, P) /\ IdleReady(x) /\ x.cur \in P
    /\ x.base = x.prio
    /\ x.num = Cardinality(P) /\ x.cleanup = Len(x.dying)
    /\ x.susp = 0 => x.events[Pending] = <<>>
    /\ \A t \in ToSet(x.events[Pending]) : x.nstate[t] # WAITING

(* A control block that is being built or freed is nobody else's to build  *)
(* or free, and only a leaked block's orphans are leaked.                  *)
Blocks ==
    /\ tcbs \subseteq Tasks
    /\ \A u, v \in tcbs : u # v => Orphans(u) \cap Orphans(v) = {}
    /\ \A u \in tcbs : Orphans(u) \subseteq tcbs \ {u}
    /\ \A u \in tcbs : \A x \in Orphans(u) : pc[x].at = "leaked" => pc[u].at = "leaked"

(* What a place in a call says.                                            *)
WaitPlace == {"run", "check", "block", "done"}
WaitCall  == {"notifyTake", "notifyWait"}
Waits == [at : WaitPlace, op : WaitCall, wait : Ticks, all : BOOLEAN]
           \cup [at : WaitPlace, op : WaitCall, wait : Ticks, entry : Int, exit : Int]

Spot(c) ==
    /\ c.at \in {"add", "added", "free", "suspend"} => c.task \in Tasks
    /\ c.at \in {"resume", "resumeOnly", "yield"} => c.then.at \in {"run", "done", "gone"}
    /\ c.at \in {"check", "block"} => c \in Waits /\ c.wait > 0

(* Places that only the current task is at.                                *)
Held(c) == c.at \in {"resume", "resumeOnly", "check", "block"}

(* Inside a wait for a notification.                                       *)
InWait(c) == c.at \in {"block", "done"} \/ (c.at \in {"resume", "yield"} /\ c.then.at = "done")

(* The current task t is at c with the scheduler suspended or not, as the  *)
(* call it is in has left it.                                              *)
Fits(x, t, c) ==
    /\ c.at \in {"resume", "check", "block"} => x.susp = 1
    /\ c.at = "resumeOnly" => x.susp # 0
    /\ c.at = "yield" => x.susp = 0
    /\ c.at = "suspend" /\ c.task = t => x.susp = 0
    /\ c.at = "check" => t \notin ToSet(x.events[Pending])

Places ==
    /\ DOMAIN pc = Tasks
    /\ \A t \in Tasks : Spot(pc[t])
    /\ \A t \in Tasks \ {k.cur} : ~Held(pc[t])
    /\ \A t \in Tasks : k.nstate[t] = WAITING => InWait(pc[t]) \/ pc[t].at = "leaked"
    /\ pc[Idle].at \in {"run", "free"}
    /\ Fits(k, k.cur, pc[k.cur])

(* The current task is on its way off the processor.                       *)
Off(t, c) == c.at \in {"resume", "yield"} \/ (c.at = "suspend" /\ c.task = t)

(* Otherwise it is ready, and outranked only when a yield is pending.      *)
Serves(x, c, T) ==
    ~Off(x.cur, c) =>
        /\ CurReady(x)
        /\ \/ NoHigher(x)
           \/ x.susp # 0 /\ x.yield
           \/ c.at = "added" /\ c.task \in T /\ x.prio[c.task] > x.prio[x.cur]

Running == Serves(k, pc[k.cur], tcbs)

TaskInv == load \in Loads /\ Blocks /\ Sound(k, Placed) /\ Places /\ Running

(* What the call at c still waits by, if it has slept.                     *)
Op(c) ==
    LET d == IF c.at \in {"resume", "yield"} THEN c.then ELSE c
    IN  IF d.at = "done" THEN d.op ELSE "no"

(* No notification has come to t, which would have it on a ready list or   *)
(* about to be put there.                                                  *)
Expects(x, t, op) == x.nstate[t] = WAITING /\ (op = "notifyTake" => x.nval[t] = 0)

Awake(x, s, t) ==
    \/ t \in Readied(x) \/ t \in ToSet(x.events[Pending])
    \/ s /\ t \in ToSet(x.sleeping)

(* A task that waits has either not been notified or is awake; one about   *)
(* to sleep either has not been notified or will be woken when the         *)
(* scheduler is resumed.                                                   *)
Minded(x, s, t, c) ==
    /\ Op(c) # "no" => Expects(x, t, Op(c)) \/ Awake(x, s, t)
    /\ c.at = "block" => Expects(x, t, c.op) \/ t \in ToSet(x.events[Pending])

WakeInv == \A t \in Placed : Minded(k, Suspends, t, pc[t])

-----------------------------------------------------------------------------
(* What a step does to the waiting and to the sleeping.                    *)

(* A task that waits goes on waiting, and its value stays zero.            *)
Stays(x, y, t) ==
    x.nstate[t] = WAITING => y.nstate[t] = WAITING /\ (x.nval[t] = 0 => y.nval[t] = 0)

Gentle(x, y, T) ==
    /\ Kept(x, y, T)
    /\ ToSet(y.dying) \ T \subseteq ToSet(x.dying)
    /\ \A t \in Tasks \ T : Stays(x, y, t)

(* The ticks that are counted wake only those whose time has come.         *)
Elapses(x, y) == y.tick = x.tick \/ \E m \in Nat : m <= x.pended + 1 /\ Later(x, y, m)

(* Who sleeps on does so until the same time.                              *)
Punctual(x, y) ==
    /\ \A u : Timely(x, u) => Timely(y, u)
    /\ Elapses(x, y)

Keeps == TaskInv' /\ Punctual(k, k') /\ (WakeInv => WakeInv')

(* The previous wake times and the deadlines are absolute times, and the   *)
(* deadlines those the lists are made for.                                 *)
Clocked ==
    prev \in [Tasks -> 0 .. Cycle - 1] /\ DOMAIN until = Tasks /\ Timely(k, until)

Endures ==
    /\ TaskInv' /\ (WakeInv => WakeInv')
    /\ Timely(k', until') /\ Elapses(k, k')

LEMMA KeepsEndures ==
    ASSUME Clocked, Keeps, \A t \in Timed(k') : until'[t] = until[t]
    PROVE  Endures
<1>1. Timely(k', until) BY DEF Clocked, Keeps, Punctual
<1>2. Timely(k', until') BY <1>1 DEF Timely, Timed
<1> QED BY <1>2 DEF Endures, Keeps, Punctual

LEMMA CalmIsPunctual ==
    ASSUME NEW x \in Kernels, NEW y \in Kernels, NEW T, Timeless(x, y, T), Timed(y) \cap T = {}
    PROVE  Punctual(x, y)
<1>1. \A u : Timely(x, u) => Timely(y, u) BY CalmIsTimely
<1>2. y.tick = x.tick BY DEF Timeless
<1> QED BY <1>1, <1>2 DEF Punctual, Elapses

LEMMA LaterIsPunctual ==
    ASSUME NEW x, NEW y, NEW m \in Nat, m <= x.pended + 1, Later(x, y, m)
    PROVE  Punctual(x, y)
BY DEF Punctual, Elapses, Later

(* A block that is on no list has no time of its own.                      *)
LEMMA ApartIsLater ==
    ASSUME NEW x \in Kernels, NEW y \in Kernels, NEW T, Kept(x, y, {}), Timeless(x, y, T),
           Timed(y) \cap T = {}, Timed(x) \ Timed(y) \subseteq ToSet(x.events[Pending])
    PROVE  Later(x, y, 0)
<1>1. y.tick = x.tick /\ y.ovf = x.ovf BY DEF Timeless
<1>2. After(x, 0, Now(y))
  <2>1. Now(y) = Now(x) BY <1>1 DEF Now
  <2>2. Now(x) = Now(x) + 0 + 0 * Cycle BY Widths
  <2> QED BY <2>1, <2>2 DEF After
<1>3. \A u : Timely(x, u) => Timely(y, u) BY CalmIsTimely
<1> QED BY <1>2, <1>3 DEF Later

-----------------------------------------------------------------------------
(* Places and control blocks.                                              *)

(* The current task t goes to c; a control block may be allocated, or left *)
(* for ever, on the way.                                                   *)
Lands(t, c) ==
    /\ t = k.cur /\ DOMAIN pc' = Tasks /\ pc'[t] = c /\ Spot(c)
    /\ t = Idle => c.at \in {"run", "free"}
    /\ k'.cur \in Tasks
    /\ k'.cur # t => k'.susp = 0 /\ ~Held(c)
    /\ k'.cur = t => Fits(k', t, c)
    /\ \A u \in Tasks \ {t} :
         \/ pc'[u] = pc[u] /\ (k'.nstate[u] = WAITING => k.nstate[u] = WAITING)
         \/ u # Idle /\ pc'[u].at = "leaked"
         \/ pc'[u] = Run /\ k'.nstate[u] # WAITING
    /\ k'.nstate[t] = WAITING => InWait(c)

LEMMA PlacesNext ==
    ASSUME Places, k.cur \in Tasks, NEW t, NEW c, Lands(t, c)
    PROVE  Places'
<1>1. /\ t = k.cur /\ t \in Tasks /\ DOMAIN pc' = Tasks /\ pc'[t] = c /\ Spot(c)
      /\ t = Idle => c.at \in {"run", "free"}
      /\ k'.cur \in Tasks
      /\ k'.cur # t => k'.susp = 0 /\ ~Held(c)
      /\ k'.cur = t => Fits(k', t, c)
      /\ k'.nstate[t] = WAITING => InWait(c)
  BY DEF Lands
<1>2. ASSUME NEW u \in Tasks \ {t}
      PROVE  \/ pc'[u] = pc[u] /\ (k'.nstate[u] = WAITING => k.nstate[u] = WAITING)
             \/ u # Idle /\ pc'[u].at = "leaked"
             \/ pc'[u].at = "run" /\ k'.nstate[u] # WAITING
  BY <1>2 DEF Lands, Run
<1>3. Idle \in Tasks BY KernelAssumption
<1>4. ASSUME NEW u \in Tasks PROVE Spot(pc'[u])
  <2>1. CASE u = t BY <1>1, <2>1
  <2>2. CASE u # t
    <3>1. Spot(pc[u]) BY DEF Places
    <3> QED BY <1>2, <2>2, <3>1 DEF Spot
  <2> QED BY <2>1, <2>2
<1>5. ASSUME NEW u \in Tasks \ {t} PROVE ~Held(pc'[u])
  <2>1. ~Held(pc[u]) BY <1>1, <1>5 DEF Places
  <2> QED BY <1>2, <1>5, <2>1 DEF Held
<1>6. ASSUME NEW u \in Tasks \ {k'.cur} PROVE ~Held(pc'[u])
  <2>1. CASE u = t BY <1>1, <1>6, <2>1
  <2>2. CASE u # t BY <1>5, <2>2
  <2> QED BY <2>1, <2>2
<1>7. ASSUME NEW u \in Tasks, k'.nstate[u] = WAITING PROVE InWait(pc'[u]) \/ pc'[u].at = "leaked"
  <2>1. CASE u = t BY <1>1, <1>7, <2>1
  <2>2. CASE u # t BY <1>2, <1>7, <2>2 DEF Places
  <2> QED BY <2>1, <2>2
<1>8. pc'[Idle].at \in {"run", "free"}
  <2>1. CASE Idle = t BY <1>1, <2>1
  <2>2. CASE Idle # t BY <1>2, <1>3, <2>2 DEF Places
  <2> QED BY <2>1, <2>2
<1>9. Fits(k', k'.cur, pc'[k'.cur])
  <2>1. CASE k'.cur = t BY <1>1, <2>1
  <2>2. CASE k'.cur # t
    <3>1. k'.susp = 0 /\ ~Held(pc'[k'.cur]) BY <1>1, <1>5, <2>2
    <3> QED BY <3>1 DEF Fits, Held
  <2> QED BY <2>1, <2>2
<1> QED BY <1>1, <1>4, <1>6, <1>7, <1>8, <1>9 DEF Places

(* No control block changes hands.                                         *)
Owns(c) == c.at \in {"add", "free", "leaked"}

Quiet ==
    /\ tcbs' = tcbs
    /\ \A u \in tcbs : pc'[u] = pc[u] \/ (~Owns(pc[u]) /\ ~Owns(pc'[u]))

LEMMA QuietFacts ==
    ASSUME Blocks, Quiet
    PROVE  Blocks' /\ Placed' = Placed
<1>1. tcbs' = tcbs BY DEF Quiet
<1>2. ASSUME NEW u \in tcbs
      PROVE  Orphans(u)' = Orphans(u) /\ (pc'[u].at = "leaked" <=> pc[u].at = "leaked")
  <2>1. CASE pc'[u] = pc[u] BY <2>1 DEF Orphans
  <2>2. CASE ~Owns(pc[u]) /\ ~Owns(pc'[u]) BY <2>2 DEF Orphans, Owns
  <2> QED BY <2>1, <2>2 DEF Quiet
<1>3. \A u \in tcbs : Orphans(u) \subseteq tcbs BY DEF Blocks
<1>4. Unlisted' = Unlisted BY <1>1, <1>2 DEF Unlisted
<1>5. Placed' = Placed BY <1>1, <1>4 DEF Placed
<1>6. Blocks' BY <1>1, <1>2, <1>3 DEF Blocks
<1> QED BY <1>5, <1>6

(* A task that is on the lists is nobody's orphan.                         *)
LEMMA PlacedFacts ==
    ASSUME NEW t
    PROVE  t \in Placed <=> /\ t \in tcbs /\ pc[t].at # "leaked"
                            /\ \A u \in tcbs : t \notin Orphans(u)
BY DEF Placed, Unlisted

(* prvCreateTask: a block is allocated and is being built.                 *)
LEMMA CreateBlocks ==
    ASSUME Blocks, DOMAIN pc = Tasks, NEW t \in Placed, ~Owns(pc[t]), NEW x \in Tasks \ tcbs,
           tcbs' = tcbs \cup {x},
           pc' = [pc EXCEPT ![t] = [at |-> "add", task |-> x], ![x] = Run]
    PROVE  Blocks' /\ Placed' = Placed
<1>1. t \in tcbs /\ t \in Tasks /\ t # x BY PlacedFacts DEF Blocks
<1>2. /\ pc'[t].at = "add" /\ pc'[t].task = x /\ pc'[x].at = "run"
      /\ \A u \in tcbs \ {t} : pc'[u] = pc[u]
  BY <1>1 DEF Run, Blocks
<1>3. Orphans(t)' = {x} /\ Orphans(x)' = {} /\ Orphans(t) = {} BY <1>2 DEF Orphans, Owns
<1>4. \A u \in tcbs \ {t} : Orphans(u)' = Orphans(u) BY <1>2 DEF Orphans
<1>5. \A u \in tcbs : x \notin Orphans(u) /\ Orphans(u) \subseteq tcbs BY DEF Blocks
<1>6. Blocks'
  <2>1. (tcbs \subseteq Tasks)' BY DEF Blocks
  <2>2. ASSUME NEW u \in tcbs', NEW v \in tcbs', u # v PROVE Orphans(u)' \cap Orphans(v)' = {}
    BY <1>3, <1>4, <1>5, <2>2 DEF Blocks
  <2>3. ASSUME NEW u \in tcbs' PROVE Orphans(u)' \subseteq tcbs' \ {u}
    BY <1>1, <1>3, <1>4, <2>3 DEF Blocks
  <2>4. ASSUME NEW u \in tcbs', NEW y \in Orphans(u)', pc'[y].at = "leaked" PROVE pc'[u].at = "leaked"
    <3>1. u # t /\ u # x /\ u \in tcbs BY <1>2, <1>3, <2>4
    <3>2. y \in Orphans(u) /\ y \in tcbs BY <1>4, <1>5, <2>4, <3>1
    <3>3. y # t BY <1>2, <2>4
    <3>4. pc[y].at = "leaked" /\ pc[u] = pc'[u] BY <1>2, <2>4, <3>1, <3>2, <3>3
    <3> QED BY <3>1, <3>2, <3>4 DEF Blocks
  <2> QED BY <2>1, <2>2, <2>3, <2>4 DEF Blocks
<1>7. \A y \in tcbs : pc'[y].at = "leaked" <=> pc[y].at = "leaked" BY <1>2, PlacedFacts
<1>8. Unlisted' = Unlisted \cup {x}
  <2>1. \A y \in tcbs : y \in Unlisted' <=> y \in Unlisted
    BY <1>3, <1>4, <1>7 DEF Unlisted
  <2>2. x \in Unlisted' BY <1>1, <1>3 DEF Unlisted
  <2>3. Unlisted \subseteq tcbs /\ Unlisted' \subseteq tcbs \cup {x} BY DEF Unlisted
  <2> QED BY <2>1, <2>2, <2>3
<1>9. Placed' = Placed BY <1>8 DEF Placed
<1> QED BY <1>6, <1>9

(* prvAddNewTaskToReadyList: the block is built.                           *)
LEMMA AddBlocks ==
    ASSUME Blocks, DOMAIN pc = Tasks, NEW t \in Placed, pc[t].at = "add", NEW x, x = pc[t].task,
           tcbs' = tcbs, pc' = [pc EXCEPT ![t] = [at |-> "added", task |-> x]]
    PROVE  Blocks' /\ Placed' = Placed \cup {x} /\ x \in Tasks \ Placed /\ x \in tcbs
<1>1. t \in tcbs /\ t \in Tasks BY PlacedFacts DEF Blocks
<1>2. pc'[t].at = "added" /\ \A u \in tcbs \ {t} : pc'[u] = pc[u] BY <1>1 DEF Blocks
<1>3. Orphans(t) = {x} /\ Orphans(t)' = {} BY <1>2 DEF Orphans
<1>4. \A u \in tcbs \ {t} : Orphans(u)' = Orphans(u) BY <1>2 DEF Orphans
<1>5. /\ x \in tcbs /\ x # t /\ pc[x].at # "leaked" /\ \A u \in tcbs \ {t} : x \notin Orphans(u)
      /\ x \in Tasks
  BY <1>1, <1>3 DEF Blocks
<1>6. \A y \in tcbs : pc'[y].at = "leaked" <=> pc[y].at = "leaked" BY <1>2
<1>7. Blocks'
  <2>1. (tcbs \subseteq Tasks)' BY DEF Blocks
  <2>2. ASSUME NEW u \in tcbs', NEW v \in tcbs', u # v PROVE Orphans(u)' \cap Orphans(v)' = {}
    BY <1>3, <1>4, <2>2 DEF Blocks
  <2>3. ASSUME NEW u \in tcbs' PROVE Orphans(u)' \subseteq tcbs' \ {u}
    BY <1>1, <1>3, <1>4, <2>3 DEF Blocks
  <2>4. ASSUME NEW u \in tcbs', NEW y \in Orphans(u)', pc'[y].at = "leaked" PROVE pc'[u].at = "leaked"
    <3>1. u # t /\ u \in tcbs /\ y \in Orphans(u) BY <1>3, <1>4, <2>4
    <3>2. y \in tcbs BY <3>1 DEF Blocks
    <3> QED BY <1>6, <2>4, <3>1, <3>2 DEF Blocks
  <2> QED BY <2>1, <2>2, <2>3, <2>4 DEF Blocks
<1>8. Unlisted' = Unlisted \ {x}
  <2>1. ASSUME NEW y \in tcbs PROVE y \in Unlisted' <=> y \in Unlisted /\ y # x
    BY <1>1, <1>3, <1>4, <1>5, <1>6 DEF Unlisted
  <2>2. Unlisted \subseteq tcbs /\ Unlisted' \subseteq tcbs BY DEF Unlisted
  <2> QED BY <2>1, <2>2
<1>9. x \in Unlisted BY <1>1, <1>3, <1>5 DEF Unlisted
<1> QED BY <1>5, <1>7, <1>8, <1>9 DEF Placed

(* vTaskDelete and prvCheckTasksWaitingTermination: a block is to be freed.*)
LEMMA ClaimBlocks ==
    ASSUME Blocks, DOMAIN pc = Tasks, NEW t \in Placed, ~Owns(pc[t]), NEW x \in Placed, x # t,
           tcbs' = tcbs, pc' = [pc EXCEPT ![t] = [at |-> "free", task |-> x]]
    PROVE  Blocks' /\ Placed' = Placed \ {x}
<1>1. /\ t \in tcbs /\ t \in Tasks /\ x \in tcbs /\ pc[x].at # "leaked"
      /\ \A u \in tcbs : x \notin Orphans(u) /\ t \notin Orphans(u)
  BY PlacedFacts DEF Blocks
<1>2. pc'[t].at = "free" /\ pc'[t].task = x /\ \A u \in tcbs \ {t} : pc'[u] = pc[u]
  BY <1>1 DEF Blocks
<1>3. Orphans(t) = {} /\ Orphans(t)' = {x} BY <1>2 DEF Orphans, Owns
<1>4. \A u \in tcbs \ {t} : Orphans(u)' = Orphans(u) BY <1>2 DEF Orphans
<1>5. \A y \in tcbs : pc'[y].at = "leaked" <=> pc[y].at = "leaked" BY <1>2, PlacedFacts
<1>6. Blocks'
  <2>1. (tcbs \subseteq Tasks)' BY DEF Blocks
  <2>2. ASSUME NEW u \in tcbs', NEW v \in tcbs', u # v PROVE Orphans(u)' \cap Orphans(v)' = {}
    BY <1>1, <1>3, <1>4, <2>2 DEF Blocks
  <2>3. ASSUME NEW u \in tcbs' PROVE Orphans(u)' \subseteq tcbs' \ {u}
    BY <1>1, <1>3, <1>4, <2>3 DEF Blocks
  <2>4. ASSUME NEW u \in tcbs', NEW y \in Orphans(u)', pc'[y].at = "leaked" PROVE pc'[u].at = "leaked"
    <3>1. CASE u = t BY <1>1, <1>3, <1>5, <2>4, <3>1
    <3>2. CASE u # t
      <4>1. u \in tcbs /\ y \in Orphans(u) BY <1>4, <2>4, <3>2
      <4>2. y \in tcbs BY <4>1 DEF Blocks
      <4> QED BY <1>5, <2>4, <4>1, <4>2 DEF Blocks
    <3> QED BY <3>1, <3>2
  <2> QED BY <2>1, <2>2, <2>3, <2>4 DEF Blocks
<1>7. Unlisted' = Unlisted \cup {x}
  <2>1. ASSUME NEW y \in tcbs PROVE y \in Unlisted' <=> y \in Unlisted \/ y = x
    BY <1>1, <1>3, <1>4, <1>5 DEF Unlisted
  <2>2. Unlisted \subseteq tcbs /\ Unlisted' \subseteq tcbs BY DEF Unlisted
  <2> QED BY <1>1, <2>1, <2>2
<1> QED BY <1>6, <1>7 DEF Placed

(* prvDeleteTCB: the block is freed, and what its owner was building or    *)
(* freeing stays allocated for ever.                                       *)
LEMMA FreeBlocks ==
    ASSUME Blocks, DOMAIN pc = Tasks, NEW t \in Placed, pc[t].at = "free", NEW x, x = pc[t].task,
           tcbs' = tcbs \ {x},
           pc' = [u \in Tasks |->
                    CASE u = t -> Run
                      [] u \in Orphans(x) -> [at |-> "leaked", holds |-> Orphans(u)]
                      [] OTHER -> pc[u]]
    PROVE  /\ Blocks' /\ Placed' = Placed
           /\ pc'[t] = Run
           /\ \A u \in Tasks \ {t} : \/ pc'[u] = pc[u]
                                     \/ pc'[u].at = "leaked" /\ u \notin Placed
<1> DEFINE O == Orphans(x)
<1>1. /\ t \in tcbs /\ t \in Tasks
      /\ \A u \in tcbs : t \notin Orphans(u)
      /\ \A u \in tcbs : Orphans(u) \subseteq tcbs \ {u}
      /\ \A u, v \in tcbs : u # v => Orphans(u) \cap Orphans(v) = {}
      /\ tcbs \subseteq Tasks
      /\ \A u \in tcbs : \A y \in Orphans(u) : pc[y].at = "leaked" => pc[u].at = "leaked"
  BY PlacedFacts DEF Blocks
<1>2. Orphans(t) = {x} BY DEF Orphans
<1>3. /\ x \in tcbs /\ x # t /\ x \in Tasks /\ pc[x].at # "leaked"
      /\ \A u \in tcbs \ {t} : x \notin Orphans(u)
  BY <1>1, <1>2
<1>4. O \subseteq tcbs \ {x} /\ t \notin O BY <1>1, <1>3
<1> HIDE DEF O
<1>5. /\ pc'[t] = Run
      /\ \A u \in O : pc'[u] = [at |-> "leaked", holds |-> Orphans(u)]
      /\ \A u \in Tasks \ {t} : u \notin O => pc'[u] = pc[u]
  BY <1>1, <1>4 DEF O
<1>14. pc'[t].at = "run" BY <1>5 DEF Run
<1>15. ASSUME NEW u \in O PROVE pc'[u].at = "leaked" /\ pc'[u].holds = Orphans(u)
  <2> DEFINE r == Orphans(u)
  <2>1. pc'[u] = [at |-> "leaked", holds |-> r] BY <1>5, <1>15
  <2> HIDE DEF r
  <2>2. pc'[u].at = "leaked" /\ pc'[u].holds = r BY <2>1
  <2> QED BY <2>2 DEF r
<1>6. Orphans(t)' = {} BY <1>14 DEF Orphans
<1>7. ASSUME NEW u \in tcbs \ {t} PROVE Orphans(u)' = Orphans(u)
  <2>1. CASE u \in O
    <3>1. pc'[u].at = "leaked" /\ pc'[u].holds = Orphans(u) BY <1>15, <2>1
    <3>2. Orphans(u)' = pc'[u].holds BY <3>1 DEF Orphans
    <3> QED BY <3>1, <3>2
  <2>2. CASE u \notin O
    <3>1. pc'[u] = pc[u] BY <1>1, <1>5, <2>2
    <3> QED BY <3>1 DEF Orphans
  <2> QED BY <2>1, <2>2
<1>8. ASSUME NEW y \in tcbs PROVE pc'[y].at = "leaked" <=> pc[y].at = "leaked" \/ y \in O
  <2>1. CASE y = t BY <1>4, <1>5, <2>1, PlacedFacts DEF Run
  <2>2. CASE y \in O BY <1>15, <2>2
  <2>3. CASE y # t /\ y \notin O BY <1>1, <1>5, <2>3
  <2> QED BY <2>1, <2>2, <2>3
<1>9. Blocks'
  <2>1. (tcbs \subseteq Tasks)' BY <1>1
  <2>2. ASSUME NEW u \in tcbs', NEW v \in tcbs', u # v PROVE Orphans(u)' \cap Orphans(v)' = {}
    BY <1>1, <1>6, <1>7, <2>2
  <2>3. ASSUME NEW u \in tcbs' PROVE Orphans(u)' \subseteq tcbs' \ {u}
    BY <1>1, <1>3, <1>6, <1>7, <2>3
  <2>4. ASSUME NEW u \in tcbs', NEW y \in Orphans(u)', pc'[y].at = "leaked" PROVE pc'[u].at = "leaked"
    <3>1. u # t /\ u \in tcbs /\ u # x /\ y \in Orphans(u) BY <1>6, <1>7, <2>4
    <3>2. y \in tcbs /\ y \notin O BY <1>1, <1>3, <3>1 DEF O
    <3>3. pc[y].at = "leaked" BY <1>8, <2>4, <3>2
    <3> QED BY <1>1, <1>8, <3>1, <3>3
  <2> QED BY <2>1, <2>2, <2>3, <2>4 DEF Blocks
<1>10. Unlisted' = Unlisted \ {x}
  <2>1. ASSUME NEW y \in tcbs' PROVE y \in Unlisted' <=> y \in Unlisted
    <3>1. y \in tcbs /\ y # x BY <2>1
    <3>2. (\E u \in tcbs' : y \in Orphans(u)') \/ y \in O <=> \E u \in tcbs : y \in Orphans(u)
      BY <1>2, <1>3, <1>6, <1>7, <3>1 DEF O
    <3>3. pc'[y].at = "leaked" <=> pc[y].at = "leaked" \/ y \in O BY <1>8, <3>1
    <3> QED BY <2>1, <3>1, <3>2, <3>3 DEF Unlisted
  <2>2. Unlisted \subseteq tcbs /\ Unlisted' \subseteq tcbs' BY DEF Unlisted
  <2> QED BY <2>1, <2>2
<1>11. x \in Unlisted BY <1>1, <1>2, <1>3 DEF Unlisted
<1>12. Placed' = Placed BY <1>10, <1>11 DEF Placed
<1>13. O \cap Placed = {} BY <1>3, PlacedFacts DEF O
<1> QED BY <1>5, <1>9, <1>12, <1>13

-----------------------------------------------------------------------------
(* Steps of a task or an interrupt.                                        *)

LEMMA InvFacts ==
    ASSUME TaskInv
    PROVE  /\ k \in Kernels /\ Good(k, Placed) /\ IdleReady(k) /\ Sound(k, Placed)
           /\ Places /\ Blocks /\ load \in Loads /\ DOMAIN pc = Tasks
           /\ k.cur \in Tasks /\ k.cur \in Placed /\ Idle \in Placed
           /\ k.susp \in Nat /\ k.prio \in [Tasks -> Priorities]
           /\ Readied(k) \subseteq Placed /\ Placed \subseteq Tasks
           /\ ToSet(k.dying) \subseteq Placed /\ Readied(k) \cap ToSet(k.dying) = {}
           /\ ToSet(k.events[Pending]) \subseteq Placed \ ToSet(k.dying)
           /\ Spot(pc[k.cur]) /\ Fits(k, k.cur, pc[k.cur])
           /\ Serves(k, pc[k.cur], tcbs)
           /\ pc[k.cur].at # "leaked"
<1>1. /\ load \in Loads /\ Blocks /\ Sound(k, Placed) /\ Places /\ Running BY DEF TaskInv
<1>2. Good(k, Placed) /\ IdleReady(k) /\ k.cur \in Placed BY <1>1 DEF Sound
<1>3. k \in Kernels BY <1>2, GoodIsLoose
<1>4. k.cur \in Tasks /\ k.susp \in Nat /\ k.prio \in [Tasks -> Priorities] BY <1>3, KernelFields
<1>5. /\ Readied(k) \subseteq Placed /\ ToSet(k.dying) \subseteq Placed
      /\ Readied(k) \cap ToSet(k.dying) = {}
      /\ ToSet(k.events[Pending]) \subseteq Placed \ ToSet(k.dying)
  BY <1>2, <1>4, WhereFacts
<1>6. Placed \subseteq Tasks BY <1>1 DEF Placed, Blocks
<1>7. pc[k.cur].at # "leaked" BY <1>2, PlacedFacts
<1>8. Idle \in Placed BY <1>2, <1>5 DEF IdleReady
<1>9. Spot(pc[k.cur]) /\ Fits(k, k.cur, pc[k.cur]) /\ DOMAIN pc = Tasks BY <1>1, <1>4 DEF Places
<1> QED BY <1>1, <1>2, <1>3, <1>4, <1>5, <1>6, <1>7, <1>8, <1>9 DEF Running

(* Nothing keeps the task t from waking.                                   *)
Mindful(t, T) ==
    \/ Minded(k', Suspends, t, pc'[t])
    \/ /\ t \in Placed \ T /\ Op(pc'[t]) \in {"no", Op(pc[t])}
       /\ pc'[t].at = "block" =>
            /\ pc'[t] = pc[t]
            /\ t \in ToSet(k.events[Pending]) => t \in ToSet(k'.events[Pending])

LEMMA MindNext ==
    ASSUME TaskInv, TaskInv', WakeInv, load' = load, NEW T, Gentle(k, k', T),
           \A t \in Placed' : Mindful(t, T)
    PROVE  WakeInv'
<1>1. Good(k, Placed) /\ Placed \subseteq Tasks BY InvFacts
<1>2. Good(k', Placed') BY DEF TaskInv, Sound
<1>3. Suspends' = Suspends BY DEF Suspends
<1>4. ASSUME NEW t \in Placed' PROVE Minded(k', Suspends, t, pc'[t])
  <2>1. CASE ~Minded(k', Suspends, t, pc'[t])
    <3>1. /\ t \in Placed \ T /\ Op(pc'[t]) \in {"no", Op(pc[t])}
          /\ pc'[t].at = "block" =>
               /\ pc'[t] = pc[t]
               /\ t \in ToSet(k.events[Pending]) => t \in ToSet(k'.events[Pending])
      BY <2>1 DEF Mindful
    <3>2. t \in Tasks \ T /\ Minded(k, Suspends, t, pc[t]) BY <1>1, <3>1 DEF WakeInv
    <3>3. ASSUME NEW op, Expects(k, t, op) PROVE Expects(k', t, op)
      <4>1. Stays(k, k', t) BY <3>2 DEF Gentle
      <4> QED BY <3>3, <4>1 DEF Expects, Stays
    <3>4. Awake(k, Suspends, t) => Awake(k', Suspends, t)
      <4>1. Kept(k, k', T) /\ ToSet(k'.dying) \ T \subseteq ToSet(k.dying) BY DEF Gentle
      <4>2. t \in Readied(k) => t \in Readied(k') BY <3>2, <4>1 DEF Kept
      <4>3. t \in ToSet(k.events[Pending]) => t \in Readied(k') \cup ToSet(k'.events[Pending])
        BY <3>2, <4>1 DEF Kept
      <4>4. t \in ToSet(k.sleeping) => t \in Readied(k') \cup ToSet(k'.sleeping)
        <5>1. Apart(Readied(k), ToSet(k.delayed), ToSet(k.overflow), ToSet(k.sleeping),
                    ToSet(k.dying), Placed)
          BY <1>1 DEF Good, Orderly, Seated
        <5>2. Apart(Readied(k'), ToSet(k'.delayed), ToSet(k'.overflow), ToSet(k'.sleeping),
                    ToSet(k'.dying), Placed')
          BY <1>2 DEF Good, Orderly, Seated
        <5>3. t \in Readied(k') \cup Timed(k') \cup ToSet(k'.sleeping) \cup ToSet(k'.dying)
          BY <5>2 DEF Apart, Timed
        <5>4. t \in Timed(k') => t \in Timed(k) BY <3>2, <4>1 DEF Kept
        <5>5. t \in ToSet(k'.dying) => t \in ToSet(k.dying) BY <3>2, <4>1
        <5>6. t \in ToSet(k.sleeping) => t \notin Timed(k) /\ t \notin ToSet(k.dying)
          BY <5>1 DEF Apart, Timed
        <5> QED BY <5>3, <5>4, <5>5, <5>6
      <4> QED BY <4>2, <4>3, <4>4 DEF Awake
    <3>5. Op(pc'[t]) # "no" => Expects(k', t, Op(pc'[t])) \/ Awake(k', Suspends, t)
      BY <3>1, <3>2, <3>3, <3>4 DEF Minded
    <3>6. pc'[t].at = "block" => Expects(k', t, pc'[t].op) \/ t \in ToSet(k'.events[Pending])
      BY <3>1, <3>2, <3>3 DEF Minded
    <3> QED BY <3>5, <3>6 DEF Minded
  <2> QED BY <2>1
<1> QED BY <1>3, <1>4 DEF WakeInv

(* The current task t goes to c.                                           *)
Steps(t, c) ==
    /\ Lands(t, c) /\ Blocks' /\ load' = load
    /\ Sound(k', Placed')
    /\ Serves(k', pc'[k'.cur], tcbs')

LEMMA StepsFacts ==
    ASSUME TaskInv, NEW t, NEW c, Steps(t, c)
    PROVE  TaskInv'
<1>1. Places' BY InvFacts, PlacesNext DEF Steps
<1> QED BY <1>1 DEF Steps, TaskInv, Running

(* The current task t goes to c, and T are those whose lists change but as *)
(* the ticks and the readying of others change them.                       *)
Heeds(t, c, T, Q) ==
    /\ Gentle(k, k', T)
    /\ \/ c.at # "block" /\ Op(c) = "no"
       \/ t \notin T /\ c.at # "block" /\ Op(c) = Op(pc[t])
       \/ WakeInv => Minded(k', Suspends, t, c)
    /\ \A u \in Q \ {t} : u \in Placed \ T \/ Awake(k', Suspends, u)

LEMMA StepsWake ==
    ASSUME TaskInv, NEW t, NEW c, Steps(t, c), NEW T, Heeds(t, c, T, Placed'),
           \A u \in Placed' \ {t} : pc'[u] = pc[u]
    PROVE  WakeInv => WakeInv'
<1>1. TaskInv' BY StepsFacts
<1>2. SUFFICES ASSUME WakeInv PROVE WakeInv' OBVIOUS
<1>3. /\ t = k.cur /\ pc'[t] = c /\ load' = load /\ t \in Placed /\ Placed' \subseteq Tasks
      /\ \A u \in Tasks \ {t} : ~Held(pc[u])
  <2>1. Placed' \subseteq Tasks BY <1>1 DEF TaskInv, Blocks, Placed
  <2>2. Places /\ k.cur \in Placed BY InvFacts
  <2> QED BY <2>1, <2>2 DEF Steps, Lands, Places
<1>4. ASSUME NEW u \in Placed' PROVE Mindful(u, T)
  <2>1. CASE u = t
    <3>1. CASE c.at # "block" /\ Op(c) = "no" BY <1>3, <2>1, <3>1 DEF Mindful, Minded
    <3>2. CASE t \notin T /\ c.at # "block" /\ Op(c) = Op(pc[t]) BY <1>3, <2>1, <3>2 DEF Mindful
    <3>3. CASE WakeInv => Minded(k', Suspends, t, c) BY <1>2, <1>3, <2>1, <3>3 DEF Mindful
    <3> QED BY <3>1, <3>2, <3>3 DEF Heeds
  <2>2. CASE u # t
    <3>1. pc'[u] = pc[u] /\ pc[u].at # "block" BY <1>3, <2>2 DEF Held
    <3>2. u \in Placed \ T \/ Awake(k', Suspends, u) BY <2>2 DEF Heeds
    <3> QED BY <3>1, <3>2 DEF Mindful, Minded
  <2> QED BY <2>1, <2>2
<1>5. Gentle(k, k', T) BY DEF Heeds
<1> QED BY <1>1, <1>2, <1>3, <1>4, <1>5, MindNext

(* The task t goes to c, and the others stay where they are.               *)
Moves(t, c) == DOMAIN pc' = Tasks /\ pc'[t] = c /\ \A u \in Tasks \ {t} : pc'[u] = pc[u]

LEMMA GotoFacts ==
    ASSUME TaskInv, NEW t, NEW c, t = k.cur, Goto(t, c)
    PROVE  Moves(t, c)
<1>1. t \in Tasks /\ DOMAIN pc = Tasks BY InvFacts
<1> QED BY <1>1 DEF Goto, Moves

(* A step that changes no control block's owner.                           *)
Walks(t, c) ==
    /\ t = k.cur /\ Moves(t, c) /\ Spot(c) /\ ~Owns(c) /\ ~Owns(pc[t])
    /\ tcbs' = tcbs /\ load' = load
    /\ t = Idle => c.at = "run"
    /\ Sound(k', Placed)
    /\ k'.cur # t => k'.susp = 0 /\ ~Held(c)
    /\ k'.cur = t => Fits(k', t, c)
    /\ \A u \in Tasks \ {t} : k'.nstate[u] = WAITING => k.nstate[u] = WAITING
    /\ k'.nstate[t] = WAITING => InWait(c)
    /\ k'.cur = t => Serves(k', c, tcbs)
    /\ k'.cur # t => CurReady(k') /\ NoHigher(k')

LEMMA WalksFacts ==
    ASSUME TaskInv, NEW t, NEW c, Walks(t, c)
    PROVE  /\ TaskInv'
           /\ \A T : Heeds(t, c, T, Placed) => (WakeInv => WakeInv')
           /\ \A T : Heeds(t, c, T, Placed) /\ Punctual(k, k') => Keeps
<1>1. t = k.cur /\ t \in Tasks /\ DOMAIN pc = Tasks /\ Blocks BY InvFacts DEF Walks
<1>2. tcbs' = tcbs /\ ~Owns(c) /\ ~Owns(pc[t]) BY DEF Walks
<1>3. pc'[t] = c /\ DOMAIN pc' = Tasks /\ \A u \in Tasks \ {t} : pc'[u] = pc[u]
  BY DEF Walks, Moves
<1>4. Quiet
  <2>1. tcbs \subseteq Tasks BY <1>1 DEF Blocks
  <2>2. ASSUME NEW u \in tcbs PROVE pc'[u] = pc[u] \/ (~Owns(pc[u]) /\ ~Owns(pc'[u]))
    BY <1>2, <1>3, <2>1
  <2> QED BY <1>2, <2>2 DEF Quiet
<1>5. Blocks' /\ Placed' = Placed BY <1>1, <1>4, QuietFacts
<1>6. k'.cur \in Tasks
  <2>1. Good(k', Placed) BY DEF Walks, Sound
  <2>2. k' \in Kernels BY <2>1, GoodIsLoose
  <2> QED BY <2>2, KernelFields
<1>7. Lands(t, c) BY <1>1, <1>3, <1>6 DEF Walks, Lands
<1>8. Serves(k', pc'[k'.cur], tcbs')
  <2>1. CASE k'.cur = t BY <1>2, <1>3, <2>1 DEF Walks
  <2>2. CASE k'.cur # t BY <2>2 DEF Walks, Serves
  <2> QED BY <2>1, <2>2
<1>9. Steps(t, c) BY <1>5, <1>7, <1>8 DEF Steps, Walks
<1>10. TaskInv' BY <1>9, StepsFacts
<1>11. ASSUME NEW T, Heeds(t, c, T, Placed) PROVE WakeInv => WakeInv'
  <2>1. Placed \subseteq Tasks BY InvFacts
  <2>2. \A u \in Placed' \ {t} : pc'[u] = pc[u] BY <1>3, <1>5, <2>1
  <2>3. Heeds(t, c, T, Placed') BY <1>5, <1>11
  <2> QED BY <1>9, <2>2, <2>3, StepsWake
<1> QED BY <1>10, <1>11 DEF Keeps

(* A step in which no task moves on in its code and the scheduler is       *)
(* neither suspended nor resumed.                                          *)
Passes ==
    /\ pc' = pc /\ tcbs' = tcbs /\ load' = load
    /\ Sound(k', Placed) /\ k'.susp = k.susp
    /\ \A u \in Tasks : k'.nstate[u] = WAITING => k.nstate[u] = WAITING
    /\ pc[k.cur].at = "check" => k.cur \notin ToSet(k'.events[Pending])
    /\ k'.cur = k.cur => Serves(k', pc[k.cur], tcbs)
    /\ k'.cur # k.cur => k.susp = 0 /\ CurReady(k') /\ NoHigher(k')

(* T are those whose lists change but as the ticks and the readying of     *)
(* others change them.                                                     *)
Rests(x, T) ==
    /\ Gentle(k, x, T)
    /\ \A u \in T \cap Placed : Awake(x, Suspends, u)
    /\ pc[k.cur].at = "block" /\ (k.cur \in ToSet(k.events[Pending]) \/ k.cur \in T) =>
         k.cur \in ToSet(x.events[Pending])

LEMMA PassesFacts ==
    ASSUME TaskInv, Passes
    PROVE  /\ TaskInv'
           /\ \A T : Rests(k', T) => (WakeInv => WakeInv')
           /\ \A T : Rests(k', T) /\ Punctual(k, k') => Keeps
<1> DEFINE t == k.cur
           c == pc[k.cur]
<1>1. t \in Tasks /\ DOMAIN pc = Tasks /\ Blocks /\ Places /\ Spot(c) /\ Fits(k, t, c) BY InvFacts
<1>2. pc' = pc /\ tcbs' = tcbs BY DEF Passes
<1>3. Quiet BY <1>2 DEF Quiet
<1>4. Blocks' /\ Placed' = Placed BY <1>1, <1>3, QuietFacts
<1>5. k'.cur \in Tasks
  <2>1. Good(k', Placed) BY DEF Passes, Sound
  <2>2. k' \in Kernels BY <2>1, GoodIsLoose
  <2> QED BY <2>2, KernelFields
<1>6. k.susp = 0 => ~Held(c) BY <1>1 DEF Fits, Held
<1>7. ASSUME k'.cur = t PROVE Fits(k', t, c)
  <2>1. k'.susp = k.susp /\ (c.at = "check" => t \notin ToSet(k'.events[Pending])) BY DEF Passes
  <2> QED BY <1>1, <2>1 DEF Fits
<1>8. ASSUME k'.nstate[t] = WAITING PROVE InWait(c)
  <2>1. k.nstate[t] = WAITING BY <1>1, <1>8 DEF Passes
  <2>2. c.at # "leaked" BY InvFacts
  <2> QED BY <1>1, <2>1, <2>2 DEF Places
<1>9. t = Idle => c.at \in {"run", "free"} BY <1>1 DEF Places
<1>10. Lands(t, c) BY <1>1, <1>2, <1>5, <1>6, <1>7, <1>8, <1>9 DEF Passes, Lands
<1>11. Serves(k', pc'[k'.cur], tcbs')
  <2>1. CASE k'.cur = t BY <1>2, <2>1 DEF Passes
  <2>2. CASE k'.cur # t BY <2>2 DEF Passes, Serves
  <2> QED BY <2>1, <2>2
<1>12. Steps(t, c) BY <1>4, <1>10, <1>11 DEF Steps, Passes
<1>13. TaskInv' BY <1>12, StepsFacts
<1>14. ASSUME NEW T, Rests(k', T), WakeInv PROVE WakeInv'
  <2>1. Placed \subseteq Tasks /\ \A u \in Tasks \ {t} : ~Held(pc[u]) BY InvFacts DEF Places
  <2>2. ASSUME NEW u \in Placed PROVE Mindful(u, T)
    <3>1. u \in T => Awake(k', Suspends, u) BY <1>14 DEF Rests
    <3>2. CASE u # t
      <4>1. pc'[u] = pc[u] /\ pc[u].at # "block" BY <1>2, <2>1, <3>2 DEF Held
      <4> QED BY <3>1, <4>1 DEF Mindful, Minded
    <3>3. CASE u = t
      <4>1. /\ c.at = "block" /\ t \in ToSet(k.events[Pending]) => t \in ToSet(k'.events[Pending])
            /\ c.at = "block" /\ t \in T => t \in ToSet(k'.events[Pending])
        BY <1>14 DEF Rests
      <4>2. pc'[u] = c BY <1>2, <3>3
      <4> HIDE DEF c
      <4>3. c = pc[u] BY <3>3 DEF c
      <4> HIDE DEF t
      <4> QED BY <3>1, <3>3, <4>1, <4>2, <4>3 DEF Mindful, Minded
    <3> QED BY <3>2, <3>3
  <2>3. Gentle(k, k', T) /\ load' = load BY <1>14 DEF Rests, Passes
  <2>4. \A u \in Placed' : Mindful(u, T) BY <1>4, <2>2
  <2> QED BY <1>13, <1>14, <2>3, <2>4, MindNext
<1> QED BY <1>13, <1>14 DEF Keeps

(* Tasks that become ready and are not outranked by the current one ask    *)
(* for a yield.                                                            *)
LEMMA ServesOn ==
    ASSUME NEW x, NEW y, NEW c, NEW T, Serves(x, c, T),
           y.cur = x.cur, y.susp = x.susp, y.prio = x.prio, x.yield => y.yield,
           Readied(x) \subseteq Readied(y),
           \/ \A u \in Readied(y) \ Readied(x) : x.prio[u] <= x.prio[x.cur]
           \/ y.susp # 0 /\ y.yield
    PROVE  Serves(y, c, T)
<1>1. CASE Off(x.cur, c) BY <1>1 DEF Serves
<1>2. CASE ~Off(x.cur, c)
  <2>1. CurReady(y) BY <1>2 DEF Serves, CurReady
  <2>2. CASE y.susp # 0 /\ y.yield BY <2>1, <2>2 DEF Serves
  <2>3. CASE \A u \in Readied(y) \ Readied(x) : x.prio[u] <= x.prio[x.cur]
    <3>1. NoHigher(x) => NoHigher(y) BY <2>3 DEF NoHigher
    <3> QED BY <1>2, <2>1, <3>1 DEF Serves
  <2> QED BY <2>2, <2>3
<1> QED BY <1>1, <1>2

(* After a switch the lists hold what they held.                           *)
LEMMA SoundSwitched ==
    ASSUME NEW x, NEW P, Sound(x, P), NEW y, Good(y, P), Switched(x, y),
           CurReady(y) \/ y.cur = x.cur
    PROVE  Sound(y, P)
<1>1. Idle \in Tasks BY KernelAssumption
<1>2. Readied(y) \subseteq P BY <1>1, WhereFacts
<1>3. y.cur \in P BY <1>2 DEF CurReady, Sound
<1>4. IdleReady(y) BY DEF Sound, IdleReady, Switched, Members
<1> QED BY <1>3, <1>4 DEF Sound, Switched, Members

(* After the scheduler is resumed.                                         *)
LEMMA SoundResumed ==
    ASSUME NEW x, NEW P, Sound(x, P), NEW y, Good(y, P), NEW b \in BOOLEAN, Resumes(x, y, b)
    PROVE  Sound(y, P)
<1>1. Idle \in Tasks BY KernelAssumption
<1>2. Readied(y) \subseteq P BY <1>1, WhereFacts
<1>3. y.cur \in P
  <2>1. CASE b BY <1>2, <2>1 DEF Resumes, CurReady
  <2>2. CASE ~b BY <2>2 DEF Resumes, Sound
  <2> QED BY <2>1, <2>2
<1>4. IdleReady(y) BY DEF Sound, IdleReady, Resumes, Members
<1>5. y.susp = 0 => y.events[Pending] = <<>> BY DEF Resumes
<1>6. \A t \in ToSet(y.events[Pending]) : y.nstate[t] # WAITING BY DEF Resumes, Members, Sound
<1>7. y.base = y.prio /\ y.num = Cardinality(P) /\ y.cleanup = Len(y.dying)
  BY DEF Resumes, Members, Sound
<1> QED BY <1>3, <1>4, <1>5, <1>6, <1>7 DEF Sound

(* What neither a switch nor the resumption of the scheduler does to a     *)
(* task that waits or sleeps.                                              *)
LEMMA CalmIsGentle ==
    ASSUME NEW x \in Kernels, NEW y \in Kernels, NEW T, Calm(x, y, T), Timed(y) \cap T = {},
           ToSet(y.dying) \ T \subseteq ToSet(x.dying), \A t \in Tasks \ T : Stays(x, y, t)
    PROVE  Gentle(x, y, T) /\ Punctual(x, y)
BY CalmIsPunctual DEF Gentle, Calm

LEMMA StillIsGentle ==
    ASSUME NEW x \in Kernels, NEW y \in Kernels, Still(x, y), Members(x, y), y.dying = x.dying
    PROVE  Gentle(x, y, {}) /\ Punctual(x, y)
<1>1. Calm(x, y, {}) BY StillIsCalm
<1>2. \A t \in Tasks : Stays(x, y, t) BY DEF Stays, Members
<1> QED BY <1>1, <1>2, CalmIsGentle

LEMMA SwitchIsGentle ==
    ASSUME NEW x \in Kernels, NEW y \in Kernels, Switched(x, y)
    PROVE  Gentle(x, y, {}) /\ Punctual(x, y)
<1>1. Still(x, y) BY SwitchedIsStill
<1> QED BY <1>1, StillIsGentle DEF Switched

LEMMA ResumeIsGentle ==
    ASSUME NEW x \in Kernels, NEW y, NEW b, Resumes(x, y, b)
    PROVE  Gentle(x, y, {}) /\ Punctual(x, y)
<1>1. PICK m \in 0 .. x.pended : Later(x, y, m) BY DEF Resumes
<1>2. x.pended \in Nat BY KernelFields
<1>3. m \in Nat /\ m <= x.pended + 1 BY <1>2
<1>4. Punctual(x, y) BY <1>1, <1>3, LaterIsPunctual
<1>5. Kept(x, y, {}) BY <1>1 DEF Later
<1>6. \A t \in Tasks : Stays(x, y, t) BY DEF Stays, Resumes, Members
<1>7. y.dying = x.dying BY DEF Resumes
<1> QED BY <1>4, <1>5, <1>6, <1>7 DEF Gentle

LEMMA GentleOn ==
    ASSUME NEW x, NEW y, NEW z, NEW T, Gentle(x, y, T), Switched(y, z)
    PROVE  Gentle(x, z, T)
<1>1. Kept(x, y, T) /\ \A t \in Tasks \ T : Stays(x, y, t) BY DEF Gentle
<1>2. Still(y, z) BY SwitchedIsStill
<1>3. Kept(x, z, T) BY <1>1, <1>2 DEF Kept, Still, Timed
<1>4. z.dying = y.dying /\ Members(y, z) BY DEF Switched
<1>5. \A t \in Tasks \ T : Stays(x, z, t) BY <1>1, <1>4 DEF Stays, Members
<1> QED BY <1>3, <1>4, <1>5 DEF Gentle

LEMMA PunctualOn ==
    ASSUME NEW x \in Kernels, NEW y \in Kernels, NEW z \in Kernels, Punctual(x, y), Switched(y, z)
    PROVE  Punctual(x, z)
<1>1. Still(y, z) BY SwitchedIsStill
<1>2. \A u : Timely(y, u) => Timely(z, u) BY <1>1 DEF Timely, Still
<1>3. Elapses(x, z)
  <2>1. CASE y.tick = x.tick BY <1>1, <2>1 DEF Elapses, Still
  <2>2. ASSUME NEW m \in Nat, m <= x.pended + 1, Later(x, y, m) PROVE Elapses(x, z)
    <3>1. Later(y, z, 0) BY <1>1, StillIsLater
    <3>2. Later(x, z, m + 0) BY <2>2, <3>1, LaterAgain
    <3>3. m + 0 = m OBVIOUS
    <3> QED BY <2>2, <3>2, <3>3 DEF Elapses
  <2> QED BY <2>1, <2>2 DEF Punctual, Elapses
<1> QED BY <1>2, <1>3 DEF Punctual

(* What a call of xTaskResumeAll does to the current task.                 *)
LEMMA ResumeNow ==
    ASSUME NEW x, NEW P, Sound(x, P), x.susp # 0
    PROVE  LET r == xTaskResumeAll(x)
           IN  /\ Sound(r.k, P) /\ Resumes(x, r.k, r.yielded) /\ r.yielded \in BOOLEAN
               /\ r.k.cur # x.cur => r.k.susp = 0 /\ CurReady(r.k) /\ NoHigher(r.k)
               /\ Gentle(x, r.k, {}) /\ Punctual(x, r.k)
<1> DEFINE r == xTaskResumeAll(x)
<1>1. Good(x, P) /\ IdleReady(x) BY DEF Sound
<1>2. Good(r.k, P) /\ Resumes(x, r.k, r.yielded) /\ r.yielded \in BOOLEAN BY <1>1, ResumeAllFacts
<1> HIDE DEF r
<1>3. Sound(r.k, P) BY <1>2, SoundResumed
<1>4. x \in Kernels BY <1>1, GoodIsKernel
<1>5. Gentle(x, r.k, {}) /\ Punctual(x, r.k) BY <1>2, <1>4, ResumeIsGentle
<1> QED BY <1>2, <1>3, <1>5 DEF Resumes, r

LEMMA SwitchNow ==
    ASSUME NEW x, NEW P, Sound(x, P)
    PROVE  LET y == vTaskSwitchContext(x)
           IN  /\ Sound(y, P) /\ Switched(x, y)
               /\ x.susp = 0 => CurReady(y) /\ NoHigher(y)
               /\ x.susp # 0 => y.cur = x.cur /\ y.yield
               /\ Gentle(x, y, {}) /\ Punctual(x, y)
<1> DEFINE y == vTaskSwitchContext(x)
<1>1. Good(x, P) /\ IdleReady(x) BY DEF Sound
<1>2. /\ Good(y, P) /\ Switched(x, y)
      /\ x.susp = 0 => CurReady(y) /\ NoHigher(y)
      /\ x.susp # 0 => y.cur = x.cur /\ y.yield
  BY <1>1, SwitchFacts
<1> HIDE DEF y
<1>3. Sound(y, P) BY <1>2, SoundSwitched
<1>4. x \in Kernels /\ y \in Kernels BY <1>1, <1>2, GoodIsKernel
<1>5. Gentle(x, y, {}) /\ Punctual(x, y) BY <1>2, <1>4, SwitchIsGentle
<1> QED BY <1>2, <1>3, <1>5 DEF y

-----------------------------------------------------------------------------
(* The times the sleeping tasks are to wake at.                            *)

(* The turns of the tick counter start at multiples of its width.          *)
LEMMA Multiples ==
    ASSUME NEW a \in Int, NEW b \in Int, NEW m \in Nat
    PROVE  /\ a = b => a * m = b * m
           /\ a < b => a * m + m <= b * m
           /\ a + 1 = b => b * m = a * m + m
           /\ a + 1 < b => a * m + m + m <= b * m
<1>1. ASSUME NEW c \in Nat PROVE c * m >= 0 BY <1>1
<1>2. b * m = a * m + (b - a) * m OBVIOUS
<1>3. ASSUME a < b PROVE a * m + m <= b * m
  <2>1. b - a - 1 \in Nat BY <1>3
  <2>2. (b - a) * m = (b - a - 1) * m + m OBVIOUS
  <2>3. (b - a - 1) * m >= 0 BY <1>1, <2>1
  <2> QED BY <1>2, <2>2, <2>3
<1>4. ASSUME a + 1 < b PROVE a * m + m + m <= b * m
  <2>1. b - a - 2 \in Nat BY <1>4
  <2>2. (b - a) * m = (b - a - 2) * m + m + m OBVIOUS
  <2>3. (b - a - 2) * m >= 0 BY <1>1, <2>1
  <2> QED BY <1>2, <2>2, <2>3
<1>5. ASSUME a + 1 = b PROVE b * m = a * m + m BY <1>5
<1> QED BY <1>3, <1>4, <1>5

(* Where the turn after the one that starts at b starts.                   *)
NextTurn(b) == IF b + Wrap = Cycle THEN 0 ELSE b + Wrap

LEMMA TurnFacts ==
    ASSUME NEW o \in 0 .. Overflows - 1
    PROVE  /\ o * Wrap \in Nat /\ o * Wrap + Wrap <= Cycle
           /\ o * Wrap + Wrap = Cycle \/ o * Wrap + Wrap + Wrap <= Cycle
           /\ ((o + 1) % Overflows) * Wrap = NextTurn(o * Wrap)
<1>1. Wrap \in Nat \ {0} /\ Overflows \in Nat \ {0} /\ Cycle = Overflows * Wrap BY Widths
<1>2. o \in Int /\ o * Wrap \in Nat BY <1>1
<1>3. CASE o + 1 = Overflows
  <2>1. Overflows * Wrap = o * Wrap + Wrap BY <1>1, <1>2, <1>3, Multiples
  <2>2. (o + 1) % Overflows = 0 BY <1>1, <1>3
  <2>3. 0 * Wrap = 0 BY <1>1
  <2> QED BY <1>1, <1>2, <2>1, <2>2, <2>3 DEF NextTurn
<1>4. CASE o + 1 # Overflows
  <2>1. o + 1 < Overflows BY <1>1, <1>4
  <2>2. o * Wrap + Wrap + Wrap <= Overflows * Wrap BY <1>1, <1>2, <2>1, Multiples
  <2>3. (o + 1) % Overflows = o + 1 BY <1>1, <2>1
  <2>4. (o + 1) * Wrap = o * Wrap + Wrap BY <1>1, <1>2
  <2> QED BY <1>1, <1>2, <2>2, <2>3, <2>4 DEF NextTurn
<1> QED BY <1>3, <1>4

(* A remainder, when the dividend is less than twice the divisor.          *)
LEMMA ModTwice ==
    ASSUME NEW m \in Nat \ {0}, NEW a \in 0 .. 2 * m - 1
    PROVE  a % m = IF a < m THEN a ELSE a - m
<1>1. CASE a < m BY <1>1
<1>2. CASE ~(a < m)
  <2>1. a - m \in 0 .. m - 1 BY <1>2
  <2>2. a = 1 * m + (a - m) OBVIOUS
  <2> QED BY <1>2, <2>1, <2>2
<1> QED BY <1>1, <1>2

(* A time less than two turns after a turn starts.                         *)
LEMMA TurnSum ==
    ASSUME NEW b \in Nat, b + Wrap = Cycle \/ b + Wrap + Wrap <= Cycle, NEW r \in 0 .. 2 * Wrap - 1
    PROVE  /\ (b + r) % Cycle = IF r < Wrap THEN b + r ELSE NextTurn(b) + (r - Wrap)
           /\ r % Wrap = IF r < Wrap THEN r ELSE r - Wrap
<1>1. Wrap \in Nat \ {0} /\ Cycle \in Nat BY Widths
<1>2. r % Wrap = IF r < Wrap THEN r ELSE r - Wrap BY <1>1, ModTwice
<1>3. Cycle \in Nat \ {0} /\ b + r \in 0 .. 2 * Cycle - 1 BY <1>1
<1>4. (b + r) % Cycle = IF b + r < Cycle THEN b + r ELSE b + r - Cycle
  <2> DEFINE s == b + r
  <2>1. s \in 0 .. 2 * Cycle - 1 BY <1>3
  <2> HIDE DEF s
  <2>2. s % Cycle = IF s < Cycle THEN s ELSE s - Cycle BY <1>3, <2>1, ModTwice
  <2> QED BY <1>3, <2>2 DEF s
<1>5. CASE r < Wrap
  <2>1. b + r < Cycle BY <1>1, <1>5
  <2> QED BY <1>2, <1>4, <1>5, <2>1
<1>6. CASE ~(r < Wrap)
  <2>1. CASE b + Wrap = Cycle
    <3>1. b + r - Cycle = 0 + (r - Wrap) /\ ~(b + r < Cycle) BY <1>1, <1>6, <2>1
    <3> QED BY <1>2, <1>4, <1>6, <2>1, <3>1 DEF NextTurn
  <2>2. CASE b + Wrap # Cycle
    <3>1. b + r < Cycle /\ b + r = b + Wrap + (r - Wrap) BY <1>1, <1>6, <2>2
    <3> QED BY <1>2, <1>4, <1>6, <2>2, <3>1 DEF NextTurn
  <2> QED BY <2>1, <2>2
<1> QED BY <1>5, <1>6

(* A task that goes to sleep until the tick w does so until the time a.    *)
Falls(x, w, a) ==
    /\ ~(w < x.tick) => x.tick < w /\ a = x.ovf * Wrap + w
    /\ w < x.tick => a = ((x.ovf + 1) % Overflows) * Wrap + w

LEMMA SleepTimely ==
    ASSUME NEW x \in Kernels, NEW y \in Kernels, NEW t \in Tasks, NEW w, NEW a, Falls(x, w, a),
           Sleeps(x, y, t, w), NEW u, Timely(x, u), NEW v,
           \A s \in Timed(y) \ {t} : v[s] = u[s], t \in Timed(y) => v[t] = a
    PROVE  Timely(y, v)
<1>1. Timed(y) \subseteq Tasks
  <2>1. y.delayed \in Seq(Tasks) /\ y.overflow \in Seq(Tasks) BY KernelFields
  <2> QED BY <2>1, SetOf DEF Timed
<1>2. y.tick = x.tick /\ y.ovf = x.ovf BY DEF Sleeps, Calm, Timeless
<1>3. ASSUME NEW s \in Timed(y), s # t
      PROVE  /\ v[s] = u[s] /\ y.wake[s] = x.wake[s]
             /\ s \in ToSet(y.delayed) => s \in ToSet(x.delayed)
             /\ s \in ToSet(y.overflow) => s \in ToSet(x.overflow)
  <2>1. s \in Tasks \ {t} BY <1>1, <1>3
  <2> QED BY <1>3, <2>1 DEF Sleeps, Calm, Timeless
<1>4. ASSUME t \in Timed(y)
      PROVE  /\ v[t] = a /\ y.wake[t] = w
             /\ t \in ToSet(y.delayed) => x.tick < w /\ a = x.ovf * Wrap + w
             /\ t \in ToSet(y.overflow) => w < x.tick /\ a = ((x.ovf + 1) % Overflows) * Wrap + w
  BY <1>4 DEF Sleeps, Falls
<1>5. ASSUME NEW s \in ToSet(y.delayed)
      PROVE  y.tick < y.wake[s] /\ v[s] = y.ovf * Wrap + y.wake[s]
  <2>1. s \in Timed(y) BY DEF Timed
  <2>2. CASE s = t BY <1>2, <1>4, <1>5, <2>1, <2>2
  <2>3. CASE s # t BY <1>2, <1>3, <1>5, <2>1, <2>3 DEF Timely
  <2> QED BY <2>2, <2>3
<1>6. ASSUME NEW s \in ToSet(y.overflow)
      PROVE  y.wake[s] < y.tick /\ v[s] = ((y.ovf + 1) % Overflows) * Wrap + y.wake[s]
  <2>1. s \in Timed(y) BY DEF Timed
  <2>2. CASE s = t BY <1>2, <1>4, <1>6, <2>1, <2>2
  <2>3. CASE s # t BY <1>2, <1>3, <1>6, <2>1, <2>3 DEF Timely
  <2> QED BY <2>2, <2>3
<1> QED BY <1>5, <1>6 DEF Timely

(* vTaskDelay: n ticks from now.                                           *)
LEMMA DelayFalls ==
    ASSUME NEW x \in Kernels, NEW n \in 1 .. MaxDelay
    PROVE  Falls(x, Plus(x.tick, n), (Now(x) + n) % Cycle)
<1> DEFINE b == x.ovf * Wrap
           r == x.tick + n
<1>1. /\ x.tick \in 0 .. Wrap - 1 /\ x.ovf \in 0 .. Overflows - 1 /\ Wrap \in Nat \ {0}
      /\ MaxDelay = Wrap - 1
  BY Widths
<1>2. /\ b \in Nat
      /\ b + Wrap = Cycle \/ b + Wrap + Wrap <= Cycle
      /\ ((x.ovf + 1) % Overflows) * Wrap = NextTurn(b)
  BY <1>1, TurnFacts
<1>3. r \in 0 .. 2 * Wrap - 1 BY <1>1
<1>4. Now(x) + n = b + r
  <2>1. Now(x) = b + x.tick BY DEF Now
  <2> HIDE DEF b
  <2> QED BY <1>1, <1>2, <2>1
<1>5. Plus(x.tick, n) = r % Wrap BY DEF Plus, Wrap
<1> HIDE DEF b
<1>6. /\ (b + r) % Cycle = IF r < Wrap THEN b + r ELSE NextTurn(b) + (r - Wrap)
      /\ r % Wrap = IF r < Wrap THEN r ELSE r - Wrap
  <2> HIDE DEF r
  <2> QED BY <1>2, <1>3, TurnSum
<1>7. CASE r < Wrap
  <2>1. Plus(x.tick, n) = r /\ (Now(x) + n) % Cycle = b + r BY <1>4, <1>5, <1>6, <1>7
  <2>2. x.tick < r BY <1>1
  <2>3. ~(r < x.tick) BY <1>1
  <2> QED BY <2>1, <2>2, <2>3 DEF Falls, b
<1>8. CASE ~(r < Wrap)
  <2>1. Plus(x.tick, n) = r - Wrap /\ (Now(x) + n) % Cycle = NextTurn(b) + (r - Wrap)
    BY <1>4, <1>5, <1>6, <1>8
  <2>2. r - Wrap < x.tick BY <1>1
  <2> QED BY <1>2, <2>1, <2>2 DEF Falls
<1> QED BY <1>7, <1>8

(* A previous wake time no more than a turn ago is of this turn or of the  *)
(* one before it.                                                          *)
Recent(x, last) == (Now(x) + Cycle - last) % Cycle <= MaxDelay

LEMMA LastTurn ==
    ASSUME NEW x \in Kernels, NEW last \in 0 .. Cycle - 1, Recent(x, last)
    PROVE  \E b \in Nat, h \in 0 .. Wrap - 1 :
              /\ last = b + h /\ last % Wrap = h
              /\ b + Wrap = Cycle \/ b + Wrap + Wrap <= Cycle
              /\ \/ ~(x.tick < h) /\ x.ovf * Wrap = b
                 \/ x.tick < h /\ x.ovf * Wrap = NextTurn(b)
<1>1. /\ x.tick \in 0 .. Wrap - 1 /\ x.ovf \in 0 .. Overflows - 1 /\ Wrap \in Nat \ {0}
      /\ Overflows \in Nat \ {0} /\ MaxDelay = Wrap - 1 /\ Cycle = Overflows * Wrap /\ Cycle \in Nat
  BY Widths
<1> DEFINE q == last \div Wrap
           h == last % Wrap
           b == q * Wrap
           a == x.ovf * Wrap
<1>2. q \in Int /\ h \in 0 .. Wrap - 1 /\ last = b + h BY <1>1
<1>3. q \in 0 .. Overflows - 1
  <2> HIDE DEF q, h
  <2>1. q >= 0
    <3>1. CASE q < 0
      <4>1. q * Wrap + Wrap <= 0 * Wrap BY <1>1, <1>2, <3>1, Multiples
      <4>2. 0 * Wrap = 0 BY <1>1
      <4> HIDE DEF b
      <4>3. b + Wrap <= 0 /\ b \in Int BY <1>1, <1>2, <4>1, <4>2 DEF b
      <4>4. last < 0 BY <1>1, <1>2, <4>3
      <4> QED BY <1>1, <4>4
    <3> QED BY <1>2, <3>1
  <2>2. q < Overflows
    <3>1. CASE q >= Overflows
      <4>1. Overflows * Wrap <= q * Wrap
        <5>1. CASE q = Overflows BY <1>1, <5>1
        <5>2. CASE Overflows < q
          <6>1. Overflows * Wrap + Wrap <= q * Wrap BY <1>1, <1>2, <5>2, Multiples
          <6>2. Overflows * Wrap \in Int /\ q * Wrap \in Int BY <1>1, <1>2
          <6> QED BY <1>1, <6>1, <6>2
        <5> QED BY <1>1, <1>2, <3>1, <5>1, <5>2
      <4>2. Cycle <= b /\ b \in Int BY <1>1, <1>2, <4>1
      <4> HIDE DEF b
      <4> QED BY <1>1, <1>2, <4>2
    <3> QED BY <1>1, <1>2, <3>1
  <2> QED BY <1>1, <1>2, <2>1, <2>2
<1> HIDE DEF q, h
<1>4. /\ b \in Nat /\ b + Wrap <= Cycle
      /\ b + Wrap = Cycle \/ b + Wrap + Wrap <= Cycle
  BY <1>3, TurnFacts
<1>5. a \in Nat /\ a + Wrap <= Cycle BY <1>1, TurnFacts
<1>6. /\ x.ovf = q => a = b
      /\ x.ovf = q + 1 => a = b + Wrap
      /\ x.ovf > q + 1 => a >= b + Wrap + Wrap
      /\ x.ovf < q => a + Wrap <= b
      /\ x.ovf = 0 => a = 0
      /\ x.ovf > 0 => a >= Wrap
  <2>1. x.ovf \in Int /\ q \in Int BY <1>1, <1>2
  <2>2. 0 * Wrap = 0 BY <1>1
  <2>3. x.ovf > 0 => 0 * Wrap + Wrap <= x.ovf * Wrap BY <1>1, <2>1, Multiples
  <2> QED BY <1>1, <2>1, <2>2, <2>3, Multiples
<1> DEFINE e == (a + x.tick) + Cycle - last
<1>7. e % Cycle <= Wrap - 1
  <2>1. Now(x) = a + x.tick BY DEF Now
  <2> QED BY <1>1, <2>1 DEF Recent
<1> HIDE DEF a, b
<1>8. Cycle \in Nat \ {0} /\ e \in 0 .. 2 * Cycle - 1 BY <1>1, <1>4, <1>5
<1>9. e % Cycle = IF e < Cycle THEN e ELSE e - Cycle
  <2> HIDE DEF e
  <2> QED BY <1>1, <1>8, ModTwice
<1>10. x.ovf \in Int /\ q \in Int BY <1>1, <1>2
<1>11. \/ ~(x.tick < h) /\ a = b
       \/ x.tick < h /\ a = NextTurn(b)
  <2>1. CASE e >= Cycle
    <3>1. a + x.tick - b - h <= Wrap - 1 /\ a + x.tick - b - h >= 0
      BY <1>1, <1>2, <1>4, <1>5, <1>7, <1>8, <1>9, <2>1
    <3>2. CASE x.ovf = q BY <1>1, <1>2, <1>4, <1>5, <1>6, <3>1, <3>2
    <3>3. CASE x.ovf = q + 1
      <4>1. a = b + Wrap /\ x.tick < h /\ b + Wrap # Cycle
        BY <1>1, <1>2, <1>4, <1>5, <1>6, <3>1, <3>3
      <4> QED BY <4>1 DEF NextTurn
    <3>4. CASE x.ovf > q + 1 BY <1>1, <1>2, <1>4, <1>5, <1>6, <3>1, <3>4
    <3>5. CASE x.ovf < q BY <1>1, <1>2, <1>4, <1>5, <1>6, <3>1, <3>5
    <3> QED BY <1>10, <3>2, <3>3, <3>4, <3>5
  <2>2. CASE e < Cycle
    <3>1. a + x.tick + Cycle - b - h <= Wrap - 1
      BY <1>1, <1>2, <1>4, <1>5, <1>7, <1>8, <1>9, <2>2
    <3>2. x.tick < h BY <1>1, <1>2, <1>4, <1>5, <3>1
    <3>3. a = 0 /\ b + Wrap = Cycle
      <4>1. a < Wrap BY <1>1, <1>2, <1>4, <1>5, <3>1
      <4>2. ~(x.ovf > 0) BY <1>1, <1>5, <1>6, <4>1
      <4>3. a = 0 BY <1>1, <1>6, <4>2
      <4> QED BY <1>1, <1>2, <1>4, <3>1, <4>3
    <3> QED BY <3>2, <3>3 DEF NextTurn
  <2> HIDE DEF e
  <2> QED BY <1>8, <2>1, <2>2
<1>12. last % Wrap = h BY DEF h
<1> QED BY <1>2, <1>4, <1>11, <1>12 DEF a

(* xTaskDelayUntil: n ticks from the previous time.                        *)
LEMMA UntilFalls ==
    ASSUME NEW x \in Kernels, NEW last \in 0 .. Cycle - 1, Recent(x, last), NEW n \in 1 .. MaxDelay,
           ShouldDelay(x.tick, last % Wrap, Plus(last % Wrap, n))
    PROVE  LET wake == Plus(last % Wrap, n)
           IN  /\ Minus(wake, x.tick) \in Ticks /\ Plus(x.tick, Minus(wake, x.tick)) = wake
               /\ Falls(x, wake, (last + n) % Cycle)
<1>1. /\ x.tick \in 0 .. Wrap - 1 /\ x.ovf \in 0 .. Overflows - 1 /\ Wrap \in Nat \ {0}
      /\ MaxDelay = Wrap - 1 /\ Ticks = 0 .. Wrap - 1
  BY Widths
<1>2. PICK b \in Nat, h \in 0 .. Wrap - 1 :
              /\ last = b + h /\ last % Wrap = h
              /\ b + Wrap = Cycle \/ b + Wrap + Wrap <= Cycle
              /\ \/ ~(x.tick < h) /\ x.ovf * Wrap = b
                 \/ x.tick < h /\ x.ovf * Wrap = NextTurn(b)
  BY LastTurn
<1> DEFINE r == h + n
           wake == Plus(h, n)
           tk == x.tick
<1>3. wake = r % Wrap BY DEF Plus, Wrap
<1>4. r \in 0 .. 2 * Wrap - 1 BY <1>1
<1>5. last + n = b + r BY <1>1, <1>2
<1>6. /\ (b + r) % Cycle = IF r < Wrap THEN b + r ELSE NextTurn(b) + (r - Wrap)
      /\ r % Wrap = IF r < Wrap THEN r ELSE r - Wrap
  <2> HIDE DEF r
  <2> QED BY <1>2, <1>4, TurnSum
<1>7. ShouldDelay(tk, h, wake) BY <1>2
<1>8. wake = IF r < Wrap THEN r ELSE r - Wrap BY <1>3, <1>6
<1>9. (last + n) % Cycle = IF r < Wrap THEN b + r ELSE NextTurn(b) + (r - Wrap) BY <1>5, <1>6
<1> HIDE DEF wake
<1>10. wake \in 0 .. Wrap - 1 BY <1>1, <1>4, <1>8
<1>11. Falls(x, wake, (last + n) % Cycle)
  <2>1. CASE tk < h
    <3>1. wake < h /\ wake > tk BY <1>7, <2>1 DEF ShouldDelay
    <3>2. ~(r < Wrap) /\ wake = r - Wrap BY <1>1, <1>2, <1>8, <3>1
    <3>3. (last + n) % Cycle = x.ovf * Wrap + wake BY <1>2, <1>9, <2>1, <3>2
    <3>4. ~(wake < tk) BY <1>1, <1>10, <3>1
    <3>5. tk < wake BY <1>1, <1>10, <3>1
    <3> QED BY <3>3, <3>4, <3>5 DEF Falls
  <2>2. CASE ~(tk < h)
    <3>1. wake < h \/ wake > tk BY <1>7, <2>2 DEF ShouldDelay
    <3>2. b = x.ovf * Wrap BY <1>2, <2>2
    <3>3. CASE wake < h
      <4>1. ~(r < Wrap) /\ wake = r - Wrap /\ wake < tk BY <1>1, <1>2, <1>8, <2>2, <3>3, SMTT(30)
      <4>2. ((x.ovf + 1) % Overflows) * Wrap = NextTurn(b) BY <1>1, <3>2, TurnFacts
      <4>3. (last + n) % Cycle = ((x.ovf + 1) % Overflows) * Wrap + wake BY <1>9, <4>1, <4>2
      <4> QED BY <4>1, <4>3 DEF Falls
    <3>4. CASE wake > tk
      <4>1. r < Wrap /\ wake = r BY <1>1, <1>2, <1>8, <2>2, <3>4, SMTT(30)
      <4>2. (last + n) % Cycle = x.ovf * Wrap + wake BY <1>9, <3>2, <4>1
      <4>3. ~(wake < tk) /\ tk < wake BY <1>1, <1>10, <3>4
      <4> QED BY <4>2, <4>3 DEF Falls
    <3> QED BY <3>1, <3>3, <3>4
  <2> QED BY <2>1, <2>2
<1>12. Minus(wake, tk) \in Ticks /\ Plus(tk, Minus(wake, tk)) = wake
  <2> DEFINE d == wake + Wrap - tk
             g == d % Wrap
  <2>1. Minus(wake, tk) = g
    <3>1. Minus(wake, tk) = (wake + MaxDelay + 1 - tk) % Wrap BY DEF Minus, Wrap
    <3>2. wake + MaxDelay + 1 - tk = d BY <1>1, <1>10
    <3> QED BY <3>1, <3>2
  <2>2. d \in 0 .. 2 * Wrap - 1 BY <1>1, <1>10, SMTT(30)
  <2>3. g = IF d < Wrap THEN d ELSE d - Wrap
    <3> HIDE DEF d
    <3> QED BY <1>1, <2>2, ModTwice
  <2> HIDE DEF g
  <2>4. g \in 0 .. Wrap - 1 BY <1>1, <2>2, <2>3, SMTT(30)
  <2> DEFINE f == tk + g
  <2>5. f \in 0 .. 2 * Wrap - 1 BY <1>1, <2>4, SMTT(30)
  <2>6. f % Wrap = IF f < Wrap THEN f ELSE f - Wrap
    <3> HIDE DEF f
    <3> QED BY <1>1, <2>5, ModTwice
  <2>7. f % Wrap = wake
    <3>1. CASE d < Wrap
      <4>1. f = wake + Wrap BY <1>1, <1>10, <2>3, <3>1, SMTT(30)
      <4>2. ~(f < Wrap) /\ f - Wrap = wake BY <1>1, <1>10, <4>1
      <4> QED BY <2>6, <4>2
    <3>2. CASE ~(d < Wrap)
      <4>1. f = wake /\ f < Wrap BY <1>1, <1>10, <2>3, <3>2, SMTT(30)
      <4> QED BY <2>6, <4>1
    <3> QED BY <3>1, <3>2
  <2>8. Plus(tk, g) = f % Wrap BY DEF Plus, Wrap
  <2> QED BY <1>1, <2>1, <2>4, <2>7, <2>8
<1> QED BY <1>2, <1>11, <1>12 DEF wake

(* A task that sleeps has a time to wake that lies ahead, by less than a   *)
(* turn.                                                                   *)
LEMMA TimelyLeft ==
    ASSUME NEW x \in Kernels, NEW u, Timely(x, u), NEW t \in Timed(x)
    PROVE  (u[t] + Cycle - Now(x)) % Cycle \in 1 .. MaxDelay
<1> DEFINE b == x.ovf * Wrap
           w == x.wake[t]
           left == u[t] + Cycle - Now(x)
<1>1. /\ x.tick \in 0 .. Wrap - 1 /\ x.ovf \in 0 .. Overflows - 1 /\ Wrap \in Nat \ {0}
      /\ MaxDelay = Wrap - 1 /\ Ticks = 0 .. Wrap - 1 /\ Cycle \in Nat
  BY Widths
<1>2. /\ b \in Nat
      /\ b + Wrap <= Cycle
      /\ b + Wrap = Cycle \/ b + Wrap + Wrap <= Cycle
      /\ ((x.ovf + 1) % Overflows) * Wrap = NextTurn(b)
  BY <1>1, TurnFacts
<1>3. t \in Tasks
  <2>1. x.delayed \in Seq(Tasks) /\ x.overflow \in Seq(Tasks) BY KernelFields
  <2> QED BY <2>1, SetOf DEF Timed
<1>4. w \in 0 .. Wrap - 1 BY <1>1, <1>3, KernelFields
<1>5. Now(x) = b + x.tick BY DEF Now
<1>6. \/ x.tick < w /\ u[t] = b + w
      \/ w < x.tick /\ u[t] = NextTurn(b) + w
  <2>1. CASE t \in ToSet(x.delayed) BY <2>1 DEF Timely
  <2>2. CASE t \in ToSet(x.overflow) BY <1>2, <2>2 DEF Timely
  <2> QED BY <2>1, <2>2 DEF Timed
<1> HIDE DEF b, w
<1>7. Cycle \in Nat \ {0} BY <1>1, <1>2
<1>8. ASSUME NEW i \in 1 .. Wrap - 1, left = i \/ left = i + Cycle
      PROVE  left % Cycle \in 1 .. MaxDelay
  <2>1. left \in 0 .. 2 * Cycle - 1 BY <1>1, <1>2, <1>7, <1>8, SMTT(30)
  <2> HIDE DEF left
  <2>2. left % Cycle = IF left < Cycle THEN left ELSE left - Cycle BY <1>7, <2>1, ModTwice
  <2>3. left % Cycle = i BY <1>1, <1>2, <1>7, <1>8, <2>2
  <2> QED BY <1>1, <2>3
<1>9. CASE x.tick < w /\ u[t] = b + w
  <2>1. w - x.tick \in 1 .. Wrap - 1 BY <1>1, <1>4, <1>9
  <2>2. left = (w - x.tick) + Cycle BY <1>1, <1>2, <1>4, <1>5, <1>9
  <2> HIDE DEF left
  <2> QED BY <1>8, <2>1, <2>2 DEF left
<1>10. CASE w < x.tick /\ u[t] = NextTurn(b) + w
  <2>1. Wrap + w - x.tick \in 1 .. Wrap - 1 BY <1>1, <1>4, <1>10
  <2>2. left = Wrap + w - x.tick \/ left = (Wrap + w - x.tick) + Cycle
    <3>1. CASE b + Wrap = Cycle
      <4>1. u[t] = 0 + w BY <1>10, <3>1 DEF NextTurn
      <4>2. left = w + Cycle - (b + x.tick) BY <1>4, <1>5, <4>1
      <4> HIDE DEF left
      <4>3. left = Wrap + w - x.tick BY <1>1, <1>2, <1>4, <3>1, <4>2, SMTT(30)
      <4> QED BY <4>3
    <3>2. CASE b + Wrap # Cycle
      <4>1. u[t] = b + Wrap + w BY <1>10, <3>2 DEF NextTurn
      <4>2. left = b + Wrap + w + Cycle - (b + x.tick) BY <1>5, <4>1
      <4> HIDE DEF left
      <4> QED BY <1>1, <1>2, <1>4, <4>2, SMTT(30)
    <3> QED BY <3>1, <3>2
  <2> HIDE DEF left
  <2> QED BY <1>8, <2>1, <2>2 DEF left
<1> QED BY <1>6, <1>9, <1>10

(* Whole cycles more or less make no difference.                           *)
LEMMA ModShift ==
    ASSUME NEW m \in Nat \ {0}, NEW a \in Nat, NEW c \in Int
    PROVE  (a + c * m) % m <= a
<1> DEFINE X == a + c * m
           e == X \div m
           h == X % m
           g == a \div m
           i == a % m
<1>1. e \in Int /\ h \in 0 .. m - 1 /\ X = e * m + h
  <2>1. X \in Int OBVIOUS
  <2> HIDE DEF X
  <2> QED BY <2>1
<1>2. g \in Int /\ i \in 0 .. m - 1 /\ a = g * m + i OBVIOUS
<1>3. X = (g + c) * m + i
  <2> HIDE DEF g, i
  <2>1. (g + c) * m = g * m + c * m BY <1>2
  <2> QED BY <1>2, <2>1
<1>4. g >= 0
  <2> HIDE DEF g, i
  <2>1. CASE g < 0
    <3>1. g * m + m <= 0 * m BY <1>2, <2>1, Multiples
    <3> QED BY <1>2, <3>1
  <2> QED BY <1>2, <2>1
<1>5. g * m >= 0 BY <1>2, <1>4
<1> HIDE DEF e, h, g, i, X
<1>6. e * m \in Int /\ (g + c) * m \in Int /\ g + c \in Int BY <1>1, <1>2
<1>7. e = g + c
  <2>1. CASE e < g + c
    <3>1. e * m + m <= (g + c) * m BY <1>1, <1>6, <2>1, Multiples
    <3> QED BY <1>1, <1>2, <1>3, <1>6, <3>1
  <2>2. CASE g + c < e
    <3>1. (g + c) * m + m <= e * m BY <1>1, <1>6, <2>2, Multiples
    <3> QED BY <1>1, <1>2, <1>3, <1>6, <3>1
  <2> QED BY <1>1, <1>6, <2>1, <2>2
<1>8. h = i BY <1>1, <1>2, <1>3, <1>6, <1>7
<1>9. h <= a BY <1>2, <1>5, <1>8
<1> QED BY <1>9 DEF h, X

(* A task whose time was one of the ticks counted is late by the others.   *)
LEMMA LaterIsNotEarly ==
    ASSUME NEW x \in Kernels, NEW y \in Kernels, NEW m \in Nat, NEW n \in Nat, m <= n + 1,
           Later(x, y, m), NEW u, Timely(x, u), NEW t \in Timed(x) \ Timed(y),
           t \notin ToSet(x.events[Pending])
    PROVE  (Now(y) + Cycle - u[t]) % Cycle <= n
<1>1. PICK j \in 1 .. m : After(x, j, u[t]) BY DEF Later
<1>2. PICK d \in Int : u[t] = Now(x) + j + d * Cycle BY <1>1 DEF After
<1>3. PICK c \in Int : Now(y) = Now(x) + m + c * Cycle BY DEF Later, After
<1>4. Now(x) \in Int /\ Cycle \in Nat \ {0} /\ m - j \in Nat /\ m - j <= n
  <2>1. Cycle \in Nat \ {0}
    <3>1. Wrap \in Nat \ {0} /\ Overflows \in Nat \ {0} /\ Cycle = Overflows * Wrap BY Widths
    <3> QED BY <3>1
  <2> QED BY <2>1, Widths
<1>5. Now(y) + Cycle - u[t] = (m - j) + (c - d + 1) * Cycle
  <2>1. (c - d + 1) * Cycle = c * Cycle - d * Cycle + Cycle BY <1>4
  <2>2. c * Cycle \in Int /\ d * Cycle \in Int BY <1>4
  <2> QED BY <1>2, <1>3, <1>4, <2>1, <2>2
<1> DEFINE a == m - j
           z == c - d + 1
<1>6. a \in Nat /\ z \in Int BY <1>4
<1> HIDE DEF a, z
<1>7. (a + z * Cycle) % Cycle <= a BY <1>4, <1>6, ModShift
<1>8. Now(y) + Cycle - u[t] = a + z * Cycle BY <1>5 DEF a, z
<1>9. (Now(y) + Cycle - u[t]) % Cycle <= a BY <1>7, <1>8
<1>10. (Now(y) + Cycle - u[t]) % Cycle \in Int
  <2>1. a + z * Cycle \in Int BY <1>4, <1>6
  <2>2. (a + z * Cycle) % Cycle \in Int BY <1>4, <2>1
  <2> QED BY <1>8, <2>2
<1>11. a <= n BY <1>4 DEF a
<1> QED BY <1>6, <1>9, <1>10, <1>11

-----------------------------------------------------------------------------
(* Yielding, and suspending the scheduler.                                 *)

LEMMA YieldStepKeeps ==
    ASSUME TaskInv, NEW t \in Tasks, YieldStep(t)
    PROVE  Keeps
<1> DEFINE c == pc[t].then
<1>1. /\ t = k.cur /\ pc[t].at = "yield" /\ k' = vTaskSwitchContext(k)
      /\ Moves(t, c) /\ tcbs' = tcbs /\ load' = load
  BY GotoFacts DEF YieldStep, At
<1>2. Sound(k, Placed) /\ Places /\ Spot(pc[t]) /\ Fits(k, t, pc[t]) BY <1>1, InvFacts
<1>3. k.susp = 0 /\ c.at \in {"run", "done", "gone"} BY <1>1, <1>2 DEF Fits, Spot
<1>4. /\ Sound(k', Placed) /\ Switched(k, k') /\ CurReady(k') /\ NoHigher(k')
      /\ Gentle(k, k', {}) /\ Punctual(k, k')
  BY <1>1, <1>2, <1>3, SwitchNow
<1>5. k'.susp = 0 /\ k'.nstate = k.nstate BY <1>3, <1>4 DEF Switched, Members
<1>6. t # Idle BY <1>1, <1>2 DEF Places
<1>7. k.nstate[t] = WAITING => InWait(c) BY <1>1, <1>2 DEF Places, InWait
<1>8. Walks(t, c)
  <2>1. Spot(c) /\ ~Owns(c) /\ ~Owns(pc[t]) /\ ~Held(c) /\ Fits(k', t, c)
    BY <1>1, <1>3 DEF Spot, Owns, Held, Fits
  <2>2. Serves(k', c, tcbs) BY <1>4 DEF Serves
  <2> HIDE DEF c
  <2> QED BY <1>1, <1>4, <1>5, <1>6, <1>7, <2>1, <2>2 DEF Walks
<1>9. Op(c) = Op(pc[t]) /\ c.at # "block" BY <1>1, <1>3 DEF Op
<1> HIDE DEF c
<1>10. Heeds(t, c, {}, Placed) BY <1>4, <1>9 DEF Heeds
<1> QED BY <1>4, <1>8, <1>10, WalksFacts

LEMMA ResumeStepKeeps ==
    ASSUME TaskInv, NEW t \in Tasks, ResumeStep(t)
    PROVE  Keeps
<1> DEFINE r == xTaskResumeAll(k)
           d == pc[t].then
           c == IF r.yielded THEN d ELSE Yield(d)
<1>1. /\ t = k.cur /\ pc[t].at = "resume" /\ k' = r.k
      /\ Moves(t, c) /\ tcbs' = tcbs /\ load' = load
  BY GotoFacts DEF ResumeStep, Resumed, At
<1>2. Sound(k, Placed) /\ Places /\ Spot(pc[t]) /\ Fits(k, t, pc[t]) BY <1>1, InvFacts
<1>3. k.susp = 1 /\ d.at \in {"run", "done", "gone"} BY <1>1, <1>2 DEF Fits, Spot
<1>4. /\ Sound(r.k, Placed) /\ Resumes(k, r.k, r.yielded) /\ r.yielded \in BOOLEAN
      /\ r.k.cur # k.cur => r.k.susp = 0 /\ CurReady(r.k) /\ NoHigher(r.k)
      /\ Gentle(k, r.k, {}) /\ Punctual(k, r.k)
  BY <1>2, <1>3, ResumeNow
<1> HIDE DEF r, d
<1>5. k'.susp = 0 /\ k'.nstate = k.nstate BY <1>1, <1>3, <1>4 DEF Resumes, Members
<1>6. t # Idle BY <1>1, <1>2 DEF Places
<1>7. k.nstate[t] = WAITING => d.at = "done" BY <1>1, <1>2 DEF Places, InWait, d
<1>8. /\ Spot(c) /\ ~Owns(c) /\ ~Owns(pc[t]) /\ ~Held(c) /\ Fits(k', t, c)
      /\ k.nstate[t] = WAITING => InWait(c)
      /\ ~r.yielded => Off(t, c)
  BY <1>1, <1>3, <1>5, <1>7 DEF Spot, Owns, Held, Fits, Yield, Off, InWait
<1>9. k'.cur = t => Serves(k', c, tcbs)
  <2>1. CASE r.yielded BY <1>1, <1>4, <2>1 DEF Resumes, Serves
  <2>2. CASE ~r.yielded BY <1>8, <2>2 DEF Serves
  <2> QED BY <1>4, <2>1, <2>2
<1>10. Walks(t, c)
  <2> HIDE DEF c
  <2> QED BY <1>1, <1>4, <1>5, <1>6, <1>8, <1>9 DEF Walks
<1>11. Op(c) = Op(pc[t]) /\ c.at # "block"
  <2>1. Op(pc[t]) = IF d.at = "done" THEN d.op ELSE "no" BY <1>1 DEF Op, d
  <2>2. CASE r.yielded BY <1>3, <2>1, <2>2 DEF Op
  <2>3. CASE ~r.yielded BY <2>1, <2>3 DEF Op, Yield
  <2> QED BY <2>2, <2>3
<1> HIDE DEF c
<1>12. Heeds(t, c, {}, Placed) BY <1>1, <1>4, <1>11 DEF Heeds
<1> QED BY <1>1, <1>4, <1>10, <1>12, WalksFacts

(* (void) xTaskResumeAll(): the task goes on at c.                         *)
LEMMA ResumeKeeps ==
    ASSUME TaskInv, NEW t, NEW c, t = k.cur, k.susp # 0, k' = xTaskResumeAll(k).k,
           Moves(t, c), tcbs' = tcbs, load' = load, ~Owns(pc[t]),
           c.at \in {"run", "done", "gone"}, t = Idle => c.at = "run",
           k.nstate[t] = WAITING => InWait(c), ~Off(t, pc[t]), pc[t].at # "added"
    PROVE  Keeps
<1> DEFINE r == xTaskResumeAll(k)
<1>1. Sound(k, Placed) /\ Serves(k, pc[t], tcbs) BY InvFacts
<1>2. /\ Sound(r.k, Placed) /\ Resumes(k, r.k, r.yielded) /\ r.yielded \in BOOLEAN
      /\ r.k.cur # k.cur => r.k.susp = 0 /\ CurReady(r.k) /\ NoHigher(r.k)
      /\ Gentle(k, r.k, {}) /\ Punctual(k, r.k)
  BY <1>1, ResumeNow
<1>3. k' = r.k OBVIOUS
<1> HIDE DEF r
<1>4. k'.nstate = k.nstate BY <1>2, <1>3 DEF Resumes, Members
<1>5. CurReady(k) /\ (NoHigher(k) \/ k.yield) BY <1>1 DEF Serves
<1>6. k'.cur = t => Serves(k', c, tcbs)
  <2>1. SUFFICES ASSUME k'.cur = t PROVE CurReady(k') /\ (NoHigher(k') \/ (k'.susp # 0 /\ k'.yield))
    BY DEF Serves
  <2>2. CurReady(k') BY <1>2, <1>3, <1>5, <2>1 DEF Resumes, CurReady
  <2>3. CASE k'.susp = 0 BY <1>2, <1>3, <1>5, <2>2, <2>3 DEF Resumes
  <2>4. CASE k'.susp # 0
    <3>1. k'.yield = k.yield /\ Readied(k') = Readied(k) /\ k'.prio = k.prio
      BY <1>2, <1>3, <2>4 DEF Resumes, Members
    <3>2. NoHigher(k) => NoHigher(k') BY <2>1, <3>1 DEF NoHigher
    <3> QED BY <1>5, <2>2, <2>4, <3>1, <3>2
  <2> QED BY <2>3, <2>4
<1>7. Walks(t, c)
  <2>1. Spot(c) /\ ~Owns(c) /\ ~Held(c) /\ Fits(k', t, c) BY DEF Spot, Owns, Held, Fits
  <2> QED BY <1>2, <1>3, <1>4, <1>6, <2>1 DEF Walks
<1>8. Awake(k', Suspends, t) BY <1>2, <1>3, <1>5 DEF Resumes, CurReady, Awake
<1>9. Minded(k', Suspends, t, c) BY <1>8 DEF Minded
<1>10. Heeds(t, c, {}, Placed) BY <1>2, <1>3, <1>9 DEF Heeds
<1> QED BY <1>2, <1>3, <1>7, <1>10, WalksFacts

LEMMA ResumeOnlyStepKeeps ==
    ASSUME TaskInv, NEW t \in Tasks, ResumeOnlyStep(t)
    PROVE  Keeps
<1> DEFINE c == pc[t].then
<1>1. /\ t = k.cur /\ pc[t].at = "resumeOnly" /\ k' = xTaskResumeAll(k).k
      /\ Moves(t, c) /\ tcbs' = tcbs /\ load' = load
  BY GotoFacts DEF ResumeOnlyStep, At
<1>2. Places /\ Spot(pc[t]) /\ Fits(k, t, pc[t]) /\ pc[t].at # "leaked" BY <1>1, InvFacts
<1>3. k.susp # 0 /\ c.at \in {"run", "done", "gone"} BY <1>1, <1>2 DEF Fits, Spot
<1>4. t # Idle BY <1>1, <1>2 DEF Places
<1>5. k.nstate[t] # WAITING BY <1>1, <1>2 DEF Places, InWait
<1>6. ~Owns(pc[t]) /\ ~Off(t, pc[t]) BY <1>1 DEF Owns, Off
<1> HIDE DEF c
<1> QED BY <1>1, <1>3, <1>4, <1>5, <1>6, ResumeKeeps

(* A task in its own code.                                                 *)
LEMMA CallFacts ==
    ASSUME TaskInv, NEW t \in Tasks, NEW op, Calls(t, op)
    PROVE  /\ t = k.cur /\ pc[t] = Run /\ t # Idle /\ k.nstate[t] # WAITING
           /\ ~Owns(pc[t]) /\ ~Off(t, pc[t]) /\ ~Held(Run) /\ Spot(Run) /\ ~Owns(Run)
           /\ \A x, u : Fits(x, u, Run)
           /\ CurReady(k) /\ (NoHigher(k) \/ (k.susp # 0 /\ k.yield))
           /\ t \in Placed /\ t \notin ToSet(k.dying)
<1>1. t = k.cur /\ pc[t] = Run /\ op \in load.can[t] BY DEF Calls
<1>2. load \in Loads /\ Places /\ Serves(k, Run, tcbs) BY <1>1, InvFacts
<1>3. t # Idle BY <1>1, <1>2, TasksAssumption
<1>4. Run.at = "run" BY DEF Run
<1>5. k.nstate[t] # WAITING BY <1>1, <1>2, <1>4 DEF Places, InWait
<1>6. ~Owns(Run) /\ ~Off(t, Run) /\ ~Held(Run) /\ Spot(Run) /\ \A x, u : Fits(x, u, Run)
  BY <1>4 DEF Owns, Off, Held, Spot, Fits
<1>7. CurReady(k) /\ (NoHigher(k) \/ (k.susp # 0 /\ k.yield)) BY <1>1, <1>2, <1>4, <1>6 DEF Serves
<1>8. t \in Placed /\ t \notin ToSet(k.dying) BY <1>1, <1>7, InvFacts DEF CurReady
<1> QED BY <1>1, <1>3, <1>5, <1>6, <1>7, <1>8

LEMMA SuspendAllKeeps ==
    ASSUME TaskInv, NEW t \in Tasks, SuspendAll(t)
    PROVE  Keeps
<1>1. Calls(t, "suspendAll") /\ k' = vTaskSuspendAll(k) /\ pc' = pc /\ tcbs' = tcbs /\ load' = load
      /\ k.susp = 0
  BY DEF SuspendAll
<1>2. /\ t = k.cur /\ pc[t] = Run /\ t # Idle /\ k.nstate[t] # WAITING
      /\ ~Held(Run) /\ Spot(Run) /\ ~Owns(Run) /\ Fits(k', t, Run)
      /\ CurReady(k) /\ (NoHigher(k) \/ (k.susp # 0 /\ k.yield))
  BY <1>1, CallFacts
<1>3. Sound(k, Placed) /\ DOMAIN pc = Tasks /\ k.susp \in Nat BY InvFacts
<1>4. /\ Good(k', Placed) /\ Members(k, k') /\ Readied(k') = Readied(k) /\ k'.susp = k.susp + 1
      /\ k'.cur = k.cur /\ k'.yield = k.yield /\ k'.events = k.events /\ k'.dying = k.dying
      /\ Still(k, k')
  BY <1>1, <1>3, SuspendAllFacts DEF Sound
<1>5. Sound(k', Placed) BY <1>3, <1>4 DEF Sound, IdleReady, Members
<1>6. Serves(k', Run, tcbs) BY <1>1, <1>2, <1>4 DEF Serves, CurReady, NoHigher, Members
<1>7. Moves(t, Run) BY <1>1, <1>2, <1>3 DEF Moves
<1>8. Walks(t, Run) BY <1>1, <1>2, <1>4, <1>5, <1>6, <1>7 DEF Walks, Run, Members
<1>9. k \in Kernels /\ k' \in Kernels BY <1>3, <1>4, GoodIsKernel DEF Sound
<1>10. Gentle(k, k', {}) /\ Punctual(k, k') BY <1>4, <1>9, StillIsGentle
<1>11. Run.at # "block" /\ Op(Run) = "no" BY DEF Run, Op
<1>12. Heeds(t, Run, {}, Placed) BY <1>10, <1>11 DEF Heeds
<1> QED BY <1>8, <1>10, <1>12, WalksFacts

LEMMA ResumeAllKeeps ==
    ASSUME TaskInv, NEW t \in Tasks, ResumeAll(t)
    PROVE  Keeps
<1>1. /\ Calls(t, "suspendAll") /\ k' = xTaskResumeAll(k).k /\ pc' = pc /\ tcbs' = tcbs
      /\ load' = load /\ k.susp > 0
  BY DEF ResumeAll
<1>2. /\ t = k.cur /\ pc[t] = Run /\ t # Idle /\ k.nstate[t] # WAITING /\ ~Owns(pc[t])
      /\ ~Off(t, pc[t])
  BY <1>1, CallFacts
<1>3. DOMAIN pc = Tasks /\ k.susp # 0 BY <1>1, InvFacts
<1>4. Moves(t, Run) BY <1>1, <1>2, <1>3 DEF Moves
<1>5. Run.at = "run" BY DEF Run
<1> QED BY <1>1, <1>2, <1>3, <1>4, <1>5, ResumeKeeps

(* A switch asked for by a task in its own code.                           *)
LEMMA SwitchKeeps ==
    ASSUME TaskInv, k' = vTaskSwitchContext(k), pc' = pc, tcbs' = tcbs, load' = load,
           Serves(k, pc[k.cur], tcbs)
    PROVE  Keeps
<1>1. Sound(k, Placed) /\ Fits(k, k.cur, pc[k.cur]) BY InvFacts
<1>2. /\ Sound(k', Placed) /\ Switched(k, k')
      /\ k.susp = 0 => CurReady(k') /\ NoHigher(k')
      /\ k.susp # 0 => k'.cur = k.cur /\ k'.yield
      /\ Gentle(k, k', {}) /\ Punctual(k, k')
  BY <1>1, SwitchNow
<1>3. k'.cur = k.cur => Serves(k', pc[k.cur], tcbs)
  <2>1. CASE k.susp = 0 BY <1>2, <2>1 DEF Serves
  <2>2. CASE k.susp # 0
    <3>1. k'.prio = k.prio /\ k'.susp = k.susp /\ Readied(k') = Readied(k)
      BY <1>2 DEF Switched, Members
    <3> QED BY <1>2, <2>2, <3>1, ServesOn
  <2> QED BY <2>1, <2>2
<1>4. Passes BY <1>1, <1>2, <1>3 DEF Passes, Switched, Members, Fits
<1>5. Rests(k', {}) BY <1>2 DEF Rests, Switched
<1> QED BY <1>2, <1>4, <1>5, PassesFacts

LEMMA taskYIELDKeeps ==
    ASSUME TaskInv, NEW t \in Tasks, taskYIELD(t)
    PROVE  Keeps
BY InvFacts, SwitchKeeps DEF taskYIELD

-----------------------------------------------------------------------------
(* Delays.                                                                 *)

LEMMA SuspendNow ==
    ASSUME NEW x, NEW P, Sound(x, P)
    PROVE  LET y == vTaskSuspendAll(x)
           IN  /\ Sound(y, P) /\ Members(x, y) /\ Readied(y) = Readied(x) /\ y.susp = x.susp + 1
               /\ y.cur = x.cur /\ y.yield = x.yield /\ y.events = x.events /\ y.dying = x.dying
               /\ y.pended = x.pended /\ Still(x, y) /\ Gentle(x, y, {}) /\ Punctual(x, y)
<1> DEFINE y == vTaskSuspendAll(x)
<1>1. Good(x, P) BY DEF Sound
<1>2. /\ Good(y, P) /\ Members(x, y) /\ Readied(y) = Readied(x) /\ y.susp = x.susp + 1
      /\ y.cur = x.cur /\ y.yield = x.yield /\ y.events = x.events /\ y.dying = x.dying
      /\ y.pended = x.pended /\ Still(x, y)
  BY <1>1, SuspendAllFacts
<1>3. x.susp \in Nat BY <1>1, GoodIsLoose, KernelFields
<1> HIDE DEF y
<1>4. Sound(y, P) BY <1>2, <1>3 DEF Sound, IdleReady, Members
<1>5. x \in Kernels /\ y \in Kernels BY <1>1, <1>2, GoodIsKernel
<1>6. Gentle(x, y, {}) /\ Punctual(x, y) BY <1>2, <1>5, StillIsGentle
<1> QED BY <1>2, <1>4, <1>6 DEF y

(* The scheduler is suspended, the current task goes to sleep, and goes on *)
(* at d when it has resumed the scheduler.                                 *)
Naps(t, x, wait, always, d) ==
    /\ t = k.cur /\ t # Idle /\ t \notin ToSet(x.dying)
    /\ Sound(x, Placed) /\ x.cur = t /\ x.susp = 1
    /\ Members(k, x) /\ Still(k, x) /\ x.dying = k.dying
    /\ wait \in Ticks /\ always \in BOOLEAN
    /\ k' = prvAddCurrentTaskToDelayedList(x, wait, always)
    /\ Moves(t, Resume(d)) /\ d.at \in {"run", "done"} /\ ~Owns(pc[t])
    /\ k.nstate[t] = WAITING => d.at = "done"
    /\ d.at = "done" => pc[t].at = "block" /\ d.op = pc[t].op
    /\ tcbs' = tcbs /\ load' = load

LEMMA NapKeeps ==
    ASSUME TaskInv, NEW t, NEW x, NEW wait, NEW always, NEW d, Naps(t, x, wait, always, d)
    PROVE  TaskInv' /\ (WakeInv => WakeInv') /\ Sleeps(x, k', t, Plus(x.tick, wait))
<1>1. /\ t = k.cur /\ t # Idle /\ Sound(x, Placed) /\ x.cur = t /\ x.susp = 1
      /\ x.nstate = k.nstate /\ d.at \in {"run", "done"} /\ ~Owns(pc[t])
      /\ k.nstate[t] = WAITING => d.at = "done"
      /\ d.at = "done" => pc[t].at = "block" /\ d.op = pc[t].op
      /\ Members(k, x) /\ Still(k, x) /\ x.dying = k.dying
      /\ tcbs' = tcbs /\ load' = load /\ Moves(t, Resume(d))
      /\ t \notin ToSet(x.dying) /\ wait \in Ticks /\ always \in BOOLEAN
  BY DEF Naps, Members
<1>2. t \in Placed BY <1>1, InvFacts
<1>3. Good(x, Placed) /\ IdleReady(x) BY <1>1 DEF Sound
<1>4. /\ Good(k', Placed) /\ Steady(x, k') /\ Readied(k') = Readied(x) \ {t}
      /\ Sleeps(x, k', t, Plus(x.tick, wait))
  BY <1>1, <1>2, <1>3, SleepFacts DEF Naps
<1>5. Sound(k', Placed) BY <1>1, <1>4 DEF Sound, Steady, Members, IdleReady
<1>6. k'.cur = t /\ k'.susp = 1 /\ k'.nstate = k.nstate BY <1>1, <1>4 DEF Steady, Members
<1> DEFINE c == Resume(d)
<1>7. /\ Spot(c) /\ ~Owns(c) /\ Fits(k', t, c) /\ Off(t, c)
      /\ k.nstate[t] = WAITING => InWait(c)
  BY <1>1, <1>6 DEF Resume, Spot, Owns, Fits, Off, InWait
<1> HIDE DEF c
<1>8. Serves(k', c, tcbs) BY <1>6, <1>7 DEF Serves
<1>9. Moves(t, c) BY <1>1 DEF c
<1>10. Walks(t, c) BY <1>1, <1>5, <1>6, <1>7, <1>8, <1>9 DEF Walks
<1>11. Gentle(k, k', {t})
  <2>1. Calm(k, x, {t}) BY <1>1, StillIsCalm
  <2>2. Calm(x, k', {t}) BY <1>4 DEF Sleeps
  <2>3. Kept(k, k', {t}) BY <2>1, <2>2, CalmAgain DEF Calm
  <2>4. k'.nstate = k.nstate /\ k'.nval = k.nval /\ k'.dying = k.dying
    BY <1>1, <1>4 DEF Steady, Members
  <2>5. \A u \in Tasks : Stays(k, k', u) BY <2>4 DEF Stays
  <2> QED BY <2>3, <2>4, <2>5 DEF Gentle
<1>12. c.at # "block" /\ Op(c) = IF d.at = "done" THEN d.op ELSE "no" BY DEF c, Resume, Op
<1>13. ASSUME d.at = "done", WakeInv PROVE Minded(k', Suspends, t, c)
  <2>1. Expects(k, t, d.op) \/ t \in ToSet(k.events[Pending])
    BY <1>1, <1>2, <1>13 DEF WakeInv, Minded
  <2>2. k'.nstate = k.nstate /\ k'.nval = k.nval /\ k'.events = k.events
    BY <1>1, <1>4 DEF Steady, Members, Still
  <2>3. Expects(k', t, d.op) \/ Awake(k', Suspends, t) BY <2>1, <2>2 DEF Expects, Awake
  <2> QED BY <1>12, <1>13, <2>3 DEF Minded
<1>14. Heeds(t, c, {t}, Placed) BY <1>11, <1>12, <1>13 DEF Heeds
<1> QED BY <1>4, <1>10, <1>14, WalksFacts

(* No deadline: the scheduler is suspended and will be resumed.            *)
LEMMA NoNapKeeps ==
    ASSUME TaskInv, NEW t \in Tasks, NEW op, Calls(t, op), k.susp = 0, k' = vTaskSuspendAll(k),
           Moves(t, Resume(Run)), tcbs' = tcbs, load' = load
    PROVE  Keeps
<1> DEFINE c == Resume(Run)
<1>1. t = k.cur /\ t # Idle /\ k.nstate[t] # WAITING /\ ~Owns(pc[t]) BY CallFacts
<1>2. Sound(k, Placed) BY InvFacts
<1>3. /\ Sound(k', Placed) /\ Members(k, k') /\ k'.susp = 1 /\ k'.cur = k.cur
      /\ Gentle(k, k', {}) /\ Punctual(k, k')
  BY <1>2, SuspendNow
<1>4. /\ Spot(c) /\ ~Owns(c) /\ Fits(k', t, c) /\ Off(t, c)
  BY <1>3 DEF Resume, Run, Spot, Owns, Fits, Off
<1>9. c.at # "block" /\ Op(c) = "no" BY DEF Resume, Run, Op
<1> HIDE DEF c
<1>5. Moves(t, c) BY DEF c
<1>6. Serves(k', c, tcbs) BY <1>1, <1>3, <1>4 DEF Serves
<1>7. k'.nstate = k.nstate BY <1>3 DEF Members
<1>8. Walks(t, c) BY <1>1, <1>3, <1>4, <1>5, <1>6, <1>7 DEF Walks
<1>10. Heeds(t, c, {}, Placed) BY <1>3, <1>9 DEF Heeds
<1> QED BY <1>3, <1>8, <1>10, WalksFacts

LEMMA SleepCall ==
    ASSUME TaskInv, NEW t \in Tasks, NEW op, Calls(t, op), k.susp = 0, NEW n \in Ticks,
           k' = prvAddCurrentTaskToDelayedList(vTaskSuspendAll(k), n, FALSE),
           Moves(t, Resume(Run)), tcbs' = tcbs, load' = load
    PROVE  TaskInv' /\ (WakeInv => WakeInv') /\ Sleeps(k, k', t, Plus(k.tick, n)) /\ k'.tick = k.tick
<1> DEFINE x == vTaskSuspendAll(k)
<1>1. t = k.cur /\ t # Idle /\ k.nstate[t] # WAITING /\ ~Owns(pc[t]) /\ t \notin ToSet(k.dying)
  BY CallFacts
<1>2. Sound(k, Placed) BY InvFacts
<1>3. /\ Sound(x, Placed) /\ Members(k, x) /\ x.susp = 1 /\ x.cur = k.cur /\ x.dying = k.dying
      /\ Still(k, x)
  BY <1>2, SuspendNow
<1>4. k' = prvAddCurrentTaskToDelayedList(x, n, FALSE) OBVIOUS
<1> HIDE DEF x
<1>5. Run.at = "run" BY DEF Run
<1>6. Naps(t, x, n, FALSE, Run) BY <1>1, <1>3, <1>4, <1>5 DEF Naps
<1>7. TaskInv' /\ (WakeInv => WakeInv') /\ Sleeps(x, k', t, Plus(x.tick, n)) BY <1>6, NapKeeps
<1>8. Sleeps(k, k', t, Plus(k.tick, n)) /\ k'.tick = k.tick
  <2>1. x.tick = k.tick BY <1>3 DEF Still
  <2>2. Calm(k, x, {t}) BY <1>3, StillIsCalm
  <2>3. Calm(k, k', {t}) BY <1>7, <2>2, CalmAgain DEF Sleeps
  <2> QED BY <1>7, <2>1, <2>3 DEF Sleeps, Calm, Timeless
<1> QED BY <1>7, <1>8

(* The deadline of a task that goes to sleep for n ticks.                  *)
LEMMA SleepEnds ==
    ASSUME TaskInv, TaskInv', Clocked, NEW t \in Tasks, NEW n \in 1 .. MaxDelay,
           Sleeps(k, k', t, Plus(k.tick, n)), Sleep(t, n)
    PROVE  Timely(k', until')
<1>1. k \in Kernels BY InvFacts
<1>2. k' \in Kernels BY GoodIsKernel DEF TaskInv, Sound
<1>3. Falls(k, Plus(k.tick, n), (Now(k) + n) % Cycle) BY <1>1, DelayFalls
<1>4. DOMAIN until = Tasks /\ Timely(k, until) BY DEF Clocked
<1>5. \A u : u # t => until'[u] = until[u] BY <1>4 DEF Sleep
<1>6. t \in Timed(k') => until'[t] = (Now(k) + n) % Cycle BY <1>4 DEF Sleep
<1> QED BY <1>1, <1>2, <1>3, <1>4, <1>5, <1>6, SleepTimely

LEMMA vTaskDelayKeeps ==
    ASSUME TaskInv, Clocked, NEW t \in Tasks, vTaskDelay(t)
    PROVE  Endures
<1>1. Calls(t, "delay") /\ k.susp = 0 /\ tcbs' = tcbs /\ load' = load BY DEF vTaskDelay
<1>2. PICK n \in Delays :
         \/ /\ n > 0 /\ k' = prvAddCurrentTaskToDelayedList(vTaskSuspendAll(k), n, FALSE)
            /\ Goto(t, Resume(Run)) /\ Sleep(t, n)
         \/ k' = vTaskSwitchContext(k) /\ pc' = pc /\ until' = until
  BY DEF vTaskDelay
<1>3. n \in Ticks BY TasksAssumption
<1>4. t = k.cur BY <1>1 DEF Calls
<1>5. CASE /\ n > 0 /\ k' = prvAddCurrentTaskToDelayedList(vTaskSuspendAll(k), n, FALSE)
           /\ Goto(t, Resume(Run)) /\ Sleep(t, n)
  <2>1. Moves(t, Resume(Run)) BY <1>4, <1>5, GotoFacts
  <2>2. TaskInv' /\ (WakeInv => WakeInv') /\ Sleeps(k, k', t, Plus(k.tick, n)) /\ k'.tick = k.tick
    BY <1>1, <1>3, <1>5, <2>1, SleepCall
  <2>3. n \in 1 .. MaxDelay BY <1>3, <1>5, KernelAssumption DEF Ticks
  <2>4. Timely(k', until') BY <1>5, <2>2, <2>3, SleepEnds
  <2> QED BY <2>2, <2>4 DEF Endures, Elapses
<1>6. CASE k' = vTaskSwitchContext(k) /\ pc' = pc /\ until' = until
  <2>1. Keeps BY <1>1, <1>6, InvFacts, SwitchKeeps
  <2> QED BY <1>6, <2>1, KeepsEndures
<1> QED BY <1>2, <1>5, <1>6

(* The previous wake times are absolute times.                             *)
LEMMA LastFacts ==
    ASSUME TaskInv, Clocked, NEW t \in Tasks, NEW last \in {prev[t], Now(k)}
    PROVE  /\ last \in 0 .. Cycle - 1
           /\ \A n \in Int : (last + n) % Cycle \in 0 .. Cycle - 1
<1>1. Cycle \in Nat \ {0} /\ Now(k) \in 0 .. Cycle - 1
  <2>1. k.tick \in 0 .. Wrap - 1 /\ k.ovf \in 0 .. Overflows - 1 /\ Wrap \in Nat \ {0} /\ Cycle \in Nat
    BY InvFacts, Widths
  <2> DEFINE b == k.ovf * Wrap
  <2>2. b \in Nat /\ b + Wrap <= Cycle BY <2>1, TurnFacts
  <2>3. Now(k) = b + k.tick BY DEF Now
  <2> HIDE DEF b
  <2> QED BY <2>1, <2>2, <2>3
<1>2. last \in 0 .. Cycle - 1 BY <1>1 DEF Clocked
<1>3. ASSUME NEW n \in Int PROVE (last + n) % Cycle \in 0 .. Cycle - 1
  <2> DEFINE a == last + n
  <2>1. a \in Int BY <1>1, <1>2
  <2> HIDE DEF a
  <2>2. a % Cycle \in 0 .. Cycle - 1 BY <1>1, <2>1
  <2> QED BY <2>2 DEF a
<1> QED BY <1>2, <1>3

LEMMA xTaskDelayUntilKeeps ==
    ASSUME TaskInv, Clocked, NEW t \in Tasks, xTaskDelayUntil(t)
    PROVE  Endures
<1>1. /\ Calls(t, "delayUntil") /\ k.susp = 0 /\ tcbs' = tcbs /\ load' = load
      /\ Goto(t, Resume(Run))
  BY DEF xTaskDelayUntil
<1>2. PICK n \in Delays \ {0}, last \in {prev[t], Now(k)} :
         /\ Recent(k, last)
         /\ \/ /\ ShouldDelay(k.tick, last % Wrap, Plus(last % Wrap, n))
               /\ k' = prvAddCurrentTaskToDelayedList(
                           vTaskSuspendAll(k), Minus(Plus(last % Wrap, n), k.tick), FALSE)
               /\ until' = [until EXCEPT ![t] = (last + n) % Cycle]
            \/ k' = vTaskSuspendAll(k) /\ until' = until
  <2>1. (vTaskSuspendAll(k)).tick = k.tick BY DEF vTaskSuspendAll
  <2> QED BY <2>1 DEF xTaskDelayUntil, Recent
<1>3. Moves(t, Resume(Run)) BY <1>1, GotoFacts DEF Calls
<1>4. k \in Kernels BY InvFacts
<1> DEFINE wake == Plus(last % Wrap, n)
           w == Minus(wake, k.tick)
           a == (last + n) % Cycle
<1>5. CASE /\ ShouldDelay(k.tick, last % Wrap, wake)
           /\ k' = prvAddCurrentTaskToDelayedList(vTaskSuspendAll(k), w, FALSE)
           /\ until' = [until EXCEPT ![t] = a]
  <2>1. last \in 0 .. Cycle - 1 BY LastFacts
  <2>2. n \in 1 .. MaxDelay BY TasksAssumption, KernelAssumption DEF Ticks
  <2>3. w \in Ticks /\ Plus(k.tick, w) = wake /\ Falls(k, wake, a)
    BY <1>2, <1>4, <1>5, <2>1, <2>2, UntilFalls
  <2> HIDE DEF w, wake, a
  <2>4. TaskInv' /\ (WakeInv => WakeInv') /\ Sleeps(k, k', t, wake) /\ k'.tick = k.tick
    BY <1>1, <1>3, <1>5, <2>3, SleepCall
  <2>5. k' \in Kernels BY <2>4, GoodIsKernel DEF TaskInv, Sound
  <2>6. Timely(k', until')
    <3>1. DOMAIN until = Tasks /\ Timely(k, until) BY DEF Clocked
    <3>2. until'[t] = a /\ \A u : u # t => until'[u] = until[u] BY <1>5, <3>1
    <3> QED BY <1>4, <2>3, <2>4, <2>5, <3>1, <3>2, SleepTimely
  <2> QED BY <2>4, <2>6 DEF Endures, Elapses
<1>6. CASE k' = vTaskSuspendAll(k) /\ until' = until
  <2>1. Keeps BY <1>1, <1>3, <1>6, NoNapKeeps
  <2> QED BY <1>6, <2>1, KeepsEndures
<1> QED BY <1>2, <1>5, <1>6

-----------------------------------------------------------------------------
(* What eTaskGetState says of a task's lists.                              *)

LEMMA BlockedFacts ==
    ASSUME NEW x, NEW P, Good(x, P), NEW t \in Tasks, eTaskGetState(x, t) = "blocked"
    PROVE  t \in P \ ToSet(x.dying)
<1>1. \/ Contains(x.delayed, t) \/ Contains(x.overflow, t)
      \/ Contains(x.sleeping, t)
  BY DEF eTaskGetState
<1> QED BY <1>1, WhereFacts

LEMMA HandleFacts ==
    ASSUME TaskInv, NEW x \in Handles
    PROVE  x \in Placed \ ToSet(k.dying) /\ x \in Tasks
<1>1. x \in tcbs /\ x \notin ToSet(k.dying) /\ eTaskGetState(k, x) # "deleted" BY DEF Handles
<1>2. x \in Tasks BY <1>1, InvFacts DEF Blocks
<1>3. \/ x = k.cur \/ Contains(k.events[Pending], x)
      \/ Contains(k.delayed, x) \/ Contains(k.overflow, x) \/ Contains(k.sleeping, x)
      \/ \E p \in Priorities : InReady(k, x, p)
  BY <1>1 DEF eTaskGetState
<1>4. Good(k, Placed) /\ k.cur \in Placed BY InvFacts
<1>5. x \in Placed BY <1>2, <1>3, <1>4, WhereFacts
<1> QED BY <1>1, <1>2, <1>5

LEMMA SuspendedFacts ==
    ASSUME TaskInv, NEW x \in tcbs, prvTaskIsTaskSuspended(k, x)
    PROVE  /\ x \in Placed \ ToSet(k.dying) /\ x \in Tasks
           /\ x \notin ToSet(k.events[Pending]) /\ k.nstate[x] # WAITING
<1>1. x \in Tasks BY InvFacts DEF Blocks
<1>2. Good(k, Placed) /\ k \in Kernels BY InvFacts
<1>3. DOMAIN k.events = EventLists \cup {Pending} BY <1>2, PendingFields
<1>4. Contains(k.sleeping, x) /\ ~Contains(k.events[Pending], x) /\ k.nstate[x] # WAITING
  BY <1>3 DEF prvTaskIsTaskSuspended, InEventList
<1> QED BY <1>1, <1>2, <1>4, WhereFacts

-----------------------------------------------------------------------------
(* xTaskAbortDelay and xTaskCatchUpTicks.                                  *)

(* A task is taken off its lists, told that its delay was cut short, and   *)
(* made ready.                                                             *)
Aborts(x, P, t, b, y) ==
    /\ Good(x, P) /\ t \in P \ ToSet(x.dying) /\ b \in BOOLEAN
    /\ y = prvAddTaskToReadyList(
               [RemoveEvent(RemoveState(x, t), t) EXCEPT !.aborted[t] = b], t)

Aborted(x, P, t, y) ==
    /\ Good(y, P) /\ Members(x, y) /\ Readied(y) = Readied(x) \cup {t}
    /\ y.cur = x.cur /\ y.susp = x.susp /\ y.yield = x.yield /\ y.dying = x.dying
    /\ ToSet(y.events[Pending]) = ToSet(x.events[Pending]) \ {t}
    /\ Calm(x, y, {t}) /\ t \notin Timed(y)

LEMMA AbortFacts ==
    ASSUME NEW x, NEW P, NEW t, NEW b, NEW y, Aborts(x, P, t, b, y)
    PROVE  Aborted(x, P, t, y)
<1> DEFINE z == RemoveEvent(RemoveState(x, t), t)
           a == [z EXCEPT !.aborted[t] = b]
<1>1. Good(x, P) /\ t \in P /\ t \notin ToSet(x.dying) /\ b \in BOOLEAN
      /\ y = prvAddTaskToReadyList(a, t)
  BY DEF Aborts
<1>2. /\ Orderly(z, P \ {t}) /\ Evented(z, P \ {t}) /\ Same(x, z) /\ t \in Tasks
      /\ Readied(z) = Readied(x) \ {t} /\ z.dying = x.dying
      /\ ToSet(z.events[Pending]) = ToSet(x.events[Pending]) \ {t}
      /\ Calm(x, z, {t}) /\ t \notin Timed(z)
  BY <1>1, OffFacts
<1> HIDE DEF z
<1>3. z \in Kernels BY <1>2 DEF Orderly
<1>4. a \in Kernels BY <1>1, <1>2, <1>3 DEF Kernels
<1>5. Shelved(z, a) BY <1>3 DEF Kernels, Shelved
<1>6. /\ a.cur = z.cur /\ a.susp = z.susp /\ a.yield = z.yield /\ a.num = z.num
      /\ a.cleanup = z.cleanup /\ a.base = z.base /\ a.nstate = z.nstate /\ a.nval = z.nval
      /\ a.tick = z.tick /\ a.ovf = z.ovf
  BY <1>3 DEF Kernels
<1> HIDE DEF a
<1>7. Orderly(a, P \ {t}) /\ Evented(a, P \ {t}) /\ Readied(a) = Readied(z)
  BY <1>2, <1>4, <1>5, ShelvedFacts
<1>8. /\ Orderly(y, (P \ {t}) \cup {t}) /\ Same(a, y) /\ Readied(y) = Readied(a) \cup {t}
      /\ y.events = a.events /\ y.dying = a.dying /\ y.delayed = a.delayed
      /\ y.overflow = a.overflow /\ y.sleeping = a.sleeping /\ y.wake = a.wake
  BY <1>1, <1>2, <1>7, AddFacts
<1>9. (P \ {t}) \cup {t} = P BY <1>1
<1>10. Evented(y, P) BY <1>7, <1>8 DEF Evented
<1>11. Members(x, y)
  BY <1>2, <1>5, <1>6, <1>8 DEF Same, Alike, Members, Shelved
<1>12. Calm(x, y, {t}) /\ t \notin Timed(y)
  <2>1. /\ y.tick = z.tick /\ y.ovf = z.ovf /\ y.delayed = z.delayed /\ y.overflow = z.overflow
        /\ y.sleeping = z.sleeping /\ y.wake = z.wake /\ y.events = z.events
        /\ Readied(z) \subseteq Readied(y)
    BY <1>5, <1>6, <1>7, <1>8 DEF Same, Shelved
  <2>2. Calm(z, y, {t}) BY <2>1 DEF Calm, Kept, Timeless, Timed
  <2>3. t \notin Timed(y) BY <1>2, <2>1 DEF Timed
  <2> QED BY <1>2, <2>2, <2>3, CalmAgain
<1> QED
  BY <1>2, <1>5, <1>6, <1>7, <1>8, <1>9, <1>10, <1>11, <1>12
     DEF Aborted, Good, Same, Alike, Shelved

(* The current task, in its own code, is about to call xTaskResumeAll.     *)
Leaves(t, op) ==
    /\ Calls(t, op) /\ Moves(t, [at |-> "resumeOnly", then |-> Run])
    /\ tcbs' = tcbs /\ load' = load
    /\ Sound(k', Placed) /\ k'.cur = t /\ k'.susp # 0 /\ k'.nstate = k.nstate
    /\ CurReady(k') /\ (NoHigher(k') \/ k'.yield)

LEMMA LeaveKeeps ==
    ASSUME TaskInv, NEW t \in Tasks, NEW op, Leaves(t, op),
           NEW T, Gentle(k, k', T), Punctual(k, k'), T \subseteq Readied(k')
    PROVE  Keeps
<1> DEFINE c == [at |-> "resumeOnly", then |-> Run]
<1>1. /\ t = k.cur /\ t # Idle /\ k.nstate[t] # WAITING /\ ~Owns(pc[t])
  BY CallFacts DEF Leaves
<1>2. k'.susp # 0 BY DEF Leaves
<1>3. Spot(c) /\ ~Owns(c) /\ Fits(k', t, c) BY <1>2 DEF Run, Spot, Owns, Fits
<1>4. Moves(t, c) BY DEF Leaves
<1>5. c.at # "block" /\ Op(c) = "no" BY DEF Op
<1> HIDE DEF c
<1>6. Serves(k', c, tcbs) BY DEF Leaves, Serves
<1>7. Walks(t, c) BY <1>1, <1>3, <1>4, <1>6 DEF Walks, Leaves
<1>8. Heeds(t, c, T, Placed) BY <1>5 DEF Heeds, Awake
<1> QED BY <1>7, <1>8, WalksFacts

(* A task is made ready, and the yield for it is pending.                  *)
LEMMA FlagNow ==
    ASSUME NEW x, NEW P, Sound(x, P), NEW h \in BOOLEAN
    PROVE  LET y == [x EXCEPT !.yield = @ \/ h]
           IN  /\ Sound(y, P) /\ Switched(x, y) /\ y.cur = x.cur
               /\ y.yield = (x.yield \/ h)
<1>1. Good(x, P) BY DEF Sound
<1>2. x \in Kernels BY <1>1, GoodIsLoose
<1> DEFINE b == x.yield \/ h
           y == [x EXCEPT !.yield = b]
<1>3. y = [x EXCEPT !.yield = @ \/ h] BY <1>2 DEF Kernels
<1>4. b \in BOOLEAN BY <1>2, KernelFields
<1> HIDE DEF b
<1>5. Good(y, P) /\ Alike(x, y) /\ Switched(x, y) /\ y.yield = b BY <1>1, <1>4, FlagFacts
<1> HIDE DEF y
<1>6. Sound(y, P) BY <1>5, SoundSwitched DEF Alike
<1> QED BY <1>3, <1>5, <1>6 DEF Alike, b

LEMMA xTaskAbortDelayKeeps ==
    ASSUME TaskInv, NEW t \in Tasks, xTaskAbortDelay(t)
    PROVE  Keeps
<1> DEFINE k1 == vTaskSuspendAll(k)
           A(x) == prvAddTaskToReadyList(
                       [RemoveEvent(RemoveState(k1, x), x)
                          EXCEPT !.aborted[x] = @ \/ InEventList(k1, x)], x)
<1>1. /\ Calls(t, "abort") /\ tcbs' = tcbs /\ load' = load
      /\ Goto(t, [at |-> "resumeOnly", then |-> Run])
  BY DEF xTaskAbortDelay
<1>2. PICK x \in tcbs \ {t, Idle} :
         k' = IF eTaskGetState(k1, x) = "blocked"
              THEN [A(x) EXCEPT !.yield = @ \/ A(x).prio[x] > A(x).prio[t]]
              ELSE k1
  BY DEF xTaskAbortDelay
<1>3. t = k.cur /\ CurReady(k) /\ (NoHigher(k) \/ (k.susp # 0 /\ k.yield)) BY <1>1, CallFacts
<1>4. Sound(k, Placed) /\ x \in Tasks BY InvFacts DEF Blocks
<1>5. /\ Sound(k1, Placed) /\ Members(k, k1) /\ Readied(k1) = Readied(k) /\ k1.susp = k.susp + 1
      /\ k1.cur = k.cur /\ k1.yield = k.yield /\ k1.events = k.events /\ k1.dying = k.dying
      /\ Still(k, k1) /\ Gentle(k, k1, {}) /\ Punctual(k, k1)
  BY <1>4, SuspendNow
<1>6. Moves(t, [at |-> "resumeOnly", then |-> Run]) BY <1>1, <1>3, GotoFacts
<1>7. k1.susp # 0 BY <1>5, InvFacts
<1>8. CurReady(k1) /\ (NoHigher(k1) \/ k1.yield)
  BY <1>3, <1>5 DEF CurReady, NoHigher, Members
<1>9. CASE eTaskGetState(k1, x) # "blocked"
  <2>1. k' = k1 BY <1>2, <1>9
  <2> HIDE DEF k1
  <2> QED BY <1>1, <1>3, <1>5, <1>6, <1>7, <1>8, <2>1, LeaveKeeps DEF Leaves, Members
<1>10. CASE eTaskGetState(k1, x) = "blocked"
  <2> DEFINE z == RemoveEvent(RemoveState(k1, x), x)
             b == z.aborted[x] \/ InEventList(k1, x)
             y == A(x)
             h == y.prio[x] > y.prio[t]
  <2>1. k' = [y EXCEPT !.yield = @ \/ h] BY <1>2, <1>10
  <2> HIDE DEF k1
  <2>2. Good(k1, Placed) BY <1>5 DEF Sound
  <2>3. x \in Placed \ ToSet(k1.dying) BY <1>4, <1>10, <2>2, BlockedFacts
  <2>4. z \in Kernels BY <2>2, <2>3, OffFacts DEF Orderly
  <2> HIDE DEF z
  <2>5. b \in BOOLEAN BY <1>4, <2>4, KernelFields DEF InEventList
  <2>6. y = prvAddTaskToReadyList([z EXCEPT !.aborted[x] = b], x)
    BY <1>4, <2>4 DEF z, Kernels
  <2> HIDE DEF b, y
  <2>7. Aborts(k1, Placed, x, b, y) BY <2>2, <2>3, <2>5, <2>6 DEF Aborts, z
  <2>8. /\ Good(y, Placed) /\ Members(k1, y) /\ Readied(y) = Readied(k1) \cup {x}
        /\ y.cur = k1.cur /\ y.susp = k1.susp /\ y.yield = k1.yield /\ y.dying = k1.dying
        /\ ToSet(y.events[Pending]) = ToSet(k1.events[Pending]) \ {x}
        /\ Calm(k1, y, {x}) /\ x \notin Timed(y)
    BY <2>7, AbortFacts DEF Aborted
  <2>9. Sound(y, Placed) BY <1>5, <1>7, <2>8 DEF Sound, Members, IdleReady
  <2>10. h \in BOOLEAN OBVIOUS
  <2>11. y.prio \in [Tasks -> Priorities] BY <2>8, GoodIsLoose, KernelFields
  <2>12. ~h => y.prio[x] <= y.prio[t]
    <3>1. y.prio[x] \in Int /\ y.prio[t] \in Int
      BY <1>4, <2>11, KernelAssumption DEF Priorities
    <3> QED BY <3>1
  <2> HIDE DEF h
  <2>13. Sound(k', Placed) /\ Switched(y, k') /\ k'.cur = y.cur /\ k'.yield = (y.yield \/ h)
    BY <2>1, <2>9, <2>10, FlagNow
  <2>14. CurReady(k') BY <1>8, <2>8, <2>13 DEF CurReady, Switched
  <2>15. NoHigher(k') \/ k'.yield
    BY <1>3, <1>5, <1>8, <2>8, <2>12, <2>13 DEF NoHigher, Switched, Members
  <2>16. /\ k'.susp # 0 /\ k'.nstate = k.nstate /\ k'.nval = k.nval /\ k'.cur = t
         /\ k'.dying = k.dying
    BY <1>3, <1>5, <1>7, <2>8, <2>13 DEF Switched, Members
  <2>17. Gentle(k, k', {x}) /\ Punctual(k, k')
    <3>1. Still(y, k') BY <2>13, SwitchedIsStill
    <3>2. Calm(k, k1, {x}) /\ Calm(y, k', {x}) BY <1>5, <3>1, StillIsCalm
    <3>3. Calm(k, k', {x}) BY <2>8, <3>2, CalmAgain
    <3>4. Timed(k') \cap {x} = {} BY <2>8, <3>1 DEF Still, Timed
    <3>5. \A u \in Tasks : Stays(k, k', u) BY <2>16 DEF Stays
    <3>6. k \in Kernels /\ k' \in Kernels BY <1>4, <2>13, GoodIsKernel DEF Sound
    <3> QED BY <2>16, <3>3, <3>4, <3>5, <3>6, CalmIsGentle
  <2>18. {x} \subseteq Readied(k') BY <2>8, <2>13 DEF Switched
  <2> QED BY <1>1, <1>6, <2>13, <2>14, <2>15, <2>16, <2>17, <2>18, LeaveKeeps DEF Leaves
<1> QED BY <1>9, <1>10

LEMMA xTaskCatchUpTicksKeeps ==
    ASSUME TaskInv, NEW t \in Tasks, xTaskCatchUpTicks(t)
    PROVE  Keeps
<1> DEFINE x == vTaskSuspendAll(k)
<1>1. /\ Calls(t, "catchUp") /\ tcbs' = tcbs /\ load' = load /\ k.susp = 0
      /\ Goto(t, [at |-> "resumeOnly", then |-> Run])
  BY DEF xTaskCatchUpTicks
<1>2. PICK n \in Delays : k' = [x EXCEPT !.pended = @ + n] BY DEF xTaskCatchUpTicks
<1>3. t = k.cur /\ CurReady(k) /\ NoHigher(k) BY <1>1, CallFacts
<1>4. Sound(k, Placed) BY InvFacts
<1>5. /\ Sound(x, Placed) /\ Members(k, x) /\ Readied(x) = Readied(k) /\ x.susp = 1
      /\ x.cur = k.cur /\ x.dying = k.dying /\ Still(k, x)
  BY <1>1, <1>4, SuspendNow
<1>6. Moves(t, [at |-> "resumeOnly", then |-> Run]) BY <1>1, <1>3, GotoFacts
<1> HIDE DEF x
<1>7. Good(x, Placed) BY <1>5 DEF Sound
<1>8. x \in Kernels /\ x.pended \in Nat BY <1>7, GoodIsLoose, KernelFields
<1>9. k' \in Kernels /\ Shelved(x, k') /\ Alike(x, k') /\ k'.tick = x.tick /\ k'.ovf = x.ovf
  <2> DEFINE m == x.pended + n
  <2>1. n \in Nat BY TasksAssumption DEF Ticks
  <2>2. m \in Nat BY <1>8, <2>1
  <2>3. k' = [x EXCEPT !.pended = m] BY <1>2, <1>8 DEF Kernels
  <2> HIDE DEF m
  <2>4. k' \in Kernels BY <1>8, <2>2, <2>3, PendedFacts
  <2>5. k'.tick = x.tick /\ k'.ovf = x.ovf BY <1>8, <2>3 DEF Kernels
  <2>6. Alike(x, k') BY <1>8, <2>3 DEF Kernels, Alike
  <2>7. Shelved(x, k') BY <1>8, <2>3 DEF Kernels, Shelved
  <2> QED BY <2>4, <2>5, <2>6, <2>7
<1>10. Good(k', Placed) /\ Readied(k') = Readied(x) BY <1>7, <1>9, ShelvedFacts
<1>11. Sound(k', Placed) BY <1>5, <1>9, <1>10 DEF Sound, IdleReady, Alike, Shelved
<1>12. CurReady(k') /\ NoHigher(k')
  BY <1>3, <1>5, <1>9, <1>10 DEF CurReady, NoHigher, Alike, Members
<1>13. Gentle(k, k', {}) /\ Punctual(k, k')
  <2>1. Still(k, k') BY <1>5, <1>9, <1>10 DEF Still, Shelved
  <2>2. Members(k, k') /\ k'.dying = k.dying BY <1>5, <1>9 DEF Members, Alike, Shelved
  <2>3. k \in Kernels BY InvFacts
  <2> QED BY <1>9, <2>1, <2>2, <2>3, StillIsGentle
<1> QED
  BY <1>1, <1>3, <1>5, <1>6, <1>9, <1>11, <1>12, <1>13, LeaveKeeps DEF Leaves, Alike, Members

-----------------------------------------------------------------------------
(* Suspending and resuming tasks.                                          *)

LEMMA vTaskSuspendKeeps ==
    ASSUME TaskInv, NEW t \in Tasks, vTaskSuspend(t)
    PROVE  Keeps
<1>1. Calls(t, "suspend") /\ tcbs' = tcbs /\ load' = load BY DEF vTaskSuspend
<1>2. PICK x \in Handles \ {Idle} :
         /\ x = t => k.susp = 0
         /\ k' = [RemoveEvent(RemoveState(k, x), x)
                    EXCEPT !.sleeping = Append(@, x),
                           !.nstate[x] = IF @ = WAITING THEN NOT_WAITING ELSE @]
         /\ Goto(t, [at |-> "suspend", task |-> x])
  BY DEF vTaskSuspend
<1>3. x \in Placed \ ToSet(k.dying) /\ x \in Tasks /\ x # Idle BY HandleFacts
<1>4. /\ t = k.cur /\ t # Idle /\ k.nstate[t] # WAITING /\ ~Owns(pc[t])
      /\ CurReady(k) /\ (NoHigher(k) \/ (k.susp # 0 /\ k.yield))
  BY <1>1, CallFacts
<1>5. Good(k, Placed) /\ Sound(k, Placed) BY InvFacts
<1> DEFINE a == RemoveEvent(RemoveState(k, x), x)
           s == Append(a.sleeping, x)
           n == IF a.nstate[x] = WAITING THEN NOT_WAITING ELSE a.nstate[x]
           c == [at |-> "suspend", task |-> x]
<1>6. Moves(t, c) BY <1>2, <1>4, GotoFacts
<1>7. k' = [a EXCEPT !.sleeping = s, !.nstate[x] = n] BY <1>2
<1>8. a \in Kernels /\ Same(k, a) /\ a.dying = k.dying BY <1>3, <1>5, OffFacts DEF Orderly
<1> HIDE DEF a
<1>9. s \in Seq(Tasks) /\ n \in 0 .. 2 /\ n # WAITING
  BY <1>3, <1>8, KernelFields DEF NOT_WAITING, WAITING
<1>10. /\ k' \in Kernels /\ k'.events = a.events
       /\ k'.prio = a.prio /\ k'.wake = a.wake /\ k'.next = a.next /\ k'.top = a.top
       /\ k'.ready = a.ready /\ k'.delayed = a.delayed /\ k'.overflow = a.overflow
       /\ k'.sleeping = s /\ k'.dying = a.dying
       /\ k'.cur = a.cur /\ k'.susp = a.susp /\ k'.yield = a.yield /\ k'.num = a.num
       /\ k'.cleanup = a.cleanup /\ k'.base = a.base
       /\ k'.nstate = [a.nstate EXCEPT ![x] = n]
       /\ k'.tick = a.tick /\ k'.ovf = a.ovf /\ k'.nval = a.nval
  <2> HIDE DEF s, n
  <2>1. k' \in Kernels BY <1>3, <1>7, <1>8, <1>9 DEF Kernels
  <2>2. /\ k'.prio = a.prio /\ k'.wake = a.wake /\ k'.next = a.next /\ k'.top = a.top
        /\ k'.ready = a.ready /\ k'.delayed = a.delayed /\ k'.overflow = a.overflow
        /\ k'.sleeping = s /\ k'.dying = a.dying /\ k'.events = a.events
    BY <1>7, <1>8 DEF Kernels
  <2>3. /\ k'.cur = a.cur /\ k'.susp = a.susp /\ k'.yield = a.yield /\ k'.num = a.num
        /\ k'.cleanup = a.cleanup /\ k'.base = a.base
        /\ k'.nstate = [a.nstate EXCEPT ![x] = n]
        /\ k'.tick = a.tick /\ k'.ovf = a.ovf /\ k'.nval = a.nval
    BY <1>7, <1>8 DEF Kernels
  <2> QED BY <2>1, <2>2, <2>3
<1>11. Shuts(k, Placed, x, a, k') BY <1>3, <1>5, <1>10 DEF Shuts, a
<1>12. /\ Good(k', Placed) /\ Readied(k') = Readied(k) \ {x}
       /\ ToSet(k'.events[Pending]) = ToSet(k.events[Pending]) \ {x}
       /\ Calm(k, k', {x}) /\ x \notin Timed(k')
  <2>1. Shut(k, Placed, x, k') BY <1>11, ShutFacts
  <2> QED BY <2>1 DEF Shut
<1>13. k'.dying = k.dying BY <1>8, <1>10
<1>14. /\ k'.cur = k.cur /\ k'.susp = k.susp /\ k'.yield = k.yield /\ k'.num = k.num
       /\ k'.cleanup = k.cleanup /\ k'.base = k.base /\ k'.prio = k.prio
       /\ k'.nstate = [k.nstate EXCEPT ![x] = n] /\ k'.nval = k.nval
  BY <1>8, <1>10 DEF Same, Alike
<1>22. x \in ToSet(k'.sleeping)
  <2>1. Apart(Readied(k'), ToSet(k'.delayed), ToSet(k'.overflow), ToSet(k'.sleeping),
              ToSet(k'.dying), Placed)
    BY <1>12 DEF Good, Orderly, Seated
  <2> QED BY <1>3, <1>12, <1>13, <2>1 DEF Apart, Timed
<1> HIDE DEF s, n
<1>15. ASSUME NEW u \in Tasks, k'.nstate[u] = WAITING PROVE k.nstate[u] = WAITING
  BY <1>9, <1>14, <1>15, InvFacts, KernelFields
<1>16. k.susp = 0 => k'.events[Pending] = <<>>
  <2>1. k'.events[Pending] \in Seq(Tasks) BY <1>10, PendingFields
  <2>2. k.susp = 0 => ToSet(k.events[Pending]) = {}
    BY <1>5, InvFacts, PendingFields, SetOf DEF Sound
  <2> QED BY <1>12, <2>1, <2>2, SetOf
<1>17. Sound(k', Placed)
  <2>1. ToSet(k'.events[Pending]) \subseteq Tasks BY <1>10, PendingFields
  <2> QED BY <1>3, <1>5, <1>12, <1>13, <1>14, <1>15, <1>16, <2>1 DEF Sound, IdleReady
<1>18. Spot(c) /\ ~Owns(c) /\ Fits(k', t, c) /\ (x = t => Off(t, c))
  BY <1>2, <1>3, <1>14 DEF Spot, Owns, Fits, Off
<1>23. c.at # "block" /\ Op(c) = "no" BY DEF Op
<1> HIDE DEF c
<1>19. Serves(k', c, tcbs)
  <2>1. CASE x = t BY <1>4, <1>14, <1>18, <2>1 DEF Serves
  <2>2. CASE x # t
    <3>1. CurReady(k') BY <1>4, <1>12, <1>14, <2>2 DEF CurReady
    <3>2. NoHigher(k) => NoHigher(k') BY <1>12, <1>14 DEF NoHigher
    <3> QED BY <1>4, <1>14, <3>1, <3>2 DEF Serves
  <2> QED BY <2>1, <2>2
<1>20. k'.nstate[t] # WAITING BY <1>4, <1>15, InvFacts
<1>21. Walks(t, c) BY <1>1, <1>4, <1>6, <1>14, <1>15, <1>17, <1>18, <1>19, <1>20 DEF Walks
<1>24. Gentle(k, k', {x}) /\ Punctual(k, k')
  <2>1. \A u \in Tasks \ {x} : Stays(k, k', u) BY <1>14, InvFacts, KernelFields DEF Stays
  <2>2. k \in Kernels /\ k' \in Kernels BY <1>10, InvFacts
  <2>3. Timed(k') \cap {x} = {} BY <1>12
  <2> QED BY <1>12, <1>13, <2>1, <2>2, <2>3, CalmIsGentle
<1>25. Awake(k', Suspends, x) BY <1>1, <1>22 DEF Awake, Suspends, Calls
<1>26. Heeds(t, c, {x}, Placed) BY <1>23, <1>24, <1>25 DEF Heeds
<1> QED BY <1>21, <1>24, <1>26, WalksFacts

LEMMA SuspendResetKeeps ==
    ASSUME TaskInv, NEW t \in Tasks, SuspendReset(t)
    PROVE  Keeps
<1> DEFINE c == IF pc[t].task = t THEN Yield(Run) ELSE Run
<1>1. /\ t = k.cur /\ pc[t].at = "suspend" /\ tcbs' = tcbs /\ load' = load
      /\ k' = prvResetNextTaskUnblockTime(k) /\ Moves(t, c)
  BY GotoFacts DEF SuspendReset, At
<1>2. Places /\ Fits(k, t, pc[t]) /\ Sound(k, Placed) /\ Good(k, Placed) /\ Serves(k, pc[t], tcbs)
  BY <1>1, InvFacts
<1>3. t # Idle /\ k.nstate[t] # WAITING BY <1>1, <1>2 DEF Places, InWait
<1>4. /\ Good(k', Placed) /\ Same(k, k') /\ Readied(k') = Readied(k) /\ k'.dying = k.dying
      /\ k'.events = k.events /\ k'.delayed = k.delayed /\ k'.overflow = k.overflow
      /\ k'.sleeping = k.sleeping /\ k'.wake = k.wake
  BY <1>1, <1>2, GoodIsLoose, ResetFacts
<1>5. Sound(k', Placed) BY <1>2, <1>4 DEF Sound, Same, Alike, IdleReady
<1>6. Spot(c) /\ ~Owns(c) /\ ~Owns(pc[t]) /\ Fits(k', t, c) /\ (pc[t].task = t => Off(t, c))
  BY <1>1, <1>2, <1>4 DEF Spot, Owns, Fits, Off, Yield, Run, Same, Alike
<1>9. c.at # "block" /\ Op(c) = "no" BY DEF Op, Yield, Run
<1> HIDE DEF c
<1>7. Serves(k', c, tcbs)
  <2>1. CASE pc[t].task = t BY <1>1, <1>4, <1>6, <2>1 DEF Serves, Same, Alike
  <2>2. CASE pc[t].task # t
    <3>1. CurReady(k) /\ (NoHigher(k) \/ (k.susp # 0 /\ k.yield)) BY <1>1, <1>2, <2>2 DEF Serves, Off
    <3> QED BY <1>4, <3>1 DEF Serves, CurReady, NoHigher, Same, Alike
  <2> QED BY <2>1, <2>2
<1>8. Walks(t, c) BY <1>1, <1>3, <1>4, <1>5, <1>6, <1>7 DEF Walks, Same, Alike
<1>10. Gentle(k, k', {}) /\ Punctual(k, k')
  <2>1. Still(k, k') /\ Members(k, k') BY <1>4 DEF Still, Same, Alike, Members
  <2>2. k \in Kernels /\ k' \in Kernels BY <1>2, <1>4, GoodIsKernel
  <2> QED BY <1>4, <2>1, <2>2, StillIsGentle
<1>11. Heeds(t, c, {}, Placed) BY <1>9, <1>10 DEF Heeds
<1> QED BY <1>8, <1>10, <1>11, WalksFacts

-----------------------------------------------------------------------------
(* A task or an interrupt makes a task ready.                              *)

(* y is the kernel before the switch, if there is one.                     *)
Roused(y) ==
    /\ Sound(y, Placed) /\ y.cur = k.cur /\ y.susp = k.susp /\ y.prio = k.prio
    /\ k.yield => y.yield
    /\ Readied(k) \subseteq Readied(y)
    /\ \A u \in Tasks : y.nstate[u] = WAITING => k.nstate[u] = WAITING
    /\ pc[k.cur].at = "check" => k.cur \notin ToSet(y.events[Pending])
    /\ pc' = pc /\ tcbs' = tcbs /\ load' = load

(* And does to the waiting and the sleeping but to T.                      *)
Mild(y, T) == Rests(y, T) /\ Punctual(k, y)

LEMMA MildOn ==
    ASSUME TaskInv, NEW y, NEW z, NEW T, Mild(y, T), Switched(y, z), Sound(y, Placed), Sound(z, Placed)
    PROVE  Mild(z, T)
<1>1. /\ Gentle(k, y, T) /\ Punctual(k, y)
      /\ \A u \in T \cap Placed : Awake(y, Suspends, u)
      /\ pc[k.cur].at = "block" /\ (k.cur \in ToSet(k.events[Pending]) \/ k.cur \in T) =>
           k.cur \in ToSet(y.events[Pending])
  BY DEF Mild, Rests
<1>2. Gentle(k, z, T) BY <1>1, GentleOn
<1>3. Still(y, z) BY SwitchedIsStill
<1>4. z.events = y.events /\ Readied(z) = Readied(y) /\ z.sleeping = y.sleeping BY <1>3 DEF Still
<1>5. Punctual(k, z)
  <2>1. k \in Kernels /\ y \in Kernels /\ z \in Kernels BY InvFacts, GoodIsKernel DEF Sound
  <2> QED BY <1>1, <2>1, PunctualOn
<1>6. \A u \in T \cap Placed : Awake(z, Suspends, u) BY <1>1, <1>4 DEF Awake
<1> QED BY <1>1, <1>2, <1>4, <1>5, <1>6 DEF Mild, Rests

LEMMA MildFacts ==
    ASSUME TaskInv, NEW y, Sound(y, Placed), Calm(k, y, {}), y.dying = k.dying, y.events = k.events,
           \A t \in Tasks : Stays(k, y, t)
    PROVE  Mild(y, {})
<1>1. k \in Kernels /\ y \in Kernels BY InvFacts, GoodIsKernel DEF Sound
<1>2. Gentle(k, y, {}) /\ Punctual(k, y) BY <1>1, CalmIsGentle
<1> QED BY <1>2 DEF Mild, Rests

LEMMA MildKeeps ==
    ASSUME TaskInv, Passes, NEW T, Mild(k', T)
    PROVE  Keeps
BY PassesFacts DEF Mild

Outranks(y) == \E u \in Readied(y) \ Readied(k) : k.prio[u] > k.prio[k.cur]

LEMMA RousedKeeps ==
    ASSUME TaskInv, NEW y, Roused(y), NEW T, Mild(y, T),
           k' = vTaskSwitchContext(y) \/ (k' = y /\ ~Outranks(y))
    PROVE  Keeps
<1>1. /\ Sound(y, Placed) /\ y.cur = k.cur /\ y.susp = k.susp /\ y.prio = k.prio
      /\ k.yield => y.yield
      /\ Readied(k) \subseteq Readied(y)
      /\ \A u \in Tasks : y.nstate[u] = WAITING => k.nstate[u] = WAITING
      /\ pc[k.cur].at = "check" => k.cur \notin ToSet(y.events[Pending])
      /\ pc' = pc /\ tcbs' = tcbs /\ load' = load
  BY DEF Roused
<1>2. Serves(k, pc[k.cur], tcbs) BY InvFacts
<1>3. CASE k' = y /\ ~Outranks(y)
  <2>1. ASSUME NEW u \in Readied(y) \ Readied(k) PROVE k.prio[u] <= k.prio[k.cur]
    <3>1. u \in Tasks /\ k.cur \in Tasks /\ k.prio \in [Tasks -> Priorities]
      BY InvFacts DEF Readied
    <3>2. k.prio[u] \in Int /\ k.prio[k.cur] \in Int BY <3>1 DEF Priorities
    <3>3. ~(k.prio[u] > k.prio[k.cur]) BY <1>3 DEF Outranks
    <3> QED BY <3>2, <3>3
  <2>2. Serves(k', pc[k.cur], tcbs) BY <1>1, <1>2, <1>3, <2>1, ServesOn
  <2>3. Passes BY <1>1, <1>3, <2>2 DEF Passes
  <2>4. Mild(k', T) BY <1>3
  <2> QED BY <2>3, <2>4, MildKeeps
<1>4. CASE k' = vTaskSwitchContext(y)
  <2>1. /\ Sound(k', Placed) /\ Switched(y, k')
        /\ y.susp = 0 => CurReady(k') /\ NoHigher(k')
        /\ y.susp # 0 => k'.cur = y.cur /\ k'.yield
    BY <1>1, <1>4, SwitchNow
  <2>2. k'.cur = k.cur => Serves(k', pc[k.cur], tcbs)
    <3>1. CASE k.susp = 0 BY <1>1, <2>1, <3>1 DEF Serves
    <3>2. CASE k.susp # 0
      <4>1. k'.prio = k.prio /\ k'.susp = k.susp /\ Readied(k) \subseteq Readied(k')
        BY <1>1, <2>1 DEF Switched, Members
      <4> QED BY <1>1, <1>2, <2>1, <3>2, <4>1, ServesOn
    <3> QED BY <3>1, <3>2
  <2>3. Passes BY <1>1, <2>1, <2>2 DEF Passes, Switched, Members
  <2>4. Mild(k', T) BY <1>1, <2>1, MildOn
  <2> QED BY <2>3, <2>4, MildKeeps
<1> QED BY <1>3, <1>4

(* YieldIfHigher, at the end of a task's own call.                         *)
LEMMA RousedYields ==
    ASSUME TaskInv, NEW y, NEW x \in Tasks, Roused(y), Readied(y) \subseteq Readied(k) \cup {x},
           k' = YieldIfHigher(y, x), NEW T, Mild(y, T)
    PROVE  Keeps
<1>1. y.cur = k.cur /\ y.prio = k.prio BY DEF Roused
<1>2. k.prio[x] \in Int /\ k.prio[k.cur] \in Int BY InvFacts DEF Priorities
<1>3. CASE y.prio[y.cur] < y.prio[x] BY <1>3, RousedKeeps DEF YieldIfHigher
<1>4. CASE ~(y.prio[y.cur] < y.prio[x])
  <2>1. ~Outranks(y) BY <1>1, <1>2, <1>4 DEF Outranks
  <2>2. k' = y BY <1>4 DEF YieldIfHigher
  <2> QED BY <2>1, <2>2, RousedKeeps
<1> QED BY <1>3, <1>4

(* The end of a call from an interrupt.                                    *)
LEMMA RousedFromISR ==
    ASSUME TaskInv, NEW y, NEW hi \in BOOLEAN, Roused(y), Outranks(y) => hi, NEW T, Mild(y, T),
           LET z == [y EXCEPT !.yield = @ \/ hi]
           IN  k' = IF hi THEN vTaskSwitchContext(z) ELSE z
    PROVE  Keeps
<1> DEFINE z == [y EXCEPT !.yield = @ \/ hi]
<1>1. k' = IF hi THEN vTaskSwitchContext(z) ELSE z OBVIOUS
<1>2. Sound(y, Placed) BY DEF Roused
<1>3. Sound(z, Placed) /\ Switched(y, z) /\ z.cur = y.cur /\ z.yield = (y.yield \/ hi)
  BY <1>2, FlagNow
<1> HIDE DEF z
<1>4. Roused(z) BY <1>3 DEF Roused, Switched, Members
<1>5. ~hi => ~Outranks(z) BY <1>3 DEF Outranks, Switched
<1>6. Mild(z, T) BY <1>2, <1>3, MildOn
<1> QED BY <1>1, <1>4, <1>5, <1>6, RousedKeeps

LEMMA vTaskResumeKeeps ==
    ASSUME TaskInv, NEW t \in Tasks, vTaskResume(t)
    PROVE  Keeps
<1>1. Calls(t, "resume") /\ pc' = pc /\ tcbs' = tcbs /\ load' = load BY DEF vTaskResume
<1>2. PICK x \in tcbs \ {t, Idle} :
         /\ prvTaskIsTaskSuspended(k, x)
         /\ k' = YieldIfHigher(prvAddTaskToReadyList(RemoveState(k, x), x), x)
  BY DEF vTaskResume
<1>3. x \in Placed \ ToSet(k.dying) /\ x \in Tasks BY <1>2, SuspendedFacts
<1> DEFINE y == prvAddTaskToReadyList(RemoveState(k, x), x)
<1>4. Good(k, Placed) /\ Sound(k, Placed) BY InvFacts
<1>5. Readies(k, Placed, x, y) BY <1>3, <1>4 DEF Readies
<1>6. k' = YieldIfHigher(y, x) BY <1>2
<1> HIDE DEF y
<1>7. /\ Good(y, Placed) /\ Same(k, y) /\ Readied(y) = Readied(k) \cup {x}
      /\ y.dying = k.dying /\ y.events = k.events /\ Calm(k, y, {})
  BY <1>5, ReadyFacts
<1>8. Sound(y, Placed) BY <1>4, <1>7 DEF Sound, Same, Alike, IdleReady
<1>9. Fits(k, k.cur, pc[k.cur]) BY InvFacts
<1>10. Roused(y) BY <1>1, <1>7, <1>8, <1>9 DEF Roused, Same, Alike, Fits
<1>11. Mild(y, {})
  <2>1. \A u \in Tasks : Stays(k, y, u) BY <1>7 DEF Stays, Same, Alike
  <2> QED BY <1>7, <1>8, <2>1, MildFacts
<1> QED BY <1>3, <1>6, <1>7, <1>10, <1>11, RousedYields

LEMMA xTaskResumeFromISRKeeps ==
    ASSUME TaskInv, xTaskResumeFromISR
    PROVE  Keeps
<1>1. pc' = pc /\ tcbs' = tcbs /\ load' = load BY DEF xTaskResumeFromISR
<1>2. PICK x \in tcbs \ {Idle} :
         LET hi == k.susp = 0 /\ k.prio[x] > k.prio[k.cur]
             z  == [ReadyOrPend(k, x) EXCEPT !.yield = @ \/ hi]
         IN  /\ prvTaskIsTaskSuspended(k, x)
             /\ k' = IF hi THEN vTaskSwitchContext(z) ELSE z
  BY DEF xTaskResumeFromISR
<1> DEFINE y == ReadyOrPend(k, x)
           hi == k.susp = 0 /\ k.prio[x] > k.prio[k.cur]
<1>3. /\ x \in Placed \ ToSet(k.dying) /\ x \in Tasks
      /\ x \notin ToSet(k.events[Pending]) /\ k.nstate[x] # WAITING
  BY <1>2, SuspendedFacts
<1>4. Good(k, Placed) /\ Sound(k, Placed) BY InvFacts
<1>5. Rouses(k, Placed, x, y) BY <1>3, <1>4 DEF Rouses
<1>6. LET z == [y EXCEPT !.yield = @ \/ hi] IN k' = IF hi THEN vTaskSwitchContext(z) ELSE z
  BY <1>2
<1> HIDE DEF y
<1>7. /\ Good(y, Placed) /\ Same(k, y) /\ y.dying = k.dying
      /\ k.susp = 0 => Readied(y) = Readied(k) \cup {x} /\ y.events = k.events
      /\ k.susp # 0 => /\ Readied(y) = Readied(k)
                       /\ ToSet(y.events[Pending]) = ToSet(k.events[Pending]) \cup {x}
      /\ Kept(k, y, {x}) /\ Timeless(k, y, {}) /\ x \in Readied(y) \cup ToSet(y.events[Pending])
  <2>1. Risen(k, Placed, x, y) BY <1>5, ReadyOrPendFacts
  <2> QED BY <2>1 DEF Risen
<1>8. Sound(y, Placed)
  BY <1>3, <1>4, <1>7 DEF Sound, Same, Alike, IdleReady
<1>9. ASSUME pc[k.cur].at \in {"check", "block"}
      PROVE  x # k.cur /\ (pc[k.cur].at = "check" => k.cur \notin ToSet(k.events[Pending]))
  <2>1. Fits(k, k.cur, pc[k.cur]) /\ Serves(k, pc[k.cur], tcbs) BY InvFacts
  <2>2. CurReady(k) BY <1>9, <2>1 DEF Serves, Off
  <2>3. x \notin Readied(k)
    <3>1. Contains(k.sleeping, x) BY <1>2 DEF prvTaskIsTaskSuspended
    <3>2. x \in ToSet(k.sleeping) BY <1>3, <1>4, <3>1, WhereFacts
    <3> QED BY <1>4, <3>2 DEF Good, Orderly, Seated, Apart
  <2> QED BY <1>9, <2>1, <2>2, <2>3 DEF CurReady, Fits
<1>10. Roused(y) BY <1>1, <1>7, <1>8, <1>9 DEF Roused, Same, Alike
<1>11. Outranks(y) => hi BY <1>7 DEF Outranks
<1>12. hi \in BOOLEAN OBVIOUS
<1>13. Mild(y, {x})
  <2>1. \A u \in Tasks : Stays(k, y, u) BY <1>7 DEF Stays, Same, Alike
  <2>2. Gentle(k, y, {x}) BY <1>7, <2>1 DEF Gentle
  <2>3. k.cur \in ToSet(k.events[Pending]) => k.cur \in ToSet(y.events[Pending])
    BY <1>4, <1>7, InvFacts
  <2>4. Punctual(k, y)
    <3>1. k \in Kernels /\ y \in Kernels BY <1>4, <1>7, GoodIsKernel
    <3> QED BY <1>7, <3>1, CalmIsPunctual
  <2> QED BY <1>7, <1>9, <2>2, <2>3, <2>4 DEF Mild, Rests, Awake
<1> HIDE DEF hi
<1> QED BY <1>6, <1>10, <1>11, <1>12, <1>13, RousedFromISR

-----------------------------------------------------------------------------
(* Priorities.                                                             *)

LEMMA vTaskPrioritySetKeeps ==
    ASSUME TaskInv, NEW t \in Tasks, vTaskPrioritySet(t)
    PROVE  Keeps
<1>1. Calls(t, "priority") /\ pc' = pc /\ tcbs' = tcbs /\ load' = load BY DEF vTaskPrioritySet
<1>2. PICK x \in Handles \ {Idle}, p \in Priorities :
         k' = IF IF p > k.base[x] THEN x # t /\ p > k.prio[t] ELSE x = t
              THEN vTaskSwitchContext(PriorityAfterSet(k, x, p))
              ELSE PriorityAfterSet(k, x, p)
  BY DEF vTaskPrioritySet
<1>3. x \in Placed \ ToSet(k.dying) /\ x \in Tasks /\ x # Idle BY HandleFacts
<1>4. /\ t = k.cur /\ CurReady(k) /\ (NoHigher(k) \/ (k.susp # 0 /\ k.yield)) /\ pc[t] = Run
  BY <1>1, CallFacts
<1>5. Good(k, Placed) /\ Sound(k, Placed) /\ k \in Kernels /\ k.prio = k.base BY InvFacts DEF Sound
<1> DEFINE e == EventRank(p)
           a == [k EXCEPT !.base[x] = p, !.rank[x] = e]
           y == ChangePriority(a, x, p)
<1>6. PriorityAfterSet(k, x, p) = y BY <1>5 DEF PriorityAfterSet
<1>7. e \in Int BY KernelAssumption DEF EventRank, Priorities
<1> HIDE DEF e
<1>8. a \in Kernels BY <1>3, <1>5, <1>7 DEF Kernels
<1>9. /\ Shelved(k, a) /\ a.base = [k.base EXCEPT ![x] = p] /\ a.nstate = k.nstate
      /\ a.num = k.num /\ a.cleanup = k.cleanup /\ a.cur = k.cur /\ a.susp = k.susp
      /\ a.yield = k.yield /\ a.nval = k.nval /\ a.tick = k.tick /\ a.ovf = k.ovf
  <2>1. Shelved(k, a) BY <1>5 DEF Kernels, Shelved
  <2>2. /\ a.base = [k.base EXCEPT ![x] = p] /\ a.nstate = k.nstate
        /\ a.num = k.num /\ a.cleanup = k.cleanup /\ a.cur = k.cur /\ a.susp = k.susp
        /\ a.yield = k.yield /\ a.nval = k.nval /\ a.tick = k.tick /\ a.ovf = k.ovf
    BY <1>5 DEF Kernels
  <2> QED BY <2>1, <2>2
<1> HIDE DEF a
<1>10. Good(a, Placed) /\ Readied(a) = Readied(k) BY <1>5, <1>8, <1>9, ShelvedFacts
<1>11. a.dying = k.dying /\ a.events = k.events /\ a.prio = k.prio BY <1>9 DEF Shelved
<1>12. Regrades(a, Placed, x, p, y) BY <1>3, <1>10, <1>11 DEF Regrades
<1> HIDE DEF y
<1>13. /\ Good(y, Placed) /\ Readied(y) = Readied(a)
       /\ y.prio = [a.prio EXCEPT ![x] = p] /\ y.base = a.base /\ y.nstate = a.nstate
       /\ y.num = a.num /\ y.cleanup = a.cleanup /\ y.dying = a.dying
       /\ y.cur = a.cur /\ y.susp = a.susp /\ y.yield = a.yield /\ y.events = a.events
       /\ y.nval = a.nval /\ Calm(a, y, {})
  BY <1>12, ChangePriorityFacts
<1>14. k.prio \in [Tasks -> Priorities] /\ Idle \in Tasks /\ Priorities \subseteq Int
  BY InvFacts, KernelAssumption DEF Priorities
<1>15. y.prio \in [Tasks -> Priorities] /\ y.prio[x] = p /\ \A u \in Tasks \ {x} : y.prio[u] = k.prio[u]
  <2>1. y.prio = [k.prio EXCEPT ![x] = p] BY <1>11, <1>13
  <2>2. y.prio \in [Tasks -> Priorities] BY <1>13, GoodIsLoose, KernelFields
  <2> QED BY <1>3, <1>14, <2>1, <2>2
<1>16. Sound(y, Placed)
  <2>1. IdleReady(y) BY <1>3, <1>5, <1>10, <1>13, <1>14, <1>15 DEF Sound, IdleReady
  <2>2. y.base = y.prio BY <1>5, <1>9, <1>11, <1>13
  <2> QED BY <1>5, <1>9, <1>11, <1>13, <2>1, <2>2 DEF Sound
<1> DEFINE hi == IF p > k.base[x] THEN x # t /\ p > k.prio[t] ELSE x = t
<1>17. k' = IF hi THEN vTaskSwitchContext(y) ELSE y BY <1>2, <1>6
<1>18. CurReady(y) BY <1>4, <1>9, <1>10, <1>13 DEF CurReady
<1>19. ASSUME ~hi, NoHigher(k) PROVE NoHigher(y)
  <2>1. ASSUME NEW u \in Readied(y) PROVE y.prio[u] <= y.prio[t]
    <3>1. u \in Tasks /\ t \in Tasks /\ u \in Readied(k) BY <1>10, <1>13, <2>1 DEF Readied
    <3>2. k.prio[u] <= k.prio[t] BY <1>4, <1>19, <3>1 DEF NoHigher
    <3>3. k.prio[x] \in Int /\ k.prio[u] \in Int /\ k.prio[t] \in Int /\ p \in Int BY <1>3, <1>14, <3>1
    <3>4. IF p > k.prio[x] THEN x = t \/ p <= k.prio[t] ELSE x # t BY <1>5, <1>19, <3>3
    <3> QED BY <1>15, <3>1, <3>2, <3>3, <3>4
  <2> QED BY <1>4, <1>9, <1>13, <2>1 DEF NoHigher
<1> HIDE DEF hi
<1>20. y.cur = t /\ y.susp = k.susp /\ y.yield = k.yield /\ y.nstate = k.nstate BY <1>4, <1>9, <1>13
<1>21. pc[k.cur].at = "run" BY <1>4 DEF Run
<1>24. Mild(y, {})
  <2>1. Still(k, a) BY <1>9, <1>10 DEF Still, Shelved
  <2>2. Calm(k, y, {}) BY <1>13, <2>1, StillIsCalm, CalmAgain
  <2>3. y.nval = k.nval /\ y.nstate = k.nstate BY <1>9, <1>13
  <2>4. \A u \in Tasks : Stays(k, y, u) BY <2>3 DEF Stays
  <2>5. y.dying = k.dying /\ y.events = k.events BY <1>11, <1>13
  <2> QED BY <1>16, <2>2, <2>4, <2>5, MildFacts
<1>22. CASE hi
  <2>1. k' = vTaskSwitchContext(y) BY <1>17, <1>22
  <2>2. /\ Sound(k', Placed) /\ Switched(y, k')
        /\ y.susp = 0 => CurReady(k') /\ NoHigher(k')
        /\ y.susp # 0 => k'.cur = y.cur /\ k'.yield
    BY <1>16, <2>1, SwitchNow
  <2>3. k'.cur = t => Serves(k', pc[t], tcbs)
    <3>1. k'.cur = t => CurReady(k')
      <4>1. k'.susp = y.susp /\ Readied(k') = Readied(y) BY <2>2 DEF Switched
      <4> QED BY <1>18, <1>20, <2>2, <4>1 DEF CurReady
    <3> QED BY <2>2, <3>1 DEF Serves, Switched
  <2>4. Passes BY <1>1, <1>4, <1>20, <1>21, <2>2, <2>3 DEF Passes, Switched, Members
  <2>5. Mild(k', {}) BY <1>16, <1>24, <2>2, MildOn
  <2> QED BY <2>4, <2>5, MildKeeps
<1>23. CASE ~hi
  <2>1. k' = y BY <1>17, <1>23
  <2>2. NoHigher(y) \/ (y.susp # 0 /\ y.yield) BY <1>4, <1>19, <1>20, <1>23
  <2>3. Passes BY <1>1, <1>4, <1>16, <1>18, <1>20, <1>21, <2>1, <2>2 DEF Passes, Serves
  <2>4. Mild(k', {}) BY <1>24, <2>1
  <2> QED BY <2>3, <2>4, MildKeeps
<1> QED BY <1>22, <1>23

-----------------------------------------------------------------------------
(* Creating tasks.                                                         *)

(* The current task is ready, and outranked only when a yield is pending.  *)
Served(x) == CurReady(x) /\ (NoHigher(x) \/ (x.susp # 0 /\ x.yield))

(* The time goes on by the ticks that were held back.                      *)
Brings(x, y) ==
    Members(x, y) /\ y.dying = x.dying /\ \E m \in 0 .. x.pended : Later(x, y, m)

LEMMA BringsIsGentle ==
    ASSUME NEW x \in Kernels, NEW y, Brings(x, y)
    PROVE  Gentle(x, y, {}) /\ Punctual(x, y)
<1>1. PICK m \in 0 .. x.pended : Later(x, y, m) BY DEF Brings
<1>2. x.pended \in Nat BY KernelFields
<1>3. m \in Nat /\ m <= x.pended + 1 BY <1>1, <1>2
<1>4. Punctual(x, y) BY <1>1, <1>3, LaterIsPunctual
<1>5. Kept(x, y, {}) BY <1>1 DEF Later
<1>6. \A t \in Tasks : Stays(x, y, t) BY DEF Stays, Brings, Members
<1> QED BY <1>4, <1>5, <1>6 DEF Gentle, Brings

(* The scheduler is suspended and resumed.                                 *)
LEMMA BriefNow ==
    ASSUME NEW x, NEW P, Sound(x, P), Served(x)
    PROVE  LET y == xTaskResumeAll(vTaskSuspendAll(x)).k
           IN  /\ Sound(y, P) /\ Members(x, y) /\ y.susp = x.susp /\ Served(y)
               /\ y.cur # x.cur => y.susp = 0
               /\ Brings(x, y)
<1> DEFINE a == vTaskSuspendAll(x)
           r == xTaskResumeAll(a)
           y == r.k
<1>1. /\ Sound(a, P) /\ Members(x, a) /\ Readied(a) = Readied(x) /\ a.susp = x.susp + 1
      /\ a.cur = x.cur /\ a.yield = x.yield /\ a.dying = x.dying /\ a.pended = x.pended
      /\ Still(x, a)
  BY SuspendNow
<1>2. x.susp \in Nat /\ x.pended \in Nat /\ x \in Kernels
  <2>1. x \in Kernels BY GoodIsLoose DEF Sound
  <2> QED BY <2>1, KernelFields
<1> HIDE DEF a
<1>3. a.susp # 0 BY <1>1, <1>2
<1>4. /\ Sound(y, P) /\ Resumes(a, y, r.yielded) /\ r.yielded \in BOOLEAN
      /\ y.cur # a.cur => y.susp = 0 /\ CurReady(y) /\ NoHigher(y)
  BY <1>1, <1>3, ResumeNow
<1> HIDE DEF r
<1>5. Members(x, y) /\ y.susp = x.susp BY <1>1, <1>2, <1>4 DEF Resumes, Members
<1>6. CurReady(y)
  <2>1. CASE y.cur # a.cur BY <1>4, <2>1
  <2>2. CASE y.cur = a.cur BY <1>1, <1>4, <2>2 DEF Resumes, CurReady, Served
  <2> QED BY <2>1, <2>2
<1>7. NoHigher(y) \/ (y.susp # 0 /\ y.yield)
  <2>1. CASE y.susp = 0
    <3>1. x.susp = 0 BY <1>5, <2>1
    <3>2. NoHigher(a) BY <1>1, <3>1 DEF Served, NoHigher, Members
    <3> QED BY <1>4, <2>1, <3>2 DEF Resumes
  <2>2. CASE y.susp # 0
    <3>1. y.yield = x.yield /\ Readied(y) = Readied(x) /\ y.prio = x.prio /\ y.cur = x.cur
      BY <1>1, <1>4, <1>5, <2>2 DEF Resumes, Members
    <3>2. NoHigher(x) => NoHigher(y) BY <3>1 DEF NoHigher
    <3> QED BY <1>5, <2>2, <3>1, <3>2 DEF Served
  <2> QED BY <2>1, <2>2
<1>8. Brings(x, y)
  <2>1. PICK m \in 0 .. a.pended : Later(a, y, m) BY <1>4 DEF Resumes
  <2>2. a \in Kernels /\ y \in Kernels BY <1>1, <1>4, GoodIsKernel DEF Sound
  <2>3. Later(x, a, 0) BY <1>1, <1>2, StillIsLater
  <2>4. m \in Nat /\ m \in 0 .. x.pended BY <1>1, <1>2
  <2> HIDE DEF y
  <2>5. Later(x, y, 0 + m) BY <1>2, <2>1, <2>2, <2>3, <2>4, LaterAgain
  <2>6. 0 + m = m BY <2>4
  <2>7. y.dying = x.dying BY <1>1, <1>4 DEF Resumes
  <2> QED BY <1>5, <2>4, <2>5, <2>6, <2>7 DEF Brings
<1> QED BY <1>1, <1>4, <1>5, <1>6, <1>7, <1>8 DEF Served, r, a

(* A control block that is on no list is written.                          *)
LEMMA InitialiseIsLater ==
    ASSUME NEW x, NEW P, Good(x, P), NEW t \in Tasks, t \notin P, NEW p \in Priorities
    PROVE  Later(x, prvInitialiseNewTask(x, t, p), 0)
<1> DEFINE y == prvInitialiseNewTask(x, t, p)
<1>1. /\ Good(y, P) /\ Readied(y) = Readied(x) /\ y.dying = x.dying /\ y.events = x.events
      /\ Calm(x, y, {t}) /\ t \notin Timed(y)
  <2>1. Initialised(x, P, t, p, y) BY InitialiseFacts
  <2> QED BY <2>1 DEF Initialised
<1> HIDE DEF y
<1>2. x \in Kernels /\ y \in Kernels BY <1>1, GoodIsKernel
<1>3. ToSet(y.sleeping) \subseteq P BY <1>1, WhereFacts
<1>4. Kept(x, y, {}) BY <1>1, <1>3 DEF Calm, Kept
<1>5. Timed(x) \subseteq Timed(y)
  <2>1. Apart(Readied(x), ToSet(x.delayed), ToSet(x.overflow), ToSet(x.sleeping), ToSet(x.dying), P)
    BY DEF Good, Orderly, Seated
  <2>2. Apart(Readied(y), ToSet(y.delayed), ToSet(y.overflow), ToSet(y.sleeping), ToSet(y.dying), P)
    BY <1>1 DEF Good, Orderly, Seated
  <2>3. ToSet(y.sleeping) \subseteq ToSet(x.sleeping) BY <1>4 DEF Kept
  <2> QED BY <1>1, <2>1, <2>2, <2>3 DEF Apart, Timed
<1>6. Timed(y) \cap {t} = {} /\ Timed(x) \ Timed(y) \subseteq ToSet(x.events[Pending])
  BY <1>1, <1>5
<1>7. Later(x, y, 0) BY <1>1, <1>2, <1>4, <1>6, ApartIsLater DEF Calm
<1> QED BY <1>7 DEF y

LEMMA prvCreateTaskKeeps ==
    ASSUME TaskInv, NEW t \in Tasks, prvCreateTask(t)
    PROVE  Keeps
<1>1. Calls(t, "create") /\ load' = load BY DEF prvCreateTask
<1>2. PICK x \in Tasks \ tcbs, p \in Priorities :
         /\ tcbs' = tcbs \cup {x}
         /\ k' = xTaskResumeAll(vTaskSuspendAll(prvInitialiseNewTask(k, x, p))).k
         /\ pc' = [pc EXCEPT ![t] = [at |-> "add", task |-> x], ![x] = Run]
  BY DEF prvCreateTask
<1>3. /\ t = k.cur /\ t # Idle /\ k.nstate[t] # WAITING /\ ~Owns(pc[t]) /\ t \in Placed
      /\ CurReady(k) /\ (NoHigher(k) \/ (k.susp # 0 /\ k.yield))
  BY <1>1, CallFacts
<1>4. /\ Good(k, Placed) /\ Sound(k, Placed) /\ k \in Kernels /\ Blocks /\ DOMAIN pc = Tasks
      /\ Idle \in Placed /\ Readied(k) \subseteq Placed
      /\ ToSet(k.events[Pending]) \subseteq Placed
  BY InvFacts
<1>5. x \in Tasks /\ x \notin Placed /\ x # t /\ x # Idle BY <1>3, <1>4 DEF Placed
<1> DEFINE z == prvInitialiseNewTask(k, x, p)
<1>6. /\ Good(z, Placed) /\ Readied(z) = Readied(k)
      /\ z.prio = [k.prio EXCEPT ![x] = p] /\ z.base = [k.base EXCEPT ![x] = p]
      /\ z.nstate = [k.nstate EXCEPT ![x] = NOT_WAITING]
      /\ z.num = k.num /\ z.cleanup = k.cleanup /\ z.dying = k.dying
      /\ z.cur = k.cur /\ z.susp = k.susp /\ z.yield = k.yield /\ z.events = k.events
      /\ z.pended = k.pended /\ z.nval = [k.nval EXCEPT ![x] = 0]
  <2>1. Initialised(k, Placed, x, p, z) BY <1>4, <1>5, InitialiseFacts
  <2> HIDE DEF z
  <2> QED BY <2>1 DEF Initialised
<1>21. Later(k, z, 0) BY <1>4, <1>5, InitialiseIsLater
<1>7. k' = xTaskResumeAll(vTaskSuspendAll(z)).k BY <1>2
<1> HIDE DEF z
<1>8. /\ k.prio \in [Tasks -> Priorities] /\ k.nstate \in [Tasks -> 0 .. 2] /\ k.pended \in Nat
      /\ k.nval \in [Tasks -> Int]
  BY <1>4, KernelFields
<1>9. \A u \in Placed : u \in Tasks /\ z.prio[u] = k.prio[u] /\ z.nstate[u] = k.nstate[u]
  <2>1. Placed \subseteq Tasks BY InvFacts
  <2> QED BY <1>5, <1>6, <1>8, <2>1
<1>10. Sound(z, Placed) BY <1>4, <1>6, <1>9 DEF Sound, IdleReady
<1>11. Served(z) BY <1>3, <1>4, <1>6, <1>9 DEF Served, CurReady, NoHigher
<1>12. /\ Sound(k', Placed) /\ Members(z, k') /\ k'.susp = z.susp /\ Served(k')
       /\ k'.cur # z.cur => k'.susp = 0
       /\ Brings(z, k')
  BY <1>7, <1>10, <1>11, BriefNow
<1>13. Blocks' /\ Placed' = Placed BY <1>2, <1>3, <1>4, CreateBlocks
<1> DEFINE c == [at |-> "add", task |-> x]
<1>14. /\ Spot(c) /\ ~Held(c) /\ Fits(k', t, c) /\ ~Off(t, c) /\ c.at \notin {"added"}
  BY <1>5 DEF Spot, Held, Fits, Off
<1>22. c.at # "block" /\ Op(c) = "no" BY DEF Op
<1>15. /\ DOMAIN pc' = Tasks /\ pc'[t] = c /\ pc'[x] = Run
       /\ \A u \in Tasks \ {t, x} : pc'[u] = pc[u]
  BY <1>2, <1>4, <1>5
<1> HIDE DEF c
<1>16. k'.nstate = z.nstate /\ k'.nstate[t] # WAITING /\ k'.nstate[x] # WAITING
       /\ \A u \in Tasks \ {x} : k'.nstate[u] = k.nstate[u]
  BY <1>3, <1>5, <1>6, <1>8, <1>12 DEF Members, NOT_WAITING, WAITING
<1>17. k'.cur \in Tasks
  <2>1. k'.cur \in Placed BY <1>12 DEF Sound
  <2> QED BY <2>1, InvFacts
<1>18. Lands(t, c)
  <2>1. ASSUME NEW u \in Tasks \ {t}
        PROVE  \/ pc'[u] = pc[u] /\ (k'.nstate[u] = WAITING => k.nstate[u] = WAITING)
               \/ pc'[u] = Run /\ k'.nstate[u] # WAITING
    BY <1>15, <1>16, <2>1
  <2> QED BY <1>3, <1>6, <1>12, <1>14, <1>15, <1>16, <1>17, <2>1 DEF Lands
<1>19. Serves(k', pc'[k'.cur], tcbs') BY <1>12 DEF Served, Serves
<1>20. Steps(t, c) BY <1>1, <1>12, <1>13, <1>18, <1>19 DEF Steps
<1>24. Punctual(k, k') /\ Kept(k, k', {})
  <2>1. PICK m \in 0 .. z.pended : Later(z, k', m) BY <1>12 DEF Brings
  <2>2. m \in Nat /\ m <= k.pended + 1 BY <1>6, <1>8, <2>1
  <2>3. z \in Kernels /\ k' \in Kernels BY <1>6, <1>12, GoodIsKernel DEF Sound
  <2>4. Later(k, k', 0 + m) BY <1>4, <1>21, <2>1, <2>2, <2>3, LaterAgain
  <2>5. 0 + m = m BY <2>2
  <2>6. Later(k, k', m) BY <2>4, <2>5
  <2>7. Punctual(k, k') BY <2>2, <2>6, LaterIsPunctual
  <2> QED BY <2>6, <2>7 DEF Later
<1>25. Gentle(k, k', {x})
  <2>1. Kept(k, k', {x}) BY <1>24 DEF Kept
  <2>2. k'.dying = k.dying BY <1>6, <1>12 DEF Brings
  <2>3. ASSUME NEW u \in Tasks \ {x} PROVE k'.nstate[u] = k.nstate[u] /\ k'.nval[u] = k.nval[u]
    BY <1>6, <1>8, <1>12, <2>3 DEF Members
  <2>4. \A u \in Tasks \ {x} : Stays(k, k', u) BY <2>3 DEF Stays
  <2> QED BY <2>1, <2>2, <2>4 DEF Gentle
<1>26. Heeds(t, c, {x}, Placed') BY <1>5, <1>13, <1>22, <1>25 DEF Heeds
<1>27. \A u \in Placed' \ {t} : pc'[u] = pc[u]
  <2>1. Placed \subseteq Tasks BY InvFacts
  <2> QED BY <1>5, <1>13, <1>15, <2>1
<1>28. TaskInv' BY <1>20, StepsFacts
<1>29. WakeInv => WakeInv' BY <1>20, <1>26, <1>27, StepsWake
<1> QED BY <1>24, <1>28, <1>29 DEF Keeps

-----------------------------------------------------------------------------
(* The kernel's counts of its tasks.                                       *)

Counts(x, n, y) == x \in Kernels /\ n \in Int /\ y = [x EXCEPT !.num = n]

LEMMA CountFacts ==
    ASSUME NEW x, NEW n, NEW y, Counts(x, n, y)
    PROVE  /\ y \in Kernels /\ Shelved(x, y) /\ y.num = n
           /\ y.cur = x.cur /\ y.susp = x.susp /\ y.yield = x.yield /\ y.cleanup = x.cleanup
           /\ y.base = x.base /\ y.nstate = x.nstate /\ y.nval = x.nval /\ Still(x, y)
<1>1. x \in Kernels /\ n \in Int /\ y = [x EXCEPT !.num = n] BY DEF Counts
<1>2. y \in Kernels BY <1>1 DEF Kernels
<1>3. Shelved(x, y) BY <1>1 DEF Kernels, Shelved
<1>4. /\ y.num = n /\ y.cur = x.cur /\ y.susp = x.susp /\ y.yield = x.yield
      /\ y.cleanup = x.cleanup /\ y.base = x.base /\ y.nstate = x.nstate /\ y.nval = x.nval
      /\ y.tick = x.tick /\ y.ovf = x.ovf
  BY <1>1 DEF Kernels
<1>5. Still(x, y)
  <2>1. Readied(y) = Readied(x) BY <1>2, <1>3, ShelvedFacts
  <2> QED BY <1>3, <1>4, <2>1 DEF Still, Shelved
<1> QED BY <1>2, <1>3, <1>4, <1>5

(* A task goes on the list of those that have deleted themselves.          *)
Dies(x, P, t, y) ==
    /\ Sound(x, P) /\ t \in P \ ToSet(x.dying) /\ t # Idle
    /\ y = [RemoveEvent(RemoveState(x, t), t)
               EXCEPT !.dying = Append(@, t), !.cleanup = @ + 1]

Dead(x, P, t, y) ==
    /\ Good(y, P) /\ Readied(y) = Readied(x) \ {t}
    /\ ToSet(y.events[Pending]) = ToSet(x.events[Pending]) \ {t}
    /\ y.cleanup = Len(y.dying)
    /\ y.cur = x.cur /\ y.susp = x.susp /\ y.num = x.num /\ y.base = x.base
    /\ y.prio = x.prio /\ y.nstate = x.nstate /\ y.nval = x.nval
    /\ Calm(x, y, {t}) /\ t \notin Timed(y)
    /\ ToSet(y.dying) \ {t} \subseteq ToSet(x.dying)

LEMMA DieFacts ==
    ASSUME NEW x, NEW P, NEW t, NEW y, Dies(x, P, t, y)
    PROVE  Dead(x, P, t, y)
<1> DEFINE a == RemoveEvent(RemoveState(x, t), t)
           s == Append(a.dying, t)
           n == a.cleanup + 1
           z == [a EXCEPT !.dying = s]
<1>1. Good(x, P) /\ Sound(x, P) /\ t \in P \ ToSet(x.dying) BY DEF Dies, Sound
<1>2. y = [a EXCEPT !.dying = s, !.cleanup = n] BY DEF Dies
<1>3. a \in Kernels /\ Same(x, a) /\ a.dying = x.dying /\ t \in Tasks BY <1>1, OffFacts DEF Orderly
<1> HIDE DEF a
<1>4. s \in Seq(Tasks) /\ n \in Int BY <1>3, KernelFields
<1>5. n = Len(s)
  <2>1. x.cleanup = Len(x.dying) /\ x.dying \in Seq(Tasks) BY <1>1, GoodIsLoose, KernelFields DEF Sound
  <2> QED BY <1>3, <2>1 DEF Same, Alike
<1>6. y \in Kernels /\ y.dying = s /\ y.cleanup = n /\ y.sleeping = a.sleeping
  <2> HIDE DEF s, n
  <2>1. z \in Kernels BY <1>3, <1>4 DEF Kernels
  <2>2. y = [z EXCEPT !.cleanup = n] BY <1>2, <1>3 DEF Kernels
  <2> HIDE DEF z
  <2>3. y \in Kernels BY <1>4, <2>1, <2>2 DEF Kernels
  <2> QED BY <1>2, <1>3, <2>3 DEF Kernels
<1>7. /\ y.events = a.events /\ y.prio = a.prio /\ y.wake = a.wake /\ y.next = a.next
      /\ y.top = a.top /\ y.ready = a.ready /\ y.delayed = a.delayed /\ y.overflow = a.overflow
      /\ y.cur = a.cur /\ y.susp = a.susp /\ y.num = a.num /\ y.base = a.base
      /\ y.nstate = a.nstate /\ y.nval = a.nval /\ y.tick = a.tick /\ y.ovf = a.ovf
  <2> HIDE DEF s, n
  <2>1. /\ y.events = a.events /\ y.prio = a.prio /\ y.wake = a.wake /\ y.next = a.next
        /\ y.top = a.top /\ y.ready = a.ready /\ y.delayed = a.delayed
        /\ y.overflow = a.overflow
    BY <1>2, <1>3 DEF Kernels
  <2>2. /\ y.cur = a.cur /\ y.susp = a.susp /\ y.num = a.num /\ y.base = a.base
        /\ y.nstate = a.nstate /\ y.nval = a.nval /\ y.tick = a.tick /\ y.ovf = a.ovf
    BY <1>2, <1>3 DEF Kernels
  <2> QED BY <2>1, <2>2
<1>8. Shuts(x, P, t, a, y) BY <1>1, <1>6, <1>7 DEF Shuts, a
<1> HIDE DEF s, n
<1>9. Shut(x, P, t, y) BY <1>8, ShutFacts
<1>10. /\ Good(y, P) /\ Readied(y) = Readied(x) \ {t}
       /\ ToSet(y.events[Pending]) = ToSet(x.events[Pending]) \ {t}
       /\ Calm(x, y, {t}) /\ t \notin Timed(y)
       /\ ToSet(y.dying) \ {t} \subseteq ToSet(x.dying)
  BY <1>9 DEF Shut
<1> QED BY <1>3, <1>5, <1>6, <1>7, <1>10 DEF Same, Alike, Dead

(* The current task, at a place from which a task is only switched out by  *)
(* a call.                                                                 *)
LEMMA AtFacts ==
    ASSUME TaskInv, NEW t, t = k.cur, pc[t].at \in {"add", "added", "free", "run"}
    PROVE  /\ t \in Tasks /\ t \in Placed /\ k.nstate[t] # WAITING /\ CurReady(k)
           /\ pc[t].at # "added" => Served(k)
           /\ pc[t].at \in {"add", "added"} => t # Idle
           /\ pc[t].at \in {"add", "added", "free"} => pc[t].task \in Tasks
<1>1. /\ Places /\ Spot(pc[t]) /\ Serves(k, pc[t], tcbs) /\ t \in Tasks /\ t \in Placed
  BY InvFacts
<1>2. k.nstate[t] # WAITING /\ (pc[t].at \in {"add", "added"} => t # Idle)
  BY <1>1 DEF Places, InWait
<1>3. ~Off(t, pc[t]) BY DEF Off
<1>4. CurReady(k) /\ (pc[t].at # "added" => Served(k)) BY <1>1, <1>3 DEF Serves, Served
<1> QED BY <1>1, <1>2, <1>4 DEF Spot

(* The tasks are finitely many.                                            *)
LEMMA Finite ==
    ASSUME TaskInv
    PROVE  IsFiniteSet(Placed)
BY TasksAssumption, InvFacts, FS_Subset

LEMMA AddNewTaskKeeps ==
    ASSUME TaskInv, NEW t \in Tasks, AddNewTask(t)
    PROVE  Keeps
<1> DEFINE x == pc[t].task
           c == [at |-> "added", task |-> x]
           n == k.num + 1
           a == [k EXCEPT !.num = n]
<1>1. /\ t = k.cur /\ pc[t].at = "add" /\ k' = prvAddNewTaskToReadyList(k, x, TRUE)
      /\ pc' = [pc EXCEPT ![t] = c] /\ tcbs' = tcbs /\ load' = load
  BY DEF AddNewTask, At, Goto
<1>2. /\ t \in Placed /\ k.nstate[t] # WAITING /\ CurReady(k) /\ Served(k) /\ t # Idle /\ x \in Tasks
  BY <1>1, AtFacts
<1>3. /\ Good(k, Placed) /\ Sound(k, Placed) /\ k \in Kernels /\ Blocks /\ DOMAIN pc = Tasks
      /\ Idle \in Placed /\ Places
  BY InvFacts
<1>4. Blocks' /\ Placed' = Placed \cup {x} /\ x \in Tasks \ Placed /\ x \in tcbs
  <2> HIDE DEF x
  <2> QED BY <1>1, <1>2, <1>3, AddBlocks DEF x
<1> HIDE DEF x
<1>5. k.num \in Int /\ n \in Int BY <1>3, KernelFields
<1>6. k' = prvAddTaskToReadyList(a, x) BY <1>1, <1>3 DEF prvAddNewTaskToReadyList, Kernels
<1>7. a \in Kernels /\ Shelved(k, a)
      /\ a.cur = k.cur /\ a.susp = k.susp /\ a.yield = k.yield /\ a.cleanup = k.cleanup
      /\ a.base = k.base /\ a.nstate = k.nstate /\ a.num = n /\ a.nval = k.nval /\ Still(k, a)
  BY <1>3, <1>5, CountFacts DEF Counts
<1> HIDE DEF a
<1>8. Good(a, Placed) /\ Readied(a) = Readied(k) BY <1>3, <1>7, ShelvedFacts
<1>9. /\ Orderly(k', Placed \cup {x}) /\ Same(a, k')
      /\ k'.events = a.events /\ Readied(k') = Readied(a) \cup {x} /\ k'.dying = a.dying
      /\ k'.delayed = a.delayed /\ k'.overflow = a.overflow /\ k'.sleeping = a.sleeping
      /\ k'.wake = a.wake
  BY <1>4, <1>6, <1>8, AddFacts DEF Good
<1>10. Good(k', Placed') BY <1>4, <1>8, <1>9 DEF Good, Evented
<1>11. /\ k'.cur = k.cur /\ k'.susp = k.susp /\ k'.yield = k.yield /\ k'.cleanup = k.cleanup
       /\ k'.base = k.base /\ k'.nstate = k.nstate /\ k'.num = n /\ k'.prio = k.prio
       /\ k'.events = k.events /\ k'.dying = k.dying /\ Readied(k') = Readied(k) \cup {x}
  BY <1>7, <1>8, <1>9 DEF Same, Alike, Shelved
<1>12. n = Cardinality(Placed')
  <2>1. k.num = Cardinality(Placed) BY <1>3 DEF Sound
  <2> QED BY <1>4, <2>1, Finite, FS_AddElement
<1> HIDE DEF n
<1>13. Sound(k', Placed') BY <1>3, <1>4, <1>10, <1>11, <1>12 DEF Sound, IdleReady
<1>14. /\ Spot(c) /\ ~Held(c) /\ Fits(k', t, c) /\ c.at = "added" /\ c.task = x
       /\ Op(c) = "no"
  BY <1>4 DEF Spot, Held, Fits, Op
<1>15. /\ DOMAIN pc' = Tasks /\ pc'[t] = c /\ \A u \in Tasks \ {t} : pc'[u] = pc[u]
  BY <1>1, <1>3
<1> HIDE DEF c
<1>16. Lands(t, c)
  BY <1>1, <1>2, <1>11, <1>14, <1>15 DEF Lands
<1>17. Serves(k', pc'[k'.cur], tcbs')
  <2>1. CurReady(k') BY <1>2, <1>11 DEF CurReady
  <2>2. CASE k.prio[x] > k.prio[k.cur]
    BY <1>1, <1>4, <1>11, <1>14, <1>15, <2>1, <2>2 DEF Serves
  <2>3. CASE ~(k.prio[x] > k.prio[k.cur])
    <3>1. k.prio[x] \in Int /\ k.prio[k.cur] \in Int BY <1>4, InvFacts DEF Priorities
    <3>2. NoHigher(k) => NoHigher(k') BY <1>11, <2>3, <3>1 DEF NoHigher
    <3> QED BY <1>2, <1>11, <2>1, <3>2 DEF Serves, Served
  <2> QED BY <2>2, <2>3
<1>18. Steps(t, c) BY <1>1, <1>4, <1>13, <1>16, <1>17 DEF Steps
<1>19. Calm(k, k', {})
  <2>1. /\ k'.delayed = k.delayed /\ k'.overflow = k.overflow /\ k'.sleeping = k.sleeping
        /\ k'.wake = k.wake /\ k'.tick = k.tick /\ k'.ovf = k.ovf
    BY <1>7, <1>9 DEF Still, Same
  <2> QED BY <1>11, <2>1 DEF Calm, Kept, Timeless, Timed
<1>20. Gentle(k, k', {}) /\ Punctual(k, k')
  <2>1. k'.nval = k.nval BY <1>7, <1>9 DEF Same, Alike
  <2>2. \A u \in Tasks : Stays(k, k', u) BY <1>11, <2>1 DEF Stays
  <2>3. k' \in Kernels BY <1>10, GoodIsKernel
  <2> QED BY <1>3, <1>11, <1>19, <2>2, <2>3, CalmIsGentle
<1>21. Heeds(t, c, {}, Placed') BY <1>4, <1>11, <1>14, <1>20 DEF Heeds, Awake
<1>22. \A u \in Placed' \ {t} : pc'[u] = pc[u]
  <2>1. Placed \subseteq Tasks BY InvFacts
  <2> QED BY <1>4, <1>15, <2>1
<1>23. TaskInv' BY <1>18, StepsFacts
<1>24. WakeInv => WakeInv' BY <1>18, <1>21, <1>22, StepsWake
<1> QED BY <1>20, <1>23, <1>24 DEF Keeps

LEMMA YieldToNewTaskKeeps ==
    ASSUME TaskInv, NEW t \in Tasks, YieldToNewTask(t)
    PROVE  Keeps
<1> DEFINE x == pc[t].task
<1>1. /\ t = k.cur /\ pc[t].at = "added" /\ Goto(t, Run) /\ tcbs' = tcbs /\ load' = load
      /\ \/ k' = YieldIfHigher(k, x)
         \/ x \notin tcbs /\ k' \in {k, vTaskSwitchContext(k)}
  BY DEF YieldToNewTask, At
<1>2. /\ k.nstate[t] # WAITING /\ CurReady(k) /\ t # Idle /\ x \in Tasks
  BY <1>1, AtFacts
<1>3. Sound(k, Placed) /\ Serves(k, pc[t], tcbs) BY <1>1, InvFacts
<1>4. Moves(t, Run) BY <1>1, GotoFacts
<1>5. Run.at = "run" /\ Op(Run) = "no" BY DEF Run, Op
<1>6. \/ k' = vTaskSwitchContext(k)
      \/ k' = k /\ (x \notin tcbs \/ ~(k.prio[k.cur] < k.prio[x]))
  BY <1>1 DEF YieldIfHigher
<1>7. ~Owns(pc[t]) /\ ~Owns(Run) /\ Spot(Run) /\ ~Held(Run) /\ Fits(k', t, Run)
  BY <1>1, <1>5 DEF Owns, Spot, Held, Fits
<1>8. CASE k' = vTaskSwitchContext(k)
  <2>1. /\ Sound(k', Placed) /\ Switched(k, k')
        /\ k.susp = 0 => CurReady(k') /\ NoHigher(k')
        /\ k.susp # 0 => k'.cur = k.cur /\ k'.yield
        /\ Gentle(k, k', {}) /\ Punctual(k, k')
    BY <1>3, <1>8, SwitchNow
  <2>2. Serves(k', Run, tcbs)
    <3>1. CASE k.susp = 0 BY <2>1, <3>1 DEF Serves
    <3>2. CASE k.susp # 0
      BY <1>2, <2>1, <3>2 DEF Serves, CurReady, Switched
    <3> QED BY <3>1, <3>2
  <2>3. Walks(t, Run)
    BY <1>1, <1>2, <1>4, <1>5, <1>7, <2>1, <2>2 DEF Walks, Switched, Members
  <2>4. Heeds(t, Run, {}, Placed) BY <1>5, <2>1 DEF Heeds
  <2> QED BY <2>1, <2>3, <2>4, WalksFacts
<1>9. CASE k' = k /\ (x \notin tcbs \/ ~(k.prio[k.cur] < k.prio[x]))
  <2>1. ~Off(t, pc[t]) BY <1>1 DEF Off
  <2>2. k.prio[x] \in Int /\ k.prio[k.cur] \in Int BY <1>2, InvFacts DEF Priorities
  <2>3. NoHigher(k) \/ (k.susp # 0 /\ k.yield) BY <1>1, <1>3, <1>9, <2>1, <2>2 DEF Serves
  <2>4. Serves(k', Run, tcbs) BY <1>2, <1>9, <2>3 DEF Serves
  <2>5. Walks(t, Run) BY <1>1, <1>2, <1>3, <1>4, <1>5, <1>7, <1>9, <2>4 DEF Walks
  <2>6. Gentle(k, k', {}) /\ Punctual(k, k')
    <3>1. Still(k, k') /\ Members(k, k') /\ k'.dying = k.dying BY <1>9 DEF Still, Members
    <3>2. k \in Kernels /\ k' \in Kernels BY <1>9, InvFacts
    <3> QED BY <3>1, <3>2, StillIsGentle
  <2>7. Heeds(t, Run, {}, Placed) BY <1>5, <2>6 DEF Heeds
  <2> QED BY <2>5, <2>6, <2>7, WalksFacts
<1> QED BY <1>6, <1>8, <1>9

-----------------------------------------------------------------------------
(* Deleting tasks.                                                         *)

LEMMA NothingPended ==
    ASSUME NEW x, NEW P, Sound(x, P), NEW y \in Kernels,
           ToSet(y.events[Pending]) \subseteq ToSet(x.events[Pending])
    PROVE  x.susp = 0 => y.events[Pending] = <<>>
<1>1. x \in Kernels BY GoodIsLoose DEF Sound
<1>2. x.events[Pending] \in Seq(Tasks) /\ y.events[Pending] \in Seq(Tasks) BY <1>1, PendingFields
<1>3. x.susp = 0 => ToSet(x.events[Pending]) = {} BY <1>2, SetOf DEF Sound
<1> QED BY <1>2, <1>3, SetOf

(* A task deletes itself.                                                  *)
LEMMA DeleteSelf ==
    ASSUME TaskInv, NEW t, t = k.cur, t # Idle, k.susp = 0, ~Owns(pc[t]), k.nstate[t] # WAITING,
           t \notin ToSet(k.dying), tcbs' = tcbs, load' = load,
           k' = [RemoveEvent(RemoveState(k, t), t)
                   EXCEPT !.dying = Append(@, t), !.cleanup = @ + 1],
           Moves(t, Yield([at |-> "gone"]))
    PROVE  Keeps
<1> DEFINE c == Yield([at |-> "gone"])
<1>1. Good(k, Placed) /\ Sound(k, Placed) /\ t \in Placed /\ t \in Tasks BY InvFacts
<1>2. Dies(k, Placed, t, k') BY <1>1 DEF Dies
<1>3. /\ Good(k', Placed) /\ Readied(k') = Readied(k) \ {t}
      /\ ToSet(k'.events[Pending]) = ToSet(k.events[Pending]) \ {t}
      /\ k'.cleanup = Len(k'.dying)
      /\ k'.cur = k.cur /\ k'.susp = k.susp /\ k'.num = k.num /\ k'.base = k.base
      /\ k'.prio = k.prio /\ k'.nstate = k.nstate /\ k'.nval = k.nval
      /\ Calm(k, k', {t}) /\ t \notin Timed(k')
      /\ ToSet(k'.dying) \ {t} \subseteq ToSet(k.dying)
  <2>1. Dead(k, Placed, t, k') BY <1>2, DieFacts
  <2> QED BY <2>1 DEF Dead
<1>9. k'.events[Pending] = <<>> BY <1>1, <1>3, GoodIsLoose, NothingPended
<1>10. Sound(k', Placed) BY <1>1, <1>3, <1>9 DEF Sound, IdleReady
<1>11. k'.cur = t /\ k'.susp = 0 /\ k'.nstate = k.nstate BY <1>3
<1>12. Spot(c) /\ ~Owns(c) /\ Fits(k', t, c) /\ Off(t, c) /\ c.at # "block" /\ Op(c) = "no"
  BY <1>11 DEF Spot, Owns, Fits, Off, Op, Yield, c
<1>13. Moves(t, c) BY DEF c
<1>14. Serves(k', c, tcbs) BY <1>11, <1>12 DEF Serves
<1>15. Walks(t, c) BY <1>10, <1>11, <1>12, <1>13, <1>14 DEF Walks
<1>16. Gentle(k, k', {t}) /\ Punctual(k, k')
  <2>1. \A u \in Tasks : Stays(k, k', u) BY <1>3 DEF Stays
  <2>2. k \in Kernels /\ k' \in Kernels BY <1>1, <1>3, GoodIsKernel
  <2>3. Timed(k') \cap {t} = {} BY <1>3
  <2> QED BY <1>3, <2>1, <2>2, <2>3, CalmIsGentle
<1>17. Heeds(t, c, {t}, Placed) BY <1>12, <1>16 DEF Heeds
<1> QED BY <1>15, <1>16, <1>17, WalksFacts

(* The current task t is to free the control block of x, which is on the   *)
(* lists no more.                                                          *)
Claims(t, x) ==
    /\ t = k.cur /\ ~Owns(pc[t]) /\ x \in Placed /\ x # t /\ k.nstate[t] # WAITING
    /\ Served(k) /\ tcbs' = tcbs /\ load' = load
    /\ pc' = [pc EXCEPT ![t] = [at |-> "free", task |-> x]]
    /\ Good(k', Placed \ {x}) /\ x # Idle
    /\ Readied(k') = Readied(k) \ {x} /\ k'.prio = k.prio /\ k'.base = k.base
    /\ k'.nstate = k.nstate /\ k'.cur = k.cur /\ k'.susp = k.susp /\ k'.yield = k.yield
    /\ k'.num = k.num - 1 /\ k'.cleanup = Len(k'.dying)
    /\ ToSet(k'.events[Pending]) \subseteq ToSet(k.events[Pending])

LEMMA ClaimKeeps ==
    ASSUME TaskInv, NEW t, NEW x, Claims(t, x),
           NEW T, T \subseteq {x}, Gentle(k, k', T), Punctual(k, k')
    PROVE  Keeps
<1> DEFINE c == [at |-> "free", task |-> x]
<1>1. /\ t = k.cur /\ ~Owns(pc[t]) /\ x \in Placed /\ x # t /\ k.nstate[t] # WAITING
      /\ Served(k) /\ tcbs' = tcbs /\ load' = load /\ x # Idle
      /\ pc' = [pc EXCEPT ![t] = c]
      /\ k'.nstate = k.nstate /\ k'.cur = k.cur /\ k'.susp = k.susp /\ k'.yield = k.yield
      /\ Good(k', Placed \ {x}) /\ Readied(k') = Readied(k) \ {x} /\ k'.prio = k.prio
  BY DEF Claims
<1>2. /\ Sound(k, Placed) /\ Blocks /\ DOMAIN pc = Tasks /\ t \in Placed /\ t \in Tasks
      /\ x \in Tasks
  BY <1>1, InvFacts
<1>3. Blocks' /\ Placed' = Placed \ {x} BY <1>1, <1>2, ClaimBlocks
<1>4. k'.num = Cardinality(Placed \ {x})
  <2>1. k.num = Cardinality(Placed) BY <1>2 DEF Sound
  <2>2. Cardinality(Placed \ {x}) = Cardinality(Placed) - 1 BY <1>1, Finite, FS_RemoveElement
  <2> QED BY <2>1, <2>2 DEF Claims
<1>5. k' \in Kernels BY <1>1, GoodIsLoose
<1>6. k'.susp = 0 => k'.events[Pending] = <<>>
  <2>1. ToSet(k'.events[Pending]) \subseteq ToSet(k.events[Pending]) BY DEF Claims
  <2> QED BY <1>1, <1>2, <1>5, <2>1, NothingPended
<1>7. Sound(k', Placed')
  <2>1. IdleReady(k') BY <1>1, <1>2 DEF Sound, IdleReady
  <2> QED BY <1>1, <1>2, <1>3, <1>4, <1>6, <2>1 DEF Sound, Claims
<1>8. /\ Spot(c) /\ ~Held(c) /\ Fits(k', t, c) /\ c.at = "free" /\ Op(c) = "no"
  BY <1>2 DEF Spot, Held, Fits, Op
<1>9. /\ DOMAIN pc' = Tasks /\ pc'[t] = c /\ \A u \in Tasks \ {t} : pc'[u] = pc[u]
  BY <1>1, <1>2
<1> HIDE DEF c
<1>10. Lands(t, c) BY <1>1, <1>2, <1>8, <1>9 DEF Lands
<1>11. Served(k') BY <1>1 DEF Served, CurReady, NoHigher
<1>12. Steps(t, c) BY <1>1, <1>3, <1>7, <1>10, <1>11 DEF Steps, Serves, Served
<1>13. Heeds(t, c, T, Placed') BY <1>3, <1>8 DEF Heeds
<1>14. \A u \in Placed' \ {t} : pc'[u] = pc[u]
  <2>1. Placed \subseteq Tasks BY InvFacts
  <2> QED BY <1>3, <1>9, <2>1
<1>15. TaskInv' BY <1>12, StepsFacts
<1>16. WakeInv => WakeInv' BY <1>12, <1>13, <1>14, StepsWake
<1> QED BY <1>15, <1>16 DEF Keeps

LEMMA vTaskDeleteKeeps ==
    ASSUME TaskInv, NEW t \in Tasks, vTaskDelete(t)
    PROVE  Keeps
<1>1. Calls(t, "delete") /\ tcbs' = tcbs /\ load' = load BY DEF vTaskDelete
<1>2. PICK x \in Handles \ {Idle} :
         /\ x = t => k.susp = 0
         /\ IF x = t
            THEN /\ k' = [RemoveEvent(RemoveState(k, x), x)
                            EXCEPT !.dying = Append(@, x), !.cleanup = @ + 1]
                 /\ Goto(t, Yield([at |-> "gone"]))
            ELSE /\ k' = prvResetNextTaskUnblockTime(
                             [RemoveEvent(RemoveState(k, x), x) EXCEPT !.num = @ - 1])
                 /\ Goto(t, [at |-> "free", task |-> x])
  BY DEF vTaskDelete
<1>3. x \in Placed \ ToSet(k.dying) /\ x \in Tasks /\ x # Idle BY HandleFacts
<1>4. /\ t = k.cur /\ t # Idle /\ k.nstate[t] # WAITING /\ ~Owns(pc[t]) /\ Served(k)
  BY <1>1, CallFacts DEF Served
<1>5. CASE x = t
  <2>1. Moves(t, Yield([at |-> "gone"])) BY <1>2, <1>4, <1>5, GotoFacts
  <2> QED BY <1>1, <1>2, <1>3, <1>4, <1>5, <2>1, DeleteSelf
<1>6. CASE x # t
  <2>1. Good(k, Placed) /\ Sound(k, Placed) BY InvFacts
  <2>2. k' = prvResetNextTaskUnblockTime(
                 [RemoveEvent(RemoveState(k, x), x) EXCEPT !.num = @ - 1])
    BY <1>2, <1>6
  <2>3. /\ Good(k', Placed \ {x}) /\ Readied(k') = Readied(k) \ {x}
        /\ k'.dying = k.dying /\ k'.num = k.num - 1 /\ k'.cleanup = k.cleanup
        /\ k'.cur = k.cur /\ k'.susp = k.susp /\ k'.yield = k.yield
        /\ k'.prio = k.prio /\ k'.base = k.base /\ k'.nstate = k.nstate
        /\ ToSet(k'.events[Pending]) = ToSet(k.events[Pending]) \ {x}
        /\ k'.nval = k.nval /\ Calm(k, k', {x}) /\ x \notin Timed(k')
    <3>1. Goes(k, Placed, x, k') BY <1>3, <2>1, <2>2 DEF Goes
    <3>2. Gone(k, Placed, x, k') BY <3>1, GoneFacts
    <3> QED BY <3>2 DEF Gone
  <2>4. k'.cleanup = Len(k'.dying) BY <2>1, <2>3 DEF Sound
  <2>5. pc' = [pc EXCEPT ![t] = [at |-> "free", task |-> x]] BY <1>2, <1>6 DEF Goto
  <2>6. Claims(t, x) BY <1>1, <1>3, <1>4, <1>6, <2>3, <2>4, <2>5 DEF Claims
  <2>7. Gentle(k, k', {x}) /\ Punctual(k, k')
    <3>1. \A u \in Tasks : Stays(k, k', u) BY <2>3 DEF Stays
    <3>2. k \in Kernels /\ k' \in Kernels BY <2>1, <2>3, GoodIsKernel
    <3>3. Timed(k') \cap {x} = {} BY <2>3
    <3> QED BY <2>3, <3>1, <3>2, <3>3, CalmIsGentle
  <2> QED BY <2>6, <2>7, ClaimKeeps
<1> QED BY <1>5, <1>6

LEMMA prvDeleteTCBKeeps ==
    ASSUME TaskInv, NEW t \in Tasks, prvDeleteTCB(t)
    PROVE  Keeps
<1> DEFINE x == pc[t].task
<1>1. /\ t = k.cur /\ pc[t].at = "free" /\ load' = load
      /\ k' = xTaskResumeAll(vTaskSuspendAll(k)).k
      /\ tcbs' = tcbs \ {x}
      /\ pc' = [u \in Tasks |->
                  CASE u = t -> Run
                    [] u \in Orphans(x) -> [at |-> "leaked", holds |-> Orphans(u)]
                    [] OTHER -> pc[u]]
  BY DEF prvDeleteTCB, At
<1>2. Served(k) /\ k.nstate[t] # WAITING BY <1>1, AtFacts
<1>3. Sound(k, Placed) /\ Blocks /\ DOMAIN pc = Tasks /\ t \in Placed /\ Idle \in Placed
  BY <1>1, InvFacts
<1>4. /\ Sound(k', Placed) /\ Members(k, k') /\ k'.susp = k.susp /\ Served(k')
      /\ k'.cur # k.cur => k'.susp = 0
      /\ Brings(k, k')
  BY <1>1, <1>2, <1>3, BriefNow
<1>5. DOMAIN pc' = Tasks BY <1>1
<1>6. /\ Blocks' /\ Placed' = Placed
      /\ pc'[t] = Run
      /\ \A u \in Tasks \ {t} : \/ pc'[u] = pc[u]
                                \/ pc'[u].at = "leaked" /\ u \notin Placed
  <2> HIDE DEF x
  <2>1. x = pc[t].task BY DEF x
  <2> QED BY <1>1, <1>3, <2>1, FreeBlocks
<1>7. k'.cur \in Tasks BY <1>4, InvFacts DEF Sound
<1>8. Run.at = "run" BY DEF Run
<1>9. Spot(Run) /\ ~Held(Run) /\ Fits(k', t, Run) BY <1>8 DEF Spot, Held, Fits
<1>10. Lands(t, Run)
  <2>1. ASSUME NEW u \in Tasks \ {t}
        PROVE  \/ pc'[u] = pc[u] /\ (k'.nstate[u] = WAITING => k.nstate[u] = WAITING)
               \/ u # Idle /\ pc'[u].at = "leaked"
    BY <1>3, <1>4, <1>6, <2>1 DEF Members
  <2> QED BY <1>1, <1>2, <1>4, <1>5, <1>6, <1>7, <1>8, <1>9, <2>1 DEF Lands, Members
<1>11. Steps(t, Run) BY <1>1, <1>4, <1>6, <1>10 DEF Steps, Serves, Served
<1>12. Gentle(k, k', {}) /\ Punctual(k, k') BY <1>4, InvFacts, BringsIsGentle
<1>13. Op(Run) = "no" BY DEF Op, Run
<1>14. Heeds(t, Run, {}, Placed') BY <1>6, <1>8, <1>12, <1>13 DEF Heeds
<1>15. \A u \in Placed' \ {t} : pc'[u] = pc[u]
  <2>1. Placed \subseteq Tasks BY InvFacts
  <2> QED BY <1>6, <2>1
<1>16. TaskInv' BY <1>11, StepsFacts
<1>17. WakeInv => WakeInv' BY <1>11, <1>14, <1>15, StepsWake
<1> QED BY <1>12, <1>16, <1>17 DEF Keeps

(* prvCheckTasksWaitingTermination takes the first of the deleted tasks    *)
(* off the list.                                                           *)
Reaps(x, P, y) ==
    /\ Sound(x, P) /\ x.dying # <<>>
    /\ y = [x EXCEPT !.dying = Tail(@), !.num = @ - 1, !.cleanup = @ - 1]

Reaped(x, P, t, y) ==
    /\ t \in ToSet(x.dying) /\ Good(y, P \ {t}) /\ Readied(y) = Readied(x) \ {t}
    /\ y.num = x.num - 1 /\ y.cleanup = Len(y.dying) /\ y.events = x.events
    /\ y.cur = x.cur /\ y.susp = x.susp /\ y.yield = x.yield
    /\ y.prio = x.prio /\ y.base = x.base /\ y.nstate = x.nstate /\ y.nval = x.nval
    /\ ToSet(y.dying) \subseteq ToSet(x.dying) /\ Still(x, y)

LEMMA ReapFacts ==
    ASSUME NEW x, NEW P, NEW y, Reaps(x, P, y)
    PROVE  Reaped(x, P, Head(x.dying), y)
<1> DEFINE t == Head(x.dying)
           s == Tail(x.dying)
           n == x.num - 1
           c == x.cleanup - 1
           z == [x EXCEPT !.dying = s]
           w == [z EXCEPT !.num = n]
<1>1. /\ Sound(x, P) /\ Good(x, P) /\ x.dying # <<>>
      /\ y = [x EXCEPT !.dying = Tail(@), !.num = @ - 1, !.cleanup = @ - 1]
  BY DEF Reaps, Sound
<1>2. x \in Kernels /\ x.dying \in Seq(Tasks) /\ x.num \in Int /\ x.cleanup \in Int
  BY <1>1, GoodIsLoose, KernelFields
<1>3. IsInjective(x.dying) BY <1>1 DEF Good, Orderly, Seated
<1>4. Lost(x.dying, s, t) /\ t \in ToSet(x.dying) /\ Len(s) = Len(x.dying) - 1
  BY <1>1, <1>2, <1>3, TailFacts
<1>5. s \in Seq(Tasks) /\ IsInjective(s) /\ ToSet(s) = ToSet(x.dying) \ {t} BY <1>4 DEF Lost
<1>6. n \in Int /\ c \in Int /\ c = Len(s) BY <1>1, <1>2, <1>4 DEF Sound
<1>7. y = [w EXCEPT !.cleanup = c] BY <1>1, <1>2 DEF Kernels
<1> HIDE DEF s, n, c, t
<1>8. z \in Kernels BY <1>2, <1>5 DEF Kernels
<1> DEFINE rest(a, b) ==
      /\ b.prio = a.prio /\ b.wake = a.wake /\ b.next = a.next /\ b.top = a.top
      /\ b.ready = a.ready /\ b.delayed = a.delayed /\ b.overflow = a.overflow
      /\ b.sleeping = a.sleeping /\ b.events = a.events
      /\ b.cur = a.cur /\ b.susp = a.susp /\ b.yield = a.yield
      /\ b.base = a.base /\ b.nstate = a.nstate
           same(a, b) == b.nval = a.nval /\ b.tick = a.tick /\ b.ovf = a.ovf
<1>9. rest(x, z) /\ z.dying = s BY <1>2 DEF Kernels
<1>23. same(x, z) BY <1>2 DEF Kernels
<1> HIDE DEF z
<1>10. w \in Kernels BY <1>6, <1>8 DEF Kernels
<1>11. rest(z, w) /\ w.dying = s /\ w.num = n BY <1>8, <1>9 DEF Kernels
<1>24. same(z, w) BY <1>8 DEF Kernels
<1> HIDE DEF w
<1>12. y \in Kernels BY <1>6, <1>7, <1>10 DEF Kernels
<1>13. rest(w, y) /\ y.dying = s /\ y.num = n /\ y.cleanup = c BY <1>7, <1>10, <1>11 DEF Kernels
<1>25. same(w, y) BY <1>7, <1>10 DEF Kernels
<1>14. rest(x, y) BY <1>9, <1>11, <1>13
<1>15. Readied(y) = Readied(x) BY <1>14 DEF Readied
<1>16. t \notin Readied(x)
  BY <1>1, <1>4 DEF Good, Orderly, Seated, Apart
<1>17. Seated(y, P \ {t})
  <2>1. Seated(x, P) BY <1>1 DEF Good, Orderly
  <2> QED BY <1>4, <1>5, <1>13, <1>14, <1>15, <2>1 DEF Seated, Apart
<1>18. Ranked(y) /\ InOrder(y)
  BY <1>1, <1>14 DEF Good, Orderly, Ranked, InOrder
<1>19. Evented(y, P \ {t}) BY <1>1, <1>4, <1>5, <1>13, <1>14 DEF Good, Evented
<1>20. Good(y, P \ {t}) BY <1>12, <1>17, <1>18, <1>19 DEF Good, Orderly
<1>21. y.num = x.num - 1 /\ y.cleanup = Len(y.dying) BY <1>6, <1>13 DEF n
<1>26. same(x, y) BY <1>23, <1>24, <1>25
<1>27. Still(x, y) /\ ToSet(y.dying) \subseteq ToSet(x.dying)
  BY <1>5, <1>13, <1>14, <1>15, <1>26 DEF Still
<1>22. Reaped(x, P, t, y) BY <1>4, <1>14, <1>15, <1>16, <1>20, <1>21, <1>26, <1>27 DEF Reaped
<1> QED BY <1>22 DEF t

LEMMA prvIdleTaskKeeps ==
    ASSUME TaskInv, prvIdleTask
    PROVE  Keeps
<1>1. /\ k.cur = Idle /\ pc[Idle] = Run /\ tcbs' = tcbs /\ load' = load
      /\ \/ prvCheckTasksWaitingTermination
         \/ k' = vTaskSwitchContext(k) /\ pc' = pc
         \/ k' = k /\ pc' = pc
  BY DEF prvIdleTask
<1>2. pc[Idle].at = "run" BY <1>1 DEF Run
<1>3. Served(k) /\ k.nstate[Idle] # WAITING BY <1>1, <1>2, AtFacts
<1>4. /\ Sound(k, Placed) /\ Good(k, Placed) /\ IdleReady(k) /\ ToSet(k.dying) \subseteq Placed
      /\ Readied(k) \cap ToSet(k.dying) = {} /\ Serves(k, pc[k.cur], tcbs)
  BY InvFacts
<1>5. CASE k' = vTaskSwitchContext(k) /\ pc' = pc BY <1>1, <1>4, <1>5, SwitchKeeps
<1>6. CASE k' = k /\ pc' = pc
  <2>1. Fits(k, k.cur, pc[k.cur]) BY InvFacts
  <2>2. Passes BY <1>1, <1>4, <1>6, <2>1 DEF Passes, Fits
  <2>3. Still(k, k') /\ Members(k, k') /\ k'.dying = k.dying BY <1>6 DEF Still, Members
  <2>4. k \in Kernels /\ k' \in Kernels BY <1>6, InvFacts
  <2>5. Gentle(k, k', {}) /\ Punctual(k, k') BY <2>3, <2>4, StillIsGentle
  <2>6. Mild(k', {}) BY <2>3, <2>5 DEF Mild, Rests, Still
  <2> QED BY <2>2, <2>6, MildKeeps
<1>7. CASE prvCheckTasksWaitingTermination
  <2> DEFINE x == Head(k.dying)
  <2>1. /\ k.cleanup > 0
        /\ k' = [k EXCEPT !.dying = Tail(@), !.num = @ - 1, !.cleanup = @ - 1]
        /\ pc' = [pc EXCEPT ![Idle] = [at |-> "free", task |-> x]]
    BY <1>7 DEF prvCheckTasksWaitingTermination, Goto
  <2>2. k.dying # <<>> BY <1>4, <2>1 DEF Sound
  <2>3. Reaps(k, Placed, k') BY <1>4, <2>1, <2>2 DEF Reaps
  <2>4. Reaped(k, Placed, x, k') BY <2>3, ReapFacts
  <2> HIDE DEF x
  <2>5. x \in Placed /\ x # Idle BY <1>4, <2>4 DEF Reaped, IdleReady
  <2>6. ~Owns(pc[Idle]) BY <1>2 DEF Owns
  <2>7. Claims(Idle, x) BY <1>1, <1>3, <2>1, <2>4, <2>5, <2>6 DEF Claims, Reaped
  <2>8. Gentle(k, k', {}) /\ Punctual(k, k')
    <3>1. /\ Still(k, k') /\ ToSet(k'.dying) \subseteq ToSet(k.dying)
          /\ k'.nstate = k.nstate /\ k'.nval = k.nval /\ Good(k', Placed \ {x})
      BY <2>4 DEF Reaped
    <3>2. Calm(k, k', {}) BY <3>1, StillIsCalm
    <3>3. \A u \in Tasks : Stays(k, k', u) BY <3>1 DEF Stays
    <3>4. k \in Kernels /\ k' \in Kernels BY <1>4, <3>1, GoodIsKernel
    <3> QED BY <3>1, <3>2, <3>3, <3>4, CalmIsGentle
  <2> QED BY <2>7, <2>8, ClaimKeeps
<1> QED BY <1>1, <1>5, <1>6, <1>7

-----------------------------------------------------------------------------
(* The tick.                                                               *)

LEMMA TickKeeps ==
    ASSUME TaskInv, Tick
    PROVE  Keeps
<1> DEFINE r == xTaskIncrementTick(k)
           y == r.k
<1>1. k' = (IF r.switch THEN vTaskSwitchContext(y) ELSE y) /\ pc' = pc /\ tcbs' = tcbs /\ load' = load
  BY DEF Tick, SwitchAfterTick
<1>2. /\ Sound(k, Placed) /\ Good(k, Placed) /\ Serves(k, pc[k.cur], tcbs)
      /\ Fits(k, k.cur, pc[k.cur])
  BY InvFacts
<1>3. /\ Good(y, Placed) /\ Alike(k, y) /\ y.yield = k.yield /\ y.dying = k.dying
      /\ Readied(k) \subseteq Readied(y)
      /\ ToSet(y.events[Pending]) \subseteq ToSet(k.events[Pending])
      /\ r.switch \in BOOLEAN
      /\ k.susp # 0 => Readied(y) = Readied(k)
      /\ k.susp = 0 /\ (k.yield \/ NoHigher(k)) => r.switch \/ NoHigher(y)
  BY <1>2, IncrementTickFacts
<1>10. (k.susp = 0 => Later(k, y, 1)) /\ (k.susp # 0 => Still(k, y))
  BY <1>2, IncrementTickTime
<1> HIDE DEF r
<1>4. y \in Kernels BY <1>3, GoodIsLoose
<1>5. k.susp = 0 => y.events[Pending] = <<>> BY <1>2, <1>3, <1>4, NothingPended
<1>6. Sound(y, Placed) BY <1>2, <1>3, <1>5 DEF Sound, Alike, IdleReady
<1>7. Roused(y) BY <1>1, <1>2, <1>3, <1>6 DEF Roused, Alike, Fits
<1>12. k \in Kernels /\ k.pended \in Nat BY InvFacts, KernelFields
<1>13. Members(k, y) BY <1>3 DEF Alike, Members
<1> HIDE DEF y
<1>11. Gentle(k, y, {}) /\ Punctual(k, y)
  <2>1. CASE k.susp = 0
    <3>1. Later(k, y, 1) /\ 1 \in Nat /\ 1 <= k.pended + 1 BY <1>10, <1>12, <2>1
    <3>2. Punctual(k, y) BY <3>1, LaterIsPunctual
    <3>3. Kept(k, y, {}) BY <3>1 DEF Later
    <3>4. \A u \in Tasks : Stays(k, y, u) BY <1>13 DEF Stays, Members
    <3> QED BY <1>3, <3>2, <3>3, <3>4 DEF Gentle
  <2>2. CASE k.susp # 0 BY <1>3, <1>4, <1>10, <1>12, <1>13, <2>2, StillIsGentle
  <2> QED BY <2>1, <2>2
<1>14. Mild(y, {})
  <2>1. pc[k.cur].at = "block" => y.events = k.events BY <1>2, <1>10 DEF Fits, Still
  <2> QED BY <1>11, <2>1 DEF Mild, Rests
<1>8. CASE r.switch BY <1>1, <1>7, <1>8, <1>14, RousedKeeps
<1>9. CASE ~r.switch
  <2>1. k' = y BY <1>1, <1>9
  <2>2. Serves(y, pc[k.cur], tcbs)
    <3>1. CASE k.susp # 0 BY <1>2, <1>3, <3>1, ServesOn DEF Alike
    <3>2. CASE k.susp = 0 BY <1>2, <1>3, <1>9, <3>2 DEF Serves, Alike, CurReady
    <3> QED BY <3>1, <3>2
  <2>3. Passes BY <1>2, <1>3, <1>6, <1>7, <2>1, <2>2 DEF Passes, Alike, Roused
  <2>4. Mild(k', {}) BY <1>14, <2>1
  <2> QED BY <2>3, <2>4, MildKeeps
<1> QED BY <1>3, <1>8, <1>9

-----------------------------------------------------------------------------
(* Notifications.                                                          *)

(* The notification value or state of t is written.                        *)
Marks(x, P, t, v, n, y) ==
    /\ Sound(x, P) /\ t \in Tasks /\ v \in Int /\ n \in 0 .. 2
    /\ n = WAITING => t \notin ToSet(x.events[Pending])
    /\ \/ y = [x EXCEPT !.nval[t] = v]
       \/ y = [x EXCEPT !.nstate[t] = n]

Marked(x, P, t, v, n, y) ==
    /\ Sound(y, P) /\ Still(x, y) /\ y.dying = x.dying
    /\ \A u \in Tasks \ {t} : y.nstate[u] = x.nstate[u] /\ y.nval[u] = x.nval[u]
    /\ y.nval[t] \in {x.nval[t], v}
    /\ y.cur = x.cur /\ y.susp = x.susp /\ y.yield = x.yield /\ y.prio = x.prio
    /\ y.nstate \in [Tasks -> 0 .. 2] /\ y.nval \in [Tasks -> Int]
    /\ \/ y.nstate = x.nstate
       \/ y.nstate = [x.nstate EXCEPT ![t] = n]

LEMMA MarkFacts ==
    ASSUME NEW x, NEW P, NEW t, NEW v, NEW n, NEW y, Marks(x, P, t, v, n, y)
    PROVE  Marked(x, P, t, v, n, y)
<1>1. /\ Sound(x, P) /\ Good(x, P) /\ t \in Tasks /\ v \in Int /\ n \in 0 .. 2
      /\ n = WAITING => t \notin ToSet(x.events[Pending])
      /\ \/ y = [x EXCEPT !.nval[t] = v]
         \/ y = [x EXCEPT !.nstate[t] = n]
  BY DEF Marks, Sound
<1>2. x \in Kernels /\ x.nstate \in [Tasks -> 0 .. 2] /\ x.nval \in [Tasks -> Int]
  BY <1>1, GoodIsLoose, KernelFields
<1>3. /\ y \in Kernels /\ Shelved(x, y) /\ y.tick = x.tick /\ y.ovf = x.ovf
      /\ y.cur = x.cur /\ y.susp = x.susp /\ y.yield = x.yield /\ y.num = x.num
      /\ y.cleanup = x.cleanup /\ y.base = x.base
      /\ \/ y.nstate = x.nstate /\ y.nval = [x.nval EXCEPT ![t] = v]
         \/ y.nstate = [x.nstate EXCEPT ![t] = n] /\ y.nval = x.nval
  <2>1. CASE y = [x EXCEPT !.nval[t] = v]
    <3>1. y \in Kernels BY <1>1, <1>2, <2>1 DEF Kernels
    <3> QED BY <1>2, <2>1, <3>1 DEF Kernels, Shelved
  <2>2. CASE y = [x EXCEPT !.nstate[t] = n]
    <3>1. y \in Kernels BY <1>1, <1>2, <2>2 DEF Kernels
    <3> QED BY <1>2, <2>2, <3>1 DEF Kernels, Shelved
  <2> QED BY <1>1, <2>1, <2>2
<1>4. Good(y, P) /\ Readied(y) = Readied(x) BY <1>1, <1>3, ShelvedFacts
<1>5. y.nstate \in [Tasks -> 0 .. 2] /\ y.nval \in [Tasks -> Int] BY <1>3, KernelFields
<1>6. ASSUME NEW u \in ToSet(y.events[Pending]) PROVE y.nstate[u] # WAITING
  <2>1. u \in ToSet(x.events[Pending]) BY <1>3, <1>6 DEF Shelved
  <2>2. u \in Tasks /\ x.nstate[u] # WAITING BY <1>1, <1>2, <2>1, PendingFields DEF Sound
  <2> QED BY <1>1, <1>2, <1>3, <2>1, <2>2
<1>7. Sound(y, P) BY <1>1, <1>3, <1>4, <1>6 DEF Sound, Shelved, IdleReady
<1>8. Still(x, y) BY <1>3, <1>4 DEF Still, Shelved
<1>9. /\ \A u \in Tasks \ {t} : y.nstate[u] = x.nstate[u] /\ y.nval[u] = x.nval[u]
      /\ y.nval[t] \in {x.nval[t], v}
  BY <1>1, <1>2, <1>3
<1> QED BY <1>3, <1>5, <1>7, <1>8, <1>9 DEF Marked, Shelved

(* Both are, in either order.                                              *)
MarksBoth(x, P, t, v, n, y) ==
    /\ Sound(x, P) /\ t \in Tasks /\ v \in Int /\ n \in 0 .. 2 /\ n # WAITING
    /\ \/ y = [x EXCEPT !.nval[t] = v, !.nstate[t] = n]
       \/ y = [x EXCEPT !.nstate[t] = n, !.nval[t] = v]

LEMMA MarkBothFacts ==
    ASSUME NEW x, NEW P, NEW t, NEW v, NEW n, NEW y, MarksBoth(x, P, t, v, n, y)
    PROVE  Marked(x, P, t, v, n, y) /\ y.nstate[t] = n
<1>1. /\ Sound(x, P) /\ Good(x, P) /\ t \in Tasks /\ v \in Int /\ n \in 0 .. 2 /\ n # WAITING
      /\ \/ y = [x EXCEPT !.nval[t] = v, !.nstate[t] = n]
         \/ y = [x EXCEPT !.nstate[t] = n, !.nval[t] = v]
  BY DEF MarksBoth, Sound
<1>2. x \in Kernels /\ x.nstate \in [Tasks -> 0 .. 2] BY <1>1, GoodIsLoose, KernelFields
<1>5. ASSUME NEW z, NEW m, Marked(x, P, t, v, m, z), Marked(z, P, t, v, n, y),
             z.nstate = x.nstate \/ y.nstate = z.nstate, m = n \/ z.nstate = x.nstate
      PROVE  Marked(x, P, t, v, n, y)
  BY <1>5 DEF Marked, Still
<1>3. CASE y = [x EXCEPT !.nval[t] = v, !.nstate[t] = n]
  <2> DEFINE z == [x EXCEPT !.nval[t] = v]
  <2>1. y = [z EXCEPT !.nstate[t] = n] /\ z.nstate = x.nstate /\ y.nstate[t] = n
    BY <1>1, <1>2, <1>3 DEF Kernels
  <2>2. Marks(x, P, t, v, 0, z) BY <1>1 DEF Marks, WAITING
  <2> HIDE DEF z
  <2>3. Marked(x, P, t, v, 0, z) BY <2>2, MarkFacts
  <2>4. Marks(z, P, t, v, n, y)
    <3>1. Sound(z, P) BY <2>3 DEF Marked
    <3> HIDE DEF MarksBoth
    <3> QED BY <1>1, <2>1, <3>1 DEF Marks
  <2>5. Marked(z, P, t, v, n, y) BY <2>4, MarkFacts
  <2> QED BY <1>5, <2>1, <2>3, <2>5
<1>4. CASE y = [x EXCEPT !.nstate[t] = n, !.nval[t] = v]
  <2> DEFINE z == [x EXCEPT !.nstate[t] = n]
  <2>1. y = [z EXCEPT !.nval[t] = v] /\ y.nstate = z.nstate /\ y.nstate[t] = n
    BY <1>1, <1>2, <1>4 DEF Kernels
  <2>2. Marks(x, P, t, v, n, z) BY <1>1 DEF Marks
  <2> HIDE DEF z
  <2>3. Marked(x, P, t, v, n, z) BY <2>2, MarkFacts
  <2>4. Marks(z, P, t, v, 0, y)
    <3>1. Sound(z, P) BY <2>3 DEF Marked
    <3> QED BY <1>1, <2>1, <3>1 DEF Marks, WAITING
  <2>5. Marked(z, P, t, v, 0, y) BY <2>4, MarkFacts
  <2>6. Marked(z, P, t, v, n, y) BY <2>1, <2>5 DEF Marked
  <2> QED BY <1>5, <2>1, <2>3, <2>6
<1> QED BY <1>1, <1>3, <1>4

(* The value after a call is a number.                                     *)
LEMMA Values ==
    /\ \A a, b : Clear(a, b) \in Int /\ Or(a, b) \in Int
    /\ \A a, s, v \in Int, m \in NotifyActions : Notified(a, s, m, v) \in Int
<1>1. \A i \in Int : \A b : Bit(i, b) \in Int BY DEF Bit
<1>2. \A a, b : Clear(a, b) \in Int /\ Or(a, b) \in Int
  <2> TAKE a, b
  <2>1. /\ Bit(1, Has(a, 1) /\ ~Has(b, 1)) \in Int /\ Bit(2, Has(a, 2) /\ ~Has(b, 2)) \in Int
        /\ Bit(1, Has(a, 1) \/ Has(b, 1)) \in Int /\ Bit(2, Has(a, 2) \/ Has(b, 2)) \in Int
    BY DEF Bit
  <2> QED BY <2>1 DEF Clear, Or
<1>3. \A a, s, v \in Int, m \in NotifyActions : Notified(a, s, m, v) \in Int
  <2> TAKE a, s, v \in Int, m \in NotifyActions
  <2> QED BY <1>2 DEF Notified, NotifyActions
<1> QED BY <1>2, <1>3

(* The current task, whose call is c, looks at its notifications.          *)
LEMMA LookFacts ==
    ASSUME TaskInv, NEW t, t = k.cur, pc[t].at \in {"run", "check", "block", "done"}
    PROVE  /\ t \in Tasks /\ t \in Placed /\ t \notin ToSet(k.dying) /\ Served(k) /\ ~Owns(pc[t])
           /\ pc[t].at # "run" => t # Idle
           /\ pc[t].at \in {"run", "check"} => k.nstate[t] # WAITING
           /\ pc[t].at \in {"check", "block"} => k.susp = 1 /\ pc[t] \in Waits /\ pc[t].wait > 0
           /\ pc[t].at = "check" => t \notin ToSet(k.events[Pending])
<1>1. /\ Places /\ Spot(pc[t]) /\ Serves(k, pc[t], tcbs) /\ t \in Tasks /\ t \in Placed
      /\ Fits(k, t, pc[t]) /\ Readied(k) \cap ToSet(k.dying) = {}
  BY InvFacts
<1>2. Served(k) BY <1>1 DEF Serves, Served, Off
<1>3. t \notin ToSet(k.dying) BY <1>1, <1>2 DEF Served, CurReady
<1>4. pc[t].at # "run" => t # Idle BY <1>1 DEF Places
<1>5. pc[t].at \in {"run", "check"} => k.nstate[t] # WAITING BY <1>1 DEF Places, InWait
<1> QED BY <1>1, <1>2, <1>3, <1>4, <1>5 DEF Spot, Fits, Owns

(* The task goes to another place in its call; it has been served so far.  *)
Looks(t, c) ==
    /\ t = k.cur /\ pc[t].at \in {"run", "check", "done"} /\ Moves(t, c)
    /\ Sound(k', Placed) /\ k'.cur = t /\ Served(k') /\ tcbs' = tcbs /\ load' = load
    /\ Spot(c) /\ ~Owns(c) /\ Fits(k', t, c) /\ (t = Idle => c.at = "run")
    /\ \A u \in Tasks \ {t} : k'.nstate[u] = WAITING => k.nstate[u] = WAITING
    /\ k'.nstate[t] = WAITING => InWait(c)

LEMMA LookKeeps ==
    ASSUME TaskInv, NEW t, NEW c, Looks(t, c), NEW T, Heeds(t, c, T, Placed), Punctual(k, k')
    PROVE  Keeps
<1>1. ~Owns(pc[t]) BY LookFacts DEF Looks
<1>2. Serves(k', c, tcbs) BY DEF Looks, Served, Serves
<1>3. Walks(t, c) BY <1>1, <1>2 DEF Looks, Walks
<1> QED BY <1>3, WalksFacts

(* A call's record at another place in the call.                           *)
LEMMA WaitPlaces ==
    ASSUME NEW c \in Waits, NEW a \in WaitPlace, NEW d, d = [c EXCEPT !.at = a]
    PROVE  /\ d \in Waits /\ d.at = a /\ d.op = c.op /\ d.wait = c.wait
           /\ c.wait \in Ticks /\ c.op \in WaitCall
<1> DEFINE A == [at : WaitPlace, op : WaitCall, wait : Ticks, all : BOOLEAN]
           B == [at : WaitPlace, op : WaitCall, wait : Ticks, entry : Int, exit : Int]
<1>1. CASE c \in A
  <2>1. d \in A /\ d.at = a /\ d.op = c.op /\ d.wait = c.wait /\ c.wait \in Ticks /\ c.op \in WaitCall
    BY <1>1
  <2> QED BY <2>1 DEF Waits
<1>2. CASE c \in B
  <2>1. d \in B /\ d.at = a /\ d.op = c.op /\ d.wait = c.wait /\ c.wait \in Ticks /\ c.op \in WaitCall
    BY <1>2
  <2> QED BY <2>1 DEF Waits
<1> QED BY <1>1, <1>2 DEF Waits

(* How long a wait may be asked to last.                                   *)
LEMMA WaitTicks == \A n \in Delays \cup {MaxDelay} : n \in Ticks
<1>1. MaxDelay \in Ticks BY KernelAssumption DEF Ticks
<1>2. Delays \subseteq Ticks BY TasksAssumption
<1> QED BY <1>1, <1>2

(* The kernel is left as it is.                                            *)
LEMMA Unmoved ==
    ASSUME TaskInv, k' = k
    PROVE  Gentle(k, k', {}) /\ Punctual(k, k')
<1>1. Still(k, k') /\ Members(k, k') BY DEF Still, Members
<1>2. k \in Kernels BY InvFacts
<1> QED BY <1>1, <1>2, StillIsGentle

LEMMA NotifyEnterKeeps ==
    ASSUME TaskInv, NEW t \in Tasks, NEW op, Calls(t, op), NEW call \in Waits,
           NEW empty \in BOOLEAN, NotifyEnter(t, call, empty), tcbs' = tcbs, load' = load
    PROVE  Keeps
<1> DEFINE d == [call EXCEPT !.at = "done"]
           c == [call EXCEPT !.at = "check"]
<1>1. t = k.cur /\ pc[t] = Run /\ t # Idle /\ k.nstate[t] # WAITING BY CallFacts
<1>2. pc[t].at = "run" BY <1>1 DEF Run
<1>3. Sound(k, Placed) /\ Served(k) BY <1>1, <1>2, InvFacts, LookFacts
<1>4. d \in Waits /\ d.at = "done" /\ c \in Waits /\ c.at = "check" /\ c.wait = call.wait
  <2>1. d = [call EXCEPT !.at = "done"] /\ c = [call EXCEPT !.at = "check"] OBVIOUS
  <2> HIDE DEF c, d
  <2> QED BY <2>1, WaitPlaces DEF WaitPlace
<1>5. \/ /\ call.wait > 0 /\ k.susp = 0 /\ k' = vTaskSuspendAll(k) /\ Goto(t, c)
      \/ k' = k /\ Goto(t, d)
  BY DEF NotifyEnter
<1> HIDE DEF c, d
<1>6. CASE k' = k /\ Goto(t, d)
  <2>1. Moves(t, d) BY <1>1, <1>6, GotoFacts
  <2>2. Spot(d) /\ ~Owns(d) /\ Fits(k', t, d) BY <1>4 DEF Spot, Owns, Fits
  <2>3. Looks(t, d) BY <1>1, <1>2, <1>3, <1>6, <2>1, <2>2 DEF Looks
  <2>4. Gentle(k, k', {}) /\ Punctual(k, k') BY <1>6, Unmoved
  <2>5. Minded(k', Suspends, t, d)
    <3>1. t \in Readied(k') BY <1>1, <1>3, <1>6 DEF Served, CurReady
    <3> QED BY <1>4, <3>1 DEF Minded, Awake
  <2>6. Heeds(t, d, {}, Placed) BY <2>4, <2>5 DEF Heeds
  <2> QED BY <2>3, <2>4, <2>6, LookKeeps
<1>7. CASE call.wait > 0 /\ k.susp = 0 /\ k' = vTaskSuspendAll(k) /\ Goto(t, c)
  <2>1. Moves(t, c) BY <1>1, <1>7, GotoFacts
  <2>2. /\ Sound(k', Placed) /\ Members(k, k') /\ Readied(k') = Readied(k) /\ k'.susp = 1
        /\ k'.cur = k.cur /\ k'.events = k.events /\ Gentle(k, k', {}) /\ Punctual(k, k')
    BY <1>3, <1>7, SuspendNow
  <2>3. ToSet(k'.events[Pending]) = {}
    <3>1. k.events[Pending] = <<>> BY <1>3, <1>7 DEF Sound
    <3>2. k.events[Pending] \in Seq(Tasks) BY InvFacts, PendingFields
    <3> QED BY <2>2, <3>1, <3>2, SetOf
  <2>4. Served(k') BY <1>3, <1>7, <2>2 DEF Served, CurReady, NoHigher, Members
  <2>5. Spot(c) /\ ~Owns(c) /\ Fits(k', t, c) BY <1>4, <1>7, <2>2, <2>3 DEF Spot, Owns, Fits
  <2>6. Looks(t, c) BY <1>1, <1>2, <1>7, <2>1, <2>2, <2>4, <2>5 DEF Looks, Members
  <2>7. Heeds(t, c, {}, Placed) BY <1>4, <2>2 DEF Heeds, Op
  <2> QED BY <2>2, <2>6, <2>7, LookKeeps
<1> QED BY <1>5, <1>6, <1>7

(* Only what t is notified of changes.                                     *)
LEMMA StillMarked ==
    ASSUME TaskInv, Sound(k', Placed), Still(k, k'), k'.dying = k.dying, NEW t,
           \A u \in Tasks \ {t} : k'.nstate[u] = k.nstate[u] /\ k'.nval[u] = k.nval[u]
    PROVE  Gentle(k, k', {t}) /\ Punctual(k, k')
<1>1. Calm(k, k', {t}) /\ Calm(k, k', {}) BY StillIsCalm
<1>2. \A u \in Tasks \ {t} : Stays(k, k', u) BY DEF Stays
<1>3. k \in Kernels /\ k' \in Kernels BY InvFacts, GoodIsKernel DEF Sound
<1>4. Punctual(k, k') BY <1>1, <1>3, CalmIsPunctual DEF Calm
<1> QED BY <1>1, <1>2, <1>4 DEF Gentle, Calm

(* The second look, with the scheduler suspended: k1 is the kernel with    *)
(* the bits cleared on entry.                                              *)
LEMMA NotifyCheckKeeps ==
    ASSUME TaskInv, NEW t \in Tasks, NEW k1, NEW empty \in BOOLEAN, At(t, "check"),
           k1 = k \/ \E v \in Int : k1 = [k EXCEPT !.nval[t] = v],
           pc[t].op = "notifyTake" => k1 = k /\ empty = (k.nval[t] = 0),
           NotifyCheck(t, k1, empty), tcbs' = tcbs, load' = load
    PROVE  Keeps
<1> DEFINE c == [pc[t] EXCEPT !.at = "block"]
           d == [pc[t] EXCEPT !.at = "done"]
           e == [at |-> "resumeOnly", then |-> d]
<1>1. t = k.cur /\ pc[t].at = "check" BY DEF At
<1>2. /\ Served(k) /\ t # Idle /\ k.nstate[t] # WAITING /\ k.susp = 1 /\ pc[t] \in Waits
      /\ pc[t].wait > 0
      /\ t \notin ToSet(k.events[Pending])
  BY <1>1, LookFacts
<1>3. Sound(k, Placed) BY InvFacts
<1>4. d.at = "done" /\ c \in Waits /\ c.at = "block" /\ c.wait = pc[t].wait /\ c.op = pc[t].op
  <2>1. d = [pc[t] EXCEPT !.at = "done"] /\ c = [pc[t] EXCEPT !.at = "block"] OBVIOUS
  <2> HIDE DEF c, d
  <2> QED BY <1>2, <2>1, WaitPlaces DEF WaitPlace
<1>5. \/ empty /\ k' = [k1 EXCEPT !.nstate[t] = WAITING] /\ Goto(t, c)
      \/ k' = k /\ Goto(t, e)
  BY DEF NotifyCheck
<1> HIDE DEF c, d
<1>6. CASE k' = k /\ Goto(t, e)
  <2>1. Moves(t, e) BY <1>1, <1>6, GotoFacts
  <2>2. Spot(e) /\ ~Owns(e) /\ Fits(k', t, e) BY <1>2, <1>4, <1>6 DEF Spot, Owns, Fits
  <2>4. e.at # "block" /\ Op(e) = "no" BY DEF Op
  <2> HIDE DEF e
  <2>3. Looks(t, e) BY <1>1, <1>2, <1>3, <1>6, <2>1, <2>2 DEF Looks
  <2>5. Gentle(k, k', {}) /\ Punctual(k, k') BY <1>6, Unmoved
  <2>6. Heeds(t, e, {}, Placed) BY <2>4, <2>5 DEF Heeds
  <2> QED BY <2>3, <2>5, <2>6, LookKeeps
<1>7. CASE empty /\ k' = [k1 EXCEPT !.nstate[t] = WAITING] /\ Goto(t, c)
  <2>1. Moves(t, c) BY <1>1, <1>7, GotoFacts
  <2>2. /\ Sound(k1, Placed) /\ Still(k, k1) /\ k1.dying = k.dying
        /\ k1.cur = k.cur /\ k1.susp = k.susp /\ k1.yield = k.yield /\ k1.prio = k.prio
        /\ k1.nstate = k.nstate /\ \A u \in Tasks \ {t} : k1.nval[u] = k.nval[u]
    <3>1. CASE k1 = k BY <1>3, <3>1 DEF Still
    <3>2. CASE \E v \in Int : k1 = [k EXCEPT !.nval[t] = v]
      <4>1. PICK v \in Int : k1 = [k EXCEPT !.nval[t] = v] BY <3>2
      <4>2. Marks(k, Placed, t, v, 0, k1) BY <1>3, <4>1 DEF Marks, WAITING
      <4>3. Marked(k, Placed, t, v, 0, k1) BY <4>2, MarkFacts
      <4>4. k1.nstate = k.nstate BY <4>1, InvFacts DEF Kernels
      <4> QED BY <4>3, <4>4 DEF Marked
    <3> QED BY <3>1, <3>2
  <2>3. Marks(k1, Placed, t, 0, WAITING, k') BY <1>2, <1>7, <2>2 DEF Marks, WAITING, Still
  <2>4. Marked(k1, Placed, t, 0, WAITING, k') BY <2>3, MarkFacts
  <2>8. Still(k, k') /\ k'.dying = k.dying /\ k'.prio = k.prio
    BY <2>2, <2>4 DEF Marked, Still
  <2>5. /\ Sound(k', Placed) /\ k'.cur = t /\ k'.susp = 1 /\ Served(k')
        /\ \A u \in Tasks \ {t} : k'.nstate[u] = k.nstate[u] /\ k'.nval[u] = k.nval[u]
    BY <1>1, <1>2, <2>2, <2>4, <2>8 DEF Marked, Served, CurReady, NoHigher, Still
  <2>6. Spot(c) /\ ~Owns(c) /\ Fits(k', t, c) /\ InWait(c)
    BY <1>2, <1>4, <2>5 DEF Spot, Owns, Fits, InWait
  <2>7. Looks(t, c) BY <1>1, <1>2, <2>1, <2>5, <2>6 DEF Looks
  <2>9. Gentle(k, k', {t}) /\ Punctual(k, k') BY <2>5, <2>8, StillMarked
  <2>10. Expects(k', t, c.op)
    <3>1. k'.nstate[t] = WAITING BY <1>7, <2>2, GoodIsKernel DEF Sound, Kernels
    <3>2. c.op = "notifyTake" => k'.nval[t] = 0
      <4>1. c.op = "notifyTake" => k1.nval[t] = 0 BY <1>4, <1>7
      <4> QED BY <2>4, <4>1 DEF Marked
    <3> QED BY <3>1, <3>2 DEF Expects
  <2>11. Minded(k', Suspends, t, c) BY <1>4, <2>10 DEF Minded, Op
  <2>12. Heeds(t, c, {t}, Placed) BY <2>9, <2>11 DEF Heeds
  <2> QED BY <2>7, <2>9, <2>12, LookKeeps
<1> QED BY <1>5, <1>6, <1>7

LEMMA NotifyBlockKeeps ==
    ASSUME TaskInv, Clocked, NEW t \in Tasks, At(t, "block"), NotifyBlock(t),
           tcbs' = tcbs, load' = load
    PROVE  Endures
<1> DEFINE d == [pc[t] EXCEPT !.at = "done"]
<1>1. t = k.cur /\ pc[t].at = "block" BY DEF At
<1>2. /\ t # Idle /\ k.susp = 1 /\ pc[t] \in Waits /\ t \notin ToSet(k.dying) /\ ~Owns(pc[t])
      /\ pc[t].wait > 0
  BY <1>1, LookFacts
<1>3. d.at = "done" /\ d.op = pc[t].op /\ pc[t].wait \in Ticks
  <2>1. d = [pc[t] EXCEPT !.at = "done"] OBVIOUS
  <2> HIDE DEF d
  <2> QED BY <1>2, <2>1, WaitPlaces DEF WaitPlace
<1>4. /\ k' = prvAddCurrentTaskToDelayedList(k, pc[t].wait, TRUE) /\ Goto(t, Resume(d))
      /\ Sleep(t, pc[t].wait)
  BY DEF NotifyBlock
<1> HIDE DEF d
<1>5. Moves(t, Resume(d)) BY <1>1, <1>4, GotoFacts
<1>6. Sound(k, Placed) /\ Members(k, k) /\ Still(k, k) BY InvFacts DEF Members, Still
<1>7. Naps(t, k, pc[t].wait, TRUE, d) BY <1>1, <1>2, <1>3, <1>4, <1>5, <1>6 DEF Naps
<1>8. TaskInv' /\ (WakeInv => WakeInv') /\ Sleeps(k, k', t, Plus(k.tick, pc[t].wait))
  BY <1>7, NapKeeps
<1>9. pc[t].wait \in 1 .. MaxDelay BY <1>2, <1>3, KernelAssumption DEF Ticks
<1>10. Timely(k', until') BY <1>4, <1>8, <1>9, SleepEnds
<1>11. k'.tick = k.tick BY <1>8 DEF Sleeps, Calm, Timeless
<1> QED BY <1>8, <1>10, <1>11 DEF Endures, Elapses

(* The end of a wait.                                                      *)
Ends(t, v) ==
    /\ At(t, "done") /\ v \in Int /\ Goto(t, Run) /\ tcbs' = tcbs /\ load' = load
    /\ k' = [k EXCEPT !.nval[t] = v, !.nstate[t] = NOT_WAITING]

LEMMA NotifyDoneKeeps ==
    ASSUME TaskInv, NEW t, NEW v, Ends(t, v)
    PROVE  Keeps
<1>0. /\ v \in Int /\ Goto(t, Run) /\ tcbs' = tcbs /\ load' = load
      /\ k' = [k EXCEPT !.nval[t] = v, !.nstate[t] = NOT_WAITING]
  BY DEF Ends
<1>1. t = k.cur /\ pc[t].at = "done" /\ t \in Tasks BY InvFacts DEF Ends, At
<1>2. Served(k) /\ Sound(k, Placed) BY <1>1, LookFacts, InvFacts
<1>3. NOT_WAITING \in 0 .. 2 /\ NOT_WAITING # WAITING BY DEF NOT_WAITING, WAITING
<1>4. MarksBoth(k, Placed, t, v, NOT_WAITING, k') BY <1>0, <1>1, <1>2, <1>3 DEF MarksBoth
<1>5. Marked(k, Placed, t, v, NOT_WAITING, k') /\ k'.nstate[t] # WAITING
  <2> DEFINE n == NOT_WAITING
             y == k'
  <2>1. MarksBoth(k, Placed, t, v, n, y) BY <1>4
  <2> HIDE DEF n, y
  <2>2. Marked(k, Placed, t, v, n, y) /\ y.nstate[t] = n BY <2>1, MarkBothFacts
  <2> QED BY <1>3, <2>2 DEF n, y
<1>7. /\ \A u \in Tasks \ {t} : k'.nstate[u] = k.nstate[u] /\ k'.nval[u] = k.nval[u]
      /\ Still(k, k') /\ k'.dying = k.dying
  BY <1>5 DEF Marked
<1>9. Sound(k', Placed) /\ k'.cur = t /\ Served(k')
  BY <1>1, <1>2, <1>5 DEF Marked, Served, CurReady, NoHigher, Still
<1>6. Gentle(k, k', {t}) /\ Punctual(k, k') BY <1>7, <1>9, StillMarked
<1>10. Moves(t, Run) BY <1>0, <1>1, GotoFacts
<1>11. Run.at = "run" BY DEF Run
<1>12. Spot(Run) /\ ~Owns(Run) /\ Fits(k', t, Run) BY <1>11 DEF Spot, Owns, Fits
<1>13. Looks(t, Run) BY <1>0, <1>1, <1>5, <1>7, <1>9, <1>10, <1>11, <1>12 DEF Looks
<1>14. Run.at # "block" /\ Op(Run) = "no" BY <1>11 DEF Op
<1>15. Heeds(t, Run, {t}, Placed) BY <1>6, <1>14 DEF Heeds
<1> QED BY <1>6, <1>13, <1>15, LookKeeps

LEMMA ulTaskGenericNotifyTakeKeeps ==
    ASSUME TaskInv, Clocked, NEW t \in Tasks, ulTaskGenericNotifyTake(t)
    PROVE  Endures
<1>1. tcbs' = tcbs /\ load' = load BY DEF ulTaskGenericNotifyTake
<1>2. k.nval \in [Tasks -> Int] BY InvFacts, KernelFields
<1>3. CASE /\ Calls(t, "take")
           /\ \E n \in Delays \cup {MaxDelay}, all \in BOOLEAN :
                NotifyEnter(t, [at |-> "run", op |-> "notifyTake", wait |-> n, all |-> all],
                            k.nval[t] = 0)
           /\ until' = until
  <2>1. PICK n \in Delays \cup {MaxDelay}, all \in BOOLEAN :
           NotifyEnter(t, [at |-> "run", op |-> "notifyTake", wait |-> n, all |-> all],
                       k.nval[t] = 0)
    BY <1>3
  <2> DEFINE call == [at |-> "run", op |-> "notifyTake", wait |-> n, all |-> all]
             empty == k.nval[t] = 0
  <2>2. n \in Ticks BY WaitTicks
  <2>3. call \in [at : WaitPlace, op : WaitCall, wait : Ticks, all : BOOLEAN]
    BY <2>2 DEF WaitPlace, WaitCall
  <2>4. NotifyEnter(t, call, empty) /\ empty \in BOOLEAN BY <2>1
  <2> HIDE DEF call, empty
  <2>5. call \in Waits BY <2>3 DEF Waits
  <2>6. Keeps BY <1>1, <1>3, <2>4, <2>5, NotifyEnterKeeps
  <2> QED BY <1>3, <2>6, KeepsEndures
<1>4. CASE In(t, "notifyTake", "check") /\ NotifyCheck(t, k, k.nval[t] = 0) /\ until' = until
  <2> DEFINE empty == k.nval[t] = 0
  <2>1. At(t, "check") /\ pc[t].op = "notifyTake" BY <1>4 DEF In
  <2>2. empty \in BOOLEAN /\ empty = (k.nval[t] = 0) /\ NotifyCheck(t, k, empty) BY <1>4
  <2> HIDE DEF empty
  <2>3. Keeps BY <1>1, <2>1, <2>2, NotifyCheckKeeps
  <2> QED BY <1>4, <2>3, KeepsEndures
<1>5. CASE In(t, "notifyTake", "block") /\ NotifyBlock(t)
  BY <1>1, <1>5, NotifyBlockKeeps DEF In
<1>6. CASE /\ In(t, "notifyTake", "done")
           /\ k' = [k EXCEPT !.nval[t] = IF @ = 0 \/ pc[t].all THEN 0 ELSE @ - 1,
                             !.nstate[t] = NOT_WAITING]
           /\ Goto(t, Run)
           /\ until' = until
  <2> DEFINE v == IF k.nval[t] = 0 \/ pc[t].all THEN 0 ELSE k.nval[t] - 1
  <2>1. v \in Int
    <3>1. k.nval[t] \in Int BY <1>2
    <3> QED BY <3>1
  <2>2. k' = [k EXCEPT !.nval[t] = v, !.nstate[t] = NOT_WAITING] BY <1>6
  <2>3. At(t, "done") /\ Goto(t, Run) BY <1>6 DEF In
  <2> HIDE DEF v
  <2>4. Ends(t, v) BY <1>1, <2>1, <2>2, <2>3 DEF Ends
  <2>5. Keeps BY <2>4, NotifyDoneKeeps
  <2> QED BY <1>6, <2>5, KeepsEndures
<1> QED BY <1>3, <1>4, <1>5, <1>6 DEF ulTaskGenericNotifyTake

LEMMA xTaskGenericNotifyWaitKeeps ==
    ASSUME TaskInv, Clocked, NEW t \in Tasks, xTaskGenericNotifyWait(t)
    PROVE  Endures
<1>1. tcbs' = tcbs /\ load' = load BY DEF xTaskGenericNotifyWait
<1>2. k.nval \in [Tasks -> Int] BY InvFacts, KernelFields
<1>3. CASE /\ Calls(t, "wait")
           /\ \E n \in Delays \cup {MaxDelay}, e, x \in {0, 3} :
                NotifyEnter(t, [at |-> "run", op |-> "notifyWait", wait |-> n,
                                entry |-> e, exit |-> x],
                            k.nstate[t] # RECEIVED)
           /\ until' = until
  <2>1. PICK n \in Delays \cup {MaxDelay}, e \in {0, 3}, x \in {0, 3} :
           NotifyEnter(t, [at |-> "run", op |-> "notifyWait", wait |-> n,
                           entry |-> e, exit |-> x],
                       k.nstate[t] # RECEIVED)
    BY <1>3
  <2> DEFINE call == [at |-> "run", op |-> "notifyWait", wait |-> n, entry |-> e, exit |-> x]
             empty == k.nstate[t] # RECEIVED
  <2>2. n \in Ticks BY WaitTicks
  <2>3. call \in [at : WaitPlace, op : WaitCall, wait : Ticks, entry : Int, exit : Int]
    BY <2>2 DEF WaitPlace, WaitCall
  <2>4. NotifyEnter(t, call, empty) /\ empty \in BOOLEAN BY <2>1
  <2> HIDE DEF call, empty
  <2>5. call \in Waits BY <2>3 DEF Waits
  <2>6. Keeps BY <1>1, <1>3, <2>4, <2>5, NotifyEnterKeeps
  <2> QED BY <1>3, <2>6, KeepsEndures
<1>4. CASE /\ In(t, "notifyWait", "check")
           /\ NotifyCheck(t, [k EXCEPT !.nval[t] = Clear(@, pc[t].entry)],
                          k.nstate[t] # RECEIVED)
           /\ until' = until
  <2> DEFINE empty == k.nstate[t] # RECEIVED
             v == Clear(k.nval[t], pc[t].entry)
             k1 == [k EXCEPT !.nval[t] = v]
  <2>1. At(t, "check") /\ pc[t].op = "notifyWait" BY <1>4 DEF In
  <2>2. empty \in BOOLEAN /\ NotifyCheck(t, k1, empty) BY <1>4
  <2>3. v \in Int BY Values
  <2> HIDE DEF empty, v
  <2>4. k1 = k \/ \E i \in Int : k1 = [k EXCEPT !.nval[t] = i] BY <2>3
  <2> HIDE DEF k1
  <2>5. Keeps BY <1>1, <2>1, <2>2, <2>4, NotifyCheckKeeps
  <2> QED BY <1>4, <2>5, KeepsEndures
<1>5. CASE In(t, "notifyWait", "block") /\ NotifyBlock(t)
  BY <1>1, <1>5, NotifyBlockKeeps DEF In
<1>6. CASE /\ In(t, "notifyWait", "done")
           /\ k' = [k EXCEPT !.nval[t] = IF k.nstate[t] = RECEIVED
                                         THEN Clear(@, pc[t].exit) ELSE @,
                             !.nstate[t] = NOT_WAITING]
           /\ Goto(t, Run)
           /\ until' = until
  <2> DEFINE v == IF k.nstate[t] = RECEIVED THEN Clear(k.nval[t], pc[t].exit) ELSE k.nval[t]
  <2>1. v \in Int BY <1>2, Values
  <2>2. k' = [k EXCEPT !.nval[t] = v, !.nstate[t] = NOT_WAITING] BY <1>6
  <2>3. At(t, "done") /\ Goto(t, Run) BY <1>6 DEF In
  <2> HIDE DEF v
  <2>4. Ends(t, v) BY <1>1, <2>1, <2>2, <2>3 DEF Ends
  <2>5. Keeps BY <2>4, NotifyDoneKeeps
  <2> QED BY <1>6, <2>5, KeepsEndures
<1> QED BY <1>3, <1>4, <1>5, <1>6 DEF xTaskGenericNotifyWait

-----------------------------------------------------------------------------
(* A task or an interrupt notifies a task.                                 *)

Notes(x, v, y) ==
    /\ x \in Handles /\ v \in Int
    /\ y = [k EXCEPT !.nstate[x] = RECEIVED, !.nval[x] = v]

Noted(x, y) ==
    /\ x \in Placed \ ToSet(k.dying) /\ x \in Tasks
    /\ Sound(y, Placed) /\ Still(k, y) /\ Readied(y) = Readied(k) /\ y.events = k.events
    /\ y.cur = k.cur /\ y.susp = k.susp /\ y.yield = k.yield /\ y.prio = k.prio
    /\ y.nstate[x] # WAITING /\ y.dying = k.dying
    /\ \A u \in Tasks \ {x} : y.nstate[u] = k.nstate[u] /\ y.nval[u] = k.nval[u]
    /\ \A u \in Tasks : y.nstate[u] = WAITING => k.nstate[u] = WAITING
    /\ k.nstate[x] = WAITING => /\ x \notin ToSet(k.events[Pending])
                                /\ pc[k.cur].at = "check" => x # k.cur
    /\ pc[k.cur].at = "check" => k.cur \notin ToSet(k.events[Pending])

LEMMA NoteFacts ==
    ASSUME TaskInv, NEW x, NEW v, NEW y, Notes(x, v, y)
    PROVE  Noted(x, y)
<1> DEFINE n == RECEIVED
<1>1. /\ x \in Handles /\ v \in Int
      /\ y = [k EXCEPT !.nstate[x] = n, !.nval[x] = v]
  BY DEF Notes
<1>2. n \in 0 .. 2 /\ n # WAITING BY DEF RECEIVED, WAITING
<1> HIDE DEF n
<1>3. x \in Placed \ ToSet(k.dying) /\ x \in Tasks BY <1>1, HandleFacts
<1>4. Sound(k, Placed) BY InvFacts
<1>5. MarksBoth(k, Placed, x, v, n, y) BY <1>1, <1>2, <1>3, <1>4 DEF MarksBoth
<1>6. Marked(k, Placed, x, v, n, y) /\ y.nstate[x] = n BY <1>5, MarkBothFacts
<1>11. Readied(y) = Readied(k) /\ y.events = k.events BY <1>6 DEF Marked, Still
<1>7. k.nstate \in [Tasks -> 0 .. 2] BY InvFacts, KernelFields
<1>8. \A u \in Tasks : y.nstate[u] = WAITING => k.nstate[u] = WAITING
  BY <1>2, <1>6, <1>7 DEF Marked
<1>9. k.nstate[x] = WAITING => x \notin ToSet(k.events[Pending]) BY <1>4 DEF Sound
<1>10. pc[k.cur].at = "check" => k.nstate[k.cur] # WAITING /\ k.cur \notin ToSet(k.events[Pending])
  BY LookFacts
<1> QED BY <1>2, <1>3, <1>6, <1>8, <1>9, <1>10, <1>11 DEF Noted, Marked

(* The state and the value are written, and nobody is woken.               *)
LEMMA NotedIsRoused ==
    ASSUME TaskInv, NEW x, NEW y, Noted(x, y), k.nstate[x] # WAITING,
           pc' = pc, tcbs' = tcbs, load' = load
    PROVE  Roused(y) /\ ~Outranks(y) /\ Mild(y, {})
<1>1. Roused(y) /\ ~Outranks(y) BY DEF Noted, Roused, Outranks
<1>2. /\ Sound(y, Placed) /\ Still(k, y) /\ y.dying = k.dying /\ y.events = k.events
      /\ \A u \in Tasks \ {x} : y.nstate[u] = k.nstate[u] /\ y.nval[u] = k.nval[u]
  BY DEF Noted
<1>3. Calm(k, y, {}) BY <1>2, StillIsCalm
<1>4. \A u \in Tasks : Stays(k, y, u) BY <1>2 DEF Stays
<1> QED BY <1>1, <1>2, <1>3, <1>4, MildFacts

(* And the task that waited is woken.                                      *)
LEMMA NotedIsMild ==
    ASSUME TaskInv, NEW x \in Tasks, NEW y, Noted(x, y), NEW z, Sound(z, Placed), Same(y, z),
           Kept(y, z, {x}), Timeless(y, z, {}), z.dying = y.dying,
           x \in Readied(z) \cup ToSet(z.events[Pending]),
           ToSet(y.events[Pending]) \subseteq ToSet(z.events[Pending]),
           pc[k.cur].at = "block" /\ x = k.cur => x \in ToSet(z.events[Pending])
    PROVE  Mild(z, {x})
<1>1. /\ Sound(y, Placed) /\ Still(k, y) /\ y.dying = k.dying /\ y.events = k.events
      /\ \A u \in Tasks \ {x} : y.nstate[u] = k.nstate[u] /\ y.nval[u] = k.nval[u]
  BY DEF Noted
<1>2. Kept(k, z, {x}) /\ Timeless(k, z, {})
  <2>1. Calm(k, y, {x}) /\ Calm(k, y, {}) BY <1>1, StillIsCalm
  <2> QED BY <2>1 DEF Calm, Kept, Timeless
<1>3. \A u \in Tasks \ {x} : Stays(k, z, u) BY <1>1 DEF Stays, Same, Alike
<1>4. Gentle(k, z, {x}) BY <1>1, <1>2, <1>3 DEF Gentle
<1>5. k \in Kernels /\ z \in Kernels BY InvFacts, GoodIsKernel DEF Sound
<1>6. Punctual(k, z) BY <1>2, <1>5, CalmIsPunctual
<1>7. Awake(z, Suspends, x) BY DEF Awake
<1>8. k.cur \in ToSet(k.events[Pending]) => k.cur \in ToSet(z.events[Pending]) BY <1>1
<1> QED BY <1>4, <1>6, <1>7, <1>8 DEF Mild, Rests

LEMMA xTaskGenericNotifyKeeps ==
    ASSUME TaskInv, NEW t \in Tasks, xTaskGenericNotify(t)
    PROVE  Keeps
<1>9. t = k.cur /\ pc[t].at = "run" BY DEF xTaskGenericNotify, Calls, Run
<1>1. pc' = pc /\ tcbs' = tcbs /\ load' = load BY DEF xTaskGenericNotify
<1>2. PICK x \in Tasks \ {t}, action \in NotifyActions, v \in {1, 2} :
         LET y == SetNotified(x, action, v)
         IN  /\ Notifiable(x, action)
             /\ k' = IF k.nstate[x] = WAITING
                     THEN YieldIfHigher(prvAddTaskToReadyList(RemoveState(y, x), x), x)
                     ELSE y
  BY DEF xTaskGenericNotify
<1> DEFINE i == Notified(k.nval[x], k.nstate[x], action, v)
           y == SetNotified(x, action, v)
           z == prvAddTaskToReadyList(RemoveState(y, x), x)
<1>3. i \in Int
  <2>1. k.nval \in [Tasks -> Int] /\ k.nstate \in [Tasks -> 0 .. 2] BY InvFacts, KernelFields
  <2>2. k.nval[x] \in Int /\ k.nstate[x] \in Int /\ v \in Int BY <2>1
  <2> QED BY <2>2, Values
<1>4. Notes(x, i, y)
  <2>1. x \in Handles BY <1>2 DEF Notifiable
  <2>2. y = [k EXCEPT !.nstate[x] = RECEIVED, !.nval[x] = i]
    BY InvFacts DEF SetNotified, Kernels
  <2> HIDE DEF y, i
  <2> QED BY <1>3, <2>1, <2>2 DEF Notes
<1>5. k' = IF k.nstate[x] = WAITING THEN YieldIfHigher(z, x) ELSE y BY <1>2
<1> HIDE DEF y, i
<1>6. Noted(x, y) BY <1>4, NoteFacts
<1>7. CASE k.nstate[x] # WAITING
  BY <1>1, <1>5, <1>6, <1>7, NotedIsRoused, RousedKeeps
<1>8. CASE k.nstate[x] = WAITING
  <2>1. Good(y, Placed) BY <1>6 DEF Noted, Sound
  <2>2. Readies(y, Placed, x, z) BY <1>6, <2>1 DEF Noted, Readies
  <2> HIDE DEF z
  <2>3. /\ Good(z, Placed) /\ Same(y, z) /\ Readied(z) = Readied(y) \cup {x}
        /\ z.dying = y.dying /\ z.events = y.events /\ Calm(y, z, {})
    BY <2>2, ReadyFacts
  <2>4. Sound(z, Placed) BY <1>6, <2>3 DEF Noted, Sound, Same, Alike, IdleReady
  <2>5. Roused(z) BY <1>1, <1>6, <2>3, <2>4 DEF Noted, Roused, Same, Alike
  <2>6. Readied(z) \subseteq Readied(k) \cup {x} BY <1>6, <2>3 DEF Noted
  <2>7. k' = YieldIfHigher(z, x) BY <1>5, <1>8
  <2>8. Kept(y, z, {x}) /\ Timeless(y, z, {}) BY <2>3, CalmMore DEF Calm
  <2>9. Mild(z, {x}) BY <1>6, <1>9, <2>3, <2>4, <2>8, NotedIsMild
  <2> QED BY <2>5, <2>6, <2>7, <2>9, RousedYields
<1> QED BY <1>7, <1>8

LEMMA WakeFromISRKeeps ==
    ASSUME TaskInv, NEW x \in Tasks, NEW v, NEW y, Notes(x, v, y), WakeFromISR(y, x),
           pc' = pc, tcbs' = tcbs, load' = load
    PROVE  Keeps
<1> DEFINE hi == k.nstate[x] = WAITING /\ k.prio[x] > k.prio[k.cur]
           z == IF k.nstate[x] = WAITING THEN ReadyOrPend(y, x) ELSE y
<1>1. LET a == [z EXCEPT !.yield = @ \/ hi] IN k' = IF hi THEN vTaskSwitchContext(a) ELSE a
  BY DEF WakeFromISR
<1>2. Noted(x, y) BY NoteFacts
<1>3. Roused(z) /\ (Outranks(z) => hi) /\ \E T : Mild(z, T)
  <2>1. CASE k.nstate[x] # WAITING BY <1>2, <2>1, NotedIsRoused
  <2>2. CASE k.nstate[x] = WAITING
    <3>1. Good(y, Placed) BY <1>2 DEF Noted, Sound
    <3>2. Rouses(y, Placed, x, z) BY <1>2, <2>2, <3>1 DEF Noted, Rouses
    <3>3. hi = (k.prio[x] > k.prio[k.cur]) BY <2>2
    <3> HIDE DEF z, hi
    <3>8. Risen(y, Placed, x, z) BY <3>2, ReadyOrPendFacts
    <3>4. /\ Good(z, Placed) /\ Same(y, z) /\ z.dying = y.dying
          /\ y.susp = 0 => Readied(z) = Readied(y) \cup {x} /\ z.events = y.events
          /\ y.susp # 0 => /\ Readied(z) = Readied(y)
                           /\ ToSet(z.events[Pending]) = ToSet(y.events[Pending]) \cup {x}
      BY <3>8 DEF Risen
    <3>9. /\ Kept(y, z, {x}) /\ Timeless(y, z, {})
          /\ x \in Readied(z) \cup ToSet(z.events[Pending])
          /\ ToSet(y.events[Pending]) \subseteq ToSet(z.events[Pending])
      BY <3>4, <3>8 DEF Risen
    <3>10. pc[k.cur].at = "block" /\ x = k.cur => x \in ToSet(z.events[Pending])
      <4>1. pc[k.cur].at = "block" => y.susp # 0 BY <1>2, InvFacts DEF Fits, Noted
      <4> QED BY <3>4, <4>1
    <3>5. Sound(z, Placed)
      BY <1>2, <3>4 DEF Noted, Sound, Same, Alike, IdleReady
    <3>6. Roused(z)
      BY <1>2, <2>2, <3>4, <3>5 DEF Noted, Roused, Same, Alike
    <3>7. Outranks(z) => hi BY <1>2, <3>3, <3>4 DEF Noted, Outranks
    <3>11. Mild(z, {x}) BY <1>2, <3>4, <3>5, <3>9, <3>10, NotedIsMild
    <3> QED BY <3>6, <3>7, <3>11
  <2> QED BY <2>1, <2>2
<1>4. hi \in BOOLEAN OBVIOUS
<1> HIDE DEF z, hi
<1>5. PICK T : Mild(z, T) BY <1>3
<1> QED BY <1>1, <1>3, <1>4, <1>5, RousedFromISR

LEMMA xTaskGenericNotifyFromISRKeeps ==
    ASSUME TaskInv, xTaskGenericNotifyFromISR
    PROVE  Keeps
<1>1. pc' = pc /\ tcbs' = tcbs /\ load' = load BY DEF xTaskGenericNotifyFromISR
<1>2. PICK x \in Tasks, action \in NotifyActions, v \in {1, 2} :
         Notifiable(x, action) /\ WakeFromISR(SetNotified(x, action, v), x)
  BY DEF xTaskGenericNotifyFromISR
<1> DEFINE i == Notified(k.nval[x], k.nstate[x], action, v)
           y == SetNotified(x, action, v)
<1>3. i \in Int
  <2>1. k.nval \in [Tasks -> Int] /\ k.nstate \in [Tasks -> 0 .. 2] BY InvFacts, KernelFields
  <2>2. k.nval[x] \in Int /\ k.nstate[x] \in Int /\ v \in Int BY <2>1
  <2> QED BY <2>2, Values
<1>4. Notes(x, i, y)
  <2>1. x \in Handles BY <1>2 DEF Notifiable
  <2>2. y = [k EXCEPT !.nstate[x] = RECEIVED, !.nval[x] = i]
    BY InvFacts DEF SetNotified, Kernels
  <2> HIDE DEF y, i
  <2> QED BY <1>3, <2>1, <2>2 DEF Notes
<1>5. WakeFromISR(y, x) BY <1>2
<1> HIDE DEF y, i
<1> QED BY <1>1, <1>4, <1>5, WakeFromISRKeeps

LEMMA vTaskGenericNotifyGiveFromISRKeeps ==
    ASSUME TaskInv, vTaskGenericNotifyGiveFromISR
    PROVE  Keeps
<1>1. pc' = pc /\ tcbs' = tcbs /\ load' = load BY DEF vTaskGenericNotifyGiveFromISR
<1>2. PICK x \in Tasks :
         /\ Notifiable(x, "increment")
         /\ WakeFromISR(SetNotified(x, "increment", 1), x)
  BY DEF vTaskGenericNotifyGiveFromISR
<1> DEFINE i == Notified(k.nval[x], k.nstate[x], "increment", 1)
           y == SetNotified(x, "increment", 1)
<1>3. i \in Int
  <2>1. k.nval \in [Tasks -> Int] BY InvFacts, KernelFields
  <2> QED BY <2>1 DEF Notified
<1>4. Notes(x, i, y)
  <2>1. x \in Handles BY <1>2 DEF Notifiable
  <2>2. y = [k EXCEPT !.nstate[x] = RECEIVED, !.nval[x] = i]
    BY InvFacts DEF SetNotified, Kernels
  <2> HIDE DEF y, i
  <2> QED BY <1>3, <2>1, <2>2 DEF Notes
<1>5. WakeFromISR(y, x) BY <1>2
<1> HIDE DEF y, i
<1> QED BY <1>1, <1>4, <1>5, WakeFromISRKeeps

(* A value without bits has none to clear.                                 *)
LEMMA ClearNothing == \A v : Clear(0, v) = 0
<1>1. ~Has(0, 1) /\ ~Has(0, 2) BY DEF Has
<1> QED BY <1>1 DEF Clear, Bit

(* A state or a value is cleared.                                          *)
LEMMA ClearKeeps ==
    ASSUME TaskInv, NEW t, NEW v, NEW n, n # WAITING, Marks(k, Placed, t, v, n, k'),
           Stays(k, k', t), pc' = pc, tcbs' = tcbs, load' = load
    PROVE  Keeps
<1> DEFINE y == k'
<1>1. Marked(k, Placed, t, v, n, y)
  <2>1. Marks(k, Placed, t, v, n, y) OBVIOUS
  <2> HIDE DEF y
  <2> QED BY <2>1, MarkFacts
<1>2. k.nstate \in [Tasks -> 0 .. 2] /\ Fits(k, k.cur, pc[k.cur]) BY InvFacts, KernelFields
<1>3. Roused(y) BY <1>1, <1>2 DEF Marked, Roused, Fits, Still
<1>4. ~Outranks(y) BY <1>1 DEF Marked, Outranks, Still
<1>5. Mild(y, {})
  <2>1. /\ Sound(y, Placed) /\ Still(k, y) /\ y.dying = k.dying
        /\ \A u \in Tasks \ {t} : y.nstate[u] = k.nstate[u] /\ y.nval[u] = k.nval[u]
    BY <1>1 DEF Marked
  <2>2. Calm(k, y, {}) /\ y.events = k.events BY <2>1, StillIsCalm DEF Still
  <2>3. \A u \in Tasks : Stays(k, y, u) BY <2>1 DEF Stays
  <2> QED BY <2>1, <2>2, <2>3, MildFacts
<1> QED BY <1>3, <1>4, <1>5, RousedKeeps

LEMMA xTaskGenericNotifyStateClearKeeps ==
    ASSUME TaskInv, NEW t \in Tasks, xTaskGenericNotifyStateClear(t)
    PROVE  Keeps
<1>1. pc' = pc /\ tcbs' = tcbs /\ load' = load BY DEF xTaskGenericNotifyStateClear
<1>2. PICK x \in tcbs : k.nstate[x] = RECEIVED /\ k' = [k EXCEPT !.nstate[x] = NOT_WAITING]
  BY DEF xTaskGenericNotifyStateClear
<1>3. x \in Tasks /\ Sound(k, Placed) BY InvFacts DEF Blocks
<1> DEFINE n == NOT_WAITING
<1>4. n \in 0 .. 2 /\ n # WAITING BY DEF NOT_WAITING, WAITING
<1>5. k' = [k EXCEPT !.nstate[x] = n] BY <1>2
<1> HIDE DEF n
<1>6. Marks(k, Placed, x, 0, n, k') BY <1>3, <1>4, <1>5 DEF Marks
<1>7. Stays(k, k', x) BY <1>2 DEF Stays, WAITING, RECEIVED
<1> QED BY <1>1, <1>4, <1>6, <1>7, ClearKeeps

LEMMA ulTaskGenericNotifyValueClearKeeps ==
    ASSUME TaskInv, NEW t \in Tasks, ulTaskGenericNotifyValueClear(t)
    PROVE  Keeps
<1>1. pc' = pc /\ tcbs' = tcbs /\ load' = load BY DEF ulTaskGenericNotifyValueClear
<1>2. PICK x \in tcbs, v \in {1, 2} : k' = [k EXCEPT !.nval[x] = Clear(@, v)]
  BY DEF ulTaskGenericNotifyValueClear
<1>3. x \in Tasks /\ Sound(k, Placed) BY InvFacts DEF Blocks
<1> DEFINE i == Clear(k.nval[x], v)
<1>4. i \in Int /\ (k.nval[x] = 0 => i = 0) BY Values, ClearNothing
<1>5. k' = [k EXCEPT !.nval[x] = i] BY <1>2
<1> HIDE DEF i
<1>6. Marks(k, Placed, x, i, 0, k') BY <1>3, <1>4, <1>5 DEF Marks, WAITING
<1>7. 0 # WAITING BY DEF WAITING
<1>8. Stays(k, k', x)
  <2>1. k'.nstate = k.nstate /\ k'.nval[x] = i BY <1>3, <1>5, GoodIsKernel DEF Sound, Kernels
  <2> QED BY <1>4, <2>1 DEF Stays
<1> QED BY <1>1, <1>6, <1>7, <1>8, ClearKeeps

-----------------------------------------------------------------------------
(* The start.                                                              *)

(* The tasks D have been created, n of them; the first of all is c.        *)
Started(y, l, D, n, c) ==
    /\ Good(y, D) /\ Readied(y) = D /\ y.num = n /\ y.cleanup = 0 /\ y.susp = 0
    /\ y.dying = <<>> /\ y.events[Pending] = <<>>
    /\ y.base = y.prio /\ \A t \in D : y.prio[t] = l.prio[t]
    /\ \A t \in Tasks : y.nstate[t] = NOT_WAITING
    /\ IF D = {} THEN y.cur = c ELSE y.cur \in D /\ NoHigher(y)

LEMMA FreshFacts ==
    ASSUME NEW l, NEW c \in Tasks
    PROVE  Started([Fresh EXCEPT !.cur = c], l, {}, 0, c)
<1> DEFINE y == [Fresh EXCEPT !.cur = c]
           e == [i \in EventLists \cup {Pending} |-> <<>>]
           r == [p \in Priorities |-> vListInitialise]
<1>1. /\ y.cur = c /\ y.ready = r /\ y.delayed = <<>> /\ y.overflow = <<>> /\ y.sleeping = <<>>
      /\ y.dying = <<>> /\ y.tick = 0 /\ y.ovf = 0 /\ y.top = 0 /\ y.next = MaxDelay
      /\ y.susp = 0 /\ y.pended = 0 /\ y.yield = FALSE /\ y.num = 0 /\ y.cleanup = 0
      /\ y.events = e /\ y.prio = [t \in Tasks |-> 0] /\ y.base = [t \in Tasks |-> 0]
      /\ y.nstate = [t \in Tasks |-> NOT_WAITING]
  BY DEF Fresh
<1>2. /\ 0 \in Ticks /\ MaxDelay \in Ticks /\ 0 \in Priorities /\ 0 \in 0 .. Overflows - 1
      /\ NOT_WAITING \in 0 .. 2
  BY KernelAssumption DEF Ticks, Priorities, NOT_WAITING
<1>3. <<>> \in Seq(Tasks) /\ ToSet(<<>>) = {} /\ Len(<<>>) = 0 /\ IsInjective(<<>>)
  BY DEF ToSet, IsInjective
<1>4. e \in [EventLists \cup {Pending} -> Seq(Tasks)] /\ e[Pending] = <<>>
      /\ \A i \in EventLists : e[i] = <<>>
  BY <1>3
<1>5. vListInitialise \in Rings /\ Turning(vListInitialise) /\ vListInitialise.items = <<>>
  BY <1>3 DEF vListInitialise, Rings, Turning
<1>6. r \in [Priorities -> Rings] /\ \A p \in Priorities : r[p] = vListInitialise BY <1>5
<1>7. Fresh = [cur |-> Idle, ready |-> r,
               delayed |-> <<>>, overflow |-> <<>>, sleeping |-> <<>>,
               dying |-> <<>>, tick |-> 0, ovf |-> 0, top |-> 0, next |-> MaxDelay,
               susp |-> 0, pended |-> 0, yield |-> FALSE, num |-> 0, cleanup |-> 0,
               events |-> e,
               prio |-> [t \in Tasks |-> 0], base |-> [t \in Tasks |-> 0],
               held |-> [t \in Tasks |-> 0], wake |-> [t \in Tasks |-> 0],
               rank |-> [t \in Tasks |-> 0],
               nstate |-> [t \in Tasks |-> NOT_WAITING],
               nval |-> [t \in Tasks |-> 0], aborted |-> [t \in Tasks |-> FALSE]]
  BY DEF Fresh
<1>8. /\ [t \in Tasks |-> 0] \in [Tasks -> Priorities] /\ [t \in Tasks |-> 0] \in [Tasks -> Int]
      /\ [t \in Tasks |-> 0] \in [Tasks -> Ticks]
      /\ [t \in Tasks |-> NOT_WAITING] \in [Tasks -> 0 .. 2]
      /\ [t \in Tasks |-> FALSE] \in [Tasks -> BOOLEAN]
  BY <1>2
<1>9. y \in Kernels
  <2> HIDE DEF e, r
  <2>1. Fresh \in Kernels
    <3>1. Idle \in Tasks BY KernelAssumption
    <3> QED BY <1>2, <1>3, <1>4, <1>6, <1>7, <1>8, <3>1 DEF Kernels
  <2> QED BY <2>1 DEF Kernels
<1> HIDE DEF y, e, r
<1>10. \A p \in Priorities : Turning(y.ready[p]) /\ y.ready[p].items = <<>> BY <1>1, <1>5, <1>6
<1>11. Readied(y) = {}
  <2>1. \A t \in Tasks : y.prio[t] \in Priorities BY <1>1, <1>2
  <2> QED BY <1>3, <1>10, <2>1 DEF Readied
<1>12. Ranked(y) BY <1>3, <1>10 DEF Ranked
<1>13. Seated(y, {}) BY <1>1, <1>3, <1>11 DEF Seated, Apart
<1>14. InOrder(y)
  <2>1. \A v : Ordered(<<>>, v) BY <1>3 DEF Ordered
  <2> QED BY <1>1, <1>3, <2>1 DEF InOrder
<1>15. Evented(y, {}) BY <1>1, <1>3, <1>4 DEF Evented
<1>16. Good(y, {}) BY <1>9, <1>12, <1>13, <1>14, <1>15 DEF Good, Orderly
<1>17. y.events[Pending] = <<>> BY <1>1, <1>4
<1>18. \A t \in Tasks : y.nstate[t] = NOT_WAITING BY <1>1
<1> QED BY <1>1, <1>11, <1>16, <1>17, <1>18 DEF Started, y

(* One more task is created.                                               *)
Creates(x, l, D, n, c, t, y) ==
    /\ l \in Loads /\ n \in Int /\ Started(x, l, D, n, c) /\ t \in Alive(l) \ D /\ (D = {} => t = c)
    /\ y = prvAddNewTaskToReadyList(prvInitialiseNewTask(x, t, l.prio[t]), t, FALSE)

Created(l, D, n, c, t, y) == Started(y, l, D \cup {t}, n + 1, c) /\ y \in Kernels

LEMMA CreateFacts ==
    ASSUME NEW x, NEW l, NEW D, NEW n, NEW c, NEW t, NEW y, Creates(x, l, D, n, c, t, y)
    PROVE  Created(l, D, n, c, t, y)
<1> DEFINE p == l.prio[t]
           a == prvInitialiseNewTask(x, t, p)
           m == n + 1
           w == IF a.prio[a.cur] <= a.prio[t] THEN t ELSE a.cur
           b == [a EXCEPT !.num = m, !.cur = w]
<1>1. /\ Started(x, l, D, n, c) /\ t \in Alive(l) /\ t \notin D /\ (D = {} => t = c)
      /\ y = prvAddNewTaskToReadyList(a, t, FALSE) /\ l \in Loads /\ n \in Int
  BY DEF Creates
<1>2. t \in Tasks /\ p \in Priorities
  <2>1. t \in Tasks /\ l.prio[t] >= 0 BY <1>1 DEF Alive
  <2>2. l.prio \in [Tasks -> Priorities \cup {-1}] BY <1>1, TasksAssumption
  <2> QED BY <2>1, <2>2
<1> HIDE DEF p
<1>3. /\ Good(x, D) /\ Readied(x) = D /\ x.num = n /\ x.cleanup = 0 /\ x.susp = 0
      /\ x.dying = <<>> /\ x.events[Pending] = <<>>
      /\ x.base = x.prio /\ \A u \in D : x.prio[u] = l.prio[u]
      /\ \A u \in Tasks : x.nstate[u] = NOT_WAITING
      /\ IF D = {} THEN x.cur = c ELSE x.cur \in D /\ NoHigher(x)
  BY <1>1 DEF Started
<1>4. /\ Good(a, D) /\ Readied(a) = Readied(x)
      /\ a.prio = [x.prio EXCEPT ![t] = p] /\ a.base = [x.base EXCEPT ![t] = p]
      /\ a.nstate = [x.nstate EXCEPT ![t] = NOT_WAITING]
      /\ a.num = x.num /\ a.cleanup = x.cleanup /\ a.dying = x.dying
      /\ a.cur = x.cur /\ a.susp = x.susp /\ a.events = x.events
  <2>1. Initialised(x, D, t, p, a) BY <1>1, <1>2, <1>3, InitialiseFacts
  <2> HIDE DEF a
  <2> QED BY <2>1 DEF Initialised
<1> HIDE DEF a
<1>5. a \in Kernels /\ x \in Kernels BY <1>3, <1>4, GoodIsLoose
<1>6. x.prio \in [Tasks -> Priorities] /\ x.nstate \in [Tasks -> 0 .. 2] /\ x.cur \in Tasks
      /\ D \subseteq Tasks
  BY <1>3, <1>5, KernelFields DEF Readied
<1>7. /\ a.prio \in [Tasks -> Priorities] /\ a.prio[t] = p /\ \A u \in D : a.prio[u] = x.prio[u]
      /\ a.base = a.prio /\ \A u \in Tasks : a.nstate[u] = NOT_WAITING
  BY <1>1, <1>2, <1>3, <1>4, <1>6
<1>8. y = prvAddTaskToReadyList(b, t)
  BY <1>1, <1>3, <1>4, <1>5 DEF prvAddNewTaskToReadyList, Kernels
<1>9. m \in Int /\ w \in Tasks BY <1>1, <1>2, <1>4, <1>6
<1>10. w \in {t, x.cur} /\ (w = x.cur \/ a.prio[x.cur] <= a.prio[t]) /\ (w = t \/ ~(a.prio[x.cur] <= a.prio[t]))
  BY <1>4
<1> HIDE DEF m, w
<1>11. b \in Kernels BY <1>5, <1>9 DEF Kernels
<1>12. Shelved(a, b) /\ b.cur = w /\ b.susp = a.susp /\ b.num = m /\ b.cleanup = a.cleanup
       /\ b.base = a.base /\ b.nstate = a.nstate
  BY <1>5 DEF Kernels, Shelved
<1> HIDE DEF b
<1>13. Good(b, D) /\ Readied(b) = Readied(a) BY <1>4, <1>11, <1>12, ShelvedFacts
<1>14. /\ Orderly(y, D \cup {t}) /\ Same(b, y) /\ y.events = b.events
       /\ Readied(y) = Readied(b) \cup {t} /\ y.dying = b.dying
  <2>1. Orderly(b, D) BY <1>13 DEF Good
  <2>2. t \notin D BY <1>1
  <2> QED BY <1>2, <1>8, <2>1, <2>2, AddFacts
<1>15. Good(y, D \cup {t}) BY <1>13, <1>14 DEF Good, Evented
<1>16. /\ y.cur = w /\ y.susp = 0 /\ y.num = m /\ y.cleanup = 0 /\ y.prio = a.prio
       /\ y.base = a.base /\ y.nstate = a.nstate /\ y.events = x.events /\ y.dying = <<>>
       /\ Readied(y) = D \cup {t}
  BY <1>3, <1>4, <1>12, <1>13, <1>14 DEF Same, Alike, Shelved
<1>17. \A u \in D \cup {t} : y.prio[u] = l.prio[u] BY <1>3, <1>7, <1>16 DEF p
<1>18. w \in D \cup {t}
  <2>1. CASE D = {}
    <3>1. x.cur = t BY <1>1, <1>3, <2>1
    <3> QED BY <1>10, <3>1
  <2>2. CASE D # {} BY <1>3, <1>10, <2>2
  <2> QED BY <2>1, <2>2
<1>19. NoHigher(y)
  <2>1. ASSUME NEW u \in D \cup {t} PROVE a.prio[u] <= a.prio[w]
    <3>1. a.prio[u] \in Int /\ a.prio[t] \in Int /\ a.prio[x.cur] \in Int
      BY <1>2, <1>6, <1>7, <2>1 DEF Priorities
    <3>2. CASE D = {}
      <4>1. u = t /\ w = t BY <1>18, <2>1, <3>2
      <4> QED BY <3>1, <4>1
    <3>3. CASE D # {}
      <4>1. x.cur \in D /\ \A v \in D : x.prio[v] <= x.prio[x.cur] BY <1>3, <3>3 DEF NoHigher
      <4>2. u \in D => a.prio[u] <= a.prio[x.cur] BY <1>7, <4>1
      <4> QED BY <1>10, <3>1, <4>2
    <3> QED BY <3>2, <3>3
  <2> QED BY <1>16, <2>1 DEF NoHigher
<1>20. Started(y, l, D \cup {t}, m, c)
  BY <1>3, <1>7, <1>15, <1>16, <1>17, <1>18, <1>19 DEF Started
<1>21. y \in Kernels BY <1>15, GoodIsLoose
<1> QED BY <1>20, <1>21 DEF Created, m

(* All the tasks are created.                                              *)
LEMMA CreateEachFacts ==
    ASSUME NEW l \in Loads, NEW s \in Seq(Alive(l)), s # <<>>, IsInjective(s)
    PROVE  Started(CreateEach(l, s), l, ToSet(s), Len(s), s[1])
<1> DEFINE n == Len(s)
           c == s[1]
           x == [Fresh EXCEPT !.cur = c]
           done(i) == {s[j] : j \in 1 .. i}
           Turn(y, i) == prvAddNewTaskToReadyList(
                             prvInitialiseNewTask(y, s[i], l.prio[s[i]]), s[i], FALSE)
           S == [i \in 0 .. n |-> {y \in Kernels : Started(y, l, done(i), i, c)}]
           F == [i \in 1 .. n |-> [y \in S[i - 1] |-> Turn(y, i)]]
           T(f) == [i \in 0 .. n |-> IF i = 0 THEN x ELSE Turn(f[i - 1], i)]
<1>1. n \in Nat \ {0} /\ \A i \in 1 .. n : s[i] \in Alive(l) OBVIOUS
<1>2. \A i, j \in 1 .. n : s[i] = s[j] => i = j
  <2>1. DOMAIN s = 1 .. n OBVIOUS
  <2> QED BY <2>1 DEF IsInjective
<1>3. x \in S[0]
  <2>1. c \in Tasks BY <1>1 DEF Alive
  <2>2. Started(x, l, {}, 0, c) BY <2>1, FreshFacts
  <2>3. done(0) = {} OBVIOUS
  <2> HIDE DEF x, done, c
  <2>4. Started(x, l, done(0), 0, c) BY <2>2, <2>3
  <2>5. Good(x, {}) BY <2>2 DEF Started
  <2>6. x \in Kernels BY <2>5, GoodIsLoose
  <2> QED BY <1>1, <2>4, <2>6
<1>4. ASSUME NEW i \in 1 .. n, NEW y \in S[i - 1] PROVE Turn(y, i) \in S[i]
  <2>1. i - 1 \in 0 .. n /\ i \in 0 .. n /\ i - 1 \in Int /\ (i - 1) + 1 = i BY <1>1
  <2>2. done(i) = done(i - 1) \cup {s[i]}
    <3>1. 1 .. i = (1 .. i - 1) \cup {i} OBVIOUS
    <3> QED BY <3>1
  <2>3. s[i] \notin done(i - 1) BY <1>1, <1>2
  <2>4. done(i - 1) = {} => s[i] = c
    <3>1. i # 1 => c \in done(i - 1) BY <1>1
    <3> QED BY <3>1
  <2> HIDE DEF done, x
  <2>5. Started(y, l, done(i - 1), i - 1, c) BY <2>1
  <2> DEFINE m == i - 1
             D == done(i - 1)
             t == s[i]
             z == Turn(y, i)
  <2>6. /\ l \in Loads /\ m \in Int /\ Started(y, l, D, m, c) /\ t \in Alive(l) \ D
        /\ (D = {} => t = c)
        /\ z = prvAddNewTaskToReadyList(prvInitialiseNewTask(y, t, l.prio[t]), t, FALSE)
    BY <1>1, <2>1, <2>3, <2>4, <2>5
  <2>7. m + 1 = i BY <2>1
  <2>8. D \cup {t} = done(i) BY <2>2
  <2> HIDE DEF m, D, t, z, c
  <2>9. Creates(y, l, D, m, c, t, z) BY <2>6 DEF Creates
  <2>10. Created(l, D, m, c, t, z) BY <2>9, CreateFacts
  <2>11. z \in Kernels /\ Started(z, l, done(i), i, c) BY <2>7, <2>8, <2>10 DEF Created
  <2>12. z \in S[i] BY <2>1, <2>11
  <2> QED BY <2>12 DEF z
<1>5. \E f : f = T(f)
  <2>1. \A i \in 1 .. n : F[i] \in [S[i - 1] -> S[i]] BY <1>4
  <2> HIDE DEF F
  <2>2. PICK f : /\ f = [i \in 0 .. n |-> IF i = 0 THEN x ELSE F[i][f[i - 1]]]
                 /\ \A i \in 0 .. n : f[i] \in S[i]
    <3>1. Loop(n, S, x, F) BY <1>1, <1>3, <2>1 DEF Loop
    <3> HIDE DEF S, n, x
    <3> QED BY <3>1, LoopExists
  <2>3. \A i \in 1 .. n : F[i][f[i - 1]] = Turn(f[i - 1], i)
    <3>1. ASSUME NEW i \in 1 .. n PROVE F[i][f[i - 1]] = Turn(f[i - 1], i)
      <4>1. i - 1 \in 0 .. n BY <1>1
      <4>2. f[i - 1] \in S[i - 1] BY <2>2, <4>1
      <4> HIDE DEF S, Turn
      <4> QED BY <4>2 DEF F
    <3> QED BY <3>1
  <2> HIDE DEF Turn, x
  <2>4. \A i \in 0 .. n : (IF i = 0 THEN x ELSE F[i][f[i - 1]]) = (IF i = 0 THEN x ELSE Turn(f[i - 1], i))
    BY <1>1, <2>3
  <2>5. f = T(f) BY <2>2, <2>4
  <2> QED BY <2>5
<1> DEFINE turn == CHOOSE f : f = T(f)
<1>6. turn = T(turn) BY <1>5
<1>7. CreateEach(l, s) = turn[n] BY DEF CreateEach
<1> HIDE DEF turn, Turn, x
<1>8. turn[0] = x /\ \A i \in 1 .. n : turn[i] = Turn(turn[i - 1], i) BY <1>1, <1>6
<1>9. turn[n] \in S[n]
  <2>1. ASSUME NEW i \in 1 .. n, turn[i - 1] \in S[i - 1] PROVE turn[i] \in S[i]
    <3>1. Turn(turn[i - 1], i) \in S[i] BY <1>4, <2>1
    <3> QED BY <1>8, <3>1
  <2> HIDE DEF S, n
  <2> QED BY <1>1, <1>3, <1>8, <2>1, LoopInvariant
<1>10. done(n) = ToSet(s)
  <2>1. DOMAIN s = 1 .. n OBVIOUS
  <2> QED BY <2>1 DEF ToSet
<1> HIDE DEF done
<1>11. n \in 0 .. n BY <1>1
<1> QED BY <1>7, <1>9, <1>10, <1>11

(* The order in which they are: the idle task last.                        *)
LEMMA OrderFacts ==
    ASSUME NEW A \in SUBSET Tasks, Idle \in A
    PROVE  LET s == Append(SetToSeq(A \ {Idle}), Idle)
           IN  /\ s \in Seq(A) /\ s # <<>> /\ IsInjective(s)
               /\ ToSet(s) = A /\ Len(s) = Cardinality(A)
<1> DEFINE B == A \ {Idle}
           n == Cardinality(B)
           q == SetToSeq(B)
           s == Append(q, Idle)
<1>1. IsFiniteSet(A) /\ IsFiniteSet(B) BY TasksAssumption, FS_Subset
<1>2. n \in Nat /\ ExistsBijection(1 .. n, B) BY <1>1, FS_CardinalityType
<1>3. PICK f \in [1 .. n -> B] : IsInjective(f) /\ \A b \in B : \E i \in 1 .. n : f[i] = b
  BY <1>2 DEF ExistsBijection, Bijection, Injection, Surjection
<1>4. q \in [1 .. n -> B] /\ IsInjective(q) BY <1>3 DEF SetToSeq
<1>5. Cardinality(A) = n + 1
  <2>1. B \cup {Idle} = A /\ Idle \notin B OBVIOUS
  <2> HIDE DEF B
  <2> QED BY <1>1, <2>1, FS_AddElement
<1>6. \A b \in B : \E i \in 1 .. n : q[i] = b
  <2> DEFINE R == {q[i] : i \in 1 .. n}
  <2>1. R \in SUBSET B BY <1>4
  <2>2. ExistsBijection(1 .. n, R)
    <3>1. q \in [1 .. n -> R] BY <1>4
    <3>2. q \in Bijection(1 .. n, R) BY <1>4, <3>1 DEF Bijection, Injection, Surjection
    <3> QED BY <3>2 DEF ExistsBijection
  <2>3. IsFiniteSet(1 .. n) /\ Cardinality(1 .. n) = n BY <1>2, FS_Interval
  <2>4. Cardinality(R) = n
    <3> HIDE DEF R, n
    <3> QED BY <2>2, <2>3, FS_Bijection
  <2>5. R = B
    <3> HIDE DEF R
    <3> QED BY <1>1, <2>1, <2>4, FS_Subset
  <2> QED BY <2>5
<1> HIDE DEF q, n
<1>7. q \in Seq(A) /\ Len(q) = n /\ DOMAIN q = 1 .. n BY <1>2, <1>4
<1>8. s \in Seq(A) /\ Len(s) = n + 1 /\ s[n + 1] = Idle /\ \A i \in 1 .. n : s[i] = q[i]
  BY <1>2, <1>7
<1>9. DOMAIN s = 1 .. n + 1 BY <1>2, <1>8
<1> HIDE DEF s
<1>10. IsInjective(s)
  <2>1. \A i \in 1 .. n : q[i] # Idle BY <1>4
  <2>2. ASSUME NEW i \in 1 .. n + 1, NEW j \in 1 .. n + 1, s[i] = s[j] PROVE i = j
    <3>1. i \in 1 .. n \/ i = n + 1 BY <1>2
    <3>2. j \in 1 .. n \/ j = n + 1 BY <1>2
    <3> QED BY <1>4, <1>7, <1>8, <2>1, <2>2, <3>1, <3>2 DEF IsInjective
  <2> QED BY <1>9, <2>2 DEF IsInjective
<1>11. ToSet(s) = A
  <2>1. ASSUME NEW a \in A PROVE \E i \in 1 .. n + 1 : s[i] = a
    <3>1. CASE a = Idle
      <4>1. n + 1 \in 1 .. n + 1 BY <1>2
      <4> QED BY <1>8, <3>1, <4>1
    <3>2. CASE a # Idle
      <4>1. PICK i \in 1 .. n : q[i] = a BY <1>6, <3>2
      <4>2. i \in 1 .. n + 1 BY <1>2
      <4> QED BY <1>8, <4>1, <4>2
    <3> QED BY <3>1, <3>2
  <2>2. \A i \in 1 .. n + 1 : s[i] \in A BY <1>8
  <2> QED BY <1>9, <2>1, <2>2 DEF ToSet
<1>12. s # <<>> BY <1>2, <1>8
<1> QED BY <1>5, <1>8, <1>10, <1>11, <1>12 DEF s, q

LEMMA InitFacts ==
    ASSUME TaskInit
    PROVE  TaskInv /\ WakeInv /\ \A u : Timely(k, u)
<1> DEFINE A == Alive(load)
           s == Append(SetToSeq(A \ {Idle}), Idle)
<1>1. /\ load \in Loads /\ k = CreateEach(load, s) /\ pc = [t \in Tasks |-> Run] /\ tcbs = A
  BY DEF TaskInit, vTaskStartScheduler
<1>2. load.prio[Idle] = 0 /\ Idle \in Tasks BY <1>1, TasksAssumption, KernelAssumption
<1>3. A \subseteq Tasks /\ Idle \in A BY <1>2 DEF Alive
<1> HIDE DEF A
<1>4. s \in Seq(A) /\ s # <<>> /\ IsInjective(s) /\ ToSet(s) = A /\ Len(s) = Cardinality(A)
  BY <1>3, OrderFacts
<1> HIDE DEF s
<1>5. Started(k, load, A, Cardinality(A), s[1])
  BY <1>1, <1>4, CreateEachFacts DEF A
<1>6. /\ Good(k, A) /\ Readied(k) = A /\ k.num = Cardinality(A) /\ k.cleanup = 0 /\ k.susp = 0
      /\ k.dying = <<>> /\ k.events[Pending] = <<>>
      /\ k.base = k.prio /\ \A t \in A : k.prio[t] = load.prio[t]
      /\ \A t \in Tasks : k.nstate[t] = NOT_WAITING
      /\ k.cur \in A /\ NoHigher(k)
  BY <1>3, <1>5 DEF Started
<1>7. \A t \in Tasks : pc[t] = Run /\ pc[t].at = "run" BY <1>1 DEF Run
<1>8. \A u \in tcbs : Orphans(u) = {} BY <1>1, <1>3, <1>7 DEF Orphans
<1>9. Placed = A
  <2>1. Unlisted = {} BY <1>1, <1>3, <1>7, <1>8 DEF Unlisted
  <2> QED BY <1>1, <2>1 DEF Placed
<1>10. Blocks BY <1>1, <1>3, <1>8 DEF Blocks
<1>11. Sound(k, Placed)
  <2>1. IdleReady(k) BY <1>2, <1>3, <1>6 DEF IdleReady
  <2>2. k.cleanup = Len(k.dying) BY <1>6
  <2>3. ToSet(k.events[Pending]) = {} BY <1>6 DEF ToSet
  <2> QED BY <1>6, <1>9, <2>1, <2>2, <2>3 DEF Sound
<1>12. Places
  <2>1. k.cur \in Tasks BY <1>3, <1>6
  <2>2. \A t \in Tasks : Spot(pc[t]) /\ ~Held(pc[t]) BY <1>7 DEF Spot, Held
  <2>3. \A t \in Tasks : k.nstate[t] # WAITING BY <1>6 DEF WAITING, NOT_WAITING
  <2>4. Fits(k, k.cur, pc[k.cur]) BY <1>7, <2>1 DEF Fits
  <2> QED BY <1>1, <1>2, <1>7, <2>1, <2>2, <2>3, <2>4 DEF Places
<1>13. Running BY <1>6 DEF Running, Serves, CurReady
<1>14. WakeInv
  <2>1. \A t \in Tasks : Op(pc[t]) = "no" /\ pc[t].at # "block" BY <1>7 DEF Op
  <2>2. Placed \subseteq Tasks BY <1>3, <1>9
  <2> QED BY <2>1, <2>2 DEF WakeInv, Minded
<1>15. \A u : Timely(k, u)
  <2>1. Seated(k, A) BY <1>6 DEF Good, Orderly
  <2>2. ToSet(k.delayed) = {} /\ ToSet(k.overflow) = {} BY <1>6, <2>1 DEF Seated, Apart
  <2> QED BY <2>2 DEF Timely
<1>16. TaskInv BY <1>1, <1>10, <1>11, <1>12, <1>13 DEF TaskInv
<1> QED BY <1>14, <1>15, <1>16

-----------------------------------------------------------------------------
(* Every step of the program keeps the invariant.                          *)

LEMMA StillKeeps ==
    ASSUME TaskInv, Clocked, UNCHANGED taskVars
    PROVE  Endures
<1>1. pc' = pc /\ tcbs' = tcbs /\ load' = load /\ k' = k /\ until' = until BY DEF taskVars
<1>2. Quiet BY <1>1 DEF Quiet
<1>3. Blocks' /\ Placed' = Placed BY <1>2, InvFacts, QuietFacts
<1>4. Sound(k, Placed) /\ Places /\ Serves(k, pc[k.cur], tcbs) /\ load \in Loads BY InvFacts
<1>5. Places' BY <1>1, <1>4 DEF Places
<1>6. Running' BY <1>1, <1>4 DEF Running
<1>7. TaskInv' BY <1>1, <1>3, <1>4, <1>5, <1>6 DEF TaskInv
<1>8. Suspends' = Suspends BY <1>1 DEF Suspends
<1>9. WakeInv => WakeInv' BY <1>1, <1>3, <1>8 DEF WakeInv
<1>10. Timely(k', until') BY <1>1 DEF Clocked
<1> QED BY <1>1, <1>7, <1>9, <1>10 DEF Endures, Elapses

(* A step that leaves who sleeps on his deadline.                          *)
Dated == until' = until \/ Deadlines

LEMMA DatedKeeps ==
    ASSUME TaskInv, Clocked, Keeps, Dated
    PROVE  Endures
<1>1. Good(k', Placed') BY DEF Keeps, TaskInv, Sound
<1>2. k' \in Kernels BY <1>1, GoodIsKernel
<1>3. k'.delayed \in Seq(Tasks) /\ k'.overflow \in Seq(Tasks) BY <1>2, KernelFields
<1>4. Timed(k') \subseteq Tasks BY <1>3, SetOf DEF Timed
<1>5. \A t \in Timed(k') : until'[t] = until[t] BY <1>4 DEF Dated, Deadlines
<1> QED BY <1>5, KeepsEndures

(* The steps that put a task to sleep for a time.                          *)
Dozes(t) ==
    \/ vTaskDelay(t) \/ xTaskDelayUntil(t)
    \/ ulTaskGenericNotifyTake(t) \/ xTaskGenericNotifyWait(t)

LEMMA StepDates ==
    ASSUME NEW t, TaskStep(t), ~Dozes(t)
    PROVE  Dated
<1>1. ResumeStep(t) \/ ResumeOnlyStep(t) \/ YieldStep(t) => Dated
  BY DEF ResumeStep, ResumeOnlyStep, YieldStep, Dated
<1>2. prvDeleteTCB(t) \/ xTaskAbortDelay(t) => Dated
  BY DEF prvDeleteTCB, xTaskAbortDelay, Dated
<1>3. xTaskCatchUpTicks(t) \/ SuspendReset(t) \/ vTaskResume(t) => Dated
  BY DEF xTaskCatchUpTicks, SuspendReset, vTaskResume, Dated
<1>4. SuspendAll(t) \/ ResumeAll(t) \/ vTaskPrioritySet(t) => Dated
  BY DEF SuspendAll, ResumeAll, vTaskPrioritySet, Dated
<1>5. prvCreateTask(t) \/ AddNewTask(t) \/ YieldToNewTask(t) => Dated
  BY DEF prvCreateTask, AddNewTask, YieldToNewTask, Dated
<1>6. taskYIELD(t) \/ xTaskGenericNotify(t) \/ xTaskGenericNotifyStateClear(t) => Dated
  BY DEF taskYIELD, xTaskGenericNotify, xTaskGenericNotifyStateClear, Dated
<1>7. ulTaskGenericNotifyValueClear(t) => Dated
  BY Zenon DEF ulTaskGenericNotifyValueClear, Dated
<1>8. vTaskSuspend(t) => Dated
  BY Zenon DEF vTaskSuspend, Dated
<1>9. vTaskDelete(t) => Dated
  BY Zenon DEF vTaskDelete, Dated
<1> QED BY <1>1, <1>2, <1>3, <1>4, <1>5, <1>6, <1>7, <1>8, <1>9 DEF TaskStep, Dozes

LEMMA OtherDates ==
    ASSUME prvIdleTask \/ Tick \/ TaskInterrupt
    PROVE  Dated
<1>1. prvIdleTask \/ Tick => Dated BY DEF prvIdleTask, Tick, Dated
<1>2. TaskInterrupt => Dated
  BY DEF TaskInterrupt, xTaskResumeFromISR, xTaskGenericNotifyFromISR,
         vTaskGenericNotifyGiveFromISR, Dated
<1> QED BY <1>1, <1>2

Inductive == TaskInv /\ Clocked /\ WakeInv

LEMMA TaskStepKeeps ==
    ASSUME Inductive, NEW t \in Tasks, TaskStep(t)
    PROVE  Endures
<1>0. TaskInv /\ Clocked BY DEF Inductive
<1>1. CASE Dozes(t)
  <2>1. CASE vTaskDelay(t) BY <1>0, <2>1, vTaskDelayKeeps
  <2>2. CASE xTaskDelayUntil(t) BY <1>0, <2>2, xTaskDelayUntilKeeps
  <2>3. CASE ulTaskGenericNotifyTake(t) BY <1>0, <2>3, ulTaskGenericNotifyTakeKeeps
  <2>4. CASE xTaskGenericNotifyWait(t) BY <1>0, <2>4, xTaskGenericNotifyWaitKeeps
  <2> QED BY <1>1, <2>1, <2>2, <2>3, <2>4 DEF Dozes
<1>2. CASE ~Dozes(t)
  <2>0. SUFFICES Keeps
    <3>1. Dated BY <1>2, StepDates
    <3> QED BY <1>0, <3>1, DatedKeeps
  <2>1. CASE ResumeStep(t) BY <1>0, <2>1, ResumeStepKeeps
  <2>2. CASE ResumeOnlyStep(t) BY <1>0, <2>2, ResumeOnlyStepKeeps
  <2>3. CASE YieldStep(t) BY <1>0, <2>3, YieldStepKeeps
  <2>4. CASE prvDeleteTCB(t) BY <1>0, <2>4, prvDeleteTCBKeeps
  <2>5. CASE xTaskAbortDelay(t) BY <1>0, <2>5, xTaskAbortDelayKeeps
  <2>6. CASE xTaskCatchUpTicks(t) BY <1>0, <2>6, xTaskCatchUpTicksKeeps
  <2>7. CASE vTaskSuspend(t) BY <1>0, <2>7, vTaskSuspendKeeps
  <2>8. CASE SuspendReset(t) BY <1>0, <2>8, SuspendResetKeeps
  <2>9. CASE vTaskResume(t) BY <1>0, <2>9, vTaskResumeKeeps
  <2>10. CASE SuspendAll(t) BY <1>0, <2>10, SuspendAllKeeps
  <2>11. CASE ResumeAll(t) BY <1>0, <2>11, ResumeAllKeeps
  <2>12. CASE vTaskPrioritySet(t) BY <1>0, <2>12, vTaskPrioritySetKeeps
  <2>13. CASE prvCreateTask(t) BY <1>0, <2>13, prvCreateTaskKeeps
  <2>14. CASE AddNewTask(t) BY <1>0, <2>14, AddNewTaskKeeps
  <2>15. CASE YieldToNewTask(t) BY <1>0, <2>15, YieldToNewTaskKeeps
  <2>16. CASE vTaskDelete(t) BY <1>0, <2>16, vTaskDeleteKeeps
  <2>17. CASE taskYIELD(t) BY <1>0, <2>17, taskYIELDKeeps
  <2>18. CASE xTaskGenericNotify(t) BY <1>0, <2>18, xTaskGenericNotifyKeeps
  <2>19. CASE xTaskGenericNotifyStateClear(t) BY <1>0, <2>19, xTaskGenericNotifyStateClearKeeps
  <2>20. CASE ulTaskGenericNotifyValueClear(t) BY <1>0, <2>20, ulTaskGenericNotifyValueClearKeeps
  <2> QED
    BY <1>2, <2>1, <2>2, <2>3, <2>4, <2>5, <2>6, <2>7, <2>8, <2>9, <2>10,
       <2>11, <2>12, <2>13, <2>14, <2>15, <2>16, <2>17, <2>18, <2>19, <2>20
       DEF TaskStep, Dozes
<1> QED BY <1>1, <1>2

(* Only xTaskDelayUntil writes the last wake times.                        *)
LEMMA LastTimesKeep ==
    ASSUME Inductive, [TaskNext]_taskVars
    PROVE  prev' \in [Tasks -> 0 .. Cycle - 1]
<1>0. TaskInv /\ Clocked BY DEF Inductive
<1>1. ASSUME NEW t \in Tasks, TaskStep(t) PROVE prev' \in [Tasks -> 0 .. Cycle - 1]
  <2>1. CASE xTaskDelayUntil(t)
    <3>1. PICK n \in Delays, last \in {prev[t], Now(k)} :
             prev' = [prev EXCEPT ![t] = (last + n) % Cycle]
      BY <2>1 DEF xTaskDelayUntil
    <3>2. n \in Int BY TasksAssumption, KernelAssumption DEF Ticks
    <3>3. (last + n) % Cycle \in 0 .. Cycle - 1 BY <1>0, <3>2, LastFacts
    <3> DEFINE v == (last + n) % Cycle
    <3>4. v \in 0 .. Cycle - 1 /\ prev' = [prev EXCEPT ![t] = v] BY <3>1, <3>3
    <3> HIDE DEF v
    <3> QED BY <1>0, <3>4 DEF Clocked
  <2>2. CASE ~xTaskDelayUntil(t)
    <3>1. ResumeStep(t) \/ ResumeOnlyStep(t) \/ YieldStep(t) => prev' = prev
      BY DEF ResumeStep, ResumeOnlyStep, YieldStep
    <3>2. prvDeleteTCB(t) \/ vTaskDelay(t) \/ xTaskAbortDelay(t) => prev' = prev
      BY DEF prvDeleteTCB, vTaskDelay, xTaskAbortDelay
    <3>3. xTaskCatchUpTicks(t) \/ SuspendReset(t) \/ vTaskResume(t) => prev' = prev
      BY DEF xTaskCatchUpTicks, SuspendReset, vTaskResume
    <3>4. SuspendAll(t) \/ ResumeAll(t) \/ vTaskPrioritySet(t) => prev' = prev
      BY DEF SuspendAll, ResumeAll, vTaskPrioritySet
    <3>5. prvCreateTask(t) \/ AddNewTask(t) \/ YieldToNewTask(t) => prev' = prev
      BY DEF prvCreateTask, AddNewTask, YieldToNewTask
    <3>6. taskYIELD(t) \/ xTaskGenericNotify(t) \/ xTaskGenericNotifyStateClear(t) => prev' = prev
      BY DEF taskYIELD, xTaskGenericNotify, xTaskGenericNotifyStateClear
    <3>7. ulTaskGenericNotifyValueClear(t) => prev' = prev
      BY Zenon DEF ulTaskGenericNotifyValueClear
    <3>8. vTaskSuspend(t) => prev' = prev
      BY Zenon DEF vTaskSuspend
    <3>9. vTaskDelete(t) => prev' = prev
      BY Zenon DEF vTaskDelete
    <3>10. ulTaskGenericNotifyTake(t) => prev' = prev
      BY Zenon DEF ulTaskGenericNotifyTake
    <3>11. xTaskGenericNotifyWait(t) => prev' = prev
      BY Zenon DEF xTaskGenericNotifyWait
    <3>20. prev' = prev
      BY <1>1, <2>2, <3>1, <3>2, <3>3, <3>4, <3>5, <3>6, <3>7, <3>8, <3>9, <3>10, <3>11 DEF TaskStep
    <3> QED BY <1>0, <3>20 DEF Clocked
  <2> QED BY <2>1, <2>2
<1>2. CASE prvIdleTask \/ Tick \/ TaskInterrupt
  <2>1. prev' = prev
    BY <1>2 DEF prvIdleTask, Tick, TaskInterrupt, xTaskResumeFromISR,
                xTaskGenericNotifyFromISR, vTaskGenericNotifyGiveFromISR
  <2> QED BY <1>0, <2>1 DEF Clocked
<1>3. CASE UNCHANGED taskVars BY <1>0, <1>3 DEF taskVars, Clocked
<1> QED BY <1>1, <1>2, <1>3 DEF TaskNext

(* The deadlines stay those of the tasks.                                  *)
LEMMA DomainKeeps ==
    ASSUME Inductive, [TaskNext]_taskVars
    PROVE  DOMAIN until' = Tasks
<1>0. DOMAIN until = Tasks BY DEF Inductive, Clocked
<1>1. Dated => DOMAIN until' = Tasks BY <1>0 DEF Dated, Deadlines
<1>2. ASSUME NEW t \in Tasks, TaskStep(t) PROVE DOMAIN until' = Tasks
  <2>1. CASE vTaskDelay(t) BY <1>0, <2>1 DEF vTaskDelay, Sleep
  <2>2. CASE xTaskDelayUntil(t) BY <1>0, <2>2 DEF xTaskDelayUntil
  <2>3. CASE ulTaskGenericNotifyTake(t)
    <3>1. until' = until \/ NotifyBlock(t) BY Zenon, <2>3 DEF ulTaskGenericNotifyTake
    <3> QED BY <1>0, <3>1 DEF NotifyBlock, Sleep
  <2>4. CASE xTaskGenericNotifyWait(t)
    <3>1. until' = until \/ NotifyBlock(t) BY Zenon, <2>4 DEF xTaskGenericNotifyWait
    <3> QED BY <1>0, <3>1 DEF NotifyBlock, Sleep
  <2>5. CASE ~Dozes(t) BY <1>1, <1>2, <2>5, StepDates
  <2> QED BY <2>1, <2>2, <2>3, <2>4, <2>5 DEF Dozes
<1>3. CASE prvIdleTask \/ Tick \/ TaskInterrupt
  <2>1. Dated BY <1>3, OtherDates
  <2> QED BY <1>1, <2>1
<1>4. CASE UNCHANGED taskVars BY <1>0, <1>4 DEF taskVars
<1> QED BY <1>2, <1>3, <1>4 DEF TaskNext

LEMMA NextEndures ==
    ASSUME Inductive, [TaskNext]_taskVars
    PROVE  Endures
<1>0. TaskInv /\ Clocked BY DEF Inductive
<1>1. CASE \E t \in Tasks : TaskStep(t) BY <1>1, TaskStepKeeps
<1>2. CASE prvIdleTask \/ Tick \/ TaskInterrupt
  <2>1. Dated BY <1>2, OtherDates
  <2>2. CASE prvIdleTask BY <1>0, <2>1, <2>2, prvIdleTaskKeeps, DatedKeeps
  <2>3. CASE xTaskResumeFromISR BY <1>0, <2>1, <2>3, xTaskResumeFromISRKeeps, DatedKeeps
  <2>4. CASE xTaskGenericNotifyFromISR BY <1>0, <2>1, <2>4, xTaskGenericNotifyFromISRKeeps, DatedKeeps
  <2>5. CASE vTaskGenericNotifyGiveFromISR
    BY <1>0, <2>1, <2>5, vTaskGenericNotifyGiveFromISRKeeps, DatedKeeps
  <2>6. CASE Tick BY <1>0, <2>1, <2>6, TickKeeps, DatedKeeps
  <2> QED BY <1>2, <2>2, <2>3, <2>4, <2>5, <2>6 DEF TaskInterrupt
<1>3. CASE UNCHANGED taskVars BY <1>0, <1>3, StillKeeps
<1> QED BY <1>1, <1>2, <1>3 DEF TaskNext

LEMMA InductiveKeeps ==
    ASSUME Inductive, [TaskNext]_taskVars
    PROVE  Inductive'
<1>1. Endures BY NextEndures
<1>2. Clocked' BY <1>1, LastTimesKeep, DomainKeeps DEF Clocked, Endures
<1> QED BY <1>1, <1>2 DEF Inductive, Endures

LEMMA InductiveInit ==
    ASSUME TaskInit
    PROVE  Inductive
<1>1. prev = [t \in Tasks |-> 0] /\ until = [t \in Tasks |-> 0] BY DEF TaskInit
<1>2. 0 \in 0 .. Cycle - 1
  <2>1. Wrap \in Nat \ {0} /\ Overflows \in Nat \ {0} /\ Cycle = Overflows * Wrap BY Widths
  <2> QED BY <2>1
<1>3. TaskInv /\ WakeInv /\ Timely(k, until) BY InitFacts
<1>4. Clocked BY <1>1, <1>2, <1>3 DEF Clocked
<1> QED BY <1>3, <1>4 DEF Inductive

-----------------------------------------------------------------------------
(* What the invariant says of the lists as the kernel walks them.          *)

LEMMA JoinFacts ==
    ASSUME NEW S, NEW a \in Seq(S), NEW b \in Seq(S)
    PROVE  /\ DOMAIN (a \o b) = 1 .. Len(a) + Len(b)
           /\ \A i \in 1 .. Len(a) : (a \o b)[i] = a[i]
           /\ \A i \in 1 .. Len(b) : (a \o b)[Len(a) + i] = b[i]
<1>1. DOMAIN (a \o b) = 1 .. Len(a) + Len(b) OBVIOUS
<1>2. \A i \in 1 .. Len(a) : (a \o b)[i] = a[i] OBVIOUS
<1>3. ASSUME NEW i \in 1 .. Len(b) PROVE (a \o b)[Len(a) + i] = b[i] OBVIOUS
<1> QED BY <1>1, <1>2, <1>3

LEMMA StateListFacts ==
    ASSUME NEW x \in Kernels
    PROVE  /\ DOMAIN StateLists(x) = 1 .. 4 + MaxPriorities
           /\ StateLists(x)[1] = x.delayed /\ StateLists(x)[2] = x.overflow
           /\ StateLists(x)[3] = x.sleeping /\ StateLists(x)[4] = x.dying
           /\ \A p \in Priorities : StateLists(x)[p + 5] = x.ready[p].items
           /\ \A i \in 1 .. 4 + MaxPriorities : i \in 1 .. 4 \/ \E p \in Priorities : i = p + 5
           /\ MaxPriorities \in Nat
<1> DEFINE a == <<x.delayed, x.overflow, x.sleeping, x.dying>>
           b == [i \in 1 .. MaxPriorities |-> x.ready[i - 1].items]
           s == a \o b
<1>1. MaxPriorities \in Nat BY KernelAssumption
<1>2. /\ x.delayed \in Seq(Tasks) /\ x.overflow \in Seq(Tasks)
      /\ x.sleeping \in Seq(Tasks) /\ x.dying \in Seq(Tasks)
  BY KernelFields
<1>3. \A p \in Priorities : x.ready[p].items \in Seq(Tasks) BY KernelFields DEF Rings
<1>4. a \in Seq(Seq(Tasks)) /\ Len(a) = 4 BY <1>2
<1>5. /\ b \in Seq(Seq(Tasks)) /\ Len(b) = MaxPriorities
      /\ \A p \in Priorities : b[p + 1] = x.ready[p].items
  <2>1. \A i \in 1 .. MaxPriorities : i - 1 \in Priorities BY <1>1 DEF Priorities
  <2>2. b \in [1 .. MaxPriorities -> Seq(Tasks)] BY <1>3, <2>1
  <2>3. \A p \in Priorities : p + 1 \in 1 .. MaxPriorities /\ (p + 1) - 1 = p
    BY <1>1 DEF Priorities
  <2>4. \A p \in Priorities : b[p + 1] = x.ready[p].items BY <2>3
  <2> HIDE DEF b
  <2>5. b \in Seq(Seq(Tasks)) /\ Len(b) = MaxPriorities BY <1>1, <2>2
  <2> QED BY <2>4, <2>5
<1>6. a[1] = x.delayed /\ a[2] = x.overflow /\ a[3] = x.sleeping /\ a[4] = x.dying OBVIOUS
<1>7. StateLists(x) = s BY DEF StateLists
<1> HIDE DEF a, b
<1> DEFINE SS == Seq(Tasks)
<1>0. a \in Seq(SS) /\ b \in Seq(SS) BY <1>4, <1>5
<1> HIDE DEF SS
<1>8. /\ DOMAIN s = 1 .. Len(a) + Len(b)
      /\ \A i \in 1 .. Len(a) : s[i] = a[i]
      /\ \A i \in 1 .. Len(b) : s[Len(a) + i] = b[i]
  BY <1>0, JoinFacts
<1> HIDE DEF s
<1>9. DOMAIN s = 1 .. 4 + MaxPriorities /\ \A i \in 1 .. 4 : s[i] = a[i]
  BY <1>4, <1>5, <1>8
<1>10. \A p \in Priorities : s[p + 5] = b[p + 1]
  <2>1. ASSUME NEW p \in Priorities PROVE s[p + 5] = b[p + 1]
    <3>1. p + 1 \in 1 .. Len(b) /\ Len(a) + (p + 1) = p + 5
      BY <1>1, <1>4, <1>5 DEF Priorities
    <3> QED BY <1>8, <3>1
  <2> QED BY <2>1
<1>11. \A i \in 1 .. 4 + MaxPriorities : i \in 1 .. 4 \/ \E p \in Priorities : i = p + 5
  <2>1. ASSUME NEW i \in 1 .. 4 + MaxPriorities, i \notin 1 .. 4
        PROVE  i - 5 \in Priorities /\ i = (i - 5) + 5
    BY <1>1, <2>1 DEF Priorities
  <2> QED BY <2>1
<1>12. s[1] = a[1] /\ s[2] = a[2] /\ s[3] = a[3] /\ s[4] = a[4] BY <1>9
<1> QED BY <1>1, <1>5, <1>6, <1>7, <1>9, <1>10, <1>11, <1>12

(* A task on the lists is on one state list.                               *)
LEMMA OneStateList ==
    ASSUME NEW x, NEW P, Good(x, P), NEW t \in P, t \in Tasks
    PROVE  Cardinality({i \in DOMAIN StateLists(x) : Contains(StateLists(x)[i], t)}) = 1
<1> DEFINE s == StateLists(x)
           I == {i \in DOMAIN s : Contains(s[i], t)}
<1>1. x \in Kernels /\ Seated(x, P) /\ Ranked(x) BY GoodIsLoose DEF Good, Orderly
<1>2. /\ DOMAIN s = 1 .. 4 + MaxPriorities
      /\ s[1] = x.delayed /\ s[2] = x.overflow /\ s[3] = x.sleeping /\ s[4] = x.dying
      /\ \A p \in Priorities : s[p + 5] = x.ready[p].items
      /\ \A i \in 1 .. 4 + MaxPriorities : i \in 1 .. 4 \/ \E p \in Priorities : i = p + 5
      /\ MaxPriorities \in Nat
  BY <1>1, StateListFacts
<1> HIDE DEF s
<1>3. Apart(Readied(x), ToSet(x.delayed), ToSet(x.overflow), ToSet(x.sleeping), ToSet(x.dying), P)
  BY <1>1 DEF Seated
<1>4. /\ Contains(s[1], t) <=> t \in ToSet(x.delayed)
      /\ Contains(s[2], t) <=> t \in ToSet(x.overflow)
      /\ Contains(s[3], t) <=> t \in ToSet(x.sleeping)
      /\ Contains(s[4], t) <=> t \in ToSet(x.dying)
      /\ \A p \in Priorities : Contains(s[p + 5], t) <=> t \in Readied(x) /\ p = x.prio[t]
  BY <1>2, WhereFacts DEF InReady
<1>5. x.prio[t] \in Priorities BY <1>1, KernelFields
<1>6. \E j : I = {j}
  <2>1. /\ 1 \in DOMAIN s /\ 2 \in DOMAIN s /\ 3 \in DOMAIN s /\ 4 \in DOMAIN s
        /\ \A p \in Priorities : p + 5 \in DOMAIN s /\ p + 5 \notin 1 .. 4
    BY <1>2 DEF Priorities
  <2>2. \A i \in DOMAIN s : i \in {1, 2, 3, 4} \/ \E p \in Priorities : i = p + 5 BY <1>2
  <2>3. CASE t \in ToSet(x.delayed)
    <3>1. I = {1} BY <1>3, <1>4, <2>1, <2>2, <2>3 DEF Apart
    <3> QED BY <3>1
  <2>4. CASE t \in ToSet(x.overflow)
    <3>1. I = {2} BY <1>3, <1>4, <2>1, <2>2, <2>4 DEF Apart
    <3> QED BY <3>1
  <2>5. CASE t \in ToSet(x.sleeping)
    <3>1. I = {3} BY <1>3, <1>4, <2>1, <2>2, <2>5 DEF Apart
    <3> QED BY <3>1
  <2>6. CASE t \in ToSet(x.dying)
    <3>1. I = {4} BY <1>3, <1>4, <2>1, <2>2, <2>6 DEF Apart
    <3> QED BY <3>1
  <2>7. CASE t \in Readied(x)
    <3> DEFINE q == x.prio[t]
    <3>1. q + 5 \in I BY <1>4, <1>5, <2>1, <2>7
    <3>2. ASSUME NEW i \in I PROVE i = q + 5
      <4>1. ~Contains(s[1], t) /\ ~Contains(s[2], t) /\ ~Contains(s[3], t) /\ ~Contains(s[4], t)
        BY <1>3, <1>4, <2>7 DEF Apart
      <4>2. PICK p \in Priorities : i = p + 5 BY <2>2, <4>1
      <4>3. p = q BY <1>4, <4>2
      <4> QED BY <4>2, <4>3
    <3> HIDE DEF I
    <3>3. I = {q + 5} BY <3>1, <3>2
    <3> QED BY <3>3
  <2> QED BY <1>3, <2>3, <2>4, <2>5, <2>6, <2>7 DEF Apart
<1> HIDE DEF I
<1>7. Cardinality(I) = 1 BY <1>6, FS_Singleton
<1> QED BY <1>7 DEF I, s

(* Every list holds tasks of P, each of them once.                         *)
LEMMA EveryListFacts ==
    ASSUME NEW x, NEW P, Good(x, P), NEW l \in EveryList(x)
    PROVE  IsInjective(l) /\ ToSet(l) \subseteq P
<1>1. x \in Kernels /\ Seated(x, P) /\ Ranked(x) /\ Evented(x, P) BY GoodIsLoose DEF Good, Orderly
<1>2. /\ DOMAIN StateLists(x) = 1 .. 4 + MaxPriorities
      /\ StateLists(x)[1] = x.delayed /\ StateLists(x)[2] = x.overflow
      /\ StateLists(x)[3] = x.sleeping /\ StateLists(x)[4] = x.dying
      /\ \A p \in Priorities : StateLists(x)[p + 5] = x.ready[p].items
      /\ \A i \in 1 .. 4 + MaxPriorities : i \in 1 .. 4 \/ \E p \in Priorities : i = p + 5
  BY <1>1, StateListFacts
<1>3. Apart(Readied(x), ToSet(x.delayed), ToSet(x.overflow), ToSet(x.sleeping), ToSet(x.dying), P)
  BY <1>1 DEF Seated
<1>4. ASSUME NEW p \in Priorities
      PROVE  IsInjective(x.ready[p].items) /\ ToSet(x.ready[p].items) \subseteq P
  <2>1. IsInjective(x.ready[p].items) BY <1>1 DEF Ranked, Turning
  <2>2. ToSet(x.ready[p].items) \subseteq Readied(x) BY <1>1, ReadyOf
  <2> QED BY <1>3, <2>1, <2>2 DEF Apart
<1>5. CASE l \in Range(StateLists(x))
  <2>1. PICK i \in 1 .. 4 + MaxPriorities : l = StateLists(x)[i] BY <1>2, <1>5 DEF Range
  <2>2. CASE \E p \in Priorities : i = p + 5 BY <1>2, <1>4, <2>1, <2>2
  <2>3. CASE i \in 1 .. 4
    <3>1. l \in {x.delayed, x.overflow, x.sleeping, x.dying} BY <1>2, <2>1, <2>3
    <3> QED BY <1>1, <1>3, <3>1 DEF Seated, Apart
  <2> QED BY <1>2, <2>2, <2>3
<1>6. CASE l \in {x.events[e] : e \in DOMAIN x.events}
  <2>1. DOMAIN x.events = EventLists \cup {Pending} BY <1>1, PendingFields
  <2>2. CASE l = x.events[Pending] BY <1>1, <2>2 DEF Evented
  <2>3. CASE l = <<>> BY <2>3 DEF IsInjective, ToSet
  <2> QED BY <1>1, <1>6, <2>1, <2>2, <2>3 DEF Evented
<1> QED BY <1>5, <1>6 DEF EveryList

(* At most one event list, xPendingReadyList, holds a task.                *)
LEMMA OneEventList ==
    ASSUME NEW x, NEW P, Good(x, P), NEW t
    PROVE  Cardinality({l \in DOMAIN x.events : Contains(x.events[l], t)}) <= 1
<1> DEFINE E == {l \in DOMAIN x.events : Contains(x.events[l], t)}
<1>1. x \in Kernels /\ Evented(x, P) BY GoodIsLoose DEF Good
<1>2. DOMAIN x.events = EventLists \cup {Pending} BY <1>1, PendingFields
<1>3. ~Contains(<<>>, t) BY DEF Contains
<1>4. E \in SUBSET {Pending} BY <1>1, <1>2, <1>3 DEF Evented
<1> HIDE DEF E
<1>5. IsFiniteSet({Pending}) /\ Cardinality({Pending}) = 1 BY FS_Singleton
<1>6. Cardinality(E) <= Cardinality({Pending}) BY <1>4, <1>5, FS_Subset
<1>7. Cardinality(E) <= 1 BY <1>5, <1>6
<1> QED BY <1>7 DEF E

LEMMA OrderedIsSorted ==
    ASSUME NEW s \in Seq(Tasks), NEW v, Ordered(s, v)
    PROVE  Sorted(s, v)
<1>1. ASSUME NEW i \in 1 .. Len(s) - 1 PROVE v[s[i]] <= v[s[i + 1]]
  <2>1. i \in 1 .. Len(s) /\ i + 1 \in 1 .. Len(s) /\ i < i + 1 BY <1>1
  <2> QED BY <2>1 DEF Ordered
<1> QED BY <1>1 DEF Sorted

LEMMA InvImpliesLists ==
    ASSUME TaskInv
    PROVE  ListsConsistent
<1>1. /\ k \in Kernels /\ Good(k, Placed) /\ Placed \subseteq Tasks BY InvFacts
<1>2. Ranked(k) /\ InOrder(k) BY <1>1 DEF Good, Orderly
<1>3. k.delayed \in Seq(Tasks) /\ k.overflow \in Seq(Tasks) BY <1>1, KernelFields
<1>4. ASSUME NEW t \in Placed
      PROVE  LET s == StateLists(k)
             IN  Cardinality({i \in DOMAIN s : Contains(s[i], t)}) = 1
  BY <1>1, OneStateList
<1>5. ASSUME NEW t \in Placed, NEW p \in Priorities, InReady(k, t, p)
      PROVE  p = k.prio[t] /\ p <= k.top
  <2>1. t \in Tasks /\ t \in Readied(k) /\ p = k.prio[t] BY <1>1, <1>5, WhereFacts
  <2>2. t \in ToSet(k.ready[p].items) BY <2>1 DEF Readied
  <2> QED BY <1>2, <2>1, <2>2 DEF Ranked
<1>6. ASSUME NEW t \in Placed
      PROVE  Cardinality({l \in DOMAIN k.events : Contains(k.events[l], t)}) <= 1
  BY <1>1, OneEventList
<1>7. \A l \in EveryList(k) : IsInjective(l) BY <1>1, EveryListFacts
<1>8. Sorted(k.delayed, k.wake) /\ Sorted(k.overflow, k.wake)
  BY <1>2, <1>3, OrderedIsSorted DEF InOrder
<1>9. ASSUME k.delayed # <<>> PROVE k.next <= k.wake[Head(k.delayed)]
  <2> DEFINE s == k.delayed
  <2>1. Head(s) = s[1] /\ 1 \in 1 .. Len(s) BY <1>3, <1>9
  <2>2. Head(s) \in ToSet(s) BY <1>3, <2>1, SetOf
  <2> QED BY <1>2, <2>2 DEF InOrder
<1> QED BY <1>4, <1>5, <1>6, <1>7, <1>8, <1>9 DEF ListsConsistent

LEMMA InvImpliesNoUse ==
    ASSUME TaskInv
    PROVE  NoUseAfterFree
<1>1. Good(k, Placed) /\ Sound(k, Placed) BY InvFacts
<1>2. Placed \subseteq tcbs BY DEF Placed
<1>3. \A l \in EveryList(k) : ToSet(l) \subseteq tcbs BY <1>1, <1>2, EveryListFacts
<1> QED BY <1>1, <1>2, <1>3 DEF Sound, NoUseAfterFree

LEMMA InvImpliesHighest ==
    ASSUME TaskInv
    PROVE  HighestPriorityRuns
<1> SUFFICES ASSUME k.susp = 0, pc[k.cur].at \notin {"resume", "yield", "suspend", "added"}
             PROVE  /\ k.cur \in ToSet(k.ready[k.prio[k.cur]].items)
                    /\ \A p \in k.prio[k.cur] + 1 .. MaxPriorities - 1 : k.ready[p].items = <<>>
  BY DEF HighestPriorityRuns
<1>1. /\ k \in Kernels /\ Good(k, Placed) /\ Serves(k, pc[k.cur], tcbs) /\ k.cur \in Tasks
      /\ k.prio \in [Tasks -> Priorities]
  BY InvFacts
<1>2. CurReady(k) /\ NoHigher(k) BY <1>1 DEF Serves, Off
<1>3. Ranked(k) BY <1>1 DEF Good, Orderly
<1>4. k.prio[k.cur] \in Priorities BY <1>1
<1>5. ASSUME NEW p \in k.prio[k.cur] + 1 .. MaxPriorities - 1 PROVE k.ready[p].items = <<>>
  <2>1. p \in Priorities /\ ~(p <= k.prio[k.cur]) BY <1>4, <1>5, KernelAssumption DEF Priorities
  <2>2. /\ k.ready[p].items \in Seq(Tasks)
        /\ ToSet(k.ready[p].items) = {t \in Readied(k) : k.prio[t] = p}
    BY <1>1, <1>3, <2>1, ReadyOf
  <2>3. {t \in Readied(k) : k.prio[t] = p} = {} BY <1>2, <2>1 DEF NoHigher
  <2> QED BY <2>2, <2>3, SetOf
<1> QED BY <1>2, <1>5 DEF CurReady, Readied

LEMMA InvImpliesNeverLate ==
    ASSUME Inductive
    PROVE  NeverLate
<1> SUFFICES ASSUME NEW t \in Timed(k)
             PROVE  LET left == (until[t] + Cycle - Now(k)) % Cycle
                    IN  left > 0 /\ left <= MaxDelay
  BY DEF NeverLate
<1>1. k \in Kernels /\ Timely(k, until) BY InvFacts DEF Inductive, Clocked
<1> DEFINE left == (until[t] + Cycle - Now(k)) % Cycle
<1>2. left \in 1 .. MaxDelay BY <1>1, TimelyLeft
<1>3. MaxDelay \in Nat BY Widths
<1> HIDE DEF left
<1>4. left > 0 /\ left <= MaxDelay BY <1>2, <1>3
<1> QED BY <1>4 DEF left

(* An awake task is where NotifiedTaskWakes looks for it.                  *)
LEMMA InvImpliesWakes ==
    ASSUME Inductive
    PROVE  NotifiedTaskWakes
<1>1. TaskInv /\ WakeInv BY DEF Inductive
<1>2. Good(k, Placed) /\ Placed \subseteq Tasks /\ k.prio \in [Tasks -> Priorities]
  BY <1>1, InvFacts
<1>3. ASSUME NEW t \in Placed, Awake(k, Suspends, t)
      PROVE  \/ Contains(k.events[Pending], t)
             \/ InReady(k, t, k.prio[t])
             \/ Suspends /\ Contains(k.sleeping, t)
  <2>1. t \in Tasks /\ k.prio[t] \in Priorities BY <1>2
  <2>2. /\ Contains(k.sleeping, t) <=> t \in ToSet(k.sleeping)
        /\ Contains(k.events[Pending], t) <=> t \in ToSet(k.events[Pending])
        /\ \A p \in Priorities : InReady(k, t, p) <=> t \in Readied(k) /\ p = k.prio[t]
    BY <1>2, <2>1, WhereFacts
  <2> QED BY <1>3, <2>1, <2>2 DEF Awake
<1>4. ASSUME NEW t \in Placed,
             \/ NotifyWait(t) # "no" /\ k.nstate[t] = RECEIVED
             \/ NotifyWait(t) = "notifyTake" /\ k.nval[t] > 0
      PROVE  Awake(k, Suspends, t)
  <2>1. NotifyWait(t) = Op(pc[t]) BY DEF NotifyWait, Op
  <2>2. Op(pc[t]) # "no" => Expects(k, t, Op(pc[t])) \/ Awake(k, Suspends, t)
    BY <1>1 DEF WakeInv, Minded
  <2>3. ~Expects(k, t, Op(pc[t]))
    <3>1. RECEIVED # WAITING BY DEF RECEIVED, WAITING
    <3>2. ~(0 > 0) OBVIOUS
    <3> QED BY <1>4, <2>1, <3>1, <3>2 DEF Expects
  <2> QED BY <1>4, <2>1, <2>2, <2>3
<1> QED BY <1>3, <1>4 DEF NotifiedTaskWakes

LEMMA InvImpliesNotEarly ==
    ASSUME Inductive, [TaskNext]_taskVars,
           NEW t \in Timed(k) \ (Timed(k') \cup ToSet(k.events[Pending])), k.tick # k'.tick
    PROVE  (Now(k') + Cycle - until[t]) % Cycle <= k.pended
<1>1. k \in Kernels /\ Timely(k, until) BY InvFacts DEF Inductive, Clocked
<1>2. Endures BY NextEndures
<1>3. Good(k', Placed') BY <1>2 DEF Endures, TaskInv, Sound
<1>4. k' \in Kernels BY <1>3, GoodIsKernel
<1>5. PICK m \in Nat : m <= k.pended + 1 /\ Later(k, k', m) BY <1>2 DEF Endures, Elapses
<1>6. k.pended \in Nat BY <1>1, KernelFields
<1> QED BY <1>1, <1>4, <1>5, <1>6, LaterIsNotEarly

-----------------------------------------------------------------------------
(* The theorems.                                                           *)

(* The kernel's data stay the kernel's: whichever calls the tasks and the  *)
(* interrupts make, in any order, the lists are in order and every place a *)
(* task is at in a call is one the kernel can be in (tasks.c).             *)
THEOREM TasksKeepInvariant == TaskSpec => []TaskInv
<1>1. TaskInit => Inductive BY InductiveInit
<1>2. Inductive /\ [TaskNext]_taskVars => Inductive' BY InductiveKeeps
<1>3. Inductive => TaskInv BY DEF Inductive
<1> QED BY <1>1, <1>2, <1>3, PTL DEF TaskSpec

(* Every live task is on exactly one state list, on the ready list of its  *)
(* own priority if it is ready, the delayed lists are sorted, and          *)
(* xNextTaskUnblockTime is not past the first wake time.                   *)
THEOREM TasksListsConsistent == TaskSpec => []ListsConsistent
<1>1. TaskInv => ListsConsistent BY InvImpliesLists
<1> QED BY <1>1, TasksKeepInvariant, PTL

(* No list and no variable of the kernel points at a freed control block,  *)
(* and its counts of tasks are right (vTaskDelete, prvDeleteTCB).          *)
THEOREM TasksNoUseAfterFree == TaskSpec => []NoUseAfterFree
<1>1. TaskInv => NoUseAfterFree BY InvImpliesNoUse
<1> QED BY <1>1, TasksKeepInvariant, PTL

(* Out of the kernel and with the scheduler running, a task of the highest *)
(* ready priority runs (vTaskSwitchContext and every call that readies).   *)
THEOREM TasksHighestPriorityRuns == TaskSpec => []HighestPriorityRuns
<1>1. TaskInv => HighestPriorityRuns BY InvImpliesHighest
<1> QED BY <1>1, TasksKeepInvariant, PTL
(* No task oversleeps: the deadline of one that sleeps lies ahead by no    *)
(* more than the longest delay, whatever the tick counter's width, its     *)
(* wraps, the ticks held back and the list the task is on                  *)
(* (prvAddCurrentTaskToDelayedList, taskSWITCH_DELAYED_LISTS,              *)
(* xTaskIncrementTick).                                                    *)
THEOREM TasksNeverLate == TaskSpec => []NeverLate
<1>1. TaskInit => Inductive BY InductiveInit
<1>2. Inductive /\ [TaskNext]_taskVars => Inductive' BY InductiveKeeps
<1>3. Inductive => NeverLate BY InvImpliesNeverLate
<1> QED BY <1>1, <1>2, <1>3, PTL DEF TaskSpec

(* And time wakes none too soon: whom the counting of ticks takes off the  *)
(* delayed lists has come to his deadline, and is late by no more ticks    *)
(* than were held back (xTaskIncrementTick, xTaskResumeAll).               *)
THEOREM TasksNeverEarly == TaskSpec => NeverEarly
<1>1. TaskInit => Inductive BY InductiveInit
<1>2. Inductive /\ [TaskNext]_taskVars => Inductive' BY InductiveKeeps
<1>3. Inductive /\ [TaskNext]_taskVars =>
        [\A t \in Timed(k) \ (Timed(k') \cup ToSet(k.events[Pending])) :
           k.tick # k'.tick =>
               (Now(k') + Cycle - until[t]) % Cycle <= k.pended]_taskVars
  BY InvImpliesNotEarly
<1> QED BY <1>1, <1>2, <1>3, PTL DEF TaskSpec, NeverEarly

(* No notification is lost: a task that waits for one, when one has come   *)
(* or its value is not zero, is ready or about to be, or suspended         *)
(* (ulTaskGenericNotifyTake, xTaskGenericNotifyWait and the calls that     *)
(* notify, from tasks and from interrupts).                                *)
THEOREM TasksNotifiedTaskWakes == TaskSpec => []NotifiedTaskWakes
<1>1. TaskInit => Inductive BY InductiveInit
<1>2. Inductive /\ [TaskNext]_taskVars => Inductive' BY InductiveKeeps
<1>3. Inductive => NotifiedTaskWakes BY InvImpliesWakes
<1> QED BY <1>1, <1>2, <1>3, PTL DEF TaskSpec
=============================================================================
