-------------------------------- MODULE Tasks --------------------------------
(***************************************************************************)
(* Tasks, the tick interrupt and the idle task over the kernel of Kernel.  *)
(* One step is one critical section, or one stretch of code that no        *)
(* interrupt can tell apart; the tick and the calls made from interrupts   *)
(* fall between any two steps.  Only the current task takes steps, so a    *)
(* task switched out in the middle of a call goes on from there.           *)
(*                                                                         *)
(* pc[t] is where task t is: "run" is its own code, the rest are places    *)
(* inside a kernel call.  "resume" is xTaskResumeAll followed, if it did   *)
(* not yield, by a yield; the call goes on at "then".                      *)
(***************************************************************************)
EXTENDS Kernel

CONSTANTS Loads,       \* what each task and the interrupts may call, and
                       \* the priorities the tasks start with
          Delays,      \* the delays asked for, in ticks
          MaxPended,   \* bound: the ticks that pass with the scheduler
                       \* suspended
          MaxNotify    \* bound: the largest notification value

(* Idle never blocks, and no call is for priorities or times out of range. *)
ASSUME TasksAssumption ==
    /\ IsFiniteSet(Tasks)
    /\ Delays \subseteq Ticks
    /\ \A l \in Loads :
         /\ l.prio \in [Tasks -> Priorities \cup {-1}]
         /\ l.prio[Idle] = 0 /\ l.can[Idle] = {}

VARIABLES k,           \* the kernel
          pc,          \* where each task is
          tcbs,        \* the control blocks that are allocated
          prev,        \* each task's pxPreviousWakeTime, in absolute time
          until,       \* the absolute time a sleeping task is to wake at
          load         \* the member of Loads this behaviour is about

taskVars == <<k, pc, tcbs, prev, until, load>>

Run            == [at |-> "run"]
Resume(c)      == [at |-> "resume", then |-> c]
Yield(c)       == [at |-> "yield", then |-> c]
Goto(t, c)     == pc' = [pc EXCEPT ![t] = c]
Calls(t, op)   == k.cur = t /\ pc[t] = Run /\ op \in load.can[t]
At(t, place)   == k.cur = t /\ pc[t].at = place
In(t, op, place) == At(t, place) /\ pc[t].op = op

(* The deadline of a task is dropped when it no longer sleeps with one.    *)
Deadlines ==
    until' = [t \in Tasks |-> IF t \in Timed(k') THEN until[t] ELSE 0]

Sleep(t, wait) ==
    until' = [until EXCEPT ![t] = IF t \in Timed(k') THEN (Now(k) + wait) % Cycle
                                                     ELSE 0]

-----------------------------------------------------------------------------
(* The scheduler starts: prvAddNewTaskToReadyList has put the tasks on     *)
(* their lists and picked the first of the highest priority.               *)

Alive(l) == {t \in Tasks : l.prio[t] >= 0}

Fresh == [cur |-> Idle,
          ready |-> [p \in Priorities |-> vListInitialise],
          delayed |-> <<>>, overflow |-> <<>>, sleeping |-> <<>>,
          dying |-> <<>>, tick |-> 0, ovf |-> 0, top |-> 0, next |-> MaxDelay,
          susp |-> 0, pended |-> 0, yield |-> FALSE, num |-> 0, cleanup |-> 0,
          events |-> [e \in EventLists \cup {Pending} |-> <<>>],
          prio |-> [t \in Tasks |-> 0], base |-> [t \in Tasks |-> 0],
          held |-> [t \in Tasks |-> 0], wake |-> [t \in Tasks |-> 0],
          rank |-> [t \in Tasks |-> 0],
          nstate |-> [t \in Tasks |-> NOT_WAITING],
          nval |-> [t \in Tasks |-> 0], aborted |-> [t \in Tasks |-> FALSE]]

prvAddNewTaskToReadyList(x, t, started) ==
    LET x1 == [x EXCEPT !.num = @ + 1,
                        !.cur = IF ~started /\ x.prio[@] <= x.prio[t]
                                THEN t ELSE @]
    IN  prvAddTaskToReadyList(x1, t)

(* The tasks of a sequence, created one after the other.                   *)
CreateEach(l, order) ==
    LET turn[i \in 0 .. Len(order)] ==
            IF i = 0 THEN [Fresh EXCEPT !.cur = order[1]]
            ELSE prvAddNewTaskToReadyList(
                     prvInitialiseNewTask(turn[i - 1], order[i], l.prio[order[i]]),
                     order[i], FALSE)
    IN  turn[Len(order)]

vTaskStartScheduler(l) ==
    CreateEach(l, Append(SetToSeq(Alive(l) \ {Idle}), Idle))

TaskInit ==
    /\ load \in Loads
    /\ k = vTaskStartScheduler(load)
    /\ pc = [t \in Tasks |-> Run]
    /\ tcbs = Alive(load)
    /\ prev = [t \in Tasks |-> 0]
    /\ until = [t \in Tasks |-> 0]

-----------------------------------------------------------------------------
(* Steps that many calls end with *)

Resumed(t, r) ==
    /\ k' = r.k
    /\ Goto(t, IF r.yielded THEN pc[t].then ELSE Yield(pc[t].then))

ResumeStep(t) ==
    /\ At(t, "resume")
    /\ Resumed(t, xTaskResumeAll(k))
    /\ Deadlines
    /\ UNCHANGED <<tcbs, prev, load>>

(* (void) xTaskResumeAll(): no yield follows.                              *)
ResumeOnlyStep(t) ==
    /\ At(t, "resumeOnly")
    /\ k' = xTaskResumeAll(k).k
    /\ Goto(t, pc[t].then)
    /\ Deadlines
    /\ UNCHANGED <<tcbs, prev, load>>

YieldStep(t) ==
    /\ At(t, "yield")
    /\ k' = vTaskSwitchContext(k)
    /\ Goto(t, pc[t].then)
    /\ Deadlines
    /\ UNCHANGED <<tcbs, prev, load>>

(* Reclaim a control block: two calls of vPortFree.  A block that its      *)
(* owner was itself building or freeing when it was deleted stays          *)
(* allocated for ever, and what that block's owner was building with it.   *)
Orphans(x) ==
    CASE pc[x].at \in {"add", "free"} -> {pc[x].task}
      [] pc[x].at = "leaked"          -> pc[x].holds
      [] OTHER                        -> {}

prvDeleteTCB(t) ==
    /\ At(t, "free")
    /\ LET x == pc[t].task
       IN  /\ tcbs' = tcbs \ {x}
           /\ pc' = [u \in Tasks |->
                       CASE u = t -> Run
                         [] u \in Orphans(x) -> [at |-> "leaked", holds |-> Orphans(u)]
                         [] OTHER -> pc[u]]
    /\ k' = xTaskResumeAll(vTaskSuspendAll(k)).k
    /\ Deadlines
    /\ UNCHANGED <<prev, load>>

-----------------------------------------------------------------------------
(* Delays *)

vTaskDelay(t) ==
    /\ Calls(t, "delay")
    /\ k.susp = 0
    /\ \E n \in Delays :
         IF n > 0
         THEN /\ k' = prvAddCurrentTaskToDelayedList(vTaskSuspendAll(k), n, FALSE)
              /\ Goto(t, Resume(Run))
              /\ Sleep(t, n)
         ELSE /\ k' = vTaskSwitchContext(k)
              /\ UNCHANGED <<pc, until>>
    /\ UNCHANGED <<tcbs, prev, load>>

(* xShouldDelay: whether the time to wake lies ahead, by tick values only. *)
ShouldDelay(tick, last, wake) ==
    IF tick < last THEN wake < last /\ wake > tick
                   ELSE wake < last \/ wake > tick

(* The caller keeps its last wake time, or reads the tick anew, as it must *)
(* when the kept one is a turn of the counter old.                         *)
xTaskDelayUntil(t) ==
    /\ Calls(t, "delayUntil")
    /\ k.susp = 0
    /\ \E n \in Delays \ {0}, last \in {prev[t], Now(k)} :
         LET wake == Plus(last % Wrap, n)
             k1   == vTaskSuspendAll(k)
         IN  /\ (Now(k) + Cycle - last) % Cycle <= MaxDelay
             /\ prev' = [prev EXCEPT ![t] = (last + n) % Cycle]
             /\ IF ShouldDelay(k.tick, last % Wrap, wake)
                THEN /\ k' = prvAddCurrentTaskToDelayedList(
                                 k1, Minus(wake, k.tick), FALSE)
                     /\ until' = [until EXCEPT ![t] = (last + n) % Cycle]
                ELSE k' = k1 /\ UNCHANGED until
    /\ Goto(t, Resume(Run))
    /\ UNCHANGED <<tcbs, load>>

xTaskAbortDelay(t) ==
    /\ Calls(t, "abort")
    /\ \E x \in tcbs \ {t, Idle} :
         LET k1 == vTaskSuspendAll(k)
             ev == InEventList(k1, x)
             k2 == [RemoveEvent(RemoveState(k1, x), x) EXCEPT !.aborted[x] = @ \/ ev]
             k3 == prvAddTaskToReadyList(k2, x)
         IN  k' = IF eTaskGetState(k1, x) = "blocked"
                  THEN [k3 EXCEPT !.yield = @ \/ k3.prio[x] > k3.prio[t]]
                  ELSE k1
    /\ Goto(t, [at |-> "resumeOnly", then |-> Run])
    /\ Deadlines
    /\ UNCHANGED <<tcbs, prev, load>>

xTaskCatchUpTicks(t) ==
    /\ Calls(t, "catchUp")
    /\ k.susp = 0
    /\ \E n \in Delays :
         k' = [vTaskSuspendAll(k) EXCEPT !.pended = @ + n]
    /\ Goto(t, [at |-> "resumeOnly", then |-> Run])
    /\ UNCHANGED <<tcbs, prev, until, load>>

-----------------------------------------------------------------------------
(* Suspending and resuming tasks and the scheduler *)

(* The handles a caller may use: of a task that is on a list or runs, and  *)
(* that has not deleted itself.                                            *)
Handles == {x \in tcbs \ ToSet(k.dying) : eTaskGetState(k, x) # "deleted"}

(* The first critical section; the task may be any task but the idle one.  *)
vTaskSuspend(t) ==
    /\ Calls(t, "suspend")
    /\ \E x \in Handles \ {Idle} :
         /\ x = t => k.susp = 0
         /\ k' = [RemoveEvent(RemoveState(k, x), x)
                    EXCEPT !.sleeping = Append(@, x),
                           !.nstate[x] = IF @ = WAITING THEN NOT_WAITING ELSE @]
         /\ Goto(t, [at |-> "suspend", task |-> x])
    /\ Deadlines
    /\ UNCHANGED <<tcbs, prev, load>>

(* The second; a task that has suspended itself then yields.               *)
SuspendReset(t) ==
    /\ At(t, "suspend")
    /\ k' = prvResetNextTaskUnblockTime(k)
    /\ Goto(t, IF pc[t].task = t THEN Yield(Run) ELSE Run)
    /\ UNCHANGED <<tcbs, prev, until, load>>

vTaskResume(t) ==
    /\ Calls(t, "resume")
    /\ \E x \in tcbs \ {t, Idle} :
         /\ prvTaskIsTaskSuspended(k, x)
         /\ k' = YieldIfHigher(prvAddTaskToReadyList(RemoveState(k, x), x), x)
    /\ UNCHANGED <<pc, tcbs, prev, until, load>>

(* From an interrupt, which switches on leaving if told to.                *)
xTaskResumeFromISR ==
    /\ "resume" \in load.isr
    /\ \E x \in tcbs \ {Idle} :
         LET hi == k.susp = 0 /\ k.prio[x] > k.prio[k.cur]
             k1 == [ReadyOrPend(k, x) EXCEPT !.yield = @ \/ hi]
         IN  /\ prvTaskIsTaskSuspended(k, x)
             /\ k' = IF hi THEN vTaskSwitchContext(k1) ELSE k1
    /\ UNCHANGED <<pc, tcbs, prev, until, load>>

SuspendAll(t) ==
    /\ Calls(t, "suspendAll")
    /\ k.susp = 0
    /\ k' = vTaskSuspendAll(k)
    /\ UNCHANGED <<pc, tcbs, prev, until, load>>

ResumeAll(t) ==
    /\ Calls(t, "suspendAll")
    /\ k.susp > 0
    /\ k' = xTaskResumeAll(k).k
    /\ Deadlines
    /\ UNCHANGED <<pc, tcbs, prev, load>>

-----------------------------------------------------------------------------
(* Priorities *)

PriorityAfterSet(x, t, p) ==
    LET k1 == [x EXCEPT !.base[t] = p, !.rank[t] = EventRank(p)]
    IN  IF x.base[t] = x.prio[t] \/ p > x.prio[t]
        THEN ChangePriority(k1, t, p)
        ELSE ChangePriority(k1, t, x.prio[t])

vTaskPrioritySet(t) ==
    /\ Calls(t, "priority")
    /\ \E x \in Handles \ {Idle}, p \in Priorities :
         LET k1 == PriorityAfterSet(k, x, p)
             yield == IF p > k.base[x] THEN x # t /\ p > k.prio[t]
                                       ELSE x = t
         IN  /\ p # k.base[x]
             /\ k' = IF yield THEN vTaskSwitchContext(k1) ELSE k1
    /\ UNCHANGED <<pc, tcbs, prev, until, load>>

-----------------------------------------------------------------------------
(* Creating and deleting tasks *)

(* prvCreateTask: the memory is found (failing changes nothing) and the    *)
(* new control block filled in; nothing else can see it yet.               *)
prvCreateTask(t) ==
    /\ Calls(t, "create")
    /\ \E x \in Tasks \ tcbs, p \in Priorities :
         /\ tcbs' = tcbs \cup {x}
         /\ k' = xTaskResumeAll(vTaskSuspendAll(prvInitialiseNewTask(k, x, p))).k
         /\ pc' = [pc EXCEPT ![t] = [at |-> "add", task |-> x], ![x] = Run]
    /\ Deadlines
    /\ UNCHANGED <<prev, load>>

AddNewTask(t) ==
    /\ At(t, "add")
    /\ k' = prvAddNewTaskToReadyList(k, pc[t].task, TRUE)
    /\ Goto(t, [at |-> "added", task |-> pc[t].task])
    /\ UNCHANGED <<tcbs, prev, until, load>>

(* The yield is outside the critical section: by then the new task may     *)
(* have run, and if it has been deleted its priority is what is left in    *)
(* freed memory.                                                           *)
YieldToNewTask(t) ==
    /\ At(t, "added")
    /\ \/ k' = YieldIfHigher(k, pc[t].task)
       \/ pc[t].task \notin tcbs /\ k' \in {k, vTaskSwitchContext(k)}
    /\ Goto(t, Run)
    /\ UNCHANGED <<tcbs, prev, until, load>>

(* Mutant: a task frees its own control block.                             *)
vTaskDelete_frees_itself(t) ==
    /\ Calls(t, "delete")
    /\ \E x \in Handles \ {Idle} :
         /\ k' = prvResetNextTaskUnblockTime(
                     [RemoveEvent(RemoveState(k, x), x) EXCEPT !.num = @ - 1])
         /\ Goto(t, [at |-> "free", task |-> x])
    /\ Deadlines
    /\ UNCHANGED <<tcbs, prev, load>>

(* A task that deletes itself leaves its memory to the idle task.          *)
vTaskDelete(t) ==
    /\ Calls(t, "delete")
    /\ \E x \in Handles \ {Idle} :
         LET k1 == RemoveEvent(RemoveState(k, x), x)
         IN  /\ x = t => k.susp = 0
             /\ IF x = t
                THEN /\ k' = [k1 EXCEPT !.dying = Append(@, x),
                                        !.cleanup = @ + 1]
                     /\ Goto(t, Yield([at |-> "gone"]))
                ELSE /\ k' = prvResetNextTaskUnblockTime([k1 EXCEPT !.num = @ - 1])
                     /\ Goto(t, [at |-> "free", task |-> x])
    /\ Deadlines
    /\ UNCHANGED <<tcbs, prev, load>>

(* Take a task that has deleted itself off the list, to be freed next.     *)
prvCheckTasksWaitingTermination ==
    /\ k.cleanup > 0
    /\ k' = [k EXCEPT !.dying = Tail(@), !.num = @ - 1, !.cleanup = @ - 1]
    /\ Goto(Idle, [at |-> "free", task |-> Head(k.dying)])

(* The idle task frees the deleted ones, then yields if other tasks share  *)
(* its priority.                                                           *)
prvIdleTask ==
    /\ k.cur = Idle
    /\ pc[Idle] = Run
    /\ \/ prvCheckTasksWaitingTermination
       \/ /\ k.cleanup = 0
          /\ k' = IF Len(k.ready[0].items) > 1 THEN vTaskSwitchContext(k) ELSE k
          /\ UNCHANGED pc
    /\ UNCHANGED <<tcbs, prev, until, load>>

(* taskYIELD from a task's own code.                                       *)
taskYIELD(t) ==
    /\ Calls(t, "yield")
    /\ k' = vTaskSwitchContext(k)
    /\ UNCHANGED <<pc, tcbs, prev, until, load>>

SwitchAfterTick(r) == IF r.switch THEN vTaskSwitchContext(r.k) ELSE r.k

(* The tick interrupt: the port re-arms the timer, counts the tick, and    *)
(* switches if told to.                                                    *)
Tick ==
    /\ k.susp # 0 => k.pended < MaxPended
    /\ k' = SwitchAfterTick(xTaskIncrementTick(k))
    /\ Deadlines
    /\ UNCHANGED <<pc, tcbs, prev, load>>

-----------------------------------------------------------------------------
(* Notifications.  A value is two bits, 0 .. 3, of which MaxNotify cuts    *)
(* the counting short.                                                     *)

Bit(i, on) == IF on THEN i ELSE 0
Has(a, i)  == (a \div i) % 2 = 1
Or(a, b)   == Bit(1, Has(a, 1) \/ Has(b, 1)) + Bit(2, Has(a, 2) \/ Has(b, 2))
Clear(a, b) == Bit(1, Has(a, 1) /\ ~Has(b, 1)) + Bit(2, Has(a, 2) /\ ~Has(b, 2))

(* The value after an eAction, and whether the action is to be counted on. *)
NotifyActions == {"bits", "increment", "overwrite", "keep", "none"}
Notified(old, state, action, v) ==
    CASE action = "bits"      -> Or(old, v)
      [] action = "increment" -> old + 1
      [] action = "overwrite" -> v
      [] action = "keep"      -> IF state # RECEIVED THEN v ELSE old
      [] action = "none"      -> old

(* What the two waits share: suspend the scheduler, look again with        *)
(* interrupts off, sleep, resume; "call" is how to finish.                 *)
NotifyEnter(t, call, empty) ==
    IF empty /\ call.wait > 0
    THEN /\ k.susp = 0
         /\ k' = vTaskSuspendAll(k)
         /\ Goto(t, [call EXCEPT !.at = "check"])
    ELSE k' = k /\ Goto(t, [call EXCEPT !.at = "done"])

(* Mutant: the value is not looked at again with the scheduler suspended.  *)
NotifyCheck_blindly(t, k1, empty) ==
    /\ k' = [k1 EXCEPT !.nstate[t] = WAITING]
    /\ Goto(t, [pc[t] EXCEPT !.at = "block"])

NotifyCheck(t, k1, empty) ==
    LET c == pc[t]
        done == [c EXCEPT !.at = "done"]
    IN  IF empty
        THEN /\ k' = [k1 EXCEPT !.nstate[t] = WAITING]
             /\ Goto(t, [c EXCEPT !.at = "block"])
        ELSE /\ k' = k
             /\ Goto(t, [at |-> "resumeOnly", then |-> done])

NotifyBlock(t) ==
    LET c == pc[t]
    IN  /\ k' = prvAddCurrentTaskToDelayedList(k, c.wait, TRUE)
        /\ Goto(t, Resume([c EXCEPT !.at = "done"]))
        /\ Sleep(t, c.wait)

ulTaskGenericNotifyTake(t) ==
    /\ \/ /\ Calls(t, "take")
          /\ \E n \in Delays \cup {MaxDelay}, all \in BOOLEAN :
               NotifyEnter(t, [at |-> "run", op |-> "notifyTake", wait |-> n, all |-> all],
                           k.nval[t] = 0)
          /\ UNCHANGED until
       \/ /\ In(t, "notifyTake", "check")
          /\ NotifyCheck(t, k, k.nval[t] = 0)
          /\ UNCHANGED until
       \/ In(t, "notifyTake", "block") /\ NotifyBlock(t)
       \/ /\ In(t, "notifyTake", "done")
          /\ k' = [k EXCEPT !.nval[t] = IF @ = 0 \/ pc[t].all THEN 0 ELSE @ - 1,
                            !.nstate[t] = NOT_WAITING]
          /\ Goto(t, Run)
          /\ UNCHANGED until
    /\ UNCHANGED <<tcbs, prev, load>>

xTaskGenericNotifyWait(t) ==
    /\ \/ /\ Calls(t, "wait")
          /\ \E n \in Delays \cup {MaxDelay}, e, x \in {0, 3} :
               NotifyEnter(t, [at |-> "run", op |-> "notifyWait", wait |-> n,
                               entry |-> e, exit |-> x],
                           k.nstate[t] # RECEIVED)
          /\ UNCHANGED until
       \/ /\ In(t, "notifyWait", "check")
          /\ NotifyCheck(t, [k EXCEPT !.nval[t] = Clear(@, pc[t].entry)],
                         k.nstate[t] # RECEIVED)
          /\ UNCHANGED until
       \/ In(t, "notifyWait", "block") /\ NotifyBlock(t)
       \/ /\ In(t, "notifyWait", "done")
          /\ k' = [k EXCEPT !.nval[t] = IF k.nstate[t] = RECEIVED
                                        THEN Clear(@, pc[t].exit) ELSE @,
                            !.nstate[t] = NOT_WAITING]
          /\ Goto(t, Run)
          /\ UNCHANGED until
    /\ UNCHANGED <<tcbs, prev, load>>

(* The control block's part of a notification.                             *)
SetNotified(x, action, v) ==
    [k EXCEPT !.nstate[x] = RECEIVED,
              !.nval[x] = Notified(@, k.nstate[x], action, v)]

(* Who is notified: a live task that looks at its notifications.           *)
Notifiable(x, action) ==
    /\ x \in Handles
    /\ load.can[x] \cap {"take", "wait"} # {}
    /\ action = "increment" => k.nval[x] < MaxNotify

xTaskGenericNotify(t) ==
    /\ Calls(t, "notify")
    /\ \E x \in Tasks \ {t}, action \in NotifyActions, v \in {1, 2} :
         LET k1 == SetNotified(x, action, v)
         IN  /\ Notifiable(x, action)
             /\ k' = IF k.nstate[x] = WAITING
                     THEN YieldIfHigher(prvAddTaskToReadyList(RemoveState(k1, x), x), x)
                     ELSE k1
    /\ Deadlines
    /\ UNCHANGED <<pc, tcbs, prev, load>>

(* The end of both calls from interrupts; the interrupt then switches if   *)
(* told to.                                                                *)
WakeFromISR(k1, x) ==
    LET hi == k.nstate[x] = WAITING /\ k.prio[x] > k.prio[k.cur]
        k2 == IF k.nstate[x] = WAITING THEN ReadyOrPend(k1, x) ELSE k1
        k3 == [k2 EXCEPT !.yield = @ \/ hi]
    IN  k' = IF hi THEN vTaskSwitchContext(k3) ELSE k3

xTaskGenericNotifyFromISR ==
    /\ "notify" \in load.isr
    /\ \E x \in Tasks, action \in NotifyActions, v \in {1, 2} :
         /\ Notifiable(x, action)
         /\ WakeFromISR(SetNotified(x, action, v), x)
    /\ Deadlines
    /\ UNCHANGED <<pc, tcbs, prev, load>>

vTaskGenericNotifyGiveFromISR ==
    /\ "give" \in load.isr
    /\ \E x \in Tasks :
         /\ Notifiable(x, "increment")
         /\ WakeFromISR(SetNotified(x, "increment", 1), x)
    /\ Deadlines
    /\ UNCHANGED <<pc, tcbs, prev, load>>

xTaskGenericNotifyStateClear(t) ==
    /\ Calls(t, "clear")
    /\ \E x \in tcbs : k.nstate[x] = RECEIVED /\ k' = [k EXCEPT !.nstate[x] = NOT_WAITING]
    /\ UNCHANGED <<pc, tcbs, prev, until, load>>

ulTaskGenericNotifyValueClear(t) ==
    /\ Calls(t, "clear")
    /\ \E x \in tcbs, v \in {1, 2} : k' = [k EXCEPT !.nval[x] = Clear(@, v)]
    /\ UNCHANGED <<pc, tcbs, prev, until, load>>

-----------------------------------------------------------------------------
TaskStep(t) ==
    \/ ResumeStep(t) \/ ResumeOnlyStep(t) \/ YieldStep(t) \/ prvDeleteTCB(t)
    \/ vTaskDelay(t) \/ xTaskDelayUntil(t) \/ xTaskAbortDelay(t)
    \/ xTaskCatchUpTicks(t) \/ vTaskSuspend(t) \/ SuspendReset(t)
    \/ vTaskResume(t) \/ SuspendAll(t) \/ ResumeAll(t) \/ vTaskPrioritySet(t)
    \/ prvCreateTask(t) \/ AddNewTask(t) \/ YieldToNewTask(t) \/ vTaskDelete(t)
    \/ taskYIELD(t) \/ ulTaskGenericNotifyTake(t) \/ xTaskGenericNotifyWait(t)
    \/ xTaskGenericNotify(t) \/ xTaskGenericNotifyStateClear(t)
    \/ ulTaskGenericNotifyValueClear(t)

TaskInterrupt ==
    xTaskResumeFromISR \/ xTaskGenericNotifyFromISR \/ vTaskGenericNotifyGiveFromISR

TaskNext == (\E t \in Tasks : TaskStep(t)) \/ prvIdleTask \/ TaskInterrupt \/ Tick

TaskSpec == TaskInit /\ [][TaskNext]_taskVars

(* The timer interrupt keeps coming, and whoever suspends the scheduler    *)
(* resumes it: the tick counts on.                                         *)
FairTaskSpec == TaskSpec /\ []<><<k'.tick # k.tick>>_taskVars

-----------------------------------------------------------------------------
(* Properties *)

StateLists(x) ==
    <<x.delayed, x.overflow, x.sleeping, x.dying>>
        \o [i \in 1 .. MaxPriorities |-> x.ready[i - 1].items]
EveryList(x) == Range(StateLists(x)) \cup {x.events[e] : e \in DOMAIN x.events}
Sorted(s, v) == \A i \in 1 .. Len(s) - 1 : v[s[i]] <= v[s[i + 1]]

(* A task that prvCreateTask is still building is on no list yet, and one  *)
(* taken off its list to be freed is on none any more.                     *)
Unlisted == {t \in tcbs : \/ pc[t].at = "leaked"
                          \/ \E u \in tcbs : t \in Orphans(u)}
Placed   == tcbs \ Unlisted

(* Every live task is on exactly one state list, once, and on at most one  *)
(* event list; a ready task is on the list of its own priority, where the  *)
(* search from uxTopReadyPriority down will find it; the delayed lists are *)
(* in order of their wake times, and xNextTaskUnblockTime is never later   *)
(* than the first of them, whatever call an interrupt or a deletion fell   *)
(* into the middle of (tasks.c: every listREMOVE_ITEM and listINSERT_END). *)
ListsConsistent ==
    /\ \A t \in Placed :
         /\ LET s == StateLists(k)
            IN  Cardinality({i \in DOMAIN s : Contains(s[i], t)}) = 1
         /\ \A p \in Priorities : InReady(k, t, p) => p = k.prio[t] /\ p <= k.top
         /\ Cardinality({l \in DOMAIN k.events : Contains(k.events[l], t)}) <= 1
    /\ \A l \in EveryList(k) : IsInjective(l)
    /\ Sorted(k.delayed, k.wake)
    /\ Sorted(k.overflow, k.wake)
    /\ k.delayed # <<>> => k.next <= k.wake[Head(k.delayed)]

(* The task that runs has the highest priority of the ready tasks, except  *)
(* with the scheduler suspended and in the few instructions between        *)
(* readying a task and the yield for it.                                   *)
HighestPriorityRuns ==
    k.susp = 0 /\ pc[k.cur].at \notin {"resume", "yield", "suspend", "added"} =>
        /\ k.cur \in ToSet(k.ready[k.prio[k.cur]].items)
        /\ \A p \in k.prio[k.cur] + 1 .. MaxPriorities - 1 : k.ready[p].items = <<>>

(* Nothing in the kernel still points at a control block that has been     *)
(* freed, and the counts the kernel keeps of its tasks and of the deleted  *)
(* ones it has still to free are right (vTaskDelete,                       *)
(* prvCheckTasksWaitingTermination, prvDeleteTCB).                         *)
NoUseAfterFree ==
    /\ k.cur \in tcbs
    /\ \A l \in EveryList(k) : ToSet(l) \subseteq tcbs
    /\ k.num = Cardinality(Placed)
    /\ k.cleanup = Len(k.dying)

(* A sleeping task's deadline lies ahead, by less than a turn of the tick  *)
(* counter, and not a tick past it however the counter wraps, ticks are    *)
(* held back and xNextTaskUnblockTime is cached: no task sleeps too long.  *)
NeverLate ==
    \A t \in Timed(k) :
        LET left == (until[t] + Cycle - Now(k)) % Cycle
        IN  left > 0 /\ left <= MaxDelay

(* And none is woken by time before its deadline: one that leaves the      *)
(* delayed lists while the tick counts on, without having been readied by  *)
(* anybody else, does so at or after its deadline, and by no more than the *)
(* ticks that were held back.                                              *)
NeverEarly ==
    [][\A t \in Timed(k) \ (Timed(k') \cup ToSet(k.events[Pending])) :
         k.tick # k'.tick =>
             (Now(k') + Cycle - until[t]) % Cycle <= k.pended]_taskVars

(* A live task whose wait for a notification is over, because one has come *)
(* or the value it takes from is not zero, is not left asleep, in whichever *)
(* order the check, the sleep and the notification of a task or an         *)
(* interrupt came; only who has been suspended may stay so.                *)
Suspends   == \E t \in Tasks : "suspend" \in load.can[t]
NotifyWait(t) ==
    LET c == IF pc[t].at \in {"resume", "yield"} THEN pc[t].then ELSE pc[t]
    IN  IF c.at = "done" THEN c.op ELSE "no"
NotifiedTaskWakes ==
    \A t \in Placed :
        \/ NotifyWait(t) # "no" /\ k.nstate[t] = RECEIVED
        \/ NotifyWait(t) = "notifyTake" /\ k.nval[t] > 0
        => \/ Contains(k.events[Pending], t)
           \/ InReady(k, t, k.prio[t])
           \/ Suspends /\ Contains(k.sleeping, t)

(* Tasks of the highest priority that never block share the processor:     *)
(* each of them runs again and again (the time slice of                    *)
(* xTaskIncrementTick, the idle task's yield).                             *)
Spinners ==
    {t \in Alive(load) : /\ load.can[t] = {}
                         /\ \A u \in Alive(load) : load.prio[u] <= load.prio[t]}
TimeSliced == \A t \in Tasks : t \in Spinners => []<>(k.cur = t)
=============================================================================
