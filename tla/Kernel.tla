------------------------------- MODULE Kernel -------------------------------
(***************************************************************************)
(* The scheduler's data and the routines of tasks.c that change it.  The   *)
(* kernel is one record: a routine takes it and returns it changed, so     *)
(* that the routines nest here as the calls do in the source.  Its fields: *)
(*                                                                         *)
(*   cur      pxCurrentTCB              ready    pxReadyTasksLists         *)
(*   delayed  pxDelayedTaskList         overflow pxOverflowDelayedTaskList *)
(*   sleeping xSuspendedTaskList        dying    xTasksWaitingTermination  *)
(*   tick     xTickCount                ovf      xNumOfOverflows           *)
(*   top      uxTopReadyPriority        next     xNextTaskUnblockTime      *)
(*   susp     uxSchedulerSuspended      pended   xPendedTicks              *)
(*   yield    xYieldPendings[0]         num      uxCurrentNumberOfTasks    *)
(*   cleanup  uxDeletedTasksWaitingCleanUp                                 *)
(*   events   the event lists, xPendingReadyList among them                *)
(*                                                                         *)
(* and, for each task, the members of its control block:                   *)
(*                                                                         *)
(*   prio     uxPriority                base     uxBasePriority            *)
(*   held     uxMutexesHeld             wake     xStateListItem's value    *)
(*   rank     xEventListItem's value    nstate   ucNotifyState[0]          *)
(*   nval     ulNotifiedValue[0]        aborted  ucDelayAborted            *)
(*                                                                         *)
(* The configuration is the repository's (one core, preemption and time    *)
(* slicing, no port-optimised selection), with the parts of the kernel it  *)
(* leaves out (mutexes, notifications, xTaskAbortDelay) left in.  Only     *)
(* event groups, which the repository does not have, set the in-use bit    *)
(* of an event item's value: it is always clear here.                      *)
(***************************************************************************)
EXTENDS Lists, FiniteSets

CONSTANTS Tasks,            \* the control blocks there is memory for
          Idle,             \* the idle task
          MaxPriorities,    \* configMAX_PRIORITIES
          MaxDelay,         \* portMAX_DELAY, the last value of a tick
          Overflows,        \* xNumOfOverflows counts modulo this
          EventLists,       \* the event lists of the kernel's objects
          Pending           \* xPendingReadyList

ASSUME KernelAssumption ==
    /\ Idle \in Tasks
    /\ MaxPriorities \in Nat \ {0}
    /\ MaxDelay \in Nat \ {0}
    /\ Overflows \in Nat \ {0}
    /\ Pending \notin EventLists

Priorities == 0 .. MaxPriorities - 1
Ticks      == 0 .. MaxDelay

(* TickType_t wraps at portMAX_DELAY.                                      *)
Plus(a, b)  == (a + b) % (MaxDelay + 1)
Minus(a, b) == (a + MaxDelay + 1 - b) % (MaxDelay + 1)

(* The time since the start, of which the kernel knows so much.            *)
Wrap   == MaxDelay + 1
Cycle  == Overflows * Wrap
Now(x) == x.ovf * Wrap + x.tick

NOT_WAITING == 0
WAITING     == 1
RECEIVED    == 2

-----------------------------------------------------------------------------
(* Items and the lists that hold them *)

prvAddTaskToReadyList(k, t) ==
    [k EXCEPT !.top = IF k.prio[t] > @ THEN k.prio[t] ELSE @,
              !.ready[k.prio[t]] = vListInsertEnd(@, t)]

(* uxListRemove where pxIndex stays at xListEnd.                           *)
Without(s, t) == uxListRemove([items |-> s, index |-> 0], t).items

(* uxListRemove on the state item, from whichever list holds it.           *)
RemoveState(k, t) ==
    [k EXCEPT !.ready    = [p \in Priorities |-> uxListRemove(@[p], t)],
              !.delayed  = Without(@, t),
              !.overflow = Without(@, t),
              !.sleeping = Without(@, t),
              !.dying    = Without(@, t)]

(* uxListRemove on the event item, when a list holds it.                   *)
RemoveEvent(k, t) == [k EXCEPT !.events = [l \in DOMAIN @ |-> Without(@[l], t)]]

InReady(k, t, p)    == Contains(k.ready[p].items, t)
InEventList(k, t)   == \E l \in DOMAIN k.events : Contains(k.events[l], t)
EventRank(p)        == MaxPriorities - p

(* The tasks that sleep until a time.                                      *)
Timed(x) == ToSet(x.delayed) \cup ToSet(x.overflow)

(* A new task's control block, as memset and prvInitialiseNewTask leave it *)
prvInitialiseNewTask(k, t, p) ==
    [k EXCEPT !.prio[t] = p, !.base[t] = p, !.held[t] = 0, !.wake[t] = 0,
              !.rank[t] = EventRank(p), !.nstate[t] = NOT_WAITING,
              !.nval[t] = 0, !.aborted[t] = FALSE]

-----------------------------------------------------------------------------
(* Choosing what runs *)

(* The next of the ready tasks of priority p.                              *)
SelectFrom(k, p) ==
    LET l == listGET_OWNER_OF_NEXT_ENTRY(k.ready[p])
    IN  [k EXCEPT !.ready[p] = l, !.top = p, !.cur = l.items[l.index]]

taskSELECT_HIGHEST_PRIORITY_TASK(k) ==
    SelectFrom(k, CHOOSE p \in 0 .. k.top :
                     /\ k.ready[p].items # <<>>
                     /\ \A q \in p + 1 .. k.top : k.ready[q].items = <<>>)

(* portYIELD is an ecall: on this port a switch asked for within an API    *)
(* call happens at once, inside a critical section too.                    *)
vTaskSwitchContext(k) ==
    IF k.susp # 0
    THEN [k EXCEPT !.yield = TRUE]
    ELSE taskSELECT_HIGHEST_PRIORITY_TASK([k EXCEPT !.yield = FALSE])

(* taskYIELD_ANY_CORE_IF_USING_PREEMPTION                                  *)
YieldIfHigher(k, t) ==
    IF k.prio[k.cur] < k.prio[t] THEN vTaskSwitchContext(k) ELSE k

-----------------------------------------------------------------------------
(* Time *)

prvResetNextTaskUnblockTime(k) ==
    [k EXCEPT !.next = IF k.delayed = <<>> THEN MaxDelay
                       ELSE k.wake[Head(k.delayed)]]

taskSWITCH_DELAYED_LISTS(k) ==
    prvResetNextTaskUnblockTime(
        [k EXCEPT !.delayed = k.overflow, !.overflow = k.delayed,
                  !.ovf = (@ + 1) % Overflows])

(* The tick counts on; when it wraps the delayed lists change places.      *)
CountTick(k) ==
    IF k.tick = MaxDelay THEN taskSWITCH_DELAYED_LISTS([k EXCEPT !.tick = 0])
                         ELSE [k EXCEPT !.tick = @ + 1]

(* The tasks at the head of the delayed list whose time has come; nobody   *)
(* looks before xNextTaskUnblockTime.                                      *)
Due(k) ==
    LET i == SelectInSeq(k.delayed, LAMBDA t : k.wake[t] > k.tick)
    IN  IF k.tick < k.next THEN <<>>
        ELSE IF i = 0 THEN k.delayed
        ELSE SubSeq(k.delayed, 1, i - 1)

Unblock(k, t) == prvAddTaskToReadyList(RemoveEvent(RemoveState(k, t), t), t)

UnblockAll(k, due) ==
    LET turn[i \in 0 .. Len(due)] ==
            IF i = 0 THEN k ELSE Unblock(turn[i - 1], due[i])
    IN  turn[Len(due)]

WakeDue(k) ==
    IF k.tick < k.next THEN k
    ELSE prvResetNextTaskUnblockTime(UnblockAll(k, Due(k)))

(* xSwitchRequired: a task that is woken outranks the current one, others  *)
(* have its priority (the time slice), or a yield is pending.              *)
Outranked(k, due) == \E i \in DOMAIN due : k.prio[due[i]] > k.prio[k.cur]

(* Mutant: no time slice.                                                  *)
SwitchRequired_no_slice(k, due) == Outranked(k, due) \/ k.yield

SwitchRequired(k, due) ==
    \/ Outranked(k, due)
    \/ Len(k.ready[k.prio[k.cur]].items) > 1
    \/ k.yield

Ticked(k, due) == [k |-> k, switch |-> SwitchRequired(k, due)]
ProcessTick(k) == Ticked(WakeDue(k), Due(k))

(* The result is the kernel and xSwitchRequired.                           *)
xTaskIncrementTick(k) ==
    IF k.susp # 0 THEN [k |-> [k EXCEPT !.pended = @ + 1], switch |-> FALSE]
                  ELSE ProcessTick(CountTick(k))

(* Mutant: xNextTaskUnblockTime is not brought forward.                    *)
SleepUntil_late(k, t, w) ==
    LET in(s) == vListInsert(s, t, [k.wake EXCEPT ![t] = w])
    IN  IF w < k.tick
        THEN [k EXCEPT !.wake[t] = w, !.overflow = in(@)]
        ELSE [k EXCEPT !.wake[t] = w, !.delayed = in(@)]

(* Mutant: a time past the wrap goes on the current list.                  *)
SleepUntil_one_list(k, t, w) ==
    [k EXCEPT !.wake[t] = w,
              !.delayed = vListInsert(@, t, [k.wake EXCEPT ![t] = w]),
              !.next = IF w < @ THEN w ELSE @]

(* A time that is not past the wrap goes on the current list.              *)
SleepUntil(k, t, w) ==
    LET in(s) == vListInsert(s, t, [k.wake EXCEPT ![t] = w])
    IN  IF w < k.tick
        THEN [k EXCEPT !.wake[t] = w, !.overflow = in(@)]
        ELSE [k EXCEPT !.wake[t] = w, !.delayed = in(@),
                       !.next = IF w < @ THEN w ELSE @]

SleepFor(k, t, wait, canBlockIndefinitely) ==
    IF wait = MaxDelay /\ canBlockIndefinitely
    THEN [k EXCEPT !.sleeping = Append(@, t)]
    ELSE SleepUntil(k, t, Plus(k.tick, wait))

prvAddCurrentTaskToDelayedList(k, wait, canBlockIndefinitely) ==
    SleepFor(RemoveState([k EXCEPT !.aborted[k.cur] = FALSE], k.cur), k.cur, wait,
             canBlockIndefinitely)

-----------------------------------------------------------------------------
(* Suspending the scheduler *)

vTaskSuspendAll(k) == [k EXCEPT !.susp = @ + 1]

(* Mutant: nobody compares the task's priority with the current one's.     *)
ReadyPended_no_yield(k, t) == Unblock(k, t)

(* One turn of the loop over xPendingReadyList.                            *)
ReadyPended(k, t) ==
    [Unblock(k, t) EXCEPT !.yield = @ \/ k.prio[t] > k.prio[k.cur]]

ReadyEach(k, woken) ==
    LET turn[i \in 0 .. Len(woken)] ==
            IF i = 0 THEN k ELSE ReadyPended(turn[i - 1], woken[i])
    IN  turn[Len(woken)]

ReadyAllPended(k) ==
    IF k.events[Pending] = <<>> THEN k
    ELSE prvResetNextTaskUnblockTime(ReadyEach(k, k.events[Pending]))

(* One turn of the loop over xPendedTicks.                                 *)
YieldLater(r)  == [r.k EXCEPT !.yield = @ \/ r.switch]
CatchUpTick(k) == YieldLater(xTaskIncrementTick(k))

CatchUp(k) ==
    LET turn[i \in 0 .. k.pended] ==
            IF i = 0 THEN k ELSE CatchUpTick(turn[i - 1])
    IN  [turn[k.pended] EXCEPT !.pended = 0]

YieldIfPending(k) ==
    [k |-> IF k.yield THEN vTaskSwitchContext(k) ELSE k, yielded |-> k.yield]

(* The result is the kernel and xAlreadyYielded.                           *)
xTaskResumeAll(k) ==
    IF k.susp > 1 THEN [k |-> [k EXCEPT !.susp = @ - 1], yielded |-> FALSE]
    ELSE YieldIfPending(CatchUp(ReadyAllPended([k EXCEPT !.susp = @ - 1])))

-----------------------------------------------------------------------------
(* Event lists *)

vTaskPlaceOnEventList(k, l, wait) ==
    prvAddCurrentTaskToDelayedList(
        [k EXCEPT !.events[l] = vListInsert(@, k.cur, k.rank)],
        wait, TRUE)

vTaskPlaceOnEventListRestricted(k, l, wait, indefinitely) ==
    prvAddCurrentTaskToDelayedList(
        [k EXCEPT !.events[l] = Append(@, k.cur)],
        IF indefinitely THEN MaxDelay ELSE wait, indefinitely)

(* The task is made ready now, or when the scheduler is resumed.           *)
ReadyOrPend(k, t) ==
    IF k.susp = 0 THEN prvAddTaskToReadyList(RemoveState(k, t), t)
                  ELSE [k EXCEPT !.events[Pending] = Append(@, t)]

(* The result is the kernel and whether the woken task outranks the        *)
(* current one.                                                            *)
xTaskRemoveFromEventList(k, l) ==
    LET t  == Head(k.events[l])
        k1 == ReadyOrPend([k EXCEPT !.events[l] = Tail(@)], t)
        hi == k.prio[t] > k.prio[k.cur]
    IN  [k |-> [k1 EXCEPT !.yield = @ \/ hi], higher |-> hi]

vTaskMissedYield(k) == [k EXCEPT !.yield = TRUE]

-----------------------------------------------------------------------------
(* Time-outs: a TimeOut_t is the overflow count and the tick on entry *)

vTaskInternalSetTimeOutState(k) == [ovf |-> k.ovf, tick |-> k.tick]

(* Mutant: the ticks that have gone by are not taken off the wait.         *)
xTaskCheckForTimeOut_restarts(k, out, wait) ==
    LET go(o) == [k |-> k, out |-> o, wait |-> wait, up |-> FALSE]
    IN  IF wait = MaxDelay THEN go(out)
        ELSE IF Minus(k.tick, out.tick) < wait THEN go(vTaskInternalSetTimeOutState(k))
        ELSE [k |-> k, out |-> out, wait |-> 0, up |-> TRUE]

(* The result: the kernel, the TimeOut_t, the ticks left to wait, and      *)
(* whether the time is up.                                                 *)
xTaskCheckForTimeOut(k, out, wait) ==
    LET elapsed == Minus(k.tick, out.tick)
        up(k1, w)   == [k |-> k1, out |-> out, wait |-> w, up |-> TRUE]
        go(o, w)    == [k |-> k, out |-> o, wait |-> w, up |-> FALSE]
    IN  IF k.aborted[k.cur] THEN up([k EXCEPT !.aborted[k.cur] = FALSE], wait)
        ELSE IF wait = MaxDelay THEN go(out, wait)
        ELSE IF k.ovf # out.ovf /\ k.tick >= out.tick THEN up(k, 0)
        ELSE IF elapsed < wait
        THEN go(vTaskInternalSetTimeOutState(k), wait - elapsed)
        ELSE up(k, 0)

-----------------------------------------------------------------------------
(* Priorities of mutex holders *)

(* Mutant: a ready task stays on the list of its old priority.             *)
ChangePriority_in_place(k, t, p) == [k EXCEPT !.prio[t] = p]

(* Move a task to another priority, and to that ready list if it is ready. *)
ChangePriority(k, t, p) ==
    LET k1 == [k EXCEPT !.prio[t] = p]
    IN  IF InReady(k, t, k.prio[t])
        THEN prvAddTaskToReadyList(RemoveState(k1, t), t)
        ELSE k1

(* The result is the kernel and whether the holder, if there still is one, *)
(* has inherited.                                                          *)
xTaskPriorityInherit(k, h) ==
    LET p  == k.prio[k.cur]
        k1 == ChangePriority([k EXCEPT !.rank[h] = EventRank(p)], h, p)
    IN  IF h \notin Tasks THEN [k |-> k, inherited |-> FALSE]
        ELSE IF k.prio[h] < p THEN [k |-> k1, inherited |-> TRUE]
        ELSE [k |-> k, inherited |-> k.base[h] < p]

(* The result is the kernel and whether a switch is called for.            *)
xTaskPriorityDisinherit(k, h) ==
    LET k1   == [k EXCEPT !.held[h] = @ - 1]
        drop == k1.prio[h] # k1.base[h] /\ k1.held[h] = 0
        k2   == [RemoveState(k1, h) EXCEPT !.prio[h] = k1.base[h],
                                           !.rank[h] = EventRank(k1.base[h])]
    IN  [k |-> IF drop THEN prvAddTaskToReadyList(k2, h) ELSE k1,
         switch |-> drop]

(* Mutant: the other tasks that wait for the mutex are forgotten.          *)
vTaskPriorityDisinheritAfterTimeout_to_base(k, h, highestWaiting) ==
    IF h \in Tasks /\ k.held[h] = 1
    THEN ChangePriority([k EXCEPT !.rank[h] = EventRank(k.base[h])], h, k.base[h])
    ELSE k

vTaskPriorityDisinheritAfterTimeout(k, h, highestWaiting) ==
    LET p == IF k.base[h] < highestWaiting THEN highestWaiting ELSE k.base[h]
    IN  IF h \in Tasks /\ k.held[h] = 1 /\ k.prio[h] # p
        THEN ChangePriority([k EXCEPT !.rank[h] = EventRank(p)], h, p)
        ELSE k

pvTaskIncrementMutexHeldCount(k) == [k EXCEPT !.held[k.cur] = @ + 1]

-----------------------------------------------------------------------------
(* What a task is doing, as eTaskGetState tells it *)

eTaskGetState(k, t) ==
    CASE t = k.cur -> "running"
      [] Contains(k.events[Pending], t) -> "ready"
      [] Contains(k.delayed, t) \/ Contains(k.overflow, t) -> "blocked"
      [] Contains(k.sleeping, t) ->
            IF InEventList(k, t) \/ k.nstate[t] = WAITING
            THEN "blocked" ELSE "suspended"
      [] \E p \in Priorities : InReady(k, t, p) -> "ready"
      [] OTHER -> "deleted"

prvTaskIsTaskSuspended(k, t) ==
    /\ Contains(k.sleeping, t)
    /\ ~InEventList(k, t)
    /\ k.nstate[t] # WAITING
=============================================================================
