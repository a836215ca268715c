------------------------------- MODULE Queues -------------------------------
(***************************************************************************)
(* Queues, semaphores, mutexes and queue sets (queue.c) over the tasks of  *)
(* Tasks.  A queue's fields:                                               *)
(*                                                                         *)
(*   kind    "queue", "semaphore", "mutex" or "recursive" (uxQueueType,    *)
(*           uxItemSize)            len     uxLength                       *)
(*   count   uxMessagesWaiting      store   the ring of items              *)
(*   write   pcWriteTo              read    pcReadFrom, both as indices    *)
(*   tx, rx  cTxLock, cRxLock       set     pxQueueSetContainer            *)
(*   holder  xMutexHolder           depth   uxRecursiveCallCount           *)
(*                                                                         *)
(* What each queue is (kind, len, set), which items are sent and which     *)
(* block times asked for are part of the workload.                         *)
(*                                                                         *)
(* A call that may block goes through the places "try", "hold", "lock",    *)
(* "check", "unlockTx" and "unlockRx"; between any two of them interrupts  *)
(* come in, and before "hold" other tasks too.                             *)
(***************************************************************************)
EXTENDS Tasks

CONSTANTS QueueIds, NoQueue,
          MaxDepth,    \* bound: recursive calls of one mutex
          MaxLate      \* bound: the ticks a call is held up past its time

ASSUME QueueAssumption ==
    /\ NoQueue \notin QueueIds
    /\ \A l \in Loads, x \in QueueIds :
         /\ l.kinds[x].len \in Nat \ {0}
         /\ l.kinds[x].set \in (QueueIds \ {x}) \cup {NoQueue}
    /\ \A l \in Loads : NoQueue \notin l.msgs
    /\ \A x \in QueueIds : <<x, "recv">> \in EventLists /\ <<x, "send">> \in EventLists

VARIABLES q,           \* the queues
          got          \* what was last copied out of a queue

queueVars == <<taskVars, q, got>>

Recv(x) == <<x, "recv">>
Send(x) == <<x, "send">>
Unlocked == -1
Sized(x)   == load.kinds[x].kind = "queue"
IsMutex(x) == load.kinds[x].kind \in {"mutex", "recursive"}

(* prvInitialiseNewQueue, and for a mutex prvInitialiseMutex, which leaves *)
(* it given.                                                               *)
prvInitialiseNewQueue(x) ==
    [count |-> 0,
     store |-> [i \in 0 .. load.kinds[x].len - 1 |-> NoQueue],
     write |-> 0, read |-> load.kinds[x].len - 1,
     tx |-> Unlocked, rx |-> Unlocked, holder |-> NoQueue, depth |-> 0]

prvInitialiseMutex(new) == [new EXCEPT !.count = 1]

QueueInit ==
    /\ TaskInit
    /\ q = [x \in QueueIds |-> IF IsMutex(x)
                               THEN prvInitialiseMutex(prvInitialiseNewQueue(x))
                               ELSE prvInitialiseNewQueue(x)]
    /\ got = NoQueue

-----------------------------------------------------------------------------
(* Copying in and out *)

(* The ring's part: a semaphore or mutex has no items, only a count.       *)
Stored(qq, x, item, pos) ==
    LET z  == qq[x]
        n  == load.kinds[x].len
        in == IF pos = "overwrite" /\ z.count > 0 THEN z.count ELSE z.count + 1
    IN  [qq EXCEPT ![x] =
           CASE ~Sized(x) -> [z EXCEPT !.holder = NoQueue, !.count = in]
             [] Sized(x) /\ pos = "back" ->
                  [z EXCEPT !.store[z.write] = item, !.write = (@ + 1) % n, !.count = in]
             [] OTHER ->
                  [z EXCEPT !.store[z.read] = item, !.read = (@ + n - 1) % n, !.count = in]]

(* The result: the kernel, the queues, and whether a mutex given back has  *)
(* lowered its holder.                                                     *)
WithQueues(d, qq) == [k |-> d.k, q |-> qq, yield |-> d.switch]
prvCopyDataToQueue(kk, qq, x, item, pos) ==
    WithQueues(IF IsMutex(x) /\ qq[x].holder \in Tasks
               THEN xTaskPriorityDisinherit(kk, qq[x].holder)
               ELSE [k |-> kk, switch |-> FALSE],
               Stored(qq, x, item, pos))

(* Mutant: the item is copied before pcReadFrom moves on.                  *)
NextRead_unmoved(qq, x) == qq[x].read

NextRead(qq, x) == (qq[x].read + 1) % load.kinds[x].len
Copied(qq, x)   == qq[x].store[NextRead(qq, x)]

(* The item goes; what is left of it in the ring is not kept.              *)
prvCopyDataFromQueue(qq, x) ==
    [qq EXCEPT ![x].read = NextRead(qq, x), ![x].store[NextRead(qq, x)] = NoQueue]

(* Ready the first task of an event list, if there is one.                 *)
Wake(kk, l) == IF kk.events[l] = <<>> THEN [k |-> kk, higher |-> FALSE]
               ELSE xTaskRemoveFromEventList(kk, l)

SwitchIf(kk, b) == IF b THEN vTaskSwitchContext(kk) ELSE kk

(* A lock counts no further than there are tasks to wake.                  *)
prvIncrementQueueTxLock(kk, n) == IF n < kk.num THEN n + 1 ELSE n
prvIncrementQueueRxLock(kk, n) == IF n < kk.num THEN n + 1 ELSE n

(* A woken task, with the queues as they then are.                         *)
Woken(w, qq) == [k |-> w.k, q |-> qq, higher |-> w.higher]

(* The queue set s hears of an item of its member x.                       *)
prvNotifyQueueSetContainer(kk, qq, s, x) ==
    IF qq[s].count >= load.kinds[s].len
    THEN [k |-> kk, q |-> qq, higher |-> FALSE]
    ELSE IF qq[s].tx = Unlocked
    THEN Woken(Wake(kk, Recv(s)), Stored(qq, s, x, "back"))
    ELSE [k |-> kk, higher |-> FALSE,
          q |-> [Stored(qq, s, x, "back") EXCEPT ![s].tx = prvIncrementQueueTxLock(kk, @)]]

(* Tell those who wait for items of x of a new one.                        *)
Announce(kk, qq, x) ==
    IF load.kinds[x].set # NoQueue
    THEN prvNotifyQueueSetContainer(kk, qq, load.kinds[x].set, x)
    ELSE Woken(Wake(kk, Recv(x)), qq)

-----------------------------------------------------------------------------
(* A call in progress: c is its place and its local variables.             *)

Call(op, x, item, pos, n) ==
    [at |-> "try", op |-> op, q |-> x, item |-> item, pos |-> pos, wait |-> n,
     out |-> [ovf |-> -1, tick |-> 0], inh |-> FALSE, after |-> "",
     due |-> IF n = MaxDelay THEN -1 ELSE (Now(k) + n) % Cycle]

prvIsQueueFull(x)  == q[x].count = load.kinds[x].len
prvIsQueueEmpty(x) == q[x].count = 0

(* What each call does when it need not wait: kernel, queues, item.        *)
Done(w, switch, qq, item) == [k |-> SwitchIf(w.k, switch), q |-> qq, got |-> item]
DoneWaking(w, qq, item)   == Done(w, w.higher, qq, item)

(* A set hears nothing of an item that is overwritten; without one, the    *)
(* yield for a lowered holder is for when there is nobody to wake.         *)
Announced(a, yield) == Done(a, a.higher \/ yield, a.q, got)
AfterCopy(c, r) ==
    LET set == load.kinds[c.q].set
    IN  IF set # NoQueue /\ c.pos = "overwrite" /\ ~prvIsQueueEmpty(c.q)
        THEN [k |-> r.k, q |-> r.q, got |-> got]
        ELSE Announced(Announce(r.k, r.q, c.q),
                       set = NoQueue /\ r.k.events[Recv(c.q)] = <<>> /\ r.yield)

SendNow(c) == AfterCopy(c, prvCopyDataToQueue(k, q, c.q, c.item, c.pos))

ReceiveNow(c) ==
    DoneWaking(Wake(k, Send(c.q)), [prvCopyDataFromQueue(q, c.q) EXCEPT ![c.q].count = @ - 1],
               Copied(q, c.q))

PeekNow(c) == DoneWaking(Wake(k, Recv(c.q)), q, Copied(q, c.q))

TakeNow(c) ==
    DoneWaking(Wake(IF IsMutex(c.q) THEN pvTaskIncrementMutexHeldCount(k) ELSE k, Send(c.q)),
               [q EXCEPT ![c.q].count = @ - 1,
                         ![c.q].holder = IF IsMutex(c.q) THEN k.cur ELSE @,
                         ![c.q].depth = IF load.kinds[c.q].kind = "recursive" THEN 1 ELSE @],
               got)

Possible(c) == IF c.op = "send" THEN c.pos = "overwrite" \/ ~prvIsQueueFull(c.q)
                                ELSE ~prvIsQueueEmpty(c.q)
Effect(c) == CASE c.op = "send"    -> SendNow(c)
               [] c.op = "receive" -> ReceiveNow(c)
               [] c.op = "peek"    -> PeekNow(c)
               [] c.op = "take"    -> TakeNow(c)

Becomes(r) == k' = r.k /\ q' = r.q

(* The critical section at the top of the loop.                            *)
Finish(t, r) == Becomes(r) /\ got' = r.got /\ Goto(t, Run)
Try(t, c) ==
    IF Possible(c) THEN Finish(t, Effect(c))
    ELSE /\ UNCHANGED <<k, q, got>>
         /\ Goto(t, IF c.wait = 0 THEN Run
                    ELSE [c EXCEPT !.at = "hold",
                                   !.out = IF @.ovf < 0
                                           THEN vTaskInternalSetTimeOutState(k)
                                           ELSE @])

(* A call from the task's own code.  The members of a queue set are read   *)
(* only after the set has named them, and without waiting.                 *)
Begin(t, c) ==
    /\ k.cur = t
    /\ pc[t] = Run
    /\ <<c.op, c.q>> \in load.q[t]
    /\ k.susp # 0 => c.wait = 0
    /\ load.kinds[c.q].set # NoQueue /\ c.op # "send" => c.wait = 0
    /\ Try(t, c)

prvLockQueue(x) ==
    q' = [q EXCEPT ![x].rx = IF @ = Unlocked THEN 0 ELSE @,
                   ![x].tx = IF @ = Unlocked THEN 0 ELSE @]

(* To sleep for a mutex is to lend its holder a priority first.            *)
GoToSleep(t, c, i, inherits) ==
    /\ k' = vTaskPlaceOnEventList(i.k, IF c.op = "send" THEN Send(c.q) ELSE Recv(c.q), c.wait)
    /\ Goto(t, [c EXCEPT !.after = "block", !.inh = IF inherits THEN i.inherited ELSE @])
    /\ Sleep(t, c.wait)

(* r is what xTaskCheckForTimeOut says, c the call that it has updated.    *)
SleepOrNot(t, r, c) ==
    IF r.up \/ Possible(c)
    THEN /\ k' = r.k
         /\ Goto(t, [c EXCEPT !.after = IF r.up THEN "timeout" ELSE "retry"])
         /\ Deadlines
    ELSE IF IsMutex(c.q) /\ c.op = "take"
    THEN GoToSleep(t, c, xTaskPriorityInherit(r.k, q[c.q].holder), TRUE)
    ELSE GoToSleep(t, c, r, FALSE)

Checked(t, r) ==
    SleepOrNot(t, r, [pc[t] EXCEPT !.at = "unlockTx", !.out = r.out, !.wait = r.wait])

(* Sleep if the time is not up and there is still nothing to do.           *)
WaitCheck(t) ==
    /\ Checked(t, xTaskCheckForTimeOut(k, pc[t].out, pc[t].wait))
    /\ UNCHANGED <<q, got>>

(* Mutant: what came while the queue was locked is not announced.          *)
UnlockTx_silent(kk, qq, x) == [k |-> kk, q |-> [qq EXCEPT ![x].tx = Unlocked]]

(* prvUnlockQueue: wake a task for each item that came, and for each that  *)
(* went, while the queue was locked.                                       *)
Missed(w) == IF w.higher THEN vTaskMissedYield(w.k) ELSE w.k
MissedIn(a) == [k |-> Missed(a), q |-> a.q]

UnlockTx(kk, qq, x) ==
    LET turn[i \in Unlocked .. qq[x].tx] ==
            IF i <= 0 THEN [k |-> kk, q |-> qq]
            ELSE MissedIn(Announce(turn[i - 1].k, turn[i - 1].q, x))
    IN  [turn[qq[x].tx] EXCEPT !.q[x].tx = Unlocked]

UnlockRx(kk, qq, x) ==
    LET turn[i \in Unlocked .. qq[x].rx] ==
            IF i <= 0 THEN kk ELSE Missed(Wake(turn[i - 1], Send(x)))
    IN  [k |-> turn[qq[x].rx], q |-> [qq EXCEPT ![x].rx = Unlocked]]

prvGetHighestPriorityOfWaitToReceiveList(x) ==
    IF k.events[Recv(x)] = <<>> THEN 0
    ELSE MaxPriorities - k.rank[Head(k.events[Recv(x)])]

(* Where a call goes when the queue is unlocked again.                     *)
AfterUnlock(c) ==
    LET again == [c EXCEPT !.at = "try"]
        late  == IF c.op = "send" THEN Run ELSE [c EXCEPT !.at = "late"]
    IN  CASE c.after = "block"   -> Resume(again)
          [] c.after = "retry"   -> [at |-> "resumeOnly", then |-> again]
          [] c.after = "timeout" -> [at |-> "resumeOnly", then |-> late]

Lock(t, op) ==
    /\ In(t, op, "lock")
    /\ prvLockQueue(pc[t].q)
    /\ Goto(t, [pc[t] EXCEPT !.at = "check"])
    /\ UNCHANGED <<k, got, until>>

prvUnlockQueue(t, op, then) ==
    /\ \/ /\ In(t, op, "unlockTx")
          /\ Becomes(UnlockTx(k, q, pc[t].q))
          /\ Goto(t, [pc[t] EXCEPT !.at = "unlockRx"])
       \/ /\ In(t, op, "unlockRx")
          /\ Becomes(UnlockRx(k, q, pc[t].q))
          /\ Goto(t, then)
    /\ Deadlines
    /\ UNCHANGED got

(* The steps of one call of op, from the wait loop on.                     *)
WaitSteps(t, op) ==
    \/ /\ In(t, op, "try")
       /\ Try(t, pc[t])
       /\ Deadlines
    \/ /\ In(t, op, "hold")
       /\ k' = vTaskSuspendAll(k)
       /\ Goto(t, [pc[t] EXCEPT !.at = "lock"])
       /\ UNCHANGED <<q, got, until>>
    \/ Lock(t, op)
    \/ In(t, op, "check") /\ WaitCheck(t)
    \/ prvUnlockQueue(t, op, AfterUnlock(pc[t]))

(* The time is up: a last look at the queue before giving up.              *)
LateLook(t, op) ==
    /\ In(t, op, "late")
    /\ Goto(t, CASE ~prvIsQueueEmpty(pc[t].q) -> [pc[t] EXCEPT !.at = "try"]
                 [] prvIsQueueEmpty(pc[t].q) /\ pc[t].inh -> [pc[t] EXCEPT !.at = "disinherit"]
                 [] OTHER -> Run)
    /\ UNCHANGED <<k, q, got, until>>

xQueueGenericSend(t) ==
    /\ \/ /\ \E x \in QueueIds, m \in load.msgs, n \in load.waits[t], pos \in {"back", "front", "overwrite"} :
               /\ Sized(x)
               /\ pos = "overwrite" => load.kinds[x].len = 1
               /\ Begin(t, Call("send", x, m, pos, n))
          /\ Deadlines
       \/ WaitSteps(t, "send")
    /\ UNCHANGED <<tcbs, prev, load>>

(* Giving a semaphore or a mutex is sending nothing, without waiting; a    *)
(* mutex only its holder gives.                                            *)
GiveNow(x) == SendNow(Call("send", x, NoQueue, "back", 0))

Give(t) ==
    /\ \E x \in QueueIds :
         /\ k.cur = t /\ pc[t] = Run /\ <<"give", x>> \in load.q[t]
         /\ load.kinds[x].kind = "semaphore" \/ (load.kinds[x].kind = "mutex" /\ q[x].holder = t)
         /\ ~prvIsQueueFull(x)
         /\ Becomes(GiveNow(x))
    /\ Deadlines
    /\ UNCHANGED <<pc, tcbs, prev, load, got>>

xQueueGiveMutexRecursive(t) ==
    /\ \E x \in QueueIds :
         /\ k.cur = t /\ pc[t] = Run /\ <<"give", x>> \in load.q[t]
         /\ load.kinds[x].kind = "recursive" /\ q[x].holder = t
         /\ IF q[x].depth = 1
            THEN Becomes([GiveNow(x) EXCEPT !.q[x].depth = 0])
            ELSE k' = k /\ q' = [q EXCEPT ![x].depth = @ - 1]
    /\ Deadlines
    /\ UNCHANGED <<pc, tcbs, prev, load, got>>

xQueueReceive(t) ==
    /\ \/ /\ \E x \in QueueIds, n \in load.waits[t] :
               Sized(x) /\ Begin(t, Call("receive", x, NoQueue, "", n))
          /\ Deadlines
       \/ WaitSteps(t, "receive")
       \/ LateLook(t, "receive")
    /\ UNCHANGED <<tcbs, prev, load>>

xQueuePeek(t) ==
    /\ \/ /\ \E x \in QueueIds, n \in load.waits[t] :
               Sized(x) /\ Begin(t, Call("peek", x, NoQueue, "", n))
          /\ Deadlines
       \/ WaitSteps(t, "peek")
       \/ LateLook(t, "peek")
    /\ UNCHANGED <<tcbs, prev, load>>

xQueueSemaphoreTake(t) ==
    /\ \/ /\ \E x \in QueueIds, n \in load.waits[t] :
               /\ ~Sized(x)
               /\ q[x].holder # t
               /\ Begin(t, Call("take", x, NoQueue, "", n))
          /\ Deadlines
       \/ WaitSteps(t, "take")
       \/ LateLook(t, "take")
       \/ /\ In(t, "take", "disinherit")
          /\ k' = vTaskPriorityDisinheritAfterTimeout(
                      k, q[pc[t].q].holder,
                      prvGetHighestPriorityOfWaitToReceiveList(pc[t].q))
          /\ Goto(t, Run)
          /\ UNCHANGED <<q, got, until>>
    /\ UNCHANGED <<tcbs, prev, load>>

(* The holder of a recursive mutex takes it again.                         *)
xQueueTakeMutexRecursive(t) ==
    /\ \E x \in QueueIds :
         /\ k.cur = t /\ pc[t] = Run /\ <<"take", x>> \in load.q[t]
         /\ load.kinds[x].kind = "recursive"
         /\ q[x].holder = t
         /\ q[x].depth < MaxDepth
         /\ q' = [q EXCEPT ![x].depth = @ + 1]
    /\ UNCHANGED <<taskVars, got>>

(* The timer task's wait, entered with the scheduler suspended: it sleeps  *)
(* if there is no message, but makes no attempt to receive one.            *)
vQueueWaitForMessageRestricted(t) ==
    /\ \/ Lock(t, "restricted")
       \/ /\ In(t, "restricted", "check")
          /\ Goto(t, [pc[t] EXCEPT !.at = "unlockTx"])
          /\ IF prvIsQueueEmpty(pc[t].q)
             THEN /\ k' = vTaskPlaceOnEventListRestricted(
                              k, Recv(pc[t].q), pc[t].wait, pc[t].forever)
                  /\ Sleep(t, pc[t].wait)
             ELSE UNCHANGED <<k, until>>
          /\ UNCHANGED <<q, got>>
       \/ prvUnlockQueue(t, "restricted", Resume(pc[t].then))
    /\ UNCHANGED <<tcbs, prev, load>>

(* An empty queue again; of the tasks waiting to send, one is let go.      *)
xQueueGenericReset(t) ==
    /\ \E x \in QueueIds :
         /\ k.cur = t /\ pc[t] = Run /\ <<"reset", x>> \in load.q[t]
         /\ Becomes(DoneWaking(Wake(k, Send(x)),
                       [q EXCEPT ![x].count = 0, ![x].write = 0,
                                 ![x].read = load.kinds[x].len - 1,
                                 ![x].rx = Unlocked, ![x].tx = Unlocked], got))
    /\ Deadlines
    /\ UNCHANGED <<pc, tcbs, prev, load, got>>

-----------------------------------------------------------------------------
(* From interrupts, which switch on leaving if told to *)

(* r is the kernel and the queues with the item in place.                  *)
CopiedFromISR(r, x, announced) ==
    IF q[x].tx # Unlocked
    THEN k' = r.k /\ q' = [r.q EXCEPT ![x].tx = prvIncrementQueueTxLock(k, @)]
    ELSE IF announced THEN Becomes(Announced(Announce(r.k, r.q, x), FALSE))
    ELSE Becomes(r)

SendFromISR(x, m, pos) ==
    /\ IF pos = "overwrite" THEN load.kinds[x].len = 1 ELSE ~prvIsQueueFull(x)
    /\ CopiedFromISR(prvCopyDataToQueue(k, q, x, m, pos), x,
                     pos # "overwrite" \/ prvIsQueueEmpty(x) \/ load.kinds[x].set = NoQueue)

xQueueGenericSendFromISR ==
    /\ \E x \in QueueIds, m \in load.msgs, pos \in {"back", "front", "overwrite"} :
         Sized(x) /\ <<"send", x>> \in load.qisr /\ SendFromISR(x, m, pos)
    /\ Deadlines
    /\ UNCHANGED <<pc, tcbs, prev, load, got>>

xQueueGiveFromISR ==
    /\ \E x \in QueueIds :
         /\ load.kinds[x].kind = "semaphore" /\ <<"give", x>> \in load.qisr
         /\ ~prvIsQueueFull(x)
         /\ CopiedFromISR([k |-> k, q |-> [q EXCEPT ![x].count = @ + 1]], x, TRUE)
    /\ Deadlines
    /\ UNCHANGED <<pc, tcbs, prev, load, got>>

xQueueReceiveFromISR ==
    /\ \E x \in QueueIds :
         LET q1 == [prvCopyDataFromQueue(q, x) EXCEPT ![x].count = @ - 1]
         IN  /\ Sized(x) /\ <<"receive", x>> \in load.qisr
             /\ ~prvIsQueueEmpty(x)
             /\ got' = Copied(q, x)
             /\ IF q[x].rx = Unlocked
                THEN Becomes(DoneWaking(Wake(k, Send(x)), q1, got))
                ELSE /\ k' = k
                     /\ q' = [q1 EXCEPT ![x].rx = prvIncrementQueueRxLock(k, @)]
    /\ Deadlines
    /\ UNCHANGED <<pc, tcbs, prev, load>>

-----------------------------------------------------------------------------
QueueStep(t) ==
    \/ xQueueGenericSend(t) \/ Give(t) \/ xQueueGiveMutexRecursive(t) \/ xQueueReceive(t) \/ xQueuePeek(t)
    \/ xQueueSemaphoreTake(t) \/ xQueueTakeMutexRecursive(t) \/ xQueueGenericReset(t)

QueueInterrupt ==
    xQueueGenericSendFromISR \/ xQueueGiveFromISR \/ xQueueReceiveFromISR

(* The call a task is in, whether it runs, yields or resumes first.        *)
InCall(t)   == IF pc[t].at \in {"resume", "resumeOnly", "yield"} THEN pc[t].then ELSE pc[t]
CallsOn(t, x) == "q" \in DOMAIN InCall(t) /\ InCall(t).q = x
Waiting(t, l) == Contains(k.events[l], t)

(* Time does not run away from a call: none is held up for so long that    *)
(* the tick counter comes round.                                           *)
Prompt ==
    \A t \in Tasks :
        LET c == InCall(t)
            late == (Now(k) + k.pended + 1 + Cycle - c.due) % Cycle
        IN  "due" \in DOMAIN c /\ c.due >= 0 => late <= MaxLate \/ late > Cycle - Wrap

QueueNext ==
    \/ /\ (\E t \in Tasks : TaskStep(t)) \/ prvIdleTask \/ TaskInterrupt \/ (Prompt /\ Tick)
       /\ UNCHANGED <<q, got>>
    \/ \E t \in Tasks : QueueStep(t)
    \/ QueueInterrupt

QueueSpec == QueueInit /\ [][QueueNext]_queueVars

-----------------------------------------------------------------------------
(* Properties *)

Queued(x) == [i \in 1 .. q[x].count |->
               q[x].store[(q[x].read + i) % load.kinds[x].len]]

(* The ring, its indices and its count make a first-in first-out queue: an *)
(* item sent to the back comes out after those before it, one sent to the  *)
(* front at once, each once, and what a receiver or a peek gets is the     *)
(* first; nothing else changes what is queued (prvCopyDataToQueue,         *)
(* prvCopyDataFromQueue and the counts kept around them).                  *)
Fifo == INSTANCE BoundedFifo WITH
    Ids    <- QueueIds,
    Items  <- (UNION {l.msgs : l \in Loads}) \cup QueueIds,
    Length <- [x \in QueueIds |-> load.kinds[x].len],
    seqs   <- [x \in QueueIds |-> IF Sized(x) THEN Queued(x) ELSE <<>>],
    out    <- got
ImplementsFifo == Fifo!Spec

(* No lost wake-up: with the queue unlocked, an item nobody has come for   *)
(* and a task asleep for it never coexist; some task is awake that will    *)
(* look at the queue again.  The same holds for a free place and a sender, *)
(* where a sender whose time is up looks no more.                          *)
NoLostWakeup ==
    \A x \in QueueIds :
        /\ k.events[Recv(x)] # <<>> /\ q[x].count > 0 /\ q[x].tx = Unlocked =>
             \E t \in Tasks : /\ CallsOn(t, x) /\ InCall(t).op # "send"
                              /\ ~Waiting(t, Recv(x))
        /\ k.events[Send(x)] # <<>> /\ q[x].count < load.kinds[x].len /\ q[x].rx = Unlocked =>
             \E t \in Tasks : /\ CallsOn(t, x) /\ InCall(t).op = "send"
                              /\ InCall(t).after # "timeout"
                              /\ ~Waiting(t, Send(x))

(* A call that gives up has waited its time, and one that sleeps will be   *)
(* woken when its time is up and not later, however often it was woken for *)
(* nothing and whatever the tick did meanwhile (xTaskCheckForTimeOut).     *)
TimeoutsExact ==
    \A t \in Tasks :
        LET c == InCall(t)
        IN  "due" \in DOMAIN c =>
              /\ c.after = "timeout" =>
                   c.due >= 0 /\ (Now(k) + Cycle - c.due) % Cycle <= MaxLate
              /\ t \in Timed(k) /\ c.due >= 0 => until[t] = c.due

(* The holder of a mutex runs at the highest priority of those asleep for  *)
(* it, and at no more than its own when none of them is left; between a    *)
(* waiter's time-out and its last step it may still have the waiter's.     *)
HolderPriorityExact ==
    \A x \in QueueIds :
        LET h == q[x].holder
            w == ToSet(k.events[Recv(x)])
        IN  IsMutex(x) /\ h \in Tasks =>
              /\ \A t \in w : k.prio[h] >= k.prio[t]
              /\ k.prio[h] > k.base[h] =>
                   \E t \in Tasks : /\ CallsOn(t, x) /\ InCall(t).op = "take"
                                    /\ k.prio[t] = k.prio[h]
=============================================================================
