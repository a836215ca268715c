------------------------------ MODULE SwTimers ------------------------------
(***************************************************************************)
(* Software timers (timers.c): the timer service task, which sleeps on its *)
(* command queue until the next timer is due, and the commands that tasks, *)
(* interrupts and the timers' own callbacks send it.  Its state is one     *)
(* record, as the kernel's is:                                             *)
(*                                                                         *)
(*   current  pxCurrentTimerList        overflow pxOverflowTimerList       *)
(*   last     xLastTime                 exp      xTimerListItem's value    *)
(*   period   xTimerPeriodInTicks       auto, active   bits of ucStatus    *)
(*                                                                         *)
(* and, kept for the properties only, due: the absolute time the next      *)
(* callback of a timer is owed at.  A command carries the absolute time    *)
(* of the tick it was stamped with; the code sees it modulo the counter.   *)
(* pc of the timer task: "run" is the top of its loop.                     *)
(***************************************************************************)
EXTENDS Queues

CONSTANTS Daemon,       \* the timer service task
          TimerQueue,   \* its command queue
          Timers,
          Periods       \* the periods a timer may be changed to

ASSUME ServiceAssumption ==
    /\ Daemon \in Tasks \ {Idle}
    /\ TimerQueue \in QueueIds
    /\ \A l \in Loads, x \in Timers : l.period[x] \in 1 .. MaxDelay - l.late
    /\ \A l \in Loads, t \in Tasks :
         "change" \in l.cmd[t] \cup l.cmdisr => Periods \subseteq 1 .. MaxDelay - l.late

VARIABLE sw

serviceVars == <<queueVars, sw>>

NoDue == -1
Wrong == -2

ServiceInit ==
    /\ QueueInit
    /\ sw = [current |-> <<>>, overflow |-> <<>>, last |-> 0, made |-> load.made,
             exp |-> [x \in Timers |-> 0], period |-> load.period,
             auto |-> load.auto, active |-> [x \in Timers |-> FALSE],
             due |-> [x \in Timers |-> NoDue]]

-----------------------------------------------------------------------------
(* Callbacks.  The service is a pair: the timers and the queues, to which  *)
(* a callback may send.                                                    *)

Passed(time) == (Now(k) + Cycle - time) % Cycle <= MaxDelay

Command(id, x, value) == [id |-> id, timer |-> x, value |-> value]

(* One that is owed moves on to the next period, if there is one.          *)
CallbackOwed(s, x) ==
    IF s.due[x] < 0 \/ ~Passed(s.due[x]) THEN Wrong
    ELSE IF s.auto[x] THEN (s.due[x] + s.period[x]) % Cycle
    ELSE NoDue

(* pxCallbackFunction.  Some timers stop themselves, without waiting for   *)
(* room in the queue.                                                      *)
Callback(p, x) ==
    LET stop == Command("stop", x, 0)
        room == p.q[TimerQueue].count < load.kinds[TimerQueue].len
    IN  [s |-> [p.s EXCEPT !.due[x] = CallbackOwed(p.s, x)],
         q |-> IF x \in load.stops /\ room
               THEN prvCopyDataToQueue(k, p.q, TimerQueue, stop, "back").q
               ELSE p.q]

-----------------------------------------------------------------------------
(* The two lists *)

RemoveTimer(s, x) == [s EXCEPT !.current = Remove(@, x), !.overflow = Remove(@, x)]

(* Mutant: the wrap between command and processing is not thought of.      *)
ProcessNow_unwrapped(s, x, next, now, cmd) ==
    next <= now /\ Minus(now, cmd) >= s.period[x]

(* Whether a timer to expire at next, counted from cmd, is already late.   *)
ProcessNow(s, x, next, now, cmd) ==
    IF next <= now THEN Minus(now, cmd) >= s.period[x]
                   ELSE now < cmd /\ next >= cmd

(* On neither list when late; on the overflow list if beyond the wrap.     *)
Link(s, x, late, wraps) ==
    IF late THEN s
    ELSE IF wraps THEN [s EXCEPT !.overflow = vListInsert(@, x, s.exp)]
    ELSE [s EXCEPT !.current = vListInsert(@, x, s.exp)]

prvInsertTimerInActiveList(s, x, next, now, cmd) ==
    Link([s EXCEPT !.exp[x] = next], x, ProcessNow(s, x, next, now, cmd), next <= now)

Insert(p, x, next, now, cmd) ==
    [p EXCEPT !.s = prvInsertTimerInActiveList(@, x, next, now, cmd)]

(* The loop that catches up with missed periods, a callback for each.      *)
MissedPeriods(s, x, expired, now) ==
    LET at(i)   == Plus(expired, i * s.period[x])
        late(i) == ProcessNow(s, x, at(i + 1), now, at(i))
    IN  CHOOSE n \in 0 .. Wrap : ~late(n) /\ \A j \in 0 .. n - 1 : late(j)

CatchUpWith(p, x, expired, now, n) ==
    Insert(FoldLeft(LAMBDA y, i : Callback(y, x), p, [i \in 1 .. n |-> i]), x,
           Plus(expired, (n + 1) * p.s.period[x]), now, Plus(expired, n * p.s.period[x]))

prvReloadTimer(p, x, expired, now) ==
    CatchUpWith(p, x, expired, now, MissedPeriods(p.s, x, expired, now))

(* A timer that has expired reloads or becomes inactive, then calls back.  *)
Expire(p, x, next, now) ==
    Callback(IF p.s.auto[x] THEN prvReloadTimer(p, x, next, now)
                            ELSE [p EXCEPT !.s.active[x] = FALSE], x)

prvProcessExpiredTimer(p, next, now) ==
    Expire([p EXCEPT !.s = RemoveTimer(@, Head(p.s.current))], Head(p.s.current), next, now)

Exchanged(p) == [p EXCEPT !.s.current = p.s.overflow, !.s.overflow = p.s.current]

(* The counter has wrapped: what is left on the current list has expired,  *)
(* some of it more than once.  The turns are at most the timers there are  *)
(* times the periods of one turn of the counter.                           *)
prvSwitchTimerLists(p) ==
    LET turn(y, i) == IF y.s.current = <<>> THEN y
                      ELSE prvProcessExpiredTimer(y, y.s.exp[Head(y.s.current)], MaxDelay)
    IN  Exchanged(FoldLeft(turn, p, [i \in 1 .. Cardinality(Timers) * Wrap |-> i]))

Switched == k.tick < sw.last

prvSampleTimeNow(p) ==
    [(IF Switched THEN prvSwitchTimerLists(p) ELSE p) EXCEPT !.s.last = k.tick]

Service == [s |-> sw, q |-> q]
Serve(p) == sw' = p.s /\ q' = p.q

-----------------------------------------------------------------------------
(* The timer task *)

prvGetNextExpireTime ==
    /\ k.cur = Daemon /\ pc[Daemon] = Run
    /\ Goto(Daemon, [at |-> "sample", empty |-> sw.current = <<>>,
                     next |-> IF sw.current = <<>> THEN 0 ELSE sw.exp[Head(sw.current)]])
    /\ UNCHANGED <<k, q, got, until, sw>>

(* Mutant: the overflow list is not looked at before sleeping for ever.    *)
prvProcessTimerOrBlockTask_for_ever ==
    LET c == pc[Daemon]
        receive == [at |-> "receive"]
    IN  /\ At(Daemon, "sample")
        /\ Serve(prvSampleTimeNow(Service))
        /\ k' = vTaskSuspendAll(k)
        /\ Goto(Daemon,
                IF Switched THEN [at |-> "resumeOnly", then |-> receive]
                ELSE IF ~c.empty /\ c.next <= k.tick
                THEN [at |-> "resumeOnly",
                      then |-> [at |-> "expired", next |-> c.next, now |-> k.tick]]
                ELSE [at |-> "lock", op |-> "restricted", q |-> TimerQueue,
                      wait |-> Minus(c.next, k.tick),
                      forever |-> c.empty, then |-> receive])
        /\ UNCHANGED <<got, until>>

(* With the scheduler suspended: go on, expire a timer, or sleep until the *)
(* next is due or, with none on this list, until the counter wraps.        *)
prvProcessTimerOrBlockTask ==
    LET c == pc[Daemon]
        receive == [at |-> "receive"]
    IN  /\ At(Daemon, "sample")
        /\ Serve(prvSampleTimeNow(Service))
        /\ k' = vTaskSuspendAll(k)
        /\ Goto(Daemon,
                IF Switched THEN [at |-> "resumeOnly", then |-> receive]
                ELSE IF ~c.empty /\ c.next <= k.tick
                THEN [at |-> "resumeOnly",
                      then |-> [at |-> "expired", next |-> c.next, now |-> k.tick]]
                ELSE [at |-> "lock", op |-> "restricted", q |-> TimerQueue,
                      wait |-> Minus(c.next, k.tick),
                      forever |-> c.empty /\ sw.overflow = <<>>, then |-> receive])
        /\ UNCHANGED <<got, until>>

ExpireTimer ==
    /\ At(Daemon, "expired")
    /\ Serve(prvProcessExpiredTimer(Service, pc[Daemon].next, pc[Daemon].now))
    /\ Goto(Daemon, [at |-> "receive"])
    /\ UNCHANGED <<k, got, until>>

(* xQueueReceive without waiting: a command, or back to the top.           *)
ReceiveCommand ==
    /\ At(Daemon, "receive")
    /\ IF prvIsQueueEmpty(TimerQueue)
       THEN Goto(Daemon, Run) /\ UNCHANGED <<k, q, got>>
       ELSE LET r == ReceiveNow([q |-> TimerQueue])
            IN  /\ k' = r.k /\ q' = r.q /\ got' = r.got
                /\ Goto(Daemon, [at |-> "command"])
    /\ Deadlines
    /\ UNCHANGED sw

(* Counted from the tick the command was stamped with, which is cmd to     *)
(* the code: if that is over by now the timer expires at once.             *)
StartFrom(p, x, cmd, next) ==
    IF ProcessNow(p.s, x, next, p.s.last, cmd)
    THEN Expire(Insert(p, x, next, p.s.last, cmd), x, next, p.s.last)
    ELSE Insert(p, x, next, p.s.last, cmd)

StartTimer(p, x, value) ==
    StartFrom([p EXCEPT !.s.active[x] = TRUE,
                        !.s.due[x] = (value + p.s.period[x]) % Cycle],
              x, value % Wrap, Plus(value % Wrap, p.s.period[x]))

StopTimer(p, x) == [p EXCEPT !.s.active[x] = FALSE, !.s.due[x] = NoDue]

ChangePeriod(p, x, n) ==
    Insert([p EXCEPT !.s.active[x] = TRUE, !.s.period[x] = n,
                     !.s.due[x] = (Now(k) + n) % Cycle],
           x, Plus(p.s.last, n), p.s.last, p.s.last)

DeleteTimer(p, x) == [StopTimer(p, x) EXCEPT !.s.made = @ \ {x}]

Execute(p, m) ==
    CASE m.id = "start"  -> StartTimer(p, m.timer, m.value)
      [] m.id = "stop"   -> StopTimer(p, m.timer)
      [] m.id = "change" -> ChangePeriod(p, m.timer, m.value)
      [] m.id = "delete" -> DeleteTimer(p, m.timer)

prvProcessReceivedCommands ==
    /\ At(Daemon, "command")
    /\ Serve(Execute(prvSampleTimeNow([Service EXCEPT !.s = RemoveTimer(@, got.timer)]), got))
    /\ Goto(Daemon, [at |-> "receive"])
    /\ got' = NoQueue
    /\ UNCHANGED <<k, until>>

prvTimerTask ==
    /\ \/ prvGetNextExpireTime \/ prvProcessTimerOrBlockTask \/ ExpireTimer
       \/ ReceiveCommand \/ prvProcessReceivedCommands
       \/ vQueueWaitForMessageRestricted(Daemon) /\ UNCHANGED sw
    /\ UNCHANGED <<tcbs, prev, load>>

-----------------------------------------------------------------------------
(* Commands *)

(* The commands on their way: in the queue, or in a call that sends one.   *)
OnTheWay ==
    {q[TimerQueue].store[(q[TimerQueue].read + i) % load.kinds[TimerQueue].len] :
        i \in 1 .. q[TimerQueue].count}
    \cup {InCall(t).item : t \in {t \in Tasks : CallsOn(t, TimerQueue) /\ InCall(t).op = "send"}}
    \cup (IF pc[Daemon].at = "command" THEN {got} ELSE {})

(* A deleted timer is sent no more commands.                               *)
Commandable(x) ==
    x \in sw.made /\ \A m \in OnTheWay : m.timer = x => m.id # "delete"

(* What a command of each kind carries.                                    *)
Commands(ids) ==
    {m \in {Command(id, x, v) : id \in ids, x \in Timers, v \in {0, Now(k)} \cup Periods} :
        /\ Commandable(m.timer)
        /\ CASE m.id = "start"  -> m.value = Now(k)
             [] m.id = "change" -> m.value \in Periods
             [] OTHER           -> m.value = 0}

(* The tick is read first; the send itself comes when the task goes on.    *)
xTimerGenericCommandFromTask(t) ==
    /\ k.cur = t /\ pc[t] = Run
    /\ \E m \in Commands(load.cmd[t]), n \in load.waits[t] :
         Goto(t, Call("send", TimerQueue, m, "back", IF k.susp = 0 THEN n ELSE 0))
    /\ UNCHANGED <<k, tcbs, prev, until, load, q, got, sw>>

xTimerGenericCommandFromISR ==
    /\ \E m \in Commands(load.cmdisr) : SendFromISR(TimerQueue, m, "back")
    /\ Deadlines
    /\ UNCHANGED <<pc, tcbs, prev, load, got, sw>>

vTimerSetReloadMode(t) ==
    /\ Calls(t, "reloadMode")
    /\ \E x \in Timers : Commandable(x) /\ sw' = [sw EXCEPT !.auto[x] = ~@]
    /\ UNCHANGED queueVars

(* A new timer, in memory that was free.                                   *)
xTimerCreate(t) ==
    /\ Calls(t, "create")
    /\ \E x \in Timers \ sw.made :
         sw' = [sw EXCEPT !.made = @ \cup {x}, !.active[x] = FALSE,
                          !.auto[x] = load.auto[x], !.period[x] = load.period[x]]
    /\ UNCHANGED queueVars

-----------------------------------------------------------------------------
(* The timer task is not held up for long: no callback is owed, and no     *)
(* command on its way, for more than load.late ticks.                      *)
Late(time) == (Now(k) + k.pended + 1 + Cycle - time) % Cycle
TimersPrompt ==
    /\ \A x \in Timers : sw.due[x] >= 0 => Late(sw.due[x]) \notin load.late + 1 .. MaxDelay
    /\ \A m \in OnTheWay : m.id = "start" => Late(m.value) <= load.late

Elapsed(x) == (Now(x) + x.pended) % Cycle

ServiceNext ==
    \/ /\ QueueNext
       /\ TimersPrompt \/ Elapsed(k') = Elapsed(k)
       /\ UNCHANGED sw
    \/ prvTimerTask
    \/ \E t \in Tasks : xTimerGenericCommandFromTask(t) \/ vTimerSetReloadMode(t) \/ xTimerCreate(t)
    \/ xTimerGenericCommandFromISR

ServiceSpec == ServiceInit /\ [][ServiceNext]_serviceVars

-----------------------------------------------------------------------------
(* Properties *)

(* The callback owed next is the one the lists will bring: an active timer *)
(* is on one list, in order, with the value of its due time, on the        *)
(* current list if that is before the next wrap the timer task will see    *)
(* and on the overflow list if after; and no callback came that was not    *)
(* owed, too soon or once too often.  So none is lost or doubled where     *)
(* commands are late or the counter wraps between stamp and processing,    *)
(* and a deleted timer is on neither list.                                 *)
WrapsAhead(time) == (time \div Wrap) # (IF Switched THEN (k.ovf + Overflows - 1) % Overflows ELSE k.ovf)
CallbacksExact ==
    \A x \in Timers :
        /\ sw.due[x] # Wrong
        /\ sw.due[x] = NoDue => ~Contains(sw.current, x) /\ ~Contains(sw.overflow, x)
        /\ sw.due[x] >= 0 =>
             /\ sw.exp[x] = sw.due[x] % Wrap
             /\ Contains(sw.overflow, x) = WrapsAhead(sw.due[x])
             /\ Contains(sw.current, x)  = ~WrapsAhead(sw.due[x])
        /\ sw.active[x] = (sw.due[x] # NoDue)

(* The timer task never sleeps past a callback it owes, nor with a command *)
(* in its queue: asleep, it wakes at the latest when the first is due.     *)
Asleep == InEventList(k, Daemon) /\ ~Contains(k.events[Pending], Daemon)
DaemonWakesInTime ==
    Asleep /\ k.susp = 0 =>
        /\ \A x \in Timers : sw.due[x] >= 0 =>
             /\ Daemon \in Timed(k)
             /\ (until[Daemon] + Cycle - Now(k)) % Cycle <= (sw.due[x] + Cycle - Now(k)) % Cycle
        /\ q[TimerQueue].count = 0
=============================================================================
