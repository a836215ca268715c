------------------------------ MODULE MCTimers ------------------------------
(***************************************************************************)
(* The timer service with one or two timers and one or two tasks that use  *)
(* it, above or below it in priority.                                      *)
(***************************************************************************)
EXTENDS SwTimers

CONSTANTS A, D, I, X, T1, T2

MCEventLists == QueueIds \X {"recv", "send"}

(* Priorities of A and of the timer task; the length of its queue; the     *)
(* timers there are, which reload and which stop themselves; what A and    *)
(* what interrupts command; what else A calls; A's block times.            *)
Workload(a, d, len, made, autos, stops, cmd, isr, can, waits) ==
    [prio |-> (A :> a) @@ (D :> d) @@ (I :> 0),
     can |-> (A :> can) @@ (D :> {}) @@ (I :> {}), isr |-> {},
     kinds |-> (X :> [kind |-> "queue", len |-> len, set |-> NoQueue]),
     msgs |-> {}, waits |-> [t \in Tasks |-> waits], q |-> [t \in Tasks |-> {}], qisr |-> {},
     made |-> made, period |-> (T1 :> 2) @@ (T2 :> 1),
     auto |-> [x \in Timers |-> x \in autos], stops |-> stops,
     cmd |-> (A :> cmd) @@ (D :> {}) @@ (I :> {}), cmdisr |-> isr, late |-> 1]

(* The timer task is held up for longer, and the timers are faster.        *)
HeldUp(l) == [l EXCEPT !.late = 2, !.period = [x \in Timers |-> 1]]

MCLoads ==
    { \* two timers, one of which reloads and stops itself
      Workload(1, 2, 1, Timers, {T1}, {T1}, {"start"}, {}, {}, {0}),
      \* a timer started and stopped by interrupts
      Workload(1, 2, 1, {T1}, {T1}, {}, {}, {"start", "stop"}, {}, {0}),
      \* periods changed under way
      Workload(1, 2, 1, Timers, {T1}, {}, {"change"}, {}, {}, {0}),
      \* a timer deleted and made again
      Workload(1, 2, 1, {T2}, {T2}, {}, {"start", "delete"}, {}, {"create"}, {0}),
      \* a task that outranks the timer task fills its queue
      HeldUp(Workload(2, 1, 2, {T2}, {T2}, {}, {"start"}, {}, {}, {MaxDelay})),
      Workload(2, 1, 1, Timers, {T1}, {}, {"start"}, {}, {}, {1}),
      \* commands with the scheduler suspended, reloading turned on and off
      Workload(1, 2, 1, {T2}, {T1}, {}, {"start"}, {}, {"suspendAll", "reloadMode"}, {0}) }
=============================================================================
