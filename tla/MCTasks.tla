------------------------------ MODULE MCTasks ------------------------------
(***************************************************************************)
(* Tasks with two or three tasks beside the idle task.  A behaviour is     *)
(* about one of the workloads, which Init picks.                           *)
(***************************************************************************)
EXTENDS Tasks

CONSTANTS A, B, C, I

(* A workload: the priorities tasks A, B and C start with (-1: not there), *)
(* what each may call, and what the interrupts may call.                   *)
Workload(a, b, c, ca, cb, cc, isr) ==
    [prio |-> (A :> a) @@ (B :> b) @@ (C :> c) @@ (I :> 0),
     can  |-> (A :> ca) @@ (B :> cb) @@ (C :> cc) @@ (I :> {}),
     isr  |-> isr]

MCLoads ==
    { \* tasks of one priority sleeping across the wrap of the tick
      Workload(1, 1, -1, {"delay"}, {"delayUntil"}, {}, {}),
      \* three tasks that never block, the idle task among them
      Workload(0, -1, 0, {}, {}, {}, {}),
      \* a sleeper suspended, resumed and woken, ticks made up for
      Workload(2, 1, -1, {"delay", "suspend"}, {"abort", "resume", "catchUp"}, {}, {}),
      \* resumed by an interrupt while the scheduler is suspended
      Workload(2, 1, -1, {"suspend", "yield"}, {"suspendAll", "delay", "resume"}, {},
               {"resume"}),
      \* priorities changed of running, ready and sleeping tasks
      Workload(2, 1, -1, {"delay"}, {"priority", "suspendAll"}, {}, {}),
      \* tasks created, deleting each other and themselves
      Workload(1, -1, -1, {"create", "delete"}, {"delete"}, {"yield"}, {}),
      \* notified by a task and by interrupts, the scheduler suspended or not
      Workload(2, 1, -1, {"take"}, {"notify", "suspendAll"}, {}, {"give"}),
      Workload(2, 1, -1, {"wait"}, {"notify", "delete"}, {}, {}),
      Workload(1, 0, -1, {"wait", "clear"}, {"clear"}, {}, {"notify"}),
      \* suspended and woken while waiting for a notification
      Workload(1, 1, -1, {"take"}, {"suspend", "resume", "abort"}, {}, {"give"})
    }
============================================================================
