------------------------------ MODULE MCQueues ------------------------------
(***************************************************************************)
(* Queues with up to three tasks beside the idle task and two              *)
(* queues.  A behaviour is about one of the workloads.                     *)
(***************************************************************************)
EXTENDS Queues

CONSTANTS A, B, C, I, X, Y

Kind(kind, len, set) == [kind |-> kind, len |-> len, set |-> set]
Queue(n)   == Kind("queue", n, NoQueue)
Semaphore  == Kind("semaphore", 2, NoQueue)
Mutex      == Kind("mutex", 1, NoQueue)
Recursive  == Kind("recursive", 1, NoQueue)
MCEventLists == QueueIds \X {"recv", "send"}

(* A task: its priority (-1: not there), what it calls in tasks.c and what *)
(* on which queue.                                                         *)
Task(p, can, calls) == [p |-> p, can |-> can, calls |-> calls]
None == Task(-1, {}, {})

(* The block times of A, B and C.                                          *)
Waits(a, b, c) == (A :> a) @@ (B :> b) @@ (C :> c) @@ (I :> {})
All(w) == Waits(w, w, w)

(* What X and Y are; the items and block times; tasks A, B and C; what     *)
(* interrupts call.                                                        *)
Workload(x, y, msgs, waits, a, b, c, isr) ==
    LET by == (A :> a) @@ (B :> b) @@ (C :> c) @@ (I :> Task(0, {}, {}))
    IN  [kinds |-> (X :> x) @@ (Y :> y), msgs |-> msgs, waits |-> waits,
         prio |-> [t \in Tasks |-> by[t].p], can |-> [t \in Tasks |-> by[t].can],
         isr  |-> {}, q |-> [t \in Tasks |-> by[t].calls], qisr |-> isr]

On(x, ops) == ops \X {x}

MCLoads ==
    { \* a reader and a writer that wait for each other
      Workload(Queue(2), Mutex, {1, 2}, All({MaxDelay}),
               Task(2, {}, On(X, {"receive"})), Task(1, {}, On(X, {"send"})), None, {}),
      \* a reader whose time runs out while interrupts send or overwrite
      Workload(Queue(1), Mutex, {1}, All({2}),
               Task(1, {}, On(X, {"receive"})), None, None, On(X, {"send"})),
      \* a writer whose time runs out while interrupts receive
      Workload(Queue(1), Mutex, {1}, All({1}),
               Task(1, {}, On(X, {"send"})), None, None, On(X, {"receive"})),
      \* one task that peeks and one that receives, waiting for one item
      Workload(Queue(1), Mutex, {1}, All({1}), Task(2, {}, On(X, {"peek"})),
               Task(1, {}, On(X, {"receive"})), Task(0, {}, On(X, {"send"})), {}),
      \* a writer whose queue is reset
      Workload(Queue(1), Mutex, {1}, All({1}),
               Task(1, {}, On(X, {"send"})), Task(0, {}, On(X, {"reset", "peek"})), None, {}),
      \* calls made with the scheduler suspended
      Workload(Queue(1), Mutex, {1, 2}, All({0}), Task(1, {"suspendAll"}, On(X, {"receive", "send"})),
               None, None, On(X, {"send"})),
      \* a counting semaphore given by interrupts, and by a task
      Workload(Semaphore, Mutex, {1}, All({0, 1}),
               Task(2, {}, On(X, {"take"})), None, None, On(X, {"give"})),
      Workload(Semaphore, Mutex, {1}, All({1}),
               Task(2, {}, On(X, {"take"})), Task(1, {}, On(X, {"give"})), None, {}),
      \* a mutex held by the lowest of three tasks, the others' time running out
      Workload(Mutex, Queue(1), {1}, Waits({1}, {MaxDelay}, {0}), Task(3, {"delay"}, On(X, {"take"})),
               Task(2, {"delay"}, On(X, {"take"})), Task(1, {}, On(X, {"take", "give"})), {}),
      \* a recursive mutex
      Workload(Recursive, Queue(1), {1}, All({1}), Task(1, {"delay"}, On(X, {"take", "give"})),
               Task(0, {}, On(X, {"take", "give"})), None, {}),
      \* a queue set with a queue or a semaphore as its member
      Workload(Kind("queue", 1, Y), Queue(2), {1}, All({0, 1}),
               Task(1, {}, On(Y, {"receive"}) \cup On(X, {"receive"})), None, None,
               On(X, {"send"})),
      Workload(Kind("semaphore", 2, Y), Queue(2), {1}, All({0, 1}), Task(1, {}, On(Y, {"receive"})),
               Task(0, {}, On(X, {"give", "take"})), None, {}) }
=============================================================================
