----------------------------- MODULE ThreadPool -----------------------------
(* muduo/base/ThreadPool.cc: worker threads take tasks from a queue that   *)
(* may be bounded.  A section under mutex_ up to its end or to a wait on a *)
(* condition is one action; a thread that waits is "asleep" until a notify *)
(* or for no reason.  Tasks are numbered in the order they are submitted.  *)
EXTENDS Integers, Sequences, FiniteSets

CONSTANTS
    Workers,        \* threads_
    Callers,        \* the threads that call run
    MaxQueueSize,   \* maxQueueSize_; 0 for a queue without a bound
    MaxTasks        \* bound: how many tasks are submitted

ASSUME SizeAssumption == MaxQueueSize \in Nat /\ MaxTasks \in Nat
ASSUME ThreadAssumption ==
    /\ Workers # {} /\ IsFiniteSet(Workers) /\ IsFiniteSet(Callers)
    /\ Workers \cap Callers = {}

VARIABLES
    running,    \* running_
    started,    \* threads_ is not empty
    queue,      \* queue_
    wpc,        \* wpc[w]: where a worker is in runInThread and take
    rpc,        \* rpc[t]: where a thread is in run
    stop,       \* where stop() is
    submitted,  \* history: how many tasks were submitted
    taken,      \* history: the tasks that were handed out, in that order
    aborted     \* a task has thrown and the process has ended

vars == <<running, started, queue, wpc, rpc, stop, submitted, taken, aborted>>

Threads == Workers \cup Callers

Init ==
    /\ running = FALSE /\ started = FALSE
    /\ queue = <<>>
    /\ wpc = [w \in Workers |-> "none"]
    /\ rpc = [t \in Threads |-> "idle"]
    /\ stop = "no"
    /\ submitted = 0 /\ taken = <<>>
    /\ aborted = FALSE

-----------------------------------------------------------------------------
\* What pthread_cond_signal makes of the threads of pc: one that is asleep,
\* if there is one, goes on at "to".
Notify(pc, to) ==
    LET asleep == {t \in DOMAIN pc : pc[t] = "asleep"}
    IN  IF asleep = {} THEN {pc} ELSE {[pc EXCEPT ![t] = to] : t \in asleep}

\* pthread_cond_broadcast
NotifyAll(pc, to) == [t \in DOMAIN pc |-> IF pc[t] = "asleep" THEN to ELSE pc[t]]

Start ==
    /\ ~started
    /\ \A t \in Threads : rpc[t] = "idle"
    /\ running' = TRUE /\ started' = TRUE
    /\ wpc' = [w \in Workers |-> "test"]
    /\ UNCHANGED <<queue, rpc, stop, submitted, taken, aborted>>

\* A stop that wakes one worker only.
StopCallNotify ==
    /\ started /\ stop = "no"
    /\ running' = FALSE
    /\ wpc' \in Notify(wpc, "take")
    /\ stop' = "joining"
    /\ UNCHANGED <<started, queue, rpc, submitted, taken, aborted>>

\* stop(), or the destructor of a pool that still runs.
StopCall ==
    /\ started /\ stop = "no"
    /\ running' = FALSE
    /\ wpc' = NotifyAll(wpc, "take")
    /\ stop' = "joining"
    /\ UNCHANGED <<started, queue, rpc, submitted, taken, aborted>>

\* thr->join() of every worker
StopJoined ==
    /\ stop = "joining"
    /\ \A w \in Workers : wpc[w] = "done"
    /\ stop' = "done"
    /\ UNCHANGED <<running, started, queue, wpc, rpc, submitted, taken, aborted>>

-----------------------------------------------------------------------------
\* run

InRun == {t \in Threads : rpc[t] # "idle"}

isFull == MaxQueueSize > 0 /\ Len(queue) >= MaxQueueSize

\* A pool without threads runs the task in the caller.
RunInline(c) ==
    /\ ~started
    /\ submitted < MaxTasks
    /\ submitted' = submitted + 1
    /\ taken' = Append(taken, submitted + 1)
    /\ UNCHANGED <<running, started, queue, wpc, rpc, stop, aborted>>

\* A caller, or a task on its worker, calls run.
RunCall(t) ==
    /\ started
    /\ t \in Workers => wpc[t] = "task"
    /\ rpc[t] = "idle"
    /\ submitted + Cardinality(InRun) < MaxTasks
    /\ rpc' = [rpc EXCEPT ![t] = "run"]
    /\ UNCHANGED <<running, started, queue, wpc, stop, submitted, taken, aborted>>

RunWait(t) ==
    /\ rpc[t] = "run"
    /\ isFull
    /\ rpc' = [rpc EXCEPT ![t] = "asleep"]
    /\ UNCHANGED <<running, started, queue, wpc, stop, submitted, taken, aborted>>

\* No worker is woken.
RunPushQuiet(t) ==
    /\ rpc[t] = "run"
    /\ ~isFull
    /\ queue' = Append(queue, submitted + 1)
    /\ submitted' = submitted + 1
    /\ rpc' = [rpc EXCEPT ![t] = "idle"]
    /\ UNCHANGED <<running, started, wpc, stop, taken, aborted>>

RunPush(t) ==
    /\ rpc[t] = "run"
    /\ ~isFull
    /\ queue' = Append(queue, submitted + 1)
    /\ submitted' = submitted + 1
    /\ wpc' \in Notify(wpc, "take")
    /\ rpc' = [rpc EXCEPT ![t] = "idle"]
    /\ UNCHANGED <<running, started, stop, taken, aborted>>

-----------------------------------------------------------------------------
\* runInThread and take

TestRunning(w) ==
    /\ wpc[w] = "test"
    /\ wpc' = [wpc EXCEPT ![w] = IF running THEN "take" ELSE "done"]
    /\ UNCHANGED <<running, started, queue, rpc, stop, submitted, taken, aborted>>

TakeWait(w) ==
    /\ wpc[w] = "take"
    /\ queue = <<>> /\ running
    /\ wpc' = [wpc EXCEPT ![w] = "asleep"]
    /\ UNCHANGED <<running, started, queue, rpc, stop, submitted, taken, aborted>>

\* Only a take from a full queue, or none, wakes a thread in run.
TakeTaskFromFull(w) ==
    /\ wpc[w] = "take"
    /\ queue # <<>>
    /\ taken' = Append(taken, Head(queue))
    /\ queue' = Tail(queue)
    /\ IF isFull THEN rpc' \in Notify(rpc, "run") ELSE rpc' = rpc
    /\ wpc' = [wpc EXCEPT ![w] = "task"]
    /\ UNCHANGED <<running, started, stop, submitted, aborted>>
TakeTaskQuiet(w) ==
    /\ wpc[w] = "take"
    /\ queue # <<>>
    /\ taken' = Append(taken, Head(queue))
    /\ queue' = Tail(queue)
    /\ wpc' = [wpc EXCEPT ![w] = "task"]
    /\ UNCHANGED <<running, started, rpc, stop, submitted, aborted>>
TakeTaskLast(w) ==
    /\ wpc[w] = "take"
    /\ queue # <<>>
    /\ taken' = Append(taken, queue[Len(queue)])
    /\ queue' = SubSeq(queue, 1, Len(queue) - 1)
    /\ rpc' \in IF MaxQueueSize > 0 THEN Notify(rpc, "run") ELSE {rpc}
    /\ wpc' = [wpc EXCEPT ![w] = "task"]
    /\ UNCHANGED <<running, started, stop, submitted, aborted>>

\* A task is taken also after stop().
TakeTask(w) ==
    /\ wpc[w] = "take"
    /\ queue # <<>>
    /\ taken' = Append(taken, Head(queue))
    /\ queue' = Tail(queue)
    /\ rpc' \in IF MaxQueueSize > 0 THEN Notify(rpc, "run") ELSE {rpc}
    /\ wpc' = [wpc EXCEPT ![w] = "task"]
    /\ UNCHANGED <<running, started, stop, submitted, aborted>>

TakeNothing(w) ==
    /\ wpc[w] = "take"
    /\ queue = <<>> /\ ~running
    /\ wpc' = [wpc EXCEPT ![w] = "test"]
    /\ UNCHANGED <<running, started, queue, rpc, stop, submitted, taken, aborted>>

TaskDone(w) ==
    /\ wpc[w] = "task" /\ rpc[w] = "idle"
    /\ wpc' = [wpc EXCEPT ![w] = "test"]
    /\ UNCHANGED <<running, started, queue, rpc, stop, submitted, taken, aborted>>

\* The catch clauses of runInThread end the process.
TaskThrows(w) ==
    /\ wpc[w] = "task" /\ rpc[w] = "idle"
    /\ aborted' = TRUE
    /\ UNCHANGED <<running, started, queue, wpc, rpc, stop, submitted, taken>>

\* pthread_cond_wait may return without a notify.
SpuriousWakeup ==
    \/ /\ \E w \in Workers : wpc[w] = "asleep" /\ wpc' = [wpc EXCEPT ![w] = "take"]
       /\ UNCHANGED <<running, started, queue, rpc, stop, submitted, taken, aborted>>
    \/ /\ \E t \in Threads : rpc[t] = "asleep" /\ rpc' = [rpc EXCEPT ![t] = "run"]
       /\ UNCHANGED <<running, started, queue, wpc, stop, submitted, taken, aborted>>

WorkerStep(w) ==
    \/ TestRunning(w) \/ TakeWait(w) \/ TakeTask(w) \/ TakeNothing(w) \/ TaskDone(w)

RunStep(t) == RunWait(t) \/ RunPush(t)

Next ==
    /\ ~aborted
    /\ \/ Start \/ StopCall \/ StopJoined \/ SpuriousWakeup
       \/ \E c \in Callers : RunInline(c)
       \/ \E t \in Threads : RunCall(t) \/ RunStep(t)
       \/ \E w \in Workers : WorkerStep(w) \/ TaskThrows(w)

Spec == Init /\ [][Next]_vars

\* The workers and the threads inside run and stop get to run, and tasks end.
FairSpec ==
    /\ Spec
    /\ WF_vars(~aborted /\ StopJoined)
    /\ \A t \in Threads : WF_vars(~aborted /\ RunStep(t))
    /\ \A w \in Workers : WF_vars(~aborted /\ WorkerStep(w))

-----------------------------------------------------------------------------
\* Every task is handed to one worker, in the order run has queued them.
TakenInOrder == [i \in 1 .. submitted |-> i] = taken \o queue

AsleepIn(pc) == {t \in DOMAIN pc : pc[t] = "asleep"}

\* No notify gets lost: while a worker sleeps on notEmpty_, each task in the
\* queue has a worker of its own on its way through take; while a thread in
\* run sleeps on notFull_, each free place has a thread of its own on its way
\* through run; although others overtake them and wakeups are spurious.  The
\* queue never exceeds setMaxQueueSize.
NoLostNotify ==
    /\ AsleepIn(wpc) # {} => Len(queue) <= Cardinality({w \in Workers : wpc[w] = "take"})
    /\ AsleepIn(rpc) # {} =>
           MaxQueueSize - Len(queue) <= Cardinality({t \in Threads : rpc[t] = "run"})
    /\ MaxQueueSize > 0 => Len(queue) <= MaxQueueSize

\* Workers whose tasks wait for room in a full queue.
Held == {w \in Workers : rpc[w] # "idle" /\ isFull}

\* Nobody is left to take a task.
Jammed == Held = Workers

Over == ~running \/ aborted

\* A task in the queue is taken, unless the pool is stopped first or jammed.
TaskRuns == \A i \in 1 .. MaxTasks : i <= submitted ~> i <= Len(taken) \/ Over \/ Jammed

\* A run that blocks on a full queue gets its task in when no others call run
\* again and again, unless the pool is jammed or stopped: stop does not wake it.
RunReturns == \A t \in Threads : rpc[t] # "idle" ~> rpc[t] = "idle" \/ Over \/ Jammed

\* stop() returns, whatever the workers were doing: it wakes every one that
\* waits for a task.  Only a worker whose task waits in run holds it up.
StopReturns ==
    stop = "joining" ~> stop = "done" \/ aborted \/ Held # {}
=============================================================================
