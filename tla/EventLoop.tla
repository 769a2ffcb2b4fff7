----------------------------- MODULE EventLoop ------------------------------
(* muduo/net/EventLoop.cc: one thread polls, handles events and runs the   *)
(* functors that itself and other threads have queued; an eventfd wakes it *)
(* from its poll.  The section under mutex_ and the write to the eventfd   *)
(* are separate steps of the other threads.  Functors are numbered in the  *)
(* order they are queued.                                                  *)
EXTENDS Integers, Sequences

CONSTANTS
    Others,     \* the threads other than the loop's
    MaxQueued   \* bound: how many functors are queued

ASSUME QueuedAssumption == MaxQueued \in Nat

VARIABLES
    lpc,        \* where the loop thread is
    quit,       \* quit_
    calling,    \* callingPendingFunctors_
    pending,    \* pendingFunctors_
    functors,   \* the local vector of doPendingFunctors
    armed,      \* wakeupFd_ is readable
    woken,      \* the poll has reported wakeupFd_ and handleRead is still to run
    opc,        \* opc[t]: "wakeup" while t has still to write to wakeupFd_
    queued,     \* history: how many functors were queued
    early,      \* history: those the loop's own thread queued before loop()
    executed    \* history: the functors that were called

loopVars == <<lpc, quit, calling, pending, functors, armed, woken, opc, queued, early, executed>>

LoopInit ==
    /\ lpc = "out"
    /\ quit = FALSE /\ calling = FALSE
    /\ pending = <<>> /\ functors = <<>>
    /\ armed = FALSE /\ woken = FALSE
    /\ opc = [t \in Others |-> "idle"]
    /\ queued = 0 /\ early = {} /\ executed = <<>>

-----------------------------------------------------------------------------
\* Queueing in front of the functors that are there.
PushedFront == <<queued + 1>> \o pending

\* pendingFunctors_.push_back
Pushed == Append(pending, queued + 1)

Push ==
    /\ queued < MaxQueued
    /\ pending' = Pushed
    /\ queued' = queued + 1

\* A queueInLoop that never wakes its own thread.
WakesItselfNever == FALSE

\* The loop thread needs a wakeup only for what a functor has queued: after
\* the handlers doPendingFunctors runs anyway.
WakesItself == calling

\* queueInLoop of the loop's own thread.
QueueInLoopThread ==
    /\ Push
    /\ armed' = (armed \/ WakesItself)

\* ... before it calls loop(): nothing wakes the first poll.
QueueEarly ==
    /\ lpc = "out"
    /\ QueueInLoopThread
    /\ early' = early \cup {queued + 1}
    /\ UNCHANGED <<lpc, quit, calling, functors, woken, opc, executed>>

\* queueInLoop of another thread: the section under the lock.
QueueInLoop(t) ==
    /\ opc[t] = "idle"
    /\ Push
    /\ opc' = [opc EXCEPT ![t] = "wakeup"]
    /\ UNCHANGED <<lpc, quit, calling, functors, armed, woken, early, executed>>

\* A quit that does not wake the loop.
QuitQuietly(t) ==
    /\ opc[t] = "idle"
    /\ quit' = TRUE
    /\ UNCHANGED <<lpc, calling, pending, functors, armed, woken, opc, queued, early, executed>>

\* quit of another thread: quit_ = true, then the wakeup.
Quit(t) ==
    /\ opc[t] = "idle"
    /\ quit' = TRUE
    /\ opc' = [opc EXCEPT ![t] = "wakeup"]
    /\ UNCHANGED <<lpc, calling, pending, functors, armed, woken, queued, early, executed>>

\* wakeup() of another thread
Wakeup(t) ==
    /\ opc[t] = "wakeup"
    /\ armed' = TRUE
    /\ opc' = [opc EXCEPT ![t] = "idle"]
    /\ UNCHANGED <<lpc, quit, calling, pending, functors, woken, queued, early, executed>>

-----------------------------------------------------------------------------
\* loop() forgets a quit() that came before it.
LoopCall ==
    /\ lpc = "out"
    /\ quit' = FALSE
    /\ lpc' = "while"
    /\ UNCHANGED <<calling, pending, functors, armed, woken, opc, queued, early, executed>>

LoopTest ==
    /\ lpc = "while"
    /\ lpc' = IF quit THEN "stopped" ELSE "poll"
    /\ UNCHANGED <<quit, calling, pending, functors, armed, woken, opc, queued, early, executed>>

\* The poll returns for the eventfd, other events or its timeout.
PollReturn ==
    /\ lpc = "poll"
    /\ woken' = armed
    /\ lpc' = "handle"
    /\ UNCHANGED <<quit, calling, pending, functors, armed, opc, queued, early, executed>>

HandleRead ==
    /\ lpc = "handle" /\ woken
    /\ armed' = FALSE
    /\ woken' = FALSE
    /\ UNCHANGED <<lpc, quit, calling, pending, functors, opc, queued, early, executed>>

\* The handler of another channel queues a functor or calls quit.
HandleEvent ==
    /\ lpc = "handle"
    /\ \/ QueueInLoopThread /\ UNCHANGED quit
       \/ quit' = TRUE /\ UNCHANGED <<pending, queued, armed>>
    /\ UNCHANGED <<lpc, calling, functors, woken, opc, early, executed>>

HandleDone ==
    /\ lpc = "handle" /\ ~woken
    /\ lpc' = "pending"
    /\ UNCHANGED <<quit, calling, pending, functors, armed, woken, opc, queued, early, executed>>

\* doPendingFunctors up to the end of the critical section
SwapFunctors ==
    /\ lpc = "pending"
    /\ calling' = TRUE
    /\ functors' = pending
    /\ pending' = <<>>
    /\ lpc' = "run"
    /\ UNCHANGED <<quit, armed, woken, opc, queued, early, executed>>

\* A functor may queue another one or call quit.
RunFunctor ==
    /\ lpc = "run" /\ functors # <<>>
    /\ executed' = Append(executed, Head(functors))
    /\ functors' = Tail(functors)
    /\ \/ UNCHANGED <<quit, pending, queued, armed>>
       \/ QueueInLoopThread /\ UNCHANGED quit
       \/ quit' = TRUE /\ UNCHANGED <<pending, queued, armed>>
    /\ UNCHANGED <<lpc, calling, woken, opc, early>>

RunDone ==
    /\ lpc = "run" /\ functors = <<>>
    /\ calling' = FALSE
    /\ lpc' = "while"
    /\ UNCHANGED <<quit, pending, functors, armed, woken, opc, queued, early, executed>>

LoopStep ==
    \/ LoopTest \/ HandleRead \/ HandleDone
    \/ SwapFunctors \/ RunFunctor \/ RunDone

LoopNext ==
    \/ QueueEarly \/ LoopCall \/ LoopStep \/ PollReturn \/ HandleEvent
    \/ \E t \in Others : QueueInLoop(t) \/ Quit(t) \/ Wakeup(t)

LoopSpec == LoopInit /\ [][LoopNext]_loopVars

\* loop() is called, its thread and threads inside queueInLoop and quit run,
\* and a poll returns when the eventfd is readable, but perhaps not otherwise.
LoopFairSpec ==
    /\ LoopSpec
    /\ WF_loopVars(LoopCall)
    /\ WF_loopVars(LoopStep)
    /\ WF_loopVars(PollReturn /\ armed)
    /\ \A t \in Others : WF_loopVars(Wakeup(t))

-----------------------------------------------------------------------------
Types ==
    /\ lpc \in {"out", "while", "poll", "handle", "pending", "run", "stopped"}
    /\ quit \in BOOLEAN /\ calling \in BOOLEAN
    /\ pending \in Seq(Nat) /\ functors \in Seq(Nat)
    /\ armed \in BOOLEAN /\ woken \in BOOLEAN
    /\ opc \in [Others -> {"idle", "wakeup"}]
    /\ queued \in Nat /\ early \subseteq Nat
    /\ executed \in Seq(Nat)

\* The types of the fields; no more functors are called than were queued.
TypeOK == Types /\ Len(executed) <= queued

\* Somebody has woken the loop or is about to.
Waking == armed \/ \E t \in Others : opc[t] = "wakeup"

\* What waits for the loop and should not have to wait for the poll's timeout.
Urgent == \E i \in 1 .. Len(pending) : pending[i] \notin early

\* The loop never blocks in its poll over a functor that was queued or a quit
\* that was called without a wakeup on its way, wherever the queueing thread
\* was interrupted and also when the functor was queued by a functor.  Only
\* what its own thread has queued before loop() may wait for the timeout.
NoSleepWithWork == lpc = "poll" /\ (Urgent \/ quit) => Waking

\* Why: outside the stretch from the poll's return to the swap of the
\* functors, whatever is pending has a wakeup of its own, and the read of the
\* eventfd lies in that stretch.
WakeupInv ==
    /\ lpc \in {"out", "while", "poll", "run"} /\ Urgent => Waking
    /\ lpc = "poll" /\ quit => Waking
    /\ woken => lpc = "handle"
    /\ calling <=> lpc = "run"

\* Every functor is called once, in the order they were queued.
QueuedOrder == [i \in 1 .. queued |-> i] = executed \o functors \o pending

\* A functor that was queued is called, without help from the poll's timeout,
\* unless the loop ends first.
FunctorRuns ==
    \A i \in 1 .. MaxQueued :
        i <= queued /\ i \notin early ~> (i <= Len(executed) \/ lpc = "stopped")

\* A quit that comes after loop() has begun ends the loop.
QuitStops == quit /\ lpc # "out" ~> lpc = "stopped"
=============================================================================
