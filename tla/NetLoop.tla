------------------------------ MODULE NetLoop -------------------------------
(* What the connections of muduo/net see of their EventLoop (the module      *)
(* EventLoop models the loop itself): poll returns, handlers run for sources *)
(* that were registered before it, then the functors pending by then run in  *)
(* order.  asserts are compiled in: one that fails ends the process.         *)
EXTENDS Integers, Sequences

VARIABLES
    phase,      \* where loop() is: "handle" after a poll, then "functors"
    seen,       \* the sources registered when poll was called, not yet handled
    pending,    \* pendingFunctors_, behind those doPendingFunctors has taken
    batch,      \* how many doPendingFunctors has taken and not yet called
    rest        \* what remains of the handler or functor that is running

netVars == <<phase, seen, pending, batch, rest>>

Idle == [do |-> "nothing", conn |-> 0]
Abort == [do |-> "abort", conn |-> 0]
Aborted == rest = Abort

\* fs is pending when the loop starts.
NetInit(fs) ==
    /\ phase = "functors" /\ batch = 0
    /\ seen = {}
    /\ pending = fs
    /\ rest = Idle

\* The functors are done and poll is called with these sources registered.
Poll(registered) ==
    /\ phase = "functors" /\ rest = Idle /\ batch = 0
    /\ phase' = "handle"
    /\ seen' = registered
    /\ UNCHANGED <<pending, batch, rest>>

\* The handler of a source runs, once after each poll.
Handles(s) ==
    /\ phase = "handle" /\ rest = Idle
    /\ s \in seen
    /\ seen' = seen \ {s}
    /\ UNCHANGED <<phase, batch>>

\* The handlers are done; doPendingFunctors takes what is pending.
SwapFunctors ==
    /\ phase = "handle" /\ rest = Idle
    /\ phase' = "functors"
    /\ seen' = {}
    /\ batch' = Len(pending)
    /\ UNCHANGED <<pending, rest>>

\* The next functor is one that does op; it queues more behind the others.
Calls(op, more) ==
    /\ phase = "functors" /\ rest = Idle
    /\ batch > 0 /\ Head(pending).op = op
    /\ batch' = batch - 1
    /\ pending' = Tail(pending) \o more
    /\ UNCHANGED <<phase, seen>>

\* Callbacks of the user run in the loop's thread, the one that reports a
\* connection down among them.
InUserCode == rest.do \in {"nothing", "closeCallback"}
=============================================================================
