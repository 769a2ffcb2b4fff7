----------------------------- MODULE TimerQueue -----------------------------
(* muduo/net/TimerQueue.cc: the timers of an event loop.  Two sets of raw    *)
(* pointers index the same Timer objects, a timerfd wakes the loop for the   *)
(* earliest one, and callbacks may add and cancel timers while the batch of  *)
(* expired ones is being called.  Other threads reach the queue through      *)
(* pendingFunctors_, a FIFO queue (see EventLoop); addTimer reads the        *)
(* sequence number of its Timer after it has handed it over.                 *)
(* Expirations are wall-clock times, the timerfd counts CLOCK_MONOTONIC: it  *)
(* may become readable before the wall clock reaches the expiration.         *)
EXTENDS Integers, Sequences

CONSTANTS
    Threads,    \* the threads other than the loop's
    Addrs,      \* bound: the addresses operator new hands out, a set of numbers
    MaxTimers,  \* bound: how many timers are created
    MaxTime,    \* bound: the last time
    MaxPending, \* bound: how many calls wait for the loop
    Interval    \* the interval of the timers that repeat

ASSUME TimerAssumption ==
    /\ Addrs \subseteq Nat \ {0}
    /\ {MaxTimers, MaxTime, MaxPending} \subseteq Nat
    /\ Interval \in Nat \ {0}

VARIABLES
    now,        \* the wall clock
    heap,       \* heap[a]: the Timer at address a, Free when there is none
    timers,     \* timers_: pairs of an expiration and an address
    active,     \* activeTimers_: pairs of an address and a sequence number
    canceling,  \* cancelingTimers_
    expired,    \* the timers in the local vector of handleRead, as addresses
    todo,       \* those of them whose callbacks are still to be called
    asof,       \* the local now of handleRead
    alarm,      \* when the timerfd goes off, 0 when it is disarmed
    ready,      \* the timerfd is readable
    reported,   \* the poll has reported it and handleRead is still to run
    lpc,        \* where the loop thread is
    pending,    \* pendingFunctors_: the calls for the loop
    batch,      \* how many of them doPendingFunctors has still to call
    opc,        \* opc[t]: the Timer whose sequence addTimer of t has still to read
    ids,        \* the TimerIds the users hold; own is the timer each was made for
    created,    \* s_numCreated_
    ran,        \* history: the timers that were called
    asked,      \* history: the timers cancel was called for
    cancelled,  \* history: the timers whose cancel has reached the loop
    stray       \* history: a sequence was read after its Timer was deleted

loopVars == <<lpc, batch, pending>>
callVars == <<expired, todo, asof>>
userVars == <<opc, ids>>
vars == <<now, heap, timers, active, canceling, callVars, alarm, ready, reported,
          loopVars, userVars, created, ran, asked, cancelled, stray>>

Free == [seq |-> 0, expiration |-> 0, interval |-> 0]
None == [timer |-> 0, seq |-> 0]
Live(a) == heap[a] # Free

Init ==
    /\ now = 1
    /\ heap = [a \in Addrs |-> Free]
    /\ timers = {} /\ active = {} /\ canceling = {}
    /\ expired = {} /\ todo = {} /\ asof = 0
    /\ alarm = 0 /\ ready = FALSE /\ reported = FALSE
    /\ lpc = "poll" /\ pending = <<>> /\ batch = 0
    /\ opc = [t \in Threads |-> None] /\ ids = {}
    /\ created = 0
    /\ ran = {} /\ asked = {} /\ cancelled = {} /\ stray = FALSE

-----------------------------------------------------------------------------
\* std::set orders the entries by expiration, then by address.
Before(e, f) == e[1] < f[1] \/ (e[1] = f[1] /\ e[2] < f[2])

Earliest(entries) == CHOOSE e \in entries : \A f \in entries \ {e} : Before(e, f)

\* resetTimerfd: a time that has passed becomes the next moment; setting the
\* timerfd clears what it had to report.
ResetTimerfd(expiration) ==
    /\ alarm' = IF expiration < now THEN now ELSE expiration
    /\ ready' = FALSE

\* An insert that never sees a new earliest timer behind an old one.
EarliestOnlyFirst(timer) == timers = {}

\* What insert returns: the timer comes before all others.
EarliestChanged(timer) == \A e \in timers : timer.expiration < e[1]

\* addTimerInLoop with insert, for the timer at address a
AddTimerInLoop(a, timer) ==
    /\ timers' = timers \cup {<<timer.expiration, a>>}
    /\ active' = active \cup {<<a, timer.seq>>}
    /\ IF EarliestChanged(timer)
       THEN ResetTimerfd(timer.expiration)
       ELSE UNCHANGED <<alarm, ready>>

Entry(a) == <<heap[a].expiration, a>>

Found(id) == <<id.timer, id.seq>> \in active

\* A cancelInLoop that deletes a timer whose batch is being called.
CancelInLoopDeletes(id) ==
    /\ timers' = timers \ {Entry(id.timer)}
    /\ active' = {entry \in active : entry[1] # id.timer}
    /\ heap' = [heap EXCEPT ![id.timer] = IF heap[id.timer].seq = id.seq THEN Free ELSE @]
    /\ UNCHANGED <<canceling, alarm, ready>>

\* cancelInLoop; callingExpiredTimers_ is set while the loop is at "call".
CancelInLoop(id) ==
    /\ IF Found(id)
       THEN /\ timers' = timers \ {Entry(id.timer)}
            /\ active' = {entry \in active : entry[1] # id.timer}
            /\ heap' = [heap EXCEPT ![id.timer] = Free]
            /\ UNCHANGED canceling
       ELSE /\ canceling' = IF lpc = "call" THEN canceling \cup {<<id.timer, id.seq>>}
                                            ELSE canceling
            /\ UNCHANGED <<timers, active, heap>>
    /\ UNCHANGED <<alarm, ready>>

\* The constructor of Timer, at address a
NewTimer(a, timer) ==
    /\ created < MaxTimers
    /\ ~Live(a)
    /\ created' = created + 1
    /\ timer.seq = created + 1
    /\ heap' = [heap EXCEPT ![a] = timer]

-----------------------------------------------------------------------------
Tick ==
    /\ now < MaxTime
    /\ now' = now + 1
    /\ UNCHANGED <<heap, timers, active, canceling, callVars, alarm, ready, reported,
                   loopVars, userVars, created, ran, asked, cancelled, stray>>

\* The timerfd goes off, perhaps before the wall clock says so.
Alarm ==
    /\ alarm # 0
    /\ alarm' = 0
    /\ ready' = TRUE
    /\ UNCHANGED <<now, heap, timers, active, canceling, callVars, reported,
                   loopVars, userVars, created, ran, asked, cancelled, stray>>

Poll ==
    /\ lpc = "poll"
    /\ reported' = ready
    /\ lpc' = "handle"
    /\ UNCHANGED <<now, heap, timers, active, canceling, callVars, alarm, ready, batch,
                   pending, userVars, created, ran, asked, cancelled, stray>>

\* getExpired: what is due, in the order of the set.
Due == {e \in timers : e[1] <= now}

\* handleRead up to the callbacks, with readTimerfd and getExpired
HandleRead ==
    /\ lpc = "handle" /\ reported
    /\ reported' = FALSE
    /\ asof' = now
    /\ ready' = FALSE
    /\ expired' = {e[2] : e \in Due}
    /\ todo' = expired'
    /\ timers' = timers \ Due
    /\ active' = active \ {<<e[2], heap[e[2]].seq>> : e \in Due}
    /\ canceling' = {}
    /\ lpc' = "call"
    /\ UNCHANGED <<now, heap, alarm, batch, pending, userVars, created, ran, asked,
                   cancelled, stray>>

\* The callback of the next expired timer begins, in the order of the set.
Run ==
    /\ lpc = "call" /\ todo # {}
    /\ LET a == Earliest({Entry(b) : b \in todo})[2]
       IN  /\ ran' = ran \cup {heap[a].seq}
           /\ todo' = todo \ {a}
    /\ UNCHANGED <<now, heap, timers, active, canceling, expired, asof, alarm, ready,
                   reported, loopVars, userVars, created, asked, cancelled, stray>>

\* A reset that does not look at cancelingTimers_.
RestartsAlways(a) == heap[a].interval > 0

\* reset restarts a timer that repeats and was not cancelled meanwhile, and
\* deletes the others.
Restarts(a) == heap[a].interval > 0 /\ <<a, heap[a].seq>> \notin canceling

\* A reset that sets the timerfd only when a timer was restarted.
RearmRestarted(left) == {a \in expired : Restarts(a)} # {}

Rearm(left) == left # {}

\* The end of handleRead: reset
Reset ==
    /\ lpc = "call" /\ todo = {}
    /\ LET again == {a \in expired : Restarts(a)}
           left == timers \cup {<<asof + heap[a].interval, a>> : a \in again}
       IN  /\ heap' = [a \in Addrs |->
                 IF a \in again THEN [heap[a] EXCEPT !.expiration = asof + heap[a].interval]
                 ELSE IF a \in expired THEN Free ELSE heap[a]]
           /\ timers' = left
           /\ active' = active \cup {<<a, heap[a].seq>> : a \in again}
           /\ IF Rearm(left) THEN ResetTimerfd(Earliest(left)[1]) ELSE UNCHANGED <<alarm, ready>>
    /\ expired' = {} /\ asof' = 0
    /\ lpc' = "handle"
    /\ UNCHANGED <<now, canceling, todo, reported, batch, pending, userVars, created, ran,
                   asked, cancelled, stray>>

\* The handlers are done; doPendingFunctors takes what is pending.
SwapFunctors ==
    /\ lpc = "handle" /\ ~reported
    /\ lpc' = "functors"
    /\ batch' = Len(pending)
    /\ UNCHANGED <<now, heap, timers, active, canceling, callVars, alarm, ready, reported,
                   pending, userVars, created, ran, asked, cancelled, stray>>

RunFunctor ==
    /\ lpc = "functors" /\ batch > 0
    /\ batch' = batch - 1
    /\ pending' = Tail(pending)
    /\ LET call == Head(pending)
       IN  \/ /\ call.op = "add"
              /\ AddTimerInLoop(call.id.timer, heap[call.id.timer])
              /\ UNCHANGED <<heap, canceling, cancelled>>
           \/ /\ call.op = "cancel"
              /\ CancelInLoop(call.id)
              /\ cancelled' = cancelled \cup {call.id.own}
    /\ UNCHANGED <<now, callVars, reported, lpc, userVars, created, ran, asked, stray>>

FunctorsDone ==
    /\ lpc = "functors" /\ batch = 0
    /\ lpc' = "poll"
    /\ UNCHANGED <<now, heap, timers, active, canceling, callVars, alarm, ready, reported,
                   batch, pending, userVars, created, ran, asked, cancelled, stray>>

-----------------------------------------------------------------------------
\* User code runs in the loop thread: a handler, a functor, or the callback
\* of a timer.
InUserCode ==
    \/ lpc \in {"handle", "functors"}
    \/ lpc = "call" /\ todo # expired

Timers == [seq : 1 .. MaxTimers, expiration : 1 .. MaxTime, interval : {0, Interval}]

TimerId(a, seq, own) == [timer |-> a, seq |-> seq, own |-> own]

\* addTimer of the loop's thread: runInLoop calls addTimerInLoop at once.
AddTimer(a, timer) ==
    /\ InUserCode
    /\ NewTimer(a, timer)
    /\ AddTimerInLoop(a, timer)
    /\ ids' = ids \cup {TimerId(a, timer.seq, timer.seq)}
    /\ UNCHANGED <<now, canceling, callVars, reported, loopVars, opc, ran, asked,
                   cancelled, stray>>

\* cancel of the loop's thread.  The timer's own addTimerInLoop may still be
\* pending: then nothing is found and nothing is cancelled.
Cancel(id) ==
    /\ InUserCode
    /\ CancelInLoop(id)
    /\ asked' = asked \cup {id.own}
    /\ cancelled' = IF \E i \in 1 .. Len(pending) : pending[i].id.own = id.own
                    THEN cancelled ELSE cancelled \cup {id.own}
    /\ UNCHANGED <<now, callVars, reported, loopVars, userVars, created, ran, stray>>

\* runInLoop of another thread
Queue(op, id) ==
    /\ Len(pending) < MaxPending
    /\ pending' = Append(pending, [op |-> op, id |-> id])

\* addTimer of another thread up to the return of runInLoop
AddTimerOther(t, a, timer) ==
    /\ opc[t] = None /\ lpc # "gone"
    /\ NewTimer(a, timer)
    /\ Queue("add", TimerId(a, timer.seq, timer.seq))
    /\ opc' = [opc EXCEPT ![t] = [timer |-> a, seq |-> timer.seq]]
    /\ UNCHANGED <<now, timers, active, canceling, callVars, alarm, ready, reported, lpc,
                   batch, ids, ran, asked, cancelled, stray>>

\* ... and its last line, timer->sequence().  The loop may have called and
\* deleted the timer by then, and another may have taken its place.
ReadSequence(t) ==
    /\ opc[t] # None
    /\ LET a == opc[t].timer
       IN  \E seq \in IF Live(a) THEN {heap[a].seq} ELSE {0, opc[t].seq} :
               /\ ids' = ids \cup {TimerId(a, seq, opc[t].seq)}
               /\ stray' = (stray \/ heap[a].seq # opc[t].seq)
    /\ opc' = [opc EXCEPT ![t] = None]
    /\ UNCHANGED <<now, heap, timers, active, canceling, callVars, alarm, ready, reported,
                   loopVars, created, ran, asked, cancelled>>

\* cancel of another thread
CancelOther(t, id) ==
    /\ opc[t] = None /\ lpc # "gone"
    /\ Queue("cancel", id)
    /\ asked' = asked \cup {id.own}
    /\ UNCHANGED <<now, heap, timers, active, canceling, callVars, alarm, ready, reported,
                   lpc, batch, userVars, created, ran, cancelled, stray>>

\* The loop has ended and is destroyed with its TimerQueue: the destructor
\* deletes the timers in timers_, not those whose addTimerInLoop is pending.
Destroy ==
    /\ lpc = "functors" /\ batch = 0
    /\ \A t \in Threads : opc[t] = None
    /\ heap' = [a \in Addrs |-> IF \E e \in timers : e[2] = a THEN Free ELSE heap[a]]
    /\ lpc' = "gone" /\ timers' = {} /\ active' = {} /\ alarm' = 0 /\ ready' = FALSE
    /\ UNCHANGED <<now, canceling, callVars, reported, batch, pending, userVars, created,
                   ran, asked, cancelled, stray>>

LoopStep == HandleRead \/ Run \/ Reset \/ SwapFunctors \/ RunFunctor \/ FunctorsDone

User ==
    \/ \E a \in Addrs, timer \in Timers :
           AddTimer(a, timer) \/ \E t \in Threads : AddTimerOther(t, a, timer)
    \/ \E id \in ids : Cancel(id) \/ \E t \in Threads : CancelOther(t, id)
    \/ \E t \in Threads : ReadSequence(t)

Next == Tick \/ Alarm \/ Poll \/ LoopStep \/ User \/ Destroy

Spec == Init /\ [][Next]_vars

\* Time passes, the timerfd goes off when its time has come, and the loop
\* thread runs until the loop is destroyed; a poll returns when something is
\* readable or a functor waits (EventLoop shows that it is woken).
FairSpec ==
    /\ Spec
    /\ WF_vars(Tick)
    /\ WF_vars(Alarm /\ now >= alarm)
    /\ WF_vars(Poll /\ (ready \/ pending # <<>>))
    /\ WF_vars(LoopStep)

-----------------------------------------------------------------------------
\* Every pointer the queue and the loop hold is to a live Timer with the
\* expiration and the sequence number that go with it: both sets index the
\* same timers, and nothing is deleted while it is expired or still to be
\* added (the assertions on the sizes, :146 and :160, and more).
NoDangling ==
    /\ timers = {Entry(e[2]) : e \in timers}
    /\ active = {<<e[2], heap[e[2]].seq>> : e \in timers}
    /\ \A e \in timers : Live(e[2]) /\ e[2] \notin expired
    /\ \A a \in expired : Live(a)
    /\ lpc # "gone" => \A i \in 1 .. Len(pending) :
           pending[i].op = "add" => /\ heap[pending[i].id.timer].seq = pending[i].id.own
                                    /\ pending[i].id.timer \notin expired

\* Outside the callbacks the timerfd goes off no later than the earliest timer
\* expires, or has gone off: no add, cancel or restart leaves a timer asleep.
AlarmCovers ==
    lpc # "call" /\ timers # {} =>
        \/ ready \/ reported
        \/ alarm # 0 /\ \A e \in timers : alarm <= e[1] \/ alarm <= now

\* Cancelling is exact, although it meets expiry, addresses are used again
\* and TimerIds outlive timers: a timer whose cancel has reached the loop is
\* not queued any more and only finishes the batch it is in, and one that is
\* gone without having been called was cancelled with its own TimerId.  The
\* exception is a TimerId that addTimer made from a deleted Timer.
CancelsExactly ==
    ~stray =>
        /\ \A entry \in active : entry[2] \notin cancelled
        /\ lpc # "gone" =>
              \A seq \in 1 .. created : (\A a \in Addrs : heap[a].seq # seq) => seq \in ran \cup asked

\* A timer is called once its time has come, unless it was cancelled.
TimerRuns ==
    \A seq \in 1 .. MaxTimers :
        seq <= created ~> seq \in ran \cup asked \/ lpc = "gone" \/ stray
=============================================================================
