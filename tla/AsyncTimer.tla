----------------------------- MODULE AsyncTimer -----------------------------
(* cppBase/utility/AsyncTimer: periodic tasks (addTimer) and delayed tasks *)
(* (addAfter) by name, fired by a detached loop thread once a second.  The *)
(* sections under _mut are single actions; reading the clock before the    *)
(* lock, the callbacks after it and the sleep are steps of their own.      *)
(* Times are relative to the clock: 0 is the present second and a tick     *)
(* moves every time back by one, down to -MaxLag.                          *)
EXTENDS Integers, FiniteSets

CONSTANTS
    Names,      \* event names
    Users,      \* threads that add and delete events
    Loops,      \* bound: the loop threads that start() may create
    Delays,     \* intervals and waits in seconds
    MaxLag,     \* bound: a thread uses a time it read at most MaxLag seconds ago
    MaxRegs,    \* bound: how many events are added
    None

ASSUME DelayAssumption == Delays \subseteq Nat \ {0}
ASSUME BoundAssumption == MaxLag \in Nat \ {0} /\ MaxRegs \in Nat

VARIABLES
    start,      \* _start
    timers,     \* _timers; an entry has a time, a name and an id it keeps when inserted again
    events,     \* _events[n], a WaitEvent with its number and its next time, or None
    call,       \* call[c]: the event a caller has read the clock for, or None
    pc,         \* pc[l]: where loop thread l is
    at,         \* at[l]: the second l has read, st.tv_sec
    due,        \* due[l]: the entries whose callbacks l still has to run
    regs,       \* how many events were added
    reused      \* history: the names added again before all traces of them were gone

timerVars == <<start, timers, events, call, pc, at, due, regs, reused>>

Regs == 1 .. MaxRegs

TimerInit ==
    /\ start = FALSE
    /\ timers = {}
    /\ events = [n \in Names |-> None]
    /\ call = [c \in Users |-> None]
    /\ pc = [l \in Loops |-> "none"]
    /\ at = [l \in Loops |-> 0]
    /\ due = [l \in Loops |-> {}]
    /\ regs = 0
    /\ reused = {}

-----------------------------------------------------------------------------
\* The interface.

\* start() does not look at _start: each call creates a loop.
StartLoop ==
    /\ start' = TRUE
    /\ \E l \in Loops : pc[l] = "none" /\ pc' = [pc EXCEPT ![l] = "top"]
    /\ UNCHANGED <<timers, events, call, at, due, regs, reused>>

Stop ==
    /\ start' = FALSE
    /\ UNCHANGED <<timers, events, call, pc, at, due, regs, reused>>

\* No event, no stale entry and no call under way has this name.
Unused(n) ==
    /\ events[n] = None
    /\ \A e \in timers : e.name # n
    /\ \A c \in Users : call[c] # None => call[c].name # n

\* addTimer and addAfter: int64_t now = time(NULL), before the lock.
AddCall(c, n, isTimer, delay) ==
    /\ call[c] = None
    /\ regs + Cardinality({d \in Users : call[d] # None}) < MaxRegs
    /\ reused' = IF Unused(n) THEN reused ELSE reused \cup {n}
    /\ call' = [call EXCEPT ![c] = [name |-> n, isTimer |-> isTimer, delay |-> delay, now |-> 0]]
    /\ UNCHANGED <<start, timers, events, pc, at, due, regs>>

\* ... and the section under the lock: the old event of that name is
\* replaced, its entries in _timers stay.
AddCommit(c) ==
    /\ call[c] # None
    /\ LET r == call[c]
           when == r.now + r.delay
       IN  /\ events' = [events EXCEPT ![r.name] =
                           [isTimer |-> r.isTimer, interval |-> IF r.isTimer THEN r.delay ELSE 0,
                            next |-> when, reg |-> regs + 1]]
           /\ timers' = timers \cup {[time |-> when, name |-> r.name, id |-> regs + 1]}
    /\ regs' = regs + 1
    /\ call' = [call EXCEPT ![c] = None]
    /\ UNCHANGED <<start, pc, at, due, reused>>

\* delTimer and delAfter: the entry in _timers stays.
Del(n) ==
    /\ events[n] # None
    /\ events' = [events EXCEPT ![n] = None]
    /\ UNCHANGED <<start, timers, call, pc, at, due, regs, reused>>

-----------------------------------------------------------------------------
\* The loop thread.

LoopTop(l) ==
    /\ pc[l] = "top"
    /\ at' = [at EXCEPT ![l] = 0]
    /\ pc' = [pc EXCEPT ![l] = "check"]
    /\ UNCHANGED <<start, timers, events, call, due, regs, reused>>

\* A loop that does not look at _start.
CheckStoppedIgnored(l) ==
    /\ pc[l] = "check"
    /\ ~start
    /\ pc' = [pc EXCEPT ![l] = "run"]
    /\ UNCHANGED <<start, timers, events, call, at, due, regs, reused>>

CheckStopped(l) ==
    /\ pc[l] = "check"
    /\ ~start
    /\ pc' = [pc EXCEPT ![l] = "done"]
    /\ UNCHANGED <<start, timers, events, call, at, due, regs, reused>>

\* The entries check() takes from the head of _timers, up to its second.
Expired(l) == {e \in timers : e.time <= at[l] /\ events[e.name] # None}

\* A periodic event that is not inserted again, or without its interval.
ReinsertedNot(l) == {}
ReinsertedAtOnce(l) ==
    {[e EXCEPT !.time = at[l] + 1] : e \in {x \in Expired(l) : events[x.name].isTimer}}

\* A periodic event is inserted again, once for every entry that was taken.
Reinserted(l) ==
    {[e EXCEPT !.time = at[l] + events[e.name].interval] :
        e \in {x \in Expired(l) : events[x.name].isTimer}}

\* A delayed event leaves _events with the first of its entries, so that the
\* later ones find nothing.
Collected(l) ==
    {e \in Expired(l) :
        \/ events[e.name].isTimer
        \/ \A x \in Expired(l) : x.name = e.name =>
              e.time < x.time \/ (e.time = x.time /\ e.id <= x.id)}

Check(l) ==
    /\ pc[l] = "check"
    /\ start
    /\ timers' = {e \in timers : e.time > at[l]} \cup Reinserted(l)
    /\ events' = [n \in Names |->
          CASE ~(\E e \in Expired(l) : e.name = n) -> events[n]
            [] (\E e \in Expired(l) : e.name = n) /\ events[n].isTimer ->
                  [events[n] EXCEPT !.next = at[l] + events[n].interval]
            [] OTHER -> None]
    /\ due' = [due EXCEPT ![l] = {e.id : e \in Collected(l)}]
    /\ pc' = [pc EXCEPT ![l] = "run"]
    /\ UNCHANGED <<start, call, at, regs, reused>>

\* One callback after the other, without the lock; then the sleep.
RunCallback(l) ==
    /\ pc[l] = "run"
    /\ \E i \in due[l] : due' = [due EXCEPT ![l] = @ \ {i}]
    /\ UNCHANGED <<start, timers, events, call, pc, at, regs, reused>>

CallbacksDone(l) ==
    /\ pc[l] = "run"
    /\ due[l] = {}
    /\ pc' = [pc EXCEPT ![l] = "sleep"]
    /\ UNCHANGED <<start, timers, events, call, at, due, regs, reused>>

\* usleep to the end of the second, if it is not over yet.
Wake(l) ==
    /\ pc[l] = "sleep"
    /\ at[l] < 0
    /\ pc' = [pc EXCEPT ![l] = "top"]
    /\ UNCHANGED <<start, timers, events, call, at, due, regs, reused>>

\* A second passes.  Times that lie further back than any thread can look
\* are not told apart.
Older(t) == IF t > -MaxLag THEN t - 1 ELSE t

Tick ==
    /\ \A l \in Loops : pc[l] = "check" => at[l] > -MaxLag
    /\ \A c \in Users : call[c] # None => call[c].now > -MaxLag
    /\ timers' = {[e EXCEPT !.time = Older(@)] : e \in timers}
    /\ events' = [n \in Names |->
          IF events[n] = None THEN None ELSE [events[n] EXCEPT !.next = Older(@)]]
    /\ call' = [c \in Users |->
          IF call[c] = None THEN None ELSE [call[c] EXCEPT !.now = Older(@)]]
    /\ at' = [l \in Loops |-> Older(at[l])]
    /\ UNCHANGED <<start, pc, due, regs, reused>>

ThreadStep(l) ==
    \/ LoopTop(l) \/ CheckStopped(l) \/ Check(l)
    \/ RunCallback(l) \/ CallbacksDone(l) \/ Wake(l)

TimerNext ==
    \/ StartLoop \/ Stop \/ Tick
    \/ \E c \in Users : AddCommit(c)
    \/ \E c \in Users, n \in Names, isTimer \in BOOLEAN, delay \in Delays :
          AddCall(c, n, isTimer, delay)
    \/ \E n \in Names : Del(n)
    \/ \E l \in Loops : ThreadStep(l)

TimerSpec == TimerInit /\ [][TimerNext]_timerVars

\* The clock advances and every thread that can run gets to run.
TimerFairSpec ==
    /\ TimerSpec
    /\ WF_timerVars(Tick)
    /\ \A c \in Users : WF_timerVars(AddCommit(c))
    /\ \A l \in Loops : WF_timerVars(ThreadStep(l))

-----------------------------------------------------------------------------
\* An event that is registered always has an entry in _timers that is not
\* later than the time it is due: however adds, deletes and the checks of
\* several loops interleave, check() never takes the last entry of a
\* periodic event without inserting it again.
NeverLost ==
    \A n \in Names : events[n] # None =>
        \E e \in timers : e.name = n /\ e.time <= events[n].next

\* No entry in _timers would fire an event before its wait or its interval is
\* over, as long as its name is used once.
NotEarlyOnce ==
    \A e \in timers : events[e.name] # None /\ e.name \notin reused =>
        e.time >= events[e.name].next

\* No entry in _timers would fire an event before its wait or its interval
\* is over ("AsyncTimer handles periodic tasks and delayed tasks").
NotEarly ==
    \A e \in timers : events[e.name] # None => e.time >= events[e.name].next

Pending(n, r) == start /\ events[n] # None /\ events[n].reg = r

\* An event fires, a periodic one again and again, once its time has come,
\* unless it is deleted or replaced or the timer is stopped first.
EventFires ==
    \A n \in Names, r \in Regs :
        Pending(n, r) ~> (\E l \in Loops : r \in due[l]) \/ ~Pending(n, r)

\* After stop() the loop threads end, unless start() is called again.
StopEnds == ~start ~> start \/ \A l \in Loops : pc[l] \in {"none", "done"}
=============================================================================
