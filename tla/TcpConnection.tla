--------------------------- MODULE TcpConnection ----------------------------
(* muduo/net/TcpConnection.cc: the connections of one loop, their output     *)
(* buffers, and the calls other threads make on them.  state_ is a plain     *)
(* field: send, shutdown and forceClose test it in the caller's thread and   *)
(* act on it in a later step.  A message is two units, so that a write may   *)
(* take a part of it.  No write-complete or high-water callback is set, and  *)
(* forceCloseWithDelay is called by callbacks only.                          *)
EXTENDS NetLoop

CONSTANTS
    Threads,    \* the threads other than the loop's
    MaxConns,   \* bound: how many connections are made
    MaxCalls    \* bound: how many calls user code makes on them and on the client

ASSUME ConnAssumption == MaxConns \in Nat /\ MaxCalls \in Nat

VARIABLES
    state,      \* state[c]: state_, or "none" before c is made
    events,     \* events[c]: what the Channel of c is enabled for
    out,        \* out[c]: outputBuffer_, as units
    wire,       \* wire[c]: the units the socket has taken
    fin,        \* the connections shutdownWrite was called on
    delayed,    \* the connections a forceCloseWithDelay timer is set for
    tpc,        \* tpc[t]: the call of thread t that has tested and not yet acted
    calls,      \* how many calls user code has made; a message has its number
    downs,      \* history: how often c was reported down
    promised,   \* history: the messages given to send before c was shut down
    lost,       \* history: the connections with a message dropped by an error
    cut,        \* history: shut down by handleWrite with a sendInLoop pending
    late        \* history: state_ was set although handleClose had been called

connVars == <<state, events, out, wire, fin, delayed, tpc, calls, downs, promised, lost, cut, late>>

Conns == 1 .. MaxConns
NoCall == [op |-> "none", conn |-> 0, msg |-> 0]
Functor(op, c) == [op |-> op, conn |-> c, msg |-> 0]
Open == {"connected", "disconnecting"}

Units(m) == <<2 * m - 1, 2 * m>>
Last(m) == 2 * m
Items(s) == {s[i] : i \in 1 .. Len(s)}

\* The messages handed to c that are on the wire or in the buffer, and those
\* whose sendInLoop is pending
Written(c) == {m \in 1 .. calls : Last(m) \in Items(wire[c] \o out[c])}
Waiting(c) == {m \in 1 .. calls : [op |-> "send", conn |-> c, msg |-> m] \in Items(pending)}

ConnInit ==
    /\ state = [c \in Conns |-> "none"]
    /\ events = [c \in Conns |-> {}]
    /\ out = [c \in Conns |-> <<>>] /\ wire = [c \in Conns |-> <<>>]
    /\ fin = {} /\ delayed = {}
    /\ tpc = [t \in Threads |-> NoCall]
    /\ calls = 0
    /\ downs = [c \in Conns |-> 0]
    /\ promised = [c \in Conns |-> {}]
    /\ lost = {} /\ cut = {} /\ late = {}

-----------------------------------------------------------------------------
\* The constructor and connectEstablished
ConnectEstablished(c) ==
    /\ state' = [state EXCEPT ![c] = "connected"]
    /\ events' = [events EXCEPT ![c] = {"read"}]
    /\ UNCHANGED <<out, wire, fin, delayed, tpc, calls, downs, promised, lost, cut, late>>

\* A sendInLoop that tries the socket although data is waiting
DirectAlways(c) == TRUE

\* sendInLoop writes at once only if nothing is waiting.
Direct(c) == "write" \notin events[c] /\ out[c] = <<>>

\* The socket takes n units of message m at once, the rest is buffered.
Take(c, m, n) ==
    /\ wire' = [wire EXCEPT ![c] = @ \o SubSeq(Units(m), 1, n)]
    /\ out' = [out EXCEPT ![c] = @ \o SubSeq(Units(m), n + 1, 2)]
    /\ events' = [events EXCEPT ![c] = IF n < 2 THEN @ \cup {"write"} ELSE @]
    /\ UNCHANGED lost

\* sendInLoop of message m.  EPIPE or ECONNRESET, certain after
\* shutdownWrite, drops it.
SendInLoop(c, m) ==
    \/ /\ state[c] = "disconnected"
       /\ UNCHANGED <<events, out, wire, lost>>
    \/ /\ state[c] # "disconnected" /\ Direct(c) /\ c \notin fin
       /\ \E n \in 0 .. 2 : Take(c, m, n)
    \/ /\ state[c] # "disconnected" /\ Direct(c)
       /\ lost' = lost \cup {c}
       /\ UNCHANGED <<events, out, wire>>
    \/ /\ state[c] # "disconnected" /\ ~Direct(c)
       /\ Take(c, m, 0)

\* A shutdownInLoop that does not wait for the output buffer
FinAlways(c) == TRUE

\* shutdownInLoop leaves it to handleWrite while data is buffered.
FinNow(c) == "write" \notin events[c]

ShutdownInLoop(c) == fin' = IF FinNow(c) THEN fin \cup {c} ELSE fin

\* handleClose up to its closeCallback_
HandleClose(c) ==
    /\ state' = [state EXCEPT ![c] = "disconnected"]
    /\ events' = [events EXCEPT ![c] = {}]
    /\ downs' = [downs EXCEPT ![c] = @ + 1]
    /\ rest' = IF state[c] \in Open THEN [do |-> "closeCallback", conn |-> c] ELSE Abort

-----------------------------------------------------------------------------
\* What the poller watches for a connection: to be closed by the peer, to be
\* writable; and its forceCloseWithDelay timer
ConnSources ==
    {<<c, "close">> : c \in {d \in Conns : events[d] # {}}}
    \cup {<<c, "write">> : c \in {d \in Conns : "write" \in events[d]}}
    \cup {<<c, "delay">> : c \in delayed}

\* handleRead at the end of input, or a hang-up.  Input that arrives only
\* calls user code.
HandleRead(c) ==
    /\ Handles(<<c, "close">>)
    /\ HandleClose(c)
    /\ UNCHANGED <<pending, out, wire, fin, delayed, tpc, calls, promised, lost, cut, late>>

\* A handleWrite that leaves the shutdown of a drained connection undone
FinWhenNever(c) == FALSE

\* handleWrite shuts a connection down once its buffer is drained.
FinWhenDrained(c) == state[c] = "disconnecting"

\* handleWrite: the socket takes n units.  When it fails or the Channel has
\* been disabled meanwhile, nothing happens.
HandleWrite(c) ==
    /\ Handles(<<c, "write">>)
    /\ "write" \in events[c]
    /\ \E n \in 1 .. Len(out[c]) :
          /\ wire' = [wire EXCEPT ![c] = @ \o SubSeq(out[c], 1, n)]
          /\ out' = [out EXCEPT ![c] = SubSeq(@, n + 1, Len(@))]
          /\ IF n = Len(out[c])
             THEN /\ events' = [events EXCEPT ![c] = @ \ {"write"}]
                  /\ fin' = IF FinWhenDrained(c) THEN fin \cup {c} ELSE fin
                  /\ cut' = IF c \in fin' /\ Waiting(c) # {} THEN cut \cup {c} ELSE cut
             ELSE UNCHANGED <<events, fin, cut>>
    /\ UNCHANGED <<pending, rest, state, delayed, tpc, calls, downs, promised, lost, late>>

-----------------------------------------------------------------------------
\* The functors other threads and callbacks have queued

SendFunctor(c) ==
    /\ Calls("send", <<>>) /\ Head(pending).conn = c
    /\ SendInLoop(c, Head(pending).msg)
    /\ UNCHANGED <<rest, state, fin, delayed, tpc, calls, downs, promised, cut, late>>

ShutdownFunctor(c) ==
    /\ Calls("shutdown", <<>>) /\ Head(pending).conn = c
    /\ ShutdownInLoop(c)
    /\ UNCHANGED <<rest, state, events, out, wire, delayed, tpc, calls, downs, promised, lost, cut, late>>

\* A forceCloseInLoop that does not look at the state again
StillOpenAlways(c) == TRUE

\* forceCloseInLoop looks at the state again.
StillOpen(c) == state[c] \in Open

ForceCloseFunctor(c) ==
    /\ Calls("forceClose", <<>>) /\ Head(pending).conn = c
    /\ IF StillOpen(c) THEN HandleClose(c) ELSE UNCHANGED <<state, events, downs, rest>>
    /\ UNCHANGED <<out, wire, fin, delayed, tpc, calls, promised, lost, cut, late>>

\* connectDestroyed of a connection that handleClose has closed: its Channel
\* leaves the poller and must be disabled.
ConnectDestroyed(c) ==
    /\ Calls("connectDestroyed", <<>>) /\ Head(pending).conn = c
    /\ rest' = IF events[c] = {} THEN Idle ELSE Abort
    /\ UNCHANGED connVars

-----------------------------------------------------------------------------
\* Calls from callbacks, in the loop's thread

InLoop ==
    /\ InUserCode
    /\ calls < MaxCalls /\ calls' = calls + 1
    /\ UNCHANGED <<phase, seen, batch, rest, tpc>>

LoopSend(c) ==
    /\ InLoop
    /\ state[c] = "connected"
    /\ SendInLoop(c, calls')
    /\ UNCHANGED <<pending, state, fin, delayed, downs, promised, cut, late>>

LoopShutdown(c) ==
    /\ InLoop
    /\ state[c] = "connected"
    /\ state' = [state EXCEPT ![c] = "disconnecting"]
    /\ promised' = [promised EXCEPT ![c] = Written(c)]
    /\ ShutdownInLoop(c)
    /\ UNCHANGED <<pending, events, out, wire, delayed, downs, lost, cut, late>>

LoopForceClose(c) ==
    /\ InLoop
    /\ state[c] \in Open
    /\ state' = [state EXCEPT ![c] = "disconnecting"]
    /\ pending' = Append(pending, Functor("forceClose", c))
    /\ UNCHANGED <<events, out, wire, fin, delayed, downs, promised, lost, cut, late>>

LoopForceCloseWithDelay(c) ==
    /\ InLoop
    /\ state[c] \in Open
    /\ state' = [state EXCEPT ![c] = "disconnecting"]
    /\ delayed' = delayed \cup {c}
    /\ UNCHANGED <<pending, events, out, wire, fin, downs, promised, lost, cut, late>>

\* The timer of forceCloseWithDelay calls forceClose.
DelayTimer(c) ==
    /\ Handles(<<c, "delay">>)
    /\ delayed' = delayed \ {c}
    /\ IF state[c] \in Open
       THEN /\ state' = [state EXCEPT ![c] = "disconnecting"]
            /\ pending' = Append(pending, Functor("forceClose", c))
       ELSE UNCHANGED <<state, pending>>
    /\ UNCHANGED <<rest, events, out, wire, fin, tpc, calls, downs, promised, lost, cut, late>>

-----------------------------------------------------------------------------
\* Calls from other threads: a step that tests state_, a step that acts

Tests(op) == IF op \in {"send", "shutdown"} THEN {"connected"} ELSE Open

\* send, shutdown or forceClose passes its test.
Test(t, op, c) ==
    /\ ~Aborted /\ tpc[t] = NoCall
    /\ calls < MaxCalls /\ calls' = calls + 1
    /\ state[c] \in Tests(op)
    /\ tpc' = [tpc EXCEPT ![t] = [op |-> op, conn |-> c, msg |-> calls']]
    /\ UNCHANGED <<state, events, out, wire, fin, delayed, downs, promised, lost, cut, late>>

\* It goes on to set the state and to queue its functor.
Act(t) ==
    LET c == tpc[t].conn
        op == tpc[t].op
    IN  /\ ~Aborted /\ c # 0
        /\ pending' = Append(pending, tpc[t])
        /\ IF op = "send"
           THEN UNCHANGED <<state, late, promised>>
           ELSE /\ state' = [state EXCEPT ![c] = "disconnecting"]
                /\ late' = IF state[c] = "disconnected" THEN late \cup {c} ELSE late
                /\ promised' = IF op = "shutdown" /\ state[c] = "connected"
                               THEN [promised EXCEPT ![c] = Written(c) \cup Waiting(c)]
                               ELSE promised
        /\ tpc' = [tpc EXCEPT ![t] = NoCall]
        /\ UNCHANGED <<events, out, wire, fin, delayed, calls, downs, lost, cut>>
=============================================================================
