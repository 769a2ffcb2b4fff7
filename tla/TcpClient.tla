----------------------------- MODULE TcpClient ------------------------------
(* muduo/net/TcpClient.cc: a client, its Connector and its connections, in   *)
(* one loop, called from the loop's callbacks and from other threads.        *)
(* connect() is called once; the client outlives the loop.                   *)
EXTENDS TcpConnection, Connector, FiniteSets

CONSTANT Retry      \* whether enableRetry was called

ASSUME RetryAssumption == Retry \in BOOLEAN

VARIABLES
    want,       \* connect_ of the client, written by any thread
    conn,       \* connection_, or 0
    stopped,    \* history: stop() was called
    revived     \* history: restart() turned connect_ on after a stop()

clientVars == <<want, conn, stopped, revived>>
vars == <<netVars, connVars, connectorVars, clientVars>>

\* connect() has been called.
Init ==
    /\ NetInit(<<Functor("start", 0)>>) /\ ConnInit /\ ConnectorInit
    /\ want = TRUE
    /\ conn = 0
    /\ stopped = FALSE /\ revived = FALSE

Made == Cardinality({c \in Conns : state[c] # "none"})

\* disconnect holds mutex_ while it shuts the connection down.
Locked == \E t \in Threads : tpc[t].op = "shutdown" /\ tpc[t].msg = 0

-----------------------------------------------------------------------------
\* The Connector's handler makes the connection, unless stop was called.

\* A handleWrite that does not look at connect_ again
WantedAlways == TRUE

\* handleWrite looks at connect_ again.
Wanted == connect

\* newConnection
NewConnection ==
    /\ ConnectSucceeds
    /\ Wanted /\ Made < MaxConns /\ ~Locked
    /\ conn' = Made + 1
    /\ ConnectEstablished(Made + 1)
    /\ UNCHANGED <<want, stopped, revived>>

\* The socket is closed again.
ConnectionUnwanted ==
    /\ ConnectSucceeds
    /\ ~Wanted
    /\ UNCHANGED <<connVars, clientVars>>

\* removeConnection tests retry_ and connect_.
Reconnects == Retry /\ want

\* removeConnection up to restart
RemoveConnection ==
    /\ rest.do = "closeCallback" /\ ~Locked
    /\ conn' = 0
    /\ pending' = Append(pending, Functor("connectDestroyed", rest.conn))
    /\ rest' = IF conn # rest.conn THEN Abort
               ELSE IF Reconnects THEN [Idle EXCEPT !.do = "restart"]
               ELSE Idle
    /\ UNCHANGED <<phase, seen, batch, connVars, connectorVars>>
    /\ UNCHANGED <<want, stopped, revived>>

RestartConnector ==
    /\ Restart
    /\ revived' = (revived \/ stopped)
    /\ UNCHANGED <<phase, seen, pending, batch, connVars, want, conn, stopped>>

ConnectorRestarted ==
    /\ Restarted
    /\ UNCHANGED <<phase, seen, pending, batch, connVars, clientVars>>

-----------------------------------------------------------------------------
\* stop, from any thread
Stop ==
    /\ ~Aborted
    /\ calls < MaxCalls /\ calls' = calls + 1
    /\ stopped' = TRUE
    /\ want' = FALSE /\ connect' = FALSE
    /\ pending' = Append(pending, Functor("stop", 0))
    /\ UNCHANGED <<phase, seen, batch, rest, cstate, chan, timers, gaveUp, conn, revived>>
    /\ UNCHANGED <<state, events, out, wire, fin, delayed, tpc, downs, promised, lost, cut, late>>

\* disconnect turns connect_ off,
Disconnect(t) ==
    /\ ~Aborted /\ tpc[t] = NoCall
    /\ calls < MaxCalls /\ calls' = calls + 1
    /\ want' = FALSE
    /\ tpc' = [tpc EXCEPT ![t].op = "disconnect"]
    /\ UNCHANGED <<state, events, out, wire, fin, delayed, downs, promised, lost, cut, late>>
    /\ UNCHANGED <<netVars, connectorVars, conn, stopped, revived>>

\* then takes mutex_ and shuts the connection down, if there is one.
DisconnectLocked(t) ==
    /\ ~Aborted
    /\ tpc[t].op = "disconnect" /\ ~Locked
    /\ tpc' = [tpc EXCEPT ![t] = IF conn # 0 /\ state[conn] = "connected"
                                 THEN [op |-> "shutdown", conn |-> conn, msg |-> 0]
                                 ELSE NoCall]
    /\ UNCHANGED <<state, events, out, wire, fin, delayed, calls, downs, promised, lost, cut, late>>
    /\ UNCHANGED <<netVars, connectorVars, clientVars>>

Call(t, op, c) ==
    /\ Test(t, op, c)
    /\ UNCHANGED <<netVars, connectorVars, clientVars>>

Return(t) ==
    /\ Act(t)
    /\ UNCHANGED <<phase, seen, batch, rest, connectorVars, clientVars>>

\* disconnect in a callback
LoopDisconnect ==
    /\ InLoop /\ ~Locked
    /\ want' = FALSE
    /\ IF conn # 0 /\ state[conn] = "connected"
       THEN LoopShutdown(conn)
       ELSE UNCHANGED <<pending, state, events, out, wire, fin, delayed, downs, promised, lost, cut, late>>
    /\ UNCHANGED <<connectorVars, conn, stopped, revived>>

-----------------------------------------------------------------------------
Sources ==
    ConnSources
    \cup {s \in {<<0, "connect">>} : chan = "on"}
    \cup {s \in {<<0, "retry">>} : timers > 0}

LoopStep ==
    \/ Poll(Sources) /\ UNCHANGED <<connVars, connectorVars, clientVars>>
    \/ SwapFunctors /\ UNCHANGED <<connVars, connectorVars, clientVars>>

ConnectorStep ==
    /\ StartFunctor \/ RetryTimer \/ StopFunctor \/ ResetChannel \/ ConnectFails
    /\ UNCHANGED <<connVars, clientVars>>

ClientStep == NewConnection \/ ConnectionUnwanted \/ RemoveConnection \/ RestartConnector \/ ConnectorRestarted

Functors(c) ==
    /\ SendFunctor(c) \/ ShutdownFunctor(c) \/ ForceCloseFunctor(c) \/ ConnectDestroyed(c)
    /\ UNCHANGED <<connectorVars, clientVars>>

Handlers(c) ==
    /\ HandleRead(c) \/ HandleWrite(c) \/ DelayTimer(c)
    /\ UNCHANGED <<connectorVars, clientVars>>

Callbacks(c) ==
    /\ LoopSend(c) \/ LoopShutdown(c) \/ LoopForceClose(c) \/ LoopForceCloseWithDelay(c)
    /\ UNCHANGED <<connectorVars, clientVars>>

Next ==
    \/ LoopStep \/ ConnectorStep \/ ClientStep
    \/ \E c \in Conns : Functors(c) \/ Handlers(c) \/ Callbacks(c)
    \/ Stop \/ LoopDisconnect
    \/ \E t \in Threads :
          \/ Disconnect(t) \/ DisconnectLocked(t) \/ Return(t)
          \/ \E op \in {"send", "shutdown", "forceClose"}, c \in Conns : Call(t, op, c)

Spec == Init /\ [][Next]_vars

\* The loop goes on, calls return, the kernel reports what stays ready, the
\* peer goes on reading, and the server takes one of the attempts in the end.
FairSpec ==
    /\ Spec
    /\ WF_vars(\/ LoopStep \/ ConnectorStep \/ ClientStep
               \/ \E c \in Conns : Functors(c)
               \/ \E t \in Threads : Return(t) \/ DisconnectLocked(t))
    /\ SF_vars(\E c \in Conns : (HandleWrite(c) \/ DelayTimer(c)) /\ UNCHANGED <<connectorVars, clientVars>>)
    /\ SF_vars(RetryTimer /\ cstate' = "connecting" /\ UNCHANGED <<connVars, clientVars>>)
    /\ SF_vars(NewConnection)

-----------------------------------------------------------------------------
\* No assertion of Connector, TcpConnection or TcpClient fails: startInLoop
\* and connecting find the last attempt over and its Channel reset,
\* removeConnection finds its own connection, handleClose an open one, and
\* connectDestroyed a disabled Channel.  The exceptions are a call that sets
\* state_ of a connection closed since its test, and a stop() lost to restart().
NoAbort == Aborted => late # {} \/ revived

\* A connection is reported down once, whether the peer closes it, callbacks
\* and other threads force it closed, or its delay is over, in any order;
\* unless a call sets state_ after the close.
ClosedOnce == \A c \in Conns \ late : downs[c] <= 1

\* Whatever was handed to send before shutdown is on the wire when the
\* connection is shut down for writing.  handleWrite breaks this when it
\* drains the buffer after another thread's shutdown() and before the
\* sendInLoop that thread had queued: those cases are excepted.
ShutdownFlushes ==
    \A c \in fin \ (lost \cup cut) :
        downs[c] = 0 => \A m \in promised[c] : Last(m) \in Items(wire[c])

\* A message is never torn: its units follow each other on the wire and in
\* the buffer, however sends of several threads meet partial writes.
Whole ==
    \A c \in Conns :
        LET s == wire[c] \o out[c]
        IN  \A i \in 1 .. Len(s) : s[i] % 2 = 1 => i < Len(s) /\ s[i + 1] = s[i] + 1

\* The client has at most one of a retry timer, an attempt under way and a
\* connection, whatever closes, stops and restarts come together.
OneAttempt ==
    timers + (IF chan = "on" THEN 1 ELSE 0) + (IF conn # 0 THEN 1 ELSE 0) <= 1

\* After stop() no attempt begins, no timer is set and no connection is made,
\* although the retry timer is not cancelled and a socket may just have become
\* writable; unless restart() had passed its test of connect_.
StopSticks ==
    [][stopped /\ ~revived' =>
          /\ Made' = Made
          /\ timers' <= timers
          /\ cstate' = "connecting" => cstate = "connecting"]_vars

Closing(c) == state[c] = "disconnecting" /\ c \notin fin /\ ~Aborted

\* A connection that was asked to close is shut down or closed in the end.
CloseEnds == (\E c \in Conns : Closing(c)) ~> (\A c \in Conns : ~Closing(c))

\* A client that retries has a connection again, unless it is told not to or
\* connect(2) fails in a way the Connector does not retry.
Reconnected ==
    Retry /\ conn = 0 /\ want ~> conn # 0 \/ ~want \/ gaveUp \/ Made = MaxConns \/ Aborted
=============================================================================
