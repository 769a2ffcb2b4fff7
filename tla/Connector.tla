----------------------------- MODULE Connector ------------------------------
(* muduo/net/Connector.cc: one attempt after the other to connect a socket,  *)
(* with a timer between them.  Delays and addresses are left out.            *)
EXTENDS NetLoop

VARIABLES
    connect,    \* connect_, written by any thread
    cstate,     \* state_: "disconnected", "connecting" or "connected"
    chan,       \* channel_: "none", "on" in the poller, "off" until resetChannel
    timers,     \* how many retry timers are set
    gaveUp      \* history: connect(2) met an error that is not retried

connectorVars == <<connect, cstate, chan, timers, gaveUp>>

ResetChannelFunctor == [op |-> "resetChannel", conn |-> 0, msg |-> 0]

\* start() has been called.
ConnectorInit ==
    /\ connect = TRUE
    /\ cstate = "disconnected"
    /\ chan = "none"
    /\ timers = 0
    /\ gaveUp = FALSE

-----------------------------------------------------------------------------
\* A retry that sets no timer
RetryForgets(n) ==
    /\ cstate' = "disconnected"
    /\ timers' = n

\* retry, with n timers set
RetryFrom(n) ==
    /\ cstate' = "disconnected"
    /\ timers' = IF connect THEN n + 1 ELSE n

\* A connect whose first case falls through into retry
AttemptFallsThrough(n) ==
    \/ /\ chan' = "on"
       /\ RetryFrom(n)
       /\ UNCHANGED gaveUp
    \/ /\ RetryFrom(n)
       /\ UNCHANGED <<chan, gaveUp>>

\* startInLoop with n timers set, when its assertion and that of connecting
\* hold: connect(2) is under way, is to be retried, or fails for good.
Attempt(n) ==
    \/ /\ chan' = "on" /\ cstate' = "connecting"
       /\ timers' = n
       /\ UNCHANGED gaveUp
    \/ /\ RetryFrom(n)
       /\ UNCHANGED <<chan, gaveUp>>
    \/ /\ gaveUp' = TRUE
       /\ timers' = n
       /\ UNCHANGED <<chan, cstate>>

StartInLoop(n) ==
    /\ IF cstate = "disconnected" /\ connect /\ chan = "none"
       THEN Attempt(n)
       ELSE timers' = n /\ UNCHANGED <<chan, cstate, gaveUp>>
    /\ rest' = IF cstate = "disconnected" /\ (connect => chan = "none") THEN Idle ELSE Abort
    /\ UNCHANGED connect

\* A removeAndResetChannel that leaves the Channel to the next connecting.
KeepChannel == <<>>

\* removeAndResetChannel: the Channel goes away only after its handler has
\* returned, in a functor.
RemoveAndResetChannel == <<ResetChannelFunctor>>

StartFunctor ==
    /\ Calls("start", <<>>)
    /\ StartInLoop(timers)

\* The retry timer expires.
RetryTimer ==
    /\ Handles(<<0, "retry">>)
    /\ StartInLoop(timers - 1)
    /\ UNCHANGED pending

StopFunctor ==
    /\ Calls("stop", IF cstate = "connecting" THEN RemoveAndResetChannel ELSE <<>>)
    /\ IF cstate = "connecting"
       THEN chan' = "off" /\ RetryFrom(timers)
       ELSE UNCHANGED <<chan, cstate, timers>>
    /\ UNCHANGED <<rest, connect, gaveUp>>

ResetChannel ==
    /\ Calls("resetChannel", <<>>)
    /\ chan' = "none"
    /\ UNCHANGED <<rest, connect, cstate, timers, gaveUp>>

\* handleWrite with an error or a self-connection, and handleError
ConnectFails ==
    /\ Handles(<<0, "connect">>) /\ cstate = "connecting"
    /\ pending' = pending \o RemoveAndResetChannel
    /\ chan' = "off"
    /\ RetryFrom(timers)
    /\ UNCHANGED <<rest, connect, gaveUp>>

\* handleWrite on a good socket, up to its test of connect_
ConnectSucceeds ==
    /\ Handles(<<0, "connect">>) /\ cstate = "connecting"
    /\ pending' = pending \o RemoveAndResetChannel
    /\ chan' = "off"
    /\ cstate' = "connected"
    /\ UNCHANGED <<rest, connect, timers, gaveUp>>

\* restart turns connect_ on, whatever stop has done to it by now.
Restart ==
    /\ rest.do = "restart"
    /\ cstate' = "disconnected"
    /\ connect' = TRUE
    /\ rest' = [Idle EXCEPT !.do = "startInLoop"]
    /\ UNCHANGED <<chan, timers, gaveUp>>

\* The rest of restart
Restarted ==
    /\ rest.do = "startInLoop"
    /\ StartInLoop(timers)
=============================================================================
