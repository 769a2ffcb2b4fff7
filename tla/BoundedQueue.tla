---------------------------- MODULE BoundedQueue ----------------------------
(* What a queue between threads promises: a FIFO of at most Size values.   *)
(* Every operation takes effect atomically somewhere between its call and  *)
(* its return.  RingBuffer is shown to implement this specification when   *)
(* it has one producer and one consumer.                                   *)
EXTENDS Integers, Sequences

CONSTANTS
    Size,       \* the number of values the queue holds
    Producers,  \* the threads that call write
    Values,     \* the pointers that are passed
    None        \* no value

VARIABLES
    queue,      \* the values accepted and not yet read, oldest first
    arg,        \* arg[p]: the argument of p's write in progress, or None
    wres,       \* wres[p]: what p's last write returned
    reading,    \* the consumer is inside read or peek
    got         \* what the consumer's last read or peek returned, or None

qvars == <<queue, arg, wres, reading, got>>

Init ==
    /\ queue = <<>>
    /\ arg = [p \in Producers |-> None]
    /\ wres = [p \in Producers |-> TRUE]
    /\ reading = FALSE
    /\ got = None

CallWrite(p, v) ==
    /\ arg[p] = None
    /\ arg' = [arg EXCEPT ![p] = v]
    /\ UNCHANGED <<queue, wres, reading, got>>

\* A write is accepted only when there is room, and appends its argument.
Accept(p) ==
    /\ arg[p] # None
    /\ Len(queue) < Size
    /\ queue' = Append(queue, arg[p])
    /\ arg' = [arg EXCEPT ![p] = None]
    /\ wres' = [wres EXCEPT ![p] = TRUE]
    /\ UNCHANGED <<reading, got>>

\* A write is refused only when the queue holds Size values.
Refuse(p) ==
    /\ arg[p] # None
    /\ Len(queue) = Size
    /\ arg' = [arg EXCEPT ![p] = None]
    /\ wres' = [wres EXCEPT ![p] = FALSE]
    /\ UNCHANGED <<queue, reading, got>>

CallRead ==
    /\ ~reading
    /\ reading' = TRUE
    /\ UNCHANGED <<queue, arg, wres, got>>

\* read removes the oldest value, peek leaves it where it is.
Remove ==
    /\ reading
    /\ queue # <<>>
    /\ got' = Head(queue)
    /\ queue' = Tail(queue)
    /\ reading' = FALSE
    /\ UNCHANGED <<arg, wres>>

Inspect ==
    /\ reading
    /\ queue # <<>>
    /\ got' = Head(queue)
    /\ reading' = FALSE
    /\ UNCHANGED <<queue, arg, wres>>

\* read and peek fail only when the queue is empty.
Empty ==
    /\ reading
    /\ queue = <<>>
    /\ got' = None
    /\ reading' = FALSE
    /\ UNCHANGED <<queue, arg, wres>>

Next ==
    \/ \E p \in Producers : Accept(p) \/ Refuse(p) \/ \E v \in Values : CallWrite(p, v)
    \/ CallRead \/ Remove \/ Inspect \/ Empty

Spec == Init /\ [][Next]_qvars
=============================================================================
