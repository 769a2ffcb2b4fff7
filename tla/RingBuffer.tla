----------------------------- MODULE RingBuffer -----------------------------
(* cppBase/core/RingBuffer.h: a ring of Size + 1 slots, a read index that  *)
(* the consumer advances and a write index that the producer advances.     *)
(* There is no lock.  A call is a sequence of steps, and each step makes    *)
(* one access to an index that the other side writes: getWritableSlotCount *)
(* reads the foreign index twice (the comparison and the branch), and the  *)
(* other thread may move it in between.                                    *)
EXTENDS Integers, Sequences

CONSTANTS
    Size,       \* m_nSize
    UintMod,    \* the modulus of uint32_t arithmetic
    Producers,  \* the threads that call write
    Values,     \* the pointers that are written
    None        \* not a pointer: no value, or a slot never written

ASSUME SizeAssumption == Size \in Nat \ {0}
ASSUME WidthAssumption == UintMod \in Nat /\ Size + 1 < UintMod
ASSUME NoneAssumption == None \notin Values

VARIABLES
    slots,      \* m_arSlots
    rIndex,     \* m_nRIndex
    wIndex,     \* m_nWIndex
    wpc,        \* wpc[p]: where p is in write
    arg,        \* arg[p]: the argument of that call, None outside one
    wless,      \* wless[p]: what p's comparison of the indices gave
    wres,       \* wres[p]: what p's last write returned
    rpc,        \* where the consumer is in read or peek
    op,         \* which of the two it is in
    rless,      \* what the consumer's comparison of the indices gave
    seen,       \* the slot value the consumer has loaded
    got         \* what the last read or peek delivered, None when it failed

wvars == <<wpc, arg, wless, wres>>
rvars == <<rpc, op, rless, seen, got>>
ringVars == <<slots, rIndex, wIndex, wvars, rvars>>

SlotIndices == 0 .. Size

\* uint32_t arithmetic: a difference or a sum wraps at most once here.
Uint(x) == IF x < 0 THEN x + UintMod ELSE IF x >= UintMod THEN x - UintMod ELSE x

\* A count that forgets the workspace slot.
WritableAllSlots(less) ==
    IF less THEN Uint(rIndex - wIndex) ELSE Uint(Size - wIndex + rIndex)

\* The two branches of getWritableSlotCount, less being its condition.
getWritableSlotCount(less) ==
    IF less THEN Uint(rIndex - wIndex - 1) ELSE Uint(Size - wIndex + rIndex)

\* A count that takes the workspace slot for a value.
ReadableAllSlots(less) == Uint(Size + 1 - getWritableSlotCount(less))

getReadableSlotCount(less) == Uint(Size - getWritableSlotCount(less))

Advanced(index) == IF index < Size THEN index + 1 ELSE 0

RingInit ==
    /\ slots = [i \in SlotIndices |-> None]
    /\ rIndex = 0 /\ wIndex = 0
    /\ wpc = [p \in Producers |-> "idle"]
    /\ arg = [p \in Producers |-> None]
    /\ wless = [p \in Producers |-> FALSE]
    /\ wres = [p \in Producers |-> TRUE]
    /\ rpc = "idle" /\ op = "read" /\ rless = FALSE
    /\ seen = None /\ got = None

-----------------------------------------------------------------------------
\* bool write(void *p)

WriteCall(p, v) ==
    /\ wpc[p] = "idle"
    /\ wpc' = [wpc EXCEPT ![p] = "compare"]
    /\ arg' = [arg EXCEPT ![p] = v]
    /\ UNCHANGED <<slots, rIndex, wIndex, wless, wres, rvars>>

WriteCompare(p) ==
    /\ wpc[p] = "compare"
    /\ wless' = [wless EXCEPT ![p] = wIndex < rIndex]
    /\ wpc' = [wpc EXCEPT ![p] = "count"]
    /\ UNCHANGED <<slots, rIndex, wIndex, arg, wres, rvars>>

\* isWritable() decides; a full queue is reported at once.
WriteCount(p) ==
    /\ wpc[p] = "count"
    /\ IF getWritableSlotCount(wless[p]) > 0
       THEN /\ wpc' = [wpc EXCEPT ![p] = "store"]
            /\ UNCHANGED <<arg, wres>>
       ELSE /\ wpc' = [wpc EXCEPT ![p] = "idle"]
            /\ arg' = [arg EXCEPT ![p] = None]
            /\ wres' = [wres EXCEPT ![p] = FALSE]
    /\ UNCHANGED <<slots, rIndex, wIndex, wless, rvars>>

WriteSlot(p) ==
    /\ wpc[p] = "store"
    /\ slots' = [slots EXCEPT ![wIndex] = arg[p]]
    /\ wpc' = [wpc EXCEPT ![p] = "advance"]
    /\ UNCHANGED <<rIndex, wIndex, arg, wless, wres, rvars>>

WriteAdvance(p) ==
    /\ wpc[p] = "advance"
    /\ wIndex' = Advanced(wIndex)
    /\ wpc' = [wpc EXCEPT ![p] = "idle"]
    /\ arg' = [arg EXCEPT ![p] = None]
    /\ wres' = [wres EXCEPT ![p] = TRUE]
    /\ UNCHANGED <<slots, rIndex, wless, rvars>>

-----------------------------------------------------------------------------
\* bool read(void **p) and bool peek(void **p)

ReadCall(o) ==
    /\ rpc = "idle"
    /\ rpc' = "compare"
    /\ op' = o
    /\ UNCHANGED <<slots, rIndex, wIndex, wvars, rless, seen, got>>

ReadCompare ==
    /\ rpc = "compare"
    /\ rless' = (wIndex < rIndex)
    /\ rpc' = "count"
    /\ UNCHANGED <<slots, rIndex, wIndex, wvars, op, seen, got>>

ReadCount ==
    /\ rpc = "count"
    /\ IF getReadableSlotCount(rless) > 0
       THEN rpc' = "load" /\ UNCHANGED got
       ELSE rpc' = "idle" /\ got' = None
    /\ UNCHANGED <<slots, rIndex, wIndex, wvars, op, rless, seen>>

\* peek returns here; read goes on to free the slot.
ReadSlot ==
    /\ rpc = "load"
    /\ seen' = slots[rIndex]
    /\ IF op = "peek"
       THEN rpc' = "idle" /\ got' = slots[rIndex]
       ELSE rpc' = "advance" /\ UNCHANGED got
    /\ UNCHANGED <<slots, rIndex, wIndex, wvars, op, rless>>

ReadAdvance ==
    /\ rpc = "advance"
    /\ rIndex' = Advanced(rIndex)
    /\ got' = seen
    /\ rpc' = "idle"
    /\ UNCHANGED <<slots, wIndex, wvars, op, rless, seen>>

RingNext ==
    \/ \E p \in Producers : \/ \E v \in Values : WriteCall(p, v)
                            \/ WriteCompare(p) \/ WriteCount(p)
                            \/ WriteSlot(p) \/ WriteAdvance(p)
    \/ \E o \in {"read", "peek"} : ReadCall(o)
    \/ ReadCompare \/ ReadCount \/ ReadSlot \/ ReadAdvance

RingSpec == RingInit /\ [][RingNext]_ringVars

-----------------------------------------------------------------------------
\* The number of values in the ring, and the ring read as a sequence.
Count == IF wIndex >= rIndex THEN wIndex - rIndex ELSE wIndex - rIndex + Size + 1

\* The slot i places after the read index.
Place(i) == IF rIndex + i <= Size THEN rIndex + i ELSE rIndex + i - (Size + 1)

Content == [i \in 1 .. Count |-> slots[Place(i - 1)]]

Abstract == INSTANCE BoundedQueue
    WITH queue <- Content, reading <- rpc # "idle"

\* The types of the ring's fields and of the locals of the calls.
TypeOK ==
    /\ slots \in [SlotIndices -> Values \cup {None}]
    /\ rIndex \in SlotIndices
    /\ wIndex \in SlotIndices
    /\ wpc \in [Producers -> {"idle", "compare", "count", "store", "advance"}]
    /\ arg \in [Producers -> Values \cup {None}]
    /\ wless \in [Producers -> BOOLEAN]
    /\ wres \in [Producers -> BOOLEAN]
    /\ rpc \in {"idle", "compare", "count", "load", "advance"}
    /\ op \in {"read", "peek"}
    /\ rless \in BOOLEAN
    /\ seen \in Values \cup {None}
    /\ got \in Values \cup {None}

\* The use the header's lock-free claim needs: at most one thread writes.
SingleProducer == \A p, q \in Producers : p = q

\* No slot is stored to while the consumer may load it: a producer about to
\* write m_arSlots[m_nWIndex] never targets a slot between the two indices,
\* and the slot the consumer is about to load holds a value that was written.
NoSlotRace ==
    /\ \A p \in Producers :
          wpc[p] \in {"store", "advance"} =>
              /\ Count < Size
              /\ \A i \in 0 .. Count - 1 : Place(i) # wIndex
    /\ rpc = "load" => slots[rIndex] \in Values

\* What each side may rely on between its two looks at the foreign index.
\* A producer that found rIndex at or below wIndex still finds it there, one
\* that passed the test has a free slot and, once it has stored its value,
\* that slot is still unpublished.
WriterInv ==
    \A p \in Producers :
        /\ wpc[p] = "idle" <=> arg[p] = None
        /\ wpc[p] = "count" => IF wless[p] THEN wIndex < Size ELSE rIndex <= wIndex
        /\ wpc[p] \in {"store", "advance"} => Count < Size
        /\ wpc[p] = "advance" => slots[wIndex] = arg[p]

\* The consumer that passed the test still has a value to load, and the
\* value it loaded is still the oldest one when it frees the slot.
ReaderInv ==
    /\ rpc = "count" /\ rless => wIndex < rIndex
    /\ rpc \in {"load", "advance"} => Count > 0
    /\ rpc = "advance" => op = "read" /\ seen = slots[rIndex]

\* Every slot between the indices holds a value that some write stored.
ContentInv == \A i \in 0 .. Count - 1 : slots[Place(i)] \in Values

\* The inductive invariant of the ring with a single producer.
RingInv == TypeOK /\ WriterInv /\ ReaderInv /\ ContentInv

\* The ring implements the bounded queue: values come out once, in order,
\* a write is refused only when Size values are waiting and a read fails
\* only when none is ("use as lock free queue between threads").
ImplementsQueue == Abstract!Spec
=============================================================================
