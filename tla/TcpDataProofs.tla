---------------------------- MODULE TcpDataProofs ---------------------------
(* Proofs about the data of TcpClient's connections: what the peer receives *)
(* is whole messages, and a shutdown comes after what was sent before it.   *)
EXTENDS TcpClientProofs, SequenceTheorems

\* Units on the wire and in the buffer.
Bits == wire \in [Conns -> Seq(Int)] /\ out \in [Conns -> Seq(Int)]

\* First halves of messages are followed by their second halves.
Unbroken(s) == \A i \in 1 .. Len(s) : s[i] % 2 = 1 => i < Len(s) /\ s[i + 1] = s[i] + 1

LEMMA UnitsAre ==
  ASSUME NEW m \in Nat
  PROVE  /\ Units(m) \in Seq(Int) /\ Len(Units(m)) = 2
         /\ Units(m)[1] = 2 * m - 1 /\ Units(m)[2] = 2 * m
         /\ (2 * m) % 2 = 0
BY DEF Units

\* Where the members of a concatenation come from.
LEMMA ConcatAt ==
  ASSUME NEW s \in Seq(Int), NEW t \in Seq(Int)
  PROVE  /\ s \o t \in Seq(Int) /\ Len(s \o t) = Len(s) + Len(t)
         /\ Len(s) \in Nat /\ Len(t) \in Nat
         /\ \A i \in 1 .. Len(s) : (s \o t)[i] = s[i]
         /\ \A i \in 1 .. Len(t) : (s \o t)[Len(s) + i] = t[i]
         /\ Items(s \o t) = Items(s) \cup Items(t)
<1> DEFINE n == Len(s)
           k == Len(t)
           r == s \o t
<1>1. /\ r \in Seq(Int) /\ Len(r) = n + k
      /\ \A i \in 1 .. n + k : r[i] = IF i <= n THEN s[i] ELSE t[i - n]
  BY ConcatProperties, Zenon
<1>2. n \in Nat /\ k \in Nat
  OBVIOUS
<1> HIDE DEF n, k, r
<1>3. \A i \in 1 .. n : i \in 1 .. n + k /\ r[i] = s[i]
  BY <1>1, <1>2
<1>4. ASSUME NEW i \in 1 .. k PROVE n + i \in 1 .. n + k /\ r[n + i] = t[i]
  <2>1. n + i \in 1 .. n + k /\ ~(n + i <= n) /\ (n + i) - n = i
    BY <1>2
  <2>2. QED
    BY <1>1, <2>1, Zenon
<1>5. Items(r) \subseteq Items(s) \cup Items(t)
  <2>1. ASSUME NEW i \in 1 .. n + k PROVE r[i] \in Items(s) \cup Items(t)
    <3>1. CASE i <= n
      BY <1>1, <1>2, <3>1 DEF Items, n
    <3>2. CASE ~(i <= n)
      <4>1. i - n \in 1 .. k /\ r[i] = t[i - n]
        BY <1>1, <1>2, <3>2
      <4>2. QED
        BY <4>1, Zenon DEF Items, k
    <3>3. QED
      BY <3>1, <3>2, Zenon
  <2>2. QED
    BY <1>1, <2>1, Zenon DEF Items
<1>6. Items(s) \subseteq Items(r)
  BY <1>1, <1>3, Zenon DEF Items, n
<1>7. Items(t) \subseteq Items(r)
  <2>1. ASSUME NEW i \in 1 .. k PROVE t[i] \in Items(r)
    BY <1>1, <1>4, Zenon DEF Items
  <2>2. QED
    BY <2>1, Zenon DEF Items, k
<1>8. QED
  BY <1>1, <1>2, <1>3, <1>4, <1>5, <1>6, <1>7, Zenon DEF n, k, r

\* Concatenations may be regrouped.
LEMMA Regroup ==
  ASSUME NEW s \in Seq(Int), NEW t \in Seq(Int), NEW u \in Seq(Int)
  PROVE  (s \o t) \o u = s \o (t \o u)
BY ConcatAssociative

\* A message behind whole messages.
LEMMA UnbrokenMore ==
  ASSUME NEW s \in Seq(Int), NEW m \in Nat, Unbroken(s)
  PROVE  Unbroken(s \o Units(m))
<1> DEFINE n == Len(s)
           u == Units(m)
           r == s \o u
<1>1. n \in Nat /\ u \in Seq(Int) /\ Len(u) = 2 /\ u[1] = 2 * m - 1 /\ u[2] = 2 * m /\ (2 * m) % 2 = 0
  <2>1. n \in Nat
    OBVIOUS
  <2>2. QED
    BY <2>1, UnitsAre, Zenon
<1> HIDE DEF u, n
<1>2. /\ Len(r) = n + 2 /\ r[n + 1] = 2 * m - 1 /\ r[n + 2] = 2 * m
      /\ \A i \in 1 .. n : r[i] = s[i]
  <2>1. /\ Len(r) = n + Len(u)
        /\ \A i \in 1 .. n : r[i] = s[i]
        /\ \A i \in 1 .. Len(u) : r[n + i] = u[i]
    BY <1>1, ConcatAt, Zenon DEF n
  <2> HIDE DEF r
  <2>2. QED
    BY <1>1, <2>1
<1> HIDE DEF r
<1>3. ASSUME NEW i \in 1 .. n + 2, r[i] % 2 = 1 PROVE i < n + 2 /\ r[i + 1] = r[i] + 1
  <2>1. CASE i \in 1 .. n
    <3>1. s[i] % 2 = 1 /\ i \in 1 .. Len(s)
      BY <1>2, <1>3, <2>1, Zenon DEF n
    <3>2. i < n /\ s[i + 1] = s[i] + 1
      BY <3>1, Zenon DEF Unbroken, n
    <3>3. i + 1 \in 1 .. n
      BY <1>1, <2>1, <3>2
    <3>4. QED
      BY <1>1, <1>2, <2>1, <3>2, <3>3
  <2>2. CASE i = n + 1
    <3>1. i + 1 = n + 2 /\ i < n + 2 /\ 2 * m = (2 * m - 1) + 1
      BY <1>1, <2>2
    <3>2. QED
      BY <1>2, <2>2, <3>1, Zenon
  <2>3. CASE i = n + 2
    BY <1>1, <1>2, <1>3, <2>3
  <2>4. QED
    BY <1>1, <2>1, <2>2, <2>3
<1>4. QED
  <2>1. Unbroken(r)
    BY <1>2, <1>3, Zenon DEF Unbroken
  <2>2. QED
    BY <2>1, Zenon DEF r, u

\* A write that takes a part of u and leaves the rest.
LEMMA SplitSeq ==
  ASSUME NEW u \in Seq(Int), NEW n \in 0 .. Len(u)
  PROVE  /\ SubSeq(u, 1, n) \in Seq(Int) /\ Len(SubSeq(u, 1, n)) = n
         /\ SubSeq(u, n + 1, Len(u)) \in Seq(Int) /\ Len(SubSeq(u, n + 1, Len(u))) = Len(u) - n
         /\ SubSeq(u, 1, n) \o SubSeq(u, n + 1, Len(u)) = u
         /\ n = 0 => SubSeq(u, 1, n) = <<>> /\ SubSeq(u, n + 1, Len(u)) = u
         /\ n = Len(u) => SubSeq(u, 1, n) = u /\ SubSeq(u, n + 1, Len(u)) = <<>>
<1> DEFINE l == Len(u)
<1>1. l \in Nat /\ n \in Nat /\ n <= l /\ 1 \in 1 .. l + 1 /\ n \in 1 - 1 .. l /\ l \in n .. l
  OBVIOUS
<1>2. SubSeq(u, 1, n) \in Seq(Int) /\ Len(SubSeq(u, 1, n)) = n
  BY <1>1
<1>3. SubSeq(u, n + 1, l) \in Seq(Int) /\ Len(SubSeq(u, n + 1, l)) = l - n
  BY <1>1
<1>4. SubSeq(u, 1, l) = u
  BY SubSeqFull, Zenon
<1>5. SubSeq(u, 1, n) \o SubSeq(u, n + 1, l) = u
  BY <1>1, <1>4, ConcatAdjacentSubSeq, Zenon
<1>6. n = 0 => SubSeq(u, 1, n) = <<>> /\ SubSeq(u, n + 1, l) = u
  BY <1>2, <1>4, EmptySeq
<1>7. n = l => SubSeq(u, 1, n) = u /\ SubSeq(u, n + 1, l) = <<>>
  <2>1. l + 1 \in Int /\ l \in Int /\ l < l + 1
    BY <1>1
  <2>2. SubSeq(u, l + 1, l) = <<>>
    BY <2>1, SubSeqEmpty, Zenon
  <2>3. QED
    BY <1>4, <2>2, Zenon
<1>8. QED
  BY <1>2, <1>3, <1>5, <1>6, <1>7, Zenon

\* What sendInLoop does to the wire and the buffer, once it writes.
Adds(c, m) ==
    /\ wire'[c] \o out'[c] = (wire[c] \o out[c]) \o Units(m)
    /\ Items(wire[c]) \subseteq Items(wire'[c]) /\ Items(out[c]) \subseteq Items(out'[c])
    /\ Last(m) \in Items(wire'[c]) \cup Items(out'[c])
    /\ events[c] \subseteq events'[c] /\ (out'[c] # <<>> => "write" \in events'[c])

\* Only c is concerned.
OnlyAt(c) ==
    \A b \in Conns \ {c} : wire'[b] = wire[b] /\ out'[b] = out[b] /\ events'[b] = events[b]

\* The socket takes a part of a message only if the buffer is empty.
LEMMA TakeAdds ==
  ASSUME Types, Bits, NEW c \in Conns, NEW m \in Nat, NEW n \in 0 .. 2, Take(c, m, n),
         n > 0 => out[c] = <<>>
  PROVE  Bits' /\ OnlyAt(c) /\ Adds(c, m)
<1> DEFINE w == wire[c]
           o == out[c]
           u == Units(m)
           p == SubSeq(u, 1, n)
           q == SubSeq(u, n + 1, 2)
<1>1. w \in Seq(Int) /\ o \in Seq(Int)
  BY Zenon DEF Bits
<1>2. u \in Seq(Int) /\ Len(u) = 2 /\ u[2] = Last(m)
  BY UnitsAre, Zenon DEF Last
<1>3. n \in 0 .. Len(u)
  BY <1>2, Zenon
<1>4. /\ p \in Seq(Int) /\ q \in Seq(Int) /\ p \o q = u
      /\ n = 0 => p = <<>> /\ q = u
      /\ n = 2 => p = u /\ q = <<>>
  <2> HIDE DEF u, p, q
  <2>1. p = SubSeq(u, 1, n) /\ q = SubSeq(u, n + 1, Len(u))
    BY <1>2, Zenon DEF p, q
  <2>2. /\ p \in Seq(Int) /\ q \in Seq(Int) /\ p \o q = u
        /\ n = 0 => p = <<>> /\ q = u
        /\ n = Len(u) => p = u /\ q = <<>>
    BY <1>2, <1>3, <2>1, SplitSeq, Zenon
  <2>3. QED
    BY <1>2, <2>2, Zenon
<1>5. Last(m) \in Items(u)
  BY <1>2 DEF Items
<1>6. /\ wire' = [wire EXCEPT ![c] = w \o p] /\ out' = [out EXCEPT ![c] = o \o q]
      /\ events' = [events EXCEPT ![c] = IF n < 2 THEN @ \cup {"write"} ELSE @]
  BY Zenon DEF Take
<1> HIDE DEF w, o, u, p, q
<1>7. w \o p \in Seq(Int) /\ o \o q \in Seq(Int) /\ w \o o \in Seq(Int)
  BY <1>1, <1>4, ConcatAt, Zenon
<1>8. Bits' /\ OnlyAt(c) /\ wire'[c] = w \o p /\ out'[c] = o \o q
  BY <1>6, <1>7, Zenon DEF Bits, OnlyAt, Types
<1>9. events'[c] = IF n < 2 THEN events[c] \cup {"write"} ELSE events[c]
  BY <1>6, Zenon DEF Types
<1>10. (w \o p) \o (o \o q) = (w \o o) \o u
  <2>1. CASE n = 0
    <3>1. w \o p = w /\ q = u
      BY <1>1, <1>4, <2>1, ConcatEmptySeq, Zenon
    <3>2. w \o (o \o u) = (w \o o) \o u
      BY <1>1, <1>2, Regroup, Zenon
    <3>3. QED
      BY <3>1, <3>2, Zenon
  <2>2. CASE n # 0
    <3>1. o = <<>>
      BY <2>2 DEF o
    <3>2. o \o q = q /\ w \o o = w
      BY <1>1, <1>4, <3>1, ConcatEmptySeq, Zenon
    <3>3. (w \o p) \o q = w \o (p \o q)
      BY <1>1, <1>4, Regroup, Zenon
    <3>4. QED
      BY <1>4, <3>2, <3>3, Zenon
  <2>3. QED
    BY <2>1, <2>2, Zenon
<1>11. /\ Items(w \o p) = Items(w) \cup Items(p) /\ Items(o \o q) = Items(o) \cup Items(q)
       /\ Items(u) = Items(p) \cup Items(q)
  BY <1>1, <1>4, ConcatAt, Zenon
<1>12. n = 2 => o \o q = <<>>
  <2>1. ASSUME n = 2 PROVE o = <<>> /\ q = <<>>
    BY <1>4, <2>1 DEF o
  <2>2. <<>> \o <<>> = <<>>
    OBVIOUS
  <2>3. QED
    BY <2>1, <2>2, Zenon
<1>13. (wire'[c] \o out'[c]) = (wire[c] \o out[c]) \o Units(m)
  BY <1>8, <1>10, Zenon DEF w, o, u
<1>14. Items(wire[c]) \subseteq Items(wire'[c]) /\ Items(out[c]) \subseteq Items(out'[c])
  BY <1>8, <1>11, Zenon DEF w, o
<1>15. Last(m) \in Items(wire'[c]) \cup Items(out'[c])
  BY <1>5, <1>8, <1>11, Zenon
<1>16. out'[c] # <<>> => n < 2
  BY <1>8, <1>12
<1>17. QED
  BY <1>8, <1>9, <1>13, <1>14, <1>15, <1>16, Zenon DEF Adds

\* sendInLoop writes the message, or a closed or broken connection drops it.
LEMMA SendAdds ==
  ASSUME Types, Bits, NEW c \in Conns, NEW m \in Nat, SendInLoop(c, m)
  PROVE  /\ Bits' /\ OnlyAt(c) /\ lost' \in {lost, lost \cup {c}}
         /\ \/ UNCHANGED <<wire, out, events>> /\ (state[c] = "disconnected" \/ c \in lost')
            \/ Adds(c, m)
<1>1. CASE /\ UNCHANGED <<events, out, wire>>
           /\ (state[c] = "disconnected" /\ lost' = lost) \/ lost' = lost \cup {c}
  BY <1>1, Zenon DEF Bits, OnlyAt
<1>2. ASSUME NEW n \in 0 .. 2, Take(c, m, n), n > 0 => Direct(c)
      PROVE  Bits' /\ OnlyAt(c) /\ lost' = lost /\ Adds(c, m)
  BY <1>2, TakeAdds, Zenon DEF Direct, Take
<1>3. QED
  BY <1>1, <1>2 DEF SendInLoop

\* handleWrite moves units from the buffer to the wire.
LEMMA DrainMoves ==
  ASSUME Types, Bits, NEW c \in Conns, HandleWrite(c)
  PROVE  /\ Bits' /\ OnlyAt(c)
         /\ wire'[c] \o out'[c] = wire[c] \o out[c]
         /\ Items(wire[c]) \subseteq Items(wire'[c])
         /\ Items(out[c]) \subseteq Items(wire'[c]) \cup Items(out'[c])
         /\ \/ UNCHANGED <<fin, cut>> /\ events' = events /\ "write" \in events[c]
            \/ /\ out'[c] = <<>>
               /\ fin' = IF FinWhenDrained(c) THEN fin \cup {c} ELSE fin
               /\ cut' = IF c \in fin' /\ Waiting(c) # {} THEN cut \cup {c} ELSE cut
<1> DEFINE w == wire[c]
           o == out[c]
<1>1. w \in Seq(Int) /\ o \in Seq(Int)
  BY Zenon DEF Bits
<1>2. PICK n \in 1 .. Len(o) :
          /\ wire' = [wire EXCEPT ![c] = w \o SubSeq(o, 1, n)]
          /\ out' = [out EXCEPT ![c] = SubSeq(o, n + 1, Len(o))]
          /\ IF n = Len(o)
             THEN /\ events' = [events EXCEPT ![c] = @ \ {"write"}]
                  /\ fin' = IF FinWhenDrained(c) THEN fin \cup {c} ELSE fin
                  /\ cut' = IF c \in fin' /\ Waiting(c) # {} THEN cut \cup {c} ELSE cut
             ELSE UNCHANGED <<events, fin, cut>>
  BY Zenon DEF HandleWrite
<1>3. "write" \in events[c]
  BY Zenon DEF HandleWrite
<1> HIDE DEF w, o
<1> DEFINE p == SubSeq(o, 1, n)
           q == SubSeq(o, n + 1, Len(o))
<1>4. n \in 0 .. Len(o)
  BY <1>1
<1>5. p \in Seq(Int) /\ q \in Seq(Int) /\ p \o q = o /\ (n = Len(o) => q = <<>>)
  BY <1>1, <1>4, SplitSeq, Zenon
<1>6. wire' = [wire EXCEPT ![c] = w \o p] /\ out' = [out EXCEPT ![c] = q]
  BY <1>2, Zenon
<1> HIDE DEF p, q
<1>7. /\ w \o p \in Seq(Int) /\ Items(w \o p) = Items(w) \cup Items(p)
      /\ Items(o) = Items(p) \cup Items(q)
  BY <1>1, <1>5, ConcatAt, Zenon
<1>8. Bits' /\ wire'[c] = w \o p /\ out'[c] = q
  BY <1>5, <1>6, <1>7, Zenon DEF Bits
<1>9. OnlyAt(c)
  BY <1>2, <1>6, Zenon DEF Bits, OnlyAt, Types
<1>10. (w \o p) \o q = w \o o
  BY <1>1, <1>5, Regroup, Zenon
<1>11. wire'[c] \o out'[c] = wire[c] \o out[c]
  BY <1>8, <1>10, Zenon DEF w, o
<1>12. Items(wire[c]) \subseteq Items(wire'[c]) /\ Items(out[c]) \subseteq Items(wire'[c]) \cup Items(out'[c])
  BY <1>7, <1>8, Zenon DEF w, o
<1>13. CASE n = Len(o)
  <2>1. out'[c] = <<>>
    BY <1>5, <1>8, <1>13, Zenon
  <2>2. /\ fin' = IF FinWhenDrained(c) THEN fin \cup {c} ELSE fin
        /\ cut' = IF c \in fin' /\ Waiting(c) # {} THEN cut \cup {c} ELSE cut
    BY <1>2, <1>13, Zenon
  <2>3. QED
    BY <1>8, <1>9, <1>11, <1>12, <2>1, <2>2, Zenon
<1>14. CASE n # Len(o)
  <2>1. UNCHANGED <<events, fin, cut>>
    BY <1>2, <1>14, Zenon
  <2>2. QED
    BY <1>3, <1>8, <1>9, <1>11, <1>12, <2>1, Zenon
<1>15. QED
  BY <1>13, <1>14, Zenon

\* A functor that is called was queued.
LEMMA HeadQueued ==
  ASSUME Sends, NEW op, NEW more, Calls(op, more) PROVE Head(pending) \in Queued
BY DEF Sends, Calls

\* Only sendInLoop and handleWrite change what is on the wire or buffered.
LEMMA Writers ==
  ASSUME Inv, [Next]_vars
  PROVE  \/ UNCHANGED <<wire, out>>
         \/ \E c \in Conns, m \in Nat : SendInLoop(c, m)
         \/ \E c \in Conns : HandleWrite(c)
<1>0. Types /\ Sends /\ calls \in Nat
  BY Zenon DEF Inv, Types
<1>1. CASE UNCHANGED vars
  BY <1>1, Zenon DEF vars, connVars
<1>2. CASE LoopStep \/ ConnectorStep \/ ClientStep
  BY <1>2, Zenon DEF LoopStep, ConnectorStep, ClientStep, NewConnection, ConnectionUnwanted, RemoveConnection,
              RestartConnector, ConnectorRestarted, ConnectEstablished, connVars
<1>3. ASSUME NEW c \in Conns, Functors(c) PROVE UNCHANGED <<wire, out>> \/ \E m \in Nat : SendInLoop(c, m)
  <2>1. CASE SendFunctor(c)
    <3>1. Calls("send", <<>>) /\ SendInLoop(c, Head(pending).msg)
      BY <2>1, Zenon DEF SendFunctor
    <3>2. Head(pending) \in Queued
      BY <1>0, <3>1, HeadQueued, Zenon
    <3>3. Head(pending).msg \in Nat
      BY <3>2, Zenon DEF Queued
    <3>4. QED
      BY <3>1, <3>3, Zenon
  <2>2. QED
    BY <1>3, <2>1, Zenon DEF Functors, ShutdownFunctor, ForceCloseFunctor, ConnectDestroyed, connVars
<1>4. ASSUME NEW c \in Conns, Handlers(c) PROVE UNCHANGED <<wire, out>> \/ HandleWrite(c)
  BY <1>4, Zenon DEF Handlers, HandleRead, DelayTimer
<1>5. ASSUME NEW c \in Conns, Callbacks(c) PROVE UNCHANGED <<wire, out>> \/ \E m \in Nat : SendInLoop(c, m)
  <2>1. CASE LoopSend(c)
    <3>1. calls' \in Nat /\ SendInLoop(c, calls')
      BY <1>0, <2>1 DEF LoopSend, InLoop
    <3>2. QED
      BY <3>1, Zenon
  <2>2. QED
    BY <1>5, <2>1, Zenon DEF Callbacks, LoopShutdown, LoopForceClose, LoopForceCloseWithDelay
<1>6. CASE Stop \/ LoopDisconnect
  BY <1>6, Zenon DEF Stop, LoopDisconnect, LoopShutdown
<1>7. ASSUME NEW t \in Threads, \/ Disconnect(t) \/ DisconnectLocked(t) \/ Return(t)
                                \/ \E op \in {"send", "shutdown", "forceClose"}, c \in Conns : Call(t, op, c)
      PROVE  UNCHANGED <<wire, out>>
  BY <1>7, Zenon DEF Disconnect, DisconnectLocked, Return, Act, Call, Test
<1>8. QED
  BY <1>1, <1>2, <1>3, <1>4, <1>5, <1>6, <1>7, Zenon DEF Next

\* Whatever is written is whole.
LEMMA WholeStep ==
  ASSUME Inv, Bits, \A c \in Conns : Unbroken(wire[c] \o out[c]), [Next]_vars
  PROVE  Bits' /\ \A c \in Conns : Unbroken(wire'[c] \o out'[c])
<1>0. Types
  BY Zenon DEF Inv
<1>1. CASE UNCHANGED <<wire, out>>
  BY <1>1, Zenon DEF Bits
<1>2. ASSUME NEW c \in Conns, NEW m \in Nat, SendInLoop(c, m)
      PROVE  Bits' /\ \A b \in Conns : Unbroken(wire'[b] \o out'[b])
  <2>1. /\ Bits' /\ OnlyAt(c)
        /\ UNCHANGED <<wire, out>> \/ Adds(c, m)
    BY <1>0, <1>2, SendAdds, Zenon
  <2>2. wire[c] \o out[c] \in Seq(Int)
    BY ConcatAt, Zenon DEF Bits
  <2>3. Unbroken((wire[c] \o out[c]) \o Units(m))
    BY <2>2, UnbrokenMore, Zenon
  <2>4. Unbroken(wire'[c] \o out'[c])
    BY <2>1, <2>3, Zenon DEF Adds
  <2>5. QED
    BY <2>1, <2>4, Zenon DEF OnlyAt
<1>3. ASSUME NEW c \in Conns, HandleWrite(c)
      PROVE  Bits' /\ \A b \in Conns : Unbroken(wire'[b] \o out'[b])
  BY <1>0, <1>3, DrainMoves, Zenon DEF OnlyAt
<1>4. QED
  BY <1>1, <1>2, <1>3, Writers, Zenon

\* No message is torn, for any number of threads, calls and connections and
\* any partial writes: what sendInLoop could not write goes behind what is
\* buffered, and it writes directly only when nothing is.
THEOREM MessagesWhole == Spec => []Whole
<1> DEFINE Sound == Inv /\ Bits /\ \A c \in Conns : Unbroken(wire[c] \o out[c])
<1>1. Sound => Whole
  BY Zenon DEF Whole, Unbroken
<1>2. Init => Sound
  <2> SUFFICES ASSUME Init PROVE Bits /\ \A c \in Conns : Unbroken(wire[c] \o out[c])
    BY InvInit, Zenon
  <2>1. wire = [c \in Conns |-> <<>>] /\ out = [c \in Conns |-> <<>>]
    BY Zenon DEF Init, ConnInit
  <2>2. <<>> \in Seq(Int) /\ <<>> \o <<>> = <<>> /\ Unbroken(<<>>)
    BY DEF Unbroken
  <2>3. QED
    BY <2>1, <2>2, Zenon DEF Bits
<1>3. Sound /\ [Next]_vars => Sound'
  BY InvStep, WholeStep, Zenon
<1>4. QED
  BY <1>1, <1>2, <1>3, PTL DEF Spec

-----------------------------------------------------------------------------
Begun(c) == state[c] \notin {"none", "connected"}

\* The sendInLoop of m is pending, before any shutdownInLoop of c.
Ahead(c, m) ==
    \E j \in 1 .. Len(pending) :
        /\ pending[j] = [op |-> "send", conn |-> c, msg |-> m]
        /\ \A i \in 1 .. Len(pending) : pending[i].op = "shutdown" /\ pending[i].conn = c => j < i

\* Where a promised message is.
InHand(c, m) ==
    \/ Last(m) \in Items(wire[c])
    \/ c \notin fin /\ (Last(m) \in Items(out[c]) \/ Ahead(c, m))

\* While c is up and nothing of it was lost, what was promised is on the wire,
\* or c is not shut down yet and the message is buffered or on its way there.
\* The Channel is enabled for writing as long as something is buffered.
Flow(c) ==
    /\ promised[c] \subseteq 1 .. calls
    /\ promised[c] # {} \/ c \in fin => Begun(c)
    /\ ~Exists(c) => out[c] = <<>>
    /\ downs[c] = 0 => state[c] # "disconnected" /\ (out[c] # <<>> => "write" \in events[c])
    /\ downs[c] = 0 /\ c \notin lost \cup cut => \A m \in promised[c] : InHand(c, m)

\* shutdown() sets the state before it queues its functor.
Shuts ==
    \A i \in 1 .. Len(pending) :
        pending[i].op = "shutdown" => pending[i].conn \in Conns /\ Begun(pending[i].conn)

Flows ==
    /\ Bits /\ Shuts /\ promised \in [Conns -> SUBSET Nat] /\ fin \subseteq Conns
    /\ \A c \in Conns : Flow(c)

\* A pending sendInLoop keeps its place.
LEMMA AheadMoves ==
  ASSUME Sends, NEW c, NEW m, NEW k \in {0, 1}, NEW f \in Queued, Moves(k, f), Ahead(c, m),
         k = 1 => pending[1] # [op |-> "send", conn |-> c, msg |-> m]
  PROVE  Ahead(c, m)'
<1> DEFINE n == Len(pending)
           s == [op |-> "send", conn |-> c, msg |-> m]
<1>1. n \in Nat /\ Len(pending') \in Nat
  BY DEF Sends, Moves
<1>2. PICK j \in 1 .. n : /\ pending[j] = s
                          /\ \A i \in 1 .. n : pending[i].op = "shutdown" /\ pending[i].conn = c => j < i
  BY Zenon DEF Ahead
<1>3. k = 1 => j # 1
  BY <1>2, Zenon
<1> HIDE DEF s
<1>4. j - k \in 1 .. n - k /\ (j - k) + k = j
  BY <1>1, <1>3
<1>5. j - k \in 1 .. Len(pending') /\ pending'[j - k] = s
  BY <1>2, <1>4, Zenon DEF Moves
<1>6. ASSUME NEW i \in 1 .. Len(pending'), pending'[i].op = "shutdown", pending'[i].conn = c PROVE j - k < i
  <2>1. CASE i \in 1 .. n - k
    <3>1. i + k \in 1 .. n /\ pending'[i] = pending[i + k]
      BY <1>1, <2>1 DEF Moves
    <3>2. j < i + k
      BY <1>2, <1>6, <3>1, Zenon
    <3>3. QED
      BY <1>1, <3>2
  <2>2. CASE i = n - k + 1
    BY <1>1, <1>4, <2>2
  <2>3. QED
    BY <2>1, <2>2, Zenon DEF Moves
<1>7. QED
  BY <1>5, <1>6, Zenon DEF Ahead, s

LEMMA ShutsMoves ==
  ASSUME Sends, Shuts, NEW k \in {0, 1}, NEW f \in Queued, Moves(k, f),
         f.op = "shutdown" => f.conn \in Conns /\ Begun(f.conn)',
         \A b \in Conns : Begun(b) => Begun(b)'
  PROVE  Shuts'
<1>1. ASSUME NEW i \in 1 .. Len(pending'), pending'[i].op = "shutdown"
      PROVE  pending'[i].conn \in Conns /\ Begun(pending[i].conn)'
  <2>1. PICK g \in Queued : pending'[i] = g /\ g.conn \in Conns /\ Begun(g.conn)'
    <3>1. CASE i \in 1 .. Len(pending) - k
      <4>1. i + k \in 1 .. Len(pending) /\ pending'[i] = pending[i + k] /\ pending[i + k] \in Queued
        BY <3>1 DEF Moves, Sends
      <4>2. pending[i + k].conn \in Conns /\ Begun(pending[i + k].conn)
        BY <1>1, <4>1, Zenon DEF Shuts
      <4>3. QED
        BY <4>1, <4>2, Zenon
    <3>2. CASE pending'[i] = f
      BY <1>1, <3>2, Zenon
    <3>3. QED
      BY <3>1, <3>2, Zenon DEF Moves
  <2>2. QED
    BY <2>1, Zenon DEF Begun
<1>2. QED
  BY <1>1, Zenon DEF Shuts

\* A step that neither writes for c nor shuts it down.
LEMMA FlowSame ==
  ASSUME NEW c \in Conns, Flow(c), calls \in Nat, calls' \in Nat, calls <= calls',
         promised'[c] = promised[c], wire'[c] = wire[c], out'[c] = out[c],
         Begun(c) => Begun(c)', Exists(c) => Exists(c)',
         c \in fin' <=> c \in fin, lost \subseteq lost', cut \subseteq cut',
         downs'[c] = 0 => /\ downs[c] = 0 /\ state'[c] # "disconnected"
                          /\ events[c] \subseteq events'[c],
         \A m \in promised[c] : Ahead(c, m) => Ahead(c, m)'
  PROVE  Flow(c)'
<1>1. 1 .. calls \subseteq 1 .. calls'
  OBVIOUS
<1>2. /\ promised'[c] \subseteq 1 .. calls'
      /\ promised'[c] # {} \/ c \in fin' => Begun(c)'
      /\ ~Exists(c)' => out'[c] = <<>>
  BY <1>1, Zenon DEF Flow
<1>3. downs'[c] = 0 => state'[c] # "disconnected" /\ (out'[c] # <<>> => "write" \in events'[c])
  BY Zenon DEF Flow
<1>4. ASSUME downs'[c] = 0, c \notin lost' \cup cut', NEW m \in promised'[c] PROVE InHand(c, m)'
  <2>1. InHand(c, m) /\ (Ahead(c, m) => Ahead(c, m)')
    BY <1>4, Zenon DEF Flow
  <2>2. QED
    BY <2>1, Zenon DEF InHand
<1>5. QED
  BY <1>2, <1>3, <1>4, Zenon DEF Flow

\* What the state, the Channel and the downs of connections go through then.
Mild ==
    \A c \in Conns :
        /\ Begun(c) => Begun(c)'
        /\ Exists(c) => Exists(c)'
        /\ downs'[c] = 0 => /\ downs[c] = 0 /\ state'[c] # "disconnected"
                            /\ events[c] \subseteq events'[c]

\* One that does so for no connection.
LEMMA FlowsSame ==
  ASSUME Inv, Flows, NEW k \in {0, 1}, NEW f \in Queued, Moves(k, f),
         k = 1 => pending[1].op # "send",
         f.op = "shutdown" => f.conn \in Conns /\ Begun(f.conn)',
         UNCHANGED <<promised, wire, out, fin, lost, cut>>, calls' \in {calls, calls + 1},
         Mild
  PROVE  Flows'
<1>1. Sends /\ calls \in Nat /\ calls' \in Nat /\ calls <= calls'
  BY DEF Inv, Types
<1>2. Shuts'
  BY <1>1, ShutsMoves, Zenon DEF Flows, Mild
<1>3. ASSUME NEW c, NEW m, Ahead(c, m) PROVE Ahead(c, m)'
  <2>1. k = 1 => pending[1] # [op |-> "send", conn |-> c, msg |-> m]
    OBVIOUS
  <2>2. QED
    BY <1>1, <1>3, <2>1, AheadMoves, Zenon
<1>4. \A c \in Conns : Flow(c)'
  BY <1>1, <1>3, FlowSame, Zenon DEF Flows, Mild
<1>5. QED
  BY <1>2, <1>4, Zenon DEF Flows, Bits

\* sendInLoop of m: one that is pending may be called now.
LEMMA FlowSend ==
  ASSUME Inv, Flows, NEW c \in Conns, NEW m \in Nat, SendInLoop(c, m), Exists(c),
         NEW k \in {0, 1}, NEW f \in Queued, Moves(k, f), f.op # "shutdown",
         k = 1 => pending[1].op = "send" /\ pending[1].conn = c /\ pending[1].msg = m,
         UNCHANGED <<state, promised, fin, cut, downs>>, calls' \in {calls, calls + 1}
  PROVE  Flows'
<1>1. Types /\ Sends /\ calls \in Nat /\ calls' \in Nat /\ calls <= calls' /\ Bits
  BY DEF Inv, Types, Flows
<1>2. /\ Bits' /\ OnlyAt(c) /\ lost' \in {lost, lost \cup {c}}
      /\ \/ UNCHANGED <<wire, out, events>> /\ (state[c] = "disconnected" \/ c \in lost')
         \/ Adds(c, m)
  BY <1>1, SendAdds, Zenon
<1>3. \A b \in Conns : (Begun(b) <=> Begun(b)') /\ (Exists(b) <=> Exists(b)')
  BY Zenon DEF Begun, Exists
<1>4. Shuts'
  BY <1>1, <1>3, ShutsMoves, Zenon DEF Flows
<1>5. ASSUME NEW b, NEW l, Ahead(b, l), b # c \/ l # m PROVE Ahead(b, l)'
  <2>1. k = 1 => pending[1] # [op |-> "send", conn |-> b, msg |-> l]
    BY <1>5
  <2>2. QED
    BY <1>1, <1>5, <2>1, AheadMoves, Zenon
<1>6. ASSUME NEW b \in Conns \ {c} PROVE Flow(b)'
  <2>1. wire'[b] = wire[b] /\ out'[b] = out[b] /\ events'[b] = events[b]
    BY <1>2, Zenon DEF OnlyAt
  <2>2. downs'[b] = 0 => downs[b] = 0 /\ state'[b] # "disconnected"
    BY Zenon DEF Flows, Flow
  <2>3. lost \subseteq lost' /\ cut \subseteq cut' /\ promised'[b] = promised[b]
    BY <1>2, Zenon
  <2>4. QED
    BY <1>1, <1>3, <1>5, <2>1, <2>2, <2>3, FlowSame, Zenon DEF Flows
<1>7. Flow(c)'
  <2>1. Flow(c) /\ 1 .. calls \subseteq 1 .. calls'
    BY <1>1 DEF Flows
  <2>2. /\ promised'[c] \subseteq 1 .. calls'
        /\ promised'[c] # {} \/ c \in fin' => Begun(c)'
        /\ ~Exists(c)' => out'[c] = <<>>
    BY <1>3, <2>1, Zenon DEF Flow
  <2>3. downs'[c] = 0 => state'[c] # "disconnected" /\ (out'[c] # <<>> => "write" \in events'[c])
    BY <1>2, <2>1, Zenon DEF Flow, Adds
  <2>4. ASSUME downs'[c] = 0, c \notin lost' \cup cut', NEW l \in promised'[c] PROVE InHand(c, l)'
    <3>1. InHand(c, l) /\ state[c] # "disconnected"
      BY <1>2, <2>1, <2>4, Zenon DEF Flow
    <3>2. Adds(c, m)
      BY <1>2, <2>4, <3>1, Zenon
    <3>3. CASE Last(l) \in Items(wire[c])
      BY <3>2, <3>3, Zenon DEF Adds, InHand
    <3>4. CASE c \notin fin /\ Last(l) \in Items(out[c])
      BY <3>2, <3>4, Zenon DEF Adds, InHand
    <3>5. CASE c \notin fin /\ Ahead(c, l)
      <4>1. CASE l = m
        BY <3>2, <3>5, <4>1, Zenon DEF Adds, InHand
      <4>2. CASE l # m
        BY <1>5, <3>5, <4>2, Zenon DEF InHand
      <4>3. QED
        BY <4>1, <4>2, Zenon
    <3>6. QED
      BY <3>1, <3>3, <3>4, <3>5, Zenon DEF InHand
  <2>5. QED
    BY <2>2, <2>3, <2>4, Zenon DEF Flow
<1>8. QED
  BY <1>2, <1>4, <1>6, <1>7, Zenon DEF Flows

\* handleWrite: what it cuts off is marked.
LEMMA FlowDrain ==
  ASSUME Inv, Flows, NEW c \in Conns, HandleWrite(c)
  PROVE  Flows'
<1>1. Types /\ Sends /\ calls \in Nat /\ Bits
  BY Zenon DEF Inv, Types, Flows
<1>2. UNCHANGED <<pending, state, calls, downs, promised, lost>> /\ "write" \in events[c]
  BY Zenon DEF HandleWrite
<1>3. /\ Bits' /\ OnlyAt(c)
      /\ Items(wire[c]) \subseteq Items(wire'[c])
      /\ Items(out[c]) \subseteq Items(wire'[c]) \cup Items(out'[c])
      /\ \/ UNCHANGED <<fin, cut>> /\ events' = events /\ "write" \in events[c]
         \/ /\ out'[c] = <<>>
            /\ fin' = IF FinWhenDrained(c) THEN fin \cup {c} ELSE fin
            /\ cut' = IF c \in fin' /\ Waiting(c) # {} THEN cut \cup {c} ELSE cut
  BY <1>1, DrainMoves, Zenon
<1>4. fin' \in {fin, fin \cup {c}} /\ cut' \in {cut, cut \cup {c}} /\ calls <= calls'
  BY <1>1, <1>2, <1>3
<1>5. \A b \in Conns : (Begun(b) <=> Begun(b)') /\ (Exists(b) <=> Exists(b)')
  BY <1>2, Zenon DEF Begun, Exists
<1>6. Shuts'
  BY <1>2, Zenon DEF Flows, Shuts, Begun
<1>7. \A b, m : Ahead(b, m) => Ahead(b, m)'
  BY <1>2, Zenon DEF Ahead
<1>8. ASSUME NEW b \in Conns \ {c} PROVE Flow(b)'
  <2>1. wire'[b] = wire[b] /\ out'[b] = out[b] /\ events'[b] = events[b]
    BY <1>3, Zenon DEF OnlyAt
  <2>2. downs'[b] = 0 => downs[b] = 0 /\ state'[b] # "disconnected"
    BY <1>2, Zenon DEF Flows, Flow
  <2>3. /\ lost \subseteq lost' /\ cut \subseteq cut' /\ promised'[b] = promised[b] /\ calls' \in Nat
        /\ b \in fin' <=> b \in fin
    BY <1>1, <1>2, <1>4, Zenon
  <2>4. QED
    BY <1>1, <1>4, <1>5, <1>7, <2>1, <2>2, <2>3, FlowSame, Zenon DEF Flows
<1>9. Flow(c)'
  <2>1. Flow(c)
    BY Zenon DEF Flows
  <2>2. Exists(c)
    BY <1>2, Zenon DEF Inv, ConnInv, Down
  <2>3. promised'[c] # {} \/ c \in fin' => Begun(c)'
    BY <1>2, <1>3, <1>5, <2>1, Zenon DEF Flow, FinWhenDrained, Begun
  <2>4. downs'[c] = 0 => state'[c] # "disconnected" /\ (out'[c] # <<>> => "write" \in events'[c])
    BY <1>2, <1>3, <2>1, Zenon DEF Flow
  <2>5. ASSUME downs'[c] = 0, c \notin lost' \cup cut', NEW m \in promised'[c] PROVE InHand(c, m)'
    <3>1. InHand(c, m) /\ m \in 1 .. calls
      BY <1>2, <1>4, <2>1, <2>5, Zenon DEF Flow
    <3>2. CASE Last(m) \in Items(wire[c])
      BY <1>3, <3>2, Zenon DEF InHand
    <3>3. CASE c \notin fin'
      BY <1>3, <1>4, <1>7, <3>1, <3>3, Zenon DEF InHand
    <3>4. CASE c \in fin' /\ c \notin fin
      <4>1. out'[c] = <<>> /\ Waiting(c) = {}
        BY <1>3, <2>5, <3>4, Zenon
      <4>2. Items(out'[c]) = {}
        BY <4>1 DEF Items
      <4>3. ~Ahead(c, m)
        BY <3>1, <4>1, Zenon DEF Waiting, Ahead, Items
      <4>4. QED
        BY <1>3, <3>1, <4>2, <4>3, Zenon DEF InHand
    <3>5. CASE c \in fin
      BY <3>1, <3>2, <3>5, Zenon DEF InHand
    <3>6. QED
      BY <3>3, <3>4, <3>5, Zenon
  <2>6. QED
    BY <1>2, <1>5, <2>1, <2>2, <2>3, <2>4, <2>5, Zenon DEF Flow
<1>10. QED
  BY <1>2, <1>3, <1>4, <1>6, <1>8, <1>9, Zenon DEF Flows

\* shutdownInLoop, when no promised message is on its way to the buffer.
LEMMA FlowFin ==
  ASSUME Inv, Flows, NEW c \in Conns, ShutdownInLoop(c),
         NEW k \in {0, 1}, NEW f \in Queued, Moves(k, f), f.op # "shutdown",
         k = 1 => pending[1].op # "send",
         UNCHANGED <<events, out, wire, downs, lost, cut>>, calls' \in {calls, calls + 1},
         \A b \in Conns \ {c} : state'[b] = state[b] /\ promised'[b] = promised[b],
         promised' \in [Conns -> SUBSET Nat], promised'[c] \subseteq 1 .. calls,
         Begun(c)', state'[c] \in {state[c], "disconnecting"},
         downs[c] = 0 /\ c \notin lost \cup cut =>
            \A m \in promised'[c] : Last(m) \in Items(wire[c]) \/ (c \notin fin /\ Last(m) \in Items(out[c]))
  PROVE  Flows'
<1>1. Types /\ Sends /\ calls \in Nat /\ calls' \in Nat /\ calls <= calls' /\ Bits
  BY DEF Inv, Types, Flows
<1>2. fin' = IF FinNow(c) THEN fin \cup {c} ELSE fin
  BY Zenon DEF ShutdownInLoop
<1>3. \A b \in Conns : Begun(b) => Begun(b)'
  BY Zenon DEF Begun
<1>4. Shuts'
  BY <1>1, <1>3, ShutsMoves, Zenon DEF Flows
<1>5. ASSUME NEW b \in Conns \ {c} PROVE Flow(b)'
  <2>1. ASSUME NEW m, Ahead(b, m) PROVE Ahead(b, m)'
    <3>1. k = 1 => pending[1] # [op |-> "send", conn |-> b, msg |-> m]
      OBVIOUS
    <3>2. QED
      BY <1>1, <2>1, <3>1, AheadMoves, Zenon
  <2>2. downs'[b] = 0 => downs[b] = 0 /\ state'[b] # "disconnected" /\ events[b] \subseteq events'[b]
    BY Zenon DEF Flows, Flow
  <2>3. (Exists(b) => Exists(b)') /\ (b \in fin' <=> b \in fin)
    BY <1>2, Zenon DEF Exists
  <2>4. QED
    BY <1>1, <1>3, <2>1, <2>2, <2>3, FlowSame, Zenon DEF Flows
<1>6. Flow(c)'
  <2>1. Flow(c) /\ 1 .. calls \subseteq 1 .. calls'
    BY <1>1 DEF Flows
  <2>2. Exists(c)'
    BY Zenon DEF Begun, Exists
  <2>3. downs'[c] = 0 => state'[c] # "disconnected" /\ (out'[c] # <<>> => "write" \in events'[c])
    BY <2>1, Zenon DEF Flow
  <2>4. ASSUME downs'[c] = 0, c \notin lost' \cup cut', NEW m \in promised'[c] PROVE InHand(c, m)'
    <3>1. Last(m) \in Items(wire[c]) \/ (c \notin fin /\ Last(m) \in Items(out[c]))
      BY <2>4, Zenon
    <3>2. CASE FinNow(c)
      <4>1. out[c] = <<>>
        BY <2>1, <2>4, <3>2, Zenon DEF Flow, FinNow
      <4>2. Items(out[c]) = {}
        BY <4>1 DEF Items
      <4>3. QED
        BY <3>1, <4>2, Zenon DEF InHand
    <3>3. CASE ~FinNow(c)
      BY <1>2, <3>1, <3>3, Zenon DEF InHand
    <3>4. QED
      BY <3>2, <3>3, Zenon
  <2>5. QED
    BY <2>1, <2>2, <2>3, <2>4, Zenon DEF Flow
<1>7. QED
  BY <1>2, <1>4, <1>5, <1>6, Zenon DEF Flows, Bits

\* The shutdownInLoop that another thread has queued.
LEMMA FlowShutdown ==
  ASSUME Inv, Flows, NEW c \in Conns, ShutdownFunctor(c)
  PROVE  Flows'
<1>1. Types /\ Sends /\ Flow(c) /\ promised \in [Conns -> SUBSET Nat] /\ calls \in Nat
  BY Zenon DEF Inv, Flows, Types
<1>2. /\ Calls("shutdown", <<>>) /\ Head(pending).conn = c /\ ShutdownInLoop(c)
      /\ UNCHANGED <<state, events, out, wire, calls, downs, promised, lost, cut>>
  BY Zenon DEF ShutdownFunctor
<1>3. PICK f \in Queued : f.op = "start"
  BY StartRecord, Zenon
<1>4. Moves(1, f) /\ 1 \in 1 .. Len(pending) /\ pending[1] = Head(pending) /\ pending[1].op = "shutdown"
  BY <1>1, <1>2, CallMoves, Zenon
<1>5. Begun(c)
  BY <1>2, <1>4, Zenon DEF Flows, Shuts
<1>6. \A m : ~Ahead(c, m)
  <2>1. ASSUME NEW m, Ahead(c, m) PROVE FALSE
    <3>1. PICK j \in 1 .. Len(pending) : j < 1
      BY <1>2, <1>4, <2>1, Zenon DEF Ahead
    <3>2. QED
      BY <3>1
  <2>2. QED
    BY <2>1, Zenon
<1>7. downs[c] = 0 /\ c \notin lost \cup cut =>
         \A m \in promised'[c] : Last(m) \in Items(wire[c]) \/ (c \notin fin /\ Last(m) \in Items(out[c]))
  BY <1>1, <1>2, <1>6, Zenon DEF Flow, InHand
<1>8. Begun(c)' /\ promised'[c] \subseteq 1 .. calls
  BY <1>1, <1>2, <1>5, Zenon DEF Begun, Flow
<1>9. QED
  BY <1>1, <1>2, <1>3, <1>4, <1>7, <1>8, FlowFin, Zenon

\* shutdown() in the loop's thread.
LEMMA FlowLoopShutdown ==
  ASSUME Inv, Flows, NEW c \in Conns, LoopShutdown(c)
  PROVE  Flows'
<1>1. Types /\ Sends /\ Flow(c) /\ promised \in [Conns -> SUBSET Nat] /\ Bits /\ calls \in Nat
  BY Zenon DEF Inv, Flows, Types
<1>2. /\ state[c] = "connected" /\ state' = [state EXCEPT ![c] = "disconnecting"]
      /\ promised' = [promised EXCEPT ![c] = Written(c)] /\ ShutdownInLoop(c)
      /\ UNCHANGED <<pending, events, out, wire, downs, lost, cut>> /\ calls' = calls + 1
  BY Zenon DEF LoopShutdown, InLoop
<1>3. PICK f \in Queued : f.op = "start"
  BY StartRecord, Zenon
<1>4. Moves(0, f)
  BY <1>1, <1>2, QueueMoves, Zenon
<1>5. Written(c) \subseteq 1 .. calls /\ Written(c) \subseteq Nat
  BY <1>1 DEF Written
<1>6. /\ promised' \in [Conns -> SUBSET Nat] /\ promised'[c] = Written(c)
      /\ state'[c] = "disconnecting"
      /\ \A b \in Conns \ {c} : state'[b] = state[b] /\ promised'[b] = promised[b]
  BY <1>1, <1>2, <1>5, Zenon DEF Types
<1>7. c \notin fin
  BY <1>1, <1>2, Zenon DEF Flow, Begun
<1>8. Items(wire[c] \o out[c]) = Items(wire[c]) \cup Items(out[c])
  BY <1>1, ConcatAt, Zenon DEF Bits
<1>9. \A m \in promised'[c] : Last(m) \in Items(wire[c]) \/ (c \notin fin /\ Last(m) \in Items(out[c]))
  BY <1>6, <1>7, <1>8, Zenon DEF Written
<1>10. Begun(c)'
  BY <1>6, Zenon DEF Begun
<1>11. QED
  BY <1>2, <1>3, <1>4, <1>5, <1>6, <1>9, <1>10, FlowFin, SMTT(30)

\* shutdown() of another thread promises what is written or waiting.
LEMMA FlowPromise ==
  ASSUME Inv, Flows, NEW t \in Threads, Return(t), NEW c \in Conns, tpc[t].conn = c,
         tpc[t].op = "shutdown", state[c] = "connected"
  PROVE  Flows'
<1>1. /\ c # 0 /\ pending' = Append(pending, tpc[t])
      /\ state' = [state EXCEPT ![c] = "disconnecting"]
      /\ promised' = [promised EXCEPT ![c] = Written(c) \cup Waiting(c)]
      /\ UNCHANGED <<events, out, wire, fin, calls, downs, lost, cut>>
  BY Zenon DEF Return, Act
<1>2. Types /\ Sends /\ Busy /\ promised \in [Conns -> SUBSET Nat] /\ Bits /\ calls \in Nat
  BY Zenon DEF Inv, Flows, Types
<1>3. c \in Conns /\ tpc[t] \in Queued
  BY <1>1, <1>2, Zenon DEF Busy, Types
<1>4. Flow(c)
  BY <1>3, Zenon DEF Flows
<1>5. PICK f \in Queued : f = tpc[t] /\ f.conn = c /\ pending' = Append(pending, f)
  BY <1>1, <1>3, Zenon
<1>6. Moves(0, f)
  BY <1>2, <1>5, QueueMoves, Zenon
<1>7. Written(c) \cup Waiting(c) \subseteq 1 .. calls /\ Written(c) \cup Waiting(c) \subseteq Nat
  BY <1>2 DEF Written, Waiting
<1>8. /\ promised' \in [Conns -> SUBSET Nat] /\ promised'[c] = Written(c) \cup Waiting(c)
      /\ state'[c] = "disconnecting"
      /\ \A b \in Conns \ {c} : state'[b] = state[b] /\ promised'[b] = promised[b]
  BY <1>1, <1>2, <1>3, <1>7, Zenon DEF Types
<1>9. \A b \in Conns : Begun(b) => Begun(b)'
  BY <1>8, Zenon DEF Begun
<1>10. Begun(c)'
  BY <1>8, Zenon DEF Begun
<1>11. Shuts'
  <2>1. f.conn \in Conns /\ Begun(f.conn)'
    BY <1>5, <1>10, Zenon
  <2>2. QED
    BY <1>2, <1>6, <1>9, <2>1, ShutsMoves, Zenon DEF Flows
<1>12. ASSUME NEW b, NEW m, Ahead(b, m) PROVE Ahead(b, m)'
  <2>1. PICK k \in {0, 1} : k = 0
    BY Zenon
  <2>2. Moves(k, f) /\ (k = 1 => pending[1] # [op |-> "send", conn |-> b, msg |-> m])
    BY <1>6, <2>1
  <2>3. QED
    BY <1>2, <1>12, <2>2, AheadMoves, Zenon
<1>13. ASSUME NEW b \in Conns \ {c} PROVE Flow(b)'
  <2>1. b \in Conns /\ Flow(b) /\ state'[b] = state[b] /\ promised'[b] = promised[b]
    BY <1>8, Zenon DEF Flows
  <2>2. downs'[b] = 0 => downs[b] = 0 /\ state'[b] # "disconnected" /\ events[b] \subseteq events'[b]
    BY <1>1, <2>1, Zenon DEF Flow
  <2>3. (Begun(b) => Begun(b)') /\ (Exists(b) => Exists(b)') /\ (b \in fin' <=> b \in fin)
    BY <1>1, <2>1, Zenon DEF Begun, Exists
  <2>4. /\ wire'[b] = wire[b] /\ out'[b] = out[b] /\ lost \subseteq lost' /\ cut \subseteq cut'
        /\ calls' = calls
    BY <1>1, Zenon
  <2>5. calls' \in Nat /\ calls <= calls'
    BY <1>2, <2>4
  <2>6. QED
    BY <1>2, <1>12, <2>1, <2>2, <2>3, <2>4, <2>5, FlowSame, Zenon
<1>14. Flow(c)'
  <2>1. c \notin fin
    BY <1>4, Zenon DEF Flow, Begun
  <2>2. downs'[c] = 0 => state'[c] # "disconnected" /\ (out'[c] # <<>> => "write" \in events'[c])
    BY <1>1, <1>4, <1>8, Zenon DEF Flow
  <2>3. Items(wire[c] \o out[c]) = Items(wire[c]) \cup Items(out[c])
    BY <1>2, <1>3, ConcatAt DEF Bits
  <2>4. ASSUME NEW m \in promised'[c] PROVE InHand(c, m)'
    <3>1. CASE m \in Written(c)
      BY <1>1, <2>1, <2>3, <3>1, Zenon DEF Written, InHand
    <3>2. CASE m \in Waiting(c)
      <4>1. PICK j \in 1 .. Len(pending) : pending[j] = [op |-> "send", conn |-> c, msg |-> m]
        BY <3>2, Zenon DEF Waiting, Items
      <4>2. \A i \in 1 .. Len(pending) : ~(pending[i].op = "shutdown" /\ pending[i].conn = c)
        BY Zenon DEF Flows, Shuts, Begun
      <4>3. Ahead(c, m)
        BY <4>1, <4>2, Zenon DEF Ahead
      <4>4. QED
        BY <1>1, <1>12, <2>1, <4>3, Zenon DEF InHand
    <3>3. QED
      BY <1>8, <3>1, <3>2, Zenon
  <2>5. Exists(c)'
    BY <1>8, Zenon DEF Exists
  <2>6. QED
    BY <1>1, <1>7, <1>8, <1>10, <2>2, <2>4, <2>5, Zenon DEF Flow
<1>15. QED
  BY <1>1, <1>8, <1>11, <1>13, <1>14, Zenon DEF Flows, Bits

\* Steps that are mild: those that leave the connections alone, make one,
\* begin to close one or close one.
LEMMA MildSteps ==
  ASSUME Inv, Flows
  PROVE  /\ UNCHANGED <<state, events, downs>> => Mild
         /\ \A c \in Conns :
               /\ state' = [state EXCEPT ![c] = "disconnecting"] /\ UNCHANGED <<events, downs>> => Mild
               /\ HandleClose(c) => Mild
               /\ ~Exists(c) /\ ConnectEstablished(c) => Mild
<1>0. Types /\ ConnInv /\ \A c \in Conns : downs[c] = 0 => state[c] # "disconnected"
  BY Zenon DEF Inv, Flows, Flow
<1>1. ASSUME UNCHANGED <<state, events, downs>> PROVE Mild
  BY <1>0, <1>1, Zenon DEF Mild, Begun, Exists
<1>2. ASSUME NEW c \in Conns, state' = [state EXCEPT ![c] = "disconnecting"], UNCHANGED <<events, downs>>
      PROVE  Mild
  <2>1. state'[c] = "disconnecting" /\ \A b \in Conns \ {c} : state'[b] = state[b]
    BY <1>0, <1>2, Zenon DEF Types
  <2>2. QED
    BY <1>0, <1>2, <2>1, Zenon DEF Mild, Begun, Exists
<1>3. ASSUME NEW c \in Conns, HandleClose(c) PROVE Mild
  <2>1. /\ state'[c] = "disconnected" /\ downs'[c] = downs[c] + 1
        /\ \A b \in Conns \ {c} : state'[b] = state[b] /\ events'[b] = events[b] /\ downs'[b] = downs[b]
    BY <1>0, <1>3, Zenon DEF Types, HandleClose
  <2>2. downs[c] + 1 # 0
    BY <1>0 DEF Types
  <2>3. QED
    BY <1>0, <2>1, <2>2, Zenon DEF Mild, Begun, Exists
<1>4. ASSUME NEW c \in Conns, ~Exists(c), ConnectEstablished(c) PROVE Mild
  <2>1. /\ state'[c] = "connected" /\ downs' = downs
        /\ \A b \in Conns \ {c} : state'[b] = state[b] /\ events'[b] = events[b]
    BY <1>0, <1>4, Zenon DEF Types, ConnectEstablished
  <2>2. events[c] = {} /\ ~Begun(c)
    BY <1>0, <1>4, Zenon DEF ConnInv, Down, Begun, Exists
  <2>3. QED
    BY <1>0, <2>1, <2>2, Zenon DEF Mild, Begun, Exists
<1>5. QED
  BY <1>1, <1>2, <1>3, <1>4, Zenon

\* The loop, the Connector and the client.
LEMMA FlowLoop ==
  ASSUME Inv, Flows, LoopStep \/ ConnectorStep \/ ClientStep
  PROVE  Flows'
<1>0. Types /\ Sends /\ InTurn
  BY Zenon DEF Inv
<1>1. UNCHANGED <<promised, wire, out, fin, lost, cut, calls>>
  BY Zenon DEF LoopStep, ConnectorStep, ClientStep, NewConnection, ConnectionUnwanted, RemoveConnection,
         RestartConnector, ConnectorRestarted, ConnectEstablished, connVars
<1>2. Mild
  <2>1. CASE NewConnection
    <3>1. Made + 1 \in Conns /\ ~Exists(Made + 1) /\ ConnectEstablished(Made + 1)
      BY <1>0, <2>1, NextInTurn, Zenon DEF NewConnection
    <3>2. QED
      BY <3>1, MildSteps, Zenon
  <2>2. CASE ~NewConnection
    <3>1. UNCHANGED <<state, events, downs>>
      BY <2>2, Zenon DEF LoopStep, ConnectorStep, ClientStep, ConnectionUnwanted, RemoveConnection,
                  RestartConnector, ConnectorRestarted, connVars
    <3>2. QED
      BY <3>1, MildSteps, Zenon
  <2>3. QED
    BY <2>1, <2>2, Zenon
<1>3. \E k \in {0, 1}, f \in Queued : Moves(k, f) /\ f.op # "shutdown" /\ (k = 1 => pending[1].op # "send")
  <2>1. ResetChannelFunctor \in Queued /\ ResetChannelFunctor.op # "shutdown"
    BY Records, Zenon
  <2>2. ASSUME NEW op \in {"start", "stop", "resetChannel"}, NEW more \in {<<>>, <<ResetChannelFunctor>>},
               Calls(op, more)
        PROVE  Moves(1, ResetChannelFunctor) /\ pending[1].op # "send"
    BY <1>0, <2>1, <2>2, CallMoves, Zenon
  <2>3. ASSUME pending' \in {pending, pending \o <<ResetChannelFunctor>>}
        PROVE  Moves(0, ResetChannelFunctor)
    BY <1>0, <2>1, <2>3, QueueMoves, Zenon
  <2>4. CASE StartFunctor \/ StopFunctor \/ ResetChannel
    <3>1. \E op \in {"start", "stop", "resetChannel"}, more \in {<<>>, <<ResetChannelFunctor>>} : Calls(op, more)
      BY <2>4, Zenon DEF StartFunctor, StopFunctor, ResetChannel, RemoveAndResetChannel
    <3>2. QED
      BY <2>1, <2>2, <3>1, Zenon
  <2>5. CASE LoopStep \/ RetryTimer \/ ConnectFails \/ NewConnection \/ ConnectionUnwanted \/ RestartConnector
             \/ ConnectorRestarted
    <3>1. pending' \in {pending, pending \o <<ResetChannelFunctor>>}
      BY <2>5, Zenon DEF LoopStep, Poll, SwapFunctors, RetryTimer, ConnectFails, NewConnection, ConnectionUnwanted,
                  ConnectSucceeds, RemoveAndResetChannel, RestartConnector, ConnectorRestarted
    <3>2. QED
      BY <2>1, <2>3, <3>1
  <2>6. CASE RemoveConnection
    <3>1. PICK f \in Queued : f.op = "connectDestroyed" /\ pending' = Append(pending, f)
      <4>1. rest.conn \in Nat /\ pending' = Append(pending, Functor("connectDestroyed", rest.conn))
        BY <1>0, <2>6, Zenon DEF RemoveConnection, Types, Rests
      <4>2. QED
        BY <4>1, Records, Zenon DEF Ops
    <3>2. Moves(0, f)
      BY <1>0, <3>1, QueueMoves, Zenon
    <3>3. QED
      BY <3>1, <3>2
  <2>7. QED
    BY <2>4, <2>5, <2>6, Zenon DEF ConnectorStep, ClientStep
<1>4. QED
  BY <1>1, <1>2, <1>3, FlowsSame, Zenon

\* Functors and handlers of a connection.
LEMMA FlowConn ==
  ASSUME Inv, Flows, NEW c \in Conns, Functors(c) \/ Handlers(c)
  PROVE  Flows'
<1>0. Types /\ Sends
  BY Zenon DEF Inv
<1>1. PICK idle \in Queued : idle.op = "start"
  BY StartRecord, Zenon
<1>2. CASE SendFunctor(c)
  <2>1. /\ Calls("send", <<>>) /\ Head(pending).conn = c /\ SendInLoop(c, Head(pending).msg)
        /\ UNCHANGED <<state, fin, calls, downs, promised, cut>>
    BY <1>2, Zenon DEF SendFunctor
  <2>2. /\ Moves(1, idle) /\ pending[1] = Head(pending) /\ pending[1].op = "send" /\ pending[1] \in Queued
        /\ 1 \in 1 .. Len(pending)
    BY <1>0, <1>1, <2>1, CallMoves, Zenon
  <2>3. PICK m \in Nat : m = pending[1].msg
    BY <2>2, Zenon DEF Queued
  <2>4. Exists(c)
    BY <1>0, <2>1, <2>2, Zenon DEF Sends
  <2>5. QED
    BY <1>1, <2>1, <2>2, <2>3, <2>4, FlowSend, Zenon
<1>3. CASE ShutdownFunctor(c)
  BY <1>3, FlowShutdown, Zenon
<1>4. CASE ForceCloseFunctor(c) \/ ConnectDestroyed(c)
  <2>1. \E op \in {"forceClose", "connectDestroyed"} : Calls(op, <<>>)
    BY <1>4, Zenon DEF ForceCloseFunctor, ConnectDestroyed
  <2>2. Moves(1, idle) /\ pending[1].op # "send"
    BY <1>0, <1>1, <2>1, CallMoves, Zenon
  <2>3. UNCHANGED <<promised, wire, out, fin, lost, cut, calls>>
    BY <1>4, Zenon DEF ForceCloseFunctor, ConnectDestroyed, connVars
  <2>4. HandleClose(c) \/ UNCHANGED <<state, events, downs>>
    BY <1>4, Zenon DEF ForceCloseFunctor, ConnectDestroyed, connVars
  <2>5. Mild
    BY <2>4, MildSteps, Zenon
  <2>6. QED
    BY <1>1, <2>2, <2>3, <2>5, FlowsSame, Zenon
<1>5. CASE HandleRead(c)
  <2>1. HandleClose(c) /\ UNCHANGED <<pending, promised, wire, out, fin, lost, cut, calls>>
    BY <1>5, Zenon DEF HandleRead
  <2>2. Moves(0, idle) /\ Mild
    BY <1>0, <1>1, <2>1, QueueMoves, MildSteps, Zenon
  <2>3. QED
    BY <1>1, <2>1, <2>2, FlowsSame
<1>6. CASE HandleWrite(c)
  BY <1>6, FlowDrain, Zenon
<1>7. CASE DelayTimer(c)
  <2>1. PICK f \in Queued : f.op = "forceClose" /\ pending' \in {pending, Append(pending, f)}
    <3>1. Functor("forceClose", c) \in Queued /\ Functor("forceClose", c).op = "forceClose"
      BY Records, Zenon DEF Ops
    <3>2. pending' \in {pending, Append(pending, Functor("forceClose", c))}
      BY <1>7, Zenon DEF DelayTimer
    <3>3. QED
      BY <3>1, <3>2, Zenon
  <2>2. /\ UNCHANGED <<events, downs, promised, wire, out, fin, lost, cut, calls>>
        /\ state' = state \/ state' = [state EXCEPT ![c] = "disconnecting"]
    BY <1>7, Zenon DEF DelayTimer
  <2>3. Moves(0, f) /\ Mild
    BY <1>0, <2>1, <2>2, QueueMoves, MildSteps, Zenon
  <2>4. QED
    BY <2>1, <2>2, <2>3, FlowsSame
<1>8. QED
  BY <1>2, <1>3, <1>4, <1>5, <1>6, <1>7, Zenon DEF Functors, Handlers

\* Callbacks and stop.
LEMMA FlowUser ==
  ASSUME Inv, Flows, Stop \/ LoopDisconnect \/ \E c \in Conns : Callbacks(c)
  PROVE  Flows'
<1>0. Types /\ Sends /\ calls \in Nat
  BY Zenon DEF Inv, Types
<1>1. PICK idle \in Queued : idle.op = "start"
  BY StartRecord, Zenon
<1>2. CASE Stop
  <2>1. PICK f \in Queued : f.op = "stop" /\ pending' = Append(pending, f)
    BY <1>2, Records DEF Stop, Ops
  <2>2. UNCHANGED <<state, events, downs, promised, wire, out, fin, lost, cut>> /\ calls' = calls + 1
    BY <1>2, Zenon DEF Stop
  <2>3. Moves(0, f) /\ Mild
    BY <1>0, <2>1, <2>2, QueueMoves, MildSteps, Zenon
  <2>4. QED
    BY <2>1, <2>2, <2>3, FlowsSame
<1>3. CASE LoopDisconnect
  <2>1. CASE conn # 0 /\ state[conn] = "connected"
    <3>1. conn \in Conns /\ LoopShutdown(conn)
      BY <1>3, <2>1, Zenon DEF LoopDisconnect, Inv, Busy
    <3>2. QED
      BY <3>1, FlowLoopShutdown, Zenon
  <2>2. CASE ~(conn # 0 /\ state[conn] = "connected")
    <3>1. UNCHANGED <<pending, state, events, downs, promised, wire, out, fin, lost, cut>> /\ calls' = calls + 1
      BY <1>3, <2>2, Zenon DEF LoopDisconnect, InLoop
    <3>2. Moves(0, idle) /\ Mild
      BY <1>0, <1>1, <3>1, QueueMoves, MildSteps, Zenon
    <3>3. QED
      BY <1>1, <3>1, <3>2, FlowsSame
  <2>3. QED
    BY <2>1, <2>2, Zenon
<1>4. ASSUME NEW c \in Conns, LoopSend(c) PROVE Flows'
  <2>1. /\ SendInLoop(c, calls') /\ calls' = calls + 1 /\ state[c] = "connected"
        /\ UNCHANGED <<pending, state, fin, downs, promised, cut>>
    BY <1>4, Zenon DEF LoopSend, InLoop
  <2>2. PICK m \in Nat : m = calls'
    BY <1>0, <2>1
  <2>3. Moves(0, idle) /\ Exists(c)
    BY <1>0, <1>1, <2>1, QueueMoves, Zenon DEF Exists
  <2>4. QED
    BY <1>1, <2>1, <2>2, <2>3, FlowSend
<1>5. ASSUME NEW c \in Conns, LoopForceClose(c) \/ LoopForceCloseWithDelay(c) PROVE Flows'
  <2>1. PICK f \in Queued : f.op = "forceClose" /\ pending' \in {pending, Append(pending, f)}
    <3>1. Functor("forceClose", c) \in Queued /\ Functor("forceClose", c).op = "forceClose"
      BY Records, Zenon DEF Ops
    <3>2. pending' \in {pending, Append(pending, Functor("forceClose", c))}
      BY <1>5, Zenon DEF LoopForceClose, LoopForceCloseWithDelay
    <3>3. QED
      BY <3>1, <3>2, Zenon
  <2>2. /\ UNCHANGED <<events, downs, promised, wire, out, fin, lost, cut>> /\ calls' = calls + 1
        /\ state' = [state EXCEPT ![c] = "disconnecting"]
    BY <1>5, Zenon DEF LoopForceClose, LoopForceCloseWithDelay, InLoop
  <2>3. Moves(0, f) /\ Mild
    BY <1>0, <2>1, <2>2, QueueMoves, MildSteps, Zenon
  <2>4. QED
    BY <2>1, <2>2, <2>3, FlowsSame
<1>6. QED
  BY <1>2, <1>3, <1>4, <1>5, FlowLoopShutdown, Zenon DEF Callbacks

\* Other threads.
LEMMA FlowThread ==
  ASSUME Inv, Flows, NEW t \in Threads, NEW op, NEW c,
         Disconnect(t) \/ DisconnectLocked(t) \/ Return(t) \/ Call(t, op, c)
  PROVE  Flows'
<1>0. Types /\ Sends /\ Busy /\ calls \in Nat
  BY Zenon DEF Inv, Types
<1>1. CASE Return(t)
  <2>1. PICK f \in Queued : f = tpc[t] /\ f.conn # 0 /\ pending' = Append(pending, f)
    BY <1>0, <1>1, Zenon DEF Return, Act, Types
  <2>2. PICK b \in Conns : b = f.conn /\ Exists(b)
    BY <1>0, <2>1, Zenon DEF Busy
  <2>3. CASE f.op = "shutdown" /\ state[b] = "connected"
    BY <1>1, <2>1, <2>2, <2>3, FlowPromise, Zenon
  <2>4. CASE ~(f.op = "shutdown" /\ state[b] = "connected")
    <3>1. /\ UNCHANGED <<events, out, wire, fin, calls, downs, lost, cut, promised>>
          /\ \/ state' = state /\ f.op = "send"
             \/ state' = [state EXCEPT ![b] = "disconnecting"]
      BY <1>1, <2>1, <2>2, <2>4, Zenon DEF Return, Act
    <3>2. Moves(0, f) /\ Mild
      BY <1>0, <2>1, <3>1, QueueMoves, MildSteps, Zenon
    <3>3. f.op = "shutdown" => state'[b] = "disconnecting"
      BY <1>0, <3>1, Zenon DEF Types
    <3>4. f.op = "shutdown" => f.conn \in Conns /\ Begun(f.conn)'
      BY <2>2, <3>3, Zenon DEF Begun
    <3>5. QED
      BY <3>1, <3>2, <3>4, FlowsSame
  <2>5. QED
    BY <2>3, <2>4, Zenon
<1>2. CASE Disconnect(t) \/ DisconnectLocked(t) \/ Call(t, op, c)
  <2>1. /\ UNCHANGED <<pending, state, events, out, wire, fin, downs, lost, cut, promised>>
        /\ calls' \in {calls, calls + 1}
    BY <1>2, Zenon DEF Disconnect, DisconnectLocked, Call, Test, netVars
  <2>2. PICK idle \in Queued : idle.op = "start"
    BY StartRecord, Zenon
  <2>3. Moves(0, idle) /\ Mild
    BY <1>0, <2>1, <2>2, QueueMoves, MildSteps, Zenon
  <2>4. QED
    BY <2>1, <2>2, <2>3, FlowsSame
<1>3. QED
  BY <1>1, <1>2, Zenon

\* What was handed to send before shutdown is on the wire when the connection
\* is shut down for writing, for any number of threads, calls and connections:
\* shutdownInLoop runs behind the sendInLoops queued before it, and leaves the
\* shutdown to handleWrite while something is buffered.  The exceptions are an
\* error that drops a message, and a handleWrite that drains the buffer before
\* the functors have run.
THEOREM ShutdownIsLast == Spec => []ShutdownFlushes
<1> DEFINE Sound == Inv /\ Flows
<1>1. Sound => ShutdownFlushes
  <2>1. ASSUME Flows, NEW c \in fin \ (lost \cup cut), downs[c] = 0, NEW m \in promised[c]
        PROVE  Last(m) \in Items(wire[c])
    BY <2>1, Zenon DEF Flows, Flow, InHand
  <2>2. QED
    BY <2>1, Zenon DEF ShutdownFlushes
<1>2. Init => Sound
  <2> SUFFICES ASSUME Init PROVE Flows
    BY InvInit, Zenon
  <2>1. /\ wire = [c \in Conns |-> <<>>] /\ out = [c \in Conns |-> <<>>] /\ fin = {} /\ calls = 0
        /\ state = [c \in Conns |-> "none"] /\ promised = [c \in Conns |-> {}]
    BY Zenon DEF Init, ConnInit
  <2>2. Bits /\ promised \in [Conns -> SUBSET Nat]
    BY <2>1 DEF Bits
  <2>3. Shuts
    <3>1. Len(pending) = 1 /\ pending[1] = Functor("start", 0)
      BY Zenon DEF Init, NetInit
    <3>2. \A i \in 1 .. Len(pending) : pending[i].op = "start"
      BY <3>1, StartRecord
    <3>3. QED
      BY <3>2, Zenon DEF Shuts
  <2>4. \A c \in Conns : Flow(c)
    BY <2>1, Zenon DEF Flow
  <2>5. QED
    BY <2>1, <2>2, <2>3, <2>4, Zenon DEF Flows
<1>3. Sound /\ [Next]_vars => Sound'
  <2> SUFFICES ASSUME Inv, Flows, [Next]_vars PROVE Flows'
    BY InvStep, Zenon
  <2>1. CASE UNCHANGED vars
    BY <2>1 DEF vars, netVars, connVars, Flows, Bits, Shuts, Begun, Flow, InHand, Ahead, Exists
  <2>2. CASE LoopStep \/ ConnectorStep \/ ClientStep
    BY <2>2, FlowLoop, Zenon
  <2>3. CASE \E c \in Conns : Functors(c) \/ Handlers(c)
    BY <2>3, FlowConn, Zenon
  <2>4. CASE Stop \/ LoopDisconnect \/ \E c \in Conns : Callbacks(c)
    BY <2>4, FlowUser, Zenon
  <2>5. ASSUME NEW t \in Threads, \/ Disconnect(t) \/ DisconnectLocked(t) \/ Return(t)
                                  \/ \E op \in {"send", "shutdown", "forceClose"}, c \in Conns : Call(t, op, c)
        PROVE  Flows'
    BY <2>5, FlowThread, Zenon
  <2>6. QED
    BY <2>1, <2>2, <2>3, <2>4, <2>5, Zenon DEF Next
<1>4. QED
  BY <1>1, <1>2, <1>3, PTL DEF Spec
=============================================================================
