--------------------------- MODULE MemBufferProofs ---------------------------
(***************************************************************************)
(* The safety of memBuffer for any buffer size and any number of readers   *)
(* and writers.  NoLostWakeup and EofAfterLastByte are inductive together  *)
(* with the types.                                                         *)
(***************************************************************************)
EXTENDS MemBuffer, SequenceTheorems, TLAPS

(* The bytes of a chunk are bytes, and there are as many as were asked for. *)
LEMMA ChunkType ==
    ASSUME TypeOK, NEW w \in Writers, NEW n \in Nat
    PROVE  Chunk(w, n) \in Seq(Bytes) /\ Len(Chunk(w, n)) = n
  BY DEF TypeOK, Chunk, Bytes

(* Take keeps the types, empties the buffer by at least a byte, and wakes. *)
LEMMA TakeStep ==
    ASSUME TypeOK, NEW r \in Readers, NEW size \in Nat \ {0}, data # <<>>, Take(r, size)
    PROVE  /\ data' \in Seq(Bytes) /\ Len(data') < Len(data)
           /\ received' \in Seq(Bytes)
<1> DEFINE n == IF size < Len(data) THEN size ELSE Len(data)
<1>1. data \in Seq(Bytes) /\ received \in Seq(Bytes) /\ Len(data) \in Nat \ {0}
  BY DEF TypeOK
<1>2. n \in 1 .. Len(data)
  BY <1>1
<1>3. /\ received' = received \o SubSeq(data, 1, n)
      /\ data' = SubSeq(data, n + 1, Len(data))
  BY DEF Take
<1> HIDE DEF n
<1>4. data' \in Seq(Bytes) /\ Len(data') = Len(data) - n
  BY <1>1, <1>2, <1>3
<1>5. received' \in Seq(Bytes)
  BY <1>1, <1>2, <1>3
<1> QED
  BY <1>1, <1>2, <1>4, <1>5

(* Put keeps the types and fills the buffer to the limit when it must wait. *)
LEMMA PutStep ==
    ASSUME TypeOK, NEW w \in Writers, NEW size \in Nat \ {0}, Room > 0, Put(w, size)
    PROVE  /\ data' \in Seq(Bytes) /\ Len(data') <= Limit
           /\ pos' \in [Writers -> Nat] /\ received' = received
           /\ \/ Leave(w) /\ broadcast
              \/ /\ Len(data') = Limit
                 /\ \E m \in Nat \ {0} : wait(w, writeDeadline, m)
                 /\ woken' = waiting \ {w}
<1> USE BufferAssumption
<1> DEFINE n == IF size < Room THEN size ELSE Room
<1>1. data \in Seq(Bytes) /\ Len(data) \in Nat /\ Limit \in Nat /\ pos \in [Writers -> Nat]
  BY DEF TypeOK
<1>2. n \in Nat /\ n <= Limit - Len(data) /\ (n = size \/ (n = Limit - Len(data) /\ n < size))
  BY <1>1 DEF Room
<1>3. /\ data' = data \o Chunk(w, n)
      /\ pos' = [pos EXCEPT ![w] = @ + n]
      /\ \/ n = size /\ Leave(w) /\ broadcast
         \/ n < size /\ wait(w, writeDeadline, size - n) /\ woken' = waiting \ {w}
      /\ received' = received
  BY DEF Put
<1> HIDE DEF n
<1>4. Chunk(w, n) \in Seq(Bytes) /\ Len(Chunk(w, n)) = n
  BY <1>2, ChunkType
<1>5. data' \in Seq(Bytes) /\ Len(data') = Len(data) + n
  BY <1>1, <1>3, <1>4, ConcatProperties
<1>6. pos' \in [Writers -> Nat]
  <2>1. pos[w] + n \in Nat
    BY <1>1, <1>2
  <2> QED
    BY <1>1, <1>3, <2>1
<1>7. Len(data') <= Limit /\ (n < size => Len(data') = Limit /\ size - n \in Nat \ {0})
  BY <1>1, <1>2, <1>5
<1> QED
  BY <1>3, <1>5, <1>6, <1>7

----------------------------------------------------------------------------
(* left of a waiter is never 0, so read and write are called with a size.  *)
LeftPositive == \A t \in waiting : left[t] \in Nat \ {0}

IInv == TypeOK /\ LeftPositive /\ NoLostWakeup /\ EofAfterLastByte

(* A turn of read's loop preserves the invariant.                          *)
LEMMA ReadStep ==
    ASSUME IInv, NEW r \in Readers, NEW size \in Nat \ {0}, read(r, size), UNCHANGED <<flags, now>>
    PROVE  IInv'
<1> USE BufferAssumption DEF IInv, flags, buffer
<1>0. r \in Threads /\ r \notin Writers /\ TypeOK
  BY DEF Threads
<1>1. CASE Return(r) /\ UNCHANGED eof
  BY <1>0, <1>1 DEF TypeOK, LeftPositive, NoLostWakeup, EofAfterLastByte, Return, Leave, Threads, Times
<1>2. CASE data = <<>> /\ writeClosed /\ Return(r) /\ eof' = eof \cup {r}
  BY <1>0, <1>2 DEF TypeOK, LeftPositive, NoLostWakeup, EofAfterLastByte, Return, Leave, Threads, Times
<1>3. CASE data # <<>> /\ Take(r, size) /\ UNCHANGED eof
  <2>1. /\ data' \in Seq(Bytes) /\ Len(data') < Len(data) /\ received' \in Seq(Bytes)
    BY <1>0, <1>3, TakeStep
  <2>2. Len(data) <= Limit /\ Len(data) \in Nat /\ Len(data') \in Nat
    BY <2>1 DEF TypeOK
  <2>3. Len(data') <= Limit
    BY <2>1, <2>2
  <2>4. eof = {}
    BY <1>3 DEF EofAfterLastByte
  <2>5. Leave(r) /\ woken' = waiting' /\ UNCHANGED pos
    BY <1>3 DEF Take, broadcast
  <2>6. TypeOK'
    BY <1>0, <1>3, <2>1, <2>3, <2>5 DEF TypeOK, Leave, Threads, Times
  <2>7. LeftPositive' /\ NoLostWakeup' /\ EofAfterLastByte'
    BY <1>0, <1>3, <2>4, <2>5 DEF TypeOK, LeftPositive, NoLostWakeup, EofAfterLastByte, Leave, Threads
  <2> QED
    BY <2>6, <2>7
<1>4. CASE /\ ~readClosed /\ data = <<>> /\ ~writeClosed
           /\ wait(r, readDeadline, size) /\ woken' = woken \ {r} /\ UNCHANGED <<buffer, eof>>
  BY <1>0, <1>4 DEF TypeOK, LeftPositive, NoLostWakeup, EofAfterLastByte, wait, Threads, Times
<1> QED
  BY <1>1, <1>2, <1>3, <1>4 DEF read

(* A turn of write's loop preserves the invariant.                         *)
LEMMA WriteStep ==
    ASSUME IInv, NEW w \in Writers, NEW size \in Nat \ {0}, write(w, size),
           UNCHANGED <<flags, now, eof>>
    PROVE  IInv'
<1> USE BufferAssumption DEF IInv, flags, buffer
<1>0. w \in Threads /\ w \notin Readers /\ TypeOK
  BY DEF Threads
<1>1. CASE Return(w)
  BY <1>0, <1>1 DEF TypeOK, LeftPositive, NoLostWakeup, EofAfterLastByte, Return, Leave, Threads, Times
<1>2. CASE ~writeClosed /\ ~readClosed /\ Room > 0 /\ Put(w, size)
  <2>1. /\ data' \in Seq(Bytes) /\ Len(data') <= Limit
        /\ pos' \in [Writers -> Nat] /\ received' = received
        /\ \/ Leave(w) /\ broadcast
           \/ /\ Len(data') = Limit
              /\ \E m \in Nat \ {0} : wait(w, writeDeadline, m)
              /\ woken' = waiting \ {w}
    BY <1>0, <1>2, PutStep
  <2>2. eof = {}
    BY <1>2 DEF EofAfterLastByte
  <2>3. CASE Leave(w) /\ broadcast
    BY <1>0, <2>1, <2>2, <2>3
       DEF TypeOK, LeftPositive, NoLostWakeup, EofAfterLastByte, Leave, broadcast, Threads, Times
  <2>4. ASSUME Len(data') = Limit, NEW m \in Nat \ {0}, wait(w, writeDeadline, m),
               woken' = waiting \ {w}
        PROVE  IInv'
    BY <1>0, <1>2, <2>1, <2>2, <2>4
       DEF TypeOK, LeftPositive, NoLostWakeup, EofAfterLastByte, wait, Threads, Times
  <2> QED
    BY <2>1, <2>3, <2>4
<1>3. CASE /\ ~writeClosed /\ ~readClosed /\ Room = 0
           /\ wait(w, writeDeadline, size) /\ woken' = woken \ {w} /\ UNCHANGED buffer
  <2>1. Len(data) = Limit
    BY <1>0, <1>3 DEF Room, TypeOK
  <2> QED
    BY <1>0, <1>3, <2>1 DEF TypeOK, LeftPositive, NoLostWakeup, EofAfterLastByte, wait, Threads, Times
<1> QED
  BY <1>1, <1>2, <1>3 DEF write

(* The timer of a waiting call.                                            *)
LEMMA TimeoutStep ==
    ASSUME IInv, NEW t \in Threads, WaitTimeout(t)
    PROVE  IInv'
<1> USE BufferAssumption DEF IInv, WaitTimeout, Return, Leave, buffer, flags
<1>1. TypeOK'
  BY DEF TypeOK, Times
<1>2. LeftPositive'
  BY DEF TypeOK, LeftPositive
<1>3. NoLostWakeup' /\ EofAfterLastByte'
  BY DEF TypeOK, NoLostWakeup, EofAfterLastByte
<1> QED
  BY <1>1, <1>2, <1>3

(* Close and SetDeadline, which broadcast under the mutex.                 *)
LEMMA UpdateStep ==
    ASSUME IInv, CloseRead \/ CloseWrite \/ \E d \in Times : SetReadDeadline(d) \/ SetWriteDeadline(d)
    PROVE  IInv'
  BY DEF IInv, CloseRead, CloseWrite, SetReadDeadline, SetWriteDeadline, update, broadcast,
     TypeOK, LeftPositive, NoLostWakeup, EofAfterLastByte, buffer

(* Every step preserves the invariant.                                     *)
LEMMA NextIInv == IInv /\ [Next]_vars => IInv'
<1> SUFFICES ASSUME IInv, [Next]_vars PROVE IInv'
  OBVIOUS
<1> USE BufferAssumption
<1>1. ASSUME NEW r \in Readers, NEW n \in ReadSizes, Read(r, n) PROVE IInv'
  BY <1>1, ReadStep DEF Read
<1>2. ASSUME NEW w \in Writers, NEW n \in WriteSizes, Write(w, n) PROVE IInv'
  BY <1>2, WriteStep DEF Write
<1>3. ASSUME NEW r \in Readers, ReadAgain(r) PROVE IInv'
  <2>1. left[r] \in Nat \ {0}
    BY <1>3 DEF ReadAgain, IInv, TypeOK, LeftPositive
  <2> QED
    BY <1>3, <2>1, ReadStep DEF ReadAgain
<1>4. ASSUME NEW w \in Writers, WriteAgain(w) PROVE IInv'
  <2>1. left[w] \in Nat \ {0}
    BY <1>4 DEF WriteAgain, IInv, TypeOK, LeftPositive
  <2> QED
    BY <1>4, <2>1, WriteStep DEF WriteAgain
<1>5. ASSUME NEW t \in Threads, WaitTimeout(t) PROVE IInv'
  BY <1>5, TimeoutStep
<1>6. CASE CloseRead \/ CloseWrite \/ \E d \in Times : SetReadDeadline(d) \/ SetWriteDeadline(d)
  BY <1>6, UpdateStep
<1>7. CASE Tick
  BY <1>7 DEF Tick, IInv, TypeOK, LeftPositive, NoLostWakeup, EofAfterLastByte, Times, buffer,
     flags, waits
<1>8. CASE UNCHANGED vars
  BY <1>8 DEF vars, IInv, TypeOK, LeftPositive, NoLostWakeup, EofAfterLastByte
<1> QED
  BY <1>1, <1>2, <1>3, <1>4, <1>5, <1>6, <1>7, <1>8 DEF Next

(* A new buffer is empty and nobody waits.                                 *)
LEMMA InitIInv == Init => IInv
<1> SUFFICES ASSUME Init PROVE IInv
  OBVIOUS
<1> USE BufferAssumption DEF Init
<1>1. TypeOK
  <2>1. 0 \in Times /\ Len(data) = 0
    BY DEF Times
  <2>2. data \in Seq(Bytes) /\ received \in Seq(Bytes)
    BY EmptySeq
  <2>3. timer \in [Threads -> Times] /\ left \in [Threads -> Nat] /\ pos \in [Writers -> Nat]
    BY <2>1
  <2>4. Len(data) <= Limit
    BY <2>1
  <2>5. /\ readDeadline \in Times /\ writeDeadline \in Times /\ now \in Times
        /\ waiting \subseteq Threads /\ woken \subseteq waiting /\ eof \subseteq Readers
        /\ readClosed \in BOOLEAN /\ writeClosed \in BOOLEAN
    BY <2>1
  <2> QED
    BY <2>2, <2>3, <2>4, <2>5 DEF TypeOK
<1>2. LeftPositive /\ NoLostWakeup /\ EofAfterLastByte
  BY DEF LeftPositive, NoLostWakeup, EofAfterLastByte
<1> QED
  BY <1>1, <1>2 DEF IInv

----------------------------------------------------------------------------
(* The bytes.                                                              *)

(* Appending the next n bytes of a writer.                                 *)
LEMMA OneChunkMore ==
    ASSUME NEW s \in Seq(Bytes), NEW p \in [Writers -> Nat], OnceInOrder(s, p),
           NEW w \in Writers, NEW n \in Nat, NEW c \in Seq(Bytes), Len(c) = n,
           \A i \in 1 .. n : c[i] = <<w, p[w] + i>>,
           NEW q, q = [p EXCEPT ![w] = @ + n]
    PROVE  OnceInOrder(s \o c, q)
<1> DEFINE t == s \o c
           m == Len(s)
<1>1. m \in Nat /\ DOMAIN s = 1 .. m
  OBVIOUS
<1>2. /\ t \in Seq(Bytes) /\ Len(t) = m + n /\ DOMAIN t = 1 .. (m + n)
      /\ \A k \in 1 .. m : t[k] = s[k]
      /\ \A i \in 1 .. n : t[m + i] = c[i]
  <2>1. t \in Seq(Bytes) /\ Len(t) = m + n
    BY ConcatProperties
  <2>2. \A k \in 1 .. (m + n) : t[k] = IF k <= m THEN s[k] ELSE c[k - m]
    BY ConcatProperties
  <2>3. DOMAIN t = 1 .. (m + n)
    BY <2>1
  <2> HIDE DEF t, m
  <2>4. \A k \in 1 .. m : t[k] = s[k]
    BY <1>1, <2>2
  <2>5. \A i \in 1 .. n : t[m + i] = c[i]
    <3> SUFFICES ASSUME NEW i \in 1 .. n PROVE t[m + i] = c[i]
      OBVIOUS
    <3>1. m + i \in 1 .. (m + n) /\ ~(m + i <= m) /\ (m + i) - m = i
      BY <1>1
    <3> QED
      BY <2>2, <3>1
  <2> QED
    BY <2>1, <2>3, <2>4, <2>5
<1> HIDE DEF t, m
<1>3. /\ q \in [Writers -> Nat] /\ q[w] = p[w] + n
      /\ \A v \in Writers : v # w => q[v] = p[v]
  <2>1. p[w] + n \in Nat
    OBVIOUS
  <2> QED
    BY <2>1
<1>4. \A k \in 1 .. (m + n) : k \in 1 .. m \/ \E i \in 1 .. n : k = m + i
  <2> SUFFICES ASSUME NEW k \in 1 .. (m + n), k \notin 1 .. m
               PROVE  \E i \in 1 .. n : k = m + i
    OBVIOUS
  <2>1. k - m \in 1 .. n /\ k = m + (k - m)
    BY <1>1
  <2> QED
    BY <2>1
<1>5. \A k \in 1 .. m : /\ s[k][1] \in Writers /\ s[k][2] \in 1 .. p[s[k][1]]
                        /\ s[k] = <<s[k][1], s[k][2]>>
  <2>1. \A k \in 1 .. m : s[k] \in Writers \X Nat
    BY <1>1, ElementOfSeq DEF Bytes, m
  <2> QED
    BY <1>1, <2>1 DEF OnceInOrder
<1>6. \A i \in 1 .. n : t[m + i] = <<w, p[w] + i>> /\ p[w] + i \in 1 .. q[w]
  <2>1. \A i \in 1 .. n : p[w] + i \in 1 .. (p[w] + n)
    OBVIOUS
  <2> QED
    BY <1>2, <1>3, <2>1
<1>7. ASSUME NEW k \in 1 .. (m + n)
      PROVE  t[k][2] \in 1 .. q[t[k][1]]
  <2>1. CASE k \in 1 .. m
    <3>1. t[k] = s[k] /\ s[k][1] \in Writers /\ s[k][2] \in 1 .. p[s[k][1]]
      BY <1>2, <1>5, <2>1
    <3>2. p[s[k][1]] \in Nat /\ q[s[k][1]] \in Nat /\ p[s[k][1]] <= q[s[k][1]]
      BY <1>3, <3>1
    <3> QED
      BY <3>1, <3>2
  <2>2. ASSUME NEW i \in 1 .. n, k = m + i
        PROVE  t[k][2] \in 1 .. q[t[k][1]]
    <3>1. t[k] = <<w, p[w] + i>> /\ p[w] + i \in 1 .. q[w]
      BY <1>6, <2>2
    <3>2. t[k][1] = w /\ t[k][2] = p[w] + i
      BY <3>1
    <3> QED
      BY <3>1, <3>2
  <2> QED
    BY <1>4, <2>1, <2>2
<1>8. ASSUME NEW v \in Writers, NEW i \in 1 .. q[v]
      PROVE  \E k \in 1 .. (m + n) : t[k] = <<v, i>>
  <2>1. CASE i \in 1 .. p[v]
    <3>1. PICK k \in 1 .. m : s[k] = <<v, i>>
      BY <1>1, <2>1 DEF OnceInOrder
    <3>2. k \in 1 .. (m + n)
      BY <1>1
    <3> QED
      BY <1>2, <3>1, <3>2
  <2>2. CASE i \notin 1 .. p[v]
    <3>1. v = w
      BY <1>3, <1>8, <2>2
    <3>2. i - p[w] \in 1 .. n /\ p[w] + (i - p[w]) = i
      BY <1>3, <1>8, <2>2, <3>1
    <3>3. m + (i - p[w]) \in 1 .. (m + n)
      BY <1>1, <3>2
    <3>4. t[m + (i - p[w])] = <<v, i>>
      BY <1>6, <3>1, <3>2
    <3> QED
      BY <3>3, <3>4
  <2> QED
    BY <2>1, <2>2
<1>9. ASSUME NEW j \in 1 .. (m + n), NEW k \in 1 .. (m + n), j < k, t[j][1] = t[k][1]
      PROVE  t[j][2] < t[k][2]
  <2>1. CASE k \in 1 .. m
    <3>1. j \in 1 .. m
      BY <1>1, <1>9, <2>1
    <3> QED
      BY <1>1, <1>2, <1>9, <2>1, <3>1 DEF OnceInOrder
  <2>2. ASSUME NEW i \in 1 .. n, k = m + i, j \in 1 .. m
        PROVE  t[j][2] < t[k][2]
    <3>1. t[k] = <<w, p[w] + i>> /\ t[j] = s[j]
      BY <1>2, <1>6, <2>2
    <3>2. s[j][1] = w
      BY <1>9, <3>1
    <3>3. s[j][2] \in 1 .. p[w]
      BY <1>5, <2>2, <3>2
    <3>4. s[j][2] < p[w] + i
      BY <3>3
    <3> QED
      BY <3>1, <3>4
  <2>3. ASSUME NEW i \in 1 .. n, NEW h \in 1 .. n, k = m + i, j = m + h
        PROVE  t[j][2] < t[k][2]
    <3>1. t[k][2] = p[w] + i /\ t[j][2] = p[w] + h
      <4>1. t[m + i] = <<w, p[w] + i>> /\ t[m + h] = <<w, p[w] + h>>
        BY <1>6
      <4>2. t[k] = <<w, p[w] + i>> /\ t[j] = <<w, p[w] + h>>
        BY <2>3, <4>1
      <4> QED
        BY <4>2
    <3>2. h < i
      BY <1>1, <1>9, <2>3
    <3>3. p[w] + h < p[w] + i
      BY <3>2
    <3> QED
      BY <3>1, <3>3
  <2> QED
    BY <1>4, <2>1, <2>2, <2>3
<1> QED
  <2>1. OnceInOrder(t, q)
    BY <1>2, <1>7, <1>8, <1>9 DEF OnceInOrder
  <2> QED
    BY <2>1 DEF t

(* What a concatenation of bytes holds.                                    *)
LEMMA ConcatHolds ==
    ASSUME NEW s \in Seq(Bytes), NEW t \in Seq(Bytes)
    PROVE  /\ s \o t \in Seq(Bytes) /\ Len(s \o t) = Len(s) + Len(t)
           /\ \A i \in 1 .. Len(s) : (s \o t)[i] = s[i]
           /\ \A i \in 1 .. Len(t) : (s \o t)[Len(s) + i] = t[i]
<1> DEFINE m == Len(s)
           n == Len(t)
           x == s \o t
<1>1. x \in Seq(Bytes) /\ Len(x) = m + n
  BY ConcatProperties
<1>2. \A i \in 1 .. (m + n) : x[i] = IF i <= m THEN s[i] ELSE t[i - m]
  BY ConcatProperties
<1>3. m \in Nat /\ n \in Nat
  OBVIOUS
<1> HIDE DEF m, n, x
<1>4. \A i \in 1 .. m : x[i] = s[i]
  BY <1>2, <1>3
<1>5. ASSUME NEW i \in 1 .. n PROVE x[m + i] = t[i]
  <2>1. m + i \in 1 .. (m + n) /\ ~(m + i <= m) /\ (m + i) - m = i
    BY <1>3
  <2> QED
    BY <1>2, <2>1
<1> QED
  BY <1>1, <1>4, <1>5 DEF m, n, x

(* Concatenation of bytes is associative.                                  *)
LEMMA ConcatBytes ==
    ASSUME NEW s \in Seq(Bytes), NEW t \in Seq(Bytes), NEW u \in Seq(Bytes)
    PROVE  (s \o t) \o u = s \o (t \o u)
<1> DEFINE x == s \o t
           y == t \o u
           a == x \o u
           b == s \o y
           k == Len(s)
           m == Len(t)
           n == Len(u)
<1>1. /\ x \in Seq(Bytes) /\ Len(x) = k + m
      /\ (\A i \in 1 .. k : x[i] = s[i]) /\ \A i \in 1 .. m : x[k + i] = t[i]
  BY ConcatHolds
<1>2. /\ y \in Seq(Bytes) /\ Len(y) = m + n
      /\ (\A i \in 1 .. m : y[i] = t[i]) /\ \A i \in 1 .. n : y[m + i] = u[i]
  BY ConcatHolds
<1>3. k \in Nat /\ m \in Nat /\ n \in Nat
  OBVIOUS
<1>x. x \in Seq(Bytes) /\ y \in Seq(Bytes)
  BY <1>1, <1>2
<1> HIDE DEF x, y
<1>4. /\ a \in Seq(Bytes) /\ Len(a) = Len(x) + Len(u)
      /\ (\A i \in 1 .. Len(x) : a[i] = x[i]) /\ \A i \in 1 .. Len(u) : a[Len(x) + i] = u[i]
  BY <1>x, ConcatHolds
<1>5. /\ b \in Seq(Bytes) /\ Len(b) = Len(s) + Len(y)
      /\ (\A i \in 1 .. Len(s) : b[i] = s[i]) /\ \A i \in 1 .. Len(y) : b[Len(s) + i] = y[i]
  BY <1>x, ConcatHolds
<1> HIDE DEF a, b
<1>6. Len(a) = (k + m) + n /\ Len(b) = k + (m + n)
  BY <1>1, <1>2, <1>4, <1>5
<1>7. /\ \A i \in 1 .. (k + m) : a[i] = x[i]
      /\ \A i \in 1 .. n : a[(k + m) + i] = u[i]
      /\ \A i \in 1 .. k : b[i] = s[i]
      /\ \A i \in 1 .. (m + n) : b[k + i] = y[i]
  BY <1>1, <1>2, <1>4, <1>5
<1> HIDE DEF k, m, n
<1>8. ASSUME NEW i \in 1 .. Len(a) PROVE a[i] = b[i]
  <2>0. i \in 1 .. ((k + m) + n)
    BY <1>6
  <2>1. CASE i <= k
    <3>1. i \in 1 .. k /\ i \in 1 .. (k + m)
      BY <1>3, <2>0, <2>1
    <3> QED
      BY <1>1, <1>7, <3>1
  <2>2. CASE k < i /\ i <= k + m
    <3>1. PICK j \in 1 .. m : i = k + j
      <4>1. i - k \in 1 .. m /\ i = k + (i - k)
        BY <1>3, <2>0, <2>2
      <4> QED
        BY <4>1
    <3>2. i \in 1 .. (k + m) /\ j \in 1 .. (m + n)
      BY <1>3, <2>0, <2>2
    <3> QED
      BY <1>1, <1>2, <1>7, <3>1, <3>2
  <2>3. CASE k + m < i
    <3>1. PICK j \in 1 .. n : i = (k + m) + j
      <4>1. i - (k + m) \in 1 .. n /\ i = (k + m) + (i - (k + m))
        BY <1>3, <2>0, <2>3
      <4> QED
        BY <4>1
    <3>2. m + j \in 1 .. (m + n) /\ i = k + (m + j)
      BY <1>3, <3>1
    <3>3. a[i] = u[j]
      BY <1>7, <3>1
    <3>4. b[i] = y[m + j]
      BY <1>7, <3>2
    <3> QED
      BY <1>2, <3>3, <3>4
  <2> QED
    BY <1>3, <2>0, <2>1, <2>2, <2>3
<1>9. a = b
  <2>1. Len(a) = Len(b)
    BY <1>3, <1>6
  <2>2. a \in Seq(Bytes) /\ b \in Seq(Bytes)
    BY <1>4, <1>5
  <2> QED
    BY <1>8, <2>1, <2>2, SeqEqual
<1> QED
  BY <1>9 DEF a, b, x, y

(* A buffer is what two parts of it hold.                                  *)
LEMMA SplitBytes ==
    ASSUME NEW s \in Seq(Bytes), NEW n \in 0 .. Len(s)
    PROVE  SubSeq(s, 1, n) \o SubSeq(s, n + 1, Len(s)) = s
<1> DEFINE u == SubSeq(s, 1, n)
           v == SubSeq(s, n + 1, Len(s))
<1>1. Len(s) \in Nat /\ n \in Nat /\ n <= Len(s)
  OBVIOUS
<1>2. u \in Seq(Bytes) /\ Len(u) = n /\ \A i \in 1 .. n : u[i] = s[i]
  BY <1>1
<1>3. v \in Seq(Bytes) /\ Len(v) = Len(s) - n /\ \A i \in 1 .. Len(s) - n : v[i] = s[n + i]
  BY <1>1
<1> HIDE DEF u, v
<1>4. /\ u \o v \in Seq(Bytes) /\ Len(u \o v) = Len(u) + Len(v)
      /\ \A i \in 1 .. Len(u) + Len(v) : (u \o v)[i] = IF i <= Len(u) THEN u[i] ELSE v[i - Len(u)]
  BY <1>2, <1>3, ConcatProperties
<1>5. Len(u \o v) = Len(s)
  BY <1>1, <1>2, <1>3, <1>4
<1>6. ASSUME NEW i \in 1 .. Len(s) PROVE (u \o v)[i] = s[i]
  <2>1. i \in 1 .. Len(u) + Len(v)
    BY <1>1, <1>2, <1>3
  <2>2. CASE i <= n
    BY <1>2, <1>4, <2>1, <2>2
  <2>3. CASE ~(i <= n)
    <3>1. i - n \in 1 .. Len(s) - n /\ n + (i - n) = i
      BY <1>1, <2>3
    <3> QED
      BY <1>2, <1>3, <1>4, <2>1, <2>3, <3>1
  <2> QED
    BY <2>2, <2>3
<1>7. u \o v = s
  BY <1>4, <1>5, <1>6, SeqEqual
<1> QED
  BY <1>7 DEF u, v

(* Of the bytes a step reads some, adds a chunk, or leaves them alone.     *)
LEMMA BufferChanges ==
    ASSUME IInv, [Next]_vars
    PROVE  \/ UNCHANGED buffer
           \/ \E r \in Readers, size \in Nat \ {0} : data # <<>> /\ Take(r, size)
           \/ \E w \in Writers, size \in Nat \ {0} : Room > 0 /\ Put(w, size)
<1> DEFINE Goal == \/ UNCHANGED buffer
                   \/ \E r \in Readers, size \in Nat \ {0} : data # <<>> /\ Take(r, size)
                   \/ \E w \in Writers, size \in Nat \ {0} : Room > 0 /\ Put(w, size)
<1>1. ASSUME NEW r \in Readers, NEW size \in Nat \ {0}, read(r, size) PROVE Goal
  BY <1>1 DEF read, Return, wait
<1>2. ASSUME NEW w \in Writers, NEW size \in Nat \ {0}, write(w, size) PROVE Goal
  BY <1>2 DEF write, Return, wait
<1>3. \A t \in woken : left[t] \in Nat \ {0}
  BY DEF IInv, TypeOK, LeftPositive
<1>4. CASE \/ \E r \in Readers, n \in ReadSizes : Read(r, n)
           \/ \E r \in Readers : ReadAgain(r)
  BY <1>1, <1>3, <1>4, BufferAssumption DEF Read, ReadAgain
<1>5. CASE \/ \E w \in Writers, n \in WriteSizes : Write(w, n)
           \/ \E w \in Writers : WriteAgain(w)
  BY <1>2, <1>3, <1>5, BufferAssumption DEF Write, WriteAgain
<1>6. CASE \/ \E t \in Threads : WaitTimeout(t)
           \/ CloseRead \/ CloseWrite
           \/ \E d \in Times : SetReadDeadline(d) \/ SetWriteDeadline(d)
           \/ Tick
  BY <1>6 DEF WaitTimeout, Return, CloseRead, CloseWrite, SetReadDeadline, SetWriteDeadline,
              update, Tick
<1>7. CASE UNCHANGED vars
  BY <1>7 DEF vars, buffer
<1> QED
  BY <1>4, <1>5, <1>6, <1>7 DEF Next

(* Every step keeps the bytes once and in order.                           *)
LEMMA BytesStep ==
    IInv /\ InOrderOnce /\ [Next]_vars => InOrderOnce'
<1> SUFFICES ASSUME IInv, InOrderOnce, [Next]_vars PROVE InOrderOnce'
  OBVIOUS
<1>0. /\ TypeOK /\ data \in Seq(Bytes) /\ received \in Seq(Bytes)
      /\ Len(data) \in Nat /\ pos \in [Writers -> Nat]
  BY DEF IInv, TypeOK
<1>1. CASE UNCHANGED buffer
  BY <1>1 DEF InOrderOnce, buffer
<1>2. ASSUME NEW r \in Readers, NEW size \in Nat \ {0}, data # <<>>, Take(r, size)
      PROVE  InOrderOnce'
  <2>1. PICK n \in 0 .. Len(data) : /\ received' = received \o SubSeq(data, 1, n)
                                    /\ data' = SubSeq(data, n + 1, Len(data))
    <3> DEFINE n == IF size < Len(data) THEN size ELSE Len(data)
    <3>1. n \in 0 .. Len(data)
      BY <1>0
    <3> QED
      BY <1>2, <3>1 DEF Take
  <2>2. SubSeq(data, 1, n) \in Seq(Bytes) /\ SubSeq(data, n + 1, Len(data)) \in Seq(Bytes)
    BY <1>0
  <2>3. SubSeq(data, 1, n) \o SubSeq(data, n + 1, Len(data)) = data
    BY <1>0, SplitBytes
  <2>4. received' \o data' = received \o data
    <3> DEFINE u == SubSeq(data, 1, n)
               v == SubSeq(data, n + 1, Len(data))
    <3>1. u \in Seq(Bytes) /\ v \in Seq(Bytes) /\ u \o v = data
      BY <2>2, <2>3
    <3>2. received' = received \o u /\ data' = v
      BY <2>1
    <3> HIDE DEF u, v
    <3>3. (received \o u) \o v = received \o (u \o v)
      <4>1. received \in Seq(Bytes)
        BY <1>0
      <4> QED
        BY <3>1, <4>1, ConcatBytes
    <3> QED
      BY <3>1, <3>2, <3>3
  <2> QED
    BY <1>2, <2>4 DEF InOrderOnce, Take
<1>3. ASSUME NEW w \in Writers, NEW size \in Nat \ {0}, Room > 0, Put(w, size)
      PROVE  InOrderOnce'
  <2>1. PICK n \in Nat : /\ data' = data \o Chunk(w, n)
                         /\ pos' = [pos EXCEPT ![w] = @ + n]
    <3>1. Limit \in Nat /\ Room \in Nat
      BY <1>0, <1>3, BufferAssumption DEF Room
    <3> QED
      BY <1>3, <3>1 DEF Put
  <2>2. /\ Chunk(w, n) \in Seq(Bytes) /\ Len(Chunk(w, n)) = n
        /\ \A i \in 1 .. n : Chunk(w, n)[i] = <<w, pos[w] + i>>
    <3>1. \A i \in 1 .. n : Chunk(w, n)[i] = <<w, pos[w] + i>>
      BY DEF Chunk
    <3> QED
      BY <1>0, <3>1, ChunkType
  <2>3. received' \o data' = (received \o data) \o Chunk(w, n)
    <3> DEFINE c == Chunk(w, n)
    <3>1. c \in Seq(Bytes)
      BY <2>2
    <3>2. received' = received /\ data' = data \o c
      BY <1>3, <2>1 DEF Put
    <3> HIDE DEF c
    <3>3. (received \o data) \o c = received \o (data \o c)
      BY <1>0, <3>1, ConcatBytes
    <3>4. received' \o data' = (received \o data) \o c
      BY <3>2, <3>3
    <3> QED
      BY <3>4 DEF c
  <2>4. received \o data \in Seq(Bytes)
    BY <1>0, ConcatProperties
  <2>5. OnceInOrder(received \o data, pos)
    BY DEF InOrderOnce
  <2>6. OnceInOrder((received \o data) \o Chunk(w, n), pos')
    BY <1>0, <2>1, <2>2, <2>4, <2>5, OneChunkMore
  <2> QED
    BY <2>3, <2>6 DEF InOrderOnce
<1> QED
  BY <1>1, <1>2, <1>3, BufferChanges

----------------------------------------------------------------------------
(* The invariant holds in every reachable state.                           *)
THEOREM SpecIInv == Spec => []IInv
  BY InitIInv, NextIInv, PTL DEF Spec

(* The invariant and the order of the bytes hold in every reachable state. *)
THEOREM SpecBytes == Spec => [](IInv /\ InOrderOnce)
<1>1. Init => IInv /\ InOrderOnce
  <2>1. Init => InOrderOnce
    <3> SUFFICES ASSUME Init PROVE InOrderOnce
      OBVIOUS
    <3>1. received \o data = <<>> /\ DOMAIN <<>> = {}
      BY DEF Init
    <3>2. \A w \in Writers : 1 .. pos[w] = {}
      BY DEF Init
    <3> QED
      BY <3>1, <3>2 DEF InOrderOnce, OnceInOrder
  <2> QED
    BY <2>1, InitIInv
<1>2. (IInv /\ InOrderOnce) /\ [Next]_vars => (IInv /\ InOrderOnce)'
  BY NextIInv, BytesStep
<1> QED
  BY <1>1, <1>2, PTL DEF Spec

(* Every writer's bytes arrive once and in order, however its writes are   *)
(* split, time out or are retried, for any number of readers and writers   *)
(* and any buffer size (memconn.go:68-72, 96-102).                         *)
THEOREM BytesOnceInOrder == Spec => []InOrderOnce
  BY SpecBytes, PTL

(* The buffer never holds more than memBufferLimit bytes.                  *)
THEOREM Bounded == Spec => []TypeOK
<1>1. IInv => TypeOK
  BY DEF IInv
<1> QED
  BY <1>1, SpecIInv, PTL

(* No goroutine sleeps through a change of the buffer, its flags or its    *)
(* deadlines.                                                              *)
THEOREM WakeupsNotLost == Spec => []NoLostWakeup
<1>1. IInv => NoLostWakeup
  BY DEF IInv
<1> QED
  BY <1>1, SpecIInv, PTL

(* io.EOF is returned only after the last byte has been read.              *)
THEOREM EofIsLast == Spec => []EofAfterLastByte
<1>1. IInv => EofAfterLastByte
  BY DEF IInv
<1> QED
  BY <1>1, SpecIInv, PTL
=============================================================================
