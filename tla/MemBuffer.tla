----------------------------- MODULE MemBuffer -----------------------------
(***************************************************************************)
(* One direction of an in-memory connection: memBuffer of                  *)
(* iamproxy/memconn.go, used by any number of goroutines that Read on one  *)
(* end and Write on the other, and by the Close and SetDeadline calls of   *)
(* both ends.                                                              *)
(*                                                                         *)
(* Every action is one critical section of memBuffer.mu.  wait() gives up  *)
(* the mutex: a waiting goroutine holds the channel it read from b.changed *)
(* and a timer for the deadline it was called with, and both stay as they  *)
(* are whatever happens to the buffer.  The channel's fate is the flag     *)
(* woken: broadcast closes the channels all waiters hold.                  *)
(***************************************************************************)
EXTENDS Naturals, Sequences

CONSTANTS
    Readers,    \* goroutines that call Read
    Writers,    \* goroutines that call Write
    Limit,      \* memBufferLimit
    ReadSizes,  \* sizes of the slices passed to Read
    WriteSizes, \* sizes of the slices passed to Write
    MaxBytes,   \* bound: bytes a writer ever offers
    MaxTime     \* bound: the clock stops here

ASSUME BufferAssumption ==
    /\ Limit \in Nat \ {0}
    /\ ReadSizes \subseteq Nat \ {0}
    /\ WriteSizes \subseteq Nat \ {0}
    /\ MaxBytes \in Nat
    /\ MaxTime \in Nat
    /\ Readers \cap Writers = {}

VARIABLES
    data,           \* b.data, a sequence of bytes <<writer, number>>
    readClosed,     \* b.readClosed
    writeClosed,    \* b.writeClosed
    readDeadline,   \* b.readDeadline, 0 for the zero time
    writeDeadline,  \* b.writeDeadline
    now,            \* the clock
    waiting,        \* the goroutines inside wait
    woken,          \* waiters whose channel has been closed
    timer,          \* the deadline each waiter passed to wait
    left,           \* of a waiter: the size of its slice still to be done
    pos,            \* bytes of each writer accepted so far
    received,       \* history: bytes handed to readers
    eof             \* history: readers that were told io.EOF

buffer == <<data, received, pos>>
flags == <<readClosed, writeClosed, readDeadline, writeDeadline>>
waits == <<waiting, woken, timer, left>>
vars == <<data, readClosed, writeClosed, readDeadline, writeDeadline, now,
          waiting, woken, timer, left, pos, received, eof>>

Threads == Readers \cup Writers
Times == 0 .. MaxTime
Bytes == Writers \X Nat

(* The values each variable takes, and the bound memBufferLimit puts on     *)
(* unread bytes (memconn.go:12, 96-97).                                     *)
TypeOK ==
    /\ data \in Seq(Bytes) /\ Len(data) <= Limit
    /\ readClosed \in BOOLEAN /\ writeClosed \in BOOLEAN
    /\ readDeadline \in Times /\ writeDeadline \in Times
    /\ now \in Times
    /\ waiting \subseteq Threads /\ woken \subseteq waiting
    /\ timer \in [Threads -> Times]
    /\ left \in [Threads -> Nat]
    /\ pos \in [Writers -> Nat]
    /\ received \in Seq(Bytes)
    /\ eof \subseteq Readers

Init ==
    /\ data = <<>> /\ received = <<>>
    /\ readClosed = FALSE /\ writeClosed = FALSE
    /\ readDeadline = 0 /\ writeDeadline = 0
    /\ now = 0
    /\ waiting = {} /\ woken = {} /\ eof = {}
    /\ timer = [t \in Threads |-> 0]
    /\ left = [t \in Threads |-> 0]
    /\ pos = [w \in Writers |-> 0]

----------------------------------------------------------------------------
(* What the critical sections are made of.                                 *)

expired(deadline) == deadline # 0 /\ now >= deadline

(* close(b.changed); b.changed = make(chan struct{}): every channel held   *)
(* by a waiter is now closed.                                              *)
broadcast == woken' = waiting'

(* The call of t is over; its timer, if any, is stopped.                   *)
Leave(t) ==
    /\ waiting' = waiting \ {t}
    /\ timer' = [timer EXCEPT ![t] = 0]
    /\ left' = [left EXCEPT ![t] = 0]

(* The call of t returns and wakes nobody.                                 *)
Return(t) == Leave(t) /\ woken' = woken \ {t} /\ UNCHANGED buffer

(* wait: t holds the channel that is now in b.changed, and a timer for the *)
(* deadline.  It is only reached with a deadline that has not expired.     *)
wait(t, deadline, size) ==
    /\ waiting' = waiting \cup {t}
    /\ timer' = [timer EXCEPT ![t] = deadline]
    /\ left' = [left EXCEPT ![t] = size]

----------------------------------------------------------------------------
(* read.                                                                   *)

(* Defect for InOrderOnce: b.data = nil, and what did not fit the reader's *)
(* slice is lost.                                                          *)
TakeAndDrop(r, size) ==
    LET n == IF size < Len(data) THEN size ELSE Len(data)
    IN  /\ received' = received \o SubSeq(data, 1, n)
        /\ data' = <<>>
        /\ Leave(r) /\ broadcast
        /\ UNCHANGED pos

(* n = copy(p, b.data); b.data = b.data[n:]; broadcast.                    *)
Take(r, size) ==
    LET n == IF size < Len(data) THEN size ELSE Len(data)
    IN  /\ received' = received \o SubSeq(data, 1, n)
        /\ data' = SubSeq(data, n + 1, Len(data))
        /\ Leave(r) /\ broadcast
        /\ UNCHANGED pos

(* Defect for EofAfterLastByte: the end of the stream is tested first.     *)
readEofFirst(r, size) ==
    \/ /\ readClosed \/ expired(readDeadline)
       /\ Return(r) /\ UNCHANGED eof
    \/ /\ ~readClosed /\ ~expired(readDeadline) /\ ~writeClosed /\ data # <<>>
       /\ Take(r, size) /\ UNCHANGED eof
    \/ /\ ~readClosed /\ ~expired(readDeadline) /\ writeClosed
       /\ Return(r) /\ eof' = eof \cup {r}
    \/ /\ ~readClosed /\ ~expired(readDeadline) /\ data = <<>> /\ ~writeClosed
       /\ wait(r, readDeadline, size) /\ woken' = woken \ {r} /\ UNCHANGED <<buffer, eof>>

(* One turn of read's loop, up to its return (net.ErrClosed,               *)
(* os.ErrDeadlineExceeded, bytes, io.EOF) or its wait.                     *)
read(r, size) ==
    \/ /\ readClosed \/ expired(readDeadline)
       /\ Return(r) /\ UNCHANGED eof
    \/ /\ ~readClosed /\ ~expired(readDeadline) /\ data # <<>>
       /\ Take(r, size) /\ UNCHANGED eof
    \/ /\ ~readClosed /\ ~expired(readDeadline) /\ data = <<>> /\ writeClosed
       /\ Return(r) /\ eof' = eof \cup {r}
    \/ /\ ~readClosed /\ ~expired(readDeadline) /\ data = <<>> /\ ~writeClosed
       /\ wait(r, readDeadline, size) /\ woken' = woken \ {r} /\ UNCHANGED <<buffer, eof>>

(* memConn.Read.                                                           *)
Read(r, size) ==
    /\ r \notin waiting
    /\ read(r, size)
    /\ UNCHANGED <<flags, now>>

(* A waiting read sees its channel closed and loops.                       *)
ReadAgain(r) ==
    /\ r \in woken
    /\ read(r, left[r])
    /\ UNCHANGED <<flags, now>>

----------------------------------------------------------------------------
(* write.                                                                  *)

Room == Limit - Len(data)

(* The next n bytes of writer w.                                           *)
Chunk(w, n) == [i \in 1 .. n |-> <<w, pos[w] + i>>]

(* Defect for TypeOK: the room left in the buffer is not looked at.        *)
PutAll(w, size) ==
    /\ data' = data \o Chunk(w, size)
    /\ pos' = [pos EXCEPT ![w] = @ + size]
    /\ Leave(w) /\ broadcast
    /\ UNCHANGED received

(* append(b.data, p[written:written+n]...); broadcast; and, when the slice *)
(* does not fit, a second turn of the loop, which finds no room and waits  *)
(* on the channel that broadcast has just made.                            *)
Put(w, size) ==
    LET n == IF size < Room THEN size ELSE Room
    IN  /\ data' = data \o Chunk(w, n)
        /\ pos' = [pos EXCEPT ![w] = @ + n]
        /\ \/ n = size /\ Leave(w) /\ broadcast
           \/ n < size /\ wait(w, writeDeadline, size - n) /\ woken' = waiting \ {w}
        /\ UNCHANGED received

(* One turn of write's loop, up to its return (net.ErrClosed,              *)
(* io.ErrClosedPipe, os.ErrDeadlineExceeded, all written) or its wait.     *)
write(w, size) ==
    LET stopped == writeClosed \/ readClosed \/ expired(writeDeadline)
    IN  \/ stopped /\ Return(w)
        \/ ~stopped /\ Room > 0 /\ Put(w, size)
        \/ /\ ~stopped /\ Room = 0
           /\ wait(w, writeDeadline, size) /\ woken' = woken \ {w} /\ UNCHANGED buffer

(* memConn.Write.  A caller that was told "written" bytes went out offers  *)
(* the ones that did not, again.                                           *)
Write(w, size) ==
    /\ w \notin waiting
    /\ pos[w] + size <= MaxBytes
    /\ write(w, size)
    /\ UNCHANGED <<flags, now, eof>>

(* A waiting write sees its channel closed and loops.                      *)
WriteAgain(w) ==
    /\ w \in woken
    /\ write(w, left[w])
    /\ UNCHANGED <<flags, now, eof>>

----------------------------------------------------------------------------
(* Timeouts, Close and SetDeadline.                                        *)

(* The timer of a waiting call fires first in its select.                  *)
WaitTimeout(t) ==
    /\ t \in waiting
    /\ expired(timer[t])
    /\ Return(t)
    /\ UNCHANGED <<flags, now, eof>>

(* update: change the flags under the mutex, broadcast.                    *)
update(change) ==
    /\ change
    /\ UNCHANGED <<waiting, timer, left>> /\ broadcast
    /\ UNCHANGED <<buffer, now, eof>>

(* Defect for CloseUnblocks: Close does not wake the waiters.              *)
CloseReadSilently ==
    /\ ~readClosed /\ readClosed' = TRUE
    /\ UNCHANGED <<writeClosed, readDeadline, writeDeadline, buffer, now, waits, eof>>

(* memConn.Close of the reading end; closeOnce makes a second one nothing. *)
CloseRead ==
    /\ ~readClosed
    /\ update(readClosed' = TRUE /\ UNCHANGED <<writeClosed, readDeadline, writeDeadline>>)

(* memConn.Close of the writing end.                                       *)
CloseWrite ==
    /\ ~writeClosed
    /\ update(writeClosed' = TRUE /\ UNCHANGED <<readClosed, readDeadline, writeDeadline>>)

(* Defect for NoLostWakeup: a new deadline does not reach the waiters.     *)
SetReadDeadlineSilently(d) ==
    /\ readDeadline' = d
    /\ UNCHANGED <<readClosed, writeClosed, writeDeadline, buffer, now, waits, eof>>

(* A deadline may be moved either way, be in the past, or be removed.      *)
SetReadDeadline(d) ==
    update(readDeadline' = d /\ UNCHANGED <<readClosed, writeClosed, writeDeadline>>)

SetWriteDeadline(d) ==
    update(writeDeadline' = d /\ UNCHANGED <<readClosed, writeClosed, readDeadline>>)

Tick ==
    /\ now < MaxTime
    /\ now' = now + 1
    /\ UNCHANGED <<buffer, flags, waits, eof>>

Next ==
    \/ \E r \in Readers, n \in ReadSizes : Read(r, n)
    \/ \E w \in Writers, n \in WriteSizes : Write(w, n)
    \/ \E r \in Readers : ReadAgain(r)
    \/ \E w \in Writers : WriteAgain(w)
    \/ \E t \in Threads : WaitTimeout(t)
    \/ CloseRead \/ CloseWrite
    \/ \E d \in Times : SetReadDeadline(d) \/ SetWriteDeadline(d)
    \/ Tick

Spec == Init /\ [][Next]_vars

(* A goroutine whose channel is closed or whose timer has fired is         *)
(* scheduled.  Nobody is obliged to call anything.                         *)
Fairness ==
    /\ \A r \in Readers : WF_vars(ReadAgain(r) \/ WaitTimeout(r))
    /\ \A w \in Writers : WF_vars(WriteAgain(w) \/ WaitTimeout(w))

FairSpec == Spec /\ Fairness

----------------------------------------------------------------------------
(* Properties.                                                             *)

(* Sequence s has, of each writer w, its bytes 1 to p[w], each once and in *)
(* their order, and nothing else.                                          *)
OnceInOrder(s, p) ==
    /\ \A k \in DOMAIN s : s[k][2] \in 1 .. p[s[k][1]]
    /\ \A w \in Writers : \A i \in 1 .. p[w] : \E k \in DOMAIN s : s[k] = <<w, i>>
    /\ \A j, k \in DOMAIN s : j < k /\ s[j][1] = s[k][1] => s[j][2] < s[k][2]

(* What readers got, followed by what is still buffered, is for each writer *)
(* exactly the bytes its calls were told were written, once and in order,   *)
(* however writes are split, time out or are retried (memconn.go:68-72,     *)
(* 96-102).                                                                 *)
InOrderOnce == OnceInOrder(received \o data, pos)

(* A reader is told EOF only when every accepted byte has been read         *)
(* (memconn.go:68-76).                                                      *)
EofAfterLastByte ==
    eof # {} => writeClosed /\ data = <<>>

(* A goroutine sleeps on a channel nobody has closed only while it has      *)
(* nothing to do and its timer is for the deadline now in force: no append, *)
(* read, Close or SetDeadline was missed (memconn.go:28-54).                *)
NoLostWakeup ==
    /\ \A r \in (waiting \ woken) \cap Readers :
         data = <<>> /\ ~writeClosed /\ ~readClosed /\ timer[r] = readDeadline
    /\ \A w \in (waiting \ woken) \cap Writers :
         Len(data) = Limit /\ ~writeClosed /\ ~readClosed /\ timer[w] = writeDeadline

(* Once either end is closed every blocked call returns, and none blocks    *)
(* again (memconn.go:141-147).                                              *)
CloseUnblocks == readClosed \/ writeClosed ~> [](waiting = {})

(* A deadline that passes ends the blocked calls of its side, also when it  *)
(* was set, or brought forward, while they were blocked; only moving it out *)
(* of reach lets them wait on (memconn.go:36-44, 154-157).                  *)
DeadlineUnblocks ==
    /\ expired(readDeadline) ~> waiting \cap Readers = {} \/ ~expired(readDeadline)
    /\ expired(writeDeadline) ~> waiting \cap Writers = {} \/ ~expired(writeDeadline)
=============================================================================
