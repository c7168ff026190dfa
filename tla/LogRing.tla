--------------------------------- MODULE LogRing ---------------------------------
(***************************************************************************)
(* The log of src/main/logbuf.c: a ring of bytes that every task appends   *)
(* to under a spinlock, and a dump that reads the indices under the same   *)
(* lock but copies the bytes outside it.                                   *)
(*                                                                         *)
(* Bytes are numbered in the order they are written, from 1; 0 is a byte   *)
(* of the zeroed buffer.  The dump copies one byte at a time, and any task *)
(* may log between two of them.                                            *)
(***************************************************************************)
EXTENDS Integers, Sequences

CONSTANTS
  Size,        \* LOGBUF_SIZE
  LineMax,     \* sizeof(line) in logbuf_vprintf()
  Caps,        \* sizes of the buffers logbuf_dump() is called with
  MaxMessage,  \* bound: the longest formatted message
  MaxWritten   \* bound: bytes written in a run

ASSUME LogAssumption ==
  /\ Size \in Nat \ {0} /\ Caps \subseteq Nat \ {0}
  /\ LineMax \in Nat /\ LineMax > 1
  /\ MaxMessage \in Nat /\ MaxWritten \in Nat

VARIABLES
  buf,      \* s_buf
  head,     \* s_head
  wrapped,  \* s_wrapped
  written,  \* history: the number of the last byte written
  dump,     \* the httpd task is inside logbuf_dump()
  snap,     \* its cap, head and wrapped, and history: written at that moment
  out       \* what it has copied

ring    == <<buf, head, wrapped, written>>
reader  == <<dump, snap, out>>
logVars == <<ring, reader>>

Positions == 0..Size - 1
Least(m, n) == IF m < n THEN m ELSE n

LogInit ==
  /\ buf = [i \in Positions |-> 0]
  /\ head = 0 /\ wrapped = FALSE /\ written = 0
  /\ dump = FALSE
  /\ snap = [cap |-> 1, head |-> 0, wrapped |-> FALSE, written |-> 0]
  /\ out = <<>>

---------------------------------------------------------------------------
(* logbuf_vprintf() and append(). *)

\* What the line buffer holds of a message of n characters.
Line(n) == IF n < LineMax THEN n ELSE LineMax - 1

\* The first copy goes from the head to the end of the ring, the second on
\* from its beginning.
First(len) == Least(Size - head, len)

\* Byte k of the len that are kept out of n.
Byte(k, n, len) == written + (n - len) + k + 1

Copied(n, len) ==
  [i \in Positions |->
     IF head <= i /\ i < head + First(len) THEN Byte(i - head, n, len)
     ELSE IF i < len - First(len)          THEN Byte(First(len) + i, n, len)
     ELSE buf[i]]

PastEnd_Beyond(h) == h > Size
PastEnd(h) == h >= Size

Wrap_Forgotten(len) == wrapped \/ len > First(len)
Wrap(len) == wrapped \/ len > First(len) \/ PastEnd(head + len)

Store(n) ==
  LET len == Least(n, Size)
  IN  /\ buf' = Copied(n, len)
      /\ head' = IF PastEnd(head + len) THEN head + len - Size ELSE head + len
      /\ wrapped' = Wrap(len)
      /\ written' = written + n

Log(n) ==
  /\ written + Line(n) <= MaxWritten
  /\ Store(Line(n))
  /\ UNCHANGED reader

---------------------------------------------------------------------------
(* logbuf_dump(). *)

Room_Whole == snap.cap
Room == snap.cap - 1

\* The two parts of the dump: from the head to the end, then up to the head.
OldPart == IF snap.wrapped THEN Least(Size - snap.head, Room) ELSE 0
DumpLen == OldPart + Least(snap.head, Room - OldPart)

Source_FromZero(j) == j - 1
Source(j) == IF j <= OldPart THEN snap.head + j - 1 ELSE j - OldPart - 1

DumpBegin(cap) ==
  /\ ~dump /\ dump' = TRUE
  /\ snap' = [cap |-> cap, head |-> head, wrapped |-> wrapped, written |-> written]
  /\ out' = <<>>
  /\ UNCHANGED ring

DumpByte ==
  /\ dump /\ Len(out) < DumpLen
  /\ out' = Append(out, buf[Source(Len(out) + 1)])
  /\ UNCHANGED <<ring, dump, snap>>

\* The terminating NUL is written and the response is sent.
DumpEnd ==
  /\ dump /\ Len(out) = DumpLen
  /\ dump' = FALSE
  /\ UNCHANGED <<ring, snap, out>>

LogNext ==
  \/ \E n \in 1..MaxMessage : Log(n)
  \/ \E cap \in Caps : DumpBegin(cap)
  \/ DumpByte \/ DumpEnd

LogSpec == LogInit /\ [][LogNext]_logVars

---------------------------------------------------------------------------
LogTypeOK ==
  /\ buf \in [Positions -> Nat]
  /\ head \in Positions /\ wrapped \in BOOLEAN /\ written \in Nat
  /\ dump \in BOOLEAN
  /\ snap \in [cap: Nat \ {0}, head: Positions, wrapped: BOOLEAN, written: Nat]
  /\ out \in Seq(Nat)

\* What a window of the log that ends at byte w holds at position i.
Window(i, h, wr, w) ==
  IF i < h THEN w - h + i + 1
  ELSE IF wr THEN w - h - Size + i + 1
  ELSE 0

\* The ring holds the last Size bytes written, oldest at the head, or all of
\* them if there were fewer: appending never loses, repeats or moves a byte,
\* wherever a line meets the end of the ring.
RingIsWindow ==
  /\ IF wrapped THEN written >= Size ELSE written = head
  /\ \A i \in Positions : buf[i] = Window(i, head, wrapped, written)

\* "Safe for any cap; the result is truncated to fit": a dump and its NUL
\* stay inside the caller's buffer, and bytes are left out only to fit there.
DumpFits ==
  dump => /\ Len(out) < snap.cap
          /\ DumpLen = Least(snap.cap - 1, Least(snap.written, Size))

\* A dump is the log in order, oldest first.  If k bytes are logged while it
\* is copied, it can only be garbled in its k oldest bytes, and by newer ones.
GarblesOldestOnly ==
  \A j \in 1..Len(out) :
    LET intended == snap.written - Least(snap.written, Size) + j
    IN  \/ out[j] = intended
        \/ out[j] > snap.written /\ j <= written - snap.written
=============================================================================
