------------------------------- MODULE LogRingProof -------------------------------
(***************************************************************************)
(* Proofs about the log ring, for every size of the ring, of the lines and *)
(* of the dump buffers: the ring is the last Size bytes of the log, and a  *)
(* dump is those bytes in order, garbled at most where it says.            *)
(***************************************************************************)
EXTENDS LogRing, TLAPS

\* The ring and its indices.
IndexInv ==
  /\ LogTypeOK
  /\ RingIsWindow

\* What a dump took under the lock are the indices of an earlier ring.
SnapInv ==
  /\ IF snap.wrapped THEN snap.written >= Size ELSE snap.written = snap.head
  /\ snap.written <= written
  /\ Len(out) <= DumpLen

\* How many bytes after the dump began position i is written again.
Distance(i) == IF i < snap.head THEN i + Size - snap.head ELSE i - snap.head

\* The ring moves on from the snapshot: less than a round later the head is
\* where the count says, and a byte differs only once it has been overwritten.
DriftInv ==
  LET k == written - snap.written
  IN  /\ k >= Size \/ head = snap.head + k \/ head = snap.head + k - Size
      /\ snap.wrapped => wrapped
      /\ \A i \in Positions :
           \/ buf[i] = Window(i, snap.head, snap.wrapped, snap.written)
           \/ buf[i] > snap.written /\ Distance(i) < k

DumpInv == SnapInv /\ (dump => DriftInv) /\ GarblesOldestOnly

LogInv == IndexInv /\ DumpInv

---------------------------------------------------------------------------
\* A line that is stored has at least one byte.
LEMMA LineLength ==
  ASSUME NEW n \in 1..MaxMessage
  PROVE  Line(n) \in Nat \ {0}
BY LogAssumption DEF Line

\* How a line of len bytes lies in the ring.
LEMMA StoredBytes ==
  ASSUME LogTypeOK, NEW n \in Nat, NEW len \in Nat, len = Least(n, Size),
         NEW i \in Positions
  PROVE  /\ Copied(n, len) \in [Positions -> Nat]
         /\ head <= i /\ i - head < len => Copied(n, len)[i] = written + n - len + i - head + 1
         /\ i < head /\ i + Size - head < len
              => Copied(n, len)[i] = written + n - len + i + Size - head + 1
         /\ ~(head <= i /\ i - head < len) /\ ~(i < head /\ i + Size - head < len)
              => Copied(n, len)[i] = buf[i]
<1>1. Size \in Nat /\ head \in Nat /\ written \in Nat /\ buf \in [Positions -> Nat]
      /\ head < Size /\ len <= Size /\ len <= n
  BY LogAssumption DEF LogTypeOK, Positions, Least
<1>2. ASSUME NEW j \in Positions
      PROVE  Copied(n, len)[j] \in Nat
  BY <1>1, <1>2 DEF Copied, First, Byte, Least, Positions
<1>3. Copied(n, len) \in [Positions -> Nat]
  BY <1>2 DEF Copied
<1>4. i \in Nat /\ i < Size
  BY <1>1 DEF Positions
<1> QED
  BY <1>1, <1>3, <1>4 DEF Copied, First, Byte, Least

\* Where the head goes, and that it never leaves the ring.
LEMMA HeadMoves ==
  ASSUME LogTypeOK, NEW n \in Nat, NEW len \in Nat, len = Least(n, Size), Store(n)
  PROVE  /\ head' \in Positions /\ wrapped' \in BOOLEAN /\ written' = written + n
         /\ written' \in Nat
         /\ head + len >= Size => head' = head + len - Size /\ wrapped'
         /\ head + len < Size  => head' = head + len /\ wrapped' = wrapped
<1>1. /\ Size \in Nat \ {0} /\ head \in Nat /\ head < Size /\ len <= Size
      /\ written \in Nat /\ wrapped \in BOOLEAN
  BY LogAssumption DEF LogTypeOK, Positions, Least
<1>2. /\ head' = IF head + len >= Size THEN head + len - Size ELSE head + len
      /\ wrapped' = (wrapped \/ len > First(len) \/ head + len >= Size)
      /\ written' = written + n
  BY DEF Store, PastEnd, Wrap
<1>3. First(len) \in Nat /\ (head + len < Size => First(len) = len)
  BY <1>1 DEF First, Least
<1>4. head' \in Positions
  BY <1>1, <1>2 DEF Positions
<1>5. CASE head + len >= Size
  <2>1. wrapped' = TRUE
    BY <1>2, <1>5
  <2>2. head' = head + len - Size
    BY <1>2, <1>5
  <2> QED BY <1>1, <1>2, <1>4, <1>5, <2>1, <2>2
<1>6. CASE head + len < Size
  <2>1. ~(len > First(len)) /\ ~(head + len >= Size)
    BY <1>1, <1>3, <1>6
  <2> QED BY <1>1, <1>2, <1>4, <1>6, <2>1
<1> QED BY <1>1, <1>5, <1>6

\* Storing a line keeps the ring a window of the log.
LEMMA StoreKeepsWindow ==
  ASSUME IndexInv, NEW n \in Nat, Store(n)
  PROVE  /\ buf' \in [Positions -> Nat]
         /\ RingIsWindow'
<1> DEFINE len == Least(n, Size)
<1>1. Size \in Nat \ {0} /\ len \in Nat /\ len <= Size /\ len <= n /\ (n < Size => len = n)
      /\ (n >= Size => len = Size)
      /\ len = Least(n, Size)
  BY LogAssumption DEF Least
<1>2. buf' = Copied(n, len) /\ LogTypeOK
  BY DEF Store, IndexInv
<1> HIDE DEF len
<1>3. head \in Nat /\ head < Size /\ written \in Nat /\ wrapped \in BOOLEAN
  BY LogAssumption DEF IndexInv, LogTypeOK, Positions
<1>4. /\ head' \in Positions /\ wrapped' \in BOOLEAN /\ written' = written + n
      /\ head + len >= Size => head' = head + len - Size /\ wrapped'
      /\ head + len < Size  => head' = head + len /\ wrapped' = wrapped
  BY <1>1, <1>2, HeadMoves
<1>5. IF wrapped THEN written >= Size ELSE written = head
  BY DEF IndexInv, RingIsWindow
<1>6. IF wrapped' THEN written' >= Size ELSE written' = head'
  BY <1>1, <1>3, <1>4, <1>5
<1>7. ASSUME NEW i \in Positions
      PROVE  buf'[i] = Window(i, head', wrapped', written')
  <2>1. i \in Nat /\ i < Size /\ buf[i] = Window(i, head, wrapped, written)
    BY <1>7, <1>1 DEF Positions, IndexInv, RingIsWindow
  <2>2. CASE head <= i /\ i - head < len
    <3>1. buf'[i] = written + n - len + i - head + 1
      BY <1>1, <1>2, <2>2, StoredBytes
    <3> QED BY <1>1, <1>3, <1>4, <1>5, <2>1, <2>2, <3>1 DEF Window
  <2>3. CASE i < head /\ i + Size - head < len
    <3>1. buf'[i] = written + n - len + i + Size - head + 1
      BY <1>1, <1>2, <2>3, StoredBytes
    <3> QED BY <1>1, <1>3, <1>4, <1>5, <2>1, <2>3, <3>1 DEF Window
  <2>4. CASE ~(head <= i /\ i - head < len) /\ ~(i < head /\ i + Size - head < len)
    <3>1. buf'[i] = buf[i]
      BY <1>1, <1>2, <2>4, StoredBytes
    <3>2. len < Size /\ len = n
      BY <1>1, <1>3, <2>1, <2>4
    <3>3. CASE head + len >= Size
      BY <1>1, <1>3, <1>4, <1>5, <2>1, <2>4, <3>1, <3>2, <3>3 DEF Window
    <3>4. CASE head + len < Size
      BY <1>1, <1>3, <1>4, <1>5, <2>1, <2>4, <3>1, <3>2, <3>4 DEF Window
    <3> QED BY <1>1, <1>3, <3>3, <3>4
  <2> QED BY <2>2, <2>3, <2>4
<1>8. Copied(n, len) \in [Positions -> Nat]
  <2>1. 0 \in Positions
    BY <1>1 DEF Positions
  <2> QED BY <1>1, <1>2, <2>1, StoredBytes
<1> QED BY <1>2, <1>6, <1>7, <1>8 DEF RingIsWindow

---------------------------------------------------------------------------
\* The length of a dump, and where each of its bytes comes from.
LEMMA DumpGeometry ==
  ASSUME LogTypeOK, SnapInv
  PROVE  /\ DumpLen = Least(snap.cap - 1, Least(snap.written, Size))
         /\ DumpLen \in Nat /\ DumpLen < snap.cap
         /\ \A j \in Nat \ {0} : j <= DumpLen =>
              /\ Source(j) \in Positions
              /\ Distance(Source(j)) >= j - 1
              /\ Window(Source(j), snap.head, snap.wrapped, snap.written)
                   = snap.written - Least(snap.written, Size) + j
<1>1. /\ Size \in Nat \ {0} /\ snap.cap \in Nat \ {0} /\ snap.head \in Nat /\ snap.head < Size
      /\ snap.wrapped \in BOOLEAN /\ snap.written \in Nat
      /\ IF snap.wrapped THEN snap.written >= Size ELSE snap.written = snap.head
  BY LogAssumption DEF LogTypeOK, SnapInv, Positions
<1>2. CASE snap.wrapped
  <2>1. /\ OldPart = Least(Size - snap.head, snap.cap - 1)
        /\ DumpLen = Least(snap.cap - 1, Size)
    BY <1>1, <1>2 DEF DumpLen, OldPart, Room, Least
  <2> QED BY <1>1, <1>2, <2>1 DEF Source, Distance, Window, Least, Positions
<1>3. CASE ~snap.wrapped
  <2>1. OldPart = 0 /\ DumpLen = Least(snap.cap - 1, snap.head)
    BY <1>1, <1>3 DEF DumpLen, OldPart, Room, Least
  <2> QED BY <1>1, <1>3, <2>1 DEF Source, Distance, Window, Least, Positions
<1> QED BY <1>2, <1>3

\* Storing a line carries a dump in progress along.
LEMMA StoreKeepsDump ==
  ASSUME LogInv, NEW n \in Nat \ {0}, Store(n), UNCHANGED reader
  PROVE  DumpInv'
<1> DEFINE len == Least(n, Size)
<1>1. /\ Size \in Nat \ {0} /\ len \in Nat /\ len <= Size /\ len <= n
      /\ (n < Size => len = n) /\ (n >= Size => len = Size)
  BY LogAssumption DEF Least
<1>8. len = Least(n, Size) /\ buf' = Copied(n, len)
  BY DEF Store
<1> HIDE DEF len
<1>2. LogTypeOK /\ SnapInv /\ GarblesOldestOnly /\ snap' = snap /\ out' = out /\ dump' = dump
  BY DEF LogInv, IndexInv, DumpInv, reader
<1>3. /\ head \in Nat /\ head < Size /\ written \in Nat /\ wrapped \in BOOLEAN
      /\ snap.head \in Nat /\ snap.head < Size /\ snap.written \in Nat
      /\ snap.wrapped \in BOOLEAN /\ snap.written <= written
  BY <1>1, <1>2 DEF LogTypeOK, Positions, SnapInv
<1>4. /\ head' \in Positions /\ written' = written + n /\ wrapped' \in BOOLEAN
      /\ head + len >= Size => head' = head + len - Size /\ wrapped'
      /\ head + len < Size  => head' = head + len /\ wrapped' = wrapped
  BY <1>1, <1>2, <1>8, HeadMoves
<1>5. SnapInv'
  BY <1>2, <1>3, <1>4 DEF SnapInv, DumpLen, OldPart, Room
<1>6. GarblesOldestOnly'
  BY <1>2, <1>3, <1>4 DEF GarblesOldestOnly
<1>7. ASSUME dump
      PROVE  DriftInv'
  <2>2. PICK k \in Nat : k = written - snap.written
    BY <1>3
  <2>1. /\ k >= Size \/ head = snap.head + k \/ head = snap.head + k - Size
        /\ snap.wrapped => wrapped
        /\ \A i \in Positions :
             \/ buf[i] = Window(i, snap.head, snap.wrapped, snap.written)
             \/ buf[i] > snap.written /\ Distance(i) < k
    BY <1>7, <2>2 DEF LogInv, DumpInv, DriftInv
  <2>3. k + n >= Size \/ head' = snap.head + k + n \/ head' = snap.head + k + n - Size
    <3>1. head' = head + len - Size \/ head' = head + len
      BY <1>1, <1>3, <1>4
    <3>2. k + n < Size => len = n /\ k < Size
      BY <1>1, <2>2
    <3>3. head' < Size /\ head' \in Nat
      BY <1>1, <1>4 DEF Positions
    <3> QED BY <1>1, <1>3, <2>1, <2>2, <3>1, <3>2, <3>3
  <2>4. snap.wrapped => wrapped'
    <3>1. CASE head + len >= Size
      BY <1>4, <3>1
    <3>2. CASE head + len < Size
      BY <1>4, <2>1, <3>2
    <3> QED BY <1>1, <1>3, <3>1, <3>2
  <2>5. ASSUME NEW i \in Positions
        PROVE  \/ buf'[i] = Window(i, snap.head, snap.wrapped, snap.written)
               \/ buf'[i] > snap.written /\ Distance(i) < k + n
    <3>1. i \in Nat /\ i < Size
      BY <1>1 DEF Positions
    <3>2. CASE head <= i /\ i - head < len
      <4>1. buf'[i] = written + n - len + i - head + 1
        BY <1>1, <1>2, <1>8, <3>1, <3>2, StoredBytes
      <4>2. buf'[i] > snap.written
        BY <1>1, <1>3, <3>1, <3>2, <4>1
      <4>3. Distance(i) < k + n
        <5>1. CASE k >= Size
          BY <1>1, <1>3, <2>2, <3>1, <5>1 DEF Distance
        <5>2. CASE k < Size
          BY <1>1, <1>3, <2>1, <2>2, <3>1, <3>2, <5>2 DEF Distance
        <5> QED BY <1>1, <2>2, <5>1, <5>2
      <4> QED BY <2>2, <4>2, <4>3
    <3>3. CASE i < head /\ i + Size - head < len
      <4>1. buf'[i] = written + n - len + i + Size - head + 1
        BY <1>1, <1>2, <1>8, <3>1, <3>3, StoredBytes
      <4>2. buf'[i] > snap.written
        BY <1>1, <1>3, <3>1, <3>3, <4>1
      <4>3. Distance(i) < k + n
        <5>1. CASE k >= Size
          BY <1>1, <1>3, <2>2, <3>1, <5>1 DEF Distance
        <5>2. CASE k < Size
          BY <1>1, <1>3, <2>1, <2>2, <3>1, <3>3, <5>2 DEF Distance
        <5> QED BY <1>1, <2>2, <5>1, <5>2
      <4> QED BY <2>2, <4>2, <4>3
    <3>4. CASE ~(head <= i /\ i - head < len) /\ ~(i < head /\ i + Size - head < len)
      <4>1. buf'[i] = buf[i]
        BY <1>1, <1>2, <1>8, <3>1, <3>4, StoredBytes
      <4>2. Distance(i) \in Int
        BY <1>1, <1>3, <3>1 DEF Distance
      <4>3. CASE buf[i] = Window(i, snap.head, snap.wrapped, snap.written)
        BY <4>1, <4>3
      <4>4. CASE buf[i] > snap.written /\ Distance(i) < k
        BY <2>2, <4>1, <4>2, <4>4
      <4> QED BY <2>1, <4>3, <4>4
    <3> QED BY <3>2, <3>3, <3>4
  <2>6. written' - snap'.written = k + n /\ snap' = snap
    BY <1>2, <1>3, <1>4, <2>2
  <2>7. /\ k + n >= Size \/ head' = snap'.head + k + n \/ head' = snap'.head + k + n - Size
        /\ snap'.wrapped => wrapped'
    BY <2>3, <2>4, <2>6
  <2>8. ASSUME NEW i \in Positions
        PROVE  \/ buf'[i] = Window(i, snap.head, snap.wrapped, snap.written)'
               \/ buf'[i] > snap'.written /\ Distance(i)' < k + n
    BY <2>5, <2>6 DEF Window, Distance
  <2>9. /\ snap'.head \in Nat /\ head' \in Int
    BY <1>3, <1>4, <2>6 DEF Positions
  <2> QED BY <1>1, <2>2, <2>6, <2>7, <2>8, <2>9 DEF DriftInv
<1> QED BY <1>2, <1>5, <1>6, <1>7 DEF DumpInv

\* Copying one more byte, which may be newer than the dump.
LEMMA CopyKeepsDump ==
  ASSUME LogInv, DumpByte
  PROVE  out' \in Seq(Nat) /\ DumpInv'
<1> DEFINE j == Len(out) + 1
<1>1. /\ LogTypeOK /\ SnapInv /\ DriftInv /\ GarblesOldestOnly
      /\ UNCHANGED <<buf, head, wrapped, written, dump, snap>>
      /\ Len(out) < DumpLen /\ out' = Append(out, buf[Source(j)])
  BY DEF LogInv, IndexInv, DumpInv, DumpByte, ring
<1>2. out \in Seq(Nat) /\ j \in Nat \ {0} /\ DumpLen \in Nat /\ j <= DumpLen
  BY <1>1, DumpGeometry DEF LogTypeOK
<1>3. /\ Source(j) \in Positions /\ Distance(Source(j)) >= j - 1
      /\ Window(Source(j), snap.head, snap.wrapped, snap.written)
           = snap.written - Least(snap.written, Size) + j
  BY <1>1, <1>2, DumpGeometry
<1>4. buf[Source(j)] \in Nat /\ out' \in Seq(Nat) /\ Len(out') = j
  BY <1>1, <1>2, <1>3 DEF LogTypeOK
<1>5. \/ buf[Source(j)] = Window(Source(j), snap.head, snap.wrapped, snap.written)
      \/ buf[Source(j)] > snap.written /\ Distance(Source(j)) < written - snap.written
  BY <1>1, <1>3 DEF DriftInv
<1>6. /\ written \in Nat /\ snap.written \in Nat /\ Size \in Nat
      /\ snap.head \in Nat /\ Source(j) \in Nat
  BY <1>1, <1>3, LogAssumption DEF LogTypeOK, Positions
<1>7. Distance(Source(j)) \in Int
  BY <1>6 DEF Distance
<1>8. \/ buf[Source(j)] = snap.written - Least(snap.written, Size) + j
      \/ buf[Source(j)] > snap.written /\ j <= written - snap.written
  BY <1>2, <1>3, <1>5, <1>6, <1>7
<1>9. GarblesOldestOnly'
  <2> SUFFICES ASSUME NEW i \in 1..Len(out')
               PROVE  \/ out'[i] = snap.written - Least(snap.written, Size) + i
                      \/ out'[i] > snap.written /\ i <= written - snap.written
    BY <1>1 DEF GarblesOldestOnly, Least
  <2>1. CASE i = j
    BY <1>1, <1>2, <1>4, <1>8, <2>1
  <2>2. CASE i # j
    <3>1. i \in 1..Len(out) /\ out'[i] = out[i]
      BY <1>1, <1>2, <1>4, <2>2
    <3> QED BY <1>1, <3>1 DEF GarblesOldestOnly
  <2> QED BY <2>1, <2>2
<1>10. SnapInv' /\ DriftInv'
  BY <1>1, <1>2, <1>4 DEF SnapInv, DriftInv, DumpLen, OldPart, Room, Window, Distance, Least
<1> QED BY <1>1, <1>4, <1>9, <1>10 DEF DumpInv

\* The log starts empty, and no dump has begun.
LEMMA InitLog == LogInit => LogInv
<1> SUFFICES ASSUME LogInit PROVE LogInv
  OBVIOUS
<1>1. Size \in Nat \ {0} /\ 0 \in Positions
  BY LogAssumption DEF Positions
<1>2. LogTypeOK
  BY <1>1 DEF LogInit, LogTypeOK
<1>3. RingIsWindow
  BY <1>1 DEF LogInit, RingIsWindow, Window, Positions
<1>4. SnapInv /\ GarblesOldestOnly /\ ~dump
  BY <1>1 DEF LogInit, SnapInv, GarblesOldestOnly, DumpLen, OldPart, Room, Least
<1> QED BY <1>2, <1>3, <1>4 DEF LogInv, IndexInv, DumpInv

\* Every step keeps the invariant.
LEMMA NextLog == LogInv /\ [LogNext]_logVars => LogInv'
<1> SUFFICES ASSUME LogInv, [LogNext]_logVars
             PROVE  LogInv'
  OBVIOUS
<1>1. ASSUME NEW n \in 1..MaxMessage, Log(n)
      PROVE  LogInv'
  <2>1. Line(n) \in Nat \ {0} /\ Store(Line(n)) /\ UNCHANGED reader
    BY <1>1, LineLength DEF Log
  <2>2. buf' \in [Positions -> Nat] /\ RingIsWindow'
    BY <2>1, StoreKeepsWindow DEF LogInv
  <2>3. DumpInv'
    BY <2>1, StoreKeepsDump
  <2>4. head' \in Positions /\ wrapped' \in BOOLEAN /\ written' \in Nat
    <3>1. Least(Line(n), Size) \in Nat
      BY <2>1, LogAssumption DEF Least
    <3> QED BY <2>1, <3>1, HeadMoves DEF LogInv, IndexInv
  <2>5. LogTypeOK'
    BY <2>1, <2>2, <2>4 DEF LogInv, IndexInv, LogTypeOK, reader
  <2> QED BY <2>2, <2>3, <2>5 DEF LogInv, IndexInv
<1>2. ASSUME NEW cap \in Caps, DumpBegin(cap)
      PROVE  LogInv'
  <2>1. /\ Size \in Nat \ {0} /\ cap \in Nat \ {0}
        /\ snap' = [cap |-> cap, head |-> head, wrapped |-> wrapped, written |-> written]
        /\ out' = <<>> /\ UNCHANGED <<buf, head, wrapped, written>> /\ dump'
    BY <1>2, LogAssumption DEF DumpBegin, ring
  <2>2. LogTypeOK' /\ RingIsWindow'
    BY <2>1 DEF LogInv, IndexInv, LogTypeOK, RingIsWindow, Window
  <2>3. /\ head \in Nat /\ head < Size /\ written \in Nat /\ wrapped \in BOOLEAN
        /\ IF wrapped THEN written >= Size ELSE written = head
    BY <2>1 DEF LogInv, IndexInv, LogTypeOK, RingIsWindow, Positions
  <2>4. SnapInv'
    BY <2>1, <2>3 DEF SnapInv, DumpLen, OldPart, Room, Least
  <2>5. DriftInv'
    BY <2>1, <2>3 DEF DriftInv, LogInv, IndexInv, RingIsWindow, Window
  <2>6. GarblesOldestOnly'
    BY <2>1 DEF GarblesOldestOnly
  <2> QED BY <2>2, <2>4, <2>5, <2>6 DEF LogInv, IndexInv, DumpInv
<1>3. CASE DumpByte
  <2>1. out' \in Seq(Nat) /\ DumpInv'
    BY <1>3, CopyKeepsDump
  <2>2. IndexInv'
    BY <1>3, <2>1 DEF LogInv, IndexInv, LogTypeOK, RingIsWindow, Window, DumpByte, ring
  <2> QED BY <2>1, <2>2 DEF LogInv
<1>4. CASE DumpEnd
  BY <1>4 DEF DumpEnd, ring, LogInv, IndexInv, DumpInv, LogTypeOK, RingIsWindow, Window,
              SnapInv, GarblesOldestOnly, DumpLen, OldPart, Room
<1>5. CASE UNCHANGED logVars
  BY <1>5 DEF logVars, ring, reader, LogInv, IndexInv, DumpInv, LogTypeOK, RingIsWindow, Window,
              SnapInv, DriftInv, Distance, GarblesOldestOnly, DumpLen, OldPart, Room
<1> QED BY <1>1, <1>2, <1>3, <1>4, <1>5 DEF LogNext

THEOREM LogInvariant == LogSpec => []LogInv
<1>1. LogInit => LogInv
  BY InitLog
<1>2. LogInv /\ [LogNext]_logVars => LogInv'
  BY NextLog
<1> QED BY <1>1, <1>2, PTL DEF LogSpec

\* append() and the indices: the types hold for every size and every line.
THEOREM LogTypeCorrect == LogSpec => []LogTypeOK
<1>1. LogInv => LogTypeOK
  BY DEF LogInv, IndexInv
<1> QED BY <1>1, LogInvariant, PTL

\* append() keeps exactly the last LOGBUF_SIZE bytes of the log, in place.
THEOREM RingHoldsTheTail == LogSpec => []RingIsWindow
<1>1. LogInv => RingIsWindow
  BY DEF LogInv, IndexInv
<1> QED BY <1>1, LogInvariant, PTL

\* logbuf_dump() is safe for any cap, and cuts the dump only to fit it.
THEOREM DumpsFit == LogSpec => []DumpFits
<1>1. LogInv => DumpFits
  <2> SUFFICES ASSUME LogInv PROVE DumpFits
    OBVIOUS
  <2>1. LogTypeOK /\ SnapInv
    BY DEF LogInv, IndexInv, DumpInv
  <2>2. snap.cap \in Nat /\ Len(out) \in Nat /\ Len(out) <= DumpLen
    BY <2>1 DEF LogTypeOK, SnapInv
  <2> QED BY <2>1, <2>2, DumpGeometry DEF DumpFits
<1> QED BY <1>1, LogInvariant, PTL

\* A dump copied outside the lock is the log in order, and what is logged
\* meanwhile can only spoil its oldest bytes.
THEOREM OnlyTheOldestGarbled == LogSpec => []GarblesOldestOnly
<1>1. LogInv => GarblesOldestOnly
  BY DEF LogInv, DumpInv
<1> QED BY <1>1, LogInvariant, PTL
=============================================================================
