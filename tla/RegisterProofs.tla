---------------------------- MODULE RegisterProofs ----------------------------
(***************************************************************************)
(* The connections on their way to the user interface: the threads that    *)
(* deliver them, and the register that keeps them.                         *)
(*                                                                         *)
(* RegisteredIsPrefix and StoppedIsComplete hold for every capacity of the *)
(* queues and every number of batches, chunks and wake-ups.  Neither is    *)
(* inductive: the order of what was delivered follows from the order of    *)
(* what is still queued, and its completeness from the place of the        *)
(* termination request, behind all data.                                   *)
(*                                                                         *)
(* The ring of the ConnectionsRegister is addressed correctly, for every   *)
(* size of the ring and of the dumps: the position that                    *)
(* connectionsUpdates and getConnPositionById compute from an incr_id is   *)
(* the one of that connection.                                             *)
(*                                                                         *)
(* The ConnectionsRegister implements the ConnectionsLog, for every size   *)
(* of the ring and of the dumps.  The argument goes through what the log   *)
(* shows: read from its oldest connection, the ring is the end of what the *)
(* capture has reported, so that a step of the register is a step on a     *)
(* suffix of sent.                                                         *)
(***************************************************************************)
EXTENDS CaptureThreads, ConnectionsRegister, TLAPS

\* Each leaf is tried with Zenon, then with SMT.
USE ZenonT(5), SMTT(15)

-----------------------------------------------------------------------------
(* The register.                                                           *)

(* The inductive invariant.  A used slot before mTail was written by the   *)
(* current turn of the ring and one after it by the previous turn, which   *)
(* determines the id it holds.  What it holds is what was last reported.   *)
RingInv ==
    /\ sent \in Seq(Attr)
    /\ mItemsRing \in [Positions -> Conn \cup {Null}]
    /\ mTail \in Positions
    /\ mCurItems \in 0..Size /\ mUntrackedItems \in Nat
    /\ mCurItems < Size => mTail = mCurItems
    /\ \A p \in Positions : mItemsRing[p] # Null <=> p < mCurItems
    /\ \A p \in Positions : p < mCurItems =>
          /\ mItemsRing[p].id = (Len(sent) - mTail) + p - (IF p < mTail THEN 0 ELSE Size)
          /\ mItemsRing[p].attr = sent[mItemsRing[p].id + 1]

\* A sum of two positions wraps around at most once.
LEMMA Wrap ==
    ASSUME NEW x \in 0..(2 * Size - 1)
    PROVE  x % Size = IF x < Size THEN x ELSE x - Size
  <1> Size \in Nat \ {0}
    BY RegisterAssumption
  <1>1. CASE x < Size
    BY <1>1
  <1>2. CASE x >= Size
    <2>1. x \in Int /\ x < 2 * Size
      OBVIOUS
    <2>2. x % Size = x - Size
      BY <1>2, <2>1
    <2> QED BY <1>2, <2>2
  <1> QED BY <1>1, <1>2

\* The ring is empty.
LEMMA RingInit == Init => RingInv
  BY RegisterAssumption DEF Init, RingInv, Positions

\* The index of the loop of newConnections that writes position p, if any.
LEMMA WriteIndex ==
    ASSUME RingInv, NEW p \in Positions
    PROVE  (p - mTail + Size) % Size = IF p < mTail THEN p - mTail + Size ELSE p - mTail
  <1> DEFINE x == p - mTail + Size
  <1>0. Size \in Nat \ {0} /\ mTail \in 0..(Size - 1) /\ p \in 0..(Size - 1)
    BY RegisterAssumption DEF RingInv, Positions
  <1>1. x \in 0..(2 * Size - 1) /\ (x < Size <=> p < mTail) /\ x - Size = p - mTail
    BY <1>0
  <1> HIDE DEF x
  <1>2. x % Size = IF x < Size THEN x ELSE x - Size
    BY <1>1, Wrap
  <1>3. x % Size = IF p < mTail THEN x ELSE p - mTail
    BY <1>1, <1>2
  <1>4. QED
    BY <1>3 DEF x

\* The position after the last one written.
LEMMA NewTail ==
    ASSUME RingInv, NEW n \in 1..Size
    PROVE  (mTail + n) % Size = IF mTail + n < Size THEN mTail + n ELSE mTail + n - Size
  <1> DEFINE x == mTail + n
  <1>0. Size \in Nat \ {0} /\ mTail \in 0..(Size - 1) /\ n \in 1..Size
    BY RegisterAssumption DEF RingInv, Positions
  <1>1. x \in 0..(2 * Size - 1)
    BY <1>0
  <1> HIDE DEF x
  <1>2. x % Size = IF x < Size THEN x ELSE x - Size
    BY <1>1, Wrap
  <1>3. CASE x < Size
    <2>1. x % Size = x
      BY <1>2, <1>3
    <2> QED BY <1>0, <1>3, <2>1 DEF x
  <1>4. CASE ~(x < Size)
    <2>1. x % Size = x - Size
      BY <1>2, <1>4
    <2> QED BY <1>0, <1>4, <2>1 DEF x
  <1>5. QED
    BY <1>3, <1>4

\* The lengths of sequences add up.
LEMMA Concat ==
    ASSUME NEW S, NEW s \in Seq(S), NEW t \in Seq(S)
    PROVE  s \o t \in Seq(S) /\ Len(s \o t) = Len(s) + Len(t) /\ Len(s) \in Nat
  OBVIOUS

\* What is appended follows what there was.
LEMMA ConcatItems ==
    ASSUME NEW S, NEW s \in Seq(S), NEW t \in Seq(S)
    PROVE  /\ \A i \in 1..Len(s) : (s \o t)[i] = s[i]
           /\ \A i \in 1..Len(t) : (s \o t)[Len(s) + i] = t[i]
  OBVIOUS

\* processConnectionStatus sets two flags and keeps the rest.
LEMMA StatusKeepsId ==
    ASSUME NEW c \in Conn
    PROVE  /\ processConnectionStatus(c) \in Conn
           /\ processConnectionStatus(c).id = c.id
           /\ processConnectionStatus(c).attr = c.attr
           /\ processConnectionStatus(c) # Null
  <1> DEFINE c1 == [c EXCEPT !.alerted = c.attr.mal]
             c2 == [c1 EXCEPT !.accounted = c.attr.blk]
  <1>1. c.attr.mal \in BOOLEAN /\ c.attr.blk \in BOOLEAN /\ c.id \in Nat
    BY DEF Conn, Attr
  <1>2. c1 \in Conn /\ c1.id = c.id /\ c1.attr = c.attr
    BY <1>1 DEF Conn
  <1> HIDE DEF c1
  <1>3. c2 \in Conn /\ c2.id = c.id /\ c2.attr = c.attr
    BY <1>1, <1>2 DEF Conn
  <1>4. c2 = processConnectionStatus(c)
    BY DEF c1, processConnectionStatus
  <1> HIDE DEF c2
  <1>5. c2 # Null
    BY <1>1, <1>3 DEF Null
  <1>6. QED
    BY <1>3, <1>4, <1>5

\* A new connection, once processConnectionStatus has set its flags.
LEMMA NewConn ==
    ASSUME NEW i \in Nat, NEW a \in Attr
    PROVE  LET c == processConnectionStatus([id |-> i, attr |-> a, alerted |-> FALSE,
                                             accounted |-> FALSE])
           IN  c \in Conn /\ c.id = i /\ c.attr = a /\ c # Null
  <1> DEFINE c0 == [id |-> i, attr |-> a, alerted |-> FALSE, accounted |-> FALSE]
  <1>1. c0 \in Conn /\ c0.id = i /\ c0.attr = a
    BY DEF Conn
  <1> HIDE DEF c0
  <1>2. LET c == processConnectionStatus(c0) IN c \in Conn /\ c.id = i /\ c.attr = a /\ c # Null
    BY <1>1, StatusKeepsId
  <1>3. QED
    BY <1>2 DEF c0

\* newConnections keeps the invariant: the new connections are written in turn.
LEMMA RingAdd ==
    ASSUME RingInv, NEW len \in Nat \ {0}, NEW conns \in [1..len -> Attr], newConnections(conns)
    PROVE  RingInv'
  <1> DEFINE n == Least(len, Size)
             k(p) == (p - mTail + Size) % Size
             rec(p) == processConnectionStatus(
                          [id |-> Len(sent) + len - n + k(p), attr |-> conns[len - n + (k(p) + 1)],
                           alerted |-> FALSE, accounted |-> FALSE])
  <1>0. Size \in Nat \ {0} /\ mTail \in 0..(Size - 1) /\ mCurItems \in 0..Size
    BY RegisterAssumption DEF RingInv, Positions
  <1>1. Len(conns) = len /\ conns \in Seq(Attr)
    OBVIOUS
  <1>2. n \in 1..Size /\ n <= len /\ (len > Size => n = Size) /\ (n < Size => n = len)
    BY <1>0 DEF Least
  <1>9. \A p \in Positions : k(p) = IF p < mTail THEN p - mTail + Size ELSE p - mTail
    BY WriteIndex
  <1>3. /\ sent' = sent \o conns
        /\ mTail' = (mTail + n) % Size
        /\ mCurItems' = Least(mCurItems + n, Size)
        /\ mItemsRing' = [p \in Positions |-> IF k(p) < n THEN rec(p) ELSE mItemsRing[p]]
    <2>1. \A p \in Positions : k(p) < n =>
            k(p) + 1 \in 1..n
      BY <1>0, <1>2, <1>9 DEF Positions
    <2>2. QED
      BY <1>1, <2>1 DEF newConnections, NextTail
  <1> HIDE DEF k
  <1>4. sent' \in Seq(Attr) /\ Len(sent') = Len(sent) + len /\ Len(sent) \in Nat
    <2>1. sent \in Seq(Attr) /\ sent' = sent \o conns
      BY <1>3 DEF RingInv
    <2>2. /\ sent \o conns \in Seq(Attr) /\ Len(sent \o conns) = Len(sent) + Len(conns)
          /\ Len(sent) \in Nat
      BY <1>1, <2>1, Concat
    <2>3. QED
      BY <1>1, <2>1, <2>2
  <1>14. /\ \A i \in 1..Len(sent) : sent'[i] = sent[i]
         /\ \A i \in 1..len : sent'[Len(sent) + i] = conns[i]
    <2>1. sent \in Seq(Attr) /\ sent' = sent \o conns
      BY <1>3 DEF RingInv
    <2>2. /\ \A i \in 1..Len(sent) : (sent \o conns)[i] = sent[i]
          /\ \A i \in 1..Len(conns) : (sent \o conns)[Len(sent) + i] = conns[i]
      BY <1>1, <2>1, ConcatItems
    <2> QED BY <1>1, <2>1, <2>2
  <1>5. mTail' = IF mTail + n < Size THEN mTail + n ELSE mTail + n - Size
    <2> HIDE DEF n
    <2> QED BY <1>2, <1>3, NewTail
  <1>6. mTail' \in Positions
    <2> HIDE DEF n
    <2> QED BY <1>0, <1>2, <1>5 DEF Positions
  <1>7. /\ mCurItems' \in 0..Size
        /\ mCurItems' = IF mCurItems + n < Size THEN mCurItems + n ELSE Size
    BY <1>0, <1>2, <1>3 DEF Least
  <1>8. mCurItems' < Size => mTail' = mCurItems'
    BY <1>0, <1>2, <1>5, <1>7 DEF RingInv
  <1>10. ASSUME NEW p \in Positions, k(p) < n
         PROVE  /\ rec(p) \in Conn /\ rec(p).id = Len(sent) + len - n + k(p) /\ rec(p) # Null
                /\ rec(p).attr = sent'[rec(p).id + 1]
    <2>1. k(p) \in 0..(n - 1)
      BY <1>0, <1>2, <1>9, <1>10 DEF Positions
    <2> DEFINE i == Len(sent) + len - n + k(p)
               a == conns[len - n + (k(p) + 1)]
    <2>2. i \in Nat
      BY <1>2, <1>4, <2>1
    <2>3. len - n + (k(p) + 1) \in 1..len
      BY <1>2, <2>1
    <2>4. a \in Attr
      BY <2>3
    <2>5. rec(p) = processConnectionStatus([id |-> i, attr |-> a, alerted |-> FALSE,
                                            accounted |-> FALSE])
      OBVIOUS
    <2> HIDE DEF i, a, rec
    <2>6. rec(p) \in Conn /\ rec(p).id = i /\ rec(p).attr = a /\ rec(p) # Null
      BY <2>2, <2>4, <2>5, NewConn
    <2>7. i + 1 = Len(sent) + (len - n + (k(p) + 1))
      BY <1>2, <1>4, <2>1 DEF i
    <2>8. sent'[i + 1] = a
      BY <1>14, <2>3, <2>7 DEF a
    <2>9. QED
      BY <2>6, <2>8 DEF i
  <1> HIDE DEF rec
  <1>11. mItemsRing' \in [Positions -> Conn \cup {Null}]
    BY <1>3, <1>10 DEF RingInv
  <1> HIDE DEF n
  <1>12. ASSUME NEW p \in Positions
         PROVE  /\ mItemsRing'[p] # Null <=> p < mCurItems'
                /\ p < mCurItems' =>
                     /\ mItemsRing'[p].id = (Len(sent') - mTail') + p - (IF p < mTail' THEN 0 ELSE Size)
                     /\ mItemsRing'[p].attr = sent'[mItemsRing'[p].id + 1]
    <2>0. p \in 0..(Size - 1) /\ k(p) = IF p < mTail THEN p - mTail + Size ELSE p - mTail
      BY <1>9 DEF Positions
    <2>1. CASE k(p) < n
      <3>1. /\ mItemsRing'[p] = rec(p) /\ rec(p).id = Len(sent) + len - n + k(p) /\ rec(p) # Null
            /\ rec(p).attr = sent'[rec(p).id + 1]
        BY <1>3, <1>10, <2>1
      <3>2. p < mCurItems'
        BY <1>0, <1>2, <1>7, <2>0, <2>1 DEF RingInv
      <3>3. Len(sent) + len - n + k(p)
              = (Len(sent') - mTail') + p - (IF p < mTail' THEN 0 ELSE Size)
        BY <1>0, <1>2, <1>4, <1>5, <2>0, <2>1
      <3>4. QED
        BY <3>1, <3>2, <3>3
    <2>2. CASE ~(k(p) < n)
      <3>1. mItemsRing'[p] = mItemsRing[p]
        BY <1>3, <2>2
      <3>2. p < mCurItems' <=> p < mCurItems
        BY <1>0, <1>2, <1>7, <2>0, <2>2 DEF RingInv
      <3>3. /\ mItemsRing[p] # Null <=> p < mCurItems
            /\ p < mCurItems =>
                 /\ mItemsRing[p].id = (Len(sent) - mTail) + p - (IF p < mTail THEN 0 ELSE Size)
                 /\ mItemsRing[p].attr = sent[mItemsRing[p].id + 1]
        BY DEF RingInv
      <3>4. n < Size
        BY <1>0, <1>2, <2>0, <2>2
      <3>5. (Len(sent) - mTail) + p - (IF p < mTail THEN 0 ELSE Size)
              = (Len(sent') - mTail') + p - (IF p < mTail' THEN 0 ELSE Size)
        BY <1>0, <1>2, <1>4, <1>5, <2>0, <2>2, <3>4
      <3>6. p < mCurItems => sent'[mItemsRing[p].id + 1] = sent[mItemsRing[p].id + 1]
        <4> HAVE p < mCurItems
        <4>1. mItemsRing[p].id \in Nat /\ mItemsRing[p].id < Len(sent)
          <5>1. mItemsRing[p] \in Conn
            BY <3>3 DEF RingInv
          <5>2. mItemsRing[p].id \in Nat
            BY <5>1 DEF Conn
          <5>3. mItemsRing[p].id = (Len(sent) - mTail) + p - (IF p < mTail THEN 0 ELSE Size)
            BY <3>3
          <5>4. (Len(sent) - mTail) + p - (IF p < mTail THEN 0 ELSE Size) < Len(sent)
            BY <1>0, <1>4, <2>0
          <5> QED BY <5>2, <5>3, <5>4
        <4>2. mItemsRing[p].id + 1 \in 1..Len(sent)
          BY <1>4, <4>1
        <4> QED BY <1>14, <4>2
      <3>7. QED
        BY <3>1, <3>2, <3>3, <3>5, <3>6
    <2>3. QED
      BY <2>1, <2>2
  <1>15. mUntrackedItems' \in Nat
    <2>1. mUntrackedItems' = mUntrackedItems + (len - n) + OutItems(n) /\ mUntrackedItems \in Nat
      BY <1>1 DEF newConnections, RingInv, n
    <2>2. len - n \in Nat /\ OutItems(n) \in Nat
      BY <1>0, <1>2 DEF OutItems, Least
    <2> QED BY <2>1, <2>2
  <1>13. QED
    BY <1>4, <1>6, <1>7, <1>8, <1>11, <1>12, <1>15 DEF RingInv

\* reset empties the ring.
LEMMA RingReset ==
    ASSUME RingInv, reset
    PROVE  RingInv'
  BY RegisterAssumption DEF RingInv, reset, Positions

\* The oldest and the newest connection of the ring.
LEMMA Ends ==
    ASSUME RingInv, mCurItems > 0
    PROVE  /\ firstPos \in Positions /\ lastPos \in Positions
           /\ firstPos < mCurItems /\ lastPos < mCurItems
           /\ mItemsRing[firstPos].id = Len(sent) - mCurItems
           /\ mItemsRing[lastPos].id = Len(sent) - 1
           /\ Len(sent) \in Nat
  <1>0. Size \in Nat \ {0} /\ mTail \in 0..(Size - 1) /\ mCurItems \in 1..Size
    BY RegisterAssumption DEF RingInv, Positions
  <1>1. Len(sent) \in Nat
    BY DEF RingInv
  <1>2. mCurItems < Size => mTail = mCurItems
    BY DEF RingInv
  <1> DEFINE x == mTail - 1 + Size
  <1>3. x \in 0..(2 * Size - 1)
    BY <1>0
  <1> HIDE DEF x
  <1>4. x % Size = IF x < Size THEN x ELSE x - Size
    BY <1>3, Wrap
  <1>5. lastPos = x % Size
    BY DEF lastPos, x
  <1>6. lastPos = IF mTail = 0 THEN Size - 1 ELSE mTail - 1
    BY <1>0, <1>4, <1>5 DEF x
  <1>7. firstPos = IF mCurItems < Size THEN 0 ELSE mTail
    BY DEF firstPos
  <1>8. firstPos \in Positions /\ lastPos \in Positions /\ firstPos < mCurItems /\ lastPos < mCurItems
    BY <1>0, <1>2, <1>6, <1>7 DEF Positions
  <1>9. \A p \in Positions : p < mCurItems =>
          mItemsRing[p].id = (Len(sent) - mTail) + p - (IF p < mTail THEN 0 ELSE Size)
    BY DEF RingInv
  <1>10. mItemsRing[firstPos].id = Len(sent) - mCurItems
    <2>1. mItemsRing[firstPos].id = (Len(sent) - mTail) + firstPos - (IF firstPos < mTail THEN 0 ELSE Size)
      BY <1>8, <1>9
    <2> HIDE DEF firstPos
    <2> QED BY <2>1, <1>0, <1>1, <1>2, <1>7
  <1>11. mItemsRing[lastPos].id = Len(sent) - 1
    <2>1. mItemsRing[lastPos].id = (Len(sent) - mTail) + lastPos - (IF lastPos < mTail THEN 0 ELSE Size)
      BY <1>8, <1>9
    <2> QED BY <2>1, <1>0, <1>1, <1>6
  <1>12. QED
    BY <1>1, <1>8, <1>10, <1>11

\* Where connectionsUpdates finds a connection of the ring.
LEMMA Found ==
    ASSUME RingInv, mCurItems > 0,
           NEW id \in mItemsRing[firstPos].id..mItemsRing[lastPos].id
    PROVE  PosOf(id) \in Positions /\ PosOf(id) < mCurItems /\ mItemsRing[PosOf(id)].id = id
  <1>0. Size \in Nat \ {0} /\ mTail \in 0..(Size - 1) /\ mCurItems \in 1..Size
          /\ (mCurItems < Size => mTail = mCurItems)
    BY RegisterAssumption DEF RingInv, Positions
  <1> DEFINE N == Len(sent)
  <1>1. N \in Nat /\ mItemsRing[firstPos].id = N - mCurItems /\ mItemsRing[lastPos].id = N - 1
    BY Ends
  <1> HIDE DEF N
  <1>2. id \in (N - mCurItems)..(N - 1)
    BY <1>1
  <1> DEFINE f == firstPos
             x == (id - (N - mCurItems)) + f
  <1>3. f = IF mCurItems < Size THEN 0 ELSE mTail
    BY DEF firstPos
  <1>4. PosOf(id) = x % Size
    BY <1>1 DEF PosOf
  <1> HIDE DEF f
  <1>5. x \in 0..(2 * Size - 1)
    BY <1>0, <1>1, <1>2, <1>3
  <1> DEFINE p == x % Size
  <1>6. p = IF x < Size THEN x ELSE x - Size
    <2> HIDE DEF x
    <2> QED BY <1>5, Wrap
  <1> HIDE DEF p
  <1>7. p \in Positions /\ p < mCurItems
    BY <1>0, <1>1, <1>2, <1>3, <1>6 DEF Positions
  <1>8. mItemsRing[p].id = (N - mTail) + p - (IF p < mTail THEN 0 ELSE Size)
    BY <1>7 DEF RingInv, N
  <1>9. (N - mTail) + p - (IF p < mTail THEN 0 ELSE Size) = id
    BY <1>0, <1>1, <1>2, <1>3, <1>6
  <1>10. QED
    BY <1>4, <1>7, <1>8, <1>9 DEF p

\* An id is at one position of the ring only.
LEMMA OnePosition ==
    ASSUME RingInv, NEW p \in Positions, NEW q \in Positions, p < mCurItems, q < mCurItems,
           mItemsRing[p].id = mItemsRing[q].id
    PROVE  p = q
  <1>1. Size \in Nat \ {0} /\ mTail \in 0..(Size - 1) /\ p \in 0..(Size - 1) /\ q \in 0..(Size - 1)
    BY RegisterAssumption DEF RingInv, Positions
  <1>2. Len(sent) \in Nat
    BY DEF RingInv
  <1>3. /\ mItemsRing[p].id = (Len(sent) - mTail) + p - (IF p < mTail THEN 0 ELSE Size)
        /\ mItemsRing[q].id = (Len(sent) - mTail) + q - (IF q < mTail THEN 0 ELSE Size)
    BY DEF RingInv
  <1>4. (Len(sent) - mTail) + p - (IF p < mTail THEN 0 ELSE Size)
          = (Len(sent) - mTail) + q - (IF q < mTail THEN 0 ELSE Size)
    BY <1>3
  <1> QED BY <1>1, <1>2, <1>4

\* The connections of the ring are numbered from that of the oldest to that of the newest.
LEMMA IdsOfRing ==
    ASSUME RingInv, NEW p \in Positions, p < mCurItems
    PROVE  /\ mCurItems > 0 /\ mItemsRing[p].id \in 0..(Len(sent) - 1)
           /\ mItemsRing[p].id \in mItemsRing[firstPos].id..mItemsRing[lastPos].id
  <1>1. /\ Size \in Nat \ {0} /\ mTail \in 0..(Size - 1) /\ p \in 0..(Size - 1)
        /\ mCurItems \in 1..Size /\ (mCurItems < Size => mTail = mCurItems)
    BY RegisterAssumption DEF RingInv, Positions
  <1>2. /\ Len(sent) \in Nat /\ mItemsRing[firstPos].id = Len(sent) - mCurItems
        /\ mItemsRing[lastPos].id = Len(sent) - 1 /\ firstPos \in Positions /\ firstPos < mCurItems
    BY <1>1, Ends
  <1>3. mItemsRing[p].id \in Nat
    <2>1. mItemsRing[p] \in Conn
      BY DEF RingInv
    <2> QED BY <2>1 DEF Conn
  <1>4. mItemsRing[p].id = (Len(sent) - mTail) + p - (IF p < mTail THEN 0 ELSE Size)
    BY DEF RingInv
  <1>5. (Len(sent) - mTail) + p - (IF p < mTail THEN 0 ELSE Size) \in (Len(sent) - mCurItems)..(Len(sent) - 1)
    BY <1>1, <1>2
  <1>6. mItemsRing[p].id \in (Len(sent) - mCurItems)..(Len(sent) - 1)
    BY <1>4, <1>5
  <1>7. mItemsRing[p].id \in 0..(Len(sent) - 1)
    BY <1>2, <1>3, <1>6
  <1> QED BY <1>1, <1>2, <1>6, <1>7

\* connectionsUpdates keeps the invariant: an update is written where its connection is.
LEMMA RingUpdate ==
    ASSUME RingInv, NEW ids \in SUBSET (0..(Len(sent) - 1)), NEW attr \in [ids -> Attr],
           connectionsUpdates(ids, attr)
    PROVE  RingInv'
  <1> DEFINE found == {id \in ids : /\ mCurItems > 0
                                    /\ id >= mItemsRing[firstPos].id
                                    /\ id <= mItemsRing[lastPos].id}
             at(p) == CHOOSE id \in found : PosOf(id) = p
             hit == {PosOf(id) : id \in found}
             upd(p) == [mItemsRing[p] EXCEPT !.attr = attr[at(p)]]
  <1>1. /\ sent' = [k \in 1..Len(sent) |-> IF k - 1 \in ids THEN attr[k - 1] ELSE sent[k]]
        /\ mTail' = mTail /\ mCurItems' = mCurItems /\ mUntrackedItems' = mUntrackedItems
        /\ mItemsRing' = [p \in Positions |->
              IF p \in hit THEN processConnectionStatus(upd(p)) ELSE mItemsRing[p]]
    <2> DEFINE new == [p \in hit |-> upd(p)]
    <2>1. /\ sent' = [k \in 1..Len(sent) |-> IF k - 1 \in ids THEN attr[k - 1] ELSE sent[k]]
          /\ mTail' = mTail /\ mCurItems' = mCurItems /\ mUntrackedItems' = mUntrackedItems
      BY DEF connectionsUpdates
    <2>2. mItemsRing' = [p \in Positions |->
            IF p \in hit THEN processConnectionStatus(new[p]) ELSE mItemsRing[p]]
      BY Zenon DEF connectionsUpdates
    <2>3. \A p \in hit : new[p] = upd(p)
      BY Zenon
    <2> HIDE DEF new, upd, hit
    <2>4. mItemsRing' = [p \in Positions |->
            IF p \in hit THEN processConnectionStatus(upd(p)) ELSE mItemsRing[p]]
      BY <2>2, <2>3
    <2>5. QED
      BY <2>1, <2>4
  <1>10. \A k \in 1..Len(sent) : sent'[k] = IF k - 1 \in ids THEN attr[k - 1] ELSE sent[k]
    BY <1>1
  <1>2. sent' \in Seq(Attr) /\ Len(sent') = Len(sent) /\ Len(sent) \in Nat
    <2>1. sent \in Seq(Attr)
      BY DEF RingInv
    <2>2. Len(sent) \in Nat /\ \A k \in 1..Len(sent) : sent[k] \in Attr
      BY <2>1
    <2>3. \A k \in 1..Len(sent) : sent'[k] \in Attr
      BY <1>1, <2>2
    <2>4. QED
      BY <1>1, <2>2, <2>3
  <1>3. ASSUME NEW p \in hit
        PROVE  p < mCurItems /\ at(p) \in ids /\ mItemsRing[p].id = at(p)
    <2>1. PICK id \in found : p = PosOf(id)
      OBVIOUS
    <2>2. at(p) \in found /\ PosOf(at(p)) = p
      BY <2>1
    <2>3. mCurItems > 0 /\ id \in Int /\ id >= mItemsRing[firstPos].id /\ id <= mItemsRing[lastPos].id
      BY <2>1
    <2>4. mItemsRing[firstPos].id \in Int /\ mItemsRing[lastPos].id \in Int
      BY <2>3, Ends DEF RingInv
    <2>5. id \in mItemsRing[firstPos].id..mItemsRing[lastPos].id
      BY <2>3, <2>4
    <2>6. PosOf(id) < mCurItems
      BY <2>3, <2>5, Found
    <2>7. /\ at(p) \in Int /\ at(p) >= mItemsRing[firstPos].id /\ at(p) <= mItemsRing[lastPos].id
          /\ at(p) \in ids
      BY <2>2
    <2> HIDE DEF at
    <2>8. at(p) \in mItemsRing[firstPos].id..mItemsRing[lastPos].id
      BY <2>4, <2>7
    <2>9. mItemsRing[PosOf(at(p))].id = at(p)
      BY <2>3, <2>8, Found
    <2>10. QED
      BY <2>1, <2>2, <2>6, <2>7, <2>9
  <1>9. ASSUME NEW p \in Positions, p < mCurItems, mItemsRing[p].id \in ids
        PROVE  p \in hit
    <2> DEFINE id == mItemsRing[p].id
    <2>1. mCurItems > 0 /\ id \in mItemsRing[firstPos].id..mItemsRing[lastPos].id
      BY <1>9, IdsOfRing
    <2>2. id \in found
      BY <1>9, <2>1
    <2>3. PosOf(id) \in Positions /\ PosOf(id) < mCurItems /\ mItemsRing[PosOf(id)].id = id
      BY <2>1, Found
    <2>4. PosOf(id) = p
      BY <1>9, <2>3, OnePosition
    <2> QED BY <2>2, <2>4
  <1> HIDE DEF found, at, hit
  <1>4. ASSUME NEW p \in Positions
        PROVE  /\ mItemsRing'[p] \in Conn \cup {Null}
               /\ mItemsRing'[p] # Null <=> mItemsRing[p] # Null
               /\ mItemsRing[p] # Null => /\ mItemsRing'[p].id = mItemsRing[p].id
                                          /\ mItemsRing'[p].attr = sent'[mItemsRing[p].id + 1]
    <2>1. CASE p \in hit
      <3>1. mItemsRing[p] \in Conn /\ attr[at(p)] \in Attr
        BY <1>3, <2>1 DEF RingInv
      <3>2. upd(p) \in Conn /\ upd(p).id = mItemsRing[p].id /\ upd(p).attr = attr[at(p)]
        BY <3>1 DEF Conn
      <3> HIDE DEF upd
      <3>3. mItemsRing'[p] = processConnectionStatus(upd(p))
        BY <1>1, <2>1
      <3>4. mItemsRing[p] # Null
        BY <1>3, <2>1 DEF RingInv
      <3>5. sent'[mItemsRing[p].id + 1] = attr[at(p)]
        <4>1. PICK id \in ids : id = at(p) /\ mItemsRing[p].id = id
          BY <1>3, <2>1
        <4>2. PICK k \in 1..Len(sent) : k = id + 1 /\ k - 1 = id
          BY <1>2
        <4>3. sent'[k] = attr[id]
          BY <1>10, <4>2
        <4> QED BY <4>1, <4>2, <4>3
      <3>6. QED
        BY <3>2, <3>3, <3>4, <3>5, StatusKeepsId
    <2>2. CASE p \notin hit
      <3>1. mItemsRing'[p] = mItemsRing[p]
        BY <1>1, <2>2
      <3>2. mItemsRing[p] # Null => sent'[mItemsRing[p].id + 1] = mItemsRing[p].attr
        <4> HAVE mItemsRing[p] # Null
        <4>1. p < mCurItems /\ mItemsRing[p].attr = sent[mItemsRing[p].id + 1]
          BY DEF RingInv
        <4>2. mItemsRing[p].id \in 0..(Len(sent) - 1) /\ mItemsRing[p].id \notin ids
          BY <1>9, <2>2, <4>1, IdsOfRing
        <4>3. mItemsRing[p].id + 1 \in 1..Len(sent) /\ mItemsRing[p].id + 1 - 1 = mItemsRing[p].id
          BY <1>2, <4>2
        <4> QED BY <1>1, <4>1, <4>2, <4>3
      <3>3. QED
        BY <3>1, <3>2 DEF RingInv
    <2>3. QED
      BY <2>1, <2>2
  <1>5. mItemsRing' \in [Positions -> Conn \cup {Null}]
    <2> DEFINE g(p) == IF p \in hit THEN processConnectionStatus(upd(p)) ELSE mItemsRing[p]
    <2>1. mItemsRing' = [p \in Positions |-> g(p)]
      BY <1>1
    <2> HIDE DEF g
    <2>2. \A p \in Positions : g(p) \in Conn \cup {Null}
      BY <1>4, <2>1
    <2>3. QED
      BY <2>1, <2>2
  <1>6. ASSUME NEW p \in Positions
        PROVE  /\ mItemsRing'[p] # Null <=> p < mCurItems'
               /\ p < mCurItems' =>
                    /\ mItemsRing'[p].id = (Len(sent') - mTail') + p - (IF p < mTail' THEN 0 ELSE Size)
                    /\ mItemsRing'[p].attr = sent'[mItemsRing'[p].id + 1]
    <2>1. /\ mItemsRing[p] # Null <=> p < mCurItems
          /\ p < mCurItems =>
               mItemsRing[p].id = (Len(sent) - mTail) + p - (IF p < mTail THEN 0 ELSE Size)
      BY DEF RingInv
    <2>2. mTail' = mTail /\ mCurItems' = mCurItems /\ Len(sent') = Len(sent)
      BY <1>1, <1>2
    <2>3. QED
      BY <1>4, <2>1, <2>2
  <1>7. /\ mTail' \in Positions /\ mCurItems' \in 0..Size /\ (mCurItems' < Size => mTail' = mCurItems')
        /\ mUntrackedItems' \in Nat
    BY <1>1 DEF RingInv
  <1>8. QED
    BY <1>2, <1>5, <1>6, <1>7 DEF RingInv

\* Every method of the register keeps the invariant.
LEMMA RingStep == RingInv /\ [Next]_vars => RingInv'
  <1> SUFFICES ASSUME RingInv, [Next]_vars
               PROVE  RingInv'
    OBVIOUS
  <1>1. ASSUME NEW conns \in Batches, newConnections(conns)
        PROVE  RingInv'
    <2>1. PICK len \in 1..Least(MaxBatch, MaxConns - Len(sent)) : conns \in [1..len -> Attr]
      BY RegisterAssumption, ZenonT(20) DEF Batches, Attr
    <2>2. len \in Nat \ {0}
      OBVIOUS
    <2>3. QED
      BY <1>1, <2>1, <2>2, RingAdd
  <1>2. ASSUME NEW ids \in SUBSET (0..(Len(sent) - 1)), NEW attr \in Changes(ids),
               connectionsUpdates(ids, attr)
        PROVE  RingInv'
    <2>1. attr \in [ids -> Attr]
      BY RegisterAssumption DEF Changes, Attr
    <2>2. QED
      BY <1>2, <2>1, RingUpdate
  <1>3. CASE reset
    BY <1>3, RingReset
  <1>4. CASE UNCHANGED vars
    BY <1>4 DEF vars, RingInv
  <1>5. QED
    BY <1>1, <1>2, <1>3, <1>4 DEF Next

(* For every size of the ring and every sequence of dumps: the assertion   *)
(* "assert(conn.incr_id == id)" of connectionsUpdates holds, and the used  *)
(* slots are the first mCurItems ones.                                     *)
THEOREM RingAddressing == Spec => [](AssertHolds /\ SlotsInUse)
  <1>1. RingInv => AssertHolds /\ SlotsInUse
    BY Found DEF AssertHolds, SlotsInUse, RingInv
  <1>2. QED
    BY <1>1, RingInit, RingStep, PTL DEF Spec

-----------------------------------------------------------------------------
(* The register implements the log.                                        *)

\* The last mCurItems connections that were reported.
Shown == [i \in 1..mCurItems |-> [id |-> Len(sent) - mCurItems + i - 1,
                                  attr |-> sent[Len(sent) - mCurItems + i]]]

\* The ring, read from its oldest connection, is the end of what was reported.
LEMMA RingShown ==
    ASSUME RingInv
    PROVE  LogItems = Shown /\ Len(sent) \in Nat /\ mCurItems \in 0..Len(sent) /\ mCurItems <= Size
  <1>1. Len(sent) \in Nat /\ Size \in Nat /\ mCurItems \in 0..Size
    BY RegisterAssumption DEF RingInv
  <1>2. mCurItems <= Len(sent)
    <2>1. CASE mCurItems = 0
      BY <1>1, <2>1
    <2>2. CASE mCurItems > 0
      <3>1. mItemsRing[firstPos].id = Len(sent) - mCurItems /\ firstPos \in Positions /\ firstPos < mCurItems
        BY <2>2, Ends
      <3>2. mItemsRing[firstPos].id \in 0..(Len(sent) - 1)
        BY <3>1, IdsOfRing
      <3> QED BY <1>1, <3>1, <3>2
    <2> QED BY <1>1, <2>1, <2>2
  <1>3. ASSUME NEW i \in 1..mCurItems
        PROVE  /\ getConn(i - 1).id = Len(sent) - mCurItems + i - 1
               /\ getConn(i - 1).attr = sent[Len(sent) - mCurItems + i]
    <2> DEFINE first == mItemsRing[firstPos].id
               id == Len(sent) - mCurItems + i - 1
    <2>1. /\ mCurItems > 0 /\ first = Len(sent) - mCurItems /\ mItemsRing[lastPos].id = Len(sent) - 1
          /\ firstPos \in Positions
      BY <1>1, Ends
    <2>2. id \in first..mItemsRing[lastPos].id /\ id - first = i - 1
      BY <1>1, <2>1
    <2>3. firstPos \in Nat
      BY <1>1, <2>1 DEF Positions
    <2>4. (id - first) + firstPos = firstPos + (i - 1)
      BY <2>2, <2>3
    <2>5. PosOf(id) = (firstPos + (i - 1)) % Size
      BY <2>4 DEF PosOf
    <2> HIDE DEF id, first
    <2>6. PosOf(id) \in Positions /\ PosOf(id) < mCurItems /\ mItemsRing[PosOf(id)].id = id
      BY <2>1, <2>2, Found DEF first
    <2>7. mItemsRing[PosOf(id)].attr = sent[id + 1]
      BY <2>6 DEF RingInv
    <2>8. getConn(i - 1) = mItemsRing[PosOf(id)]
      BY <2>5 DEF getConn
    <2>9. id + 1 = Len(sent) - mCurItems + i
      BY <1>1 DEF id
    <2>10. getConn(i - 1).id = id /\ getConn(i - 1).attr = sent[Len(sent) - mCurItems + i]
      BY <2>6, <2>7, <2>8, <2>9
    <2> QED BY <2>10 DEF id
  <1>4. LogItems = Shown
    BY <1>3 DEF LogItems, Shown
  <1> QED BY <1>1, <1>2, <1>4

\* The same of the next state.
LEMMA RingShownNext == RingInv' => (LogItems = Shown)'
  <1>1. RingInv => LogItems = Shown
    BY RingShown
  <1> QED BY <1>1, PTL

\* The newest connections of the log and the reported ones follow each other in sent'.
LEMMA ShownThenNew ==
    ASSUME RingInv, NEW len \in Nat \ {0}, NEW conns \in [1..len -> Attr], sent' = sent \o conns
    PROVE  LET new == [k \in 1..len |-> [id |-> Len(sent) + k - 1, attr |-> sent'[Len(sent) + k]]]
               all == Shown \o new
           IN  /\ all \in Seq([id : Int, attr : Attr]) /\ Len(all) = mCurItems + len
               /\ \A i \in 1..(mCurItems + len) :
                     all[i] = [id |-> Len(sent) - mCurItems + i - 1,
                               attr |-> sent'[Len(sent) - mCurItems + i]]
  <1> DEFINE new == [k \in 1..len |-> [id |-> Len(sent) + k - 1, attr |-> sent'[Len(sent) + k]]]
             S == [id : Int, attr : Attr]
             at(i) == [id |-> Len(sent) - mCurItems + i - 1, attr |-> sent'[Len(sent) - mCurItems + i]]
  <1>1. Len(sent) \in Nat /\ mCurItems \in 0..Len(sent) /\ sent \in Seq(Attr)
    BY RingShown DEF RingInv
  <1>2. conns \in Seq(Attr) /\ Len(conns) = len
    OBVIOUS
  <1>3. /\ \A i \in 1..Len(sent) : sent'[i] = sent[i] /\ sent'[i] \in Attr
        /\ \A k \in 1..len : sent'[Len(sent) + k] \in Attr
    BY <1>1, <1>2, ConcatItems
  <1>4. ASSUME NEW i \in 1..mCurItems
        PROVE  /\ Shown[i] = at(i) /\ at(i) \in S
    <2>1. Len(sent) - mCurItems + i \in 1..Len(sent) /\ Len(sent) - mCurItems + i - 1 \in Int
      BY <1>1
    <2>2. /\ sent'[Len(sent) - mCurItems + i] = sent[Len(sent) - mCurItems + i]
          /\ sent'[Len(sent) - mCurItems + i] \in Attr
      BY <1>3, <2>1
    <2> QED BY <2>1, <2>2 DEF Shown
  <1>5. ASSUME NEW k \in 1..len
        PROVE  new[k] = at(mCurItems + k) /\ new[k] \in S
    <2>1. /\ Len(sent) - mCurItems + (mCurItems + k) = Len(sent) + k /\ Len(sent) + k - 1 \in Int
          /\ Len(sent) - mCurItems + (mCurItems + k) - 1 = Len(sent) + k - 1
      BY <1>1
    <2>2. at(mCurItems + k) = [id |-> Len(sent) + k - 1, attr |-> sent'[Len(sent) + k]]
      BY <2>1
    <2>3. [id |-> Len(sent) + k - 1, attr |-> sent'[Len(sent) + k]] \in S
      BY <1>3, <2>1
    <2> QED BY <2>2, <2>3
  <1>6. Shown \in Seq(S) /\ Len(Shown) = mCurItems
    <2> HIDE DEF at, S
    <2>1. Shown = [i \in 1..mCurItems |-> at(i)]
      BY <1>4 DEF Shown
    <2> QED BY <1>1, <1>4, <2>1
  <1>7. new \in Seq(S) /\ Len(new) = len
    <2>1. \A k \in 1..len : new[k] \in S
      BY <1>5
    <2>2. new = [k \in 1..len |-> new[k]]
      OBVIOUS
    <2> HIDE DEF new, S
    <2>3. new \in [1..len -> S]
      BY <2>1, <2>2
    <2> QED BY <2>3
  <1> HIDE DEF new, S, at
  <1> DEFINE all == Shown \o new
  <1>8. all \in Seq(S) /\ Len(all) = mCurItems + len
    BY <1>6, <1>7, Concat
  <1>9. /\ \A i \in 1..mCurItems : all[i] = Shown[i]
        /\ \A k \in 1..len : all[mCurItems + k] = new[k]
    BY <1>6, <1>7, ConcatItems
  <1> HIDE DEF all
  <1>10. ASSUME NEW i \in 1..(mCurItems + len)
         PROVE  all[i] = at(i)
    <2>1. CASE i \in 1..mCurItems
      BY <1>4, <1>9, <2>1
    <2>2. CASE i > mCurItems
      <3>1. PICK k \in 1..len : i = mCurItems + k
        <4>1. i - mCurItems \in 1..len /\ i = mCurItems + (i - mCurItems)
          BY <1>1, <2>2
        <4> QED BY <4>1
      <3> QED BY <1>5, <1>9, <3>1
    <2> QED BY <1>1, <2>1, <2>2
  <1> QED BY <1>8, <1>10 DEF all, new, S, at

\* What SubSeq cuts from a sequence.
LEMMA Slice ==
    ASSUME NEW S, NEW s \in Seq(S), NEW d \in Nat, NEW n \in Nat
    PROVE  SubSeq(s, d + 1, d + n) = [i \in 1..n |-> s[d + i]]
  <1>1. SubSeq(s, d + 1, d + n) = [i \in 1..(d + n - (d + 1) + 1) |-> s[i + (d + 1) - 1]]
    BY SMT
  <1>2. d + n - (d + 1) + 1 = n /\ \A i \in 1..n : i + (d + 1) - 1 = d + i
    BY SMT
  <1> QED BY <1>1, <1>2

\* newConnections is an addition to the log.
LEMMA AddImplementsAdd ==
    ASSUME RingInv, RingInv', NEW len \in Nat \ {0}, NEW conns \in [1..len -> Attr],
           newConnections(conns)
    PROVE  Log!Add(len)
  <1> DEFINE new == [k \in 1..len |-> [id |-> Len(sent) + k - 1, attr |-> sent'[Len(sent) + k]]]
             all == Shown \o new
             n == Least(len, Size)
             N == Len(sent)
  <1>1. /\ N \in Nat /\ mCurItems \in 0..Size /\ Size \in Nat \ {0}
        /\ LogItems = Shown /\ LogItems' = Shown'
    BY RegisterAssumption, RingShown, RingShownNext DEF RingInv
  <1>2. /\ conns \in Seq(Attr) /\ Len(conns) = len /\ sent \in Seq(Attr)
    BY DEF RingInv
  <1>3. /\ sent' = sent \o conns
        /\ mCurItems' = Least(mCurItems + n, Size)
        /\ mUntrackedItems' = mUntrackedItems + (len - n) + OutItems(n)
    BY <1>2 DEF newConnections
  <1>4. /\ Len(sent') = N + len /\ SubSeq(sent', 1, N) = sent
    <2>1. Len(sent') = N + len /\ sent' \in Seq(Attr)
      BY <1>2, <1>3, Concat
    <2>2. \A i \in 1..N : sent'[i] = sent[i]
      BY <1>2, <1>3, ConcatItems
    <2> QED BY <1>1, <1>2, <2>1, <2>2
  <1>5. /\ all \in Seq([id : Int, attr : Attr]) /\ Len(all) = mCurItems + len
        /\ \A i \in 1..(mCurItems + len) :
              all[i] = [id |-> N - mCurItems + i - 1, attr |-> sent'[N - mCurItems + i]]
    BY <1>3, ShownThenNew
  <1>6. mCurItems' = Least(mCurItems + len, Size)
    BY <1>1, <1>3 DEF Least
  <1>7. mUntrackedItems' = mUntrackedItems + ((mCurItems + len) - mCurItems')
    <2>1. (len - n) + OutItems(n) = (mCurItems + len) - mCurItems'
      BY <1>1, <1>6 DEF Least, OutItems
    <2>2. len - n \in Int /\ OutItems(n) \in Int
      BY <1>1 DEF Least, OutItems
    <2>3. mUntrackedItems \in Int
      BY DEF RingInv
    <2> HIDE DEF n
    <2> QED BY <1>3, <2>1, <2>2, <2>3
  <1> HIDE DEF n, all, N
  <1>8. Shown' = [i \in 1..mCurItems' |-> [id |-> (N + len) - mCurItems' + i - 1,
                                           attr |-> sent'[(N + len) - mCurItems' + i]]]
    BY <1>4 DEF Shown
  <1>9. Shown' = Log!LastOf(all, Size)
    <2>1. CASE mCurItems + len > Size
      <3>1. mCurItems' = Size /\ Log!LastOf(all, Size) = SubSeq(all, (mCurItems + len) - Size + 1, mCurItems + len)
        <4>1. mCurItems' = Size
          BY <1>1, <1>6, <2>1 DEF Least
        <4>2. Len(all) = mCurItems + len
          BY <1>5
        <4>3. Log!LastOf(all, Size) = SubSeq(all, Len(all) - Size + 1, Len(all))
          BY <2>1, <4>2, Zenon DEF Log!LastOf
        <4> QED BY <4>1, <4>2, <4>3, Zenon
      <3> DEFINE d == (mCurItems + len) - Size
                 sub == SubSeq(all, d + 1, mCurItems + len)
      <3>2. d \in Nat /\ d + Size = mCurItems + len /\ d >= 0
        BY <1>1, <2>1
      <3>3. sub = [i \in 1..Size |-> all[d + i]]
        <4> HIDE DEF d
        <4>1. all \in Seq([id : Int, attr : Attr]) /\ d \in Nat /\ Size \in Nat
          BY <1>1, <1>5, <3>2
        <4>2. SubSeq(all, d + 1, d + Size) = [i \in 1..Size |-> all[d + i]]
          BY <4>1, Slice, SMT
        <4> QED BY <3>2, <4>2 DEF sub
      <3> HIDE DEF sub
      <3>4. ASSUME NEW i \in 1..Size
            PROVE  all[d + i] = [id |-> (N + len) - Size + i - 1, attr |-> sent'[(N + len) - Size + i]]
        <4>1. /\ d + i \in 1..(mCurItems + len)
              /\ N - mCurItems + (d + i) = (N + len) - Size + i
              /\ N - mCurItems + (d + i) - 1 = (N + len) - Size + i - 1
          BY <1>1, <3>2
        <4> HIDE DEF d
        <4> QED BY <1>5, <4>1
      <3>5. sub = Shown'
        <4> HIDE DEF d
        <4> QED BY <1>8, <3>1, <3>3, <3>4
      <3> QED BY <3>1, <3>5 DEF sub, d
    <2>2. CASE mCurItems + len <= Size
      <3>1. mCurItems' = mCurItems + len /\ Log!LastOf(all, Size) = all
        <4>1. mCurItems' = mCurItems + len
          BY <1>1, <1>6, <2>2 DEF Least
        <4>2. ~(Len(all) > Size)
          BY <1>1, <1>5, <2>2
        <4> QED BY <4>1, <4>2, Zenon DEF Log!LastOf
      <3>2. (N + len) - mCurItems' = N - mCurItems
        BY <1>1, <3>1
      <3>3. all = [i \in 1..(mCurItems + len) |-> all[i]]
        BY <1>5
      <3> QED BY <1>5, <1>8, <3>1, <3>2, <3>3
    <2> QED BY <1>1, <2>1, <2>2
  <1>10. Len(Shown) = mCurItems /\ Len(Shown') = mCurItems' /\ mCurItems' \in Nat
    BY <1>1, <1>6 DEF Shown, Least
  <1>11. mUntrackedItems' = mUntrackedItems + Len(Shown) + len - Len(Shown')
    <2>1. mUntrackedItems \in Int
      BY DEF RingInv
    <2> QED BY <1>1, <1>7, <1>10, <2>1
  <1> QED BY <1>1, <1>4, <1>9, <1>11 DEF Log!Add, all, N

\* connectionsUpdates changes what the log shows, not which connections it has.
LEMMA UpdateImplementsUpdate ==
    ASSUME RingInv, RingInv', NEW ids \in SUBSET (0..(Len(sent) - 1)), NEW attr \in [ids -> Attr],
           connectionsUpdates(ids, attr)
    PROVE  Log!Update
  <1>1. /\ Len(sent) \in Nat /\ mCurItems \in 0..Len(sent)
        /\ LogItems = Shown /\ LogItems' = Shown'
    BY RingShown, RingShownNext
  <1>2. /\ sent' = [k \in 1..Len(sent) |-> IF k - 1 \in ids THEN attr[k - 1] ELSE sent[k]]
        /\ mCurItems' = mCurItems /\ mUntrackedItems' = mUntrackedItems
    BY DEF connectionsUpdates
  <1>3. Len(sent') = Len(sent)
    BY <1>1, <1>2
  <1>4. Len(Shown) = mCurItems
    BY <1>1 DEF Shown
  <1>5. ASSUME NEW k \in 1..mCurItems
        PROVE  [Shown[k] EXCEPT !.attr = sent'[Shown[k].id + 1]]
                  = [id |-> Len(sent) - mCurItems + k - 1, attr |-> sent'[Len(sent) - mCurItems + k]]
    <2>1. /\ Shown[k] = [id |-> Len(sent) - mCurItems + k - 1, attr |-> sent[Len(sent) - mCurItems + k]]
          /\ Len(sent) - mCurItems + k - 1 + 1 = Len(sent) - mCurItems + k
      BY <1>1 DEF Shown
    <2> QED BY <2>1
  <1>6. Shown' = [k \in 1..mCurItems |-> [id |-> Len(sent) - mCurItems + k - 1,
                                          attr |-> sent'[Len(sent) - mCurItems + k]]]
    BY <1>2, <1>3 DEF Shown
  <1>7. Shown' = [k \in 1..Len(Shown) |-> [Shown[k] EXCEPT !.attr = sent'[Shown[k].id + 1]]]
    BY <1>4, <1>5, <1>6
  <1> QED BY <1>1, <1>2, <1>3, <1>7 DEF Log!Update

\* reset empties the log.
LEMMA ResetImplementsReset ==
    ASSUME reset
    PROVE  Log!Reset
  <1>1. mCurItems' = 0 /\ mUntrackedItems' = 0 /\ sent' = sent
    BY DEF reset
  <1>2. LogItems' = <<>>
    BY <1>1 DEF LogItems
  <1> QED BY <1>1, <1>2 DEF Log!Reset

\* Every step of the register is a step of the log.
LEMMA StepImplementsStep == RingInv /\ RingInv' /\ [Next]_vars => [Log!Next]_(Log!vars)
  <1> SUFFICES ASSUME RingInv, RingInv', [Next]_vars
               PROVE  [Log!Next]_(Log!vars)
    OBVIOUS
  <1>1. ASSUME NEW conns \in Batches, newConnections(conns)
        PROVE  Log!Next
    <2>1. PICK len \in 1..Least(MaxBatch, MaxConns - Len(sent)) : conns \in [1..len -> Attr]
      BY RegisterAssumption, ZenonT(20) DEF Batches, Attr
    <2>2. len \in Nat \ {0} /\ len \in 1..MaxBatch
      <3>1. MaxBatch \in Nat /\ MaxConns \in Nat /\ Len(sent) \in Nat
        BY RegisterAssumption DEF RingInv
      <3> QED BY <2>1, <3>1 DEF Least
    <2>3. Log!Add(len)
      BY <1>1, <2>1, <2>2, AddImplementsAdd
    <2> QED BY <2>2, <2>3 DEF Log!Next
  <1>2. ASSUME NEW ids \in SUBSET (0..(Len(sent) - 1)), NEW attr \in Changes(ids),
               connectionsUpdates(ids, attr)
        PROVE  Log!Next
    <2>1. attr \in [ids -> Attr]
      BY RegisterAssumption DEF Changes, Attr
    <2> QED BY <1>2, <2>1, UpdateImplementsUpdate DEF Log!Next
  <1>3. CASE reset
    BY <1>3, ResetImplementsReset DEF Log!Next
  <1>4. CASE UNCHANGED vars
    <2>1. UNCHANGED <<sent, mItemsRing, mTail, mCurItems, mUntrackedItems>>
      BY <1>4 DEF vars
    <2>2. LogItems' = LogItems
      BY <2>1 DEF LogItems, getConn, firstPos
    <2> QED BY <2>1, <2>2 DEF Log!vars
  <1> QED BY <1>1, <1>2, <1>3, <1>4 DEF Next

(* ImplementsLog, for every size of the ring and every sequence of dumps,  *)
(* updates and resets: the ConnectionsRegister keeps the Size most recent  *)
(* connections in order, each as last reported, and counts the others.     *)
THEOREM RegisterImplementsLog == Spec => ImplementsLog
  <1>1. Init => Log!Init
    <2> SUFFICES ASSUME Init PROVE Log!Init
      OBVIOUS
    <2>1. mCurItems = 0 /\ sent = <<>> /\ mUntrackedItems = 0
      BY DEF Init
    <2>2. LogItems = <<>>
      BY <2>1 DEF LogItems
    <2> QED BY <2>1, <2>2 DEF Log!Init
  <1> QED BY <1>1, RingInit, RingStep, StepImplementsStep, PTL DEF Spec, ImplementsLog, Log!Spec

-----------------------------------------------------------------------------
(* The threads.                                                            *)

IsData(q, i) == q[i].kind = "data"

(* The queue q holds the data numbered from d + 1 to k, in this order,     *)
(* among items of other kinds; d of them have been delivered.              *)
Numbered(q, d, k) ==
    /\ d <= k
    /\ \A i \in 1..Len(q) : IsData(q, i) => q[i].n \in d + 1..k
    /\ \A i, j \in 1..Len(q) : i < j /\ IsData(q, i) /\ IsData(q, j) => q[i].n < q[j].n
    /\ \A m \in d + 1..k : \E i \in 1..Len(q) : IsData(q, i) /\ q[i].n = m

HasPill(q) == \E i \in 1..Len(q) : q[i] = Pill

\* No data is behind a termination request.
PillLast(q) == \A i, j \in 1..Len(q) : q[i] = Pill /\ i < j => ~IsData(q, j)

Joining == {"joinConn", "joinDumper", "end", "done"}

\* The number of the last chunk that was put in the queue.
Put == IF cap = "export" THEN chunks - 1 ELSE chunks

UpdatesInv ==
    /\ registered = [n \in 1..Len(registered) |-> n]
    /\ \E k \in 0..batches : /\ mQueueFull \/ k = batches
                             /\ Numbered(mPendingUpdates, Len(registered), k)
    /\ PillLast(mPendingUpdates)
    /\ HasPill(mPendingUpdates) \/ ~connThread => cap \in Joining
    /\ ~connThread => mQueueFull \/ Len(registered) = batches

DumpInv ==
    /\ file = [n \in 1..Len(file) |-> n]
    /\ failed => ~dumpThread
    /\ dumpThread => DumpEnabled
    /\ ~failed => Numbered(mDumpQueue, Len(file), Put)
    /\ PillLast(mDumpQueue)
    /\ \A i \in 1..Len(mDumpQueue) : mDumpQueue[i] # Wake
    /\ cap = "export" => dumper /\ chunks > 0
    /\ dumper => cap \in {"loop", "export"} /\ DumpEnabled
    /\ HasPill(mDumpQueue) \/ (DumpEnabled /\ ~dumpThread /\ ~failed) =>
           ~dumper /\ cap \notin {"starting", "export"}
    /\ DumpEnabled /\ ~dumpThread /\ ~failed => Len(file) = chunks

EndInv ==
    /\ cap \in {"joinDumper", "end", "done"} => ~connThread
    /\ cap \in {"end", "done"} => ~dumpThread
    /\ cap = "done" => ~running

ThreadsInv == ThreadsTypeOK /\ UpdatesInv /\ DumpInv /\ EndInv

-----------------------------------------------------------------------------
(* Queues.                                                                 *)

\* The items of a queue after an item is appended.
LEMMA AppendItems ==
  ASSUME NEW S, NEW q \in Seq(S), NEW item \in S
  PROVE  /\ Append(q, item) \in Seq(S)
         /\ Len(Append(q, item)) = Len(q) + 1
         /\ Append(q, item)[Len(q) + 1] = item
         /\ \A i \in 1..Len(q) : Append(q, item)[i] = q[i]
  OBVIOUS

\* The items of a queue after the first one is taken.
LEMMA TailItems ==
  ASSUME NEW S, NEW q \in Seq(S), q # <<>>
  PROVE  /\ Tail(q) \in Seq(S)
         /\ Len(q) > 0 /\ Len(Tail(q)) = Len(q) - 1
         /\ Head(q) = q[1] /\ Head(q) \in S
         /\ \A i \in 1..Len(q) - 1 : Tail(q)[i] = q[i + 1]
  OBVIOUS

\* The kinds of items are told apart by their first component.
LEMMA ItemKinds ==
  ASSUME NEW max \in Nat
  PROVE  /\ \A n \in 1..max : Item(n) \in Items(max)
         /\ Wake \in Items(max) /\ Pill \in Items(max)
         /\ \A item \in Items(max) :
               /\ item.n \in Nat
               /\ item.kind = "data" => item.n \in 1..max
               /\ item = Pill <=> item.kind = "end"
               /\ item = Wake <=> item.kind = "wake"
               /\ item.kind \in {"data", "wake", "end"}
         /\ \A n \in Nat : Item(n).kind = "data" /\ Item(n).n = n
  <1>1. /\ \A n \in 1..max : Item(n) \in Items(max)
        /\ Wake \in Items(max) /\ Pill \in Items(max)
    BY DEF Items
  <1>2. \A n \in Nat : Item(n).kind = "data" /\ Item(n).n = n /\ Item(n) # Pill /\ Item(n) # Wake
    BY DEF Item, Wake, Pill
  <1>3. Wake.kind = "wake" /\ Pill.kind = "end" /\ Wake.n = 0 /\ Pill.n = 0
    BY DEF Wake, Pill
  <1>4. ASSUME NEW item \in Items(max)
        PROVE  (\E n \in 1..max : item = Item(n)) \/ item = Wake \/ item = Pill
    BY DEF Items
  <1>5. 1..max \subseteq Nat
    OBVIOUS
  <1>6. ASSUME NEW item \in Items(max)
        PROVE  /\ item.n \in Nat
               /\ item.kind = "data" => item.n \in 1..max
               /\ item = Pill <=> item.kind = "end"
               /\ item = Wake <=> item.kind = "wake"
               /\ item.kind \in {"data", "wake", "end"}
    BY <1>2, <1>3, <1>4, <1>5
  <1> QED BY <1>1, <1>2, <1>6

\* The next number goes to the end of the queue.
LEMMA NumberedAppend ==
  ASSUME NEW max \in Nat, NEW q \in Seq(Items(max)), NEW d \in Nat, NEW k \in Nat,
         Numbered(q, d, k), k + 1 \in 1..max
  PROVE  Numbered(Append(q, Item(k + 1)), d, k + 1)
  <1> DEFINE r == Append(q, Item(k + 1))
  <1>1. /\ Len(r) = Len(q) + 1 /\ Len(q) \in Nat /\ r[Len(q) + 1] = Item(k + 1)
        /\ \A i \in 1..Len(q) : r[i] = q[i] /\ q[i].n \in Nat
        /\ Item(k + 1).kind = "data" /\ Item(k + 1).n = k + 1
    BY AppendItems, ItemKinds
  <1> HIDE DEF r
  <1>0. Len(r) = Len(q) + 1 /\ Len(q) \in Nat
    BY <1>1
  <1>2. \A i \in 1..Len(r) : IsData(r, i) => r[i].n \in d + 1..k + 1
    BY <1>1 DEF Numbered, IsData
  <1>3. \A i, j \in 1..Len(r) : i < j /\ IsData(r, i) /\ IsData(r, j) => r[i].n < r[j].n
    <2> SUFFICES ASSUME NEW i \in 1..Len(r), NEW j \in 1..Len(r), i < j, IsData(r, i), IsData(r, j)
                 PROVE  r[i].n < r[j].n
      OBVIOUS
    <2>1. i \in 1..Len(q) /\ r[i] = q[i] /\ q[i].n \in d + 1..k
      BY <1>1 DEF Numbered, IsData
    <2>2. CASE j = Len(q) + 1
      BY <1>1, <2>1, <2>2
    <2>3. CASE j \in 1..Len(q)
      BY <1>1, <2>1, <2>3 DEF Numbered, IsData
    <2>4. j = Len(q) + 1 \/ j \in 1..Len(q)
      BY <1>0
    <2> QED BY <2>2, <2>3, <2>4
  <1>4. \A m \in d + 1..k + 1 : \E i \in 1..Len(r) : IsData(r, i) /\ r[i].n = m
    <2> SUFFICES ASSUME NEW m \in d + 1..k + 1
                 PROVE  \E i \in 1..Len(r) : IsData(r, i) /\ r[i].n = m
      OBVIOUS
    <2>1. CASE m = k + 1
      <3>1. Len(q) + 1 \in 1..Len(r)
        BY <1>0
      <3> QED BY <1>1, <2>1, <3>1 DEF IsData
    <2>2. CASE m \in d + 1..k
      <3>1. PICK i \in 1..Len(q) : IsData(q, i) /\ q[i].n = m
        BY <2>2 DEF Numbered
      <3>2. i \in 1..Len(r) /\ r[i] = q[i]
        BY <1>1
      <3> QED BY <3>1, <3>2 DEF IsData
    <2> QED BY <2>1, <2>2
  <1>5. d <= k + 1
    BY DEF Numbered
  <1>6. Numbered(r, d, k + 1)
    BY <1>2, <1>3, <1>4, <1>5 DEF Numbered
  <1> QED BY <1>6 DEF r

\* An item without a number does not change the order of the data.
LEMMA NumberedOther ==
  ASSUME NEW max \in Nat, NEW q \in Seq(Items(max)), NEW d \in Nat, NEW k \in Nat,
         Numbered(q, d, k), NEW item \in {Wake, Pill}
  PROVE  Numbered(Append(q, item), d, k)
  <1> DEFINE r == Append(q, item)
  <1>1. /\ Len(r) = Len(q) + 1 /\ Len(q) \in Nat /\ r[Len(q) + 1] = item
        /\ \A i \in 1..Len(q) : r[i] = q[i]
        /\ item.kind # "data"
    BY AppendItems, ItemKinds DEF Wake, Pill
  <1> HIDE DEF r
  <1>2. \A i \in 1..Len(r) : IsData(r, i) => i \in 1..Len(q) /\ r[i] = q[i] /\ IsData(q, i)
    BY <1>1 DEF IsData
  <1>3. \A m \in d + 1..k : \E i \in 1..Len(r) : IsData(r, i) /\ r[i].n = m
    <2> TAKE m \in d + 1..k
    <2>1. PICK i \in 1..Len(q) : IsData(q, i) /\ q[i].n = m
      BY DEF Numbered
    <2> QED BY <1>1, <2>1 DEF IsData
  <1> QED BY <1>2, <1>3 DEF Numbered, r

\* What is taken is the next number.
LEMMA NumberedTake ==
  ASSUME NEW max \in Nat, NEW q \in Seq(Items(max)), NEW d \in Nat, NEW k \in Nat,
         Numbered(q, d, k), q # <<>>, Head(q).kind = "data"
  PROVE  Head(q).n = d + 1 /\ Numbered(Tail(q), d + 1, k)
  <1> DEFINE r == Tail(q)
  <1>1. /\ Len(q) \in Nat \ {0} /\ Len(r) = Len(q) - 1 /\ Head(q) = q[1]
        /\ \A i \in 1..Len(r) : r[i] = q[i + 1]
        /\ \A i \in 1..Len(q) : q[i].n \in Nat
    BY TailItems, ItemKinds
  <1> HIDE DEF r
  <1>2. q[1].n \in d + 1..k /\ IsData(q, 1)
    BY <1>1 DEF Numbered, IsData
  <1>3. q[1].n = d + 1
    <2>1. PICK i \in 1..Len(q) : IsData(q, i) /\ q[i].n = d + 1
      BY <1>2 DEF Numbered
    <2>2. i > 1 => q[1].n < q[i].n
      BY <1>1, <1>2, <2>1 DEF Numbered
    <2> QED BY <1>1, <1>2, <2>1, <2>2
  <1>4. \A i \in 1..Len(r) : IsData(r, i) => r[i].n \in (d + 1) + 1..k
    <2> SUFFICES ASSUME NEW i \in 1..Len(r), IsData(r, i) PROVE r[i].n \in (d + 1) + 1..k
      OBVIOUS
    <2>1. i + 1 \in 1..Len(q) /\ IsData(q, i + 1) /\ r[i] = q[i + 1] /\ 1 < i + 1
      BY <1>1 DEF IsData
    <2>2. q[i + 1].n \in d + 1..k
      BY <2>1 DEF Numbered
    <2>3. 1 \in 1..Len(q)
      BY <1>1
    <2>4. q[1].n < q[i + 1].n
      BY <1>2, <2>1, <2>3 DEF Numbered
    <2> QED BY <1>3, <2>1, <2>2, <2>4
  <1>5. \A i, j \in 1..Len(r) : i < j /\ IsData(r, i) /\ IsData(r, j) => r[i].n < r[j].n
    <2> SUFFICES ASSUME NEW i \in 1..Len(r), NEW j \in 1..Len(r), i < j, IsData(r, i), IsData(r, j)
                 PROVE  r[i].n < r[j].n
      OBVIOUS
    <2>1. i + 1 \in 1..Len(q) /\ j + 1 \in 1..Len(q) /\ i + 1 < j + 1
      BY <1>1
    <2>2. IsData(q, i + 1) /\ IsData(q, j + 1) /\ r[i] = q[i + 1] /\ r[j] = q[j + 1]
      BY <1>1 DEF IsData
    <2> QED BY <2>1, <2>2 DEF Numbered
  <1>6. \A m \in (d + 1) + 1..k : \E i \in 1..Len(r) : IsData(r, i) /\ r[i].n = m
    <2> TAKE m \in (d + 1) + 1..k
    <2>1. PICK i \in 1..Len(q) : IsData(q, i) /\ q[i].n = m
      BY DEF Numbered
    <2>2. i - 1 \in 1..Len(r) /\ r[i - 1] = q[i]
      BY <1>1, <1>3, <2>1
    <2> QED BY <2>1, <2>2 DEF IsData
  <1>7. d + 1 <= k
    BY <1>2
  <1>8. Numbered(r, d + 1, k)
    BY <1>4, <1>5, <1>6, <1>7 DEF Numbered
  <1> QED BY <1>1, <1>3, <1>8 DEF r

\* Taking another item changes nothing.
LEMMA NumberedSkip ==
  ASSUME NEW max \in Nat, NEW q \in Seq(Items(max)), NEW d \in Nat, NEW k \in Nat,
         Numbered(q, d, k), q # <<>>, Head(q).kind # "data"
  PROVE  Numbered(Tail(q), d, k)
  <1> DEFINE r == Tail(q)
  <1>1. /\ Len(q) \in Nat \ {0} /\ Len(r) = Len(q) - 1 /\ ~IsData(q, 1)
        /\ \A i \in 1..Len(r) : r[i] = q[i + 1]
    BY TailItems DEF IsData
  <1> HIDE DEF r
  <1>2. \A i \in 1..Len(r) : IsData(r, i) => IsData(q, i + 1) /\ i + 1 \in 1..Len(q) /\ r[i] = q[i + 1]
    BY <1>1 DEF IsData
  <1>3. \A m \in d + 1..k : \E i \in 1..Len(r) : IsData(r, i) /\ r[i].n = m
    <2> TAKE m \in d + 1..k
    <2>1. PICK i \in 1..Len(q) : IsData(q, i) /\ q[i].n = m
      BY DEF Numbered
    <2>2. i - 1 \in 1..Len(r) /\ r[i - 1] = q[i]
      BY <1>1, <2>1
    <2> QED BY <2>1, <2>2 DEF IsData
  <1>4. \A i, j \in 1..Len(r) : i < j /\ IsData(r, i) /\ IsData(r, j) => r[i].n < r[j].n
    <2> SUFFICES ASSUME NEW i \in 1..Len(r), NEW j \in 1..Len(r), i < j, IsData(r, i), IsData(r, j)
                 PROVE  r[i].n < r[j].n
      OBVIOUS
    <2>1. i + 1 < j + 1
      BY <1>1
    <2> QED BY <1>2, <2>1 DEF Numbered
  <1> QED BY <1>2, <1>3, <1>4 DEF Numbered, r

\* Without data in the queue everything was delivered.
LEMMA NumberedEmpty ==
  ASSUME NEW q, NEW d \in Nat, NEW k \in Nat, Numbered(q, d, k),
         \A i \in 1..Len(q) : ~IsData(q, i)
  PROVE  d = k
  <1> SUFFICES ASSUME d # k
               PROVE  FALSE
    OBVIOUS
  <1>1. d <= k
    BY DEF Numbered
  <1>2. d + 1 \in d + 1..k
    BY <1>1
  <1>3. PICK i \in 1..Len(q) : IsData(q, i)
    BY <1>2, Zenon DEF Numbered
  <1> QED BY <1>3

\* What an item that is appended does to the place of termination requests.
LEMMA PillAppend ==
  ASSUME NEW max \in Nat, NEW q \in Seq(Items(max)), NEW item \in Items(max), PillLast(q),
         item.kind = "data" => ~HasPill(q)
  PROVE  /\ PillLast(Append(q, item))
         /\ HasPill(Append(q, item)) <=> HasPill(q) \/ item = Pill
  <1> DEFINE r == Append(q, item)
  <1>1. /\ Len(r) = Len(q) + 1 /\ Len(q) \in Nat /\ r[Len(q) + 1] = item
        /\ \A i \in 1..Len(q) : r[i] = q[i]
    BY AppendItems
  <1> HIDE DEF r
  <1>2. HasPill(r) <=> HasPill(q) \/ item = Pill
    <2>1. HasPill(r) => HasPill(q) \/ item = Pill
      BY <1>1 DEF HasPill
    <2>2. HasPill(q) => HasPill(r)
      BY <1>1 DEF HasPill
    <2>3. item = Pill => HasPill(r)
      <3>1. Len(q) + 1 \in 1..Len(r)
        BY <1>1
      <3> QED BY <1>1, <3>1 DEF HasPill
    <2> QED BY <2>1, <2>2, <2>3
  <1>3. PillLast(r)
    <2> SUFFICES ASSUME NEW i \in 1..Len(r), NEW j \in 1..Len(r), r[i] = Pill, i < j
                 PROVE  ~IsData(r, j)
      BY DEF PillLast
    <2>1. i \in 1..Len(q) /\ q[i] = Pill
      BY <1>1
    <2>2. CASE j = Len(q) + 1
      BY <1>1, <2>1, <2>2 DEF IsData, HasPill
    <2>3. CASE j \in 1..Len(q)
      BY <1>1, <2>1, <2>3 DEF PillLast, IsData
    <2> QED BY <1>1, <2>2, <2>3
  <1> QED BY <1>2, <1>3 DEF r

\* Taking an item brings no termination request.
LEMMA PillTail ==
  ASSUME NEW max \in Nat, NEW q \in Seq(Items(max)), q # <<>>, PillLast(q)
  PROVE  /\ PillLast(Tail(q))
         /\ HasPill(Tail(q)) => HasPill(q)
         /\ Head(q) = Pill => HasPill(q) /\ \A i \in 1..Len(Tail(q)) : ~IsData(Tail(q), i)
  <1> DEFINE r == Tail(q)
  <1>1. /\ Len(q) \in Nat \ {0} /\ Len(r) = Len(q) - 1 /\ Head(q) = q[1]
        /\ \A i \in 1..Len(r) : r[i] = q[i + 1] /\ i + 1 \in 1..Len(q) /\ 1 < i + 1
        /\ 1 \in 1..Len(q)
    BY TailItems
  <1> HIDE DEF r
  <1>2. PillLast(r)
    <2> SUFFICES ASSUME NEW i \in 1..Len(r), NEW j \in 1..Len(r), r[i] = Pill, i < j
                 PROVE  ~IsData(r, j)
      BY DEF PillLast
    <2>1. q[i + 1] = Pill /\ i + 1 < j + 1 /\ i + 1 \in 1..Len(q) /\ j + 1 \in 1..Len(q)
      BY <1>1
    <2>2. ~IsData(q, j + 1)
      BY <2>1 DEF PillLast
    <2> QED BY <1>1, <2>2 DEF IsData
  <1>3. HasPill(r) => HasPill(q)
    BY <1>1 DEF HasPill
  <1>4. Head(q) = Pill => HasPill(q) /\ \A i \in 1..Len(r) : ~IsData(r, i)
    BY <1>1 DEF HasPill, PillLast, IsData
  <1> QED BY <1>2, <1>3, <1>4 DEF r

\* A wake-up or a termination request is offered to a queue.
LEMMA OfferOther ==
  ASSUME NEW max \in Nat, NEW q \in Seq(Items(max)), NEW item \in {Wake, Pill},
         NEW size \in Nat, Len(q) <= size, PillLast(q)
  PROVE  /\ offer(q, item, size) \in Seq(Items(max)) /\ Len(offer(q, item, size)) <= size
         /\ PillLast(offer(q, item, size))
         /\ HasPill(offer(q, item, size)) => HasPill(q) \/ item = Pill
         /\ \A d, k \in Nat : Numbered(q, d, k) => Numbered(offer(q, item, size), d, k)
         /\ item = Pill /\ (\A i \in 1..Len(q) : q[i] # Wake)
               => \A i \in 1..Len(offer(q, item, size)) : offer(q, item, size)[i] # Wake
  <1>1. CASE Len(q) >= size
    BY <1>1 DEF offer
  <1>2. CASE Len(q) < size
    <2>1. item \in Items(max) /\ item.kind # "data" /\ Pill # Wake
      BY ItemKinds, ZenonT(20) DEF Wake, Pill
    <2>2. offer(q, item, size) = Append(q, item)
      BY <1>2 DEF offer
    <2>3. /\ Append(q, item) \in Seq(Items(max)) /\ Len(q) \in Nat
          /\ Len(Append(q, item)) = Len(q) + 1 /\ Append(q, item)[Len(q) + 1] = item
          /\ \A i \in 1..Len(q) : Append(q, item)[i] = q[i]
      BY <2>1, AppendItems
    <2>4. /\ PillLast(Append(q, item))
          /\ HasPill(Append(q, item)) => HasPill(q) \/ item = Pill
      BY <2>1, PillAppend
    <2>5. \A d, k \in Nat : Numbered(q, d, k) => Numbered(Append(q, item), d, k)
      BY NumberedOther
    <2>6. item = Pill /\ (\A i \in 1..Len(q) : q[i] # Wake)
               => \A i \in 1..Len(Append(q, item)) : Append(q, item)[i] # Wake
      BY <2>1, <2>3
    <2> QED BY <1>2, <2>2, <2>3, <2>4, <2>5, <2>6
  <1> QED BY <1>1, <1>2

\* What was delivered in order grows by the next number.
LEMMA NextNumber ==
  ASSUME NEW max \in Nat, NEW s \in Seq(1..max), s = [n \in 1..Len(s) |-> n],
         Len(s) + 1 \in 1..max
  PROVE  /\ Append(s, Len(s) + 1) \in Seq(1..max)
         /\ Len(Append(s, Len(s) + 1)) = Len(s) + 1
         /\ Append(s, Len(s) + 1) = [n \in 1..Len(s) + 1 |-> n]
  <1> DEFINE r == Append(s, Len(s) + 1)
  <1>1. /\ r \in Seq(1..max) /\ Len(r) = Len(s) + 1 /\ Len(s) \in Nat /\ r[Len(s) + 1] = Len(s) + 1
        /\ \A i \in 1..Len(s) : r[i] = s[i] /\ s[i] = i
    BY AppendItems
  <1>2. r = [n \in 1..Len(r) |-> r[n]]
    BY <1>1
  <1> HIDE DEF r
  <1>3. \A n \in 1..Len(s) + 1 : r[n] = n
    BY <1>1
  <1> QED BY <1>1, <1>2, <1>3 DEF r

-----------------------------------------------------------------------------
(* The updates.                                                            *)

\* The invariant about the updates depends on a few variables only.
LEMMA UpdatesKept ==
  ASSUME UpdatesInv, cap \in Joining => cap' \in Joining,
         UNCHANGED <<registered, batches, mQueueFull, mPendingUpdates, connThread>>
  PROVE  UpdatesInv'
  BY DEF UpdatesInv, Numbered, IsData, PillLast, HasPill, Pill, Joining

\* updateConnections numbers the batches without a gap until the queue was full.
LEMMA UpdateNumbered ==
  ASSUME ThreadsTypeOK, UpdatesInv, cap \notin Joining, updateConnections,
         UNCHANGED <<registered, connThread>>
  PROVE  /\ UpdatesInv'
         /\ mPendingUpdates' \in Seq(Items(MaxBatches)) /\ Len(mPendingUpdates') <= UpdatesCap
         /\ batches' \in 0..MaxBatches /\ mQueueFull' \in BOOLEAN /\ stopPosted' \in BOOLEAN
  <1>1. /\ mPendingUpdates \in Seq(Items(MaxBatches)) /\ Len(mPendingUpdates) <= UpdatesCap
        /\ batches \in 0..MaxBatches /\ MaxBatches \in Nat /\ UpdatesCap \in Nat
        /\ mQueueFull \in BOOLEAN /\ stopPosted \in BOOLEAN /\ Len(registered) \in Nat
        /\ Len(mPendingUpdates) \in Nat
    BY ThreadsAssumption DEF ThreadsTypeOK
  <1>2. connThread /\ ~HasPill(mPendingUpdates) /\ PillLast(mPendingUpdates)
    BY DEF UpdatesInv
  <1>3. batches < MaxBatches /\ batches' = batches + 1
    BY DEF updateConnections
  <1>4. PICK k \in 0..batches : /\ mQueueFull \/ k = batches
                                /\ Numbered(mPendingUpdates, Len(registered), k)
    BY DEF UpdatesInv
  <1>5. CASE mQueueFull
    <2>1. UNCHANGED <<mPendingUpdates, mQueueFull, stopPosted>>
      BY <1>5 DEF updateConnections
    <2>2. k \in 0..batches' /\ mQueueFull' /\ Numbered(mPendingUpdates', Len(registered'), k)
      BY <1>1, <1>3, <1>4, <1>5, <2>1
    <2>3. UpdatesInv'
      BY <1>2, <2>1, <2>2 DEF UpdatesInv
    <2> QED BY <1>1, <1>3, <2>1, <2>3
  <1>6. CASE ~mQueueFull /\ Len(mPendingUpdates) >= UpdatesCap
    <2>0. (Len(mPendingUpdates) < UpdatesCap) = FALSE /\ (Len(mPendingUpdates) >= UpdatesCap) = TRUE
      BY <1>1, <1>6
    <2>1. mPendingUpdates' = mPendingUpdates /\ mQueueFull' = TRUE /\ stopPosted' = TRUE
      BY <1>6, <2>0, Zenon DEF updateConnections, offer
    <2>2. k \in 0..batches' /\ mQueueFull' /\ Numbered(mPendingUpdates', Len(registered'), k)
      BY <1>1, <1>3, <1>4, <2>1
    <2>3. UpdatesInv'
      BY <1>2, <2>1, <2>2 DEF UpdatesInv
    <2> QED BY <1>1, <1>3, <2>1, <2>3
  <1>7. CASE ~mQueueFull /\ Len(mPendingUpdates) < UpdatesCap
    <2>1. /\ mPendingUpdates' = Append(mPendingUpdates, Item(batches + 1))
          /\ mQueueFull' = FALSE /\ stopPosted' = stopPosted
      BY <1>1, <1>7 DEF updateConnections, offer
    <2>2. batches + 1 \in 1..MaxBatches /\ batches \in Nat
      BY <1>1, <1>3
    <2>3. Numbered(mPendingUpdates', Len(registered'), batches')
      BY <1>1, <1>3, <1>4, <1>7, <2>1, <2>2, NumberedAppend
    <2>4. Item(batches + 1) \in Items(MaxBatches) /\ Item(batches + 1) # Pill
      BY <1>1, <2>2, ItemKinds DEF Item, Pill
    <2>5. PillLast(mPendingUpdates') /\ ~HasPill(mPendingUpdates')
      BY <1>1, <1>2, <2>1, <2>4, PillAppend
    <2>6. batches' \in 0..batches'
      BY <1>3, <2>2
    <2>7. UpdatesInv'
      BY <1>2, <2>3, <2>5, <2>6 DEF UpdatesInv
    <2>8. mPendingUpdates' \in Seq(Items(MaxBatches)) /\ Len(mPendingUpdates') <= UpdatesCap
      BY <1>1, <1>7, <2>1, <2>4, AppendItems
    <2>9. batches' \in 0..MaxBatches
      BY <1>3, <2>2
    <2>10. mQueueFull' \in BOOLEAN /\ stopPosted' \in BOOLEAN
      BY <1>1, <2>1
    <2> QED BY <2>7, <2>8, <2>9, <2>10
  <1> QED BY <1>1, <1>5, <1>6, <1>7

\* A wake-up or a termination request for the update thread.
LEMMA UpdatesOffered ==
  ASSUME ThreadsTypeOK, UpdatesInv, NEW item \in {Wake, Pill}, cap \in Joining => cap' \in Joining,
         item = Pill => cap' \in Joining,
         mPendingUpdates' = offer(mPendingUpdates, item, UpdatesCap),
         UNCHANGED <<registered, batches, mQueueFull, connThread>>
  PROVE  /\ UpdatesInv'
         /\ mPendingUpdates' \in Seq(Items(MaxBatches)) /\ Len(mPendingUpdates') <= UpdatesCap
  <1>1. /\ mPendingUpdates \in Seq(Items(MaxBatches)) /\ Len(mPendingUpdates) <= UpdatesCap
        /\ MaxBatches \in Nat /\ UpdatesCap \in Nat /\ Len(registered) \in Nat /\ 0..batches \subseteq Nat
    BY ThreadsAssumption DEF ThreadsTypeOK
  <1>2. PillLast(mPendingUpdates)
    BY DEF UpdatesInv
  <1>3. /\ mPendingUpdates' \in Seq(Items(MaxBatches)) /\ Len(mPendingUpdates') <= UpdatesCap
        /\ PillLast(mPendingUpdates')
        /\ HasPill(mPendingUpdates') => HasPill(mPendingUpdates) \/ item = Pill
        /\ \A d, k \in Nat : Numbered(mPendingUpdates, d, k) => Numbered(mPendingUpdates', d, k)
    BY <1>1, <1>2, OfferOther
  <1>4. \E k \in 0..batches' : /\ mQueueFull' \/ k = batches'
                               /\ Numbered(mPendingUpdates', Len(registered'), k)
    <2>1. PICK k \in 0..batches : /\ mQueueFull \/ k = batches
                                  /\ Numbered(mPendingUpdates, Len(registered), k)
      BY DEF UpdatesInv
    <2>2. k \in Nat
      BY <1>1
    <2>3. Numbered(mPendingUpdates', Len(registered'), k)
      BY <1>1, <1>3, <2>1, <2>2
    <2> QED BY <2>1, <2>3
  <1> QED BY <1>3, <1>4 DEF UpdatesInv

\* The update thread takes an item.
LEMMA UpdateTaken ==
  ASSUME ThreadsTypeOK, UpdatesInv, connUpdateWork
  PROVE  /\ UpdatesInv'
         /\ mPendingUpdates' \in Seq(Items(MaxBatches)) /\ Len(mPendingUpdates') <= UpdatesCap
         /\ registered' \in Seq(1..MaxBatches) /\ connThread' \in BOOLEAN
         /\ connThread
  <1> DEFINE item == Head(mPendingUpdates)
             q == mPendingUpdates
  <1>1. /\ q \in Seq(Items(MaxBatches)) /\ Len(q) <= UpdatesCap
        /\ MaxBatches \in Nat /\ UpdatesCap \in Nat /\ Len(registered) \in Nat
        /\ registered \in Seq(1..MaxBatches) /\ batches \in 0..MaxBatches
    BY ThreadsAssumption DEF ThreadsTypeOK
  <1>2. /\ connThread /\ q # <<>> /\ q' = Tail(q)
        /\ connThread' = (item # Pill)
        /\ registered' = IF item.kind = "data" THEN Append(registered, item.n) ELSE registered
        /\ UNCHANGED <<cap, batches, mQueueFull>>
    BY DEF connUpdateWork, captureVars
  <1> HIDE DEF q, item
  <1>3. PICK k \in 0..batches : (mQueueFull \/ k = batches) /\ Numbered(q, Len(registered), k)
    BY DEF UpdatesInv, q
  <1>4. k \in Nat /\ k \in 0..MaxBatches
    BY <1>1, <1>3
  <1>5. /\ q' \in Seq(Items(MaxBatches)) /\ Len(q') <= UpdatesCap /\ item \in Items(MaxBatches)
        /\ item.kind = "data" => item # Pill
    <2>1. Tail(q) \in Seq(Items(MaxBatches)) /\ Len(Tail(q)) = Len(q) - 1 /\ item \in Items(MaxBatches)
      BY <1>1, <1>2, TailItems DEF item, q
    <2>2. item.kind = "data" => item # Pill
      BY <1>1, <2>1, ItemKinds
    <2> QED BY <1>1, <1>2, <2>1, <2>2
  <1>6. /\ PillLast(q') /\ (HasPill(q') => HasPill(q))
        /\ item = Pill => HasPill(q) /\ \A i \in 1..Len(q') : ~IsData(q', i)
    BY <1>1, <1>2, PillTail DEF UpdatesInv, item, q
  <1>7. CASE item.kind = "data"
    <2>1. item.n = Len(registered) + 1 /\ Numbered(q', Len(registered) + 1, k)
      BY <1>1, <1>2, <1>3, <1>4, <1>7, NumberedTake DEF item, q
    <2>2. Len(registered) + 1 <= k
      BY <2>1 DEF Numbered
    <2>3. item.n \in 1..MaxBatches
      BY <1>1, <1>4, <2>1, <2>2
    <2>4. /\ registered' = Append(registered, Len(registered) + 1)
          /\ connThread' = TRUE
      BY <1>2, <1>5, <1>7, <2>1
    <2>5. registered' \in Seq(1..MaxBatches) /\ Len(registered') = Len(registered) + 1
          /\ registered' = [n \in 1..Len(registered') |-> n]
      BY <1>1, <2>1, <2>3, <2>4, NextNumber DEF UpdatesInv
    <2>6. UpdatesInv'
      BY <1>2, <1>3, <1>6, <2>1, <2>4, <2>5 DEF UpdatesInv, q
    <2> QED BY <1>2, <1>5, <2>4, <2>5, <2>6 DEF q
  <1>8. CASE item.kind # "data"
    <2>1. Numbered(q', Len(registered), k)
      BY <1>1, <1>2, <1>3, <1>4, <1>8, NumberedSkip DEF item, q
    <2>2. registered' = registered
      BY <1>2, <1>8
    <2>3. item = Pill => (Len(registered) = k /\ HasPill(q))
      BY <1>1, <1>4, <1>6, <2>1, NumberedEmpty
    <2>4. ~connThread' => (mQueueFull' \/ Len(registered') = batches') /\ cap' \in Joining
      BY <1>2, <1>3, <2>2, <2>3 DEF UpdatesInv, q
    <2>5. UpdatesInv'
      BY <1>2, <1>3, <1>6, <2>1, <2>2, <2>4 DEF UpdatesInv, q
    <2> QED BY <1>1, <1>2, <1>5, <2>2, <2>5 DEF q
  <1> QED BY <1>7, <1>8

-----------------------------------------------------------------------------
(* The dump.                                                               *)

\* A step that neither exports nor ends a dump.
LEMMA DumpKept ==
  ASSUME DumpInv, UNCHANGED <<file, failed, dumpThread, mDumpQueue, chunks, dumper>>,
         cap' = "export" <=> cap = "export", cap' = "starting" => cap = "starting",
         dumper => cap' \in {"loop", "export"}
  PROVE  DumpInv'
  <1>1. Put' = Put
    BY DEF Put
  <1> QED BY <1>1 DEF DumpInv, Numbered, IsData, PillLast, HasPill, Pill, Wake

\* pd_run creates the dumper.
LEMMA DumpBegins ==
  ASSUME DumpInv, cap = "starting", cap' = "loop", dumper' = DumpEnabled,
         UNCHANGED <<file, failed, dumpThread, mDumpQueue, chunks>>
  PROVE  DumpInv'
  <1>1. Put' = Put
    BY DEF Put
  <1> QED BY <1>1 DEF DumpInv, Numbered, IsData, PillLast, HasPill, Pill, Wake

\* A termination request for the dumper thread.
LEMMA StopOffered ==
  ASSUME NEW q \in Seq(Items(MaxChunks)), Len(q) <= DumpCap, PillLast(q),
         \A i \in 1..Len(q) : q[i] # Wake
  PROVE  /\ stopPcapDump(q) \in Seq(Items(MaxChunks)) /\ Len(stopPcapDump(q)) <= DumpCap
         /\ PillLast(stopPcapDump(q))
         /\ \A d, k \in Nat : Numbered(q, d, k) => Numbered(stopPcapDump(q), d, k)
         /\ \A i \in 1..Len(stopPcapDump(q)) : stopPcapDump(q)[i] # Wake
  <1>1. CASE ~dumpThread
    BY <1>1 DEF stopPcapDump
  <1>2. CASE dumpThread
    <2>1. stopPcapDump(q) = offer(q, Pill, DumpCap)
      BY <1>2 DEF stopPcapDump
    <2>2. MaxChunks \in Nat /\ DumpCap \in Nat
      BY ThreadsAssumption
    <2> QED BY <2>1, <2>2, OfferOther
  <1> QED BY <1>1, <1>2

\* The dump ends, with the request behind all its chunks.
LEMMA DumpEnding ==
  ASSUME ThreadsTypeOK, DumpInv, mDumpQueue' = stopPcapDump(mDumpQueue), dumper' = FALSE,
         cap # "export", cap' \notin {"starting", "export"},
         UNCHANGED <<file, failed, dumpThread, chunks>>
  PROVE  DumpInv' /\ mDumpQueue' \in Seq(Items(MaxChunks)) /\ Len(mDumpQueue') <= DumpCap
  <1>1. /\ mDumpQueue \in Seq(Items(MaxChunks)) /\ Len(mDumpQueue) <= DumpCap
        /\ Len(file) \in Nat /\ chunks \in Nat /\ Put = chunks /\ Put' = chunks
    BY ThreadsAssumption DEF ThreadsTypeOK, Put
  <1>2. PillLast(mDumpQueue) /\ \A i \in 1..Len(mDumpQueue) : mDumpQueue[i] # Wake
    BY DEF DumpInv
  <1>3. /\ mDumpQueue' \in Seq(Items(MaxChunks)) /\ Len(mDumpQueue') <= DumpCap
        /\ PillLast(mDumpQueue')
        /\ \A d, k \in Nat : Numbered(mDumpQueue, d, k) => Numbered(mDumpQueue', d, k)
        /\ \A i \in 1..Len(mDumpQueue') : mDumpQueue'[i] # Wake
    BY <1>1, <1>2, StopOffered
  <1>4. ~failed' => Numbered(mDumpQueue', Len(file'), Put')
    BY <1>1, <1>3 DEF DumpInv
  <1> QED BY <1>3, <1>4 DEF DumpInv

\* A chunk is counted before it is put in the queue.
LEMMA ChunkStarts ==
  ASSUME ThreadsTypeOK, DumpInv, cap = "loop", dumper, chunks' = chunks + 1, cap' = "export",
         UNCHANGED <<file, failed, dumpThread, mDumpQueue, dumper>>
  PROVE  DumpInv'
  <1>1. Put' = Put /\ chunks' > 0
    BY DEF Put, ThreadsTypeOK
  <1> QED BY <1>1 DEF DumpInv, Numbered, IsData, PillLast, HasPill, Pill, Wake

\* The chunk is put at the end of the queue, before a termination request.
LEMMA ChunkPut ==
  ASSUME ThreadsTypeOK, DumpInv, dumpPcapData
  PROVE  DumpInv' /\ mDumpQueue' \in Seq(Items(MaxChunks)) /\ Len(mDumpQueue') <= DumpCap
  <1> DEFINE stop == exporting # "periodic"
             q == Append(mDumpQueue, Item(chunks))
  <1>1. /\ mDumpQueue \in Seq(Items(MaxChunks)) /\ DumpCap \in Nat /\ MaxChunks \in Nat
        /\ chunks \in 1..MaxChunks /\ chunks - 1 \in Nat /\ Len(file) \in Nat
        /\ Len(mDumpQueue) \in Nat
    <2>1. chunks > 0
      BY DEF DumpInv, dumpPcapData
    <2> QED BY <2>1, ThreadsAssumption DEF ThreadsTypeOK
  <1>2. /\ cap = "export" /\ Len(mDumpQueue) < DumpCap
        /\ mDumpQueue' = IF stop THEN stopPcapDump(q) ELSE q
        /\ dumper' = (dumper /\ ~stop) /\ cap' \in {"loop", "signal"}
        /\ cap' = IF exporting = "exit" THEN "signal" ELSE "loop"
        /\ UNCHANGED <<file, failed, dumpThread, chunks>>
    BY DEF dumpPcapData, workerVars
  <1>3. /\ dumper /\ ~HasPill(mDumpQueue) /\ PillLast(mDumpQueue)
        /\ ~(DumpEnabled /\ ~dumpThread /\ ~failed)
        /\ \A i \in 1..Len(mDumpQueue) : mDumpQueue[i] # Wake
    BY <1>2 DEF DumpInv
  <1> HIDE DEF stop, q
  <1>4. /\ Item(chunks) \in Items(MaxChunks) /\ Item(chunks) # Pill /\ Item(chunks) # Wake
    BY <1>1, ItemKinds DEF Item, Pill, Wake
  <1>5. /\ q \in Seq(Items(MaxChunks)) /\ Len(q) = Len(mDumpQueue) + 1
        /\ q[Len(mDumpQueue) + 1] = Item(chunks)
        /\ \A i \in 1..Len(mDumpQueue) : q[i] = mDumpQueue[i]
    BY <1>1, <1>4, AppendItems DEF q
  <1>6. Len(q) <= DumpCap /\ \A i \in 1..Len(q) : q[i] # Wake
    BY <1>1, <1>2, <1>3, <1>4, <1>5
  <1>7. PillLast(q) /\ ~HasPill(q)
    BY <1>1, <1>3, <1>4, PillAppend DEF q
  <1>8. ~failed => Numbered(q, Len(file), chunks)
    <2>1. ~failed => Numbered(mDumpQueue, Len(file), chunks - 1)
      BY <1>2 DEF DumpInv, Put
    <2>2. (chunks - 1) + 1 = chunks
      BY <1>1
    <2> QED BY <1>1, <2>1, <2>2, NumberedAppend DEF q
  <1>9. /\ mDumpQueue' \in Seq(Items(MaxChunks)) /\ Len(mDumpQueue') <= DumpCap
        /\ PillLast(mDumpQueue') /\ (~failed => Numbered(mDumpQueue', Len(file), chunks))
        /\ \A i \in 1..Len(mDumpQueue') : mDumpQueue'[i] # Wake
        /\ ~stop => ~HasPill(mDumpQueue')
    <2>1. CASE stop
      BY <1>1, <1>2, <1>5, <1>6, <1>7, <1>8, <2>1, StopOffered
    <2>2. CASE ~stop
      BY <1>2, <1>5, <1>6, <1>7, <1>8, <2>2
    <2> QED BY <2>1, <2>2
  <1>10. ~failed' => Numbered(mDumpQueue', Len(file'), Put')
    BY <1>2, <1>9 DEF Put
  <1>11. HasPill(mDumpQueue') => ~dumper'
    BY <1>2, <1>9
  <1>12. dumper' => cap' = "loop" /\ DumpEnabled
    BY <1>2 DEF DumpInv, stop
  <1> QED BY <1>2, <1>3, <1>9, <1>10, <1>11, <1>12 DEF DumpInv

\* The dumper thread takes a chunk or the request.
LEMMA ChunkTaken ==
  ASSUME ThreadsTypeOK, DumpInv, NEW ok \in BOOLEAN, dumpWork(ok)
  PROVE  /\ DumpInv' /\ mDumpQueue' \in Seq(Items(MaxChunks)) /\ Len(mDumpQueue') <= DumpCap
         /\ file' \in Seq(1..MaxChunks) /\ dumpThread' \in BOOLEAN /\ failed' \in BOOLEAN
         /\ dumpThread
  <1> DEFINE item == Head(mDumpQueue)
             q == mDumpQueue
  <1>1. /\ q \in Seq(Items(MaxChunks)) /\ Len(q) <= DumpCap /\ DumpCap \in Nat
        /\ MaxChunks \in Nat /\ Len(file) \in Nat /\ file \in Seq(1..MaxChunks)
        /\ chunks \in 0..MaxChunks
    BY ThreadsAssumption DEF ThreadsTypeOK
  <1>2. /\ dumpThread /\ q # <<>> /\ q' = Tail(q)
        /\ ok \/ item # Pill
        /\ dumpThread' = (ok /\ item # Pill)
        /\ file' = IF ok /\ item # Pill THEN Append(file, item.n) ELSE file
        /\ failed' = ~ok
        /\ UNCHANGED <<cap, dumper, chunks>>
    BY DEF dumpWork, captureVars
  <1>3. /\ DumpEnabled /\ ~failed /\ Numbered(q, Len(file), Put) /\ PillLast(q)
        /\ \A i \in 1..Len(q) : q[i] # Wake
    BY <1>2 DEF DumpInv
  <1> HIDE DEF q, item
  <1>4. Put \in Nat /\ Put \in 0..MaxChunks /\ Put' = Put
    BY <1>1, <1>2 DEF Put, DumpInv
  <1>5. /\ q' \in Seq(Items(MaxChunks)) /\ Len(q) > 0 /\ Len(q') = Len(q) - 1
        /\ item = q[1] /\ item \in Items(MaxChunks)
        /\ \A i \in 1..Len(q') : q'[i] = q[i + 1]
    BY <1>1, <1>2, TailItems DEF item, q
  <1>6. Len(q') <= DumpCap /\ \A i \in 1..Len(q') : q'[i] # Wake
    BY <1>1, <1>3, <1>5
  <1>7. item # Wake /\ (item # Pill <=> item.kind = "data")
    <2>1. item # Wake
      BY <1>1, <1>3, <1>5
    <2> QED BY <1>1, <1>5, <2>1, ItemKinds, ZenonT(20)
  <1>8. /\ PillLast(q') /\ (HasPill(q') => HasPill(q))
        /\ item = Pill => HasPill(q) /\ \A i \in 1..Len(q') : ~IsData(q', i)
    BY <1>1, <1>2, <1>3, PillTail DEF item, q
  <1>9. CASE item = Pill
    <2>1. ok /\ file' = file /\ failed' = FALSE /\ dumpThread' = FALSE
      BY <1>2, <1>9
    <2>2. Numbered(q', Len(file), Put)
      BY <1>1, <1>2, <1>3, <1>4, <1>7, <1>9, NumberedSkip DEF item, q
    <2>3. Len(file) = Put
      BY <1>1, <1>4, <1>8, <1>9, <2>2, NumberedEmpty
    <2>4. ~dumper /\ cap \notin {"starting", "export"} /\ Put = chunks
      BY <1>8, <1>9 DEF DumpInv, q, Put
    <2>5. DumpInv'
      BY <1>2, <1>4, <1>6, <1>8, <2>1, <2>2, <2>3, <2>4 DEF DumpInv, q
    <2> QED BY <1>1, <1>2, <1>5, <1>6, <2>1, <2>5 DEF q
  <1>10. CASE item # Pill /\ ok
    <2>1. item.n = Len(file) + 1 /\ Numbered(q', Len(file) + 1, Put)
      BY <1>1, <1>2, <1>3, <1>4, <1>7, <1>10, NumberedTake DEF item, q
    <2>2. Len(file) + 1 \in 1..MaxChunks
      BY <1>1, <1>4, <2>1 DEF Numbered
    <2>3. file' = Append(file, Len(file) + 1) /\ failed' = FALSE /\ dumpThread' = TRUE
      BY <1>2, <1>10, <2>1
    <2>4. /\ file' \in Seq(1..MaxChunks) /\ Len(file') = Len(file) + 1
          /\ file' = [n \in 1..Len(file') |-> n]
      BY <1>1, <2>2, <2>3, NextNumber DEF DumpInv
    <2>5. DumpInv'
      BY <1>2, <1>4, <1>6, <1>8, <2>1, <2>3, <2>4 DEF DumpInv, q
    <2> QED BY <1>2, <1>5, <1>6, <2>3, <2>4, <2>5 DEF q
  <1>11. CASE ~ok
    <2>1. file' = file /\ failed' = TRUE /\ dumpThread' = FALSE
      BY <1>2, <1>11
    <2>2. DumpInv'
      BY <1>2, <1>6, <1>8, <2>1 DEF DumpInv, q
    <2> QED BY <1>1, <1>2, <1>5, <1>6, <2>1, <2>2 DEF q
  <1> QED BY <1>9, <1>10, <1>11

-----------------------------------------------------------------------------
(* The invariant.                                                          *)

\* The queues are empty and nothing was sent.
LEMMA ThreadsStart == ThreadsInit => ThreadsInv
  <1> SUFFICES ASSUME ThreadsInit PROVE ThreadsInv
    OBVIOUS
  <1>1. /\ {UpdatesCap, DumpCap, MaxBatches, MaxChunks, MaxWakes} \subseteq Nat
        /\ DumpEnabled \in BOOLEAN
    BY ThreadsAssumption
  <1>2. ThreadsTypeOK
    <2>1. {running, interrupted, dumper, mQueueFull, connThread, dumpThread, failed, stopPosted,
           lost} \subseteq BOOLEAN
      BY <1>1 DEF ThreadsInit
    <2>2. /\ mPendingUpdates \in Seq(Items(MaxBatches)) /\ Len(mPendingUpdates) <= UpdatesCap
          /\ mDumpQueue \in Seq(Items(MaxChunks)) /\ Len(mDumpQueue) <= DumpCap
          /\ registered \in Seq(1..MaxBatches) /\ file \in Seq(1..MaxChunks)
      BY <1>1 DEF ThreadsInit
    <2> QED BY <1>1, <2>1, <2>2 DEF ThreadsInit, ThreadsTypeOK
  <1>3. Numbered(<<>>, 0, 0) /\ PillLast(<<>>) /\ ~HasPill(<<>>)
    BY DEF Numbered, PillLast, HasPill
  <1>4. UpdatesInv
    BY <1>3 DEF ThreadsInit, UpdatesInv
  <1>5. DumpInv
    BY <1>3 DEF ThreadsInit, DumpInv, Put
  <1>6. EndInv
    BY DEF ThreadsInit, EndInv
  <1> QED BY <1>2, <1>4, <1>5, <1>6 DEF ThreadsInv

\* Every step of every thread keeps the invariant.
LEMMA ThreadsStep == ThreadsInv /\ [ThreadsNext]_threadsVars => ThreadsInv'
  <1> SUFFICES ASSUME ThreadsInv, [ThreadsNext]_threadsVars PROVE ThreadsInv'
    OBVIOUS
  <1> USE DEF ThreadsInv
  <1>0. /\ {UpdatesCap, DumpCap, MaxBatches, MaxChunks, MaxWakes} \subseteq Nat
        /\ DumpEnabled \in BOOLEAN
    BY ThreadsAssumption
  <1>1. CASE pd_run
    <2>1. UpdatesInv'
      BY <1>1, UpdatesKept DEF pd_run, Joining, queueVars, workerVars
    <2>2. DumpInv'
      BY <1>1, DumpBegins DEF pd_run, queueVars, workerVars
    <2>3. EndInv'
      BY <1>1, <1>0 DEF pd_run, EndInv
    <2>4. ThreadsTypeOK'
      BY <1>1, <1>0 DEF pd_run, ThreadsTypeOK, queueVars, workerVars, mainVars
    <2> QED BY <2>1, <2>2, <2>3, <2>4 DEF ThreadsInv
  <1>2. CASE RunFails
    <2>1. UpdatesInv'
      BY <1>2, UpdatesKept DEF RunFails, Joining, queueVars, workerVars
    <2>2. DumpInv'
      BY <1>2, DumpKept DEF RunFails, DumpInv, queueVars, workerVars
    <2>3. EndInv'
      BY <1>2, <1>0 DEF RunFails, EndInv
    <2>4. ThreadsTypeOK'
      BY <1>2, <1>0 DEF RunFails, ThreadsTypeOK, queueVars, workerVars, mainVars
    <2> QED BY <2>1, <2>2, <2>3, <2>4 DEF ThreadsInv
  <1>3. CASE SendConnectionsDump
    <2>1. /\ UpdatesInv'
          /\ mPendingUpdates' \in Seq(Items(MaxBatches)) /\ Len(mPendingUpdates') <= UpdatesCap
          /\ batches' \in 0..MaxBatches /\ mQueueFull' \in BOOLEAN /\ stopPosted' \in BOOLEAN
      BY <1>3, UpdateNumbered DEF SendConnectionsDump, Joining, workerVars
    <2>2. DumpInv'
      BY <1>3, DumpKept DEF SendConnectionsDump, DumpInv, workerVars
    <2>3. EndInv'
      BY <1>3 DEF SendConnectionsDump, EndInv
    <2>4. ThreadsTypeOK'
      BY <1>3, <2>1 DEF SendConnectionsDump, ThreadsTypeOK, workerVars
    <2> QED BY <2>1, <2>2, <2>3, <2>4
  <1>4. ASSUME NEW why \in {"periodic", "limit"}, SendPcapDump(why)
        PROVE  ThreadsInv'
    <2>1. UpdatesInv'
      BY <1>4, UpdatesKept DEF SendPcapDump, Joining, queueVars, workerVars
    <2>2. DumpInv'
      BY <1>4, ChunkStarts DEF SendPcapDump, queueVars, workerVars
    <2>3. EndInv'
      BY <1>4 DEF SendPcapDump, EndInv
    <2>4. ThreadsTypeOK'
      BY <1>0, <1>4 DEF SendPcapDump, ThreadsTypeOK, queueVars, workerVars, mainVars
    <2> QED BY <2>1, <2>2, <2>3, <2>4
  <1>5. CASE StopPcapDump
    <2>1. UpdatesInv'
      BY <1>5, UpdatesKept DEF StopPcapDump, Joining, workerVars
    <2>2. DumpInv' /\ mDumpQueue' \in Seq(Items(MaxChunks)) /\ Len(mDumpQueue') <= DumpCap
      BY <1>5, DumpEnding DEF StopPcapDump, workerVars
    <2>3. EndInv'
      BY <1>5 DEF StopPcapDump, EndInv, workerVars
    <2>4. ThreadsTypeOK'
      BY <1>5, <2>2 DEF StopPcapDump, ThreadsTypeOK, workerVars, mainVars
    <2> QED BY <2>1, <2>2, <2>3, <2>4
  <1>6. CASE LeaveLoop
    <2>1. cap = "loop" /\ cap' \in {"export", "signal"} /\ cap \notin Joining
          /\ UNCHANGED <<running, interrupted, wakes, destroy, lost>>
          /\ UNCHANGED <<connThread, dumpThread, registered, file, failed>>
      BY <1>6 DEF LeaveLoop, Joining, workerVars
    <2>2. /\ UpdatesInv'
          /\ mPendingUpdates' \in Seq(Items(MaxBatches)) /\ Len(mPendingUpdates') <= UpdatesCap
          /\ batches' \in 0..MaxBatches /\ mQueueFull' \in BOOLEAN /\ stopPosted' \in BOOLEAN
      <3>1. CASE updateConnections
        BY <2>1, <3>1, UpdateNumbered
      <3>2. CASE UNCHANGED <<batches, mPendingUpdates, mQueueFull, stopPosted>>
        <4>1. UpdatesInv'
          BY <2>1, <3>2, UpdatesKept
        <4> QED BY <3>2, <4>1 DEF ThreadsTypeOK
      <3> QED BY <1>6, <3>1, <3>2 DEF LeaveLoop
    <2>3. /\ DumpInv' /\ mDumpQueue' \in Seq(Items(MaxChunks)) /\ Len(mDumpQueue') <= DumpCap
          /\ chunks' \in 0..MaxChunks /\ dumper' \in BOOLEAN /\ exporting' \in {"periodic", "limit", "exit"}
      <3>1. CASE /\ dumper /\ chunks < MaxChunks /\ cap' = "export" /\ exporting' = "exit"
                 /\ chunks' = chunks + 1 /\ UNCHANGED <<dumper, mDumpQueue>>
        <4>1. DumpInv'
          BY <2>1, <3>1, ChunkStarts
        <4> QED BY <1>0, <3>1, <4>1 DEF ThreadsTypeOK
      <3>2. CASE /\ cap' = "signal" /\ dumper' = FALSE
                 /\ mDumpQueue' = IF dumper THEN stopPcapDump(mDumpQueue) ELSE mDumpQueue
                 /\ UNCHANGED <<exporting, chunks>>
        <4>1. CASE dumper
          <5>1. DumpInv' /\ mDumpQueue' \in Seq(Items(MaxChunks)) /\ Len(mDumpQueue') <= DumpCap
            BY <2>1, <3>2, <4>1, DumpEnding
          <5> QED BY <3>2, <5>1 DEF ThreadsTypeOK
        <4>2. CASE ~dumper
          <5>1. dumper' = dumper
            BY <3>2, <4>2 DEF ThreadsTypeOK
          <5>2. DumpInv'
            BY <2>1, <3>2, <4>2, <5>1, DumpKept
          <5> QED BY <3>2, <4>2, <5>2 DEF ThreadsTypeOK
        <4> QED BY <4>1, <4>2
      <3> QED BY <1>6, <3>1, <3>2 DEF LeaveLoop
    <2>4. EndInv'
      BY <2>1 DEF EndInv
    <2>5. ThreadsTypeOK'
      BY <2>1, <2>2, <2>3 DEF ThreadsTypeOK
    <2> QED BY <2>2, <2>3, <2>4, <2>5
  <1>7. CASE dumpPcapData
    <2>1. cap = "export" /\ cap' \in {"loop", "signal"} /\ dumper' \in BOOLEAN
          /\ UNCHANGED <<running, interrupted, exporting, batches, chunks, mQueueFull, mPendingUpdates>>
          /\ UNCHANGED <<connThread, dumpThread, registered, file, failed>>
          /\ UNCHANGED <<wakes, stopPosted, destroy, lost>>
      BY <1>7 DEF dumpPcapData, workerVars, mainVars
    <2>2. UpdatesInv'
      BY <2>1, UpdatesKept DEF Joining
    <2>3. DumpInv' /\ mDumpQueue' \in Seq(Items(MaxChunks)) /\ Len(mDumpQueue') <= DumpCap
      BY <1>7, ChunkPut
    <2>4. EndInv'
      BY <2>1 DEF EndInv
    <2>5. ThreadsTypeOK'
      BY <2>1, <2>3 DEF ThreadsTypeOK
    <2> QED BY <2>2, <2>3, <2>4, <2>5
  <1>8. CASE PutInterrupted
    <2>1. UpdatesInv'
      BY <1>8, UpdatesKept DEF PutInterrupted, captureVars, queueVars, workerVars
    <2>2. DumpInv'
      BY <1>8, DumpKept DEF PutInterrupted, DumpInv, captureVars, queueVars, workerVars
    <2>3. EndInv'
      BY <1>8, <1>0 DEF PutInterrupted, EndInv, captureVars, workerVars
    <2>4. ThreadsTypeOK'
      BY <1>8, <1>0 DEF PutInterrupted, ThreadsTypeOK, captureVars, queueVars, workerVars, mainVars
    <2> QED BY <2>1, <2>2, <2>3, <2>4 DEF ThreadsInv
  <1>9. CASE signalServicesTermination
    <2>1. cap = "signal" /\ cap' = "joinConn" /\ lost' \in BOOLEAN
          /\ mPendingUpdates' = offer(mPendingUpdates, Pill, UpdatesCap)
          /\ mDumpQueue' = stopPcapDump(mDumpQueue)
          /\ UNCHANGED <<running, interrupted, exporting, dumper, batches, chunks, mQueueFull>>
          /\ UNCHANGED <<connThread, dumpThread, registered, file, failed>>
          /\ UNCHANGED <<wakes, stopPosted, destroy>>
      BY <1>9 DEF signalServicesTermination, workerVars
    <2>2. /\ UpdatesInv'
          /\ mPendingUpdates' \in Seq(Items(MaxBatches)) /\ Len(mPendingUpdates') <= UpdatesCap
      BY <2>1, UpdatesOffered DEF Joining
    <2>3. dumper' = FALSE
      BY <2>1 DEF DumpInv, ThreadsTypeOK
    <2>4. DumpInv' /\ mDumpQueue' \in Seq(Items(MaxChunks)) /\ Len(mDumpQueue') <= DumpCap
      BY <2>1, <2>3, DumpEnding
    <2>5. EndInv'
      BY <2>1 DEF EndInv
    <2>6. ThreadsTypeOK'
      BY <2>1, <2>2, <2>4 DEF ThreadsTypeOK
    <2> QED BY <2>2, <2>4, <2>5, <2>6
  <1>10. CASE JoinConnUpdateThread
    <2>1. cap = "joinConn"
          /\ UNCHANGED <<running, exporting, dumper, batches, chunks, mQueueFull, mDumpQueue>>
          /\ UNCHANGED <<connThread, dumpThread, registered, file, failed>>
          /\ UNCHANGED <<wakes, stopPosted, destroy, lost>>
      BY <1>10 DEF JoinConnUpdateThread, workerVars, mainVars
    <2>2. CASE ~connThread /\ cap' = "joinDumper" /\ UNCHANGED <<interrupted, mPendingUpdates>>
      <3>1. UpdatesInv' /\ DumpInv'
        BY <2>1, <2>2, UpdatesKept, DumpKept DEF Joining, DumpInv
      <3>2. EndInv' /\ ThreadsTypeOK'
        BY <2>1, <2>2 DEF EndInv, ThreadsTypeOK
      <3> QED BY <3>1, <3>2
    <2>3. CASE /\ connThread /\ interrupted' = FALSE /\ UNCHANGED cap
               /\ mPendingUpdates' = offer(mPendingUpdates, Pill, UpdatesCap)
      <3>1. /\ UpdatesInv'
            /\ mPendingUpdates' \in Seq(Items(MaxBatches)) /\ Len(mPendingUpdates') <= UpdatesCap
        BY <2>1, <2>3, UpdatesOffered DEF Joining
      <3>2. DumpInv'
        BY <2>1, <2>3, DumpKept DEF DumpInv
      <3>3. EndInv' /\ ThreadsTypeOK'
        BY <2>1, <2>3, <3>1 DEF EndInv, ThreadsTypeOK
      <3> QED BY <3>1, <3>2, <3>3
    <2> QED BY <1>10, <2>2, <2>3 DEF JoinConnUpdateThread
  <1>11. CASE JoinDumperThread
    <2>1. cap = "joinDumper"
          /\ UNCHANGED <<running, exporting, dumper, batches, chunks, mQueueFull, mPendingUpdates>>
          /\ UNCHANGED <<connThread, dumpThread, registered, file, failed>>
          /\ UNCHANGED <<wakes, stopPosted, destroy, lost>>
      BY <1>11 DEF JoinDumperThread, workerVars, mainVars
    <2>2. CASE ~dumpThread /\ cap' = "end" /\ UNCHANGED <<interrupted, mDumpQueue>>
      <3>1. UpdatesInv' /\ DumpInv'
        BY <2>1, <2>2, UpdatesKept, DumpKept DEF Joining, DumpInv
      <3>2. EndInv' /\ ThreadsTypeOK'
        BY <2>1, <2>2 DEF EndInv, ThreadsTypeOK
      <3> QED BY <3>1, <3>2
    <2>3. CASE /\ dumpThread /\ interrupted' = FALSE /\ UNCHANGED cap
               /\ mDumpQueue' = stopPcapDump(mDumpQueue)
      <3>1. UpdatesInv'
        BY <2>1, <2>3, UpdatesKept
      <3>2. dumper' = FALSE
        BY <2>1 DEF DumpInv, ThreadsTypeOK
      <3>3. DumpInv' /\ mDumpQueue' \in Seq(Items(MaxChunks)) /\ Len(mDumpQueue') <= DumpCap
        BY <2>1, <2>3, <3>2, DumpEnding
      <3>4. EndInv' /\ ThreadsTypeOK'
        BY <2>1, <2>3, <3>3 DEF EndInv, ThreadsTypeOK
      <3> QED BY <3>1, <3>3, <3>4
    <2> QED BY <1>11, <2>2, <2>3 DEF JoinDumperThread
  <1>12. CASE CaptureEnds
    <2>1. UpdatesInv'
      BY <1>12, UpdatesKept DEF CaptureEnds, Joining, queueVars, workerVars
    <2>2. DumpInv'
      BY <1>12, DumpKept DEF CaptureEnds, DumpInv, queueVars, workerVars
    <2>3. EndInv'
      BY <1>12, <1>0 DEF CaptureEnds, EndInv, workerVars
    <2>4. ThreadsTypeOK'
      BY <1>12, <1>0 DEF CaptureEnds, ThreadsTypeOK, queueVars, workerVars
    <2> QED BY <2>1, <2>2, <2>3, <2>4 DEF ThreadsInv
  <1>13. CASE connUpdateWork
    <2>1. /\ UpdatesInv'
          /\ mPendingUpdates' \in Seq(Items(MaxBatches)) /\ Len(mPendingUpdates') <= UpdatesCap
          /\ registered' \in Seq(1..MaxBatches) /\ connThread' \in BOOLEAN
          /\ connThread
      BY <1>13, UpdateTaken
    <2>2. UNCHANGED <<running, interrupted, captureVars, mQueueFull, mDumpQueue, dumpThread, file,
                      failed, mainVars>>
      BY <1>13 DEF connUpdateWork
    <2>3. DumpInv'
      BY <2>2, DumpKept DEF DumpInv, captureVars
    <2>4. EndInv'
      BY <2>1, <2>2 DEF EndInv, captureVars
    <2>5. ThreadsTypeOK'
      BY <2>1, <2>2 DEF ThreadsTypeOK, captureVars, mainVars
    <2> QED BY <2>1, <2>3, <2>4, <2>5
  <1>14. ASSUME NEW ok \in BOOLEAN, dumpWork(ok)
         PROVE  ThreadsInv'
    <2>1. /\ DumpInv' /\ mDumpQueue' \in Seq(Items(MaxChunks)) /\ Len(mDumpQueue') <= DumpCap
          /\ file' \in Seq(1..MaxChunks) /\ dumpThread' \in BOOLEAN /\ failed' \in BOOLEAN
          /\ dumpThread
      BY <1>14, ChunkTaken
    <2>2. /\ UNCHANGED <<running, interrupted, captureVars, mQueueFull, mPendingUpdates, connThread,
                         registered, wakes, destroy, lost>>
          /\ stopPosted' \in BOOLEAN
      BY <1>14 DEF dumpWork
    <2>3. UpdatesInv'
      BY <2>2, UpdatesKept DEF captureVars
    <2>4. EndInv'
      BY <2>1, <2>2 DEF EndInv, captureVars
    <2>5. ThreadsTypeOK'
      BY <2>1, <2>2 DEF ThreadsTypeOK, captureVars
    <2> QED BY <2>1, <2>3, <2>4, <2>5
  <1>15. CASE stopService
    <2>1. UpdatesInv'
      BY <1>15, UpdatesKept DEF stopService, captureVars, queueVars, workerVars
    <2>2. DumpInv'
      BY <1>15, DumpKept DEF stopService, DumpInv, captureVars, queueVars, workerVars
    <2>3. EndInv'
      BY <1>15, <1>0 DEF stopService, EndInv, captureVars, workerVars
    <2>4. ThreadsTypeOK'
      BY <1>15, <1>0 DEF stopService, ThreadsTypeOK, captureVars, queueVars, workerVars
    <2> QED BY <2>1, <2>2, <2>3, <2>4 DEF ThreadsInv
  <1>16. CASE onDestroy
    <2>1. UpdatesInv'
      BY <1>16, UpdatesKept DEF onDestroy, captureVars, queueVars, workerVars
    <2>2. DumpInv'
      BY <1>16, DumpKept DEF onDestroy, DumpInv, captureVars, queueVars, workerVars
    <2>3. EndInv'
      BY <1>16, <1>0 DEF onDestroy, EndInv, captureVars, workerVars
    <2>4. ThreadsTypeOK'
      BY <1>16, <1>0 DEF onDestroy, ThreadsTypeOK, captureVars, queueVars, workerVars
    <2> QED BY <2>1, <2>2, <2>3, <2>4 DEF ThreadsInv
  <1>17. CASE stopPacketLoop
    <2>1. UpdatesInv'
      BY <1>17, UpdatesKept DEF stopPacketLoop, captureVars, queueVars, workerVars
    <2>2. DumpInv'
      BY <1>17, DumpKept DEF stopPacketLoop, DumpInv, captureVars, queueVars, workerVars
    <2>3. EndInv'
      BY <1>17, <1>0 DEF stopPacketLoop, EndInv, captureVars, workerVars
    <2>4. ThreadsTypeOK'
      BY <1>17, <1>0 DEF stopPacketLoop, ThreadsTypeOK, captureVars, queueVars, workerVars
    <2> QED BY <2>1, <2>2, <2>3, <2>4 DEF ThreadsInv
  <1>18. CASE requestBlacklistsUpdate
    <2>1. /\ UNCHANGED <<running, interrupted, captureVars, mQueueFull, mDumpQueue, workerVars,
                         stopPosted, destroy, lost>>
          /\ mPendingUpdates' = offer(mPendingUpdates, Wake, UpdatesCap)
          /\ wakes < MaxWakes /\ wakes' = wakes + 1
      BY <1>18 DEF requestBlacklistsUpdate
    <2>2. Wake # Pill
      BY DEF Wake, Pill
    <2>3. /\ UpdatesInv'
          /\ mPendingUpdates' \in Seq(Items(MaxBatches)) /\ Len(mPendingUpdates') <= UpdatesCap
      BY <2>1, <2>2, UpdatesOffered DEF captureVars, workerVars
    <2>4. DumpInv'
      BY <2>1, DumpKept DEF DumpInv, captureVars, workerVars
    <2>5. EndInv'
      BY <2>1 DEF EndInv, captureVars, workerVars
    <2>6. ThreadsTypeOK'
      BY <1>0, <2>1, <2>3 DEF ThreadsTypeOK, captureVars, workerVars
    <2> QED BY <2>3, <2>4, <2>5, <2>6
  <1>19. CASE UNCHANGED threadsVars
    <2>1. UNCHANGED <<running, interrupted, captureVars, queueVars, workerVars, mainVars>>
      BY <1>19 DEF threadsVars
    <2>2. UpdatesInv' /\ DumpInv'
      BY <2>1, UpdatesKept, DumpKept DEF DumpInv, captureVars, queueVars, workerVars
    <2>3. EndInv' /\ ThreadsTypeOK'
      BY <2>1 DEF EndInv, ThreadsTypeOK, captureVars, queueVars, workerVars, mainVars
    <2> QED BY <2>2, <2>3
  <1> QED
    BY <1>1, <1>2, <1>3, <1>4, <1>5, <1>6, <1>7, <1>8, <1>9, <1>10, <1>11, <1>12, <1>13, <1>14,
       <1>15, <1>16, <1>17, <1>18, <1>19 DEF ThreadsNext, CaptureProgress, CaptureTraffic

(* RegisteredIsPrefix, for every capacity of mPendingUpdates: the register *)
(* receives the batches that the capture sends in order, without a gap.    *)
THEOREM DeliveredInOrder == ThreadsSpec => []RegisteredIsPrefix
  <1>1. ThreadsInv => RegisteredIsPrefix
    BY DEF ThreadsInv, UpdatesInv, RegisteredIsPrefix
  <1> QED BY <1>1, ThreadsStart, ThreadsStep, PTL DEF ThreadsSpec

(* StoppedIsComplete, for every capacity of the two queues: when the       *)
(* capture thread has ended the workers have too, with every batch         *)
(* registered unless one was refused, and every chunk dumped.              *)
THEOREM StopIsComplete == ThreadsSpec => []StoppedIsComplete
  <1>1. ThreadsInv => StoppedIsComplete
    <2> SUFFICES ASSUME ThreadsInv PROVE StoppedIsComplete
      OBVIOUS
    <2>1. DumpComplete
      BY DEF ThreadsInv, DumpInv, DumpComplete
    <2>2. cap = "done" => /\ ~connThread /\ ~dumpThread /\ ~running
                          /\ mQueueFull \/ Len(registered) = batches
      BY DEF ThreadsInv, EndInv, UpdatesInv
    <2> QED BY <2>1, <2>2 DEF StoppedIsComplete
  <1> QED BY <1>1, ThreadsStart, ThreadsStep, PTL DEF ThreadsSpec
=============================================================================
