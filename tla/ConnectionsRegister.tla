------------------------- MODULE ConnectionsRegister -------------------------
(***************************************************************************)
(* The ConnectionsRegister of the Java side: a ring of the last mSize      *)
(* connections with the counters shown by the user interface.  The methods *)
(* are synchronized, so each one is an action.  The capture numbers the    *)
(* connections (incr_id) without gaps; an update may name a connection     *)
(* that the ring has already dropped.                                      *)
(***************************************************************************)
EXTENDS Integers, Sequences, FiniteSets

CONSTANTS
    Size,       \* mSize
    MaxConns,   \* bound on the connections of the capture
    MaxBatch,   \* bound on the connections of one dump
    MaxUpdates, \* bound on the updates of one dump
    Ifaces,     \* the network interfaces; 0 is "unknown"
    Reported    \* what the capture may report about a connection

ASSUME RegisterAssumption ==
    /\ {Size, MaxBatch} \subseteq Nat \ {0}
    /\ {MaxConns, MaxUpdates} \subseteq Nat
    /\ Ifaces \subseteq Nat
    /\ Reported \subseteq [mal: BOOLEAN, blk: BOOLEAN, ifidx: Ifaces]

VARIABLES
    sent,           \* what the capture last reported about each incr_id
    mItemsRing,
    mTail,
    mCurItems,
    mUntrackedItems,
    mNumMalicious,
    mNumBlocked,
    mConnsByIface,
    wasReset        \* history: whether reset was called

vars == <<sent, mItemsRing, mTail, mCurItems, mUntrackedItems, mNumMalicious, mNumBlocked,
          mConnsByIface, wasReset>>

\* What the properties tell apart of a connection: isBlacklisted, is_blocked, ifidx.
Attr == [mal: BOOLEAN, blk: BOOLEAN, ifidx: Ifaces]
\* A ConnectionDescriptor of the ring, with the flags of processConnectionStatus.
Conn == [id: Nat, attr: Attr, alerted: BOOLEAN, accounted: BOOLEAN]
Null == [id |-> -1]

Positions == 0..(Size - 1)

TypeOK ==
    /\ sent \in Seq(Attr) /\ Len(sent) <= MaxConns
    /\ mItemsRing \in [Positions -> Conn \cup {Null}]
    /\ mTail \in Positions
    /\ mCurItems \in 0..Size
    /\ mUntrackedItems \in Nat /\ mNumMalicious \in Int /\ mNumBlocked \in Int
    /\ mConnsByIface \in [Ifaces -> Nat]
    /\ wasReset \in BOOLEAN

Init ==
    /\ sent = <<>>
    /\ mItemsRing = [p \in Positions |-> Null]
    /\ mTail = 0 /\ mCurItems = 0
    /\ mUntrackedItems = 0 /\ mNumMalicious = 0 /\ mNumBlocked = 0
    /\ mConnsByIface = [f \in Ifaces |-> 0]
    /\ wasReset = FALSE

-----------------------------------------------------------------------------
Least(a, b) == IF a < b THEN a ELSE b

\* The position of the oldest connection, and of the newest one.
firstPos == IF mCurItems < Size THEN 0 ELSE mTail
lastPos == (mTail - 1 + Size) % Size

\* The i-th oldest connection (from 0).
getConn(i) == mItemsRing[(firstPos + i) % Size]

getConnPositionById(id) ==
    IF mCurItems <= 0 \/ id < mItemsRing[firstPos].id \/ id > mItemsRing[lastPos].id
    THEN -1
    ELSE id - mItemsRing[firstPos].id

\* processConnectionStatus: the flags remember what the counters include.
processConnectionStatus(c) == [c EXCEPT !.alerted = c.attr.mal, !.accounted = c.attr.blk]
Difference(flag, new) == CASE new /\ ~flag -> 1 [] ~new /\ flag -> -1 [] OTHER -> 0

\* The number of positions p of P where Test(mItemsRing[p]) holds.
Count(P, Test(_)) == Cardinality({p \in P : Test(mItemsRing[p])})

\* Mutant: a dropped connection stays in the count of its interface.
newIfacesKept(gone, conns, n) ==
    [f \in Ifaces |-> mConnsByIface[f] + Cardinality({k \in 1..n : f > 0 /\ conns[k].ifidx = f})]

(* mConnsByIface after the connections at the positions gone are dropped   *)
(* and the last n of conns are added; interface 0 is not counted.          *)
newIfaces(gone, conns, n) ==
    [f \in Ifaces |->
        LET num_conn == mConnsByIface[f] - Count(gone, LAMBDA c : f > 0 /\ c.attr.ifidx = f)
        IN  (IF num_conn <= 0 THEN 0 ELSE num_conn)
              + Cardinality({k \in 1..n : f > 0 /\ conns[k].ifidx = f})]

\* mNumMalicious likewise.
newMalicious(gone, conns, n) ==
    mNumMalicious - Count(gone, LAMBDA c : c.attr.mal) + Cardinality({k \in 1..n : conns[k].mal})

\* Mutant: the ring is full one connection too late.
OutItemsOffByOne(n) == n - Least(Size - mCurItems + 1, n)

\* How many connections n new ones push out.
OutItems(n) == n - Least(Size - mCurItems, n)

NextTail(n) == (mTail + n) % Size

(* newConnections: more than mSize connections are cut to the newest, the  *)
(* oldest of the ring make room, the new ones are written from mTail on.   *)
newConnections(conns) ==
    LET n == Least(Len(conns), Size)
        kept == [k \in 1..n |-> conns[Len(conns) - n + k]]
        out_items == OutItems(n)
        gone == {(firstPos + i) % Size : i \in 0..(out_items - 1)}
        first_id == Len(sent) + Len(conns) - n
    IN  /\ sent' = sent \o conns
        /\ mItemsRing' = [p \in Positions |->
              LET k == (p - mTail + Size) % Size
              IN  IF k < n
                  THEN processConnectionStatus([id |-> first_id + k, attr |-> kept[k + 1],
                                                alerted |-> FALSE, accounted |-> FALSE])
                  ELSE mItemsRing[p]]
        /\ mTail' = NextTail(n)
        /\ mCurItems' = Least(mCurItems + n, Size)
        /\ mUntrackedItems' = mUntrackedItems + (Len(conns) - n) + out_items
        /\ mNumMalicious' = newMalicious(gone, kept, n)
        /\ mNumBlocked' = mNumBlocked + Cardinality({k \in 1..n : kept[k].blk})
        /\ mConnsByIface' = newIfaces(gone, kept, n)
        /\ UNCHANGED wasReset

\* Mutant: the ring is addressed from its first slot instead of the oldest one.
PosOfFromZero(id) == (id - mItemsRing[firstPos].id) % Size

\* Where connectionsUpdates looks for a connection of the ring.
PosOf(id) == ((id - mItemsRing[firstPos].id) + firstPos) % Size

(* connectionsUpdates: what becomes of the ring when the connections named *)
(* in ids are now as described by the function attr.                       *)
connectionsUpdates(ids, attr) ==
    LET found == {id \in ids : /\ mCurItems > 0
                               /\ id >= mItemsRing[firstPos].id /\ id <= mItemsRing[lastPos].id}
        at(p) == CHOOSE id \in found : PosOf(id) = p
        hit == {PosOf(id) : id \in found}
        new == [p \in hit |-> [mItemsRing[p] EXCEPT !.attr = attr[at(p)]]]
        sum(P, D(_)) == Cardinality({p \in P : D(p) = 1}) - Cardinality({p \in P : D(p) = -1})
    IN  /\ sent' = [k \in 1..Len(sent) |-> IF k - 1 \in ids THEN attr[k - 1] ELSE sent[k]]
        /\ mItemsRing' = [p \in Positions |->
              IF p \in hit THEN processConnectionStatus(new[p]) ELSE mItemsRing[p]]
        /\ mNumMalicious' = mNumMalicious
              + sum(hit, LAMBDA p : Difference(new[p].alerted, new[p].attr.mal))
        /\ mNumBlocked' = mNumBlocked
              + sum(hit, LAMBDA p : Difference(new[p].accounted, new[p].attr.blk))
        /\ UNCHANGED <<mTail, mCurItems, mUntrackedItems, mConnsByIface, wasReset>>

\* reset: the counters of malicious and blocked connections are kept.
reset ==
    /\ mItemsRing' = [p \in Positions |-> Null]
    /\ mTail' = 0 /\ mCurItems' = 0 /\ mUntrackedItems' = 0
    /\ wasReset' = TRUE
    /\ UNCHANGED <<sent, mNumMalicious, mNumBlocked, mConnsByIface>>

Batches ==
    UNION {[1..n -> Reported] : n \in 1..Least(MaxBatch, MaxConns - Len(sent))}

\* The interface of a connection does not change.
Changes(ids) ==
    {a \in [ids -> Reported] : \A id \in ids : a[id].ifidx = sent[id + 1].ifidx}

Next ==
    \/ \E conns \in Batches : newConnections(conns)
    \/ \E ids \in SUBSET (0..(Len(sent) - 1)) :
          /\ Cardinality(ids) \in 1..MaxUpdates
          /\ \E attr \in Changes(ids) : connectionsUpdates(ids, attr)
    \/ reset

Spec == Init /\ [][Next]_vars

-----------------------------------------------------------------------------
(* "assert(conn.incr_id == id)": whatever connection of the ring an update *)
(* names, the position computed from its id is its position.               *)
AssertHolds ==
    mCurItems > 0 =>
        \A id \in mItemsRing[firstPos].id..mItemsRing[lastPos].id : mItemsRing[PosOf(id)].id = id

(* While the ring is not full its connections are its first slots, which   *)
(* releasePayloadMemory relies on: no slot it visits is null.              *)
SlotsInUse == \A p \in Positions : mItemsRing[p] # Null <=> p < mCurItems

(* The count of malicious connections is the one of the connections in the *)
(* ring (reset, which no code of the app calls, does not clear it).        *)
MaliciousCounted ==
    ~wasReset => mNumMalicious = Count(Positions, LAMBDA c : c # Null /\ c.attr.mal)

(* The count of blocked connections covers at least the ones in the ring   *)
(* (it keeps counting the ones that were dropped).                         *)
BlockedCounted ==
    mNumBlocked >= Count(Positions, LAMBDA c : c # Null /\ c.attr.blk)

\* The connections per interface are the ones of the ring (reset does not clear them).
IfacesCounted ==
    ~wasReset => \A f \in Ifaces \ {0} :
        mConnsByIface[f] = Count(Positions, LAMBDA c : c # Null /\ c.attr.ifidx = f)

(* The counters shown to the user agree with a recount of the ring,        *)
(* whatever the order of additions, updates and removals.                  *)
CountersRight == TypeOK /\ MaliciousCounted /\ BlockedCounted /\ IfacesCounted

\* The ring read from its oldest connection is the log.
LogItems == [i \in 1..mCurItems |-> [id |-> getConn(i - 1).id, attr |-> getConn(i - 1).attr]]
Log == INSTANCE ConnectionsLog WITH items <- LogItems, untracked <- mUntrackedItems

(* The register implements the log: the Size most recent connections, in   *)
(* order, each as last reported.                                           *)
ImplementsLog == Log!Spec
=============================================================================
