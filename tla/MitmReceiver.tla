----------------------------- MODULE MitmReceiver -----------------------------
(***************************************************************************)
(* How the decrypted data reaches the connections.  The add-on sends its   *)
(* messages over a socket, each with the local port of its connection.     *)
(* The receiver thread finds the connection by a cache from ports to       *)
(* identifiers, which the update thread fills when it registers new        *)
(* connections; a message that comes first waits in mPendingMessages.      *)
(* Both are guarded by the receiver's monitor, but the look-up in the      *)
(* cache, the look-up in the register, which has a monitor of its own, and *)
(* the queueing of a message are three synchronized blocks.                *)
(*                                                                         *)
(* Connections are numbered in the order in which the native side reports  *)
(* them; a port may be used again.  decryption_error and status are plain  *)
(* fields, each written by one thread and read by the other: until the     *)
(* writer enters a monitor again, a reader may get the value before.       *)
(***************************************************************************)
EXTENDS Integers, Sequences, FiniteSets, Functions

CONSTANTS
    Ports,          \* local ports
    MaxConns,       \* bound on the connections
    MaxMsgs,        \* bound on the messages
    RegSize,        \* capacity of the connections register
    CacheSize,      \* capacity of mPortToConnId, 64 in the code
    MaxPending      \* ports that may have pending messages before old ones are purged, 32

ASSUME MitmAssumption ==
    /\ MaxConns \in Nat /\ MaxMsgs \in Nat /\ MaxPending \in Nat
    /\ RegSize \in Nat \ {0} /\ CacheSize \in Nat \ {0}

VARIABLES
    opened,         \* the ports of the connections opened so far
    emitted,        \* the number of messages that the add-on has sent for each
    stream,         \* messages in the socket
    rx,             \* the receiver thread
    updater,        \* the update thread
    registered,     \* connections 1 .. registered have been registered
    mPortToConnId,  \* the cache, least recently used first
    mPendingMessages,
    chunks,         \* the messages that each connection has been given
    error,          \* connections whose decryption_error is set
    status,         \* their status, none before they are registered
    strayed,        \* history: connections that a message missed, see MessagesReachOwner
    stale           \* history: connections whose update missed an error, see ErrorShown

mitmVars == <<opened, emitted, stream, rx, updater, registered, mPortToConnId,
              mPendingMessages, chunks, error, status, strayed, stale>>

Conns == 1 .. MaxConns
Idle == [at |-> "idle"]

MitmInit ==
    /\ opened = <<>> /\ stream = <<>> /\ mPortToConnId = <<>>
    /\ rx = Idle /\ updater = Idle
    /\ registered = 0
    /\ emitted = [c \in Conns |-> 0]
    /\ chunks = [c \in Conns |-> <<>>]
    /\ mPendingMessages = [p \in Ports |-> <<>>]
    /\ error = {}
    /\ status = [c \in Conns |-> "none"]
    /\ strayed = {}
    /\ stale = {}

-----------------------------------------------------------------------------
(* The native side and the add-on.                                         *)

Owner(p) == {c \in 1 .. Len(opened) : opened[c] = p /\ \A d \in c + 1 .. Len(opened) : opened[d] # p}

\* A connection is opened from a port; an earlier one from it has ended.
OpenConn(p) ==
    /\ Len(opened) < MaxConns
    /\ opened' = Append(opened, p)
    /\ UNCHANGED <<emitted, stream, rx, updater, registered, mPortToConnId, mPendingMessages,
                   chunks, error, status, strayed, stale>>

\* The add-on sends data, or an error, of the connection that has the port.
Emit(c, err) ==
    /\ c \in Owner(opened[c]) /\ FoldFunction(+, 0, emitted) < MaxMsgs
    /\ emitted' = [emitted EXCEPT ![c] = @ + 1]
    /\ stream' = Append(stream, [conn |-> c, port |-> opened[c], n |-> emitted[c] + 1, err |-> err])
    /\ UNCHANGED <<opened, rx, updater, registered, mPortToConnId, mPendingMessages,
                   chunks, error, status, strayed, stale>>

-----------------------------------------------------------------------------
(* The receiver thread.                                                    *)

\* getConnById: the register holds the newest RegSize connections.
InRegister(c) == c <= registered /\ c > registered - RegSize

\* What LruCache.get returns: an identifier, or none.
CachedId(p) ==
    LET ids == {e.id : e \in {x \in Range(mPortToConnId) : x.port = p}}
    IN  IF ids = {} THEN {} ELSE {CHOOSE c \in ids : TRUE}

\* LruCache.get and put move the entry to the end; put evicts the first.
Touch(cache, p, id) ==
    LET rest  == SelectSeq(cache, LAMBDA e : e.port # p)
        moved == Append(rest, [port |-> p, id |-> id])
    IN  IF Len(moved) > CacheSize THEN Tail(moved) ELSE moved

\* Earlier connections on the port of c, whose messages could be taken for its own.
Earlier(c) == {d \in 1 .. c - 1 : opened[d] = opened[c]}

\* getConnByLocalPort looks the port up in the cache.  A message of a connection
\* that is not registered yet, and whose port had another owner, may go astray.
getConnByLocalPort ==
    /\ rx.at \in {"idle", "marked"} /\ stream # <<>>
    /\ LET m   == Head(stream)
           ids == CachedId(m.port)
       IN  /\ rx' = [at |-> IF ids = {} THEN "missing" ELSE "cached", msg |-> m, conn |-> ids]
           /\ mPortToConnId' = IF ids = {} THEN mPortToConnId
                               ELSE Touch(mPortToConnId, m.port, CHOOSE c \in ids : TRUE)
           /\ strayed' = strayed
                \cup (IF m.conn > registered /\ Earlier(m.conn) # {} THEN {m.conn} ELSE {})
                \cup (IF m.conn <= registered /\ ids = {} THEN {m.conn} ELSE {})
    /\ stream' = Tail(stream)
    /\ UNCHANGED <<opened, emitted, updater, registered, mPendingMessages, chunks, error, status, stale>>

\* The rest of it, the look-up in the register.
getConnById ==
    /\ rx.at = "cached"
    /\ LET m     == rx.msg
           found == {c \in rx.conn : InRegister(c)}
       IN  /\ rx' = [at |-> IF found = {} THEN "missing" ELSE "found", msg |-> m, conn |-> found]
           /\ strayed' = strayed
                \cup (IF m.conn <= registered /\ m.conn \notin found THEN {m.conn} ELSE {})
    /\ UNCHANGED <<opened, emitted, stream, updater, registered, mPortToConnId, mPendingMessages,
                   chunks, error, status, stale>>

\* handleMessage of data is addPayloadChunkMitm.  Of an error, it is the write of
\* decryption_error, and the test of the status is still to come.
handleMessage ==
    /\ rx.at = "found"
    /\ chunks' = [c \in Conns |-> IF c \in rx.conn THEN Append(chunks[c], rx.msg) ELSE chunks[c]]
    /\ error' = IF rx.msg.err THEN error \cup rx.conn ELSE error
    /\ rx' = IF rx.msg.err THEN [at |-> "error", conn |-> rx.conn] ELSE Idle
    /\ UNCHANGED <<opened, emitted, stream, updater, registered, mPortToConnId, mPendingMessages,
                   status, strayed, stale>>

\* The values of status that the receiver may read.
StatusSeen(c) ==
    {status[c]} \cup (IF updater.at = "written" /\ updater.conn = c THEN {updater.old} ELSE {})

\* Mutant: the status is left to the next update, as before the error was known to be late.
NoMarkClosed ==
    /\ rx.at = "error"
    /\ rx' = [at |-> "marked", conn |-> rx.conn]
    /\ UNCHANGED <<opened, emitted, stream, updater, registered, mPortToConnId, mPendingMessages,
                   chunks, error, status, strayed, stale>>

\* The rest of handleMessage.  The next monitor is that of getConnByLocalPort.
MarkClosed ==
    /\ rx.at = "error"
    /\ \E c \in rx.conn : \E seen \in StatusSeen(c) :
          status' = IF seen = "closed" THEN [status EXCEPT ![c] = "error"] ELSE status
    /\ rx' = [at |-> "marked", conn |-> rx.conn]
    /\ UNCHANGED <<opened, emitted, stream, updater, registered, mPortToConnId, mPendingMessages,
                   chunks, error, strayed, stale>>

\* Mutant: the pending messages of the oldest port are kept, and the new one is dropped.
DropNewest(old) ==
    /\ rx.at = "missing"
    /\ LET m    == rx.msg
           full == Cardinality({p \in Ports : mPendingMessages[p] # <<>>}) > MaxPending
       IN  /\ mPendingMessages' = IF full THEN mPendingMessages
                                  ELSE [mPendingMessages EXCEPT ![m.port] = Append(@, m)]
           /\ strayed' = strayed
    /\ rx' = Idle
    /\ UNCHANGED <<opened, emitted, stream, updater, registered, mPortToConnId, chunks, error,
                   status, stale>>

\* addPendingMessage.  The connection may have been registered since the look-up.
\* Of more than MaxPending ports, those that have waited for 5 seconds are purged.
addPendingMessage(old) ==
    /\ rx.at = "missing"
    /\ LET m       == rx.msg
           waiting == {p \in Ports : mPendingMessages[p] # <<>>}
           purged  == IF Cardinality(waiting) > MaxPending THEN old ELSE {}
           kept    == [p \in Ports |-> IF p \in purged THEN <<>> ELSE mPendingMessages[p]]
       IN  /\ old \subseteq waiting
           /\ mPendingMessages' = [kept EXCEPT ![m.port] = Append(@, m)]
           /\ strayed' = strayed
                \cup (IF m.conn <= registered THEN {m.conn} ELSE {})
                \cup {x.conn : x \in UNION {Range(mPendingMessages[p]) : p \in purged}}
    /\ rx' = Idle
    /\ UNCHANGED <<opened, emitted, stream, updater, registered, mPortToConnId, chunks, error,
                   status, stale>>

-----------------------------------------------------------------------------
(* The update thread.                                                      *)

\* Mutant: the messages that waited are not removed.
HandedAgain(new, c) == IF c \in new THEN mPendingMessages[opened[c]] ELSE <<>>

\* What waits for a port goes to the first of the new connections on it.
Handed(new, c) ==
    IF c \in new /\ \A d \in new : d < c => opened[d] # opened[c]
    THEN mPendingMessages[opened[c]] ELSE <<>>

\* The status of a new connection, with the errors that waited for it.
NewStatus(hadError, isClosed) ==
    IF ~isClosed THEN "open" ELSE IF hadError THEN "error" ELSE "closed"

\* A dump of the native side brings k new connections to the register, which
\* tells its listener, in one synchronized block: their ports are cached, and what
\* waits for them is handled.  Of more connections than the register holds, it
\* keeps the newest, and only of these does it tell.  The first update of a
\* connection comes with it, and it may have been closed by then.
connectionsAdded(k) ==
    LET new    == registered + 1 .. registered + k
        kept   == {c \in new : c > registered + k - RegSize}
        failed == {c \in kept : \E m \in Range(Handed(kept, c)) : m.err}
        cache[i \in 0 .. k] ==
            IF i = 0 THEN mPortToConnId
            ELSE IF registered + i \in kept
                 THEN Touch(cache[i - 1], opened[registered + i], registered + i)
                 ELSE cache[i - 1]
    IN  /\ updater = Idle /\ k \in 1 .. Len(opened) - registered
        /\ registered' = registered + k
        /\ mPortToConnId' = cache[k]
        /\ mPendingMessages' = [p \in Ports |-> IF \E c \in kept : opened[c] = p THEN <<>>
                                                ELSE mPendingMessages[p]]
        /\ chunks' = [c \in Conns |-> chunks[c] \o Handed(kept, c)]
        /\ error' = error \cup failed
        /\ \E closed \in SUBSET kept :
              status' = [c \in Conns |-> IF c \in kept THEN NewStatus(c \in failed, c \in closed)
                                         ELSE status[c]]
        /\ strayed' = strayed \cup (new \ kept)
        /\ UNCHANGED <<opened, emitted, stream, rx, updater, stale>>

\* ConnectionDescriptor.processUpdate, which writes the status...
WriteStatus(c) ==
    /\ updater = Idle /\ InRegister(c)
    /\ updater' = [at |-> "written", conn |-> c, old |-> status[c]]
    /\ status' = [status EXCEPT ![c] = "closed"]
    /\ UNCHANGED <<opened, emitted, stream, rx, registered, mPortToConnId, mPendingMessages,
                   chunks, error, strayed, stale>>

\* The values of decryption_error # null that the update thread may read.
ErrorSeen(c) ==
    {c \in error} \cup (IF rx.at \in {"error", "marked"} /\ c \in rx.conn THEN {FALSE} ELSE {})

\* ...and corrects it when there has been an error.
processUpdate ==
    /\ updater.at = "written"
    /\ LET c == updater.conn
       IN  \E seen \in ErrorSeen(c) :
             /\ status' = IF status[c] = "closed" /\ seen THEN [status EXCEPT ![c] = "error"] ELSE status
             /\ stale' = IF seen # (c \in error) /\ rx.at = "marked" THEN stale \cup {c} ELSE stale
    /\ updater' = Idle
    /\ UNCHANGED <<opened, emitted, stream, rx, registered, mPortToConnId, mPendingMessages,
                   chunks, error, strayed>>

-----------------------------------------------------------------------------
MitmNext ==
    \/ \E p \in Ports : OpenConn(p)
    \/ \E c \in 1 .. Len(opened), err \in BOOLEAN : Emit(c, err)
    \/ getConnByLocalPort \/ getConnById \/ handleMessage \/ MarkClosed
    \/ \E old \in SUBSET Ports : addPendingMessage(old)
    \/ \E k \in Conns : connectionsAdded(k)
    \/ \E c \in Conns : WriteStatus(c)
    \/ processUpdate

\* Both threads run.  The update thread takes up one dump after the other, and
\* registers the new connections of a dump however many updates come with it.
MitmFairness ==
    /\ WF_mitmVars(getConnByLocalPort \/ getConnById \/ handleMessage \/ MarkClosed)
    /\ WF_mitmVars(\E old \in SUBSET Ports : addPendingMessage(old))
    /\ SF_mitmVars(\E k \in Conns : connectionsAdded(k))
    /\ WF_mitmVars(processUpdate)

-----------------------------------------------------------------------------
\* All the messages of a connection, from the oldest to the newest.
Of(c, ms) == SelectSeq(ms, LAMBDA m : m.conn = c)
Travelling(c) ==
    Of(c, chunks[c]) \o Of(c, mPendingMessages[opened[c]])
              \o (IF rx.at \in {"cached", "found", "missing"} THEN Of(c, <<rx.msg>>) ELSE <<>>) \o Of(c, stream)

(* A connection is given its own messages, all of them, once and in the    *)
(* order in which the add-on sent them, whether they came before or after  *)
(* it was registered.  The exceptions, each of which is recorded, are a    *)
(* port that is used again before the new connection is registered, a      *)
(* message that finds its connection registered only after the look-up,    *)
(* one whose connection has left the cache or the register, one that is    *)
(* purged, and one whose connection is cut off because its dump brings     *)
(* more connections than the register holds; a message gone astray may be  *)
(* given to another connection on its port.                                *)
MessagesReachOwner ==
    \A c \in 1 .. Len(opened) :
        /\ \A m \in Range(chunks[c]) : m.conn # c => m.conn \in strayed /\ opened[m.conn] = opened[c]
        /\ c \notin strayed =>
              LET ms == Travelling(c)
              IN  Len(ms) = emitted[c] /\ \A i \in 1 .. emitted[c] : ms[i].n = i

(* A connection that was closed and had a decryption error is shown as     *)
(* failed, in whatever order the two threads learnt of it, and also when   *)
(* both came before it was registered.  The exception is that the update   *)
(* thread read the old decryption_error after the receiver had tested the  *)
(* status: its write was not visible yet.                                  *)
ErrorShown ==
    \A c \in Conns \ stale :
        c \in error /\ status[c] = "closed" =>
            \/ updater.at = "written" /\ updater.conn = c
            \/ rx.at = "error" /\ c \in rx.conn

\* The connections that have yet to get a message which has not gone astray.
Unhandled == {c \in Conns : emitted[c] > Len(Of(c, chunks[c]))} \ strayed

(* The messages that do not go astray are handled, those that came before  *)
(* the connection was known too (MitmReceiver.java connectionsAdded).      *)
MessagesHandled == Unhandled # {} ~> Unhandled = {}
=============================================================================
