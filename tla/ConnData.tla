------------------------------ MODULE ConnData ------------------------------
(***************************************************************************)
(* The per-connection data (pd_conn_t) that both capture modes share, the  *)
(* two notification arrays new_conns and conns_updates (conn_array_t), and *)
(* the periodic dump that sends them to Java and releases what must be     *)
(* purged.  The module is a library of the state and of the operations on  *)
(* it; RootConns and VpnConns add the tables that own the connections.     *)
(*                                                                         *)
(* The slots of an array that point to a connection are counted in the     *)
(* connection itself (inNew, inUpd): the order of the slots does not       *)
(* matter, how many there are does, since conns_clear frees through each.  *)
(***************************************************************************)
EXTENDS Naturals, FiniteSets

CONSTANTS
    MaxConns,       \* bound on pd->new_conn_id
    StorePayload,   \* whether pd->payload_mode is not PAYLOAD_MODE_NONE
    DumpMayFail     \* whether a JNI call of sendConnectionsDump may fail

ASSUME ConnAssumption ==
    /\ MaxConns \in Nat \ {0}
    /\ StorePayload \in BOOLEAN
    /\ DumpMayFail \in BOOLEAN

VARIABLES
    conn,           \* the pd_conn_t of each incremental id
    new_conn_id,    \* pd->new_conn_id
    java,           \* what the ConnectionsRegister was told about each id
    faulted         \* history: whether a JNI call or a socket has failed so far

dataVars == <<conn, new_conn_id, java, faulted>>

Ids == 0..(MaxConns - 1)
Flags == {"STATS", "INFO", "PAYLOAD"}
Status == {"active", "closed"}
Proto == {"unknown", "detected"}

Data == [mem: {"none", "alive", "freed"}, status: Status, pending: BOOLEAN,
         update: SUBSET Flags, to_purge: BOOLEAN, ndpi: BOOLEAN, l7: Proto,
         inNew: Nat, inUpd: Nat]
JavaConn == [known: BOOLEAN, status: Status, l7: Proto]

NoData == [mem |-> "none", status |-> "active", pending |-> FALSE,
           update |-> {}, to_purge |-> FALSE, ndpi |-> FALSE,
           l7 |-> "unknown", inNew |-> 0, inUpd |-> 0]

DataTypeOK ==
    /\ conn \in [Ids -> Data]
    /\ java \in [Ids -> JavaConn]
    /\ new_conn_id \in 0..MaxConns

DataInit ==
    /\ conn = [i \in Ids |-> NoData]
    /\ java = [i \in Ids |-> [known |-> FALSE, status |-> "active", l7 |-> "unknown"]]
    /\ new_conn_id = 0
    /\ faulted = FALSE

Alive(i) == conn[i].mem = "alive"
Slots(d) == d.inNew + d.inUpd
Queued(i) == Slots(conn[i]) > 0

-----------------------------------------------------------------------------
(* What nDPI knows when a detection ends: the protocol it guesses, and     *)
(* whether it found a host, a URL or an ALPN.                              *)
DpiEnd == [guess: Proto, info: BOOLEAN]

(* What a packet does to the data: the protocol nDPI reports, whether the  *)
(* detection ends with this packet, whether a TLS connection then gets an  *)
(* ALPN by its port or host, and whether a payload chunk is stored.        *)
DpiResult ==
    {r \in [proto: Proto, giveup: BOOLEAN, guess: Proto, info: BOOLEAN, alpn: BOOLEAN,
            chunk: BOOLEAN] :
        /\ r.alpn => r.giveup /\ r.guess = "detected"
        /\ r.chunk => StorePayload}

\* process_ndpi_data reports INFO only for the host, the URL and the ALPN.
process_ndpi_data(d, r) ==
    [d EXCEPT !.update = IF r.info THEN @ \cup {"INFO"} ELSE @]

\* pd_giveup_dpi: the guessed protocol replaces an unknown one, the flow is freed.
pd_giveup_dpi(d, r) ==
    IF d.ndpi
    THEN [process_ndpi_data(d, r) EXCEPT
            !.l7 = IF @ = "unknown" THEN r.guess ELSE @,
            !.ndpi = FALSE]
    ELSE d

\* pd_purge_connection: the data is released.
pd_purge_connection(d) == [d EXCEPT !.mem = "freed", !.ndpi = FALSE]

\* A new slot of the array arr points to the data.
AddSlot(d, arr) ==
    IF arr = "new_conns"
    THEN [d EXCEPT !.inNew = @ + 1]
    ELSE [d EXCEPT !.inUpd = @ + 1]

\* Mutant: a connection that is already in an array is added again.
NotifWithoutPendingCheck(d, arr, r) ==
    LET e == IF d.status = "closed" THEN pd_giveup_dpi(d, r) ELSE d
    IN  [AddSlot(e, arr) EXCEPT !.pending = TRUE]

(* notif_connection: a closed connection ends its detection; one that is   *)
(* already in an array is not added again.                                 *)
notif_connection(d, arr, r) ==
    LET e == IF d.status = "closed" THEN pd_giveup_dpi(d, r) ELSE d
    IN  IF e.pending
        THEN e
        ELSE [AddSlot(e, arr) EXCEPT !.pending = TRUE]

pd_notify_connection_update(d, r) == notif_connection(d, "conns_updates", r)

\* Mutant: the new connection goes to the array of the updates.
NewConnInUpdates(r) ==
    notif_connection([NoData EXCEPT !.mem = "alive", !.ndpi = TRUE], "conns_updates", r)

\* pd_new_connection: calloc, nDPI flow, a slot of new_conns.
pd_new_connection(r) ==
    notif_connection([NoData EXCEPT !.mem = "alive", !.ndpi = TRUE], "new_conns", r)

\* perform_dpi on a packet of a connection whose detection is in progress.
perform_dpi(d, r) ==
    LET e == [d EXCEPT !.l7 = r.proto,
                       !.update = IF r.proto # d.l7 THEN @ \cup {"INFO"} ELSE @]
        f == IF r.giveup THEN pd_giveup_dpi(e, r) ELSE process_ndpi_data(e, r)
    IN  IF r.alpn
        THEN pd_notify_connection_update([f EXCEPT !.update = @ \cup {"INFO"}], r)
        ELSE f

\* process_payload, when the packet is stored or the payload gets truncated.
process_payload(d, r) ==
    IF r.chunk
    THEN pd_notify_connection_update([d EXCEPT !.update = @ \cup {"PAYLOAD"}], r)
    ELSE d

pd_process_packet(d, r) ==
    process_payload(IF d.ndpi THEN perform_dpi(d, r) ELSE d, r)

\* Mutant: the change of the counters is not flagged.
AccountWithoutFlag(d, r) == pd_notify_connection_update(d, r)

\* pd_account_stats: the counters changed, notify.
pd_account_stats(d, r) ==
    pd_notify_connection_update([d EXCEPT !.update = @ \cup {"STATS"}], r)

(* nDPI never takes back a protocol it has reported, guesses only while it *)
(* has none, and reports nothing once the detection is over.               *)
DpiPossible(d, r) ==
    /\ r.proto = "unknown" => d.l7 = "unknown"
    /\ r.proto = "detected" => r.guess = "detected"
    /\ ~d.ndpi => r.proto = d.l7 /\ r.guess = "detected" /\ ~r.info /\ ~r.giveup

-----------------------------------------------------------------------------
(* getConnUpdate / dumpNewConnection: the update Java gets for one slot.   *)
getConnUpdate(d, j) ==
    LET sent == IF d.inNew > 0 THEN d.update \cup {"STATS", "INFO"} ELSE d.update
    IN  [known  |-> j.known \/ d.inNew > 0,
         status |-> IF "STATS" \in sent THEN d.status ELSE j.status,
         l7     |-> IF "INFO" \in sent THEN d.l7 ELSE j.l7]

\* sendConnectionsDump on one slot.
Dumped(d) == [d EXCEPT !.pending = FALSE, !.update = {}]

\* Mutant: to_purge is ignored.
ClearWithoutPurge(d, free_all) ==
    IF Slots(d) > 0
    THEN [(IF free_all THEN pd_purge_connection(d) ELSE d) EXCEPT !.inNew = 0, !.inUpd = 0]
    ELSE d

(* conns_clear: every slot is dropped; the data behind it is freed when it *)
(* is marked to_purge, or always at the end of the capture.                *)
conns_clear(d, free_all) ==
    IF Slots(d) > 0
    THEN [(IF d.to_purge \/ free_all THEN pd_purge_connection(d) ELSE d)
            EXCEPT !.inNew = 0, !.inUpd = 0]
    ELSE d

\* A dump in which every JNI call succeeds, on the connections c.
SendDump(c, free_all) ==
    /\ conn' = [i \in Ids |-> IF Slots(c[i]) > 0
                              THEN conns_clear(Dumped(c[i]), free_all) ELSE c[i]]
    /\ java' = [i \in Ids |-> IF Slots(c[i]) > 0
                              THEN getConnUpdate(c[i], java[i]) ELSE java[i]]
    /\ UNCHANGED faulted

(* A dump that a JNI failure cuts short (goto cleanup): the slots in       *)
(* "before" were converted, the ones in "at" (one, or none when            *)
(* NewObjectArray or the call itself failed) were no longer pending but    *)
(* not converted, nothing is sent, and both arrays are cleared.            *)
FailedDump(c, free_all) ==
    /\ DumpMayFail
    /\ \E before, at \in SUBSET {i \in Ids : Slots(c[i]) > 0} :
          /\ Cardinality(at) <= 1
          /\ conn' = [i \in Ids |->
                        conns_clear(CASE i \in before -> Dumped(c[i])
                                      [] i \in at \ before -> [c[i] EXCEPT !.pending = FALSE]
                                      [] OTHER -> c[i], free_all)]
    /\ faulted' = TRUE
    /\ UNCHANGED java

\* sendConnectionsDump and conns_clear on the connections c.
DumpConnections(c, free_all) == SendDump(c, free_all) \/ FailedDump(c, free_all)

\* pd_housekeeping, the branch that sends the connections dump.
SendConnectionsDump ==
    /\ \E i \in Ids : Queued(i)
    /\ DumpConnections(conn, FALSE)
    /\ UNCHANGED new_conn_id

-----------------------------------------------------------------------------
(* An array slot points to live data, and no two slots point to the same   *)
(* data: conns_clear, which frees through the slots, neither reads freed   *)
(* memory nor frees twice.                                                 *)
SlotsSafe ==
    \A i \in Ids : /\ Slots(conn[i]) <= 1
                   /\ Queued(i) => Alive(i) /\ conn[i].pending

(* A queued connection has something to report: purge_expired_connections  *)
(* takes update_type = 0 as the proof that no array points to the data.    *)
QueuedHasUpdate == \A i \in Ids : Queued(i) => conn[i].update # {}

(* Java receives the connections in the order of their incr_id, without    *)
(* gaps: the ones it does not know are exactly the ones in new_conns.      *)
(* A dump that a JNI failure cuts short loses the ones it carried.         *)
NewConnsContiguous ==
    ~faulted =>
        /\ \A i \in Ids : conn[i].inNew > 0 <=> i < new_conn_id /\ ~java[i].known
        /\ \A i, j \in Ids : java[j].known /\ i < j => java[i].known

(* Java's copy of the status is stale only while an update is pending, or  *)
(* after a failure.                                                        *)
JavaStatusInSync ==
    ~faulted =>
        \A i \in Ids : Alive(i) /\ "STATS" \notin conn[i].update =>
            java[i].status = conn[i].status

(* When the data of a connection is released, Java knows that it is        *)
(* closed, unless a failure has lost an update.                            *)
JavaLearnsClose ==
    ~faulted => \A i \in Ids : conn[i].mem = "freed" => java[i].known /\ java[i].status = "closed"

(* What Java knows: the connections in order and without gaps, their       *)
(* status, and that the ones whose data is released are closed.            *)
JavaInSync == NewConnsContiguous /\ JavaStatusInSync /\ JavaLearnsClose

\* Java never sees a closed connection become active again, nor forgets one.
JavaMonotone ==
    [][\A i \in Ids : /\ java[i].known => java'[i].known
                      /\ java[i].status = "closed" => java'[i].status = "closed"]_java
=============================================================================
