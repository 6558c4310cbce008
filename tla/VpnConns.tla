------------------------------ MODULE VpnConns ------------------------------
(***************************************************************************)
(* The connections of the VPN capture: the zdtun connection table, whose   *)
(* entries carry a pd_conn_t as user data, and the callbacks by which      *)
(* capture_vpn.c follows the life of each entry.  zdtun closes a           *)
(* connection first (on_connection_close) and destroys it later, and a     *)
(* close may send a RST, which calls back into capture_vpn.c and may close *)
(* the same connection again before the first close is done.               *)
(* The actions are the steps a pass through the loop of run_vpn may take:  *)
(* a packet, a socket event, the dump, a new list, the purge.              *)
(***************************************************************************)
EXTENDS ConnData

CONSTANTS
    TcpTuples,      \* the 5-tuples of TCP packets
    UdpTuples,      \* the ones of UDP packets
    IcmpTuples,     \* the ones of ICMP packets
    SocketMayFail   \* whether open_socket may fail for TCP and ICMP

ASSUME VpnAssumption ==
    /\ SocketMayFail \in BOOLEAN
    /\ TcpTuples \cap UdpTuples = {}
    /\ TcpTuples \cap IcmpTuples = {}
    /\ UdpTuples \cap IcmpTuples = {}

VARIABLES
    table,          \* tun->conn_table
    running         \* FALSE once run_vpn has ended and pd_run cleaned up

vars == <<conn, new_conn_id, java, faulted, table, running>>

Tuples == TcpTuples \cup UdpTuples \cup IcmpTuples

(* An entry of the table: its pd_conn_t, its zdtun status (every final     *)
(* status is "closed"), and whether data->vpn.fw_pctx still points to the  *)
(* packet context of an iteration of the loop.                             *)
ZStatus == {"none", "new", "open", "closed"}
Entry == [id: Ids, z: ZStatus, fw: BOOLEAN]
NoEntry == [id |-> 0, z |-> "none", fw |-> FALSE]

Open(t) == table[t].z \in {"new", "open"}

TypeOK ==
    /\ DataTypeOK
    /\ table \in [Tuples -> Entry]
    /\ running \in BOOLEAN

Init ==
    /\ DataInit
    /\ table = [t \in Tuples |-> NoEntry]
    /\ running = TRUE

-----------------------------------------------------------------------------
(* The callbacks and the zdtun functions work on a connection and its data *)
(* together: [d: Data, z: ZStatus, fw: BOOLEAN].                           *)

\* Mutant: the data is not marked to_purge.
ClosedUnmarked(w, r) ==
    [w EXCEPT !.d = [pd_giveup_dpi(pd_account_stats(w.d, r), r) EXCEPT !.status = "closed"]]

(* connection_closed: the last notification, then the final status; the    *)
(* data is left to the next dump.                                          *)
connection_closed(w, r) ==
    [w EXCEPT !.d = [pd_giveup_dpi(pd_account_stats(w.d, r), r) EXCEPT
                        !.status = "closed", !.to_purge = TRUE]]

(* remote2vpn: account the packet being forwarded first, then process the  *)
(* reply; it is written to the tun device, blocked, or the write fails.    *)
remote2vpn(w, r, out) ==
    LET p == pd_process_packet(IF w.fw THEN pd_account_stats(w.d, r) ELSE w.d, r)
    IN  [w EXCEPT !.d  = IF out = "error" THEN p ELSE pd_account_stats(p, r),
                  !.fw = FALSE]

\* update_conn_status: the status of the zdtun connection is copied to the data.
update_conn_status(w) ==
    [w EXCEPT !.d = [w.d EXCEPT !.status = IF w.z = "closed" THEN "closed" ELSE "active",
                                !.to_purge = @ \/ w.z = "closed"]]

\* The end of zdtun_conn_close: the final status and the callback.
CloseQuietly(w, r) ==
    IF w.z = "closed" THEN w ELSE connection_closed([w EXCEPT !.z = "closed"], r)

(* send_to_client: a reply that cannot be delivered closes the connection, *)
(* with fin_ack_sent set so that no RST follows.                           *)
send_to_client(w, r, out) ==
    IF out = "sent"
    THEN update_conn_status(remote2vpn(w, r, out))
    ELSE CloseQuietly(remote2vpn(w, r, out), r)

\* Mutant: the zdtun connection keeps its status.
CloseKeepsStatus(w, r, rst) ==
    IF w.z = "closed" THEN w ELSE connection_closed(w, r)

(* zdtun_conn_close.  The RST of a TCP connection may itself fail and      *)
(* close the connection; the outer close then goes on and calls            *)
(* connection_closed a second time.  rst is the fate of the RST.           *)
zdtun_conn_close(w, r, rst) ==
    IF w.z = "closed"
    THEN w
    ELSE connection_closed([(IF rst = "none" THEN w ELSE send_to_client(w, r, rst))
                              EXCEPT !.z = "closed"], r)

Outcomes == {"sent", "blocked", "error"}

\* A RST is only sent to TCP clients, and not after a FIN.
Rst(t) == {"none"} \cup (IF t \in TcpTuples THEN Outcomes ELSE {})

\* The packet is given to zdtun_forward, with its context in data->vpn.fw_pctx.
Forwarding(w, r) ==
    update_conn_status([w EXCEPT !.d = pd_process_packet(w.d, r), !.z = "open", !.fw = TRUE])

\* zdtun_forward returned 0: account the packet unless remote2vpn did.
AccountForwarded(w, r) ==
    IF w.fw THEN [w EXCEPT !.d = pd_account_stats(w.d, r), !.fw = FALSE] ELSE w

(* destroy_conn on the entries in gone: the data of the ones that are open *)
(* goes through zdtun_conn_close.                                          *)
Destroyed(c, gone, r, rst) ==
    [i \in Ids |->
        IF \E t \in gone : Open(t) /\ table[t].id = i
        THEN LET t == CHOOSE u \in gone : Open(u) /\ table[u].id = i
             IN  zdtun_conn_close([d |-> c[i], z |-> table[t].z, fw |-> table[t].fw],
                                  r, IF t \in TcpTuples THEN rst ELSE "none").d
        ELSE c[i]]

-----------------------------------------------------------------------------
(* zdtun_lookup finds an open connection, or creates one (a closed entry   *)
(* of the same tuple is destroyed).                                        *)
Lookup(t, r) ==
    IF Open(t)
    THEN [d |-> conn[table[t].id], z |-> table[t].z, fw |-> table[t].fw]
    ELSE [d |-> pd_new_connection(r), z |-> "new", fw |-> FALSE]

\* The entry of t and its data become w.
Store(t, w) ==
    LET i == IF Open(t) THEN table[t].id ELSE new_conn_id
    IN  /\ Open(t) \/ new_conn_id < MaxConns
        /\ conn' = [conn EXCEPT ![i] = w.d]
        /\ table' = [table EXCEPT ![t] = [id |-> i, z |-> w.z, fw |-> w.fw]]
        /\ new_conn_id' = IF Open(t) THEN new_conn_id ELSE new_conn_id + 1
        /\ UNCHANGED <<java, running>>

(* A packet from the tun device.  zdtun_forward succeeds without a reply   *)
(* to the client,                                                          *)
ForwardOk(t, r) ==
    LET w == Lookup(t, r)
    IN  /\ running
        /\ DpiPossible(w.d, r)
        /\ Store(t, AccountForwarded(Forwarding(w, r), r))
        /\ UNCHANGED faulted

(* or it sends an ACK or a SYN+ACK at once; when the client cannot get it, *)
(* the forward fails with the connection closed,                           *)
ForwardReply(t, r, out) ==
    LET w == Lookup(t, r)
    IN  /\ running
        /\ t \in TcpTuples
        /\ DpiPossible(w.d, r)
        /\ Store(t, send_to_client(Forwarding(w, r), r, out))
        /\ UNCHANGED faulted

\* or it closes the connection and returns 0 (connection refused, RST, send error),
ForwardClose(t, r, rst) ==
    LET w == Lookup(t, r)
    IN  /\ running
        /\ DpiPossible(w.d, r)
        /\ Store(t, AccountForwarded(zdtun_conn_close(Forwarding(w, r), r, rst), r))
        /\ UNCHANGED faulted

\* or it fails and run_vpn closes the connection without accounting the packet,
ForwardFail(t, r, rst) ==
    LET w == Lookup(t, r)
    IN  /\ running
        /\ DpiPossible(w.d, r)
        /\ Store(t, zdtun_conn_close(Forwarding(w, r), r, rst))
        /\ UNCHANGED faulted

(* or open_socket fails for a new TCP or ICMP connection: the final status *)
(* is set without zdtun_conn_close, and the one of run_vpn does nothing.   *)
ForwardNoSocket(t, r) ==
    LET w == Lookup(t, r)
    IN  /\ running
        /\ SocketMayFail
        /\ t \notin UdpTuples
        /\ w.z = "new"
        /\ DpiPossible(w.d, r)
        /\ Store(t, [w EXCEPT !.d = pd_process_packet(w.d, r), !.z = "closed", !.fw = TRUE])
        /\ faulted' = TRUE

(* A packet of a connection to block is dropped; a new DNS query gets a    *)
(* spoofed reply and its connection is closed.                             *)
BlockedPacket(t, r, spoof) ==
    LET w == Lookup(t, r)
        p == [w EXCEPT !.d = pd_process_packet(w.d, r)]
        e == IF spoof THEN zdtun_conn_close(p, r, "none") ELSE p
    IN  /\ running
        /\ DpiPossible(w.d, r)
        /\ spoof => t \in UdpTuples /\ w.z = "new"
        /\ Store(t, [e EXCEPT !.d = pd_account_stats(e.d, r)])
        /\ UNCHANGED faulted

(* A TCP packet without a SYN finds no open connection: zdtun_lookup       *)
(* destroys the closed entry, and the packet is skipped.                   *)
SkippedPacket(t) ==
    /\ running
    /\ t \in TcpTuples
    /\ table[t].z = "closed"
    /\ table' = [table EXCEPT ![t] = NoEntry]
    /\ UNCHANGED <<conn, new_conn_id, java, faulted, running>>

(* zdtun_handle_fd on one socket: data or a FIN for the client, after      *)
(* which the connection ends if it was the last DNS reply or if both sides *)
(* have closed;                                                            *)
SocketReply(t, r, out, last) ==
    LET w == Lookup(t, r)
        e == send_to_client(w, r, out)
    IN  /\ running
        /\ table[t].z = "open"
        /\ DpiPossible(w.d, r)
        /\ Store(t, IF last THEN CloseQuietly(e, r) ELSE e)
        /\ UNCHANGED faulted

\* or an error on the socket.
SocketError(t, r, rst) ==
    LET w == Lookup(t, r)
    IN  /\ running
        /\ table[t].z = "open"
        /\ DpiPossible(w.d, r)
        /\ Store(t, zdtun_conn_close(w, r, rst))
        /\ UNCHANGED faulted

(* zdtun_purge_expired, periodic or forced by the socket limit: closed     *)
(* entries and any set of idle ones are destroyed.                         *)
zdtun_purge_expired(idle, r, rst) ==
    LET gone == idle \cup {t \in Tuples : table[t].z = "closed"}
    IN  /\ running
        /\ gone # {}
        /\ \A t \in idle : conn[table[t].id].ndpi => DpiPossible(conn[table[t].id], r)
        /\ conn' = Destroyed(conn, gone, r, rst)
        /\ table' = [t \in Tuples |-> IF t \in gone THEN NoEntry ELSE table[t]]
        /\ UNCHANGED <<new_conn_id, java, faulted, running>>

\* A new list: zdtun_iter_connections skips the closed connections.
ReloadLists(changed, r) ==
    /\ running
    /\ conn' = [i \in Ids |->
                  IF \E t \in changed : Open(t) /\ table[t].id = i
                  THEN pd_account_stats(conn[i], r) ELSE conn[i]]
    /\ UNCHANGED <<new_conn_id, java, faulted, table, running>>

SendDumpNow ==
    /\ running
    /\ SendConnectionsDump
    /\ UNCHANGED <<table, running>>

(* zdtun_finalize, then the last dump and conns_clear(free_all) of pd_run. *)
(* remote2vpn ignores the RSTs of a stopped capture (none), but not those  *)
(* of a loop that a failing select has left.                               *)
Finish(r, rst) ==
    LET c == Destroyed(conn, Tuples, r, rst)
    IN  /\ running
        /\ DumpConnections(c, TRUE)
        /\ table' = [t \in Tuples |-> NoEntry]
        /\ running' = FALSE
        /\ UNCHANGED new_conn_id

Next ==
    \/ \E t \in Tuples, r \in DpiResult :
          \/ ForwardOk(t, r)
          \/ \E out \in Outcomes : ForwardReply(t, r, out)
          \/ \E rst \in Rst(t) : ForwardClose(t, r, rst)
          \/ \E rst \in Rst(t) : ForwardFail(t, r, rst)
          \/ ForwardNoSocket(t, r)
          \/ \E spoof \in BOOLEAN : BlockedPacket(t, r, spoof)
          \/ SkippedPacket(t)
          \/ \E out \in Outcomes, last \in BOOLEAN : SocketReply(t, r, out, last)
          \/ \E rst \in Rst(t) : SocketError(t, r, rst)
    \/ \E r \in DpiResult : \E idle \in SUBSET {t \in Tuples : Open(t)} :
          \E rst \in {"none"} \cup Outcomes : zdtun_purge_expired(idle, r, rst)
    \/ \E r \in DpiEnd : \E changed \in SUBSET {t \in Tuples : Open(t)} \ {{}} :
          ReloadLists(changed, r)
    \/ SendDumpNow
    \/ \E r \in DpiResult, rst \in {"none"} \cup Outcomes : Finish(r, rst)

Spec == Init /\ [][Next]_vars

-----------------------------------------------------------------------------
(* The data of an open zdtun connection is live, not due to be freed, and  *)
(* of no other connection: no callback works on freed memory.              *)
UserDataSafe ==
    /\ \A t \in Tuples : Open(t) => Alive(table[t].id) /\ ~conn[table[t].id].to_purge
    /\ \A t, u \in Tuples : Open(t) /\ Open(u) /\ table[t].id = table[u].id => t = u

(* Between two iterations of the loop no open connection keeps the packet  *)
(* context of an earlier iteration, which remote2vpn would account.        *)
NoDanglingContext == \A t \in Tuples : Open(t) => ~table[t].fw

(* What the callbacks of zdtun are given can be used: live data of one     *)
(* connection (conn_data), and no packet of an earlier iteration.          *)
CallbacksSafe == UserDataSafe /\ NoDanglingContext

(* No data is lost: it belongs to an open connection, or waits in an array *)
(* marked to_purge.  on_connection_close is called for every close.        *)
NoLeak ==
    \A i \in Ids : Alive(i) =>
        \/ \E t \in Tuples : Open(t) /\ table[t].id = i
        \/ Queued(i) /\ conn[i].to_purge

\* No data is lost as long as no JNI call and no socket has failed.
NoLeakUnlessFaulted == faulted \/ NoLeak
=============================================================================
