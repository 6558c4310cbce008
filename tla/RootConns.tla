------------------------------ MODULE RootConns ------------------------------
(***************************************************************************)
(* The connections of the root (libpcap) capture: the hash table           *)
(* pd->pcap.connections of capture_libpcap.c on top of ConnData.  Packets  *)
(* read from pcapd create and update connections, the periodic purge       *)
(* expires them, a list reload touches all of them, and the dump reports   *)
(* them to Java.  The actions are the steps a pass through the loop of     *)
(* run_libpcap may take: a packet, the dump, a new list, the purge.        *)
(***************************************************************************)
EXTENDS ConnData

CONSTANTS
    Tuples,         \* the 5-tuples packets may carry
    NoConn          \* no entry in the hash table

ASSUME RootAssumption == NoConn \notin Ids

VARIABLES
    table,          \* pd->pcap.connections: the data of each tuple
    running         \* FALSE once the loop has ended and pd_run cleaned up

vars == <<conn, new_conn_id, java, faulted, table, running>>

Tabled == {table[t] : t \in Tuples} \ {NoConn}

TypeOK ==
    /\ DataTypeOK
    /\ table \in [Tuples -> Ids \cup {NoConn}]
    /\ running \in BOOLEAN

Init ==
    /\ DataInit
    /\ table = [t \in Tuples |-> NoConn]
    /\ running = TRUE

(* What update_connection_status makes of the packet: no close, a status   *)
(* that is final (RST, last ACK), or the last DNS reply, which also takes  *)
(* the connection out of the table.                                        *)
Closing == {"no", "status", "dns"}

update_connection_status(d, how) ==
    IF d.status = "closed" \/ how = "no"
    THEN d
    ELSE [d EXCEPT !.status = "closed", !.to_purge = @ \/ how = "dns"]

(* handle_packet on a valid packet of tuple t: look up or create, process, *)
(* update the status, account.                                             *)
handle_packet(t, r, how) ==
    LET new  == table[t] = NoConn
        i    == IF new THEN new_conn_id ELSE table[t]
        d    == IF new THEN pd_new_connection(r) ELSE conn[i]
        e    == update_connection_status(pd_process_packet(d, r), how)
        drop == how = "dns" /\ d.status # "closed"
    IN  /\ running
        /\ new => new_conn_id < MaxConns
        /\ DpiPossible(d, r)
        /\ conn' = [conn EXCEPT ![i] = pd_account_stats(e, r)]
        /\ new_conn_id' = IF new THEN new_conn_id + 1 ELSE new_conn_id
        /\ table' = [table EXCEPT ![t] = IF drop THEN NoConn ELSE i]
        /\ UNCHANGED <<java, faulted, running>>

\* Mutant: the entry is not marked to_purge.
PurgeEntryUnmarked(d, r) ==
    LET e == [d EXCEPT !.status = "closed",
                       !.update = IF d.status = "closed" THEN @ ELSE @ \cup {"STATS"}]
    IN  IF e.update = {}
        THEN pd_purge_connection(e)
        ELSE pd_notify_connection_update(e, r)

(* purge_expired_connections on one entry: it is closed and reported, or   *)
(* freed at once when there is nothing left to report.                     *)
PurgeEntry(d, r) ==
    LET e == [d EXCEPT !.to_purge = TRUE,
                       !.status = "closed",
                       !.update = IF d.status = "closed" THEN @ ELSE @ \cup {"STATS"}]
    IN  IF e.update = {}
        THEN pd_purge_connection(e)
        ELSE pd_notify_connection_update(e, r)

Purged(c, expired, r) == [i \in Ids |-> IF i \in expired THEN PurgeEntry(c[i], r) ELSE c[i]]

\* The periodic purge: any set of entries may have timed out.
purge_expired_connections(expired, r) ==
    /\ running
    /\ conn' = Purged(conn, expired, r)
    /\ table' = [t \in Tuples |-> IF table[t] \in expired THEN NoConn ELSE table[t]]
    /\ UNCHANGED <<new_conn_id, java, faulted, running>>

(* A new block or white list: check_blocked_conn_cb runs on the whole      *)
(* table, and the connections whose verdict changes are notified.          *)
ReloadLists(changed, r) ==
    /\ running
    /\ conn' = [i \in Ids |-> IF i \in changed THEN pd_account_stats(conn[i], r) ELSE conn[i]]
    /\ UNCHANGED <<new_conn_id, java, faulted, table, running>>

SendDumpNow ==
    /\ running
    /\ SendConnectionsDump
    /\ UNCHANGED <<table, running>>

(* The end of run_libpcap and of pd_run: everything expires, the last dump *)
(* is sent, both arrays are cleared with free_all.                         *)
Finish(r) ==
    /\ running
    /\ LET c == Purged(conn, Tabled, r)
       IN  DumpConnections(c, TRUE)
    /\ table' = [t \in Tuples |-> NoConn]
    /\ running' = FALSE
    /\ UNCHANGED new_conn_id

Next ==
    \/ \E t \in Tuples, r \in DpiResult, how \in Closing : handle_packet(t, r, how)
    \/ \E r \in DpiEnd : \E expired \in SUBSET Tabled \ {{}} :
          purge_expired_connections(expired, r)
    \/ \E r \in DpiEnd : \E changed \in SUBSET Tabled \ {{}} : ReloadLists(changed, r)
    \/ SendDumpNow
    \/ \E r \in DpiEnd : Finish(r)

(* The loop wakes up at least every SELECT_TIMEOUT_MS and a dump is due    *)
(* every second, so a dump that stays possible happens.                    *)
Spec == Init /\ [][Next]_vars /\ WF_vars(SendDumpNow)

-----------------------------------------------------------------------------
(* The hash table points to live data, two entries never to the same one,  *)
(* and never to data that an array will free.                              *)
TableSafe ==
    /\ \A t \in Tuples : table[t] # NoConn =>
          Alive(table[t]) /\ ~conn[table[t]].to_purge
    /\ \A t, u \in Tuples : table[t] = table[u] /\ table[t] # NoConn => t = u

(* No data is lost: what is allocated is in the table, or waits in an      *)
(* array marked to_purge, and is released by the next dump.                *)
NoLeak ==
    \A i \in Ids : Alive(i) => i \in Tabled \/ (Queued(i) /\ conn[i].to_purge)

\* No data is lost as long as no JNI call and no socket has failed.
NoLeakUnlessFaulted == faulted \/ NoLeak

\* A connection marked to_purge is released, unless a dump fails.
PurgedAreFreed ==
    \A i \in Ids : (Alive(i) /\ conn[i].to_purge) ~> (conn[i].mem = "freed" \/ faulted)
=============================================================================
