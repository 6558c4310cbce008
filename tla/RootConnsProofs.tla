-------------------------- MODULE RootConnsProofs ---------------------------
(***************************************************************************)
(* The capture with root: its connections, and the daemon; and the other   *)
(* process that the app works with, the decryption add-on.                 *)
(*                                                                         *)
(* The theorems about RootConns hold for every bound, every set of tuples  *)
(* and with or without failing dumps.                                      *)
(*                                                                         *)
(* InterfaceAccounted and DaemonsAccounted hold of pcapd and of the app    *)
(* for every set of daemons and of interfaces.  The inductive invariant    *)
(* says what is open in each state of a daemon, and that whoever may still *)
(* connect to the app is the daemon of its capture, unless one was missed. *)
(*                                                                         *)
(* StoppedIsReleased holds in every order of the callbacks of the add-on,  *)
(* of its thread and of the stop.  The inductive invariant says that the   *)
(* certificate is asked for at most once, and who holds the socket.        *)
(***************************************************************************)
EXTENDS RootConns, Pcapd, MitmAddon, ConnDataProofs, SequenceTheorems

\* Each leaf is tried with Zenon, then with SMT.
USE ZenonT(5), SMTT(15)

\* The entries of the table have been born.
TableBorn == \A t \in Tuples : table[t] # NoConn => table[t] < new_conn_id

\* The inductive invariant behind the memory safety of the notification path.
MemInv ==
    /\ TypeOK
    /\ SlotsSafe
    /\ QueuedHasUpdate
    /\ TableSafe
    /\ Unborn
    /\ TableBorn

\* A record that a slot points to has something to report.
UpdateOK(d) == Slots(d) > 0 => d.update # {}

(* purge_expired_connections on one entry: the data is freed only when no  *)
(* slot points to it.                                                      *)
LEMMA PurgeEntryLemma ==
    ASSUME NEW d \in Data, NEW r, r.guess \in Proto,
           d.mem = "alive", SlotOK(d), UpdateOK(d)
    PROVE  LET n == PurgeEntry(d, r)
           IN  /\ n \in Data /\ SlotOK(n) /\ UpdateOK(n)
               /\ n.inNew = d.inNew /\ n.status = "closed" /\ n.to_purge
               /\ \/ /\ n.mem = "alive" /\ d.update \subseteq n.update
                     /\ "STATS" \in n.update \/ d.status = "closed"
                     /\ Held(d) => Slots(n) > 0
                  \/ n.mem = "freed" /\ Slots(d) = 0 /\ d.status = "closed" /\ d.update = {}
  <1> DEFINE p == [d EXCEPT !.to_purge = TRUE]
             q == [p EXCEPT !.status = "closed"]
             u == IF d.status = "closed" THEN q.update ELSE q.update \cup {"STATS"}
             e == [q EXCEPT !.update = u]
  <1>1. /\ p \in Data /\ p.mem = "alive" /\ p.pending = d.pending /\ p.update = d.update
        /\ p.inNew = d.inNew /\ p.inUpd = d.inUpd /\ p.to_purge
    BY DEF Data
  <1>2. /\ q \in Data /\ q.mem = "alive" /\ q.pending = d.pending /\ q.update = d.update
        /\ q.inNew = d.inNew /\ q.inUpd = d.inUpd /\ q.to_purge /\ q.status = "closed"
    <2> HIDE DEF p
    <2> QED BY <1>1 DEF Data, Status
  <1>3. /\ e \in Data /\ e.mem = "alive" /\ e.pending = d.pending /\ d.update \subseteq e.update
        /\ e.inNew = d.inNew /\ e.inUpd = d.inUpd /\ e.to_purge /\ e.status = "closed"
        /\ "STATS" \in e.update \/ d.status = "closed"
    <2> HIDE DEF q
    <2>1. u \in SUBSET Flags /\ d.update \subseteq u /\ ("STATS" \in u \/ d.status = "closed")
      BY <1>2 DEF Data, Flags
    <2> HIDE DEF u
    <2> QED BY <1>2, <2>1 DEF Data
  <1>4. PurgeEntry(d, r) =
          IF e.update = {} THEN pd_purge_connection(e)
          ELSE pd_notify_connection_update(e, r)
    BY <1>2 DEF PurgeEntry
  <1> HIDE DEF e
  <1>5. SlotOK(e) /\ UpdateOK(e)
    BY <1>3 DEF SlotOK, UpdateOK, Slots
  <1>6. CASE e.update = {}
    <2>1. Slots(e) = 0 /\ Slots(d) = 0 /\ d.status = "closed" /\ d.update = {}
      BY <1>3, <1>5, <1>6 DEF UpdateOK, Slots, Data
    <2> DEFINE x == [e EXCEPT !.mem = "freed"]
    <2>2. /\ x \in Data /\ x.inNew = e.inNew /\ x.inUpd = e.inUpd
          /\ x.mem = "freed" /\ x.to_purge /\ x.status = "closed"
      BY <1>3 DEF Data
    <2> DEFINE n == [x EXCEPT !.ndpi = FALSE]
    <2>3. /\ n \in Data /\ n.inNew = e.inNew /\ n.inUpd = e.inUpd
          /\ n.mem = "freed" /\ n.to_purge /\ n.status = "closed"
      <3> HIDE DEF x
      <3> QED BY <2>2 DEF Data
    <2>4. PurgeEntry(d, r) = n
      BY <1>4, <1>6 DEF pd_purge_connection
    <2> HIDE DEF n
    <2> QED BY <1>3, <2>1, <2>3, <2>4 DEF SlotOK, UpdateOK, Slots
  <1>7. CASE e.update # {}
    <2>1. Held(d) => Held(e)
      BY <1>3 DEF Held, Slots
    <2> DEFINE n == pd_notify_connection_update(e, r)
    <2>2. /\ n \in Data /\ n.mem = "alive" /\ SlotOK(n) /\ n.to_purge = e.to_purge
          /\ n.status = e.status /\ e.update \subseteq n.update /\ n.inNew = e.inNew
          /\ Held(e) => Slots(n) > 0
      BY <1>3, <1>5, NotifyLemma
    <2>3. PurgeEntry(d, r) = n
      BY <1>4, <1>7
    <2> HIDE DEF n
    <2> QED BY <1>3, <1>7, <2>1, <2>2, <2>3 DEF UpdateOK
  <1>8. QED
    BY <1>6, <1>7

-----------------------------------------------------------------------------
(* MemInv without the conjuncts about the table, one connection at a time. *)
LEMMA MemInvPerConn ==
    MemInv <=> /\ TypeOK /\ TableSafe /\ Unborn /\ TableBorn
               /\ \A i \in Ids : SlotOK(conn[i]) /\ UpdateOK(conn[i])
  BY DEF MemInv, SlotsSafe, QueuedHasUpdate, SlotOK, UpdateOK, Queued, Alive

\* The invariant holds at the start.
LEMMA MemInit == Init => MemInv
  <1> SUFFICES ASSUME Init PROVE MemInv
    OBVIOUS
  <1>1. NoData \in Data /\ Slots(NoData) = 0
    BY DEF NoData, Data, Status, Flags, Proto, Slots
  <1>2. TypeOK
    BY <1>1, ConnAssumption DEF TypeOK, DataTypeOK, Init, DataInit, JavaConn, Status, Proto
  <1>3. QED
    BY <1>1, <1>2 DEF MemInv, Init, DataInit, SlotsSafe, QueuedHasUpdate, Queued,
         TableSafe, Unborn, TableBorn

(* handle_packet: one record is created or updated, and stays well-formed. *)
LEMMA MemPacket ==
    ASSUME MemInv, NEW t \in Tuples, NEW r \in DpiResult, NEW how \in Closing,
           handle_packet(t, r, how)
    PROVE  MemInv'
  <1> DEFINE new == table[t] = NoConn
             k == IF new THEN new_conn_id ELSE table[t]
             d == IF new THEN pd_new_connection(r) ELSE conn[k]
             p == pd_process_packet(d, r)
             e == update_connection_status(p, how)
             n == pd_account_stats(e, r)
             drop == how = "dns" /\ d.status # "closed"
  <1>0. r.guess \in Proto
    BY DEF DpiResult
  <1>1. k \in Ids
    BY ConnAssumption DEF MemInv, TypeOK, DataTypeOK, handle_packet, Ids
  <1>2. d \in Data /\ d.mem = "alive" /\ SlotOK(d) /\ ~d.to_purge
    BY <1>1, NewConnLemma, MemInvPerConn DEF MemInv, TypeOK, DataTypeOK, TableSafe, Alive
  <1>3. p \in Data /\ p.mem = "alive" /\ SlotOK(p) /\ ~p.to_purge /\ p.status = d.status
    <2> HIDE DEF d
    <2> QED BY <1>2, ProcessLemma
  <1>4. e \in Data /\ e.mem = "alive" /\ SlotOK(e) /\ (~drop => ~e.to_purge)
    <2> HIDE DEF p
    <2> DEFINE f == [p EXCEPT !.status = "closed"]
               g == [f EXCEPT !.to_purge = p.to_purge \/ how = "dns"]
    <2>1. f \in Data /\ f.mem = "alive" /\ SlotOK(f) /\ f.to_purge = p.to_purge
      BY <1>3 DEF Data, Status, SlotOK, Slots
    <2>2. g \in Data /\ g.mem = "alive" /\ SlotOK(g) /\ g.to_purge = (p.to_purge \/ how = "dns")
      <3> HIDE DEF f
      <3> QED BY <1>3, <2>1 DEF Data, SlotOK, Slots
    <2>3. e = IF p.status = "closed" \/ how = "no" THEN p ELSE g
      BY <2>1 DEF update_connection_status
    <2> HIDE DEF g
    <2> QED BY <1>3, <2>2, <2>3
  <1>5. n \in Data /\ n.mem = "alive" /\ SlotOK(n) /\ UpdateOK(n) /\ (~drop => ~n.to_purge)
    <2> HIDE DEF e
    <2> QED BY <1>0, <1>4, AccountLemma DEF UpdateOK
  <1>6. /\ conn' = [conn EXCEPT ![k] = n]
        /\ new_conn_id' = IF new THEN new_conn_id + 1 ELSE new_conn_id
        /\ table' = [table EXCEPT ![t] = IF drop THEN NoConn ELSE k]
        /\ java' = java /\ running' = running
        /\ new => new_conn_id < MaxConns
    BY DEF handle_packet
  <1> HIDE DEF n, e, p, d, drop
  <1>7. TypeOK'
    BY <1>1, <1>5, <1>6, ConnAssumption DEF MemInv, TypeOK, DataTypeOK
  <1>8. \A i \in Ids : SlotOK(conn'[i]) /\ UpdateOK(conn'[i])
    BY <1>1, <1>5, <1>6, MemInvPerConn DEF MemInv, TypeOK, DataTypeOK
  <1>9. Unborn' /\ TableBorn'
    BY <1>1, <1>6, RootAssumption, ConnAssumption
       DEF MemInv, TypeOK, DataTypeOK, Unborn, TableBorn, Ids
  <1>10. TableSafe'
    <2>1. \A u \in Tuples : u # t /\ table[u] # NoConn => table[u] # k
      BY DEF MemInv, TypeOK, DataTypeOK, TableSafe, TableBorn, Ids
    <2>2. QED
      BY <1>1, <1>5, <1>6, <2>1 DEF MemInv, TypeOK, DataTypeOK, TableSafe, Alive
  <1>11. QED
    BY <1>7, <1>8, <1>9, <1>10 DEF MemInv, SlotsSafe, QueuedHasUpdate, SlotOK, UpdateOK,
         Queued, Alive

(* Expiring any set of table entries leaves every record well-formed.      *)
LEMMA PurgedLemma ==
    ASSUME MemInv, NEW r, r.guess \in Proto, NEW expired \in SUBSET Tabled
    PROVE  LET c == Purged(conn, expired, r)
           IN  /\ c \in [Ids -> Data]
               /\ \A i \in Ids : /\ SlotOK(c[i]) /\ UpdateOK(c[i])
                                 /\ (i \notin expired => c[i] = conn[i])
  <1>1. ASSUME NEW i \in Ids
        PROVE  /\ i \in expired => /\ PurgeEntry(conn[i], r) \in Data
                                    /\ SlotOK(PurgeEntry(conn[i], r))
                                    /\ UpdateOK(PurgeEntry(conn[i], r))
               /\ conn[i] \in Data /\ SlotOK(conn[i]) /\ UpdateOK(conn[i])
    <2>1. conn[i] \in Data /\ SlotOK(conn[i]) /\ UpdateOK(conn[i])
      BY MemInvPerConn DEF MemInv, TypeOK, DataTypeOK
    <2>2. i \in expired => conn[i].mem = "alive"
      BY DEF Tabled, MemInv, TableSafe, Alive
    <2>3. QED
      BY <2>1, <2>2, PurgeEntryLemma
  <1>2. QED
    BY <1>1 DEF Purged

\* A purge of expired connections keeps the invariant.
LEMMA MemPurge ==
    ASSUME MemInv, NEW r \in DpiEnd, NEW expired \in SUBSET Tabled,
           purge_expired_connections(expired, r)
    PROVE  MemInv'
  <1>1. r.guess \in Proto
    BY DEF DpiEnd
  <1> DEFINE c == Purged(conn, expired, r)
  <1>2. /\ c \in [Ids -> Data]
        /\ \A i \in Ids : /\ SlotOK(c[i]) /\ UpdateOK(c[i])
                          /\ (i \notin expired => c[i] = conn[i])
    BY <1>1, PurgedLemma
  <1>3. /\ conn' = c
        /\ table' = [u \in Tuples |-> IF table[u] \in expired THEN NoConn ELSE table[u]]
        /\ new_conn_id' = new_conn_id /\ java' = java /\ running' = running
    BY DEF purge_expired_connections
  <1> HIDE DEF c
  <1>4. TypeOK'
    BY <1>2, <1>3 DEF MemInv, TypeOK, DataTypeOK
  <1>5. Unborn' /\ TableBorn' /\ TableSafe'
    BY <1>2, <1>3, RootAssumption
       DEF MemInv, TypeOK, DataTypeOK, Unborn, TableBorn, TableSafe, Tabled, Alive, Ids
  <1>6. QED
    BY <1>2, <1>3, <1>4, <1>5 DEF MemInv, SlotsSafe, QueuedHasUpdate, SlotOK, UpdateOK,
         Queued, Alive

\* A switch to new lists keeps the invariant.
LEMMA MemReload ==
    ASSUME MemInv, NEW r \in DpiEnd, NEW changed \in SUBSET Tabled,
           ReloadLists(changed, r)
    PROVE  MemInv'
  <1>1. r.guess \in Proto
    BY DEF DpiEnd
  <1>2. ASSUME NEW i \in Ids
        PROVE  /\ conn[i] \in Data /\ SlotOK(conn[i]) /\ UpdateOK(conn[i])
               /\ i \in changed =>
                    LET n == pd_account_stats(conn[i], r)
                    IN  /\ n \in Data /\ SlotOK(n) /\ UpdateOK(n) /\ n.mem = "alive"
                        /\ n.to_purge = conn[i].to_purge
    <2>1. conn[i] \in Data /\ SlotOK(conn[i]) /\ UpdateOK(conn[i])
      BY MemInvPerConn DEF MemInv, TypeOK, DataTypeOK
    <2>2. i \in changed => conn[i].mem = "alive"
      BY DEF Tabled, MemInv, TableSafe, Alive
    <2>3. QED
      BY <1>1, <2>1, <2>2, AccountLemma DEF UpdateOK
  <1>3. /\ conn' = [i \in Ids |-> IF i \in changed THEN pd_account_stats(conn[i], r) ELSE conn[i]]
        /\ UNCHANGED <<new_conn_id, java, table, running>>
    BY DEF ReloadLists
  <1>4. TypeOK'
    BY <1>2, <1>3 DEF MemInv, TypeOK, DataTypeOK
  <1>5. \A i \in Ids : SlotOK(conn'[i]) /\ UpdateOK(conn'[i])
    BY <1>2, <1>3
  <1>6. changed \subseteq {i \in Ids : i < new_conn_id}
    BY RootAssumption DEF Tabled, MemInv, TypeOK, TableBorn
  <1>7. Unborn' /\ TableBorn' /\ TableSafe'
    BY <1>2, <1>3, <1>6 DEF MemInv, TypeOK, DataTypeOK, Unborn, TableBorn, TableSafe, Tabled, Alive, Ids
  <1>8. QED
    BY <1>4, <1>5, <1>7 DEF MemInv, SlotsSafe, QueuedHasUpdate, SlotOK, UpdateOK, Queued, Alive

\* A dump of the connections keeps the invariant.
LEMMA MemDump == MemInv /\ SendDumpNow => MemInv'
  <1> SUFFICES ASSUME MemInv, SendDumpNow PROVE MemInv'
    OBVIOUS
  <1>1. conn \in [Ids -> Data] /\ java \in [Ids -> JavaConn]
    BY DEF MemInv, TypeOK, DataTypeOK
  <1>2. /\ conn' \in [Ids -> Data]
        /\ java' \in [Ids -> JavaConn]
        /\ \A i \in Ids : /\ Slots(conn'[i]) = 0
                          /\ (Slots(conn[i]) = 0 => conn'[i] = conn[i])
                          /\ conn'[i].to_purge = conn[i].to_purge
                          /\ (~conn[i].to_purge => conn'[i].mem = conn[i].mem)
    BY <1>1, DumpLemma DEF SendDumpNow, SendConnectionsDump
  <1>3. UNCHANGED <<new_conn_id, table, running>>
    BY DEF SendDumpNow, SendConnectionsDump
  <1>4. Slots(NoData) = 0
    BY DEF Slots, NoData
  <1>5. TypeOK' /\ Unborn' /\ TableBorn'
    BY <1>2, <1>3, <1>4 DEF MemInv, TypeOK, DataTypeOK, Unborn, TableBorn
  <1>6. TableSafe'
    BY <1>2, <1>3 DEF MemInv, TypeOK, TableSafe, Alive
  <1>7. QED
    BY <1>2, <1>5, <1>6 DEF MemInv, SlotsSafe, QueuedHasUpdate, Queued, Alive

\* The end of the capture keeps the invariant.
LEMMA MemFinish ==
    ASSUME MemInv, NEW r \in DpiEnd, Finish(r)
    PROVE  MemInv'
  <1>1. r.guess \in Proto
    BY DEF DpiEnd
  <1> DEFINE c == Purged(conn, Tabled, r)
  <1>2. /\ c \in [Ids -> Data]
        /\ \A i \in Ids : i \notin Tabled => c[i] = conn[i]
    BY <1>1, PurgedLemma
  <1>3. DumpConnections(c, TRUE)
    BY DEF Finish
  <1>4. java \in [Ids -> JavaConn]
    BY DEF MemInv, TypeOK, DataTypeOK
  <1> HIDE DEF c
  <1>5. /\ conn' \in [Ids -> Data]
        /\ java' \in [Ids -> JavaConn]
        /\ \A i \in Ids : /\ Slots(conn'[i]) = 0
                          /\ (Slots(c[i]) = 0 => conn'[i] = c[i])
    BY <1>2, <1>3, <1>4, DumpLemma
  <1>6. /\ table' = [t \in Tuples |-> NoConn] /\ running' = FALSE
        /\ new_conn_id' = new_conn_id
    BY DEF Finish
  <1>7. Slots(NoData) = 0
    BY DEF Slots, NoData
  <1>8. \A i \in Ids : i >= new_conn_id => i \notin Tabled
    BY DEF MemInv, TypeOK, DataTypeOK, TableBorn, Tabled, Ids
  <1>9. TypeOK' /\ Unborn' /\ TableBorn' /\ TableSafe'
    BY <1>2, <1>5, <1>6, <1>7, <1>8
       DEF MemInv, TypeOK, DataTypeOK, Unborn, TableBorn, TableSafe
  <1>10. QED
    BY <1>5, <1>9 DEF MemInv, SlotsSafe, QueuedHasUpdate, Queued, Alive

\* Every step keeps the invariant.
LEMMA MemNext == MemInv /\ [Next]_vars => MemInv'
  <1> SUFFICES ASSUME MemInv, [Next]_vars PROVE MemInv'
    OBVIOUS
  <1>1. ASSUME NEW t \in Tuples, NEW r \in DpiResult, NEW how \in Closing,
               handle_packet(t, r, how)
        PROVE  MemInv'
    BY <1>1, MemPacket
  <1>2. ASSUME NEW r \in DpiEnd, NEW expired \in SUBSET Tabled \ {{}},
               purge_expired_connections(expired, r)
        PROVE  MemInv'
    BY <1>2, MemPurge
  <1>3. ASSUME NEW r \in DpiEnd, NEW changed \in SUBSET Tabled \ {{}},
               ReloadLists(changed, r)
        PROVE  MemInv'
    BY <1>3, MemReload
  <1>4. ASSUME NEW r \in DpiEnd, Finish(r) PROVE MemInv'
    BY <1>4, MemFinish
  <1>5. CASE UNCHANGED vars
    BY <1>5 DEF vars, MemInv, TypeOK, DataTypeOK, SlotsSafe, QueuedHasUpdate, TableSafe,
         Unborn, TableBorn, Queued, Alive
  <1>6. QED
    BY <1>1, <1>2, <1>3, <1>4, <1>5, MemDump DEF Next

(* In the root capture no array slot and no table entry ever points to     *)
(* freed data, no data is in two slots, and what purge_expired_connections *)
(* frees at once is in no slot: nothing is read after it is freed, and     *)
(* nothing is freed twice, even when dumps fail half-way.                  *)
THEOREM MemorySafety == Spec => [](TypeOK /\ SlotsSafe /\ QueuedHasUpdate /\ TableSafe)
  <1>1. MemInv => TypeOK /\ SlotsSafe /\ QueuedHasUpdate /\ TableSafe
    BY DEF MemInv
  <1>2. QED
    BY <1>1, MemInit, MemNext, PTL DEF Spec

-----------------------------------------------------------------------------
(* What Java was told, and that nothing is lost.                           *)

SyncInv == MemInv /\ (~faulted => AllTold /\ InOrder /\ NoLeak)

\* What the lemmas below conclude of one step.
InSync == AllTold /\ InOrder /\ NoLeak

\* Nothing has been told and nothing allocated.
LEMMA SyncInit == Init => SyncInv
  <1> SUFFICES ASSUME Init PROVE SyncInv
    OBVIOUS
  <1>1. AllTold
    BY DEF Init, DataInit, AllTold, Told, NoData, Ids
  <1>2. InOrder /\ NoLeak
    BY DEF Init, DataInit, InOrder, NoLeak, Alive, NoData
  <1> QED BY <1>1, <1>2, MemInit DEF SyncInv

(* A packet: a new connection is put in new_conns, and whatever the packet *)
(* changes is accounted, so that an update is to come.                     *)
LEMMA SyncPacket ==
    ASSUME MemInv, InSync, NEW t \in Tuples, NEW r \in DpiResult, NEW how \in Closing,
           handle_packet(t, r, how)
    PROVE  InSync'
  <1> DEFINE new == table[t] = NoConn
             k == IF new THEN new_conn_id ELSE table[t]
             d == IF new THEN pd_new_connection(r) ELSE conn[k]
             p == pd_process_packet(d, r)
             e == update_connection_status(p, how)
             n == pd_account_stats(e, r)
             drop == how = "dns" /\ d.status # "closed"
  <1>0. r.guess \in Proto
    BY DEF DpiResult
  <1>1. k \in Ids /\ java[k] \in JavaConn /\ new_conn_id \in Nat
    BY ConnAssumption DEF MemInv, TypeOK, DataTypeOK, handle_packet, Ids
  <1>2. d \in Data /\ d.mem = "alive" /\ SlotOK(d) /\ ~d.to_purge /\ Held(d) /\ (new => d.inNew = 1)
    BY <1>1, NewConnLemma, MemInvPerConn
       DEF MemInv, TypeOK, DataTypeOK, TableSafe, Alive, InSync, AllTold, Told
  <1>3. /\ p \in Data /\ p.mem = "alive" /\ SlotOK(p) /\ ~p.to_purge /\ p.status = d.status
        /\ p.inNew = d.inNew /\ Held(p)
    <2> HIDE DEF d
    <2> QED BY <1>2, ProcessLemma
  <1>4. /\ e \in Data /\ e.mem = "alive" /\ SlotOK(e) /\ e.inNew = d.inNew /\ Held(e)
        /\ e.to_purge => e.status = "closed"
        /\ drop => e.to_purge
    <2> HIDE DEF p
    <2> DEFINE f == [p EXCEPT !.status = "closed"]
               g == [f EXCEPT !.to_purge = p.to_purge \/ how = "dns"]
    <2>1. /\ f \in Data /\ f.mem = "alive" /\ SlotOK(f) /\ f.to_purge = p.to_purge
          /\ f.inNew = p.inNew /\ Held(f) /\ f.status = "closed"
      BY <1>3 DEF Data, Status, SlotOK, Slots, Held
    <2>2. /\ g \in Data /\ g.mem = "alive" /\ SlotOK(g) /\ g.to_purge = (p.to_purge \/ how = "dns")
          /\ g.inNew = p.inNew /\ Held(g) /\ g.status = "closed"
      <3> HIDE DEF f
      <3> QED BY <1>3, <2>1 DEF Data, SlotOK, Slots, Held
    <2>3. e = IF p.status = "closed" \/ how = "no" THEN p ELSE g
      BY <2>1 DEF update_connection_status
    <2> HIDE DEF g
    <2> QED BY <1>3, <2>2, <2>3
  <1>5. /\ n \in Data /\ n.mem = "alive" /\ n.inNew = d.inNew /\ Held(n) /\ Slots(n) > 0
        /\ "STATS" \in n.update
        /\ n.to_purge => n.status = "closed"
        /\ drop => n.to_purge
    <2> HIDE DEF e
    <2> QED BY <1>0, <1>4, AccountLemma DEF Held
  <1>6. /\ conn' = [conn EXCEPT ![k] = n]
        /\ new_conn_id' = IF new THEN new_conn_id + 1 ELSE new_conn_id
        /\ table' = [table EXCEPT ![t] = IF drop THEN NoConn ELSE k]
        /\ java' = java
        /\ conn \in [Ids -> Data] /\ table \in [Tuples -> Ids \cup {NoConn}]
    BY DEF handle_packet, MemInv, TypeOK, DataTypeOK
  <1>7. Told(n, java[k], k < new_conn_id')
    <2>1. CASE new
      <3>1. ~java[k].known /\ java[k].status = "active"
        BY <1>1, <2>1 DEF InSync, AllTold, Told
      <3> DEFINE born == k < new_conn_id'
      <3>2. born \in BOOLEAN /\ born
        BY <1>1, <1>6, <2>1
      <3> HIDE DEF n, k, d, drop, born
      <3>3. n.inNew > 0
        BY <1>2, <1>5, <2>1
      <3>4. Told(n, java[k], born)
        BY <1>1, <1>5, <3>1, <3>2, <3>3, ToldNew
      <3> QED BY <3>4 DEF born
    <2>2. CASE ~new
      <3> DEFINE born == k < new_conn_id
      <3>1. Told(d, java[k], born)
        BY <1>1, <2>2 DEF InSync, AllTold
      <3>2. born \in BOOLEAN /\ (k < new_conn_id') = born
        BY <1>6, <2>2
      <3> HIDE DEF n, d, k, born
      <3>3. Told(n, java[k], born)
        BY <1>1, <1>2, <1>5, <3>1, <3>2, ToldChange
      <3> QED BY <3>2, <3>3
    <2> QED BY <2>1, <2>2
  <1>8. \A i \in Ids \ {k} : (i < new_conn_id') = (i < new_conn_id)
    BY <1>1, <1>6 DEF Ids
  <1> HIDE DEF n, e, p, d, drop
  <1>9. AllTold'
    <2>1. ASSUME NEW i \in Ids PROVE Told(conn'[i], java'[i], i < new_conn_id')
      <3>1. CASE i = k
        BY <1>1, <1>6, <1>7, <3>1
      <3>2. CASE i # k
        <4>1. conn'[i] = conn[i] /\ java'[i] = java[i] /\ (i < new_conn_id') = (i < new_conn_id)
          BY <1>6, <1>8, <3>2
        <4>2. Told(conn[i], java[i], i < new_conn_id)
          BY DEF InSync, AllTold
        <4> QED BY <4>1, <4>2
      <3> QED BY <3>1, <3>2
    <2> QED BY <2>1 DEF AllTold
  <1>10. InOrder'
    BY <1>6 DEF InSync, InOrder
  <1>11. NoLeak'
    <2> SUFFICES ASSUME NEW i \in Ids, conn'[i].mem = "alive"
                 PROVE  i \in Tabled' \/ (Slots(conn'[i]) > 0 /\ conn'[i].to_purge)
      BY DEF NoLeak, Alive, Queued
    <2>1. CASE i = k /\ drop
      BY <1>1, <1>5, <1>6, <2>1
    <2>2. CASE i = k /\ ~drop
      <3>1. table'[t] = i /\ i # NoConn
        BY <1>1, <1>6, <2>2, RootAssumption
      <3> QED BY <3>1 DEF Tabled
    <2>3. CASE i # k
      <3>1. conn'[i] = conn[i]
        BY <1>6, <2>3
      <3>2. i \in Tabled \/ (Slots(conn[i]) > 0 /\ conn[i].to_purge)
        BY <3>1 DEF InSync, NoLeak, Alive, Queued
      <3>3. i \in Tabled => i \in Tabled'
        BY <1>6, <2>3 DEF Tabled
      <3> QED BY <3>1, <3>2, <3>3
    <2> QED BY <2>1, <2>2, <2>3
  <1> QED BY <1>9, <1>10, <1>11 DEF InSync

(* purge_expired_connections on one entry: what is freed at once has been  *)
(* reported as closed, and the rest waits in an array.                     *)
LEMMA PurgeEntryTold ==
    ASSUME NEW d \in Data, NEW r, r.guess \in Proto, d.mem = "alive", SlotOK(d), UpdateOK(d),
           NEW j \in JavaConn, NEW born \in BOOLEAN, Told(d, j, born)
    PROVE  LET n == PurgeEntry(d, r)
           IN  /\ Told(n, j, born) /\ n.status = "closed" /\ n.to_purge
               /\ n.mem = "alive" => Slots(n) > 0
  <1> DEFINE n == PurgeEntry(d, r)
  <1>1. /\ n \in Data /\ SlotOK(n) /\ UpdateOK(n)
        /\ n.inNew = d.inNew /\ n.status = "closed" /\ n.to_purge
        /\ \/ /\ n.mem = "alive" /\ d.update \subseteq n.update
              /\ "STATS" \in n.update \/ d.status = "closed"
              /\ Held(d) => Slots(n) > 0
           \/ n.mem = "freed" /\ Slots(d) = 0 /\ d.status = "closed" /\ d.update = {}
    BY PurgeEntryLemma
  <1> HIDE DEF n
  <1>2. Held(d)
    BY DEF Told
  <1>3. CASE n.mem = "alive"
    <2>1. Slots(n) > 0 /\ ("STATS" \in n.update \/ (n.status = d.status /\ d.update \subseteq n.update))
      BY <1>1, <1>2, <1>3
    <2>2. Held(n)
      BY <2>1 DEF Held
    <2>3. Told(n, j, born)
      BY <1>1, <1>3, <2>1, <2>2, ToldChange, ZenonT(20)
    <2> QED BY <1>1, <2>1, <2>3 DEF n
  <1>4. CASE n.mem = "freed"
    <2>1. Slots(d) = 0 /\ d.status = "closed" /\ d.update = {}
      BY <1>1, <1>4
    <2>2. n.inNew = 0
      BY <1>1, <2>1 DEF Slots, Data
    <2>3. born /\ j.known
      BY <1>1, <2>2 DEF Told
    <2>4. j.status = "closed"
      BY <2>1 DEF Told
    <2>5. Told(n, j, born)
      BY <1>1, <1>4, <2>2, <2>3, <2>4 DEF Told
    <2> QED BY <1>1, <1>4, <2>5 DEF n
  <1> QED BY <1>1, <1>3, <1>4

\* Expiring any set of table entries.
LEMMA PurgedTold ==
    ASSUME MemInv, InSync, NEW r, r.guess \in Proto, NEW expired \in SUBSET Tabled
    PROVE  LET c == Purged(conn, expired, r)
           IN  \A i \in Ids :
                  /\ Told(c[i], java[i], i < new_conn_id)
                  /\ i \notin expired => c[i] = conn[i]
                  /\ i \in expired => /\ c[i].status = "closed" /\ c[i].to_purge
                                      /\ c[i].mem = "alive" => Slots(c[i]) > 0
  <1> SUFFICES ASSUME NEW i \in Ids
               PROVE  LET n == IF i \in expired THEN PurgeEntry(conn[i], r) ELSE conn[i]
                      IN  /\ Told(n, java[i], i < new_conn_id)
                          /\ i \notin expired => n = conn[i]
                          /\ i \in expired => /\ n.status = "closed" /\ n.to_purge
                                              /\ n.mem = "alive" => Slots(n) > 0
    BY DEF Purged
  <1> DEFINE born == i < new_conn_id
             d == conn[i]
             j == java[i]
  <1>1. d \in Data /\ SlotOK(d) /\ UpdateOK(d) /\ j \in JavaConn /\ born \in BOOLEAN
    BY MemInvPerConn DEF MemInv, TypeOK, DataTypeOK
  <1>2. Told(d, j, born)
    BY DEF InSync, AllTold
  <1>3. i \in expired => d.mem = "alive"
    BY DEF Tabled, MemInv, TableSafe, Alive
  <1> HIDE DEF born, d, j
  <1>4. i \in expired => LET n == PurgeEntry(d, r)
                         IN  /\ Told(n, j, born) /\ n.status = "closed" /\ n.to_purge
                             /\ n.mem = "alive" => Slots(n) > 0
    BY <1>1, <1>2, <1>3, PurgeEntryTold
  <1> QED BY <1>2, <1>4 DEF born, d, j

\* The periodic purge.
LEMMA SyncPurge ==
    ASSUME MemInv, InSync, NEW r \in DpiEnd, NEW expired \in SUBSET Tabled,
           purge_expired_connections(expired, r)
    PROVE  InSync'
  <1>1. r.guess \in Proto
    BY DEF DpiEnd
  <1> DEFINE c == Purged(conn, expired, r)
  <1>2. \A i \in Ids : /\ Told(c[i], java[i], i < new_conn_id)
                       /\ i \notin expired => c[i] = conn[i]
                       /\ i \in expired => /\ c[i].status = "closed" /\ c[i].to_purge
                                           /\ c[i].mem = "alive" => Slots(c[i]) > 0
    BY <1>1, PurgedTold
  <1>3. /\ conn' = c
        /\ table' = [u \in Tuples |-> IF table[u] \in expired THEN NoConn ELSE table[u]]
        /\ new_conn_id' = new_conn_id /\ java' = java
    BY DEF purge_expired_connections
  <1> HIDE DEF c
  <1>4. AllTold' /\ InOrder'
    BY <1>2, <1>3 DEF InSync, AllTold, InOrder
  <1>5. NoLeak'
    <2> SUFFICES ASSUME NEW i \in Ids, c[i].mem = "alive"
                 PROVE  i \in Tabled' \/ (Slots(c[i]) > 0 /\ c[i].to_purge)
      BY <1>3 DEF NoLeak, Alive, Queued
    <2>1. i \in Tabled /\ i \notin expired => i \in Tabled'
      BY <1>3 DEF Tabled
    <2> QED BY <1>2, <2>1 DEF InSync, NoLeak, Alive, Queued
  <1> QED BY <1>4, <1>5 DEF InSync

\* A new list: the connections whose verdict changes are accounted.
LEMMA SyncReload ==
    ASSUME MemInv, InSync, NEW r \in DpiEnd, NEW changed \in SUBSET Tabled,
           ReloadLists(changed, r)
    PROVE  InSync'
  <1>1. r.guess \in Proto
    BY DEF DpiEnd
  <1>2. /\ conn' = [i \in Ids |-> IF i \in changed THEN pd_account_stats(conn[i], r) ELSE conn[i]]
        /\ UNCHANGED <<new_conn_id, java, table>>
    BY DEF ReloadLists
  <1>3. ASSUME NEW i \in Ids
        PROVE  Told(conn'[i], java[i], i < new_conn_id)
    <2> DEFINE born == i < new_conn_id
               d == conn[i]
               j == java[i]
               n == pd_account_stats(d, r)
    <2>1. d \in Data /\ SlotOK(d) /\ j \in JavaConn /\ born \in BOOLEAN
      BY MemInvPerConn DEF MemInv, TypeOK, DataTypeOK
    <2>2. Told(d, j, born)
      BY DEF InSync, AllTold
    <2>3. i \in changed => d.mem = "alive"
      BY DEF Tabled, MemInv, TableSafe, Alive
    <2>4. conn'[i] = IF i \in changed THEN n ELSE d
      BY <1>2
    <2> HIDE DEF born, d, j
    <2>5. i \in changed => Told(n, j, born)
      <3> SUFFICES ASSUME i \in changed PROVE Told(n, j, born)
        OBVIOUS
      <3>1. Held(d) /\ (d.to_purge => d.status = "closed")
        BY <2>2, <2>3 DEF Told
      <3>2. /\ n \in Data /\ n.mem = "alive" /\ n.to_purge = d.to_purge /\ n.status = d.status
            /\ "STATS" \in n.update /\ n.inNew = d.inNew /\ Slots(n) > 0
        BY <1>1, <2>1, <2>3, <3>1, AccountLemma
      <3>3. Held(n)
        BY <3>2 DEF Held
      <3> HIDE DEF n
      <3> QED BY <2>1, <2>2, <2>3, <3>1, <3>2, <3>3, ToldChange, ZenonT(20)
    <2> HIDE DEF n
    <2> QED BY <2>2, <2>4, <2>5 DEF born, j
  <1>4. AllTold' /\ InOrder'
    BY <1>2, <1>3 DEF InSync, AllTold, InOrder
  <1>5. NoLeak'
    <2> SUFFICES ASSUME NEW i \in Ids, conn'[i].mem = "alive"
                 PROVE  i \in Tabled \/ (Slots(conn'[i]) > 0 /\ conn'[i].to_purge)
      BY <1>2 DEF NoLeak, Alive, Queued, Tabled
    <2>1. i \notin changed => conn'[i] = conn[i]
      BY <1>2
    <2> QED BY <2>1 DEF InSync, NoLeak, Alive, Queued
  <1> QED BY <1>4, <1>5 DEF InSync

(* The dump: one that fails is recorded, one that succeeds tells Java of   *)
(* everything that is queued and frees what is to be purged.               *)
LEMMA SyncDump ==
    ASSUME MemInv, InSync, SendDumpNow, ~faulted'
    PROVE  InSync'
  <1>1. SendDump(conn, FALSE) /\ UNCHANGED <<new_conn_id, table>>
    BY DEF SendDumpNow, SendConnectionsDump, DumpConnections, FailedDump
  <1>2. DataTypeOK /\ conn \in [Ids -> Data] /\ java \in [Ids -> JavaConn]
    BY DEF MemInv, TypeOK, DataTypeOK
  <1>3. \A i \in Ids : SlotOK(conn[i]) /\ Told(conn[i], java[i], i < new_conn_id)
    BY MemInvPerConn DEF InSync, AllTold
  <1>4. /\ AllTold' /\ InOrder'
        /\ \A i \in Ids : Slots(conn[i]) > 0 /\ conn[i].to_purge => conn'[i].mem = "freed"
    BY <1>1, <1>2, <1>3, AllToldDump
  <1>5. \A i \in Ids : Slots(conn[i]) = 0 => conn'[i] = conn[i]
    BY <1>1, <1>2, DumpLemma DEF DumpConnections
  <1>6. NoLeak'
    <2> SUFFICES ASSUME NEW i \in Ids, conn'[i].mem = "alive" PROVE i \in Tabled
      BY <1>1 DEF NoLeak, Alive, Tabled
    <2>1. Slots(conn[i]) \in Nat
      BY <1>2 DEF Slots, Data
    <2>2. CASE Slots(conn[i]) = 0
      BY <1>5, <2>2 DEF InSync, NoLeak, Alive, Queued
    <2>3. CASE Slots(conn[i]) > 0
      <3>1. ~conn[i].to_purge
        BY <1>4, <2>3
      <3>2. conn[i].mem = "alive"
        BY <1>3, <2>3 DEF SlotOK
      <3> QED BY <3>1, <3>2 DEF InSync, NoLeak, Alive
    <2> QED BY <2>1, <2>2, <2>3
  <1> QED BY <1>4, <1>6 DEF InSync

(* The end of the capture: every connection has been closed, and is freed  *)
(* once the last dump has told Java.                                       *)
LEMMA SyncFinish ==
    ASSUME MemInv, InSync, NEW r \in DpiEnd, Finish(r), ~faulted'
    PROVE  InSync'
  <1>1. r.guess \in Proto
    BY DEF DpiEnd
  <1> DEFINE c == Purged(conn, Tabled, r)
  <1>2. \A i \in Ids : /\ Told(c[i], java[i], i < new_conn_id)
                       /\ i \notin Tabled => c[i] = conn[i]
                       /\ i \in Tabled => /\ c[i].status = "closed" /\ c[i].to_purge
                                          /\ c[i].mem = "alive" => Slots(c[i]) > 0
    BY <1>1, PurgedTold
  <1>3. c \in [Ids -> Data] /\ \A i \in Ids : SlotOK(c[i])
    BY <1>1, PurgedLemma
  <1>4. SendDump(c, TRUE) /\ new_conn_id' = new_conn_id
    BY DEF Finish, DumpConnections, FailedDump
  <1>5. DataTypeOK /\ java \in [Ids -> JavaConn]
    BY DEF MemInv, TypeOK, DataTypeOK
  <1> HIDE DEF c
  <1>6. \A i \in Ids : c[i].mem = "alive" => Slots(c[i]) > 0 /\ c[i].to_purge
    BY <1>2 DEF InSync, NoLeak, Alive, Queued
  <1>7. \A i \in Ids : Slots(c[i]) > 0 => c[i].status = "closed"
    BY <1>2, <1>3, <1>6 DEF SlotOK, Told
  <1>8. /\ AllTold' /\ InOrder'
        /\ \A i \in Ids : Slots(c[i]) > 0 => conn'[i].mem = "freed"
    BY <1>2, <1>3, <1>4, <1>5, <1>7, AllToldDump
  <1>9. \A i \in Ids : Slots(c[i]) = 0 => conn'[i] = c[i]
    BY <1>3, <1>4, <1>5, DumpLemma DEF DumpConnections
  <1>10. NoLeak'
    <2> SUFFICES ASSUME NEW i \in Ids, conn'[i].mem = "alive" PROVE FALSE
      BY DEF NoLeak, Alive
    <2>1. Slots(c[i]) \in Nat
      BY <1>3 DEF Slots, Data
    <2> QED BY <1>6, <1>8, <1>9, <2>1
  <1> QED BY <1>8, <1>10 DEF InSync

\* Every step keeps Java in sync, unless it fails.
LEMMA SyncNext == SyncInv /\ [Next]_vars => SyncInv'
  <1> SUFFICES ASSUME SyncInv, [Next]_vars, ~faulted' PROVE InSync'
    BY MemNext DEF SyncInv, InSync
  <1>1. ~faulted
    BY DEF Next, vars, handle_packet, purge_expired_connections, ReloadLists, SendDumpNow,
           SendConnectionsDump, Finish, DumpConnections, SendDump, FailedDump
  <1>2. MemInv /\ InSync
    BY <1>1 DEF SyncInv, InSync
  <1>3. ASSUME NEW t \in Tuples, NEW r \in DpiResult, NEW how \in Closing, handle_packet(t, r, how)
        PROVE  InSync'
    BY <1>2, <1>3, SyncPacket
  <1>4. ASSUME NEW r \in DpiEnd, NEW expired \in SUBSET Tabled \ {{}},
               purge_expired_connections(expired, r)
        PROVE  InSync'
    BY <1>2, <1>4, SyncPurge
  <1>5. ASSUME NEW r \in DpiEnd, NEW changed \in SUBSET Tabled \ {{}}, ReloadLists(changed, r)
        PROVE  InSync'
    BY <1>2, <1>5, SyncReload
  <1>6. CASE SendDumpNow
    BY <1>2, <1>6, SyncDump
  <1>7. ASSUME NEW r \in DpiEnd, Finish(r) PROVE InSync'
    BY <1>2, <1>7, SyncFinish
  <1>8. CASE UNCHANGED vars
    BY <1>2, <1>8 DEF vars, InSync, AllTold, InOrder, NoLeak, Tabled, Alive, Queued
  <1> QED BY <1>3, <1>4, <1>5, <1>6, <1>7, <1>8 DEF Next

(* In the root capture Java learns of the connections in order and without *)
(* gaps, has their status unless an update is pending, and knows that a    *)
(* connection is closed before its data is released.                       *)
(* It holds until a JNI call fails in sendConnectionsDump.                 *)
THEOREM JavaTold == Spec => []JavaInSync
  <1>1. SyncInv => JavaInSync
    BY ToldInSync DEF SyncInv, MemInv, TypeOK
  <1> QED BY <1>1, SyncInit, SyncNext, PTL DEF Spec

(* In the root capture no data of a connection is lost: what is alive is   *)
(* in the connections table, or waits in a queue for the dump that purges  *)
(* it.                                                                     *)
(* It holds until a JNI call fails in sendConnectionsDump.                 *)
THEOREM NothingLeaks == Spec => []NoLeakUnlessFaulted
  <1>1. SyncInv => NoLeakUnlessFaulted
    BY DEF SyncInv, NoLeakUnlessFaulted
  <1> QED BY <1>1, SyncInit, SyncNext, PTL DEF Spec

-----------------------------------------------------------------------------
\* A packet changes no closed connection but for its statistics.
LEMMA KeepsPacket ==
    ASSUME MemInv, ClosedForGood, NEW t \in Tuples, NEW r \in DpiResult, NEW how \in Closing,
           handle_packet(t, r, how)
    PROVE  ClosedForGood' /\ java' = java
  <1> DEFINE new == table[t] = NoConn
             k == IF new THEN new_conn_id ELSE table[t]
             d == IF new THEN pd_new_connection(r) ELSE conn[k]
             p == pd_process_packet(d, r)
             e == update_connection_status(p, how)
             n == pd_account_stats(e, r)
  <1>0. r.guess \in Proto
    BY DEF DpiResult
  <1>1. k \in Ids /\ (new => conn[k] = NoData) /\ conn \in [Ids -> Data]
    BY ConnAssumption DEF MemInv, TypeOK, DataTypeOK, handle_packet, Ids, Unborn
  <1>2. d \in Data /\ d.mem = "alive" /\ SlotOK(d)
    BY <1>1, NewConnLemma, MemInvPerConn DEF MemInv, TypeOK, DataTypeOK, TableSafe, Alive
  <1>3. p \in Data /\ p.mem = "alive" /\ SlotOK(p) /\ p.status = d.status
    <2> HIDE DEF d
    <2> QED BY <1>2, ProcessLemma
  <1>4. d.status = "closed" => n.status = "closed"
    <2> SUFFICES ASSUME d.status = "closed" PROVE n.status = "closed"
      OBVIOUS
    <2> HIDE DEF p, d
    <2>1. e = p
      BY <1>3 DEF update_connection_status
    <2> HIDE DEF e
    <2> QED BY <1>0, <1>3, <2>1, AccountLemma
  <1>5. conn' = [conn EXCEPT ![k] = n] /\ java' = java
    BY DEF handle_packet
  <1>6. java[k].status = "closed" => n.status = "closed"
    BY <1>1, <1>4 DEF ClosedForGood, NoData
  <1> HIDE DEF n, k
  <1> QED BY <1>1, <1>5, <1>6 DEF ClosedForGood

\* Expiring connections closes them.
LEMMA PurgedCloses ==
    ASSUME MemInv, NEW r, r.guess \in Proto, NEW expired \in SUBSET Tabled
    PROVE  LET c == Purged(conn, expired, r)
           IN  \A i \in Ids : c[i].status \in {conn[i].status, "closed"}
  <1> SUFFICES ASSUME NEW i \in Ids, i \in expired
               PROVE  PurgeEntry(conn[i], r).status = "closed"
    BY DEF Purged
  <1>1. conn[i] \in Data /\ SlotOK(conn[i]) /\ UpdateOK(conn[i]) /\ conn[i].mem = "alive"
    BY MemInvPerConn DEF MemInv, TypeOK, DataTypeOK, Tabled, TableSafe, Alive
  <1> QED BY <1>1, PurgeEntryLemma

\* No step brings a connection back.
LEMMA KeepsNext == MemInv /\ ClosedForGood /\ [Next]_vars => ClosedForGood' /\ [JavaKeeps]_java
  <1> SUFFICES ASSUME MemInv, ClosedForGood, [Next]_vars
               PROVE  ClosedForGood' /\ (JavaKeeps \/ java' = java)
    OBVIOUS
  <1>0. conn \in [Ids -> Data] /\ java \in [Ids -> JavaConn]
    BY DEF MemInv, TypeOK, DataTypeOK
  <1>1. ASSUME NEW t \in Tuples, NEW r \in DpiResult, NEW how \in Closing, handle_packet(t, r, how)
        PROVE  ClosedForGood' /\ java' = java
    BY <1>1, KeepsPacket
  <1>2. ASSUME NEW r \in DpiEnd, NEW expired \in SUBSET Tabled \ {{}},
               purge_expired_connections(expired, r)
        PROVE  ClosedForGood' /\ java' = java
    <2>1. conn' = Purged(conn, expired, r) /\ java' = java
      BY <1>2 DEF purge_expired_connections
    <2>2. r.guess \in Proto
      BY DEF DpiEnd
    <2> QED BY <2>1, <2>2, PurgedCloses DEF ClosedForGood
  <1>3. ASSUME NEW r \in DpiEnd, NEW changed \in SUBSET Tabled \ {{}}, ReloadLists(changed, r)
        PROVE  ClosedForGood' /\ java' = java
    <2>1. /\ conn' = [i \in Ids |-> IF i \in changed
                                    THEN pd_account_stats(conn[i], r) ELSE conn[i]]
          /\ java' = java
      BY <1>3 DEF ReloadLists
    <2>2. ASSUME NEW i \in Ids, i \in changed
          PROVE  pd_account_stats(conn[i], r).status = conn[i].status
      <3>1. conn[i] \in Data /\ SlotOK(conn[i]) /\ conn[i].mem = "alive"
        BY <2>2, MemInvPerConn DEF MemInv, TypeOK, DataTypeOK, Tabled, TableSafe, Alive
      <3>2. r.guess \in Proto
        BY DEF DpiEnd
      <3> QED BY <3>1, <3>2, AccountLemma
    <2> QED BY <2>1, <2>2 DEF ClosedForGood
  <1>4. CASE SendDumpNow
    <2>1. DumpConnections(conn, FALSE)
      BY <1>4 DEF SendDumpNow, SendConnectionsDump
    <2> QED BY <1>0, <2>1, KeepsDump DEF ClosedForGood
  <1>5. ASSUME NEW r \in DpiEnd, Finish(r) PROVE ClosedForGood' /\ JavaKeeps
    <2> DEFINE c == Purged(conn, Tabled, r)
    <2>1. r.guess \in Proto /\ DumpConnections(c, TRUE)
      BY <1>5 DEF DpiEnd, Finish
    <2>2. c \in [Ids -> Data] /\ \A i \in Ids : c[i].status \in {conn[i].status, "closed"}
      BY <2>1, PurgedLemma, PurgedCloses
    <2> HIDE DEF c
    <2> QED BY <1>0, <2>1, <2>2, KeepsDump DEF ClosedForGood
  <1>6. CASE UNCHANGED vars
    BY <1>6 DEF vars, ClosedForGood
  <1> QED BY <1>1, <1>2, <1>3, <1>4, <1>5, <1>6 DEF Next

(* In the root capture Java never sees a closed connection become active   *)
(* again, nor forgets one, even when dumps fail half-way: a closed         *)
(* connection that still gets packets is reported as closed.               *)
THEOREM JavaNeverReopens == Spec => JavaMonotone
  <1>1. Init => ClosedForGood
    BY DEF Init, DataInit, ClosedForGood
  <1>2. MemInv /\ ClosedForGood /\ [Next]_vars =>
          [\A i \in Ids : /\ java[i].known => java'[i].known
                          /\ java[i].status = "closed" => java'[i].status = "closed"]_java
    BY KeepsNext DEF JavaKeeps
  <1> QED BY <1>1, <1>2, MemInit, MemNext, KeepsNext, PTL DEF Spec, JavaMonotone

-----------------------------------------------------------------------------
(* The daemons.                                                            *)

(* The interface of a daemon.  What may be open or polled, the records of  *)
(* iface, and the state that the functions of pcapd.c work on: it has a    *)
(* pcap_t exactly while an interface is open.                              *)
Link == Links \cup Modes \cup {NULL}
Iface == [pd : Link, sel : Link, reopened : BOOLEAN]

Sound(s) ==
    /\ s \in [i : Iface, n : 0..1, failed : BOOLEAN]
    /\ s.n = IF s.i.pd = NULL THEN 0 ELSE 1

\* What is polled is what is open, unless the recheck has just opened it.
Polled(s) == s.i.sel = IF s.i.reopened THEN NULL ELSE s.i.pd

(* The inductive invariant of the interfaces: before its loop a daemon has *)
(* none.                                                                   *)
IfaceInv ==
    /\ iface \in [Sessions -> Iface] /\ handles \in [Sessions -> 0..1]
    /\ DOMAIN nl = Sessions
    /\ \A d \in Sessions :
          st[d] \in {"none", "forked", "ready", "linked", "opening"} => iface[d].pd = NULL

(* The inductive invariant of the daemons.  Only a capture that waits for  *)
(* its daemon has a queue, and every daemon in it, as every one that may   *)
(* still connect, is the one of the capture, unless one was missed.        *)
ClientInv ==
    /\ app \in {"idle", "killed", "bound", "waiting", "exiting"} => client = NULL
    /\ sockpath # NULL => app \in {"bound", "waiting", "closing"}
    /\ "missed" \notin odd =>
         /\ app # "idle" => \A d \in Sessions : Unconnected(d) => d = session
         /\ app \in {"killed", "bound"} \/ (app = "closing" /\ sockpath # NULL) =>
               \A d \in Sessions : ~Unconnected(d)
         /\ queue # <<>> => app = "waiting"
         /\ \A i \in 1..Len(queue) : queue[i] = session
         /\ client # NULL => client = session

(* The pid file: only a daemon that was started, and is no child, writes   *)
(* it; the one of the capture is not started before the spawn.             *)
PidInv ==
    /\ PidIsAlive
    /\ mode = "file" => pidfile = NULL
    /\ pidfile # NULL => st[pidfile] # "none"
    /\ app \in {"killed", "bound"} => st[session] = "none"

\* The rules are there only between their addition and the cleanup, which knows of them.
IptablesInv ==
    /\ app \notin {"rules", "running", "closing"} => rules = 0
    /\ rules > 0 => iptables_cleanup

PcapdInv ==
    /\ PcapdTypeOK /\ IfaceInv /\ SelectsOpenInterface /\ HandlesAccounted
    /\ ClientInv /\ PidInv /\ IptablesInv

\* Nothing is started, open or written.
LEMMA PcapdStart == PcapdInit => PcapdInv
  <1> SUFFICES ASSUME PcapdInit PROVE PcapdInv
    OBVIOUS
  <1> USE PcapdAssumption
  <1>1. PcapdTypeOK
    <2>1. session \in Sessions /\ rules \in 0..NumRules /\ changes \in 0..MaxChanges
      BY DEF PcapdInit, Sessions
    <2>2. queue \in Seq(Sessions) /\ odd \subseteq Events
      BY DEF PcapdInit
    <2>3. st \in [Sessions -> {"none", "forked", "ready", "linked", "opening", "loop", "spin", "ending", "ended"}]
      BY DEF PcapdInit
    <2>4. \A d \in Sessions : handles[d] \in 0..1
      BY DEF PcapdInit
    <2>5. route \in Links \cup {NULL}
      BY DEF PcapdInit
    <2> QED BY <2>1, <2>2, <2>3, <2>4, <2>5 DEF PcapdInit, PcapdTypeOK
  <1>2. IfaceInv /\ SelectsOpenInterface /\ HandlesAccounted
    BY DEF PcapdInit, IfaceInv, SelectsOpenInterface, HandlesAccounted, Iface, Link, Closed
  <1>3. ClientInv /\ PidInv /\ IptablesInv
    BY DEF PcapdInit, ClientInv, PidInv, PidIsAlive, IptablesInv, Unconnected
  <1> QED BY <1>1, <1>2, <1>3 DEF PcapdInv

-----------------------------------------------------------------------------
(* What the functions of pcapd.c do to an interface.                       *)

\* The state of a daemon that is waiting or polling is sound.
LEMMA StateSound ==
    ASSUME PcapdTypeOK, IfaceInv, HandlesAccounted, NEW d \in Sessions
    PROVE  Sound(State(d))
  <1>1. iface[d] \in Iface /\ handles[d] \in 0..1
    BY DEF IfaceInv
  <1> QED BY <1>1 DEF Sound, State, HandlesAccounted

\* close_interface closes the pcap_t with the interface.
LEMMA CloseSound ==
    ASSUME NEW s, Sound(s)
    PROVE  LET t == close_interface(s)
           IN  Sound(t) /\ t.i.pd = NULL /\ (Polled(s) => Polled(t)) /\ t.failed = s.failed
  <1>1. CASE s.i.pd = NULL
    BY <1>1 DEF close_interface, Sound
  <1>2. CASE s.i.pd # NULL
    <2>1. Closed \in Iface /\ Closed.pd = NULL /\ Closed.sel = NULL /\ ~Closed.reopened
      BY DEF Closed, Iface, Link
    <2>2. close_interface(s) = [s EXCEPT !.i = Closed, !.n = s.n - 1]
      BY <1>2 DEF close_interface
    <2>3. s.n - 1 = 0
      BY <1>2 DEF Sound
    <2>4. close_interface(s) = [i |-> Closed, n |-> 0, failed |-> s.failed]
      BY <2>2, <2>3 DEF Sound
    <2>5. Sound(close_interface(s)) /\ close_interface(s).i = Closed
      BY <2>1, <2>4 DEF Sound
    <2>6. close_interface(s).failed = s.failed
      BY <2>4
    <2>7. Polled(close_interface(s))
      BY <2>1, <2>5 DEF Polled
    <2> QED BY <2>1, <2>5, <2>6, <2>7
  <1> QED BY <1>1, <1>2

\* check_inet_interface closes the old interface when the new one is open.
LEMMA InetSound ==
    ASSUME PcapdTypeOK, NEW s, Sound(s), NEW opens \in BOOLEAN
    PROVE  LET t == check_inet_interface(s, opens)
           IN  Sound(t) /\ t.i.sel = s.i.sel /\ t.i.reopened = s.i.reopened
  <1>1. route \in Link
    BY DEF PcapdTypeOK, Link
  <1>2. CASE route = NULL \/ route = s.i.pd \/ ~opens
    BY <1>2 DEF check_inet_interface, Sound
  <1>3. CASE route # NULL /\ route # s.i.pd /\ opens
    <2> DEFINE i == [s.i EXCEPT !.pd = route]
               t == check_inet_interface(s, opens)
    <2>1. i \in Iface /\ i.pd = route /\ i.sel = s.i.sel /\ i.reopened = s.i.reopened
      BY <1>1 DEF Sound, Iface
    <2>2. t = [s EXCEPT !.i = i, !.n = s.n + 1 - (IF s.i.pd = NULL THEN 0 ELSE 1)]
      BY <1>3 DEF check_inet_interface, Sound
    <2>3. s.n + 1 - (IF s.i.pd = NULL THEN 0 ELSE 1) = 1
      BY DEF Sound
    <2> HIDE DEF i, t
    <2>4. t = [i |-> i, n |-> 1, failed |-> s.failed]
      BY <2>2, <2>3 DEF Sound
    <2>5. Sound(t) /\ t.i = i
      BY <1>3, <2>1, <2>4 DEF Sound
    <2> QED BY <2>1, <2>5 DEF t
  <1> QED BY <1>2, <1>3

\* get_selectable_fds polls what is open.
LEMMA SelectSound ==
    ASSUME NEW s, Sound(s)
    PROVE  LET t == get_selectable_fds(s)
           IN  Sound(t) /\ Polled(t) /\ t.i.pd = s.i.pd
  <1> DEFINE i == [s.i EXCEPT !.sel = s.i.pd, !.reopened = FALSE]
             t == get_selectable_fds(s)
  <1>1. i \in Iface /\ i.pd = s.i.pd /\ i.sel = s.i.pd /\ i.reopened = FALSE
    BY DEF Sound, Iface
  <1>2. t = [s EXCEPT !.i = i]
    BY DEF get_selectable_fds, Sound
  <1> HIDE DEF i, t
  <1>3. t = [i |-> i, n |-> s.n, failed |-> s.failed]
    BY <1>2 DEF Sound
  <1>4. Sound(t) /\ t.i = i
    BY <1>1, <1>3 DEF Sound
  <1>5. Polled(t) /\ t.i.pd = s.i.pd
    BY <1>1, <1>4 DEF Polled
  <1> QED BY <1>4, <1>5 DEF t

\* What the recheck opens is marked as not polled.
LEMMA RecheckSound ==
    ASSUME PcapdTypeOK, NEW s, Sound(s), Polled(s), NEW now \in BOOLEAN, NEW opens \in BOOLEAN
    PROVE  LET t == Recheck(s, now, opens)
           IN  Sound(t) /\ Polled(t)
  <1>1. CASE ~(mode = "inet" /\ s.i.pd = NULL /\ now)
    BY <1>1 DEF Recheck
  <1>2. CASE mode = "inet" /\ s.i.pd = NULL /\ now
    <2> DEFINE c == check_inet_interface(s, opens)
               i == [c.i EXCEPT !.reopened = @ \/ c.i.pd # NULL]
               t == Recheck(s, now, opens)
    <2>1. Sound(c) /\ c.i.sel = s.i.sel /\ c.i.reopened = s.i.reopened
      BY InetSound
    <2>2. s.i.sel = NULL
      BY <1>2 DEF Polled
    <2>3. t = [c EXCEPT !.i.reopened = @ \/ c.i.pd # NULL]
      BY <1>2 DEF Recheck
    <2> HIDE DEF c, t
    <2>4. /\ i \in Iface /\ i.pd = c.i.pd /\ i.sel = c.i.sel
          /\ i.reopened = (c.i.reopened \/ c.i.pd # NULL)
      BY <2>1 DEF Sound, Iface
    <2>5. t = [c EXCEPT !.i = i]
      BY <2>1, <2>3 DEF Sound
    <2> HIDE DEF i
    <2>6. Sound(t) /\ t.i = i
      BY <2>1, <2>4, <2>5 DEF Sound
    <2>7. Polled(t)
      BY <2>1, <2>2, <2>4, <2>6 DEF Polled
    <2> QED BY <2>6, <2>7 DEF t
  <1> QED BY <1>1, <1>2

\* So does a netlink message, whichever it is.
LEMMA NetlinkSound ==
    ASSUME PcapdTypeOK, NEW s, Sound(s), NEW msg, NEW opens \in BOOLEAN
    PROVE  Sound(handle_nl_message(s, msg, opens))
  BY InetSound, CloseSound DEF handle_nl_message

-----------------------------------------------------------------------------
(* The interfaces are kept by every step.                                  *)
IfaceKept == IfaceInv /\ SelectsOpenInterface /\ HandlesAccounted

\* A step that leaves the interfaces alone, and starts no loop.
LEMMA SameIfaces ==
    ASSUME PcapdInv, UNCHANGED <<iface, handles>>, DOMAIN nl' = Sessions,
           \A e \in Sessions : \/ st'[e] = st[e]
                               \/ st'[e] # "loop" /\ iface[e].pd = NULL
                               \/ st'[e] \in {"spin", "ending"}
    PROVE  IfaceKept'
  BY DEF PcapdInv, IfaceKept, IfaceInv, SelectsOpenInterface, HandlesAccounted

\* A step by which the interface of one daemon becomes a sound one.
LEMMA NewIface ==
    ASSUME PcapdInv, NEW d \in Sessions, NEW s, Sound(s),
           iface' = [iface EXCEPT ![d] = s.i], handles' = [handles EXCEPT ![d] = s.n],
           DOMAIN nl' = Sessions,
           \A e \in Sessions \ {d} : st'[e] = st[e],
           \/ st'[d] = "loop" /\ Polled(s)
           \/ st'[d] \in {"ending", "ended"}
    PROVE  IfaceKept'
  <1>1. s.i \in Iface /\ s.n \in 0..1 /\ s.n = IF s.i.pd = NULL THEN 0 ELSE 1
    BY DEF Sound
  <1>2. iface' \in [Sessions -> Iface] /\ handles' \in [Sessions -> 0..1]
    BY <1>1 DEF PcapdInv, IfaceInv
  <1>3. iface'[d] = s.i /\ handles'[d] = s.n
    BY DEF PcapdInv, IfaceInv
  <1>4. \A e \in Sessions \ {d} : iface'[e] = iface[e] /\ handles'[e] = handles[e]
    BY DEF PcapdInv, IfaceInv
  <1>5. HandlesAccounted'
    BY <1>1, <1>3, <1>4 DEF PcapdInv, HandlesAccounted
  <1>6. SelectsOpenInterface'
    BY <1>3, <1>4 DEF PcapdInv, SelectsOpenInterface, Polled
  <1>7. IfaceInv'
    BY <1>2, <1>3, <1>4 DEF PcapdInv, IfaceInv
  <1> QED BY <1>5, <1>6, <1>7 DEF IfaceKept

\* A process that ends has no interface.
LEMMA EndedIface ==
    ASSUME PcapdInv, NEW d \in Sessions, Ended(d)
    PROVE  IfaceKept' /\ \A e \in Sessions : st'[e] = IF e = d THEN "ended" ELSE st[e]
  <1> DEFINE s == [i |-> Closed, n |-> 0, failed |-> FALSE]
  <1>1. Sound(s) /\ s.i = Closed /\ s.n = 0
    BY DEF Sound, Closed, Iface, Link
  <1>2. \A e \in Sessions : st'[e] = IF e = d THEN "ended" ELSE st[e]
    BY DEF PcapdInv, PcapdTypeOK, Ended
  <1>3. DOMAIN nl' = Sessions
    BY DEF PcapdInv, IfaceInv, Ended
  <1> HIDE DEF s
  <1>4. iface' = [iface EXCEPT ![d] = s.i] /\ handles' = [handles EXCEPT ![d] = s.n]
    BY <1>1 DEF Ended
  <1> QED BY <1>1, <1>2, <1>3, <1>4, NewIface

\* Neither has one that is signalled.
LEMMA SignalledIface ==
    ASSUME PcapdInv, NEW d \in Sessions, Signalled(d)
    PROVE  /\ IfaceKept'
           /\ \A e \in Sessions \ {d} : st'[e] = st[e]
           /\ st'[d] \in {"spin", "ending", "ended"}
  <1>1. CASE st[d] \in {"spin", "ending"}
    <2>1. UNCHANGED daemons
      BY <1>1 DEF Signalled
    <2> QED BY <1>1, <2>1 DEF daemons, PcapdInv, IfaceKept, IfaceInv, SelectsOpenInterface, HandlesAccounted
  <1>2. CASE st[d] = "loop"
    <2>1. st' = [st EXCEPT ![d] = "ending"] /\ UNCHANGED <<iface, handles, nl>>
      BY <1>2 DEF Signalled
    <2>2. \A e \in Sessions : st'[e] = IF e = d THEN "ending" ELSE st[e]
      BY <2>1 DEF PcapdInv, PcapdTypeOK
    <2>3. DOMAIN nl' = Sessions
      BY <2>1 DEF PcapdInv, IfaceInv
    <2> QED BY <2>1, <2>2, <2>3, SameIfaces
  <1>3. CASE st[d] \notin {"spin", "ending", "loop"}
    <2>1. Ended(d)
      BY <1>3 DEF Signalled
    <2> QED BY <2>1, EndedIface
  <1> QED BY <1>1, <1>2, <1>3

\* The steps of the app.
LEMMA AppIface ==
    ASSUME PcapdInv,
           KillOld \/ App \/ stopPacketLoop \/ AppKilled \/ RouteChanges \/ UNCHANGED pcapdVars
    PROVE  IfaceKept'
  <1> USE DEF PcapdInv
  <1>1. CASE KillOld
    <2>1. CASE pidfile # NULL
      <3>1. pidfile \in Sessions /\ Signalled(pidfile)
        BY <1>1, <2>1 DEF KillOld, PcapdTypeOK
      <3> QED BY <3>1, SignalledIface
    <2>2. CASE pidfile = NULL
      BY <1>1, <2>2 DEF KillOld, daemons, IfaceKept, IfaceInv, SelectsOpenInterface, HandlesAccounted
    <2> QED BY <2>1, <2>2
  <1>2. CASE Spawn
    <2>1. iface[session].pd = NULL /\ session \in Sessions
      BY <1>2 DEF Spawn, PidInv, IfaceInv, PcapdTypeOK
    <2>2. \A e \in Sessions : st'[e] = st[e] \/ (e = session /\ st'[e] = "forked")
      BY <1>2 DEF Spawn, PcapdTypeOK
    <2>3. UNCHANGED <<iface, handles>> /\ DOMAIN nl' = Sessions
      BY <1>2 DEF Spawn, IfaceInv
    <2> QED BY <2>1, <2>2, <2>3, SameIfaces
  <1>3. CASE GiveUp
    <2>1. CASE Daemonize
      BY <1>3, <2>1 DEF GiveUp, daemons, IfaceKept, IfaceInv, SelectsOpenInterface, HandlesAccounted
    <2>2. CASE ~Daemonize
      <3>1. session \in Sessions /\ Ended(session)
        BY <1>3, <2>2 DEF GiveUp, PcapdTypeOK
      <3> QED BY <3>1, EndedIface
    <2> QED BY <2>1, <2>2
  <1>4. CASE RouteChanges
    <2>1. DOMAIN nl' = Sessions /\ UNCHANGED <<st, iface, handles>>
      BY <1>4 DEF RouteChanges, Notified
    <2> QED BY <2>1, SameIfaces
  <1>5. CASE \/ Bind \/ Accept \/ AddRule \/ LoopEnds \/ Cleanup \/ Exited
             \/ stopPacketLoop \/ AppKilled \/ UNCHANGED pcapdVars
    <2>1. UNCHANGED daemons
      BY <1>5 DEF Bind, Accept, AddRule, LoopEnds, Cleanup, Exited, stopPacketLoop, AppKilled, pcapdVars
    <2> QED BY <2>1 DEF daemons, IfaceKept, IfaceInv, SelectsOpenInterface, HandlesAccounted
  <1> QED BY <1>1, <1>2, <1>3, <1>4, <1>5 DEF App

\* The steps of a daemon.
LEMMA DaemonIface ==
    ASSUME PcapdInv, NEW d \in Sessions, Daemon(d) \/ Reads(d)
    PROVE  IfaceKept'
  <1> USE DEF PcapdInv
  <1>1. Sound(State(d)) /\ State(d).i = iface[d] /\ State(d).n = handles[d]
    BY StateSound DEF State
  <1>2. st[d] = "loop" => Polled(State(d))
    BY <1>1 DEF SelectsOpenInterface, Polled
  <1>3. \A to : st' = [st EXCEPT ![d] = to] => \A e \in Sessions : st'[e] = IF e = d THEN to ELSE st[e]
    BY DEF PcapdTypeOK
  <1>4. CASE create_pid_file(d) \/ Connect(d) \/ UnlinkSocket(d)
    <2>1. UNCHANGED <<iface, handles, nl>>
      BY <1>4 DEF create_pid_file, Connect, UnlinkSocket
    <2>2. st[d] \in {"forked", "ready", "linked"} /\ iface[d].pd = NULL
      BY <1>4 DEF create_pid_file, Connect, UnlinkSocket, Step, IfaceInv
    <2>3. \E to : to # "loop" /\ st' = [st EXCEPT ![d] = to]
      BY <1>4 DEF create_pid_file, Connect, UnlinkSocket, Step
    <2>4. DOMAIN nl' = Sessions
      BY <2>1 DEF IfaceInv
    <2> QED BY <1>3, <2>1, <2>2, <2>3, <2>4, SameIfaces
  <1>5. CASE LoopBreaks(d) \/ ReadSpins(d) \/ ReadEnds(d)
    <2>1. UNCHANGED <<iface, handles, nl>>
      BY <1>5 DEF LoopBreaks, ReadSpins, ReadEnds
    <2>2. \E to \in {"spin", "ending"} : st' = [st EXCEPT ![d] = to]
      BY <1>5 DEF LoopBreaks, ReadSpins, ReadEnds, Step
    <2>3. DOMAIN nl' = Sessions
      BY <2>1 DEF IfaceInv
    <2> QED BY <1>3, <2>1, <2>2, <2>3, SameIfaces
  <1>6. CASE OpenInterface(d)
    <2>1. PICK opens \in BOOLEAN :
            LET s == IF mode = "inet" THEN check_inet_interface(State(d), opens)
                     ELSE IF opens THEN [State(d) EXCEPT !.i.pd = mode, !.n = 1] ELSE State(d)
            IN  /\ Step(d, "opening", IF mode # "inet" /\ ~opens THEN "ending" ELSE "loop")
                /\ Becomes(d, get_selectable_fds(s))
                /\ UNCHANGED nl
      BY <1>6 DEF OpenInterface
    <2> DEFINE s == IF mode = "inet" THEN check_inet_interface(State(d), opens)
                    ELSE IF opens THEN [State(d) EXCEPT !.i.pd = mode, !.n = 1] ELSE State(d)
               i == [State(d).i EXCEPT !.pd = mode]
    <2>2. i \in Iface /\ i.pd = mode /\ mode # NULL
      BY <1>1, PcapdAssumption DEF Sound, Iface, Link, PcapdTypeOK
    <2>3. Sound(s)
      <3>1. CASE mode = "inet"
        BY <1>1, <3>1, InetSound
      <3>2. CASE mode # "inet" /\ opens
        <4>1. s = [i |-> i, n |-> 1, failed |-> FALSE]
          BY <1>1, <3>2 DEF State, Sound
        <4> HIDE DEF i, s
        <4> QED BY <2>2, <4>1 DEF Sound
      <3>3. CASE mode # "inet" /\ ~opens
        BY <1>1, <3>3
      <3> QED BY <3>1, <3>2, <3>3
    <2> DEFINE t == get_selectable_fds(s)
    <2>4. Sound(t) /\ Polled(t)
      BY <2>3, SelectSound
    <2>5. \E to \in {"ending", "loop"} : st' = [st EXCEPT ![d] = to]
      BY <2>1 DEF Step
    <2>6. iface' = [iface EXCEPT ![d] = t.i] /\ handles' = [handles EXCEPT ![d] = t.n]
      BY <2>1 DEF Becomes
    <2>7. DOMAIN nl' = Sessions
      BY <2>1 DEF IfaceInv
    <2> HIDE DEF t
    <2> QED BY <1>3, <2>4, <2>5, <2>6, <2>7, NewIface
  <1>7. CASE LoopNetlink(d)
    <2>1. DOMAIN nl' = Sessions /\ st[d] = "loop"
      BY <1>7 DEF LoopNetlink, IfaceInv, Polls
    <2>2. CASE Step(d, "loop", "ending") /\ UNCHANGED <<iface, handles, odd>>
      BY <1>3, <2>1, <2>2, SameIfaces DEF Step
    <2>3. ASSUME NEW now \in BOOLEAN, NEW opens \in BOOLEAN, UNCHANGED st,
                 Becomes(d, Recheck(get_selectable_fds(handle_nl_message(State(d), Head(nl[d]), opens)), now, opens))
          PROVE  IfaceKept'
      <3> DEFINE h == handle_nl_message(State(d), Head(nl[d]), opens)
                 g == get_selectable_fds(h)
                 t == Recheck(g, now, opens)
      <3>1. Sound(h)
        BY <1>1, NetlinkSound
      <3>2. Sound(g) /\ Polled(g)
        BY <3>1, SelectSound
      <3>3. Sound(t) /\ Polled(t)
        BY <3>2, RecheckSound
      <3>4. iface' = [iface EXCEPT ![d] = t.i] /\ handles' = [handles EXCEPT ![d] = t.n]
        BY <2>3 DEF Becomes
      <3> HIDE DEF t
      <3> QED BY <2>1, <2>3, <3>3, <3>4, NewIface
    <2> QED BY <1>7, <2>2, <2>3 DEF LoopNetlink
  <1>8. CASE LoopRechecks(d)
    <2>1. DOMAIN nl' = Sessions /\ st[d] = "loop" /\ UNCHANGED st
      BY <1>8 DEF LoopRechecks, IfaceInv, Polls
    <2>2. PICK opens \in BOOLEAN : Becomes(d, Recheck(State(d), TRUE, opens))
      BY <1>8 DEF LoopRechecks
    <2> DEFINE t == Recheck(State(d), TRUE, opens)
    <2>3. Sound(t) /\ Polled(t)
      BY <1>1, <1>2, <2>1, RecheckSound
    <2>4. iface' = [iface EXCEPT ![d] = t.i] /\ handles' = [handles EXCEPT ![d] = t.n]
      BY <2>2 DEF Becomes
    <2> HIDE DEF t
    <2> QED BY <2>1, <2>3, <2>4, NewIface
  <1>9. CASE ReadFails(d)
    <2>1. DOMAIN nl' = Sessions /\ st[d] = "loop"
      BY <1>9 DEF ReadFails, Readable, IfaceInv, Polls
    <2>2. PICK now \in BOOLEAN, opens \in BOOLEAN : Becomes(d, Recheck(close_interface(State(d)), now, opens))
      BY <1>9 DEF ReadFails
    <2> DEFINE c == close_interface(State(d))
               t == Recheck(c, now, opens)
    <2>3. Sound(c) /\ Polled(c)
      BY <1>1, <1>2, <2>1, CloseSound
    <2>4. Sound(t) /\ Polled(t)
      BY <2>3, RecheckSound
    <2>5. iface' = [iface EXCEPT ![d] = t.i] /\ handles' = [handles EXCEPT ![d] = t.n]
      BY <2>2 DEF Becomes
    <2>6. UNCHANGED st \/ st' = [st EXCEPT ![d] = "ending"]
      BY <1>9 DEF ReadFails, Step
    <2>7. /\ \A e \in Sessions \ {d} : st'[e] = st[e]
          /\ st'[d] \in {"loop", "ending"}
      BY <1>3, <2>1, <2>6
    <2> HIDE DEF t
    <2> QED BY <2>1, <2>4, <2>5, <2>7, NewIface
  <1>10. CASE finish_pcapd_capture(d)
    <2>1. Sound(close_interface(State(d))) /\ close_interface(State(d)).i.pd = NULL
      BY <1>1, CloseSound
    <2>2. close_interface(State(d)).n = 0
      BY <2>1 DEF Sound
    <2>3. Ended(d)
      BY <1>10, <2>2 DEF finish_pcapd_capture, Ended, Step
    <2> QED BY <2>3, EndedIface
  <1> QED BY <1>4, <1>5, <1>6, <1>7, <1>8, <1>9, <1>10 DEF Daemon, Reads

-----------------------------------------------------------------------------
(* The states of the daemons, of the app and of the paths.                 *)

\* What a step may do to the states of the daemons.
LEMMA StatesTyped ==
    ASSUME PcapdInv, PcapdNext \/ UNCHANGED pcapdVars
    PROVE  st' \in [Sessions -> {"none", "forked", "ready", "linked", "opening", "loop", "spin", "ending", "ended"}]
  <1> DEFINE St == {"none", "forked", "ready", "linked", "opening", "loop", "spin", "ending", "ended"}
  <1>1. st \in [Sessions -> St]
    BY DEF PcapdInv, PcapdTypeOK
  <1>2. (\E d : \E to \in St : st' = [st EXCEPT ![d] = to]) => st' \in [Sessions -> St]
    BY <1>1
  <1>3. ASSUME NEW d PROVE Signalled(d) => st' \in [Sessions -> St]
    BY <1>1, <1>2 DEF Signalled, Ended, daemons
  <1>4. CASE KillOld
    BY <1>1, <1>3, <1>4 DEF KillOld, daemons
  <1>5. CASE Spawn
    BY <1>1, <1>2, <1>5 DEF Spawn
  <1>6. CASE GiveUp
    BY <1>1, <1>2, <1>6 DEF GiveUp, Ended, daemons
  <1>7. CASE \/ Bind \/ Accept \/ AddRule \/ LoopEnds \/ Cleanup \/ Exited
             \/ stopPacketLoop \/ AppKilled \/ RouteChanges \/ UNCHANGED pcapdVars
    BY <1>1, <1>7 DEF Bind, Accept, AddRule, LoopEnds, Cleanup, Exited, stopPacketLoop, AppKilled,
                      RouteChanges, pcapdVars, daemons
  <1>8. ASSUME NEW d \in Sessions, Daemon(d) \/ Reads(d) PROVE st' \in [Sessions -> St]
    <2>1. UNCHANGED st \/ \E to \in St : st' = [st EXCEPT ![d] = to]
      BY <1>8 DEF Daemon, Reads, create_pid_file, Connect, UnlinkSocket, OpenInterface, LoopBreaks,
                  LoopNetlink, LoopRechecks, finish_pcapd_capture, ReadSpins, ReadFails, ReadEnds, Step
    <2> QED BY <1>1, <1>2, <2>1
  <1> QED BY <1>4, <1>5, <1>6, <1>7, <1>8 DEF PcapdNext, App

(* A daemon leaves the app alone, but for its place in the queue and the   *)
(* paths, which it writes or removes.                                      *)
Leaves(d) ==
    /\ UNCHANGED <<mode, session, app, app_running, client, rules, iptables_cleanup, route, changes>>
    /\ queue' \in {queue, Append(queue, d)}
    /\ pidfile' \in {pidfile, d, NULL} /\ sockpath' \in {sockpath, NULL}
    /\ odd' \in {odd, odd \cup {"open"}}

\* The steps of a daemon, as the app sees them.
LEMMA DaemonLeaves ==
    ASSUME NEW d \in Sessions, Daemon(d) \/ Reads(d)
    PROVE  Leaves(d)
  <1>1. \A s : Becomes(d, s) => odd' \in {odd, odd \cup {"open"}}
    BY DEF Becomes
  <1>2. CASE create_pid_file(d)
    BY <1>2 DEF create_pid_file, Leaves, appvars, env
  <1>3. CASE Connect(d)
    BY <1>3 DEF Connect, Leaves, paths, env
  <1>4. CASE UnlinkSocket(d)
    BY <1>4 DEF UnlinkSocket, Leaves, appvars, env
  <1>5. CASE OpenInterface(d)
    BY <1>1, <1>5 DEF OpenInterface, Leaves, appvars, paths, env
  <1>6. CASE LoopBreaks(d)
    BY <1>6 DEF LoopBreaks, Leaves, appvars, paths, env
  <1>7. CASE LoopNetlink(d)
    BY <1>1, <1>7 DEF LoopNetlink, Leaves, appvars, paths, env
  <1>8. CASE LoopRechecks(d)
    BY <1>1, <1>8 DEF LoopRechecks, Leaves, appvars, paths, env
  <1>9. CASE finish_pcapd_capture(d)
    BY <1>9 DEF finish_pcapd_capture, Leaves, appvars, env
  <1>10. CASE ReadSpins(d)
    BY <1>10 DEF ReadSpins, Leaves, appvars, paths, env
  <1>11. CASE ReadFails(d)
    BY <1>1, <1>11 DEF ReadFails, Leaves, appvars, paths, env
  <1>12. CASE ReadEnds(d)
    BY <1>12 DEF ReadEnds, Leaves, appvars, paths, env
  <1> QED BY <1>2, <1>3, <1>4, <1>5, <1>6, <1>7, <1>8, <1>9, <1>10, <1>11, <1>12 DEF Daemon, Reads

\* A daemon that has connected opens its interface and goes through its loop.
Moves(d) ==
    /\ UNCHANGED <<pidfile, queue>>
    /\ st[d] \in {"linked", "opening", "loop"} /\ st'[d] \in {"opening", "loop", "spin", "ending"}

\* A step of one daemon is one of four kinds, and moves no other daemon.
LEMMA DaemonMoves ==
    ASSUME PcapdTypeOK, NEW d \in Sessions, Daemon(d) \/ Reads(d)
    PROVE  /\ create_pid_file(d) \/ Connect(d) \/ finish_pcapd_capture(d) \/ Moves(d)
           /\ st[d] \notin {"none", "ended"} /\ \A e \in Sessions \ {d} : st'[e] = st[e]
  <1>1. \A from, to : Step(d, from, to) =>
            st[d] = from /\ st'[d] = to /\ \A e \in Sessions \ {d} : st'[e] = st[e]
    BY DEF PcapdTypeOK, Step
  <1>2. CASE create_pid_file(d) \/ Connect(d) \/ finish_pcapd_capture(d)
    BY <1>1, <1>2 DEF create_pid_file, Connect, finish_pcapd_capture
  <1>3. CASE UnlinkSocket(d)
    BY <1>1, <1>3 DEF UnlinkSocket, Moves, appvars
  <1>4. CASE OpenInterface(d)
    <2>1. PICK to \in {"ending", "loop"} : Step(d, "opening", to)
      BY <1>4 DEF OpenInterface
    <2> QED BY <1>1, <1>4, <2>1 DEF OpenInterface, Moves, appvars, paths
  <1>5. CASE LoopBreaks(d) \/ ReadSpins(d) \/ ReadEnds(d)
    BY <1>1, <1>5 DEF LoopBreaks, ReadSpins, ReadEnds, Moves, appvars, paths
  <1>6. CASE LoopNetlink(d) \/ LoopRechecks(d) \/ ReadFails(d)
    BY <1>1, <1>6 DEF LoopNetlink, LoopRechecks, ReadFails, Readable, Polls, Moves, appvars, paths
  <1> QED BY <1>2, <1>3, <1>4, <1>5, <1>6 DEF Daemon, Reads

\* Every variable keeps its type.
LEMMA TypesKept ==
    ASSUME PcapdInv, PcapdNext \/ UNCHANGED pcapdVars, IfaceKept'
    PROVE  PcapdTypeOK'
  <1> USE DEF PcapdTypeOK
  <1>1. PcapdTypeOK /\ \A d \in Sessions : handles'[d] \in 0..1
    BY DEF PcapdInv, IfaceKept, IfaceInv
  <1>2. st' \in [Sessions -> {"none", "forked", "ready", "linked", "opening", "loop", "spin", "ending", "ended"}]
    BY StatesTyped
  <1>3. NextSession \in Sessions
    BY <1>1, PcapdAssumption DEF NextSession, Sessions
  <1>4. CASE KillOld
    BY <1>1, <1>2, <1>4 DEF KillOld, paths, env, Events
  <1>5. CASE Bind
    BY <1>1, <1>2, <1>5 DEF Bind, env
  <1>6. CASE Spawn
    BY <1>1, <1>2, <1>6 DEF Spawn, paths, env
  <1>7. CASE Accept
    BY <1>1, <1>2, <1>7 DEF Accept, env
  <1>8. CASE GiveUp
    BY <1>1, <1>2, <1>8 DEF GiveUp, env
  <1>9. CASE AddRule
    <2>1. rules' \in 0..NumRules
      BY <1>1, <1>9, PcapdAssumption DEF AddRule
    <2> QED BY <1>1, <1>2, <1>9, <2>1 DEF AddRule, paths, env
  <1>10. CASE LoopEnds
    BY <1>1, <1>2, <1>10 DEF LoopEnds, paths, env
  <1>11. CASE Cleanup
    <2>1. rules' \in 0..NumRules
      BY <1>1, <1>11, PcapdAssumption DEF Cleanup
    <2> QED BY <1>1, <1>2, <1>11, <2>1 DEF Cleanup, env
  <1>12. CASE Exited
    BY <1>1, <1>2, <1>3, <1>12 DEF Exited, paths, env
  <1>13. CASE stopPacketLoop
    BY <1>1, <1>2, <1>13 DEF stopPacketLoop, paths, env
  <1>14. CASE AppKilled
    <2>1. rules' \in 0..NumRules /\ odd' \subseteq Events
      BY <1>1, <1>14, PcapdAssumption DEF AppKilled, Events
    <2>2. queue' \in Seq(Sessions) /\ {client', pidfile', sockpath'} \subseteq Sessions \cup {NULL}
      BY <1>1, <1>14 DEF AppKilled
    <2> QED BY <1>1, <1>2, <1>3, <1>14, <2>1, <2>2 DEF AppKilled, env
  <1>15. ASSUME NEW d \in Sessions, Daemon(d) \/ Reads(d) PROVE PcapdTypeOK'
    <2>1. Leaves(d)
      BY <1>15, DaemonLeaves
    <2>2. queue' \in Seq(Sessions)
      BY <1>1, <2>1 DEF Leaves
    <2>3. odd' \subseteq Events
      BY <1>1, <2>1 DEF Leaves, Events
    <2> QED BY <1>1, <1>2, <2>1, <2>2, <2>3 DEF Leaves
  <1>16. CASE RouteChanges
    <2>1. changes' \in 0..MaxChanges
      BY <1>1, <1>16, PcapdAssumption DEF RouteChanges
    <2> QED BY <1>1, <1>2, <1>16, <2>1 DEF RouteChanges, appvars, paths
  <1>17. CASE UNCHANGED pcapdVars
    BY <1>1, <1>2, <1>17 DEF pcapdVars, appvars, paths, env
  <1> QED BY <1>4, <1>5, <1>6, <1>7, <1>8, <1>9, <1>10, <1>11, <1>12, <1>13, <1>14, <1>15, <1>16, <1>17
          DEF PcapdNext, App

\* The iptables rules are removed by the cleanup that knows of them.
LEMMA IptablesKept ==
    ASSUME PcapdInv, PcapdNext \/ UNCHANGED pcapdVars
    PROVE  IptablesInv'
  <1> USE DEF PcapdInv, IptablesInv
  <1>1. rules \in Nat
    BY PcapdAssumption DEF PcapdTypeOK
  <1>2. CASE KillOld \/ Bind \/ Spawn \/ Accept \/ GiveUp
    BY <1>2 DEF KillOld, Bind, Spawn, Accept, GiveUp
  <1>3. CASE AddRule
    BY <1>1, <1>3 DEF AddRule
  <1>4. CASE LoopEnds \/ Exited \/ stopPacketLoop \/ AppKilled
    BY <1>4 DEF LoopEnds, Exited, stopPacketLoop, AppKilled
  <1>5. CASE Cleanup
    BY <1>1, <1>5 DEF Cleanup
  <1>6. ASSUME NEW d \in Sessions, Daemon(d) \/ Reads(d) PROVE IptablesInv'
    BY <1>6, DaemonLeaves DEF Leaves
  <1>7. CASE RouteChanges \/ UNCHANGED pcapdVars
    BY <1>7 DEF RouteChanges, pcapdVars, appvars
  <1> QED BY <1>2, <1>3, <1>4, <1>5, <1>6, <1>7 DEF PcapdNext, App

\* The pid file names a daemon that lives.
LEMMA PidKept ==
    ASSUME PcapdInv, PcapdNext \/ UNCHANGED pcapdVars
    PROVE  PidInv'
  <1> USE DEF PcapdInv, PidInv, PidIsAlive
  <1>1. \A d, to : st' = [st EXCEPT ![d] = to] =>
            \A e \in Sessions : st'[e] = IF e = d THEN to ELSE st[e]
    BY DEF PcapdTypeOK
  <1>2. pidfile \in Sessions \cup {NULL} /\ session \in Sessions /\ NULL \notin Sessions
    BY PcapdAssumption DEF PcapdTypeOK
  <1>3. CASE KillOld
    <2>1. pidfile # session \/ pidfile = NULL
      BY <1>3 DEF KillOld
    <2>2. \A e \in Sessions \ {pidfile} : st'[e] = st[e]
      BY <1>2, <1>3, SignalledIface DEF KillOld, daemons
    <2>3. pidfile # NULL => st'[pidfile] # "none"
      BY <1>2, <1>3, SignalledIface DEF KillOld
    <2>4. app' = "killed" /\ UNCHANGED <<mode, session, pidfile>>
      BY <1>3 DEF KillOld, paths
    <2>5. st'[session] = "none"
      BY <1>2, <1>3, <2>1, <2>2 DEF KillOld
    <2> QED BY <2>3, <2>4, <2>5
  <1>4. CASE Bind
    BY <1>4 DEF Bind, daemons
  <1>5. CASE Spawn
    <2>1. \A e \in Sessions : st'[e] = st[e] \/ st'[e] = "forked"
      BY <1>1, <1>5, ZenonT(20) DEF Spawn
    <2>2. app' \in {"waiting", "closing"} /\ UNCHANGED <<mode, pidfile, odd>> /\ app = "bound"
      BY <1>5 DEF Spawn, paths
    <2> QED BY <1>2, <2>1, <2>2
  <1>6. CASE GiveUp
    <2>1. app' = "closing" /\ UNCHANGED <<mode, pidfile, odd>> /\ app = "waiting"
      BY <1>6 DEF GiveUp
    <2>2. mode # "file" => UNCHANGED st
      BY <1>6 DEF GiveUp, Daemonize, daemons
    <2> QED BY <2>1, <2>2
  <1>7. CASE Accept \/ AddRule \/ LoopEnds \/ Cleanup \/ Exited \/ stopPacketLoop
    <2>1. UNCHANGED <<mode, st, pidfile, odd>> /\ (app' = app \/ app \notin {"killed", "bound"})
      BY <1>7 DEF Accept, AddRule, LoopEnds, Cleanup, Exited, stopPacketLoop, daemons, paths
    <2>2. (app' = app /\ session' = session) \/ app' \notin {"killed", "bound"}
      BY <1>7 DEF Accept, AddRule, LoopEnds, Cleanup, Exited, stopPacketLoop
    <2> QED BY <2>1, <2>2
  <1>8. CASE AppKilled
    BY <1>8 DEF AppKilled, daemons
  <1>9. ASSUME NEW d \in Sessions, Daemon(d) \/ Reads(d) PROVE PidInv'
    <2>1. UNCHANGED <<mode, app, session>>
      BY <1>9, DaemonLeaves DEF Leaves
    <2>2. odd \subseteq odd'
      BY <1>9, DaemonLeaves DEF Leaves
    <2>3. st[d] # "none" /\ \A e \in Sessions \ {d} : st'[e] = st[e]
      BY <1>9, DaemonMoves
    <2>4. CASE create_pid_file(d)
      <3>1. st'[d] = "ready"
        BY <2>4 DEF create_pid_file, Step, PcapdTypeOK
      <3>2. CASE mode = "file"
        <4>1. pidfile' = pidfile
          BY <2>4, <3>2 DEF create_pid_file, Daemonize
        <4> QED BY <1>2, <2>1, <2>3, <3>1, <3>2, <4>1
      <3>3. CASE mode # "file"
        <4>1. pidfile' = d
          BY <2>4, <3>3 DEF create_pid_file, Daemonize
        <4> QED BY <1>2, <2>1, <2>3, <3>1, <3>3, <4>1
      <3> QED BY <3>2, <3>3
    <2>5. CASE finish_pcapd_capture(d)
      <3>1. pidfile' = NULL
        BY <2>5 DEF finish_pcapd_capture
      <3> QED BY <1>2, <2>1, <2>3, <3>1
    <2>6. CASE Connect(d) \/ Moves(d)
      <3>1. pidfile' = pidfile /\ st'[d] \notin {"none", "ended"}
        BY <1>1, <2>6, ZenonT(30) DEF Connect, Moves, Step, paths
      <3> QED BY <1>2, <2>1, <2>2, <2>3, <3>1
    <2> QED BY <1>9, <2>4, <2>5, <2>6, DaemonMoves
  <1>10. CASE RouteChanges \/ UNCHANGED pcapdVars
    BY <1>10 DEF RouteChanges, pcapdVars, appvars, paths, daemons
  <1> QED BY <1>3, <1>4, <1>5, <1>6, <1>7, <1>8, <1>9, <1>10 DEF PcapdNext, App

\* The daemon that is accepted is the one of the capture.
LEMMA ClientKept ==
    ASSUME PcapdInv, PcapdNext \/ UNCHANGED pcapdVars
    PROVE  ClientInv'
  <1> USE DEF PcapdInv, ClientInv, Unconnected
  <1>1. /\ pidfile \in Sessions \cup {NULL} /\ session \in Sessions /\ NULL \notin Sessions
        /\ queue \in Seq(Sessions)
    BY PcapdAssumption DEF PcapdTypeOK
  <1>2. CASE KillOld
    <2>1. \A e \in Sessions \ {pidfile} : st'[e] = st[e]
      BY <1>1, <1>2, SignalledIface DEF KillOld, daemons
    <2>2. pidfile # NULL => st'[pidfile] \in {"spin", "ending", "ended"}
      BY <1>1, <1>2, SignalledIface DEF KillOld
    <2>3. ASSUME "missed" \notin odd', NEW d \in Sessions PROVE ~Unconnected(d)'
      <3>1. d = pidfile \/ st[d] \notin {"forked", "ready"}
        BY <1>2, <2>3 DEF KillOld
      <3> QED BY <1>1, <2>1, <2>2, <3>1
    <2>4. app = "idle" /\ app' = "killed" /\ UNCHANGED <<session, client, queue, sockpath>> /\ odd \subseteq odd'
      BY <1>2 DEF KillOld, paths
    <2> QED BY <2>3, <2>4
  <1>3. CASE Bind
    BY <1>3 DEF Bind, daemons
  <1>4. CASE Spawn
    <2>1. \A e \in Sessions : st'[e] = st[e] \/ e = session
      BY <1>4 DEF Spawn, PcapdTypeOK
    <2>2. app' = "waiting" \/ (app' = "closing" /\ st' = st)
      BY <1>4, Zenon DEF Spawn
    <2>3. app = "bound" /\ UNCHANGED <<session, client, queue, sockpath, odd>>
      BY <1>4 DEF Spawn, paths
    <2> QED BY <2>1, <2>2, <2>3
  <1>5. CASE Accept
    <2>1. client' = Head(queue) /\ queue # <<>> /\ app = "waiting" /\ app' = "rules" /\ sockpath' = NULL
      BY <1>5 DEF Accept
    <2>2. queue' = <<>> /\ UNCHANGED <<session, st, odd>>
      BY <1>5 DEF Accept, daemons
    <2>3. "missed" \notin odd => client' = session
      BY <1>1, <2>1
    <2> QED BY <2>1, <2>2, <2>3
  <1>6. CASE GiveUp
    <2>1. app = "waiting" /\ app' = "closing" /\ sockpath' = NULL /\ queue' = <<>> /\ UNCHANGED <<session, client, odd>>
      BY <1>6 DEF GiveUp
    <2>2. \A e \in Sessions : st'[e] = st[e] \/ st'[e] = "ended"
      BY <1>6 DEF GiveUp, Ended, daemons, PcapdTypeOK
    <2> QED BY <2>1, <2>2
  <1>7. CASE AddRule \/ LoopEnds
    <2>1. UNCHANGED <<session, st, client, queue, sockpath, odd>>
      BY <1>7 DEF AddRule, LoopEnds, daemons, paths
    <2>2. app \in {"rules", "running"} /\ app' \in {"rules", "running", "closing"}
      BY <1>7 DEF AddRule, LoopEnds
    <2> QED BY <2>1, <2>2
  <1>8. CASE Cleanup
    <2>1. client' = NULL /\ sockpath' = NULL /\ app = "closing" /\ app' = "exiting" /\ UNCHANGED <<session, st, queue, odd>>
      BY <1>8 DEF Cleanup, daemons
    <2> QED BY <2>1
  <1>9. CASE Exited
    <2>1. app = "exiting" /\ app' = "idle" /\ UNCHANGED <<st, client, queue, sockpath, odd>>
      BY <1>9 DEF Exited, daemons, paths
    <2>2. queue \in Seq(Sessions) /\ ("missed" \notin odd => queue = <<>>)
      BY <1>1, <2>1
    <2>3. "missed" \notin odd => \A i \in 1..Len(queue') : queue'[i] = session'
      BY <2>1, <2>2
    <2> QED BY <2>1, <2>2, <2>3
  <1>10. CASE stopPacketLoop \/ RouteChanges \/ UNCHANGED pcapdVars
    BY <1>10 DEF stopPacketLoop, RouteChanges, pcapdVars, appvars, paths, daemons
  <1>11. CASE AppKilled
    BY <1>11 DEF AppKilled, daemons
  <1>12. ASSUME NEW d \in Sessions, Daemon(d) \/ Reads(d) PROVE ClientInv'
    <2>1. UNCHANGED <<app, session, client>> /\ sockpath' \in {sockpath, NULL}
      BY <1>12, DaemonLeaves DEF Leaves
    <2>2. odd \subseteq odd'
      BY <1>12, DaemonLeaves DEF Leaves
    <2>3. \A e \in Sessions \ {d} : st'[e] = st[e]
      BY <1>12, DaemonMoves
    <2>4. CASE create_pid_file(d)
      <3>1. st[d] = "forked" /\ UNCHANGED queue
        BY <2>4 DEF create_pid_file, Step, appvars
      <3> QED BY <2>1, <2>2, <2>3, <3>1
    <2>5. CASE Connect(d)
      <3>1. st[d] = "ready" /\ st'[d] \in {"linked", "ending"}
        BY <2>5 DEF Connect, Step, PcapdTypeOK
      <3>2. CASE sockpath = NULL
        <4>1. UNCHANGED queue
          BY <2>5, <3>2 DEF Connect
        <4> QED BY <2>1, <2>2, <2>3, <3>1, <4>1
      <3>3. CASE sockpath # NULL
        <4>1. queue' = Append(queue, d)
          BY <2>5, <3>3 DEF Connect
        <4>2. "missed" \notin odd => d = session /\ app = "waiting"
          BY <3>1, <3>3
        <4>3. "missed" \notin odd => \A i \in 1..Len(queue') : queue'[i] = session'
          BY <1>1, <2>1, <4>1, <4>2
        <4> QED BY <2>1, <2>2, <2>3, <3>1, <4>2, <4>3
      <3> QED BY <3>2, <3>3
    <2>6. CASE finish_pcapd_capture(d) \/ Moves(d)
      <3>1. st'[d] \notin {"forked", "ready"} /\ UNCHANGED queue
        BY <2>6 DEF finish_pcapd_capture, Moves, Step, appvars, PcapdTypeOK
      <3> QED BY <2>1, <2>2, <2>3, <3>1
    <2> QED BY <1>12, <2>4, <2>5, <2>6, DaemonMoves
  <1> QED BY <1>2, <1>3, <1>4, <1>5, <1>6, <1>7, <1>8, <1>9, <1>10, <1>11, <1>12 DEF PcapdNext, App

-----------------------------------------------------------------------------
\* The invariant is inductive.
LEMMA PcapdKept == PcapdInv /\ [PcapdNext]_pcapdVars => PcapdInv'
  <1> SUFFICES ASSUME PcapdInv, PcapdNext \/ UNCHANGED pcapdVars PROVE PcapdInv'
    OBVIOUS
  <1>1. IfaceKept'
    BY AppIface, DaemonIface DEF PcapdNext
  <1> QED BY <1>1, TypesKept, IptablesKept, PidKept, ClientKept DEF PcapdInv, IfaceKept

(* A daemon polls the interface it has open, and every pcap_t is closed    *)
(* once: run_pcap_dump, read_pkt, handle_nl_message and the recheck, for   *)
(* any number of captures, interfaces and changes of the route.            *)
THEOREM InterfacesAccounted == PcapdSpec => []InterfaceAccounted
  <1>1. PcapdInv => InterfaceAccounted
    BY DEF PcapdInv, InterfaceAccounted
  <1> QED BY <1>1, PcapdStart, PcapdKept, PTL DEF PcapdSpec

(* The app reads from its own daemon, sends SIGTERM to no other process,   *)
(* and leaves no iptables rule behind: connectPcapd and run_libpcap, for   *)
(* any number of captures, whichever daemons still run.                    *)
THEOREM OwnDaemonOnly == PcapdSpec => []DaemonsAccounted
  <1>1. PcapdInv => DaemonsAccounted
    BY DEF PcapdInv, ClientInv, PidInv, IptablesInv, DaemonsAccounted, RightDaemon, RulesRemoved
  <1> QED BY <1>1, PcapdStart, PcapdKept, PTL DEF PcapdSpec

-----------------------------------------------------------------------------
(* The connection to the add-on (MitmAddon).                               *)

Messages == {"stop", "getCA", "start"}

AddonTyped ==
    /\ binding \in {"asked", "bound", "null", "unbound"} /\ inbox \in Seq(Messages)
    /\ mService \in BOOLEAN /\ mStopRequested \in BOOLEAN /\ mSocketFd \in BOOLEAN
    /\ mThread \in BOOLEAN /\ reply \in BOOLEAN /\ fd \in BOOLEAN
    /\ socket \in {"none", "open", "closed"}
    /\ thread \in {"none", "new", "checked", "loop", "reading", "ended"}
    /\ main \in {"idle", "stopProxy", "onMitmServiceConnect", "requestCaCertificate", "setFd",
                 "createThread", "startThread"}
    /\ stopper \in {"off", "begin", "clear", "stopProxy", "disconnect", "join", "forget", "done"}

\* The certificate is not asked for, or once, in the messages q.
NoCA(q) == \A i \in 1..Len(q) : q[i] # "getCA"
OneCA(q) == \A i, j \in 1..Len(q) : q[i] = "getCA" /\ q[j] = "getCA" => i = j

\* The certificate has yet to come.
Asking ==
    \/ binding = "asked" \/ reply \/ ~NoCA(inbox)
    \/ main \in {"stopProxy", "onMitmServiceConnect", "requestCaCertificate"}

(* The certificate is asked for once, and so the socket pair is made once. *)
AskedOnce ==
    /\ OneCA(inbox)
    /\ reply \/ binding = "asked" \/ main # "idle" => NoCA(inbox)
    /\ binding = "asked" \/ main # "idle" => ~reply
    /\ binding = "asked" => main = "idle"
    /\ Asking => socket = "none"
    /\ socket = "none" <=> thread = "none" /\ main \notin {"setFd", "createThread", "startThread"}
                             /\ "null thread" \notin slips
    /\ main \in {"setFd", "createThread", "startThread"} =>
          thread = "none" /\ "null thread" \notin slips
    /\ stopper # "done" /\ (thread # "none" \/ main = "startThread") => mThread
    /\ "null thread" \in slips => stopper = "done"

\* The main thread has assigned mSocketFd.
Assigned == thread # "none" \/ main \in {"createThread", "startThread"} \/ "null thread" \in slips

(* stop finds the socket and closes it, or the receiver thread does, unless *)
(* it was assigned between the two accesses of stop.                       *)
SocketKept ==
    /\ main = "setFd" => socket = "open"
    /\ mSocketFd \/ fd => Assigned
    /\ Assigned /\ stopper \in {"off", "begin"} => mSocketFd
    /\ Assigned /\ stopper = "clear" => fd \/ "fd" \in slips
    /\ Assigned /\ ~mSocketFd => socket = "closed" \/ "fd" \in slips
    /\ thread = "ended" => socket = "closed" \/ "fd" \in slips

(* A service that connects after stop is told to stop, and nothing is      *)
(* started.                                                                *)
StopKept ==
    /\ mService <=> binding = "bound"
    /\ stopper \in {"join", "forget", "done"} => binding = "unbound" \/ "early" \in slips
    /\ stopper \in {"disconnect", "join", "forget", "done"} /\ binding = "asked" => mStopRequested
    /\ stopper \in {"join", "forget", "done"} /\ mService =>
          main \in {"idle", "stopProxy"} /\ ~reply /\ NoCA(inbox) /\ thread = "none"
    /\ stopper \in {"forget", "done"} => thread # "reading"
    /\ "leaked binding" \in slips => "early" \in slips
    /\ "stray thread" \notin slips

AddonInv == AddonTyped /\ AskedOnce /\ SocketKept /\ StopKept

\* The messages that wait, with one more.
LEMMA InboxGrows ==
    ASSUME NEW q \in Seq(Messages), NEW m \in Messages
    PROVE  /\ Append(q, m) \in Seq(Messages)
           /\ OneCA(q) /\ (m = "getCA" => NoCA(q)) => OneCA(Append(q, m))
           /\ NoCA(q) /\ m # "getCA" => NoCA(Append(q, m))
           /\ NoCA(Append(q, m)) => NoCA(q)
  <1> DEFINE r == Append(q, m)
  <1>1. /\ r \in Seq(Messages) /\ Len(q) \in Nat /\ Len(r) = Len(q) + 1
        /\ \A i \in 1..Len(q) : r[i] = q[i]
        /\ r[Len(q) + 1] = m
    BY AppendProperties, LenProperties
  <1> HIDE DEF r
  <1>2. \A i \in 1..Len(r) : (i \in 1..Len(q) /\ r[i] = q[i]) \/ (i = Len(q) + 1 /\ r[i] = m)
    BY <1>1
  <1>3. \A i \in 1..Len(q) : i \in 1..Len(r)
    BY <1>1
  <1> QED BY <1>1, <1>2, <1>3, Zenon DEF OneCA, NoCA, r

\* The messages that wait, without the first.
LEMMA InboxShrinks ==
    ASSUME NEW q \in Seq(Messages), q # <<>>
    PROVE  /\ Tail(q) \in Seq(Messages)
           /\ OneCA(q) => OneCA(Tail(q))
           /\ NoCA(q) => NoCA(Tail(q)) /\ Head(q) # "getCA"
           /\ OneCA(q) /\ Head(q) = "getCA" => NoCA(Tail(q))
           /\ ~NoCA(q) /\ Head(q) # "getCA" => ~NoCA(Tail(q))
  <1> DEFINE r == Tail(q)
  <1>1. /\ r \in Seq(Messages) /\ Len(q) \in Nat /\ Len(q) > 0 /\ Len(r) = Len(q) - 1
        /\ \A i \in 1..Len(r) : r[i] = q[i + 1]
    BY HeadTailProperties, LenProperties, EmptySeq
  <1>2. Head(q) = q[1]
    BY <1>1
  <1> HIDE DEF r
  <1>3. \A i \in 1..Len(r) : i + 1 \in 1..Len(q) /\ i + 1 # 1
    BY <1>1
  <1>4. \A i, j \in 1..Len(r) : i + 1 = j + 1 => i = j
    BY <1>1
  <1>5. 1 \in 1..Len(q)
    BY <1>1
  <1>6. \A k \in 1..Len(q) : k # 1 => k - 1 \in 1..Len(r) /\ r[k - 1] = q[k]
    BY <1>1
  <1>7. OneCA(q) => OneCA(r)
    BY <1>1, <1>3, <1>4, Zenon DEF OneCA
  <1>8. NoCA(q) => NoCA(r) /\ q[1] # "getCA"
    BY <1>1, <1>3, <1>5, Zenon DEF NoCA
  <1>9. OneCA(q) /\ q[1] = "getCA" => NoCA(r)
    BY <1>1, <1>3, <1>5, Zenon DEF OneCA, NoCA
  <1>10. ~NoCA(q) /\ q[1] # "getCA" => ~NoCA(r)
    BY <1>6, Zenon DEF NoCA
  <1> QED BY <1>1, <1>2, <1>7, <1>8, <1>9, <1>10 DEF r

\* No message waits.
LEMMA InboxEmpty == <<>> \in Seq(Messages) /\ NoCA(<<>>) /\ OneCA(<<>>)
  <1>1. <<>> \in Seq(Messages) /\ Len(<<>>) = 0
    BY EmptySeq
  <1>2. 1..0 = {}
    BY SMT
  <1> QED BY <1>1, <1>2 DEF NoCA, OneCA

\* The service was just bound.
LEMMA AddonStarts == AddonInit => AddonInv
  BY InboxEmpty DEF AddonInit, AddonInv, AddonTyped, AskedOnce, Asking, SocketKept, Assigned, StopKept

\* Every step of the three threads, of the add-on and of the system keeps it.
LEMMA AddonKeeps == AddonInv /\ [AddonNext]_addonVars => AddonInv'
  <1> SUFFICES ASSUME AddonInv, [AddonNext]_addonVars PROVE AddonInv'
    OBVIOUS
  <1> USE DEF AddonInv
  <1>1. CASE onServiceConnected
    <2>1. inbox' = inbox
      BY <1>1 DEF onServiceConnected
    <2>2. AddonTyped'
      BY <1>1, <2>1, ZenonT(20) DEF onServiceConnected, AddonTyped
    <2>3. AskedOnce'
      BY <1>1, <2>1 DEF onServiceConnected, AddonTyped, AskedOnce, Asking, StopKept
    <2>4. SocketKept'
      BY <1>1 DEF onServiceConnected, AddonTyped, AskedOnce, Asking, SocketKept, Assigned
    <2>5. StopKept'
      BY <1>1, <2>1 DEF onServiceConnected, AddonTyped, AskedOnce, Asking, StopKept
    <2> QED BY <2>2, <2>3, <2>4, <2>5
  <1>2. CASE StopProxyOnConnect
    <2>0. inbox' \in {inbox, Append(inbox, "stop")} /\ inbox \in Seq(Messages)
      BY <1>2 DEF StopProxyOnConnect, SendStop, CanSend, AddonTyped
    <2>1. inbox' \in Seq(Messages) /\ OneCA(inbox') /\ (NoCA(inbox) <=> NoCA(inbox'))
      BY <2>0, InboxGrows DEF AskedOnce, Messages
    <2>2. AddonTyped'
      <3>1. mStopRequested' \in BOOLEAN
        <4>1. CASE CanSend
          BY <1>2, <4>1 DEF StopProxyOnConnect, SendStop
        <4>2. CASE ~CanSend
          BY <1>2, <4>2 DEF StopProxyOnConnect, SendStop, AddonTyped
        <4> QED BY <4>1, <4>2
      <3>2. main' \in {"idle", "requestCaCertificate"}
            /\ UNCHANGED <<binding, mService, socket, mSocketFd, mThread, thread, reply, stopper, fd>>
        BY <1>2 DEF StopProxyOnConnect
      <3> QED BY <3>1, <3>2, <2>1 DEF AddonTyped
    <2>3. AskedOnce'
      BY <1>2, <2>1 DEF StopProxyOnConnect, SendStop, CanSend, AddonTyped, AskedOnce, Asking, StopKept
    <2>4. SocketKept'
      BY <1>2 DEF StopProxyOnConnect, SendStop, CanSend, AddonTyped, AskedOnce, Asking, SocketKept, Assigned
    <2>5. StopKept'
      BY <1>2, <2>1 DEF StopProxyOnConnect, SendStop, CanSend, AddonTyped, AskedOnce, Asking, StopKept
    <2> QED BY <2>2, <2>3, <2>4, <2>5
  <1>3. CASE requestCaCertificate
    <2>0. inbox' \in {inbox, Append(inbox, "getCA")} /\ inbox \in Seq(Messages) /\ NoCA(inbox)
      BY <1>3 DEF requestCaCertificate, disconnect, CanSend, AddonTyped, AskedOnce
    <2>1. inbox' \in Seq(Messages) /\ OneCA(inbox')
      BY <2>0, InboxGrows DEF AskedOnce, Messages
    <2>2. AddonTyped'
      <3>1. binding' \in {binding, "unbound"} /\ mService' \in BOOLEAN
        BY <1>3 DEF requestCaCertificate, disconnect, AddonTyped
      <3>2. main' = "idle"
            /\ UNCHANGED <<mStopRequested, socket, mSocketFd, mThread, thread, reply, stopper, fd>>
        BY <1>3 DEF requestCaCertificate
      <3> QED BY <3>1, <3>2, <2>1 DEF AddonTyped
    <2>3. AskedOnce'
      BY <1>3, <2>1 DEF requestCaCertificate, disconnect, CanSend, AddonTyped, AskedOnce, Asking, StopKept
    <2>4. SocketKept'
      BY <1>3 DEF requestCaCertificate, disconnect, CanSend, AddonTyped, AskedOnce, Asking, SocketKept, Assigned
    <2>5. StopKept'
      BY <1>3, <2>1 DEF requestCaCertificate, disconnect, CanSend, AddonTyped, AskedOnce, Asking, StopKept
    <2> QED BY <2>2, <2>3, <2>4, <2>5
  <1>4. CASE CertificateMissing
    <2>1. inbox' = inbox
      BY <1>4 DEF CertificateMissing, stopService
    <2>2. AddonTyped'
      <3>1. stopper' \in {stopper, "begin"}
        BY <1>4 DEF CertificateMissing, stopService
      <3>2. reply' \in BOOLEAN
            /\ UNCHANGED <<binding, mService, mStopRequested, socket, mSocketFd, mThread, thread, main, fd>>
        BY <1>4 DEF CertificateMissing
      <3> QED BY <3>1, <3>2, <2>1 DEF AddonTyped
    <2>3. AskedOnce'
      BY <1>4, <2>1 DEF CertificateMissing, stopService, AddonTyped, AskedOnce, Asking, StopKept
    <2>4. SocketKept'
      BY <1>4 DEF CertificateMissing, stopService, AddonTyped, AskedOnce, Asking, SocketKept, Assigned
    <2>5. StopKept'
      BY <1>4, <2>1 DEF CertificateMissing, stopService, AddonTyped, AskedOnce, Asking, StopKept
    <2> QED BY <2>2, <2>3, <2>4, <2>5
  <1>5. CASE startProxy
    <2>0. inbox' \in {inbox, Append(inbox, "start")} /\ inbox \in Seq(Messages)
      BY <1>5 DEF startProxy, disconnect, CanSend, AddonTyped
    <2>1. inbox' \in Seq(Messages) /\ OneCA(inbox') /\ (NoCA(inbox) <=> NoCA(inbox'))
      BY <2>0, InboxGrows DEF AskedOnce, Messages
    <2>2. AddonTyped'
      <3>1. binding' \in {binding, "unbound"} /\ mService' \in BOOLEAN
        BY <1>5 DEF startProxy, disconnect, AddonTyped
      <3>2. socket' \in {socket, "open"} /\ main' \in {main, "setFd"}
        BY <1>5 DEF startProxy
      <3>3. reply' \in BOOLEAN
            /\ UNCHANGED <<mStopRequested, mSocketFd, mThread, thread, stopper, fd>>
        BY <1>5 DEF startProxy
      <3> QED BY <3>1, <3>2, <3>3, <2>1 DEF AddonTyped
    <2>3. AskedOnce'
      <3>1. CASE CanSend /\ socket' = "open" /\ main' = "setFd" /\ UNCHANGED <<binding, mService>>
        BY <1>5, <3>1, <2>1 DEF startProxy, CanSend, AddonTyped, AskedOnce, Asking, StopKept
      <3>2. CASE disconnect /\ UNCHANGED <<inbox, socket, main>>
        <4>1. binding' \in {binding, "unbound"}
          BY <3>2 DEF disconnect
        <4>2. main = "idle" /\ reply /\ reply' = FALSE /\ UNCHANGED <<thread, mThread, stopper, slips>>
          BY <1>5 DEF startProxy
        <4> QED BY <4>1, <4>2, <3>2, <2>1 DEF AddonTyped, AskedOnce, Asking
      <3> QED BY <1>5, <3>1, <3>2 DEF startProxy
    <2>4. SocketKept'
      BY <1>5 DEF startProxy, disconnect, CanSend, AddonTyped, AskedOnce, Asking, SocketKept, Assigned
    <2>5. StopKept'
      <3>1. stopper \in {"join", "forget", "done"} => ~mService
        BY <1>5 DEF startProxy, StopKept
      <3>2. UNCHANGED <<mStopRequested, thread, stopper, slips>> /\ (mService' <=> binding' = "bound")
        <4>1. UNCHANGED <<mStopRequested, thread, stopper, slips>>
          BY <1>5 DEF startProxy
        <4>2. CASE UNCHANGED <<binding, mService>>
          BY <4>1, <4>2 DEF StopKept
        <4>3. CASE disconnect
          <5>1. mService' = FALSE /\ (mService => binding' = "unbound") /\ (~mService => binding' = binding)
            BY <4>3 DEF disconnect
          <5>2. binding' # "bound"
            BY <5>1 DEF StopKept
          <5> QED BY <4>1, <5>1, <5>2
        <4> QED BY <1>5, <4>2, <4>3 DEF startProxy
      <3>3. (mService' => mService) /\ binding' \in {binding, "unbound"}
        BY <1>5 DEF startProxy, disconnect
      <3> QED BY <3>1, <3>2, <3>3 DEF StopKept, AddonTyped
    <2> QED BY <2>2, <2>3, <2>4, <2>5
  <1>6. CASE SetFd
    <2>1. inbox' = inbox
      BY <1>6 DEF SetFd
    <2>2. AddonTyped'
      BY <1>6, <2>1 DEF SetFd, AddonTyped
    <2>3. AskedOnce'
      BY <1>6, <2>1 DEF SetFd, AddonTyped, AskedOnce, Asking, StopKept
    <2>4. SocketKept'
      BY <1>6 DEF SetFd, AddonTyped, AskedOnce, Asking, SocketKept, Assigned
    <2>5. StopKept'
      BY <1>6, <2>1 DEF SetFd, AddonTyped, AskedOnce, Asking, StopKept
    <2> QED BY <2>2, <2>3, <2>4, <2>5
  <1>7. CASE StartThread
    <2>1. inbox' = inbox
      BY <1>7 DEF StartThread
    <2>2. AddonTyped'
      BY <1>7, <2>1, ZenonT(20) DEF StartThread, AddonTyped
    <2>3. AskedOnce'
      BY <1>7, <2>1 DEF StartThread, AddonTyped, AskedOnce, Asking, StopKept
    <2>4. SocketKept'
      BY <1>7 DEF StartThread, AddonTyped, AskedOnce, Asking, SocketKept, Assigned
    <2>5. StopKept'
      BY <1>7, <2>1 DEF StartThread, AddonTyped, AskedOnce, Asking, StopKept
    <2> QED BY <2>2, <2>3, <2>4, <2>5
  <1>8. CASE onServiceDisconnected
    <2>1. inbox' = inbox
      BY <1>8 DEF onServiceDisconnected, disconnect, stopService
    <2>2. AddonTyped'
      <3>1. stopper' \in {stopper, "begin"}
        BY <1>8 DEF onServiceDisconnected, stopService
      <3>2. binding' \in {binding, "unbound"} /\ mService' \in BOOLEAN
        BY <1>8 DEF onServiceDisconnected, disconnect, AddonTyped
      <3>3. UNCHANGED <<mStopRequested, socket, mSocketFd, mThread, thread, main, reply, fd>>
        BY <1>8 DEF onServiceDisconnected
      <3> QED BY <3>1, <3>2, <3>3, <2>1 DEF AddonTyped
    <2>3. AskedOnce'
      BY <1>8, <2>1 DEF onServiceDisconnected, disconnect, stopService, AddonTyped, AskedOnce, Asking, StopKept
    <2>4. SocketKept'
      BY <1>8 DEF onServiceDisconnected, disconnect, stopService, AddonTyped, AskedOnce, Asking, SocketKept, Assigned
    <2>5. StopKept'
      BY <1>8, <2>1 DEF onServiceDisconnected, disconnect, stopService, AddonTyped, AskedOnce, Asking, StopKept
    <2> QED BY <2>2, <2>3, <2>4, <2>5
  <1>9. CASE onNullBinding
    <2>1. inbox' = inbox
      BY <1>9 DEF onNullBinding, stopService
    <2>2. AddonTyped'
      <3>1. stopper' \in {stopper, "begin"}
        BY <1>9 DEF onNullBinding, stopService
      <3>2. binding' = "null"
            /\ UNCHANGED <<mService, mStopRequested, socket, mSocketFd, mThread, thread, main, reply, fd>>
        BY <1>9 DEF onNullBinding
      <3> QED BY <3>1, <3>2, <2>1 DEF AddonTyped
    <2>3. AskedOnce'
      BY <1>9, <2>1 DEF onNullBinding, stopService, AddonTyped, AskedOnce, Asking, StopKept
    <2>4. SocketKept'
      BY <1>9 DEF onNullBinding, stopService, AddonTyped, AskedOnce, Asking, SocketKept, Assigned
    <2>5. StopKept'
      BY <1>9, <2>1 DEF onNullBinding, stopService, AddonTyped, AskedOnce, Asking, StopKept
    <2> QED BY <2>2, <2>3, <2>4, <2>5
  <1>10. CASE HandleInbox
    <2>1. /\ inbox' \in Seq(Messages) /\ OneCA(inbox') /\ (NoCA(inbox) => NoCA(inbox') /\ reply' = reply)
          /\ reply' # reply => NoCA(inbox') /\ ~NoCA(inbox)
          /\ reply => reply' /\ NoCA(inbox')
      BY <1>10, InboxShrinks DEF HandleInbox, AddonTyped, AskedOnce
    <2>2. AddonTyped'
      BY <1>10, <2>1 DEF HandleInbox, AddonTyped
    <2>3. AskedOnce'
      BY <1>10, <2>1 DEF HandleInbox, AddonTyped, AskedOnce, Asking, StopKept
    <2>4. SocketKept'
      BY <1>10 DEF HandleInbox, AddonTyped, AskedOnce, Asking, SocketKept, Assigned
    <2>5. StopKept'
      BY <1>10, <2>1 DEF HandleInbox, AddonTyped, AskedOnce, Asking, StopKept
    <2> QED BY <2>2, <2>3, <2>4, <2>5
  <1>11. CASE ProxyEnds
    <2>1. inbox' = inbox
      BY <1>11 DEF ProxyEnds
    <2>2. AddonTyped'
      BY <1>11, <2>1 DEF ProxyEnds, AddonTyped
    <2>3. AskedOnce'
      BY <1>11, <2>1 DEF ProxyEnds, AddonTyped, AskedOnce, Asking, StopKept
    <2>4. SocketKept'
      BY <1>11 DEF ProxyEnds, AddonTyped, AskedOnce, Asking, SocketKept, Assigned
    <2>5. StopKept'
      BY <1>11, <2>1 DEF ProxyEnds, AddonTyped, AskedOnce, Asking, StopKept
    <2> QED BY <2>2, <2>3, <2>4, <2>5
  <1>12. CASE Die
    <2>1. inbox' \in Seq(Messages) /\ OneCA(inbox') /\ NoCA(inbox')
      BY <1>12, InboxEmpty DEF Die, Vanish
    <2>2. AddonTyped'
      BY <1>12, <2>1 DEF Die, Vanish, AddonTyped
    <2>3. AskedOnce'
      BY <1>12, <2>1 DEF Die, Vanish, AddonTyped, AskedOnce, Asking, StopKept
    <2>4. SocketKept'
      BY <1>12 DEF Die, Vanish, AddonTyped, AskedOnce, Asking, SocketKept, Assigned
    <2>5. StopKept'
      BY <1>12, <2>1 DEF Die, Vanish, AddonTyped, AskedOnce, Asking, StopKept
    <2> QED BY <2>2, <2>3, <2>4, <2>5
  <1>13. CASE Destroy
    <2>1. inbox' \in Seq(Messages) /\ OneCA(inbox') /\ NoCA(inbox')
      BY <1>13, InboxEmpty DEF Destroy, Vanish
    <2>2. AddonTyped'
      BY <1>13, <2>1 DEF Destroy, Vanish, AddonTyped
    <2>3. AskedOnce'
      BY <1>13, <2>1 DEF Destroy, Vanish, AddonTyped, AskedOnce, Asking, StopKept
    <2>4. SocketKept'
      BY <1>13 DEF Destroy, Vanish, AddonTyped, AskedOnce, Asking, SocketKept, Assigned
    <2>5. StopKept'
      BY <1>13, <2>1 DEF Destroy, Vanish, AddonTyped, AskedOnce, Asking, StopKept
    <2> QED BY <2>2, <2>3, <2>4, <2>5
  <1>14. CASE CheckFd
    <2>1. inbox' = inbox
      BY <1>14 DEF CheckFd
    <2>2. AddonTyped'
      BY <1>14, <2>1 DEF CheckFd, AddonTyped
    <2>3. AskedOnce'
      BY <1>14, <2>1 DEF CheckFd, AddonTyped, AskedOnce, Asking, StopKept
    <2>4. SocketKept'
      BY <1>14 DEF CheckFd, AddonTyped, AskedOnce, Asking, SocketKept, Assigned
    <2>5. StopKept'
      BY <1>14, <2>1 DEF CheckFd, AddonTyped, AskedOnce, Asking, StopKept
    <2> QED BY <2>2, <2>3, <2>4, <2>5
  <1>15. CASE OpenStream
    <2>1. inbox' = inbox
      BY <1>15 DEF OpenStream
    <2>2. AddonTyped'
      <3>1. thread' \in {"loop", "ended"}
        BY <1>15 DEF OpenStream
      <3>2. UNCHANGED <<binding, mService, mStopRequested, socket, mSocketFd, mThread, main, reply, stopper, fd>>
        BY <1>15 DEF OpenStream
      <3> QED BY <3>1, <3>2, <2>1 DEF AddonTyped
    <2>3. AskedOnce'
      BY <1>15, <2>1 DEF OpenStream, AddonTyped, AskedOnce, Asking, StopKept
    <2>4. SocketKept'
      BY <1>15 DEF OpenStream, AddonTyped, AskedOnce, Asking, SocketKept, Assigned
    <2>5. StopKept'
      BY <1>15, <2>1 DEF OpenStream, AddonTyped, AskedOnce, Asking, StopKept
    <2> QED BY <2>2, <2>3, <2>4, <2>5
  <1>16. CASE Loop
    <2>1. inbox' = inbox
      BY <1>16 DEF Loop, Ends
    <2>2. AddonTyped'
      BY <1>16, <2>1 DEF Loop, Ends, AddonTyped
    <2>3. AskedOnce'
      BY <1>16, <2>1 DEF Loop, Ends, AddonTyped, AskedOnce, Asking, StopKept
    <2>4. SocketKept'
      BY <1>16 DEF Loop, Ends, AddonTyped, AskedOnce, Asking, SocketKept, Assigned
    <2>5. StopKept'
      BY <1>16, <2>1 DEF Loop, Ends, AddonTyped, AskedOnce, Asking, StopKept
    <2> QED BY <2>2, <2>3, <2>4, <2>5
  <1>17. CASE ReadMessage
    <2>1. inbox' = inbox
      BY <1>17 DEF ReadMessage
    <2>2. AddonTyped'
      BY <1>17, <2>1 DEF ReadMessage, AddonTyped
    <2>3. AskedOnce'
      BY <1>17, <2>1 DEF ReadMessage, AddonTyped, AskedOnce, Asking, StopKept
    <2>4. SocketKept'
      BY <1>17 DEF ReadMessage, AddonTyped, AskedOnce, Asking, SocketKept, Assigned
    <2>5. StopKept'
      BY <1>17, <2>1 DEF ReadMessage, AddonTyped, AskedOnce, Asking, StopKept
    <2> QED BY <2>2, <2>3, <2>4, <2>5
  <1>18. CASE BadHeader
    <2>1. inbox' = inbox
      BY <1>18 DEF BadHeader, Ends, stopService
    <2>2. AddonTyped'
      <3>1. stopper' \in {stopper, "begin"}
        BY <1>18 DEF BadHeader, stopService
      <3>2. thread' = "ended" /\ socket' = "closed"
            /\ UNCHANGED <<binding, mService, mStopRequested, mSocketFd, mThread, main, reply, fd>>
        BY <1>18 DEF BadHeader, Ends
      <3> QED BY <3>1, <3>2, <2>1 DEF AddonTyped
    <2>3. AskedOnce'
      BY <1>18, <2>1 DEF BadHeader, Ends, stopService, AddonTyped, AskedOnce, Asking, StopKept
    <2>4. SocketKept'
      BY <1>18 DEF BadHeader, Ends, stopService, AddonTyped, AskedOnce, Asking, SocketKept, Assigned
    <2>5. StopKept'
      BY <1>18, <2>1 DEF BadHeader, Ends, stopService, AddonTyped, AskedOnce, Asking, StopKept
    <2> QED BY <2>2, <2>3, <2>4, <2>5
  <1>19. CASE ReadEnd
    <2>1. inbox' = inbox
      BY <1>19 DEF ReadEnd, Ends, stopService
    <2>2. AddonTyped'
      <3>1. stopper' \in {stopper, "begin"}
        BY <1>19 DEF ReadEnd, stopService
      <3>2. thread' = "ended" /\ socket' = "closed"
            /\ UNCHANGED <<binding, mService, mStopRequested, mSocketFd, mThread, main, reply, fd>>
        BY <1>19 DEF ReadEnd, Ends
      <3> QED BY <3>1, <3>2, <2>1 DEF AddonTyped
    <2>3. AskedOnce'
      BY <1>19, <2>1 DEF ReadEnd, Ends, stopService, AddonTyped, AskedOnce, Asking, StopKept
    <2>4. SocketKept'
      BY <1>19 DEF ReadEnd, Ends, stopService, AddonTyped, AskedOnce, Asking, SocketKept, Assigned
    <2>5. StopKept'
      BY <1>19, <2>1 DEF ReadEnd, Ends, stopService, AddonTyped, AskedOnce, Asking, StopKept
    <2> QED BY <2>2, <2>3, <2>4, <2>5
  <1>20. CASE ReadThrows
    <2>1. inbox' = inbox
      BY <1>20 DEF ReadThrows, Ends
    <2>2. AddonTyped'
      BY <1>20, <2>1 DEF ReadThrows, Ends, AddonTyped
    <2>3. AskedOnce'
      BY <1>20, <2>1 DEF ReadThrows, Ends, AddonTyped, AskedOnce, Asking, StopKept
    <2>4. SocketKept'
      BY <1>20 DEF ReadThrows, Ends, AddonTyped, AskedOnce, Asking, SocketKept, Assigned
    <2>5. StopKept'
      BY <1>20, <2>1 DEF ReadThrows, Ends, AddonTyped, AskedOnce, Asking, StopKept
    <2> QED BY <2>2, <2>3, <2>4, <2>5
  <1>21. CASE UserStop
    <2>1. inbox' = inbox
      BY <1>21 DEF UserStop
    <2>2. AddonTyped'
      BY <1>21, <2>1 DEF UserStop, AddonTyped
    <2>3. AskedOnce'
      BY <1>21, <2>1 DEF UserStop, AddonTyped, AskedOnce, Asking, StopKept
    <2>4. SocketKept'
      BY <1>21 DEF UserStop, AddonTyped, AskedOnce, Asking, SocketKept, Assigned
    <2>5. StopKept'
      BY <1>21, <2>1 DEF UserStop, AddonTyped, AskedOnce, Asking, StopKept
    <2> QED BY <2>2, <2>3, <2>4, <2>5
  <1>22. CASE TakeFd
    <2>1. inbox' = inbox
      BY <1>22 DEF TakeFd
    <2>2. AddonTyped'
      BY <1>22, <2>1 DEF TakeFd, AddonTyped
    <2>3. AskedOnce'
      BY <1>22, <2>1 DEF TakeFd, AddonTyped, AskedOnce, Asking, StopKept
    <2>4. SocketKept'
      BY <1>22 DEF TakeFd, AddonTyped, AskedOnce, Asking, SocketKept, Assigned
    <2>5. StopKept'
      BY <1>22, <2>1 DEF TakeFd, AddonTyped, AskedOnce, Asking, StopKept
    <2> QED BY <2>2, <2>3, <2>4, <2>5
  <1>23. CASE CloseFd
    <2>1. inbox' = inbox
      BY <1>23 DEF CloseFd
    <2>2. AddonTyped'
      <3>1. socket' \in {socket, "closed"}
        BY <1>23 DEF CloseFd
      <3>2. mSocketFd' \in BOOLEAN /\ stopper' = "stopProxy"
            /\ UNCHANGED <<binding, mService, mStopRequested, mThread, thread, main, reply, fd>>
        BY <1>23 DEF CloseFd
      <3> QED BY <3>1, <3>2, <2>1 DEF AddonTyped
    <2>3. AskedOnce'
      <3>1. socket' = socket \/ (fd /\ socket' = "closed")
        BY <1>23 DEF CloseFd
      <3>2. /\ UNCHANGED <<binding, thread, mThread, main, reply, slips>>
            /\ stopper = "clear"
        BY <1>23 DEF CloseFd
      <3>3. fd => socket # "none"
        BY DEF SocketKept, Assigned, AskedOnce
      <3> QED BY <3>1, <3>2, <3>3, <2>1 DEF AddonTyped, AskedOnce, Asking
    <2>4. SocketKept'
      BY <1>23 DEF CloseFd, AddonTyped, AskedOnce, Asking, SocketKept, Assigned
    <2>5. StopKept'
      BY <1>23, <2>1 DEF CloseFd, AddonTyped, AskedOnce, Asking, StopKept
    <2> QED BY <2>2, <2>3, <2>4, <2>5
  <1>24. CASE stopProxy
    <2>0. inbox' \in {inbox, Append(inbox, "stop")} /\ inbox \in Seq(Messages)
      BY <1>24 DEF stopProxy, SendStop, CanSend, AddonTyped
    <2>1. inbox' \in Seq(Messages) /\ OneCA(inbox') /\ (NoCA(inbox) <=> NoCA(inbox'))
      BY <2>0, InboxGrows DEF AskedOnce, Messages
    <2>2. AddonTyped'
      <3>1. mStopRequested' \in BOOLEAN
        <4>1. CASE CanSend
          BY <1>24, <4>1 DEF stopProxy, SendStop
        <4>2. CASE ~CanSend
          BY <1>24, <4>2 DEF stopProxy, SendStop, AddonTyped
        <4> QED BY <4>1, <4>2
      <3>2. stopper' = "disconnect"
            /\ UNCHANGED <<binding, mService, socket, mSocketFd, mThread, thread, main, reply, fd>>
        BY <1>24 DEF stopProxy
      <3> QED BY <3>1, <3>2, <2>1 DEF AddonTyped
    <2>3. AskedOnce'
      BY <1>24, <2>1 DEF stopProxy, SendStop, CanSend, AddonTyped, AskedOnce, Asking, StopKept
    <2>4. SocketKept'
      BY <1>24 DEF stopProxy, SendStop, CanSend, AddonTyped, AskedOnce, Asking, SocketKept, Assigned
    <2>5. StopKept'
      BY <1>24, <2>1 DEF stopProxy, SendStop, CanSend, AddonTyped, AskedOnce, Asking, StopKept
    <2> QED BY <2>2, <2>3, <2>4, <2>5
  <1>25. CASE DisconnectOnStop
    <2>1. inbox' = inbox
      BY <1>25 DEF DisconnectOnStop, disconnect
    <2>2. AddonTyped'
      <3>1. binding' \in {binding, "unbound"} /\ mService' \in BOOLEAN
        BY <1>25 DEF DisconnectOnStop, disconnect, AddonTyped
      <3>2. stopper' = "join"
            /\ UNCHANGED <<mStopRequested, socket, mSocketFd, mThread, thread, main, reply, fd>>
        BY <1>25 DEF DisconnectOnStop
      <3> QED BY <3>1, <3>2, <2>1 DEF AddonTyped
    <2>3. AskedOnce'
      BY <1>25, <2>1 DEF DisconnectOnStop, disconnect, AddonTyped, AskedOnce, Asking, StopKept
    <2>4. SocketKept'
      BY <1>25 DEF DisconnectOnStop, disconnect, AddonTyped, AskedOnce, Asking, SocketKept, Assigned
    <2>5. StopKept'
      BY <1>25, <2>1 DEF DisconnectOnStop, disconnect, AddonTyped, AskedOnce, Asking, StopKept
    <2> QED BY <2>2, <2>3, <2>4, <2>5
  <1>26. CASE Join
    <2>1. inbox' = inbox
      BY <1>26 DEF Join
    <2>2. AddonTyped'
      BY <1>26, <2>1 DEF Join, AddonTyped
    <2>3. AskedOnce'
      BY <1>26, <2>1 DEF Join, AddonTyped, AskedOnce, Asking, StopKept
    <2>4. SocketKept'
      BY <1>26 DEF Join, AddonTyped, AskedOnce, Asking, SocketKept, Assigned
    <2>5. StopKept'
      BY <1>26, <2>1 DEF Join, AddonTyped, AskedOnce, Asking, StopKept
    <2> QED BY <2>2, <2>3, <2>4, <2>5
  <1>28. CASE CreateThread
    <2>1. inbox' = inbox
      BY <1>28 DEF CreateThread
    <2>2. AddonTyped'
      BY <1>28, <2>1 DEF CreateThread, AddonTyped
    <2>3. AskedOnce'
      BY <1>28, <2>1 DEF CreateThread, AddonTyped, AskedOnce, Asking, StopKept
    <2>4. SocketKept'
      BY <1>28 DEF CreateThread, AddonTyped, AskedOnce, Asking, SocketKept, Assigned
    <2>5. StopKept'
      BY <1>28, <2>1 DEF CreateThread, AddonTyped, AskedOnce, Asking, StopKept
    <2> QED BY <2>2, <2>3, <2>4, <2>5
  <1>29. CASE ForgetThread
    <2>1. inbox' = inbox
      BY <1>29 DEF ForgetThread
    <2>2. AddonTyped'
      <3>1. mThread' \in BOOLEAN /\ stopper' = "done"
            /\ UNCHANGED <<binding, mService, mStopRequested, socket, mSocketFd, thread, main, reply, fd>>
        BY <1>29 DEF ForgetThread
      <3> QED BY <3>1, <2>1 DEF AddonTyped
    <2>3. AskedOnce'
      BY <1>29, <2>1 DEF ForgetThread, AddonTyped, AskedOnce, Asking, StopKept
    <2>4. SocketKept'
      BY <1>29 DEF ForgetThread, AddonTyped, AskedOnce, Asking, SocketKept, Assigned
    <2>5. StopKept'
      BY <1>29, <2>1 DEF ForgetThread, AddonTyped, AskedOnce, Asking, StopKept
    <2> QED BY <2>2, <2>3, <2>4, <2>5
  <1>27. CASE UNCHANGED addonVars
    <2>1. AddonTyped'
      BY <1>27 DEF addonVars, AddonTyped
    <2>2. AskedOnce'
      BY <1>27 DEF addonVars, AskedOnce, Asking
    <2>3. SocketKept'
      BY <1>27 DEF addonVars, SocketKept, Assigned
    <2>4. StopKept'
      BY <1>27 DEF addonVars, StopKept
    <2> QED BY <2>1, <2>2, <2>3, <2>4
  <1> QED BY <1>1, <1>2, <1>3, <1>4, <1>5, <1>6, <1>7, <1>8, <1>9, <1>10, <1>11, <1>12, <1>13,
             <1>14, <1>15, <1>16, <1>17, <1>18, <1>19, <1>20, <1>21, <1>22, <1>23, <1>24, <1>25, <1>26, <1>27,
             <1>28, <1>29, ZenonT(20)
             DEF AddonNext

(* Whatever the order of the callbacks, of the receiver thread and of      *)
(* MitmReceiver.stop: once they have run out the service is unbound and    *)
(* the socket closed, and nothing of this receiver has stopped a later     *)
(* capture, with the exceptions that the history names.                    *)
THEOREM AddonReleased ==
    AddonInit /\ [][AddonNext]_addonVars => []StoppedIsReleased
  <1>1. AddonInv => StoppedIsReleased
    BY DEF AddonInv, AddonTyped, AskedOnce, SocketKept, StopKept, StoppedIsReleased
  <1> QED BY <1>1, AddonStarts, AddonKeeps, PTL
=============================================================================
