--------------------------- MODULE VpnConnsProofs ---------------------------
(***************************************************************************)
(* The connections of the VPN, the malware blacklists and the dumper.      *)
(*                                                                         *)
(* The theorems about VpnConns hold for every bound, every set of tuples,  *)
(* with failing dumps and failing sockets: the memory safety of the        *)
(* callbacks, and what Java is told of the connections.                    *)
(*                                                                         *)
(* BlacklistsAccounted holds for every number of files, downloads and      *)
(* captures.  The inductive invariant says who owns the loaded blacklist:  *)
(* new_bl is NULL from the start of a reload until its worker has ended,   *)
(* and again once the reload has been ended by the capture thread, so that *)
(* neither the worker nor the next reload overwrites one.                  *)
(*                                                                         *)
(* SizeRespected holds of the dumper for every snap length, maximum size,  *)
(* buffer size and packet length.  The inductive invariant adds what the   *)
(* receiver has tested: only the receiver makes the key log longer, so the *)
(* room that it found without the mutex is still there when it has it.     *)
(***************************************************************************)
EXTENDS VpnConns, BlacklistsReload, PcapDump, ConnDataProofs, SequenceTheorems

\* Each leaf is tried with Zenon, then with SMT.
USE ZenonT(5), SMTT(15)

\* The data of an open connection has been allocated.
EntriesBorn == \A t \in Tuples : Open(t) => table[t].id < new_conn_id

\* The data of an open connection is not marked closed.
OpenActive == \A t \in Tuples : Open(t) => conn[table[t].id].status = "active"

\* The inductive invariant of memory safety.
MemInv ==
    /\ TypeOK
    /\ SlotsSafe
    /\ UserDataSafe
    /\ NoDanglingContext
    /\ Unborn
    /\ EntriesBorn
    /\ OpenActive

(* A connection and its data as the callbacks see them: live data in at    *)
(* most one slot, active and not due to be freed unless the connection is  *)
(* closed.                                                                 *)
ZLive == ZStatus \ {"none"}
Work == [d: Data, z: ZLive, fw: BOOLEAN]
Live(w) ==
    /\ w \in Work
    /\ w.d.mem = "alive"
    /\ SlotOK(w.d)
    /\ w.z # "closed" => ~w.d.to_purge /\ w.d.status = "active"

(* d follows from d0 by steps that Java will hear of: it stays in the      *)
(* arrays, and a change of its status is to be reported.                   *)
Changed(d0, d) ==
    /\ d.inNew = d0.inNew
    /\ Held(d0) => Held(d)
    /\ "STATS" \in d.update \/ (d.status = d0.status /\ d0.update \subseteq d.update)
    /\ d.to_purge => d.status = "closed"

\* A callback that started with d0 has come to w; a close is complete.
Good(d0, w) ==
    /\ Live(w)
    /\ Changed(d0, w.d)
    /\ w.z = "closed" /\ Held(d0) => Slots(w.d) > 0 /\ w.d.to_purge

\* Replacing the data of a connection by other live data.
LEMMA LiveData ==
    ASSUME NEW w, Live(w), NEW d \in Data, d.mem = "alive", SlotOK(d),
           w.z # "closed" => ~d.to_purge /\ d.status = "active"
    PROVE  LET n == [w EXCEPT !.d = d]
           IN  Live(n) /\ n.d = d /\ n.z = w.z /\ n.fw = w.fw
  BY DEF Live, Work

\* Changing the status.
LEMMA LiveStatus ==
    ASSUME NEW w, Live(w), NEW z \in ZLive, z = "closed" \/ w.z # "closed"
    PROVE  LET n == [w EXCEPT !.z = z]
           IN  Live(n) /\ n.d = w.d /\ n.z = z /\ n.fw = w.fw
  BY DEF Live, Work

\* Changing the packet context.
LEMMA LiveContext ==
    ASSUME NEW w, Live(w), NEW fw \in BOOLEAN
    PROVE  LET n == [w EXCEPT !.fw = fw]
           IN  Live(n) /\ n.d = w.d /\ n.z = w.z /\ n.fw = fw
  BY DEF Live, Work

\* pd_account_stats within a callback: there is an update to send.
LEMMA ChangeAccount ==
    ASSUME NEW d0 \in Data, NEW d \in Data, d.mem = "alive", SlotOK(d), Changed(d0, d),
           NEW r, r.guess \in Proto
    PROVE  LET n == pd_account_stats(d, r)
           IN  /\ n \in Data /\ n.mem = "alive" /\ SlotOK(n)
               /\ n.to_purge = d.to_purge /\ n.status = d.status
               /\ Changed(d0, n)
               /\ "STATS" \in n.update
               /\ Held(d0) => Slots(n) > 0
  <1> DEFINE n == pd_account_stats(d, r)
  <1>1. /\ n \in Data /\ n.mem = "alive" /\ SlotOK(n)
        /\ n.to_purge = d.to_purge /\ n.status = d.status
        /\ "STATS" \in n.update /\ n.inNew = d.inNew
        /\ Held(d) => Slots(n) > 0
    BY AccountLemma
  <1> HIDE DEF n
  <1>2. Changed(d0, n) /\ (Held(d0) => Slots(n) > 0)
    BY <1>1 DEF Changed, Held
  <1> QED BY <1>1, <1>2 DEF n

\* pd_process_packet within a callback.
LEMMA ChangeProcess ==
    ASSUME NEW d0 \in Data, NEW d \in Data, d.mem = "alive", SlotOK(d), Changed(d0, d),
           NEW r \in DpiResult
    PROVE  LET n == pd_process_packet(d, r)
           IN  /\ n \in Data /\ n.mem = "alive" /\ SlotOK(n)
               /\ n.to_purge = d.to_purge /\ n.status = d.status
               /\ Changed(d0, n)
  <1> DEFINE n == pd_process_packet(d, r)
  <1>1. /\ n \in Data /\ n.mem = "alive" /\ SlotOK(n)
        /\ n.to_purge = d.to_purge /\ n.status = d.status /\ n.inNew = d.inNew
        /\ Held(d) => Held(n)
        /\ d.update \subseteq n.update
    BY ProcessLemma
  <1> HIDE DEF n
  <1>2. Changed(d0, n)
    BY <1>1 DEF Changed
  <1> QED BY <1>1, <1>2 DEF n

\* connection_closed leaves the data of a closed connection live and queued.
LEMMA ClosedLemma ==
    ASSUME NEW d0 \in Data, NEW w, Live(w), Changed(d0, w.d), w.z = "closed",
           NEW r, r.guess \in Proto
    PROVE  LET n == connection_closed(w, r)
           IN  Good(d0, n) /\ n.z = "closed" /\ n.fw = w.fw /\ n.d.status = "closed"
  <1> DEFINE a == pd_account_stats(w.d, r)
             g == pd_giveup_dpi(a, r)
             s == [g EXCEPT !.status = "closed"]
             p == [s EXCEPT !.to_purge = TRUE]
             Told1(d) == /\ d \in Data /\ d.mem = "alive" /\ SlotOK(d) /\ d.inNew = d0.inNew
                         /\ "STATS" \in d.update
                         /\ Held(d0) => Held(d) /\ Slots(d) > 0
  <1>1. Told1(a)
    BY ChangeAccount DEF Live, Work, Held, Changed
  <1>2. Told1(g)
    <2> HIDE DEF a
    <2> QED BY <1>1 DEF pd_giveup_dpi, process_ndpi_data, Data, Flags, SlotOK, Slots, Held
  <1>3. Told1(s) /\ s.status = "closed"
    <2> HIDE DEF g
    <2> QED BY <1>2 DEF Data, Status, SlotOK, Slots, Held
  <1>4. Told1(p) /\ p.status = "closed" /\ p.to_purge
    <2> HIDE DEF s
    <2> QED BY <1>3 DEF Data, SlotOK, Slots, Held
  <1>5. connection_closed(w, r) = [w EXCEPT !.d = p]
    BY DEF connection_closed
  <1> DEFINE n == [w EXCEPT !.d = p]
  <1> HIDE DEF p
  <1>6. Live(n) /\ n.d = p /\ n.z = w.z /\ n.fw = w.fw
    BY <1>4, LiveData
  <1> HIDE DEF n
  <1>7. Good(d0, n)
    BY <1>4, <1>6 DEF Good, Changed
  <1>8. QED
    BY <1>4, <1>5, <1>6, <1>7 DEF n

\* remote2vpn keeps the connection and forgets the packet context.
LEMMA RemoteLemma ==
    ASSUME NEW d0 \in Data, NEW w, Good(d0, w), w.z # "closed", NEW r \in DpiResult, NEW out
    PROVE  LET n == remote2vpn(w, r, out)
           IN  Good(d0, n) /\ n.z = w.z /\ n.fw = FALSE
  <1> DEFINE x == IF w.fw THEN pd_account_stats(w.d, r) ELSE w.d
             p == pd_process_packet(x, r)
             q == IF out = "error" THEN p ELSE pd_account_stats(p, r)
             v == [w EXCEPT !.d = q]
             n == [v EXCEPT !.fw = FALSE]
             Fine(d) == /\ d \in Data /\ d.mem = "alive" /\ SlotOK(d) /\ Changed(d0, d)
                        /\ ~d.to_purge /\ d.status = "active"
  <1>0. r.guess \in Proto
    BY DEF DpiResult
  <1>1. Fine(x)
    BY <1>0, ChangeAccount DEF Good, Live, Work
  <1>2. Fine(p)
    <2> HIDE DEF x
    <2> QED BY <1>1, ChangeProcess, ZenonT(20)
  <1>3. Fine(q)
    <2> HIDE DEF p
    <2> QED BY <1>0, <1>2, ChangeAccount
  <1>4. Live(v) /\ v.z = w.z /\ v.d = q
    <2> HIDE DEF q
    <2> QED BY <1>3, LiveData DEF Good
  <1>5. remote2vpn(w, r, out) = n
    <2>1. remote2vpn(w, r, out) = [w EXCEPT !.d = q, !.fw = FALSE]
      BY DEF remote2vpn
    <2> HIDE DEF q
    <2> QED BY <2>1 DEF Good, Live, Work
  <1>6. Live(n) /\ n.d = q /\ n.z = w.z /\ n.fw = FALSE
    <2> HIDE DEF v, q
    <2> QED BY <1>4, LiveContext
  <1> HIDE DEF n, q
  <1>7. QED
    BY <1>3, <1>5, <1>6 DEF Good

\* update_conn_status changes nothing on a connection that is not closed.
LEMMA StatusLemma ==
    ASSUME NEW d0 \in Data, NEW w, Good(d0, w), w.z # "closed"
    PROVE  LET n == update_conn_status(w)
           IN  Good(d0, n) /\ n.z = w.z /\ n.fw = w.fw
  <1>1. w.d \in Data /\ ~w.d.to_purge /\ w.d.status = "active" /\ w \in Work
    BY DEF Good, Live, Work
  <1> DEFINE d == [w.d EXCEPT !.status = "active", !.to_purge = FALSE]
  <1>2. d = w.d
    BY <1>1 DEF Data
  <1>3. update_conn_status(w) = [w EXCEPT !.d = d]
    BY <1>1 DEF update_conn_status, Data
  <1>4. [w EXCEPT !.d = w.d] = w
    BY <1>1 DEF Work
  <1> HIDE DEF d
  <1>5. update_conn_status(w) = w
    BY <1>2, <1>3, <1>4
  <1>6. QED
    BY <1>5

(* send_to_client delivers the packet and keeps the connection open, or    *)
(* closes it.                                                              *)
LEMMA SendLemma ==
    ASSUME NEW d0 \in Data, NEW w, Good(d0, w), w.z # "closed", NEW r \in DpiResult, NEW out
    PROVE  LET n == send_to_client(w, r, out)
           IN  Good(d0, n) /\ n.z \in {w.z, "closed"} /\ n.fw = FALSE
  <1>0. r.guess \in Proto
    BY DEF DpiResult
  <1> DEFINE v == remote2vpn(w, r, out)
             c == [v EXCEPT !.z = "closed"]
  <1>1. Good(d0, v) /\ v.z = w.z /\ v.fw = FALSE
    BY RemoteLemma
  <1>2. Live(c) /\ Changed(d0, c.d) /\ c.z = "closed" /\ c.fw = FALSE
    <2> HIDE DEF v
    <2> QED BY <1>1, LiveStatus DEF ZLive, ZStatus, Good
  <1>3. send_to_client(w, r, out) =
          IF out = "sent" THEN update_conn_status(v) ELSE connection_closed(c, r)
    BY <1>1 DEF send_to_client, CloseQuietly
  <1> HIDE DEF v, c
  <1>4. QED
    BY <1>0, <1>1, <1>2, <1>3, ClosedLemma, StatusLemma

(* zdtun_conn_close, with the RST and the nested close it may cause, ends  *)
(* with a closed connection and live data.                                 *)
LEMMA CloseLemma ==
    ASSUME NEW d0 \in Data, NEW w, Good(d0, w), NEW r, r.guess \in Proto,
           NEW rst, rst = "none" \/ r \in DpiResult
    PROVE  LET n == zdtun_conn_close(w, r, rst)
           IN  /\ Good(d0, n) /\ n.z = "closed"
               /\ w.z # "closed" => n.d.status = "closed"
  <1>1. CASE w.z = "closed"
    BY <1>1 DEF zdtun_conn_close
  <1>2. CASE w.z # "closed"
    <2> DEFINE v == IF rst = "none" THEN w ELSE send_to_client(w, r, rst)
               c == [v EXCEPT !.z = "closed"]
    <2>1. Good(d0, v)
      BY <1>2, SendLemma
    <2>2. Live(c) /\ Changed(d0, c.d) /\ c.z = "closed"
      <3> HIDE DEF v
      <3> QED BY <2>1, LiveStatus DEF Good, ZLive, ZStatus
    <2>3. zdtun_conn_close(w, r, rst) = connection_closed(c, r)
      BY <1>2 DEF zdtun_conn_close
    <2> HIDE DEF c
    <2>4. QED
      BY <2>2, <2>3, ClosedLemma
  <1>3. QED
    BY <1>1, <1>2

\* CloseQuietly is zdtun_conn_close without a RST.
LEMMA QuietLemma ==
    ASSUME NEW w, NEW r
    PROVE  CloseQuietly(w, r) = zdtun_conn_close(w, r, "none")
  BY DEF CloseQuietly, zdtun_conn_close

\* The packet is given to zdtun_forward with a live connection.
LEMMA ForwardingLemma ==
    ASSUME NEW d0 \in Data, NEW w, Good(d0, w), w.z # "closed", NEW r \in DpiResult
    PROVE  LET n == Forwarding(w, r)
           IN  Good(d0, n) /\ n.z = "open" /\ n.fw = TRUE
  <1> DEFINE p == pd_process_packet(w.d, r)
             a == [w EXCEPT !.d = p]
             b == [a EXCEPT !.z = "open"]
             c == [b EXCEPT !.fw = TRUE]
  <1>1. /\ p \in Data /\ p.mem = "alive" /\ SlotOK(p) /\ Changed(d0, p)
        /\ ~p.to_purge /\ p.status = "active"
    BY ChangeProcess DEF Good, Live, Work
  <1>2. Forwarding(w, r) = update_conn_status([w EXCEPT !.d = p, !.z = "open", !.fw = TRUE])
    BY DEF Forwarding
  <1> HIDE DEF p
  <1>3. Live(a) /\ a.z = w.z /\ a.d = p
    BY <1>1, LiveData DEF Good
  <1>4. Live(b) /\ b.z = "open" /\ b.d = p
    <2> HIDE DEF a
    <2> QED BY <1>3, LiveStatus DEF ZLive, ZStatus
  <1>5. Good(d0, c) /\ c.z = "open" /\ c.fw = TRUE
    <2> HIDE DEF b
    <2> QED BY <1>1, <1>4, LiveContext DEF Good
  <1>6. c = [w EXCEPT !.d = p, !.z = "open", !.fw = TRUE]
    BY DEF Good, Live, Work
  <1>7. Forwarding(w, r) = update_conn_status(c)
    BY <1>2, <1>6
  <1> HIDE DEF c
  <1>8. QED
    BY <1>5, <1>7, StatusLemma

\* Accounting a packet on a connection, open or closed.
LEMMA AccountedLemma ==
    ASSUME NEW d0 \in Data, NEW w, Good(d0, w), NEW r \in DpiResult
    PROVE  LET n == [w EXCEPT !.d = pd_account_stats(w.d, r)]
           IN  Good(d0, n) /\ n.z = w.z /\ n.fw = w.fw
  <1> DEFINE d == pd_account_stats(w.d, r)
             n == [w EXCEPT !.d = d]
  <1>1. /\ d \in Data /\ d.mem = "alive" /\ SlotOK(d) /\ Changed(d0, d)
        /\ d.to_purge = w.d.to_purge /\ d.status = w.d.status
        /\ Held(d0) => Slots(d) > 0
    BY ChangeAccount DEF Good, Live, Work, DpiResult
  <1> HIDE DEF d
  <1>2. Live(n) /\ n.d = d /\ n.z = w.z /\ n.fw = w.fw
    BY <1>1, LiveData DEF Good, Live
  <1> HIDE DEF n
  <1>3. Good(d0, n)
    BY <1>1, <1>2 DEF Good
  <1> QED BY <1>2, <1>3 DEF n, d

\* After a successful forward no packet context is left.
LEMMA AccountForwardedLemma ==
    ASSUME NEW d0 \in Data, NEW w, Good(d0, w), NEW r \in DpiResult
    PROVE  LET n == AccountForwarded(w, r)
           IN  Good(d0, n) /\ n.z = w.z /\ n.fw = FALSE
  <1> DEFINE d == pd_account_stats(w.d, r)
             a == [w EXCEPT !.d = d]
             c == [a EXCEPT !.fw = FALSE]
  <1>1. Good(d0, a) /\ a.z = w.z
    BY AccountedLemma
  <1>2. AccountForwarded(w, r) = IF w.fw THEN [w EXCEPT !.d = d, !.fw = FALSE] ELSE w
    BY DEF AccountForwarded
  <1> HIDE DEF d
  <1>3. Good(d0, c) /\ c.z = w.z /\ c.fw = FALSE
    <2> HIDE DEF a
    <2> QED BY <1>1, LiveContext DEF Good
  <1>4. c = [w EXCEPT !.d = d, !.fw = FALSE]
    BY DEF Good, Live, Work
  <1> HIDE DEF c
  <1>5. QED
    BY <1>2, <1>3, <1>4 DEF Good, Live, Work

-----------------------------------------------------------------------------
\* MemInv, one connection at a time.
LEMMA MemInvPerConn ==
    MemInv <=> /\ TypeOK /\ UserDataSafe /\ NoDanglingContext /\ Unborn /\ EntriesBorn
               /\ OpenActive
               /\ \A i \in Ids : SlotOK(conn[i])
  BY DEF MemInv, SlotsSafe, SlotOK, Queued, Alive

\* The invariant holds at the start.
LEMMA MemInit == Init => MemInv
  <1> SUFFICES ASSUME Init PROVE MemInv
    OBVIOUS
  <1>1. NoData \in Data /\ Slots(NoData) = 0 /\ SlotOK(NoData)
    BY DEF NoData, Data, Status, Flags, Proto, Slots, SlotOK
  <1>2. 0 \in Ids
    BY ConnAssumption DEF Ids
  <1>3. TypeOK
    BY <1>1, <1>2, ConnAssumption
       DEF TypeOK, DataTypeOK, Init, DataInit, JavaConn, Status, Proto, Entry, ZStatus, NoEntry
  <1>4. \A t \in Tuples : ~Open(t)
    BY DEF Init, Open, NoEntry
  <1>5. QED
    BY <1>1, <1>3, <1>4, MemInvPerConn
       DEF Init, DataInit, UserDataSafe, NoDanglingContext, Unborn, EntriesBorn, OpenActive

\* zdtun_lookup returns a live connection that is not closed, without a context.
LEMMA LookupLemma ==
    ASSUME MemInv, NEW t \in Tuples, NEW r \in DpiResult
    PROVE  LET w == Lookup(t, r)
           IN  Good(w.d, w) /\ w.d \in Data /\ w.z # "closed" /\ w.fw = FALSE
  <1>0. ASSUME NEW w, Live(w), w.z # "closed" PROVE Good(w.d, w)
    BY <1>0 DEF Good, Live, Changed
  <1>1. CASE Open(t)
    <2>1. conn[table[t].id] \in Data /\ SlotOK(conn[table[t].id])
      BY MemInvPerConn DEF MemInv, TypeOK, DataTypeOK, Entry
    <2>2. /\ conn[table[t].id].mem = "alive" /\ ~conn[table[t].id].to_purge /\ ~table[t].fw
          /\ conn[table[t].id].status = "active"
      BY <1>1 DEF MemInv, UserDataSafe, NoDanglingContext, OpenActive, Alive
    <2>3. table[t].z \in {"new", "open"} /\ table[t].fw = FALSE
      BY <1>1, <2>2 DEF Open, MemInv, TypeOK, Entry
    <2> DEFINE w == Lookup(t, r)
    <2>4. Live(w) /\ w.d \in Data /\ w.z # "closed" /\ w.fw = FALSE
      BY <1>1, <2>1, <2>2, <2>3 DEF Lookup, Live, Work, ZLive, ZStatus
    <2> HIDE DEF w
    <2>5. QED
      BY <1>0, <2>4 DEF w
  <1>2. CASE ~Open(t)
    <2> DEFINE w == Lookup(t, r)
    <2>1. Live(w) /\ w.d \in Data /\ w.z # "closed" /\ w.fw = FALSE
      BY <1>2, NewConnLemma DEF Lookup, Live, Work, ZLive, ZStatus
    <2> HIDE DEF w
    <2>2. QED
      BY <1>0, <2>1 DEF w
  <1>3. QED
    BY <1>1, <1>2

(* Storing a live connection, without a context unless it is closed, keeps *)
(* the invariant.                                                          *)
LEMMA StoreLemma ==
    ASSUME MemInv, NEW t \in Tuples, NEW w, Live(w), w.fw => w.z = "closed", Store(t, w)
    PROVE  MemInv'
  <1> DEFINE k == IF Open(t) THEN table[t].id ELSE new_conn_id
             e == [id |-> k, z |-> w.z, fw |-> w.fw]
  <1>1. /\ Open(t) \/ new_conn_id < MaxConns
        /\ conn' = [conn EXCEPT ![k] = w.d]
        /\ table' = [table EXCEPT ![t] = e]
        /\ new_conn_id' = IF Open(t) THEN new_conn_id ELSE new_conn_id + 1
        /\ java' = java /\ running' = running
    BY DEF Store
  <1>2. k \in Ids
    BY <1>1, ConnAssumption DEF MemInv, TypeOK, DataTypeOK, Ids, Entry
  <1>3. e \in Entry /\ w.d \in Data /\ e.id = k /\ e.z = w.z /\ e.fw = w.fw
    BY <1>2 DEF Live, Work, ZLive, Entry
  <1>4. \A u \in Tuples : u # t /\ Open(u) => table[u].id # k
    BY DEF MemInv, TypeOK, DataTypeOK, UserDataSafe, EntriesBorn, Entry, Ids
  <1> HIDE DEF e, k
  <1>5. TypeOK'
    BY <1>1, <1>2, <1>3, ConnAssumption DEF MemInv, TypeOK, DataTypeOK
  <1>6. \A i \in Ids : SlotOK(conn'[i])
    BY <1>1, <1>2, <1>3, MemInvPerConn DEF MemInv, TypeOK, DataTypeOK, Live
  <1>7. k < new_conn_id' /\ new_conn_id <= new_conn_id'
    BY <1>1, <1>2 DEF k, MemInv, TypeOK, DataTypeOK, EntriesBorn, Ids
  <1>8. \A u \in Tuples : u # t => table'[u] = table[u] /\ (Open(u)' <=> Open(u))
    BY <1>1 DEF MemInv, TypeOK, Open
  <1>9. table'[t] = e /\ (Open(t)' => w.z # "closed")
    BY <1>1, <1>3 DEF MemInv, TypeOK, Open
  <1>10. Unborn' /\ EntriesBorn'
    <2>1. Unborn'
      BY <1>1, <1>2, <1>7 DEF MemInv, TypeOK, DataTypeOK, Unborn, Ids
    <2>2. EntriesBorn'
      BY <1>3, <1>5, <1>7, <1>8, <1>9 DEF MemInv, TypeOK, DataTypeOK, EntriesBorn, Ids, Entry
    <2> QED BY <2>1, <2>2
  <1>11. NoDanglingContext'
    BY <1>3, <1>8, <1>9 DEF MemInv, NoDanglingContext
  <1>12. UserDataSafe'
    <2>1. \A u \in Tuples : Open(u)' => Alive(table[u].id)' /\ ~conn'[table'[u].id].to_purge
      <3> SUFFICES ASSUME NEW u \in Tuples, Open(u)'
                   PROVE  conn'[table'[u].id].mem = "alive" /\ ~conn'[table'[u].id].to_purge
        BY DEF Alive
      <3>1. conn'[k] = w.d /\ \A i \in Ids : i # k => conn'[i] = conn[i]
        BY <1>1, <1>2 DEF MemInv, TypeOK, DataTypeOK
      <3>2. CASE u = t
        BY <1>3, <1>9, <3>1, <3>2 DEF Live
      <3>3. CASE u # t
        <4>1. table'[u] = table[u] /\ Open(u) /\ table[u].id # k /\ table[u].id \in Ids
          BY <1>4, <1>8, <3>3 DEF MemInv, TypeOK, Entry
        <4> QED BY <3>1, <4>1 DEF MemInv, UserDataSafe, Alive
      <3> QED BY <3>2, <3>3
    <2>2. \A u, v \in Tuples : Open(u)' /\ Open(v)' /\ table'[u].id = table'[v].id => u = v
      BY <1>3, <1>4, <1>8, <1>9 DEF MemInv, UserDataSafe
    <2> QED BY <2>1, <2>2 DEF UserDataSafe
  <1>13. OpenActive'
    <2> SUFFICES ASSUME NEW u \in Tuples, Open(u)' PROVE conn'[table'[u].id].status = "active"
      BY DEF OpenActive
    <2>1. conn'[k] = w.d /\ \A i \in Ids : i # k => conn'[i] = conn[i]
      BY <1>1, <1>2 DEF MemInv, TypeOK, DataTypeOK
    <2>2. CASE u = t
      BY <1>3, <1>9, <2>1, <2>2 DEF Live
    <2>3. CASE u # t
      <3>1. table'[u] = table[u] /\ Open(u) /\ table[u].id # k /\ table[u].id \in Ids
        BY <1>4, <1>8, <2>3 DEF MemInv, TypeOK, Entry
      <3> QED BY <2>1, <3>1 DEF MemInv, OpenActive
    <2> QED BY <2>2, <2>3
  <1>14. QED
    BY <1>5, <1>6, <1>10, <1>11, <1>12, <1>13 DEF MemInv, SlotsSafe, SlotOK, Queued, Alive

\* A packet or a socket event of the connection t.
Event(t, r) ==
    \/ ForwardOk(t, r)
    \/ \E out \in Outcomes : ForwardReply(t, r, out)
    \/ \E rst \in Rst(t) : ForwardClose(t, r, rst)
    \/ \E rst \in Rst(t) : ForwardFail(t, r, rst)
    \/ ForwardNoSocket(t, r)
    \/ \E spoof \in BOOLEAN : BlockedPacket(t, r, spoof)
    \/ \E out \in Outcomes, last \in BOOLEAN : SocketReply(t, r, out, last)
    \/ \E rst \in Rst(t) : SocketError(t, r, rst)

(* What a packet or a socket event of one connection stores: live data,    *)
(* and, unless open_socket has failed, a change that Java will hear of.    *)
Stored(t, r, n) ==
    /\ Store(t, n)
    /\ Live(n)
    /\ n.fw => n.z = "closed"
    /\ faulted' \/ (faulted' = faulted /\ Good(Lookup(t, r).d, n))

\* Every packet and socket event stores such a connection.
LEMMA PacketStores ==
    ASSUME MemInv, NEW t \in Tuples, NEW r \in DpiResult, Event(t, r)
    PROVE  \E n : Stored(t, r, n)
  <1> DEFINE d0 == Lookup(t, r).d
             w == Lookup(t, r)
             f == Forwarding(w, r)
             p == pd_process_packet(w.d, r)
  <1>0. r.guess \in Proto
    BY DEF DpiResult
  <1>1. d0 \in Data /\ Good(d0, w) /\ w.z # "closed" /\ w.fw = FALSE
    BY LookupLemma
  <1>2. Good(d0, f) /\ f.z = "open" /\ f.fw = TRUE
    <2> HIDE DEF w, d0
    <2> QED BY <1>1, ForwardingLemma
  <1>3. /\ p \in Data /\ p.mem = "alive" /\ SlotOK(p) /\ Changed(d0, p)
        /\ ~p.to_purge /\ p.status = "active"
    <2> HIDE DEF w, d0
    <2> QED BY <1>1, ChangeProcess DEF Good, Live, Work
  <1>S. ASSUME NEW n, Store(t, n), Good(d0, n), n.fw => n.z = "closed", faulted' = faulted
        PROVE  \E m : Stored(t, r, m)
    BY <1>S DEF Stored, Good
  <1>4. ASSUME ForwardOk(t, r) PROVE \E m : Stored(t, r, m)
    <2> DEFINE n == AccountForwarded(f, r)
    <2>1. Store(t, n) /\ faulted' = faulted
      BY <1>4 DEF ForwardOk
    <2> HIDE DEF f, d0
    <2>2. Good(d0, n) /\ n.fw = FALSE
      BY <1>1, <1>2, AccountForwardedLemma
    <2> HIDE DEF n
    <2> QED BY <2>1, <2>2, <1>S
  <1>5. ASSUME NEW out \in Outcomes, ForwardReply(t, r, out) PROVE \E m : Stored(t, r, m)
    <2> DEFINE n == send_to_client(f, r, out)
    <2>1. Store(t, n) /\ faulted' = faulted
      BY <1>5 DEF ForwardReply
    <2> HIDE DEF f, d0
    <2>2. Good(d0, n) /\ n.fw = FALSE
      BY <1>1, <1>2, SendLemma
    <2> HIDE DEF n
    <2> QED BY <2>1, <2>2, <1>S
  <1>6. ASSUME NEW rst \in Rst(t), ForwardClose(t, r, rst) PROVE \E m : Stored(t, r, m)
    <2> DEFINE c == zdtun_conn_close(f, r, rst)
               n == AccountForwarded(c, r)
    <2>1. Store(t, n) /\ faulted' = faulted
      BY <1>6 DEF ForwardClose
    <2> HIDE DEF f, d0
    <2>2. Good(d0, c)
      BY <1>0, <1>1, <1>2, CloseLemma
    <2> HIDE DEF c
    <2>3. Good(d0, n) /\ n.fw = FALSE
      BY <1>1, <2>2, AccountForwardedLemma
    <2> HIDE DEF n
    <2> QED BY <2>1, <2>3, <1>S
  <1>7. ASSUME NEW rst \in Rst(t), ForwardFail(t, r, rst) PROVE \E m : Stored(t, r, m)
    <2> DEFINE n == zdtun_conn_close(f, r, rst)
    <2>1. Store(t, n) /\ faulted' = faulted
      BY <1>7 DEF ForwardFail
    <2> HIDE DEF f, d0
    <2>2. Good(d0, n) /\ n.z = "closed"
      BY <1>0, <1>1, <1>2, CloseLemma
    <2> HIDE DEF n
    <2> QED BY <2>1, <2>2, <1>S
  <1>8. ASSUME ForwardNoSocket(t, r) PROVE \E m : Stored(t, r, m)
    <2> DEFINE n == [w EXCEPT !.d = p, !.z = "closed", !.fw = TRUE]
    <2>1. Store(t, n) /\ faulted' = TRUE
      BY <1>8 DEF ForwardNoSocket
    <2> HIDE DEF p, w
    <2>2. Live(n) /\ n.z = "closed"
      BY <1>1, <1>3 DEF Good, Live, Work, ZLive, ZStatus
    <2> HIDE DEF n
    <2> QED BY <2>1, <2>2 DEF Stored
  <1>9. ASSUME NEW spoof \in BOOLEAN, BlockedPacket(t, r, spoof) PROVE \E m : Stored(t, r, m)
    <2> DEFINE q == [w EXCEPT !.d = p]
               e == IF spoof THEN zdtun_conn_close(q, r, "none") ELSE q
               n == [e EXCEPT !.d = pd_account_stats(e.d, r)]
    <2>1. Store(t, n) /\ faulted' = faulted
      BY <1>9 DEF BlockedPacket
    <2>2. Good(d0, q) /\ q.fw = FALSE
      <3> HIDE DEF w, p, d0
      <3> QED BY <1>1, <1>3, LiveData DEF Good
    <2> HIDE DEF q, d0
    <2>3. Good(d0, e) /\ (e.fw => e.z = "closed")
      BY <1>0, <1>1, <2>2, CloseLemma
    <2> HIDE DEF e
    <2>4. Good(d0, n) /\ (n.fw => n.z = "closed")
      BY <1>1, <2>3, AccountedLemma
    <2> HIDE DEF n
    <2> QED BY <2>1, <2>4, <1>S
  <1>10. ASSUME NEW out \in Outcomes, NEW last \in BOOLEAN, SocketReply(t, r, out, last)
         PROVE  \E m : Stored(t, r, m)
    <2> DEFINE e == send_to_client(w, r, out)
               n == IF last THEN zdtun_conn_close(e, r, "none") ELSE e
    <2>1. Store(t, n) /\ faulted' = faulted
      BY <1>10, QuietLemma DEF SocketReply
    <2> HIDE DEF w, d0
    <2>2. Good(d0, e) /\ e.fw = FALSE
      BY <1>1, SendLemma
    <2> HIDE DEF e
    <2>3. Good(d0, n) /\ (n.fw => n.z = "closed")
      BY <1>0, <1>1, <2>2, CloseLemma
    <2> HIDE DEF n
    <2> QED BY <2>1, <2>3, <1>S
  <1>11. ASSUME NEW rst \in Rst(t), SocketError(t, r, rst) PROVE \E m : Stored(t, r, m)
    <2> DEFINE n == zdtun_conn_close(w, r, rst)
    <2>1. Store(t, n) /\ faulted' = faulted
      BY <1>11 DEF SocketError
    <2> HIDE DEF w, d0
    <2>2. Good(d0, n) /\ n.z = "closed"
      BY <1>0, <1>1, CloseLemma
    <2> HIDE DEF n
    <2> QED BY <2>1, <2>2, <1>S
  <1>12. QED
    BY <1>4, <1>5, <1>6, <1>7, <1>8, <1>9, <1>10, <1>11 DEF Event

\* Every packet and socket event of one connection keeps the invariant.
LEMMA MemPacket ==
    ASSUME MemInv, NEW t \in Tuples, NEW r \in DpiResult, NEW n, Stored(t, r, n)
    PROVE  MemInv'
  BY StoreLemma DEF Stored

\* The data d0 of an open connection has become d by the end of the connection.
EndedAs(d0, d) ==
    /\ d0.mem = "alive" /\ d.mem = "alive"
    /\ d.status = "closed"
    /\ Changed(d0, d)
    /\ Held(d0) => Slots(d) > 0 /\ d.to_purge

(* destroy_conn on any set of entries leaves every pd_conn_t well-formed,  *)
(* and touches only the ones of open connections.                          *)
LEMMA DestroyedLemma ==
    ASSUME MemInv, NEW gone \in SUBSET Tuples, NEW r, r.guess \in Proto,
           NEW rst, rst = "none" \/ r \in DpiResult
    PROVE  LET c == Destroyed(conn, gone, r, rst)
           IN  /\ c \in [Ids -> Data]
               /\ \A i \in Ids :
                    /\ SlotOK(c[i])
                    /\ (~ \E t \in gone : Open(t) /\ table[t].id = i) => c[i] = conn[i]
                    /\ (\E t \in gone : Open(t) /\ table[t].id = i) => EndedAs(conn[i], c[i])
  <1> DEFINE Hit(i) == \E t \in gone : Open(t) /\ table[t].id = i
             tup(i) == CHOOSE u \in gone : Open(u) /\ table[u].id = i
             wk(i) == [d |-> conn[i], z |-> table[tup(i)].z, fw |-> table[tup(i)].fw]
             rs(i) == IF tup(i) \in TcpTuples THEN rst ELSE "none"
             new(i) == zdtun_conn_close(wk(i), r, rs(i)).d
  <1>1. ASSUME NEW i \in Ids, Hit(i)
        PROVE  new(i) \in Data /\ SlotOK(new(i)) /\ EndedAs(conn[i], new(i))
    <2>1. tup(i) \in gone /\ Open(tup(i)) /\ table[tup(i)].id = i
      BY <1>1
    <2> DEFINE u == tup(i)
    <2> HIDE DEF u
    <2>2. u \in Tuples /\ Open(u) /\ table[u].id = i
      BY <2>1 DEF u
    <2>3. /\ conn[i] \in Data /\ SlotOK(conn[i]) /\ conn[i].mem = "alive" /\ ~conn[i].to_purge
          /\ conn[i].status = "active"
      BY <2>2, MemInvPerConn DEF MemInv, TypeOK, DataTypeOK, UserDataSafe, OpenActive, Alive
    <2>4. table[u].z \in ZLive /\ table[u].z # "closed" /\ table[u].fw \in BOOLEAN
      BY <2>2 DEF MemInv, TypeOK, Entry, Open, ZLive, ZStatus
    <2> DEFINE w == [d |-> conn[i], z |-> table[u].z, fw |-> table[u].fw]
               n == zdtun_conn_close(w, r, rs(i))
    <2>5. Good(conn[i], w) /\ w.z # "closed"
      BY <2>3, <2>4 DEF Good, Changed, Live, Work
    <2>6. rs(i) = "none" \/ r \in DpiResult
      OBVIOUS
    <2>7. new(i) = n.d
      BY DEF u
    <2> HIDE DEF w, rs
    <2>8. Good(conn[i], n) /\ n.z = "closed" /\ n.d.status = "closed"
      BY <2>3, <2>5, <2>6, CloseLemma
    <2> HIDE DEF n
    <2>9. QED
      BY <2>3, <2>7, <2>8 DEF Good, Live, Work, EndedAs
  <1>2. Destroyed(conn, gone, r, rst) = [i \in Ids |-> IF Hit(i) THEN new(i) ELSE conn[i]]
    BY DEF Destroyed
  <1>3. \A i \in Ids : conn[i] \in Data /\ SlotOK(conn[i])
    BY MemInvPerConn DEF MemInv, TypeOK, DataTypeOK
  <1> HIDE DEF new
  <1>4. QED
    BY <1>1, <1>2, <1>3

\* A purge of expired connections keeps the invariant.
LEMMA MemPurge ==
    ASSUME MemInv, NEW r \in DpiResult, NEW idle \in SUBSET {t \in Tuples : Open(t)},
           NEW rst, zdtun_purge_expired(idle, r, rst)
    PROVE  MemInv'
  <1> DEFINE gone == idle \cup {t \in Tuples : table[t].z = "closed"}
             c == Destroyed(conn, gone, r, rst)
  <1>1. r.guess \in Proto
    BY DEF DpiResult
  <1>2. /\ c \in [Ids -> Data]
        /\ \A i \in Ids : /\ SlotOK(c[i])
                          /\ (~ \E t \in gone : Open(t) /\ table[t].id = i) => c[i] = conn[i]
    <2>1. gone \in SUBSET Tuples
      OBVIOUS
    <2> HIDE DEF gone
    <2> QED BY <1>1, <2>1, DestroyedLemma
  <1>3. /\ conn' = c
        /\ table' = [t \in Tuples |-> IF t \in gone THEN NoEntry ELSE table[t]]
        /\ new_conn_id' = new_conn_id /\ java' = java /\ running' = running
    BY DEF zdtun_purge_expired
  <1> HIDE DEF c, gone
  <1>4. NoEntry \in Entry
    BY ConnAssumption DEF NoEntry, Entry, ZStatus, Ids
  <1>5. TypeOK'
    BY <1>2, <1>3, <1>4 DEF MemInv, TypeOK, DataTypeOK
  <1>6. \A t \in Tuples : Open(t)' => t \notin gone /\ Open(t) /\ table'[t] = table[t]
    BY <1>3 DEF Open, NoEntry
  <1>7. \A t \in Tuples : Open(t)' => conn'[table[t].id] = conn[table[t].id]
    BY <1>2, <1>3, <1>6 DEF MemInv, UserDataSafe, TypeOK, Entry, gone
  <1>8. UserDataSafe' /\ NoDanglingContext' /\ EntriesBorn' /\ OpenActive'
    BY <1>3, <1>6, <1>7, ZenonT(20)
       DEF MemInv, UserDataSafe, NoDanglingContext, EntriesBorn, OpenActive, Alive
  <1>9. Unborn'
    BY <1>2, <1>3 DEF MemInv, TypeOK, DataTypeOK, Unborn, EntriesBorn, Entry, Ids, gone
  <1>10. QED
    BY <1>2, <1>3, <1>5, <1>8, <1>9 DEF MemInv, SlotsSafe, SlotOK, Queued, Alive

\* A packet that is dropped keeps the invariant.
LEMMA MemSkipped ==
    ASSUME MemInv, NEW t \in Tuples, SkippedPacket(t)
    PROVE  MemInv'
  <1>1. /\ table' = [table EXCEPT ![t] = NoEntry] /\ ~Open(t)
        /\ UNCHANGED <<conn, new_conn_id, java, running>>
    BY DEF SkippedPacket, Open
  <1>2. NoEntry \in Entry
    BY ConnAssumption DEF NoEntry, Entry, ZStatus, Ids
  <1>3. \A u \in Tuples : (Open(u)' <=> Open(u)) /\ (Open(u) => table'[u] = table[u])
    BY <1>1 DEF Open, NoEntry, MemInv, TypeOK
  <1>4. TypeOK' /\ SlotsSafe' /\ Unborn'
    BY <1>1, <1>2 DEF MemInv, TypeOK, DataTypeOK, SlotsSafe, Unborn, Queued, Alive
  <1>5. UserDataSafe' /\ NoDanglingContext' /\ EntriesBorn' /\ OpenActive'
    BY <1>1, <1>3, ZenonT(20) DEF MemInv, UserDataSafe, NoDanglingContext, EntriesBorn, OpenActive, Alive
  <1>6. QED
    BY <1>4, <1>5 DEF MemInv

\* A switch to new lists keeps the invariant.
LEMMA MemReload ==
    ASSUME MemInv, NEW r \in DpiEnd, NEW changed \in SUBSET Tuples, ReloadLists(changed, r)
    PROVE  MemInv'
  <1>1. r.guess \in Proto
    BY DEF DpiEnd
  <1> DEFINE Hit(i) == \E t \in changed : Open(t) /\ table[t].id = i
  <1>2. ASSUME NEW i \in Ids
        PROVE  /\ conn[i] \in Data /\ SlotOK(conn[i])
               /\ Hit(i) => LET n == pd_account_stats(conn[i], r)
                            IN  /\ n \in Data /\ SlotOK(n) /\ n.mem = "alive"
                                /\ n.to_purge = conn[i].to_purge
                                /\ n.status = conn[i].status
                                /\ i < new_conn_id
    <2>1. conn[i] \in Data /\ SlotOK(conn[i])
      BY MemInvPerConn DEF MemInv, TypeOK, DataTypeOK
    <2>2. Hit(i) => conn[i].mem = "alive" /\ i < new_conn_id
      BY DEF MemInv, UserDataSafe, EntriesBorn, Alive
    <2>3. QED
      BY <1>1, <2>1, <2>2, AccountLemma
  <1>3. /\ conn' = [i \in Ids |-> IF Hit(i) THEN pd_account_stats(conn[i], r) ELSE conn[i]]
        /\ UNCHANGED <<new_conn_id, java, table, running>>
    BY DEF ReloadLists
  <1> HIDE DEF Hit
  <1>4. TypeOK' /\ \A i \in Ids : SlotOK(conn'[i])
    BY <1>2, <1>3 DEF MemInv, TypeOK, DataTypeOK
  <1>5. \A i \in Ids : /\ conn[i].mem = "alive" => conn'[i].mem = "alive"
                       /\ conn'[i].to_purge = conn[i].to_purge
                       /\ conn'[i].status = conn[i].status
                       /\ i >= new_conn_id => conn'[i] = conn[i]
    BY <1>2, <1>3 DEF MemInv, TypeOK, DataTypeOK, Ids
  <1>6. \A t \in Tuples : (Open(t)' <=> Open(t)) /\ table'[t] = table[t] /\ table[t].id \in Ids
    BY <1>3 DEF Open, MemInv, TypeOK, Entry
  <1>7. UserDataSafe' /\ NoDanglingContext' /\ EntriesBorn' /\ Unborn' /\ OpenActive'
    BY <1>3, <1>5, <1>6
       DEF MemInv, UserDataSafe, NoDanglingContext, EntriesBorn, Unborn, OpenActive, Alive
  <1>8. QED
    BY <1>4, <1>7 DEF MemInv, SlotsSafe, SlotOK, Queued, Alive

\* A dump of the connections keeps the invariant.
LEMMA MemDump == MemInv /\ SendDumpNow => MemInv'
  <1> SUFFICES ASSUME MemInv, SendDumpNow PROVE MemInv'
    OBVIOUS
  <1>1. conn \in [Ids -> Data] /\ java \in [Ids -> JavaConn]
    BY DEF MemInv, TypeOK, DataTypeOK
  <1>2. /\ conn' \in [Ids -> Data]
        /\ java' \in [Ids -> JavaConn]
        /\ \A i \in Ids : /\ Slots(conn'[i]) = 0
                          /\ (Slots(conn[i]) = 0 => conn'[i] = conn[i])
                          /\ conn'[i].to_purge = conn[i].to_purge
                          /\ conn'[i].status = conn[i].status
                          /\ (~conn[i].to_purge => conn'[i].mem = conn[i].mem)
    BY <1>1, DumpLemma DEF SendDumpNow, SendConnectionsDump
  <1>3. UNCHANGED <<new_conn_id, table, running>>
    BY DEF SendDumpNow, SendConnectionsDump
  <1>4. Slots(NoData) = 0
    BY DEF Slots, NoData
  <1>5. \A t \in Tuples : (Open(t)' <=> Open(t)) /\ table'[t] = table[t] /\ table[t].id \in Ids
    BY <1>3 DEF Open, MemInv, TypeOK, Entry
  <1>6. TypeOK' /\ Unborn' /\ EntriesBorn' /\ NoDanglingContext'
    BY <1>2, <1>3, <1>4, <1>5
       DEF MemInv, TypeOK, DataTypeOK, Unborn, EntriesBorn, NoDanglingContext
  <1>7. UserDataSafe' /\ OpenActive'
    BY <1>2, <1>5 DEF MemInv, UserDataSafe, OpenActive, Alive
  <1>8. QED
    BY <1>2, <1>6, <1>7 DEF MemInv, SlotsSafe, Queued, Alive

\* The end of the capture keeps the invariant.
LEMMA MemFinish ==
    ASSUME MemInv, NEW r \in DpiResult, NEW rst, Finish(r, rst)
    PROVE  MemInv'
  <1>1. r.guess \in Proto
    BY DEF DpiResult
  <1> DEFINE c == Destroyed(conn, Tuples, r, rst)
  <1>2. /\ c \in [Ids -> Data]
        /\ \A i \in Ids : (~ \E t \in Tuples : Open(t) /\ table[t].id = i) => c[i] = conn[i]
    BY <1>1, DestroyedLemma
  <1>3. DumpConnections(c, TRUE)
    BY DEF Finish
  <1>4. java \in [Ids -> JavaConn]
    BY DEF MemInv, TypeOK, DataTypeOK
  <1>5. /\ table' = [t \in Tuples |-> NoEntry] /\ running' = FALSE
        /\ new_conn_id' = new_conn_id
    BY DEF Finish
  <1> HIDE DEF c
  <1>6. /\ conn' \in [Ids -> Data]
        /\ java' \in [Ids -> JavaConn]
        /\ \A i \in Ids : /\ Slots(conn'[i]) = 0
                          /\ (Slots(c[i]) = 0 => conn'[i] = c[i])
    BY <1>2, <1>3, <1>4, DumpLemma
  <1>7. Slots(NoData) = 0 /\ NoEntry \in Entry
    BY ConnAssumption DEF Slots, NoData, NoEntry, Entry, ZStatus, Ids
  <1>8. \A t \in Tuples : ~Open(t)'
    BY <1>5 DEF Open, NoEntry
  <1>9. \A i \in Ids : i >= new_conn_id => c[i] = NoData
    BY <1>2 DEF MemInv, TypeOK, DataTypeOK, EntriesBorn, Unborn, Entry, Ids
  <1>10. TypeOK' /\ Unborn'
    BY <1>5, <1>6, <1>7, <1>9 DEF MemInv, TypeOK, DataTypeOK, Unborn
  <1>11. UserDataSafe' /\ NoDanglingContext' /\ EntriesBorn' /\ OpenActive'
    BY <1>8 DEF UserDataSafe, NoDanglingContext, EntriesBorn, OpenActive
  <1>12. QED
    BY <1>6, <1>10, <1>11 DEF MemInv, SlotsSafe, Queued, Alive

\* Every step keeps the invariant.
LEMMA MemNext == MemInv /\ [Next]_vars => MemInv'
  <1> SUFFICES ASSUME MemInv, [Next]_vars PROVE MemInv'
    OBVIOUS
  <1>1. ASSUME NEW t \in Tuples, NEW r \in DpiResult, Event(t, r) PROVE MemInv'
    BY <1>1, PacketStores, MemPacket
  <1>2. ASSUME NEW r \in DpiResult, NEW idle \in SUBSET {t \in Tuples : Open(t)}, NEW rst,
               zdtun_purge_expired(idle, r, rst)
        PROVE  MemInv'
    BY <1>2, MemPurge
  <1>3. ASSUME NEW r \in DpiEnd, NEW changed \in SUBSET {t \in Tuples : Open(t)},
               ReloadLists(changed, r)
        PROVE  MemInv'
    BY <1>3, MemReload
  <1>4. ASSUME NEW r \in DpiResult, NEW rst, Finish(r, rst) PROVE MemInv'
    BY <1>4, MemFinish
  <1>5. CASE UNCHANGED vars
    BY <1>5 DEF vars, MemInv, TypeOK, DataTypeOK, SlotsSafe, UserDataSafe, NoDanglingContext,
         Unborn, EntriesBorn, OpenActive, Queued, Alive, Open
  <1>6. QED
    BY <1>1, <1>2, <1>3, <1>4, <1>5, MemDump, MemSkipped DEF Next, Event

(* In the VPN capture no array slot and no open zdtun connection ever      *)
(* points to freed data, no data is in two slots or two connections, and   *)
(* the packet context of an earlier iteration is never accounted: the      *)
(* callbacks may nest, sockets and dumps may fail.                         *)
THEOREM MemorySafety == Spec => [](TypeOK /\ SlotsSafe /\ CallbacksSafe)
  <1>1. MemInv => TypeOK /\ SlotsSafe /\ CallbacksSafe
    BY DEF MemInv, CallbacksSafe
  <1>2. QED
    BY <1>1, MemInit, MemNext, PTL DEF Spec

-----------------------------------------------------------------------------
(* What Java was told, and that nothing is lost.                           *)

SyncInv == MemInv /\ (~faulted => AllTold /\ InOrder /\ NoLeak)

\* What the lemmas below conclude of one step.
InSync == AllTold /\ InOrder /\ NoLeak

\* Nothing has been told and nothing allocated.
LEMMA SyncInit == Init => SyncInv
  <1> SUFFICES ASSUME Init PROVE SyncInv
    OBVIOUS
  <1>1. AllTold
    BY DEF Init, DataInit, AllTold, Told, NoData, Ids
  <1>2. InOrder /\ NoLeak
    BY DEF Init, DataInit, InOrder, NoLeak, Alive, NoData
  <1> QED BY <1>1, <1>2, MemInit DEF SyncInv

\* A callback that Java will hear of keeps a live connection told.
LEMMA ToldChanged ==
    ASSUME NEW d0 \in Data, NEW d \in Data, NEW j \in JavaConn, NEW born \in BOOLEAN,
           Told(d0, j, born), d0.mem = "alive", d.mem = "alive", Changed(d0, d)
    PROVE  Told(d, j, born) /\ Held(d)
  <1>1. Held(d)
    BY DEF Told, Changed
  <1> QED BY <1>1, ToldChange, ZenonT(20) DEF Changed

(* A packet or a socket event: a new connection is in new_conns, and one   *)
(* that ends waits for the dump.                                           *)
LEMMA SyncStored ==
    ASSUME MemInv, InSync, NEW t \in Tuples, NEW r \in DpiResult, NEW n, Stored(t, r, n), ~faulted'
    PROVE  InSync'
  <1> DEFINE k == IF Open(t) THEN table[t].id ELSE new_conn_id
             d0 == Lookup(t, r).d
             d == n.d
  <1>1. /\ Open(t) \/ new_conn_id < MaxConns
        /\ conn' = [conn EXCEPT ![k] = n.d]
        /\ table' = [table EXCEPT ![t] = [id |-> k, z |-> n.z, fw |-> n.fw]]
        /\ new_conn_id' = IF Open(t) THEN new_conn_id ELSE new_conn_id + 1
        /\ java' = java
    BY DEF Stored, Store
  <1>2. /\ k \in Ids /\ java[k] \in JavaConn /\ new_conn_id \in Nat
        /\ conn \in [Ids -> Data] /\ table \in [Tuples -> Entry]
    BY <1>1, ConnAssumption DEF MemInv, TypeOK, DataTypeOK, Ids, Entry
  <1>3. /\ Changed(d0, d) /\ d0 \in Data /\ d \in Data /\ d0.mem = "alive" /\ d.mem = "alive"
        /\ n.z = "closed" /\ Held(d0) => Slots(d) > 0 /\ d.to_purge
        /\ n.z \in {"new", "open", "closed"}
    <2>1. d0 \in Data /\ d0.mem = "alive"
      BY LookupLemma DEF Good, Live
    <2>2. Good(d0, n)
      BY DEF Stored
    <2> HIDE DEF d0
    <2> QED BY <2>1, <2>2 DEF Good, Live, Work, ZLive, ZStatus
  <1>4. Held(d0) /\ Told(d, java[k], k < new_conn_id')
    <2>1. CASE Open(t)
      <3> DEFINE born == k < new_conn_id
                 j == java[k]
      <3>1. d0 = conn[k] /\ (k < new_conn_id') = born
        BY <1>1, <2>1 DEF Lookup
      <3>2. Told(d0, j, born) /\ born \in BOOLEAN /\ j \in JavaConn
        BY <1>2, <3>1 DEF InSync, AllTold
      <3> HIDE DEF born, j, d0, d, k
      <3>3. Told(d, j, born) /\ Held(d0)
        BY <1>3, <3>2, ToldChanged DEF Told
      <3> QED BY <3>1, <3>3 DEF j
    <2>2. CASE ~Open(t)
      <3>1. d0 = pd_new_connection(r)
        BY <2>2 DEF Lookup
      <3>2. d0.status = "active" /\ d0.inNew = 1 /\ Held(d0)
        BY <3>1, NewConnLemma
      <3>3. ~java[k].known /\ java[k].status = "active"
        BY <1>2, <2>2 DEF InSync, AllTold, Told
      <3> DEFINE born == k < new_conn_id'
                 j == java[k]
      <3>4. born \in BOOLEAN /\ born
        BY <1>1, <1>2, <2>2
      <3> HIDE DEF born, d0, d, k
      <3>5. /\ d.inNew > 0 /\ Held(d) /\ ("STATS" \in d.update \/ d.status = "active")
            /\ d.to_purge => d.status = "closed"
        BY <1>3, <3>2 DEF Changed
      <3>6. Told(d, java[k], born)
        BY <1>2, <1>3, <3>3, <3>4, <3>5, ToldNew
      <3> QED BY <3>2, <3>6 DEF born
    <2> QED BY <2>1, <2>2
  <1>5. \A i \in Ids \ {k} : (i < new_conn_id') = (i < new_conn_id)
    BY <1>1, <1>2 DEF Ids
  <1> HIDE DEF d0
  <1>6. AllTold'
    <2>1. ASSUME NEW i \in Ids PROVE Told(conn'[i], java'[i], i < new_conn_id')
      <3>1. CASE i = k
        BY <1>1, <1>2, <1>4, <3>1
      <3>2. CASE i # k
        <4>1. conn'[i] = conn[i] /\ java'[i] = java[i] /\ (i < new_conn_id') = (i < new_conn_id)
          BY <1>1, <1>2, <1>5, <3>2
        <4>2. Told(conn[i], java[i], i < new_conn_id)
          BY DEF InSync, AllTold
        <4> QED BY <4>1, <4>2
      <3> QED BY <3>1, <3>2
    <2> QED BY <2>1 DEF AllTold
  <1>7. InOrder'
    BY <1>1 DEF InSync, InOrder
  <1>8. NoLeak'
    <2> SUFFICES ASSUME NEW i \in Ids, conn'[i].mem = "alive"
                 PROVE  \/ \E u \in Tuples : Open(u)' /\ table'[u].id = i
                        \/ Slots(conn'[i]) > 0 /\ conn'[i].to_purge
      BY DEF NoLeak, Alive, Queued
    <2>1. table'[t].id = k /\ table'[t].z = n.z
      BY <1>1, <1>2
    <2>2. CASE i = k
      <3>1. conn'[i] = d
        BY <1>1, <1>2, <2>2
      <3>2. CASE n.z = "closed"
        BY <1>3, <1>4, <3>1, <3>2
      <3>3. CASE n.z # "closed"
        <4>1. Open(t)'
          BY <1>3, <2>1, <3>3 DEF Open
        <4> QED BY <2>1, <2>2, <4>1
      <3> QED BY <3>2, <3>3
    <2>3. CASE i # k
      <3>1. conn'[i] = conn[i]
        BY <1>1, <1>2, <2>3
      <3>2. \/ \E u \in Tuples : Open(u) /\ table[u].id = i
            \/ Slots(conn[i]) > 0 /\ conn[i].to_purge
        BY <3>1 DEF InSync, NoLeak, Alive, Queued
      <3>3. ASSUME NEW u \in Tuples, Open(u), table[u].id = i
            PROVE  Open(u)' /\ table'[u].id = i
        <4>1. u # t
          BY <2>3, <3>3
        <4> QED BY <1>1, <1>2, <3>3, <4>1 DEF Open
      <3> QED BY <3>1, <3>2, <3>3
    <2> QED BY <2>2, <2>3
  <1> QED BY <1>6, <1>7, <1>8 DEF InSync

\* destroy_conn on any set of entries.
LEMMA DestroyedTold ==
    ASSUME MemInv, InSync, NEW gone \in SUBSET Tuples, NEW r \in DpiResult, NEW rst
    PROVE  LET c == Destroyed(conn, gone, r, rst)
           IN  /\ c \in [Ids -> Data]
               /\ \A i \in Ids :
                    /\ SlotOK(c[i]) /\ Told(c[i], java[i], i < new_conn_id)
                    /\ \/ c[i] = conn[i] /\ (~ \E t \in gone : Open(t) /\ table[t].id = i)
                       \/ Slots(c[i]) > 0 /\ c[i].to_purge /\ c[i].status = "closed"
  <1> DEFINE c == Destroyed(conn, gone, r, rst)
             Hit(i) == \E t \in gone : Open(t) /\ table[t].id = i
  <1>0. r.guess \in Proto
    BY DEF DpiResult
  <1>1. /\ c \in [Ids -> Data]
        /\ \A i \in Ids : /\ SlotOK(c[i])
                          /\ ~Hit(i) => c[i] = conn[i]
                          /\ Hit(i) => EndedAs(conn[i], c[i])
    BY <1>0, DestroyedLemma
  <1> HIDE DEF c, Hit
  <1>2. ASSUME NEW i \in Ids
        PROVE  /\ Told(c[i], java[i], i < new_conn_id)
               /\ \/ c[i] = conn[i] /\ ~Hit(i)
                  \/ Slots(c[i]) > 0 /\ c[i].to_purge /\ c[i].status = "closed"
    <2> DEFINE born == i < new_conn_id
               j == java[i]
               d0 == conn[i]
               d == c[i]
    <2>1. d0 \in Data /\ d \in Data /\ j \in JavaConn /\ born \in BOOLEAN
      BY <1>1 DEF MemInv, TypeOK, DataTypeOK
    <2>2. Told(d0, j, born) /\ (~Hit(i) => d = d0) /\ (Hit(i) => EndedAs(d0, d))
      BY <1>1 DEF InSync, AllTold
    <2> HIDE DEF born, j, d0, d
    <2>3. CASE Hit(i)
      <3>1. Told(d, j, born)
        BY <2>1, <2>2, <2>3, ToldChanged DEF EndedAs
      <3>2. Slots(d) > 0 /\ d.to_purge /\ d.status = "closed"
        BY <2>2, <2>3 DEF EndedAs, Told
      <3> QED BY <3>1, <3>2 DEF born, j, d
    <2>4. CASE ~Hit(i)
      <3>1. Told(d, j, born) /\ d = d0
        BY <2>2, <2>4
      <3> QED BY <2>4, <3>1 DEF born, j, d0, d
    <2> QED BY <2>3, <2>4
  <1> QED BY <1>1, <1>2 DEF c, Hit

\* The purge of the closed and the idle entries.
LEMMA SyncPurge ==
    ASSUME MemInv, InSync, NEW r \in DpiResult, NEW idle \in SUBSET {t \in Tuples : Open(t)},
           NEW rst, zdtun_purge_expired(idle, r, rst)
    PROVE  InSync'
  <1> DEFINE gone == idle \cup {t \in Tuples : table[t].z = "closed"}
             c == Destroyed(conn, gone, r, rst)
  <1>1. gone \in SUBSET Tuples
    OBVIOUS
  <1>2. /\ conn' = c
        /\ table' = [t \in Tuples |-> IF t \in gone THEN NoEntry ELSE table[t]]
        /\ new_conn_id' = new_conn_id /\ java' = java
    BY DEF zdtun_purge_expired
  <1> HIDE DEF gone
  <1>3. \A i \in Ids :
          /\ Told(c[i], java[i], i < new_conn_id)
          /\ \/ c[i] = conn[i] /\ (~ \E t \in gone : Open(t) /\ table[t].id = i)
             \/ Slots(c[i]) > 0 /\ c[i].to_purge
    BY <1>1, DestroyedTold
  <1> HIDE DEF c
  <1>4. AllTold' /\ InOrder'
    BY <1>2, <1>3 DEF InSync, AllTold, InOrder
  <1>5. NoLeak'
    <2> SUFFICES ASSUME NEW i \in Ids, c[i].mem = "alive"
                 PROVE  \/ \E t \in Tuples : Open(t)' /\ table'[t].id = i
                        \/ Slots(c[i]) > 0 /\ c[i].to_purge
      BY <1>2 DEF NoLeak, Alive, Queued
    <2>1. CASE Slots(c[i]) > 0 /\ c[i].to_purge
      BY <2>1
    <2>2. CASE c[i] = conn[i] /\ ~ \E t \in gone : Open(t) /\ table[t].id = i
      <3>1. ASSUME NEW t \in Tuples, Open(t), table[t].id = i PROVE Open(t)' /\ table'[t].id = i
        BY <1>2, <2>2, <3>1 DEF Open
      <3> QED BY <2>2, <3>1 DEF InSync, NoLeak, Alive, Queued
    <2> QED BY <1>3, <2>1, <2>2
  <1> QED BY <1>4, <1>5 DEF InSync

\* The destruction of a closed entry.
LEMMA SyncSkipped ==
    ASSUME MemInv, InSync, NEW t \in Tuples, SkippedPacket(t)
    PROVE  InSync'
  <1>1. /\ table' = [table EXCEPT ![t] = NoEntry] /\ ~Open(t)
        /\ UNCHANGED <<conn, new_conn_id, java>>
    BY DEF SkippedPacket, Open
  <1>2. \A u \in Tuples : Open(u) => Open(u)' /\ table'[u] = table[u]
    BY <1>1 DEF Open, MemInv, TypeOK
  <1>3. AllTold' /\ InOrder'
    BY <1>1 DEF InSync, AllTold, InOrder
  <1>4. NoLeak'
    <2> SUFFICES ASSUME NEW i \in Ids, conn[i].mem = "alive"
                 PROVE  \/ \E u \in Tuples : Open(u)' /\ table'[u].id = i
                        \/ Slots(conn[i]) > 0 /\ conn[i].to_purge
      BY <1>1 DEF NoLeak, Alive, Queued
    <2> QED BY <1>2 DEF InSync, NoLeak, Alive, Queued
  <1> QED BY <1>3, <1>4 DEF InSync

\* A new list: the connections whose verdict changes are accounted.
LEMMA SyncReload ==
    ASSUME MemInv, InSync, NEW r \in DpiEnd, NEW changed \in SUBSET Tuples, ReloadLists(changed, r)
    PROVE  InSync'
  <1>1. r.guess \in Proto
    BY DEF DpiEnd
  <1> DEFINE Hit(i) == \E t \in changed : Open(t) /\ table[t].id = i
  <1>2. /\ conn' = [i \in Ids |-> IF Hit(i) THEN pd_account_stats(conn[i], r) ELSE conn[i]]
        /\ UNCHANGED <<new_conn_id, java, table>>
    BY DEF ReloadLists
  <1>3. \A i \in Ids : Hit(i) => conn[i].mem = "alive" /\ ~conn[i].to_purge
    BY DEF MemInv, UserDataSafe, Alive
  <1>4. \A i \in Ids : Hit(i) => \E t \in Tuples : Open(t) /\ table[t].id = i
    OBVIOUS
  <1> HIDE DEF Hit
  <1>5. ASSUME NEW i \in Ids
        PROVE  Told(conn'[i], java[i], i < new_conn_id)
    <2> DEFINE born == i < new_conn_id
               j == java[i]
               d == conn[i]
               n == pd_account_stats(d, r)
    <2>1. d \in Data /\ SlotOK(d) /\ j \in JavaConn /\ born \in BOOLEAN
      BY MemInvPerConn DEF MemInv, TypeOK, DataTypeOK
    <2>2. Told(d, j, born) /\ (Hit(i) => d.mem = "alive" /\ ~d.to_purge)
      BY <1>3 DEF InSync, AllTold
    <2>3. conn'[i] = IF Hit(i) THEN n ELSE d
      BY <1>2
    <2> HIDE DEF born, j, d
    <2>4. Hit(i) => Told(n, j, born)
      <3> SUFFICES ASSUME Hit(i) PROVE Told(n, j, born)
        OBVIOUS
      <3>1. Changed(d, d)
        BY <2>2 DEF Changed
      <3>2. n \in Data /\ n.mem = "alive" /\ Changed(d, n)
        BY <1>1, <2>1, <2>2, <3>1, ChangeAccount
      <3> HIDE DEF n
      <3> QED BY <2>1, <2>2, <3>2, ToldChanged
    <2> HIDE DEF n
    <2> QED BY <2>2, <2>3, <2>4 DEF born, j
  <1>6. AllTold' /\ InOrder'
    BY <1>2, <1>5 DEF InSync, AllTold, InOrder
  <1>7. NoLeak'
    <2> SUFFICES ASSUME NEW i \in Ids, conn'[i].mem = "alive"
                 PROVE  \/ \E t \in Tuples : Open(t) /\ table[t].id = i
                        \/ Slots(conn'[i]) > 0 /\ conn'[i].to_purge
      BY <1>2 DEF NoLeak, Alive, Queued, Open
    <2>1. ~Hit(i) => conn'[i] = conn[i]
      BY <1>2
    <2> QED BY <1>4, <2>1 DEF InSync, NoLeak, Alive, Queued
  <1> QED BY <1>6, <1>7 DEF InSync

(* The dump: one that fails is recorded, one that succeeds tells Java of   *)
(* everything that is queued and frees what is to be purged.               *)
LEMMA SyncDump ==
    ASSUME MemInv, InSync, SendDumpNow, ~faulted'
    PROVE  InSync'
  <1>1. SendDump(conn, FALSE) /\ UNCHANGED <<new_conn_id, table>>
    BY DEF SendDumpNow, SendConnectionsDump, DumpConnections, FailedDump
  <1>2. DataTypeOK /\ conn \in [Ids -> Data] /\ java \in [Ids -> JavaConn]
    BY DEF MemInv, TypeOK, DataTypeOK
  <1>3. \A i \in Ids : SlotOK(conn[i]) /\ Told(conn[i], java[i], i < new_conn_id)
    BY MemInvPerConn DEF InSync, AllTold
  <1>4. /\ AllTold' /\ InOrder'
        /\ \A i \in Ids : Slots(conn[i]) > 0 /\ conn[i].to_purge => conn'[i].mem = "freed"
    BY <1>1, <1>2, <1>3, AllToldDump
  <1>5. \A i \in Ids : Slots(conn[i]) = 0 => conn'[i] = conn[i]
    BY <1>1, <1>2, DumpLemma DEF DumpConnections
  <1>6. NoLeak'
    <2> SUFFICES ASSUME NEW i \in Ids, conn'[i].mem = "alive"
                 PROVE  \E t \in Tuples : Open(t) /\ table[t].id = i
      BY <1>1 DEF NoLeak, Alive, Open
    <2>1. Slots(conn[i]) \in Nat
      BY <1>2 DEF Slots, Data
    <2>2. CASE Slots(conn[i]) = 0
      BY <1>5, <2>2 DEF InSync, NoLeak, Alive, Queued
    <2>3. CASE Slots(conn[i]) > 0
      <3>1. ~conn[i].to_purge
        BY <1>4, <2>3
      <3>2. conn[i].mem = "alive"
        BY <1>3, <2>3 DEF SlotOK
      <3> QED BY <3>1, <3>2 DEF InSync, NoLeak, Alive
    <2> QED BY <2>1, <2>2, <2>3
  <1> QED BY <1>4, <1>6 DEF InSync

(* The end of the capture: every connection has been closed, and is freed  *)
(* once the last dump has told Java.                                       *)
LEMMA SyncFinish ==
    ASSUME MemInv, InSync, NEW r \in DpiResult, NEW rst, Finish(r, rst), ~faulted'
    PROVE  InSync'
  <1> DEFINE c == Destroyed(conn, Tuples, r, rst)
  <1>1. /\ c \in [Ids -> Data]
        /\ \A i \in Ids :
             /\ SlotOK(c[i]) /\ Told(c[i], java[i], i < new_conn_id)
             /\ \/ c[i] = conn[i] /\ (~ \E t \in Tuples : Open(t) /\ table[t].id = i)
                \/ Slots(c[i]) > 0 /\ c[i].to_purge /\ c[i].status = "closed"
    BY DestroyedTold
  <1>2. SendDump(c, TRUE) /\ new_conn_id' = new_conn_id
    BY DEF Finish, DumpConnections, FailedDump
  <1>3. DataTypeOK /\ java \in [Ids -> JavaConn]
    BY DEF MemInv, TypeOK, DataTypeOK
  <1> HIDE DEF c
  <1>4. \A i \in Ids : c[i].mem = "alive" => Slots(c[i]) > 0 /\ c[i].to_purge
    BY <1>1 DEF InSync, NoLeak, Alive, Queued
  <1>5. \A i \in Ids : Slots(c[i]) > 0 => c[i].status = "closed"
    BY <1>1, <1>4 DEF SlotOK, Told
  <1>6. /\ AllTold' /\ InOrder'
        /\ \A i \in Ids : Slots(c[i]) > 0 => conn'[i].mem = "freed"
    BY <1>1, <1>2, <1>3, <1>5, AllToldDump
  <1>7. \A i \in Ids : Slots(c[i]) = 0 => conn'[i] = c[i]
    BY <1>1, <1>2, <1>3, DumpLemma DEF DumpConnections
  <1>8. NoLeak'
    <2> SUFFICES ASSUME NEW i \in Ids, conn'[i].mem = "alive" PROVE FALSE
      BY DEF NoLeak, Alive
    <2>1. Slots(c[i]) \in Nat
      BY <1>1 DEF Slots, Data
    <2> QED BY <1>4, <1>6, <1>7, <2>1
  <1> QED BY <1>6, <1>8 DEF InSync

\* Every step keeps Java in sync, unless it fails.
LEMMA SyncNext == SyncInv /\ [Next]_vars => SyncInv'
  <1> SUFFICES ASSUME SyncInv, [Next]_vars, ~faulted' PROVE InSync'
    BY MemNext DEF SyncInv, InSync
  <1>1. ASSUME NEW t \in Tuples, NEW r \in DpiResult, Event(t, r) PROVE InSync'
    <2>1. PICK n : Stored(t, r, n)
      BY <1>1, PacketStores DEF SyncInv
    <2>2. ~faulted
      BY <2>1 DEF Stored
    <2> QED BY <2>1, <2>2, SyncStored DEF SyncInv, InSync
  <1>2. ASSUME NEW r \in DpiResult, NEW idle \in SUBSET {t \in Tuples : Open(t)}, NEW rst,
               zdtun_purge_expired(idle, r, rst)
        PROVE  InSync'
    <2>1. ~faulted
      BY <1>2 DEF zdtun_purge_expired
    <2> QED BY <1>2, <2>1, SyncPurge DEF SyncInv, InSync
  <1>3. ASSUME NEW r \in DpiEnd, NEW changed \in SUBSET {t \in Tuples : Open(t)},
               ReloadLists(changed, r)
        PROVE  InSync'
    <2>1. ~faulted
      BY <1>3 DEF ReloadLists
    <2> QED BY <1>3, <2>1, SyncReload DEF SyncInv, InSync
  <1>4. CASE SendDumpNow
    <2>1. ~faulted
      BY <1>4 DEF SendDumpNow, SendConnectionsDump, DumpConnections, SendDump, FailedDump
    <2> QED BY <1>4, <2>1, SyncDump DEF SyncInv, InSync
  <1>5. ASSUME NEW r \in DpiResult, NEW rst, Finish(r, rst) PROVE InSync'
    <2>1. ~faulted
      BY <1>5 DEF Finish, DumpConnections, SendDump, FailedDump
    <2> QED BY <1>5, <2>1, SyncFinish DEF SyncInv, InSync
  <1>6. ASSUME NEW t \in Tuples, SkippedPacket(t) PROVE InSync'
    <2>1. ~faulted
      BY <1>6 DEF SkippedPacket
    <2> QED BY <1>6, <2>1, SyncSkipped DEF SyncInv, InSync
  <1>7. CASE UNCHANGED vars
    BY <1>7 DEF vars, SyncInv, InSync, AllTold, InOrder, NoLeak, Alive, Queued, Open
  <1> QED BY <1>1, <1>2, <1>3, <1>4, <1>5, <1>6, <1>7 DEF Next, Event

(* In the VPN capture Java learns of the connections in order and without  *)
(* gaps, has their status unless an update is pending, and knows that a    *)
(* connection is closed before its data is released.                       *)
(* It holds until a JNI call fails in sendConnectionsDump or open_socket   *)
(* fails, whatever RSTs and nested closes the callbacks go through.        *)
THEOREM JavaTold == Spec => []JavaInSync
  <1>1. SyncInv => JavaInSync
    BY ToldInSync DEF SyncInv, MemInv, TypeOK
  <1> QED BY <1>1, SyncInit, SyncNext, PTL DEF Spec

(* In the VPN capture no data of a connection is lost: what is alive is    *)
(* in the connections table, or waits in a queue for the dump that purges  *)
(* it.                                                                     *)
(* It holds until a JNI call fails in sendConnectionsDump or open_socket   *)
(* fails, whatever RSTs and nested closes the callbacks go through.        *)
THEOREM NothingLeaks == Spec => []NoLeakUnlessFaulted
  <1>1. SyncInv => NoLeakUnlessFaulted
    BY DEF SyncInv, NoLeakUnlessFaulted
  <1> QED BY <1>1, SyncInit, SyncNext, PTL DEF Spec

-----------------------------------------------------------------------------
(* No step brings a connection back: the data of an open connection is     *)
(* active, hence Java does not take it for closed, and a new connection    *)
(* has an id that Java does not know.                                      *)
LEMMA KeepsNext == MemInv /\ ClosedForGood /\ [Next]_vars => ClosedForGood' /\ [JavaKeeps]_java
  <1> SUFFICES ASSUME MemInv, ClosedForGood, [Next]_vars
               PROVE  ClosedForGood' /\ (JavaKeeps \/ java' = java)
    OBVIOUS
  <1>0. conn \in [Ids -> Data] /\ java \in [Ids -> JavaConn]
    BY DEF MemInv, TypeOK, DataTypeOK
  <1> DEFINE Hit(gone, i) == \E t \in gone : Open(t) /\ table[t].id = i
  <1>D. ASSUME NEW gone \in SUBSET Tuples, NEW r \in DpiResult, NEW rst
        PROVE  LET c == Destroyed(conn, gone, r, rst)
               IN  /\ c \in [Ids -> Data]
                   /\ \A i \in Ids : c[i].status \in {conn[i].status, "closed"}
    <2> DEFINE c == Destroyed(conn, gone, r, rst)
    <2>0. r.guess \in Proto
      BY DEF DpiResult
    <2>1. /\ c \in [Ids -> Data]
          /\ \A i \in Ids : /\ ~Hit(gone, i) => c[i] = conn[i]
                            /\ Hit(gone, i) => EndedAs(conn[i], c[i])
      BY <2>0, DestroyedLemma
    <2> HIDE DEF c, Hit
    <2>2. \A i \in Ids : c[i].status \in {conn[i].status, "closed"}
      BY <2>1 DEF EndedAs
    <2> QED BY <2>1, <2>2 DEF c
  <1>1. ASSUME NEW t \in Tuples, NEW r \in DpiResult, Event(t, r)
        PROVE  ClosedForGood' /\ java' = java
    <2>1. PICK n : Stored(t, r, n)
      BY <1>1, PacketStores
    <2> DEFINE k == IF Open(t) THEN table[t].id ELSE new_conn_id
    <2>2. /\ conn' = [conn EXCEPT ![k] = n.d] /\ java' = java
          /\ Open(t) \/ new_conn_id < MaxConns
      BY <2>1 DEF Stored, Store
    <2>3. k \in Ids /\ conn[k].status = "active"
      BY <2>2, ConnAssumption
         DEF MemInv, TypeOK, DataTypeOK, Ids, Entry, OpenActive, Unborn, NoData
    <2> HIDE DEF k
    <2>4. java[k].status # "closed"
      BY <2>3 DEF ClosedForGood
    <2> QED BY <1>0, <2>2, <2>3, <2>4 DEF ClosedForGood
  <1>2. ASSUME NEW r \in DpiResult, NEW idle \in SUBSET {t \in Tuples : Open(t)}, NEW rst,
               zdtun_purge_expired(idle, r, rst)
        PROVE  ClosedForGood' /\ java' = java
    <2> DEFINE gone == idle \cup {t \in Tuples : table[t].z = "closed"}
    <2>1. gone \in SUBSET Tuples /\ conn' = Destroyed(conn, gone, r, rst) /\ java' = java
      BY <1>2 DEF zdtun_purge_expired
    <2> HIDE DEF gone
    <2> QED BY <1>D, <2>1 DEF ClosedForGood
  <1>3. ASSUME NEW r \in DpiEnd, NEW changed \in SUBSET {t \in Tuples : Open(t)},
               ReloadLists(changed, r)
        PROVE  ClosedForGood' /\ java' = java
    <2>1. /\ conn' = [i \in Ids |-> IF Hit(changed, i)
                                    THEN pd_account_stats(conn[i], r) ELSE conn[i]]
          /\ java' = java
      BY <1>3 DEF ReloadLists
    <2>2. ASSUME NEW i \in Ids, Hit(changed, i)
          PROVE  pd_account_stats(conn[i], r).status = conn[i].status
      <3>1. conn[i] \in Data /\ SlotOK(conn[i]) /\ conn[i].mem = "alive"
        BY <2>2, MemInvPerConn DEF MemInv, TypeOK, DataTypeOK, UserDataSafe, Alive
      <3>2. r.guess \in Proto
        BY DEF DpiEnd
      <3> QED BY <3>1, <3>2, AccountLemma
    <2> HIDE DEF Hit
    <2> QED BY <2>1, <2>2 DEF ClosedForGood
  <1>4. CASE SendDumpNow
    <2>1. DumpConnections(conn, FALSE)
      BY <1>4 DEF SendDumpNow, SendConnectionsDump
    <2> QED BY <1>0, <2>1, KeepsDump DEF ClosedForGood
  <1>5. ASSUME NEW r \in DpiResult, NEW rst, Finish(r, rst) PROVE ClosedForGood' /\ JavaKeeps
    <2> DEFINE c == Destroyed(conn, Tuples, r, rst)
    <2>1. DumpConnections(c, TRUE)
      BY <1>5 DEF Finish
    <2>2. c \in [Ids -> Data] /\ \A i \in Ids : c[i].status \in {conn[i].status, "closed"}
      BY <1>D
    <2> HIDE DEF c
    <2> QED BY <1>0, <2>1, <2>2, KeepsDump DEF ClosedForGood
  <1>6. ASSUME NEW t \in Tuples, SkippedPacket(t) PROVE ClosedForGood' /\ java' = java
    BY <1>6 DEF SkippedPacket, ClosedForGood
  <1>7. CASE UNCHANGED vars
    BY <1>7 DEF vars, ClosedForGood
  <1> QED BY <1>1, <1>2, <1>3, <1>4, <1>5, <1>6, <1>7 DEF Next, Event

(* In the VPN capture Java never sees a closed connection become active    *)
(* again, nor forgets one, although a closed entry is replaced by a new    *)
(* connection of the same tuple, and sockets and dumps may fail.           *)
THEOREM JavaNeverReopens == Spec => JavaMonotone
  <1>1. Init => ClosedForGood
    BY DEF Init, DataInit, ClosedForGood
  <1>2. MemInv /\ ClosedForGood /\ [Next]_vars =>
          [\A i \in Ids : /\ java[i].known => java'[i].known
                          /\ java[i].status = "closed" => java'[i].status = "closed"]_java
    BY KeepsNext DEF JavaKeeps
  <1> QED BY <1>1, <1>2, MemInit, MemNext, KeepsNext, PTL DEF Spec, JavaMonotone

-----------------------------------------------------------------------------
(* The reload of the blacklists.                                           *)

WorkerInv ==
    /\ worker \in 1 .. NumFiles + 1 => new_bl = NULL
    /\ worker # None <=> phase = "loading" \/ in_progress
    /\ in_progress => phase \in {"running", "stopping", "stopped"}
    /\ in_progress /\ phase = "stopped" => worker = Ended
    /\ phase \in {"init", "starting"} => bl = NULL
    /\ phase # "loading" /\ ~in_progress => new_bl = NULL

ReloadInv == BlacklistsAccounted /\ WorkerInv

\* What the proofs use of the constants.
LEMMA ConstantFacts ==
  /\ NumFiles \in Nat \ {0} /\ MaxVersion \in Nat \ {0} /\ MaxCaptures \in Nat \ {0}
  /\ NULL \notin Versions /\ None = 0 /\ Ended = NumFiles + 2
  /\ Old(NULL) = 0 /\ \A v \in Versions : Old(v) = 1
  BY BlacklistsAssumption DEF None, Ended, Versions, Files, Old

\* Nothing is loaded.
LEMMA ReloadInit == BlacklistsInit => ReloadInv
  <1> SUFFICES ASSUME BlacklistsInit PROVE ReloadInv
    OBVIOUS
  <1>1. [f \in Files |-> 0] \in Versions
    BY ConstantFacts DEF Versions
  <1>2. BlacklistsTypeOK
    <2>1. 1 \in Captures /\ None \in 0 .. Ended /\ 0 \in 0 .. 2
      BY ConstantFacts DEF Captures
    <2>2. thread \in [Captures -> 0 .. Ended]
      BY <2>1 DEF BlacklistsInit
    <2> QED BY <1>1, <2>1, <2>2 DEF BlacklistsInit, BlacklistsTypeOK
  <1> QED BY <1>2, ConstantFacts DEF BlacklistsInit, ReloadInv, BlacklistsAccounted, WorkerInv

\* The accounting depends on the blacklists and on the end of the capture only.
LEMMA AccountKept ==
  ASSUME ReloadInv, BlacklistsTypeOK', UNCHANGED <<new_bl, bl, live>>,
         phase' = "stopped" <=> phase = "stopped"
  PROVE  BlacklistsAccounted'
  BY DEF ReloadInv, BlacklistsAccounted, Old

\* A step of the service or of an update thread that leaves the reload alone.
LEMMA ReloadKept ==
  ASSUME ReloadInv, BlacklistsTypeOK', UNCHANGED <<phase, in_progress, worker, new_bl, bl, live>>
  PROVE  ReloadInv'
  <1>1. WorkerInv'
    BY DEF ReloadInv, WorkerInv, None, Ended
  <1>2. BlacklistsAccounted'
    BY AccountKept
  <1> QED BY <1>1, <1>2 DEF ReloadInv

\* use_new_blacklists keeps the account: one blacklist is in force, none is loaded.
LEMMA UseAccounted ==
  ASSUME ReloadInv, use_new_blacklists, phase # "stopped"
  PROVE  /\ live' = Old(bl') /\ new_bl' = NULL /\ bl' \in Versions \cup {NULL}
         /\ live' \in 0 .. 2 /\ mUpdateInProgress' \in BOOLEAN
  <1>1. /\ bl \in Versions \cup {NULL} /\ new_bl \in Versions \cup {NULL} /\ live = Old(bl) + Old(new_bl)
        /\ mUpdateInProgress \in BOOLEAN
    BY DEF ReloadInv, BlacklistsAccounted, BlacklistsTypeOK
  <1>2. Old(bl) \in 0 .. 1 /\ Old(NULL) = 0 /\ \A v \in Versions : Old(v) = 1
    BY <1>1, ConstantFacts
  <1>3. CASE new_bl = NULL
    BY <1>1, <1>2, <1>3 DEF use_new_blacklists
  <1>4. CASE new_bl # NULL
    <2>1. bl' = new_bl /\ new_bl' = NULL /\ live' = live - Old(bl) /\ mUpdateInProgress' = FALSE
      BY <1>4 DEF use_new_blacklists
    <2>2. new_bl \in Versions
      BY <1>1, <1>4
    <2>3. live' = 1 /\ Old(bl') = 1
      BY <1>1, <1>2, <2>1, <2>2
    <2>4. live' \in 0 .. 2
      BY <2>3
    <2>5. live' = Old(bl')
      BY <2>3
    <2> QED BY <2>1, <2>2, <2>4, <2>5
  <1> QED BY <1>3, <1>4

\* Every step of every thread keeps the invariant.
LEMMA ReloadStep == ReloadInv /\ [BlacklistsNext]_blacklistsVars => ReloadInv'
  <1> SUFFICES ASSUME ReloadInv, [BlacklistsNext]_blacklistsVars PROVE ReloadInv'
    OBVIOUS
  <1>1. BlacklistsTypeOK
    BY DEF ReloadInv, BlacklistsAccounted
  <1>2. /\ NumFiles \in Nat \ {0} /\ None = 0 /\ Ended = NumFiles + 2 /\ Files = 1 .. NumFiles
        /\ Captures = 1 .. MaxCaptures /\ MaxCaptures \in Nat \ {0} /\ MaxVersion \in Nat \ {0}
    BY ConstantFacts DEF Files, Captures
  <1> USE DEF updates, service, native
  <1>3. CASE onStartCommand
    <2>1. BlacklistsTypeOK'
      <3>0. thread \in [Captures -> 0 .. Ended] /\ 1 \in 0 .. Ended /\ capture \in Captures
        BY <1>1, <1>2 DEF BlacklistsTypeOK
      <3>1. thread' \in [Captures -> 0 .. Ended]
        BY <1>3, <3>0 DEF onStartCommand
      <3>2. reload_now' \in BOOLEAN
        BY <1>1, <1>3 DEF onStartCommand, BlacklistsTypeOK
      <3> QED BY <1>1, <1>3, <3>1, <3>2 DEF onStartCommand, BlacklistsTypeOK
    <2>2. BlacklistsAccounted'
      BY <1>3, <2>1, AccountKept DEF onStartCommand
    <2>3. WorkerInv'
      BY <1>1, <1>2, <1>3 DEF onStartCommand, ReloadInv, WorkerInv, BlacklistsTypeOK
    <2> QED BY <2>2, <2>3 DEF ReloadInv
  <1>4. CASE pd_run
    <2>1. BlacklistsTypeOK'
      <3>1. worker' \in 0 .. Ended /\ phase' \in {"loading", "running"}
        BY <1>1, <1>2, <1>4 DEF pd_run, BlacklistsTypeOK
      <3> QED BY <1>1, <1>4, <3>1, ZenonT(30) DEF pd_run, BlacklistsTypeOK
    <2>2. BlacklistsAccounted'
      BY <1>4, <2>1, AccountKept DEF pd_run
    <2>3. WorkerInv'
      BY <1>1, <1>2, <1>4 DEF pd_run, ReloadInv, WorkerInv, BlacklistsTypeOK
    <2> QED BY <2>2, <2>3 DEF ReloadInv
  <1>5. CASE PdRunLoaded
    <2>1. /\ live' = Old(bl') /\ new_bl' = NULL /\ bl' \in Versions \cup {NULL}
          /\ live' \in 0 .. 2 /\ mUpdateInProgress' \in BOOLEAN
      BY <1>5, UseAccounted DEF PdRunLoaded
    <2>2. BlacklistsTypeOK'
      BY <1>1, <1>2, <1>5, <2>1 DEF PdRunLoaded, BlacklistsTypeOK
    <2>3. live' = Old(bl') + Old(new_bl')
      BY <2>1, <2>2, ConstantFacts DEF BlacklistsTypeOK
    <2>4. BlacklistsAccounted'
      BY <1>5, <2>2, <2>3 DEF PdRunLoaded, BlacklistsAccounted
    <2>5. WorkerInv'
      BY <1>1, <1>2, <1>5, <2>1 DEF PdRunLoaded, ReloadInv, WorkerInv, BlacklistsTypeOK
    <2> QED BY <2>4, <2>5 DEF ReloadInv
  <1>6. CASE requestBlacklistsUpdate
    <2>1. BlacklistsTypeOK'
      BY <1>1, <1>2, <1>6 DEF requestBlacklistsUpdate, BlacklistsTypeOK
    <2> QED BY <1>6, <2>1, ReloadKept DEF requestBlacklistsUpdate
  <1>7. CASE checkBlacklistsUpdates
    <2>1. BlacklistsTypeOK'
      BY <1>1, <1>2, <1>7 DEF checkBlacklistsUpdates, BlacklistsTypeOK
    <2> QED BY <1>7, <2>1, ReloadKept DEF checkBlacklistsUpdates
  <1>8. ASSUME NEW c \in Captures, UpdateBegins(c) PROVE ReloadInv'
    <2>1. BlacklistsTypeOK'
      <3>1. thread' \in [Captures -> 0 .. Ended]
        BY <1>1, <1>2, <1>8 DEF UpdateBegins, BlacklistsTypeOK
      <3>2. requested' \in BOOLEAN /\ mUpToDate' \in [Files -> BOOLEAN]
        BY <1>1, <1>8 DEF UpdateBegins, BlacklistsTypeOK
      <3> QED BY <1>1, <1>8, <3>1, <3>2 DEF UpdateBegins, BlacklistsTypeOK
    <2> QED BY <1>8, <2>1, ReloadKept DEF UpdateBegins
  <1>9. ASSUME NEW c \in Captures, DownloadOpens(c) PROVE ReloadInv'
    <2>1. thread' \in [Captures -> 0 .. Ended]
      BY <1>1, <1>2, <1>9 DEF DownloadOpens, BlacklistsTypeOK
    <2>2. tmp' \subseteq Files /\ writing' \subseteq Captures
      BY <1>1, <1>9 DEF DownloadOpens, BlacklistsTypeOK
    <2>3. BlacklistsTypeOK'
      BY <1>1, <1>9, <2>1, <2>2 DEF DownloadOpens, BlacklistsTypeOK
    <2> QED BY <1>9, <2>3, ReloadKept DEF DownloadOpens
  <1>21. ASSUME NEW c \in Captures, DownloadCloses(c) PROVE ReloadInv'
    <2> DEFINE f == thread[c] - 1
               shared == \E d \in writing \ {c} : thread[d] = thread[c]
    <2>1. f \in Files /\ thread' \in [Captures -> 0 .. Ended]
      BY <1>1, <1>2, <1>21 DEF DownloadCloses, BlacklistsTypeOK
    <2>2. downloadFile(f, shared) /\ tmp' = tmp \ {f} /\ writing' = writing \ {c}
      BY <1>21 DEF DownloadCloses
    <2> HIDE DEF f, shared
    <2>3. mUpToDate' \in [Files -> BOOLEAN]
      BY <1>1, <2>1, <2>2 DEF downloadFile, BlacklistsTypeOK
    <2>4. disk' \in Versions
      <3>1. disk \in [Files -> 0 .. MaxVersion]
        BY <1>1 DEF BlacklistsTypeOK, Versions
      <3>2. disk[f] \in Nat
        BY <1>2, <2>1, <3>1
      <3>3. disk' = disk \/ (disk[f] < MaxVersion /\ disk' = [disk EXCEPT ![f] = disk[f] + 1])
        BY <2>2 DEF downloadFile
      <3>4. disk[f] < MaxVersion => disk[f] + 1 \in 0 .. MaxVersion
        BY <1>2, <3>2
      <3>5. ASSUME NEW v \in 0 .. MaxVersion
            PROVE  [disk EXCEPT ![f] = v] \in [Files -> 0 .. MaxVersion]
        BY <3>1
      <3> QED BY <3>1, <3>3, <3>4, <3>5 DEF Versions
    <2>5. truncated' \subseteq Files
      <3>1. truncated \subseteq Files
        BY <1>1 DEF BlacklistsTypeOK
      <3>2. truncated' \in {truncated, truncated \ {f}, truncated \cup {f}}
        BY <2>2 DEF downloadFile
      <3> QED BY <2>1, <3>1, <3>2
    <2>6. tmp' \subseteq Files /\ writing' \subseteq Captures
      BY <1>1, <2>2 DEF BlacklistsTypeOK
    <2>7. UNCHANGED <<mUpdateInProgress, mStopRequest, requested, service, native>>
      BY <1>21 DEF DownloadCloses
    <2>8. BlacklistsTypeOK'
      BY <1>1, <2>1, <2>3, <2>4, <2>5, <2>6, <2>7 DEF BlacklistsTypeOK
    <2> QED BY <2>7, <2>8, ReloadKept
  <1>10. ASSUME NEW c \in Captures, UpdateReloads(c) PROVE ReloadInv'
    <2>1. BlacklistsTypeOK'
      BY <1>1, <1>2, <1>10 DEF UpdateReloads, BlacklistsTypeOK
    <2> QED BY <1>10, <2>1, ReloadKept DEF UpdateReloads
  <1>11. CASE WorkerReads
    <2>1. BlacklistsTypeOK'
      <3>1. reading' \in Versions
        BY <1>1, <1>11 DEF WorkerReads, BlacklistsTypeOK, Versions
      <3>2. worker' \in 0 .. Ended
        BY <1>2, <1>11 DEF WorkerReads
      <3> QED BY <1>1, <1>11, <3>1, <3>2 DEF WorkerReads, BlacklistsTypeOK
    <2>2. BlacklistsAccounted'
      BY <1>11, <2>1, AccountKept DEF WorkerReads
    <2>3. WorkerInv'
      BY <1>1, <1>2, <1>11 DEF WorkerReads, ReloadInv, WorkerInv, BlacklistsTypeOK
    <2> QED BY <2>2, <2>3 DEF ReloadInv
  <1>12. CASE WorkerEnds
    <2>1. /\ new_bl = NULL /\ new_bl' = reading /\ live' = live + 1 /\ UNCHANGED <<phase, bl, in_progress>>
          /\ worker = NumFiles + 1 /\ worker' = Ended
      BY <1>2, <1>12 DEF WorkerEnds, ReloadInv, WorkerInv
    <2>2. Old(new_bl) = 0 /\ Old(new_bl') = 1 /\ Old(bl) \in 0 .. 1 /\ bl' = bl
      BY <1>1, <2>1, ConstantFacts DEF BlacklistsTypeOK
    <2>3. live' = IF phase' = "stopped" THEN Old(new_bl') ELSE Old(bl') + Old(new_bl')
      BY <2>1, <2>2 DEF ReloadInv, BlacklistsAccounted
    <2>4. live' \in 0 .. 2
      BY <2>1, <2>2, <2>3
    <2>5. BlacklistsTypeOK'
      BY <1>1, <1>2, <1>12, <2>4 DEF WorkerEnds, BlacklistsTypeOK
    <2>6. WorkerInv'
      BY <1>1, <1>2, <2>1 DEF ReloadInv, WorkerInv, BlacklistsTypeOK
    <2> QED BY <2>3, <2>5, <2>6 DEF ReloadInv, BlacklistsAccounted
  <1>13. CASE WorkerFails
    <2>1. BlacklistsTypeOK'
      BY <1>1, <1>2, <1>13 DEF WorkerFails, BlacklistsTypeOK
    <2>2. BlacklistsAccounted'
      BY <1>13, <2>1, AccountKept DEF WorkerFails
    <2>3. WorkerInv'
      BY <1>1, <1>2, <1>13 DEF WorkerFails, ReloadInv, WorkerInv, BlacklistsTypeOK
    <2> QED BY <2>2, <2>3 DEF ReloadInv
  <1>14. CASE ReloadStarts
    <2>1. new_bl = NULL /\ new_bl' = new_bl
      BY <1>14 DEF ReloadStarts, ReloadInv, WorkerInv
    <2>2. BlacklistsTypeOK'
      <3>1. worker' \in 0 .. Ended
        BY <1>2, <1>14 DEF ReloadStarts
      <3> QED BY <1>1, <1>14, <3>1 DEF ReloadStarts, BlacklistsTypeOK
    <2>3. BlacklistsAccounted'
      BY <1>14, <2>1, <2>2, AccountKept DEF ReloadStarts
    <2>4. WorkerInv'
      BY <1>1, <1>2, <1>14 DEF ReloadStarts, ReloadInv, WorkerInv, BlacklistsTypeOK
    <2> QED BY <2>3, <2>4 DEF ReloadInv
  <1>15. CASE ReloadEnds
    <2>1. /\ live' = Old(bl') /\ new_bl' = NULL /\ bl' \in Versions \cup {NULL}
          /\ live' \in 0 .. 2 /\ mUpdateInProgress' \in BOOLEAN
      BY <1>15, UseAccounted DEF ReloadEnds
    <2>2. BlacklistsTypeOK'
      <3>1. worker' \in 0 .. Ended
        BY <1>2, <1>15 DEF ReloadEnds
      <3> QED BY <1>1, <1>15, <2>1, <3>1 DEF ReloadEnds, BlacklistsTypeOK
    <2>3. live' = Old(bl') + Old(new_bl')
      BY <2>1, <2>2, ConstantFacts DEF BlacklistsTypeOK
    <2>4. BlacklistsAccounted'
      BY <1>15, <2>2, <2>3 DEF ReloadEnds, BlacklistsAccounted
    <2>5. WorkerInv'
      BY <1>1, <1>2, <1>15, <2>1 DEF ReloadEnds, ReloadInv, WorkerInv, BlacklistsTypeOK
    <2> QED BY <2>4, <2>5 DEF ReloadInv
  <1>16. CASE stopPacketLoop
    <2>1. BlacklistsTypeOK'
      BY <1>1, <1>2, <1>16, ZenonT(20) DEF stopPacketLoop, BlacklistsTypeOK
    <2>2. BlacklistsAccounted'
      BY <1>16, <2>1, AccountKept DEF stopPacketLoop
    <2>3. WorkerInv'
      BY <1>1, <1>2, <1>16 DEF stopPacketLoop, ReloadInv, WorkerInv, BlacklistsTypeOK
    <2> QED BY <2>2, <2>3 DEF ReloadInv
  <1>17. CASE PdRunEnds
    <2>1. /\ Old(bl) \in 0 .. 1 /\ Old(new_bl) \in 0 .. 1 /\ live = Old(bl) + Old(new_bl)
          /\ live' = live - Old(bl) /\ phase' = "stopped" /\ new_bl' = new_bl
      BY <1>1, <1>17, ConstantFacts DEF PdRunEnds, BlacklistsTypeOK, ReloadInv, BlacklistsAccounted
    <2>2. live' = Old(new_bl') /\ live' \in 0 .. 2
      BY <2>1
    <2>3. BlacklistsTypeOK'
      BY <1>1, <1>17, <2>2 DEF PdRunEnds, BlacklistsTypeOK
    <2>4. WorkerInv'
      BY <1>1, <1>2, <1>17 DEF PdRunEnds, ReloadInv, WorkerInv, BlacklistsTypeOK
    <2> QED BY <2>1, <2>2, <2>3, <2>4 DEF ReloadInv, BlacklistsAccounted
  <1>18. CASE onDestroy
    <2>1. BlacklistsTypeOK'
      BY <1>1, <1>2, <1>18 DEF onDestroy, BlacklistsTypeOK
    <2> QED BY <1>18, <2>1, ReloadKept DEF onDestroy
  <1>19. CASE Restart
    <2>1. BlacklistsTypeOK'
      <3>1. capture' \in Captures /\ worker' \in 0 .. Ended /\ live' \in 0 .. 2
        BY <1>1, <1>2, <1>19 DEF Restart, BlacklistsTypeOK
      <3> QED BY <1>1, <1>19, <3>1 DEF Restart, BlacklistsTypeOK
    <2>2. BlacklistsAccounted'
      BY <1>19, <2>1, ConstantFacts DEF Restart, BlacklistsAccounted
    <2>3. WorkerInv'
      BY <1>2, <1>19 DEF Restart, WorkerInv
    <2> QED BY <2>2, <2>3 DEF ReloadInv
  <1>20. CASE UNCHANGED blacklistsVars
    <2>1. BlacklistsTypeOK'
      BY <1>1, <1>20 DEF blacklistsVars, BlacklistsTypeOK
    <2> QED BY <1>20, <2>1, ReloadKept DEF blacklistsVars
  <1> QED
    BY <1>3, <1>4, <1>5, <1>6, <1>7, <1>8, <1>9, <1>10, <1>11, <1>12, <1>13, <1>14, <1>15, <1>16,
       <1>17, <1>18, <1>19, <1>20, <1>21, ZenonT(20) DEF BlacklistsNext, UpdateThread

(* BlacklistsAccounted, for every number of files, downloads and captures: *)
(* however the updates, the reloads and the end of a capture interleave,   *)
(* pd_housekeeping and the worker neither lose a blacklist nor destroy one *)
(* twice.                                                                  *)
THEOREM NoBlacklistLost == BlacklistsSpec => []BlacklistsAccounted
  <1>1. ReloadInv => BlacklistsAccounted
    BY DEF ReloadInv
  <1> QED BY <1>1, ReloadInit, ReloadStep, PTL DEF BlacklistsSpec

-----------------------------------------------------------------------------
(* The dumper.                                                             *)

Configs == [mode : {"pcap", "trailer", "pcapng"}, snaplen : Nat, max_dump_size : Nat]

Dumpers == [buffer_idx : Nat, dump_size : Nat, keylog_idx : Nat, has_keylog : BOOLEAN,
            buffer : Seq([n : Nat, len : Nat]), keylog : Seq(Nat), out : Seq([n : Nat, len : Nat]),
            keys : Seq(Nat), discarded : Seq(Nat), bytes : Nat]

\* The sizes of a dumper, of whatever is in its buffers.
Sized(d) ==
    /\ d.dump_size = d.bytes + d.buffer_idx
    /\ conf.max_dump_size > 0 => d.dump_size < conf.max_dump_size
    /\ d.buffer_idx < BufferSize
    /\ d.keylog_idx < BufferSize

SizeInv ==
    /\ conf \in Configs /\ conf.snaplen \in 1 .. MaxSnaplen
    /\ dumper \in Dumpers /\ Sized(dumper)
    /\ pkts \in Nat /\ secrets \in Nat
    /\ recv \in [at : {"idle"}] \cup [at : {"checked", "tested"}, len : Nat]
    /\ recv.at = "tested" => dumper.keylog_idx + recv.len + 1 < BufferSize

-----------------------------------------------------------------------------
(* The records.                                                            *)

\* Padding brings a length to the next multiple of 4.
LEMMA PaddingFact ==
  ASSUME NEW n \in Nat
  PROVE  Padding(n) \in 0 .. 3 /\ (n + Padding(n)) % 4 = 0
  BY DEF Padding

\* A trailer of 32 bytes keeps the padding of what is before it.
LEMMA PaddingTrailer ==
  ASSUME NEW n \in Nat
  PROVE  Padding(n + 32) = Padding(n)
  BY DEF Padding

\* What is padded stays within a length that is a multiple of 4.
LEMMA PaddingFits ==
  ASSUME NEW n \in Nat, NEW size \in Nat, n <= size, size % 4 = 0
  PROVE  n + Padding(n) <= size
  BY DEF Padding

\* The record of a packet is as long as pcap_rec_size says, and complete.
LEMMA RecordWhole ==
  ASSUME NEW c \in Configs, c.snaplen > 0, NEW len \in Nat
  PROVE  WholeRecord(c, len)
  <1> DEFINE m == MinLen(len, c.snaplen)
  <1>1. m \in Nat /\ m <= len /\ m <= c.snaplen /\ (len <= c.snaplen => m = len)
    BY DEF MinLen, Configs
  <1>2. CASE c.mode = "pcapng"
    BY <1>1, <1>2, PaddingFact DEF WholeRecord, Layout, dump_packet_pcapng, pcap_rec_size,
       EnhPacketBlock, Trailer
  <1>3. CASE c.mode = "pcap"
    <2>1. pcap_rec_size(c, len) = m + 16
      BY <1>3 DEF pcap_rec_size, PcapRec
    <2>2. MinLen(len, m) = m /\ m + 16 - 16 = m /\ m - 0 = m /\ 0 + m = m
      BY <1>1 DEF MinLen
    <2> HIDE DEF m
    <2>3. /\ dump_packet_pcap(c, len).payload = m
          /\ dump_packet_pcap(c, len).trailer = 0
          /\ dump_packet_pcap(c, len).written = 16 + m + 0
      BY <1>1, <1>3, <2>1, <2>2 DEF dump_packet_pcap, PcapRec
    <2>4. Layout(c, len) = dump_packet_pcap(c, len)
      BY <1>3, ZenonT(20) DEF Layout
    <2> QED
      BY <1>1, <1>3, <2>1, <2>3, <2>4 DEF WholeRecord, m, Trailer
  <1>4. CASE c.mode = "trailer"
    <2> DEFINE frame == m + 46
               size  == frame + Padding(frame)
               p     == MinLen(len, size - 14)
    <2>1. pcap_rec_size(c, len) = size + 16
      BY <1>1, <1>4 DEF pcap_rec_size, PcapRec, Trailer, EthHdr
    <2>2. frame \in Nat /\ Padding(frame) \in 0 .. 3 /\ Padding(frame) = Padding(14 + m)
      BY <1>1, PaddingFact, PaddingTrailer, 14 + m + 32 = m + 46
    <2> HIDE DEF m
    <2> DEFINE l == dump_packet_pcap(c, len)
    <2>3. /\ l.payload = p
          /\ l.trailer = IF size - (14 + p) >= 32 THEN 32 ELSE 0
          /\ l.written = 16 + (14 + p) + IF size - (14 + p) >= 32 THEN Padding(14 + p) + 32 ELSE 0
      <3>1. size \in Nat /\ size + 16 - 16 = size
        BY <1>1, <2>2
      <3> HIDE DEF size
      <3> QED BY <1>4, <2>1, <3>1 DEF dump_packet_pcap, PcapRec, EthHdr, Trailer
    <2>4. p \in Nat /\ p <= len /\ p <= size - 14
      BY <1>1, <2>2 DEF MinLen
    <2>5. len <= c.snaplen => p = m
      BY <1>1, <2>2 DEF MinLen
    <2>6. Padding(14 + p) \in 0 .. 3 /\ Padding(14 + p) = Padding(14 + p + 32)
      BY <2>4, PaddingFact, PaddingTrailer
    <2>7. l.written <= size + 16
      <3>1. CASE size - (14 + p) >= 32
        <4>1. 14 + p + 32 <= size
          BY <2>2, <2>3, <2>4, <3>1
        <4>2. size % 4 = 0
          BY <2>2, PaddingFact
        <4>3. 14 + p + 32 + Padding(14 + p + 32) <= size
          <5>1. 14 + p + 32 \in Nat /\ size \in Nat
            BY <1>1, <2>2, <2>4
          <5> HIDE DEF size, p
          <5> QED BY <4>1, <4>2, <5>1, PaddingFits
        <4> QED BY <2>2, <2>3, <2>4, <2>6, <3>1, <4>3
      <3>2. CASE ~(size - (14 + p) >= 32)
        BY <2>2, <2>3, <2>4, <3>2
      <3> QED BY <3>1, <3>2
    <2>8. len <= c.snaplen => l.trailer = 32 /\ l.written = size + 16
      BY <2>2, <2>3, <2>4, <2>5, <2>6, <1>1
    <2>9. Layout(c, len) = l
      BY <1>4 DEF Layout
    <2>10. len > c.snaplen \/ len <= c.snaplen
      BY DEF Configs
    <2> HIDE DEF l, size, p
    <2> QED BY <1>4, <2>1, <2>3, <2>5, <2>7, <2>8, <2>9, <2>10 DEF WholeRecord, m, Trailer
  <1> QED BY <1>2, <1>3, <1>4 DEF Configs

\* A record is not empty, and shorter than the buffer.
LEMMA RecordSize ==
  ASSUME NEW c \in Configs, c.snaplen \in 1 .. MaxSnaplen, NEW len \in Nat
  PROVE  pcap_rec_size(c, len) \in Nat /\ pcap_rec_size(c, len) < BufferSize
  <1> DEFINE m == MinLen(len, c.snaplen)
  <1>1. m \in Nat /\ m <= MaxSnaplen /\ MaxSnaplen \in Nat /\ BufferSize \in Nat
        /\ MaxSnaplen + 66 < BufferSize
    BY DumpAssumption DEF MinLen, Configs, PcapRec, EthHdr, Trailer
  <1>2. Padding(m) \in 0 .. 3 /\ Padding(m + 32 + 14) \in 0 .. 3
    BY <1>1, PaddingFact
  <1> HIDE DEF m
  <1> QED
    BY <1>1, <1>2 DEF pcap_rec_size, m, PcapRec, EthHdr, Trailer, EnhPacketBlock

-----------------------------------------------------------------------------
(* The operations on the dumper.                                           *)

\* There is room for something in the buffers.
LEMMA BufferNotEmpty == BufferSize \in Nat /\ 0 < BufferSize
  BY DumpAssumption DEF PcapRec, EthHdr, Trailer

\* The block of the key log has a size.
LEMMA BlockSizeNat ==
  ASSUME NEW d \in Dumpers
  PROVE  BlockSize(d) \in Nat
  <1>1. d.keylog_idx \in Nat
    BY DEF Dumpers
  <1> QED BY <1>1, PaddingFact DEF BlockSize, DecrSecretsBlock

\* Exporting the key log keeps the sizes, and makes the key log no longer.
LEMMA KeylogSized ==
  ASSUME conf \in Configs, NEW d \in Dumpers, Sized(d)
  PROVE  LET e == export_keylog_buffer(d)
         IN  /\ e \in Dumpers /\ Sized(e)
             /\ e.buffer_idx = d.buffer_idx /\ e.keylog_idx <= d.keylog_idx
  <1> DEFINE size == BlockSize(d)
  <1>1. size \in Nat
    BY BlockSizeNat
  <1> HIDE DEF size
  <1>2. /\ d.keylog_idx \in Nat /\ d.buffer_idx \in Nat /\ d.dump_size \in Nat /\ d.bytes \in Nat
        /\ d.keylog \in Seq(Nat) /\ d.discarded \in Seq(Nat) /\ d.keys \in Seq(Nat)
        /\ BufferSize \in Nat /\ 0 < BufferSize
    BY BufferNotEmpty DEF Dumpers
  <1>3. d.discarded \o d.keylog \in Seq(Nat) /\ d.keys \o d.keylog \in Seq(Nat) /\ <<>> \in Seq(Nat)
    BY <1>2, ConcatProperties
  <1>4. CASE d.keylog_idx = 0
    BY <1>2, <1>4 DEF export_keylog_buffer
  <1>5. CASE d.keylog_idx # 0 /\ Discards(d)
    <2> DEFINE e == [d EXCEPT !.discarded = @ \o d.keylog, !.keylog_idx = 0, !.keylog = <<>>]
    <2>1. export_keylog_buffer(d) = e
      BY <1>5 DEF export_keylog_buffer
    <2>2. e \in Dumpers
      BY <1>3 DEF Dumpers
    <2>3. /\ e.keylog_idx = 0 /\ e.buffer_idx = d.buffer_idx /\ e.dump_size = d.dump_size
          /\ e.bytes = d.bytes
      BY DEF Dumpers
    <2> HIDE DEF e
    <2>4. Sized(e)
      BY <1>2, <2>3 DEF Sized
    <2> QED BY <1>2, <2>1, <2>2, <2>3, <2>4
  <1>6. CASE d.keylog_idx # 0 /\ ~Discards(d)
    <2> DEFINE e == [d EXCEPT !.dump_size = @ + size, !.bytes = @ + size, !.keys = @ \o d.keylog,
                              !.keylog_idx = 0, !.keylog = <<>>]
    <2>1. export_keylog_buffer(d) = e
      BY <1>6 DEF export_keylog_buffer, size
    <2>2. e \in Dumpers
      <3> DEFINE f == [d EXCEPT !.dump_size = @ + size, !.bytes = @ + size]
      <3>1. f \in Dumpers /\ f.keys = d.keys
        <4>1. d.dump_size + size \in Nat /\ d.bytes + size \in Nat
          BY <1>1, <1>2
        <4> QED BY <4>1 DEF Dumpers
      <3>2. e = [f EXCEPT !.keys = @ \o d.keylog, !.keylog_idx = 0, !.keylog = <<>>]
        BY DEF Dumpers
      <3> HIDE DEF f, e
      <3> QED BY <1>3, <3>1, <3>2 DEF Dumpers
    <2>3. /\ e.keylog_idx = 0 /\ e.buffer_idx = d.buffer_idx /\ e.dump_size = d.dump_size + size
          /\ e.bytes = d.bytes + size
      BY DEF Dumpers
    <2>4. conf.max_dump_size > 0 => d.dump_size + size < conf.max_dump_size
      BY <1>1, <1>2, <1>6 DEF Discards, Exceeds, size, Configs
    <2> HIDE DEF e
    <2>5. Sized(e)
      BY <1>1, <1>2, <2>3, <2>4 DEF Sized
    <2> QED BY <1>2, <2>1, <2>2, <2>3, <2>5
  <1> QED BY <1>4, <1>5, <1>6

\* So does exporting both buffers; what waited in the buffer has been counted already.
LEMMA ExportSized ==
  ASSUME conf \in Configs, NEW d \in Dumpers, Sized(d)
  PROVE  LET e == export_buffer(d)
         IN  /\ e \in Dumpers /\ Sized(e)
             /\ e.keylog_idx <= d.keylog_idx
  <1> DEFINE k == export_keylog_buffer(d)
             e == [k EXCEPT !.out = @ \o k.buffer, !.bytes = @ + k.buffer_idx, !.buffer_idx = 0,
                            !.buffer = <<>>]
  <1>1. k \in Dumpers /\ Sized(k) /\ k.keylog_idx <= d.keylog_idx
    BY KeylogSized
  <1>2. export_buffer(d) = IF k.buffer_idx = 0 THEN k ELSE e
    BY DEF export_buffer
  <1> HIDE DEF k
  <1>3. /\ k.bytes \in Nat /\ k.buffer_idx \in Nat /\ k.dump_size \in Nat /\ k.keylog_idx \in Nat
        /\ k.out \in Seq([n : Nat, len : Nat]) /\ k.buffer \in Seq([n : Nat, len : Nat])
        /\ BufferSize \in Nat /\ 0 < BufferSize
    BY <1>1, BufferNotEmpty DEF Dumpers
  <1>4. e \in Dumpers
    <2>1. k.bytes + k.buffer_idx \in Nat /\ <<>> \in Seq([n : Nat, len : Nat])
      BY <1>3
    <2>2. k.out \o k.buffer \in Seq([n : Nat, len : Nat])
      BY <1>3, ConcatProperties
    <2> QED BY <1>1, <2>1, <2>2 DEF Dumpers
  <1>5. /\ e.bytes = k.bytes + k.buffer_idx /\ e.buffer_idx = 0 /\ e.dump_size = k.dump_size
        /\ e.keylog_idx = k.keylog_idx
    BY <1>1 DEF Dumpers
  <1> HIDE DEF e
  <1>6. Sized(e)
    BY <1>1, <1>3, <1>5 DEF Sized
  <1> QED BY <1>1, <1>2, <1>4, <1>5, <1>6

\* A periodic check exports or does nothing.
LEMMA CheckSized ==
  ASSUME conf \in Configs, NEW d \in Dumpers, Sized(d), NEW due \in BOOLEAN
  PROVE  LET e == pcap_check_export(d, due)
         IN  e \in Dumpers /\ Sized(e) /\ e.keylog_idx <= d.keylog_idx
  <1>1. d.keylog_idx <= d.keylog_idx
    BY DEF Dumpers
  <1> QED BY <1>1, ExportSized DEF pcap_check_export

\* Room is made; if the packet is taken, its record fits in the buffer and in the dump.
LEMMA RoomSized ==
  ASSUME conf \in Configs, conf.snaplen \in 1 .. MaxSnaplen, NEW d \in Dumpers, Sized(d),
         NEW len \in PktLens
  PROVE  LET e == MakeRoom(d, len).dumper
         IN  /\ e \in Dumpers /\ Sized(e) /\ e.keylog_idx <= d.keylog_idx
             /\ MakeRoom(d, len).ok =>
                   /\ e.buffer_idx + pcap_rec_size(conf, len) < BufferSize
                   /\ conf.max_dump_size > 0 =>
                         e.dump_size + pcap_rec_size(conf, len) < conf.max_dump_size
  <1> DEFINE e == IF Full(d, len) THEN export_buffer(d) ELSE d
  <1>1. MakeRoom(d, len).dumper = e
    BY Zenon DEF MakeRoom
  <1>2. MakeRoom(d, len).ok = (~Full(e, len) /\ ~Exceeds(e, pcap_rec_size(conf, len)))
    BY Zenon DEF MakeRoom
  <1>3. d.keylog_idx <= d.keylog_idx
    BY DEF Dumpers
  <1>4. e \in Dumpers /\ Sized(e) /\ e.keylog_idx <= d.keylog_idx
    BY <1>3, ExportSized
  <1>5. pcap_rec_size(conf, len) \in Nat /\ BufferSize \in Nat
    BY RecordSize, BufferNotEmpty, DumpAssumption
  <1> HIDE DEF e
  <1>6. e.buffer_idx \in Nat /\ e.dump_size \in Nat /\ conf.max_dump_size \in Nat
    BY <1>4 DEF Dumpers, Configs
  <1>7. ~Full(e, len) => e.buffer_idx + pcap_rec_size(conf, len) < BufferSize
    BY <1>5, <1>6 DEF Full
  <1>8. ~Exceeds(e, pcap_rec_size(conf, len)) =>
            (conf.max_dump_size > 0 => e.dump_size + pcap_rec_size(conf, len) < conf.max_dump_size)
    BY <1>5, <1>6 DEF Exceeds
  <1> QED BY <1>1, <1>2, <1>4, <1>7, <1>8, Zenon

\* A record that fits is added.
LEMMA AddSized ==
  ASSUME conf \in Configs, conf.snaplen \in 1 .. MaxSnaplen, pkts \in Nat,
         NEW d \in Dumpers, Sized(d), NEW len \in PktLens,
         d.buffer_idx + pcap_rec_size(conf, len) < BufferSize,
         conf.max_dump_size > 0 => d.dump_size + pcap_rec_size(conf, len) < conf.max_dump_size
  PROVE  LET e == AddRecord(d, len)
         IN  e \in Dumpers /\ Sized(e) /\ e.keylog_idx = d.keylog_idx
  <1> DEFINE size == pcap_rec_size(conf, len)
             rec  == [n |-> pkts + 1, len |-> len]
             e    == [d EXCEPT !.buffer = Append(@, rec), !.buffer_idx = @ + size, !.dump_size = @ + size]
  <1>1. size \in Nat /\ BufferSize \in Nat
    BY RecordSize, BufferNotEmpty, DumpAssumption
  <1>2. rec \in [n : Nat, len : Nat]
    BY DumpAssumption
  <1>3. AddRecord(d, len) = e
    BY DEF AddRecord
  <1> HIDE DEF rec, size
  <1>4. /\ d.bytes \in Nat /\ d.buffer_idx \in Nat /\ d.dump_size \in Nat /\ d.keylog_idx \in Nat
        /\ d.buffer \in Seq([n : Nat, len : Nat])
    BY DEF Dumpers
  <1>5. Append(d.buffer, rec) \in Seq([n : Nat, len : Nat])
    BY <1>2, <1>4, AppendProperties
  <1>6. e \in Dumpers
    <2>1. d.buffer_idx + size \in Nat /\ d.dump_size + size \in Nat
      BY <1>1, <1>4
    <2> QED BY <1>5, <2>1 DEF Dumpers
  <1>7. /\ e.buffer_idx = d.buffer_idx + size /\ e.dump_size = d.dump_size + size
        /\ e.bytes = d.bytes /\ e.keylog_idx = d.keylog_idx
    BY DEF Dumpers
  <1>8. d.buffer_idx + size < BufferSize /\ (conf.max_dump_size > 0 => d.dump_size + size < conf.max_dump_size)
    BY DEF size
  <1> HIDE DEF e
  <1>9. Sized(e)
    BY <1>1, <1>4, <1>7, <1>8 DEF Sized
  <1> QED BY <1>3, <1>6, <1>7, <1>9

-----------------------------------------------------------------------------
(* The steps.                                                              *)

\* The dumper starts empty, below any maximum size.
LEMMA InitSized == DumpInit => SizeInv
  <1> SUFFICES ASSUME DumpInit PROVE SizeInv
    OBVIOUS
  <1>1. conf \in Configs /\ conf.snaplen \in 1 .. MaxSnaplen
    <2> DEFINE used == {IF n <= 0 \/ n > MaxSnaplen THEN MaxSnaplen ELSE n : n \in Snaplens}
    <2>1. used \subseteq 1 .. MaxSnaplen
      <3> SUFFICES ASSUME NEW n \in Snaplens
                   PROVE  (IF n <= 0 \/ n > MaxSnaplen THEN MaxSnaplen ELSE n) \in 1 .. MaxSnaplen
        OBVIOUS
      <3>1. n \in Int /\ MaxSnaplen \in Nat /\ MaxSnaplen # 0
        BY DumpAssumption
      <3> QED BY <3>1
    <2>2. conf \in [mode : Modes, snaplen : used, max_dump_size : Limits]
      BY DEF DumpInit
    <2> HIDE DEF used
    <2>3. Modes \subseteq {"pcap", "trailer", "pcapng"} /\ Limits \subseteq Nat /\ 1 .. MaxSnaplen \subseteq Nat
      BY DumpAssumption
    <2> QED BY <2>1, <2>2, <2>3 DEF Configs
  <1>2. dumper \in Dumpers
    BY DEF DumpInit, Empty, Dumpers
  <1>3. Sized(dumper)
    BY <1>1, BufferNotEmpty DEF DumpInit, Empty, Sized, Configs
  <1>4. pkts \in Nat /\ secrets \in Nat /\ recv \in [at : {"idle"}] /\ recv.at = "idle"
    BY DEF DumpInit
  <1> QED BY <1>1, <1>2, <1>3, <1>4 DEF SizeInv

\* A step that does not touch the receiver keeps the invariant if the dumper
\* stays sized and its key log grows no longer.
LEMMA DumperStep ==
  ASSUME SizeInv, UNCHANGED <<conf, recv, secrets>>, pkts' \in Nat,
         NEW e \in Dumpers, dumper' = e, Sized(e), e.keylog_idx <= dumper.keylog_idx
  PROVE  SizeInv'
  <1>1. dumper' \in Dumpers /\ Sized(dumper)'
    BY DEF Sized
  <1>2. recv.at = "tested" => e.keylog_idx + recv.len + 1 < BufferSize
    <2> SUFFICES ASSUME recv.at = "tested" PROVE e.keylog_idx + recv.len + 1 < BufferSize
      OBVIOUS
    <2>1. recv.len \in Nat
      BY DEF SizeInv
    <2>2. e.keylog_idx \in Nat /\ dumper.keylog_idx \in Nat
      BY DEF SizeInv, Dumpers
    <2> QED BY <2>1, <2>2, BufferNotEmpty DEF SizeInv
  <1> QED BY <1>1, <1>2 DEF SizeInv

\* Every step of the two threads preserves the invariant.
LEMMA StepSized == SizeInv /\ [DumpNext]_dumpVars => SizeInv'
  <1> SUFFICES ASSUME SizeInv, [DumpNext]_dumpVars PROVE SizeInv'
    OBVIOUS
  <1>0. /\ conf \in Configs /\ conf.snaplen \in 1 .. MaxSnaplen /\ dumper \in Dumpers /\ Sized(dumper)
        /\ pkts \in Nat /\ pkts + 1 \in Nat /\ secrets \in Nat
    BY DEF SizeInv
  <1>1. ASSUME NEW len \in PktLens, NEW due \in BOOLEAN, pd_dump_packet(len, due) PROVE SizeInv'
    <2> DEFINE d == MakeRoom(dumper, len).dumper
               a == AddRecord(d, len)
               e == pcap_check_export(a, due)
    <2>1. /\ d \in Dumpers /\ Sized(d) /\ d.keylog_idx <= dumper.keylog_idx
          /\ d.buffer_idx + pcap_rec_size(conf, len) < BufferSize
          /\ conf.max_dump_size > 0 => d.dump_size + pcap_rec_size(conf, len) < conf.max_dump_size
      BY <1>0, <1>1, RoomSized DEF pd_dump_packet
    <2>2. dumper' = e /\ UNCHANGED <<conf, recv, secrets>> /\ pkts' \in Nat
      BY <1>0, <1>1 DEF pd_dump_packet
    <2> HIDE DEF d
    <2>3. a \in Dumpers /\ Sized(a) /\ a.keylog_idx = d.keylog_idx
      BY <1>0, <2>1, AddSized
    <2> HIDE DEF a
    <2>4. e \in Dumpers /\ Sized(e) /\ e.keylog_idx <= a.keylog_idx
      BY <1>0, <2>3, CheckSized
    <2> HIDE DEF e
    <2>5. d.keylog_idx \in Nat /\ e.keylog_idx \in Nat /\ dumper.keylog_idx \in Nat
      BY <1>0, <2>1, <2>4 DEF Dumpers
    <2>6. e.keylog_idx <= dumper.keylog_idx
      BY <2>1, <2>3, <2>4, <2>5
    <2> QED BY <2>2, <2>4, <2>6, DumperStep
  <1>2. ASSUME NEW len \in PktLens, stop_pcap_dump(len) PROVE SizeInv'
    <2> DEFINE d == MakeRoom(dumper, len).dumper
               e == export_buffer(d)
    <2>1. d \in Dumpers /\ Sized(d) /\ d.keylog_idx <= dumper.keylog_idx
      BY <1>0, RoomSized
    <2>2. dumper' = e /\ UNCHANGED <<conf, recv, secrets>> /\ pkts' \in Nat
      BY <1>0, <1>2 DEF stop_pcap_dump
    <2> HIDE DEF d
    <2>3. e \in Dumpers /\ Sized(e) /\ e.keylog_idx <= d.keylog_idx
      BY <1>0, <2>1, ExportSized
    <2> HIDE DEF e
    <2>4. d.keylog_idx \in Nat /\ e.keylog_idx \in Nat /\ dumper.keylog_idx \in Nat
      BY <1>0, <2>1, <2>3 DEF Dumpers
    <2>5. e.keylog_idx <= dumper.keylog_idx
      BY <2>1, <2>3, <2>4
    <2> QED BY <2>2, <2>3, <2>5, DumperStep
  <1>3. ASSUME NEW due \in BOOLEAN, CheckExport(due) PROVE SizeInv'
    BY <1>0, <1>3, CheckSized, DumperStep DEF CheckExport
  <1>4. CASE EndOfRun
    BY <1>0, <1>4, ExportSized, DumperStep DEF EndOfRun
  <1>5. CASE Free \/ ClearPointer
    BY <1>5 DEF Free, ClearPointer, SizeInv, Sized
  <1>6. ASSUME NEW len \in SecretLens, dumpMasterSecret(len) PROVE SizeInv'
    <2>1. len \in Nat /\ secrets' \in Nat
      BY <1>0, <1>6, DumpAssumption DEF dumpMasterSecret
    <2>2. recv' \in [at : {"idle"}] \cup [at : {"checked", "tested"}, len : Nat] /\ recv'.at # "tested"
      BY <1>6, <2>1 DEF dumpMasterSecret, SizeInv
    <2> QED BY <1>6, <2>1, <2>2 DEF dumpMasterSecret, SizeInv, Sized
  <1>7. CASE TestRoom
    <2>1. UNCHANGED <<conf, pkts, secrets>>
      BY <1>7 DEF TestRoom
    <2>2. CASE recv' = [at |-> "idle"] /\ UNCHANGED dumper
      BY <1>0, <2>1, <2>2 DEF SizeInv, Sized
    <2>3. CASE /\ dumper' = [dumper EXCEPT !.has_keylog = TRUE]
               /\ recv' = IF dumper.keylog_idx + recv.len + 1 >= BufferSize THEN [at |-> "idle"]
                          ELSE [recv EXCEPT !.at = "tested"]
      <3>1. dumper' \in Dumpers
        BY <1>0, <2>3 DEF Dumpers
      <3>2. /\ dumper'.buffer_idx = dumper.buffer_idx /\ dumper'.dump_size = dumper.dump_size
            /\ dumper'.bytes = dumper.bytes /\ dumper'.keylog_idx = dumper.keylog_idx
        BY <1>0, <2>3 DEF Dumpers
      <3>3. Sized(dumper)'
        BY <1>0, <2>1, <3>2 DEF Sized
      <3>4. recv \in [at : {"checked"}, len : Nat]
        BY <1>7 DEF TestRoom, SizeInv
      <3>5. CASE dumper.keylog_idx + recv.len + 1 >= BufferSize
        BY <1>0, <2>1, <2>3, <3>1, <3>3, <3>5 DEF SizeInv
      <3>6. CASE ~(dumper.keylog_idx + recv.len + 1 >= BufferSize)
        <4>1. recv' \in [at : {"checked", "tested"}, len : Nat] /\ recv'.len = recv.len
          BY <2>3, <3>4, <3>6
        <4>2. dumper.keylog_idx \in Nat /\ recv.len \in Nat
          BY <1>0, <3>4 DEF Dumpers
        <4>3. dumper'.keylog_idx + recv'.len + 1 < BufferSize
          BY <3>2, <3>6, <4>1, <4>2, BufferNotEmpty
        <4> QED BY <1>0, <2>1, <3>1, <3>3, <4>1, <4>3 DEF SizeInv
      <3> QED BY <3>5, <3>6
    <2> QED BY <1>7, <2>2, <2>3 DEF TestRoom
  <1>8. CASE pcap_dump_secret
    <2>1. /\ recv.at = "tested" /\ recv.len \in Nat /\ recv' = [at |-> "idle"]
          /\ UNCHANGED <<conf, pkts, secrets>>
          /\ dumper.keylog_idx + recv.len + 1 < BufferSize
      BY <1>8 DEF pcap_dump_secret, SizeInv
    <2>2. dumper.keylog_idx + recv.len + 1 \in Nat /\ Append(dumper.keylog, secrets) \in Seq(Nat)
      BY <1>0, <2>1, AppendProperties DEF Dumpers
    <2>3. dumper' = [dumper EXCEPT !.keylog = Append(@, secrets), !.keylog_idx = @ + recv.len + 1]
      BY <1>8 DEF pcap_dump_secret
    <2>4. dumper' \in Dumpers
      BY <1>0, <2>2, <2>3 DEF Dumpers
    <2>5. /\ dumper'.buffer_idx = dumper.buffer_idx /\ dumper'.dump_size = dumper.dump_size
          /\ dumper'.bytes = dumper.bytes /\ dumper'.keylog_idx = dumper.keylog_idx + recv.len + 1
      BY <1>0, <2>3 DEF Dumpers
    <2>6. Sized(dumper)'
      BY <1>0, <2>1, <2>5 DEF Sized
    <2> QED BY <1>0, <2>1, <2>4, <2>6 DEF SizeInv
  <1>9. CASE UseFreed
    BY <1>0, <1>9 DEF UseFreed, SizeInv, Sized
  <1>10. CASE UNCHANGED dumpVars
    BY <1>10 DEF dumpVars, SizeInv, Sized
  <1> QED BY <1>1, <1>2, <1>3, <1>4, <1>5, <1>6, <1>7, <1>8, <1>9, <1>10, ZenonT(20) DEF DumpNext

(* The dump never passes its maximum size, its size is what the callback   *)
(* has received and what waits, no buffer is written past its end and no   *)
(* record past its size, whatever the sizes and however the capture        *)
(* thread and the receiver's pcap_dump_secret interleave.                  *)
THEOREM DumpSizes == DumpSpec => []SizeRespected
  <1>1. SizeInv => SizeRespected
    <2> SUFFICES ASSUME SizeInv PROVE SizeRespected
      OBVIOUS
    <2>1. \A len \in PktLens : WholeRecord(conf, len)
      <3> TAKE len \in PktLens
      <3>1. conf \in Configs /\ conf.snaplen > 0 /\ len \in Nat
        BY DumpAssumption DEF SizeInv
      <3> QED BY <3>1, RecordWhole
    <2> QED BY <2>1 DEF SizeInv, Sized, SizeRespected
  <1> QED BY <1>1, InitSized, StepSized, PTL DEF DumpSpec
=============================================================================
