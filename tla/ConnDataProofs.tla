--------------------------- MODULE ConnDataProofs ---------------------------
(***************************************************************************)
(* What the operations on a pd_conn_t preserve, as lemmas about ConnData   *)
(* that the proofs of both capture modes rest on.                          *)
(***************************************************************************)
EXTENDS ConnData, TLAPS

(* The part of the invariant that speaks of one connection: at most one    *)
(* slot, and a slot only for live data that is marked pending.             *)
SlotOK(d) == Slots(d) <= 1 /\ (Slots(d) > 0 => d.mem = "alive" /\ d.pending)

\* A connection that is marked pending is in an array.
Held(d) == d.pending => Slots(d) > 0

\* A pd_conn_t whose turn has not come yet is untouched.
Unborn == \A i \in Ids : i >= new_conn_id => conn[i] = NoData

(* notif_connection keeps a live record well-formed: afterwards it is in   *)
(* exactly the slots it was in, or in one if it was in none.               *)
LEMMA NotifyLemma ==
    ASSUME NEW d \in Data, NEW r, r.guess \in Proto,
           d.mem = "alive", SlotOK(d)
    PROVE  LET n == pd_notify_connection_update(d, r)
           IN  /\ n \in Data
               /\ n.mem = "alive"
               /\ SlotOK(n)
               /\ n.to_purge = d.to_purge
               /\ n.status = d.status
               /\ d.update \subseteq n.update
               /\ n.inNew = d.inNew
               /\ Held(d) => Slots(n) > 0
  <1> DEFINE e == IF d.status = "closed" THEN pd_giveup_dpi(d, r) ELSE d
  <1>1. /\ e \in Data /\ e.mem = "alive" /\ e.pending = d.pending
        /\ e.inNew = d.inNew /\ e.inUpd = d.inUpd
        /\ e.to_purge = d.to_purge /\ e.status = d.status /\ d.update \subseteq e.update
    BY DEF pd_giveup_dpi, process_ndpi_data, Data, Flags
  <1> DEFINE a == AddSlot(e, "conns_updates")
  <1>2. /\ a \in Data /\ a.mem = e.mem /\ a.pending = e.pending
        /\ a.inNew = e.inNew /\ a.inUpd = e.inUpd + 1
        /\ a.to_purge = e.to_purge /\ a.status = e.status /\ a.update = e.update
    <2> HIDE DEF e
    <2> QED BY <1>1 DEF AddSlot, Data
  <1> DEFINE n == [a EXCEPT !.pending = TRUE]
  <1>3. /\ n \in Data /\ n.mem = a.mem /\ n.pending
        /\ n.inNew = a.inNew /\ n.inUpd = a.inUpd
        /\ n.to_purge = a.to_purge /\ n.status = a.status /\ n.update = a.update
    <2> HIDE DEF a
    <2> QED BY <1>2 DEF Data
  <1>4. pd_notify_connection_update(d, r) = IF e.pending THEN e ELSE n
    BY DEF pd_notify_connection_update, notif_connection
  <1> HIDE DEF e, a, n
  <1>5. QED
    BY <1>1, <1>2, <1>3, <1>4 DEF SlotOK, Held, Slots, Data

(* pd_account_stats leaves an update to report on a live, well-formed      *)
(* record, and touches neither its status nor its purge mark.              *)
LEMMA AccountLemma ==
    ASSUME NEW d \in Data, NEW r, r.guess \in Proto,
           d.mem = "alive", SlotOK(d)
    PROVE  LET n == pd_account_stats(d, r)
           IN  /\ n \in Data
               /\ n.mem = "alive"
               /\ SlotOK(n)
               /\ n.to_purge = d.to_purge
               /\ n.status = d.status
               /\ "STATS" \in n.update
               /\ n.inNew = d.inNew
               /\ Held(d) => Slots(n) > 0
  <1> DEFINE e == [d EXCEPT !.update = @ \cup {"STATS"}]
  <1>1. /\ e \in Data /\ e.mem = "alive" /\ SlotOK(e) /\ "STATS" \in e.update
        /\ e.to_purge = d.to_purge /\ e.status = d.status
        /\ e.inNew = d.inNew /\ (Held(d) => Held(e))
    BY DEF Data, Flags, SlotOK, Held, Slots
  <1>2. pd_account_stats(d, r) = pd_notify_connection_update(e, r)
    BY DEF pd_account_stats
  <1> HIDE DEF e
  <1>3. QED
    BY <1>1, <1>2, NotifyLemma

(* pd_process_packet (DPI and payload) keeps a live record live and        *)
(* well-formed.                                                            *)
LEMMA ProcessLemma ==
    ASSUME NEW d \in Data, NEW r \in DpiResult, d.mem = "alive", SlotOK(d)
    PROVE  LET p == pd_process_packet(d, r)
           IN  /\ p \in Data
               /\ p.mem = "alive"
               /\ SlotOK(p)
               /\ p.to_purge = d.to_purge
               /\ p.status = d.status
               /\ p.inNew = d.inNew
               /\ Held(d) => Held(p)
               /\ d.update \subseteq p.update
  <1>0. r.guess \in Proto /\ r.proto \in Proto
    BY DEF DpiResult
  <1> DEFINE Same(x) == /\ x \in Data /\ x.mem = "alive" /\ SlotOK(x)
                        /\ x.to_purge = d.to_purge /\ x.status = d.status
                        /\ x.inNew = d.inNew /\ (Held(d) => Held(x)) /\ d.update \subseteq x.update
  <1> DEFINE l == [d EXCEPT !.l7 = r.proto]
             c == [d EXCEPT !.l7 = r.proto,
                            !.update = IF r.proto # d.l7 THEN @ \cup {"INFO"} ELSE @]
  <1>1. Same(c)
    <2>1. Same(l) /\ l.update = d.update
      BY <1>0 DEF Data, SlotOK, Held, Slots
    <2> DEFINE u == IF r.proto # d.l7 THEN l.update \cup {"INFO"} ELSE l.update
    <2>2. c = [l EXCEPT !.update = u]
      BY <2>1
    <2>3. u \in SUBSET Flags
      BY <2>1 DEF Data, Flags
    <2> HIDE DEF l, u
    <2> QED BY <2>1, <2>2, <2>3 DEF Data, SlotOK, Held, Slots
  <1> DEFINE g == IF r.giveup THEN pd_giveup_dpi(c, r) ELSE process_ndpi_data(c, r)
             h == [g EXCEPT !.update = @ \cup {"INFO"}]
  <1>2. perform_dpi(d, r) = IF r.alpn THEN pd_notify_connection_update(h, r) ELSE g
    BY DEF perform_dpi
  <1>3. Same(perform_dpi(d, r))
    <2> HIDE DEF c
    <2>1. Same(process_ndpi_data(c, r))
      BY <1>1 DEF process_ndpi_data, Data, Flags, SlotOK, Held, Slots
    <2>2. Same(pd_giveup_dpi(c, r))
      BY <1>0, <1>1 DEF pd_giveup_dpi, process_ndpi_data, Data, Flags, SlotOK, Held, Slots
    <2>3. Same(g)
      BY <2>1, <2>2
    <2> HIDE DEF g
    <2>4. Same(h)
      BY <2>3 DEF Data, Flags, SlotOK, Held, Slots
    <2> HIDE DEF h
    <2>5. Same(pd_notify_connection_update(h, r))
      BY <1>0, <2>4, NotifyLemma DEF Held
    <2> QED BY <1>2, <2>3, <2>5
  <1> DEFINE e == IF d.ndpi THEN perform_dpi(d, r) ELSE d
  <1>4. Same(e)
    BY <1>3
  <1> DEFINE f == [e EXCEPT !.update = @ \cup {"PAYLOAD"}]
  <1>5. Same(f)
    <2> HIDE DEF e
    <2> QED BY <1>4 DEF Data, Flags, SlotOK, Held, Slots
  <1>6. pd_process_packet(d, r) =
          IF r.chunk THEN pd_notify_connection_update(f, r) ELSE e
    BY DEF pd_process_packet, process_payload
  <1> HIDE DEF e, f
  <1>7. Same(pd_notify_connection_update(f, r))
    BY <1>0, <1>5, NotifyLemma DEF Held
  <1>8. QED
    BY <1>4, <1>6, <1>7

(* A new connection is live, in one slot, active and not to be purged.     *)
LEMMA NewConnLemma ==
    ASSUME NEW r
    PROVE  LET n == pd_new_connection(r)
           IN  /\ n \in Data
               /\ n.mem = "alive"
               /\ SlotOK(n)
               /\ ~n.to_purge
               /\ n.status = "active"
               /\ n.inNew = 1
               /\ Held(n)
  <1> DEFINE m == [NoData EXCEPT !.mem = "alive", !.ndpi = TRUE]
             a == [m EXCEPT !.inNew = @ + 1]
             n == [a EXCEPT !.pending = TRUE]
  <1>1. /\ m \in Data /\ m.mem = "alive" /\ m.status = "active" /\ ~m.to_purge
        /\ m.pending = FALSE /\ m.inNew = 0 /\ m.inUpd = 0
    BY DEF NoData, Data, Status, Flags, Proto
  <1>2. pd_new_connection(r) = n
    <2> HIDE DEF m
    <2> QED BY <1>1 DEF pd_new_connection, notif_connection, AddSlot, m
  <1>3. /\ a \in Data /\ a.mem = "alive" /\ a.status = "active" /\ ~a.to_purge
        /\ a.inNew = 1 /\ a.inUpd = 0
    <2> HIDE DEF m
    <2> QED BY <1>1 DEF Data
  <1>4. /\ n \in Data /\ n.mem = "alive" /\ n.status = "active" /\ ~n.to_purge
        /\ n.inNew = 1 /\ n.inUpd = 0 /\ n.pending
    <2> HIDE DEF a
    <2> QED BY <1>3 DEF Data
  <1> HIDE DEF n
  <1>5. QED
    BY <1>2, <1>4 DEF SlotOK, Held, Slots

(* conns_clear leaves no slot, frees what is to be purged or everything    *)
(* with free_all, and keeps the rest alive.                                *)
LEMMA ClearLemma ==
    ASSUME NEW d \in Data, NEW free_all \in BOOLEAN
    PROVE  LET n == conns_clear(d, free_all)
           IN  /\ n \in Data
               /\ Slots(n) = 0
               /\ n.to_purge = d.to_purge /\ n.status = d.status
               /\ n.update = d.update /\ n.pending = d.pending
               /\ ~d.to_purge /\ ~free_all => n.mem = d.mem
               /\ Slots(d) > 0 /\ (d.to_purge \/ free_all) => n.mem = "freed"
  <1> DEFINE x == IF d.to_purge \/ free_all THEN pd_purge_connection(d) ELSE d
  <1>1. /\ x \in Data /\ x.to_purge = d.to_purge /\ x.status = d.status
        /\ x.update = d.update /\ x.pending = d.pending
        /\ ~d.to_purge /\ ~free_all => x.mem = d.mem
        /\ d.to_purge \/ free_all => x.mem = "freed"
    BY DEF pd_purge_connection, Data
  <1> DEFINE n == [x EXCEPT !.inNew = 0, !.inUpd = 0]
  <1>2. /\ n \in Data /\ n.to_purge = x.to_purge /\ n.mem = x.mem
        /\ n.status = x.status /\ n.update = x.update /\ n.pending = x.pending
        /\ n.inNew = 0 /\ n.inUpd = 0
    <2> HIDE DEF x
    <2> QED BY <1>1 DEF Data
  <1>3. conns_clear(d, free_all) = IF Slots(d) > 0 THEN n ELSE d
    BY DEF conns_clear
  <1>4. Slots(d) \in Nat
    BY DEF Slots, Data
  <1> HIDE DEF n, x
  <1>5. QED
    BY <1>1, <1>2, <1>3, <1>4 DEF Slots

\* sendConnectionsDump changes neither the slots nor the purge mark.
LEMMA DumpedLemma ==
    ASSUME NEW d \in Data
    PROVE  LET n == Dumped(d)
               m == [d EXCEPT !.pending = FALSE]
           IN  /\ n \in Data /\ n.to_purge = d.to_purge /\ n.mem = d.mem
               /\ n.status = d.status /\ n.update = {} /\ ~n.pending
               /\ n.inNew = d.inNew /\ n.inUpd = d.inUpd
               /\ m \in Data /\ m.to_purge = d.to_purge /\ m.mem = d.mem /\ m.status = d.status
               /\ m.inNew = d.inNew /\ m.inUpd = d.inUpd
  BY DEF Dumped, Data

\* What Java receives is well-typed.
LEMMA JavaLemma ==
    ASSUME NEW d \in Data, NEW j \in JavaConn
    PROVE  getConnUpdate(d, j) \in JavaConn
  <1>1. \A s \in SUBSET Flags : (IF "STATS" \in s THEN d.status ELSE j.status) \in Status
    BY DEF Data, JavaConn
  <1>2. \A s \in SUBSET Flags : (IF "INFO" \in s THEN d.l7 ELSE j.l7) \in Proto
    BY DEF Data, JavaConn
  <1>3. (IF d.inNew > 0 THEN d.update \cup {"STATS", "INFO"} ELSE d.update) \in SUBSET Flags
    BY DEF Data, Flags
  <1>4. (j.known \/ d.inNew > 0) \in BOOLEAN
    BY DEF Data, JavaConn
  <1>5. QED
    BY <1>1, <1>2, <1>3, <1>4 DEF getConnUpdate, JavaConn

(* A dump, whether or not it fails: no slots are left, nothing changes for *)
(* a connection without a slot, and one that is not to be purged survives. *)
LEMMA DumpLemma ==
    ASSUME NEW c \in [Ids -> Data], NEW free_all \in BOOLEAN,
           java \in [Ids -> JavaConn],
           DumpConnections(c, free_all)
    PROVE  /\ conn' \in [Ids -> Data]
           /\ java' \in [Ids -> JavaConn]
           /\ \A i \in Ids : /\ Slots(conn'[i]) = 0
                             /\ (Slots(c[i]) = 0 => conn'[i] = c[i])
                             /\ conn'[i].to_purge = c[i].to_purge
                             /\ conn'[i].status = c[i].status
                             /\ (~c[i].to_purge /\ ~free_all => conn'[i].mem = c[i].mem)
  <1>0. \A i \in Ids : Slots(c[i]) \in Nat
    BY DEF Slots, Data
  <1>1. CASE SendDump(c, free_all)
    <2>1. ASSUME NEW i \in Ids
          PROVE  LET n == IF Slots(c[i]) > 0 THEN conns_clear(Dumped(c[i]), free_all) ELSE c[i]
                 IN  /\ n \in Data /\ Slots(n) = 0 /\ (Slots(c[i]) = 0 => n = c[i])
                     /\ n.to_purge = c[i].to_purge /\ n.status = c[i].status
                     /\ ~c[i].to_purge /\ ~free_all => n.mem = c[i].mem
      <3>1. c[i] \in Data
        OBVIOUS
      <3> DEFINE m == Dumped(c[i])
                 n == conns_clear(m, free_all)
      <3>2. /\ m \in Data /\ m.to_purge = c[i].to_purge /\ m.mem = c[i].mem
            /\ m.status = c[i].status
        BY <3>1, DumpedLemma
      <3> HIDE DEF m
      <3>3. /\ n \in Data /\ Slots(n) = 0 /\ n.to_purge = m.to_purge /\ n.status = m.status
            /\ ~m.to_purge /\ ~free_all => n.mem = m.mem
        BY <3>2, ClearLemma
      <3> HIDE DEF n
      <3>4. QED
        BY <1>0, <3>1, <3>2, <3>3 DEF n, m
    <2>2. ASSUME NEW i \in Ids
          PROVE  (IF Slots(c[i]) > 0 THEN getConnUpdate(c[i], java[i]) ELSE java[i]) \in JavaConn
      BY JavaLemma
    <2>3. QED
      BY <1>1, <2>1, <2>2 DEF SendDump
  <1>2. CASE FailedDump(c, free_all)
    <2>1. PICK before \in SUBSET {i \in Ids : Slots(c[i]) > 0},
               at \in SUBSET {i \in Ids : Slots(c[i]) > 0} :
            conn' = [i \in Ids |->
                        conns_clear(CASE i \in before -> Dumped(c[i])
                                      [] i \in at \ before -> [c[i] EXCEPT !.pending = FALSE]
                                      [] OTHER -> c[i], free_all)]
      BY <1>2 DEF FailedDump
    <2>2. ASSUME NEW i \in Ids
          PROVE  LET m == CASE i \in before -> Dumped(c[i])
                            [] i \in at \ before -> [c[i] EXCEPT !.pending = FALSE]
                            [] OTHER -> c[i]
                     n == conns_clear(m, free_all)
                 IN  /\ n \in Data /\ Slots(n) = 0 /\ (Slots(c[i]) = 0 => n = c[i])
                     /\ n.to_purge = c[i].to_purge /\ n.status = c[i].status
                     /\ ~c[i].to_purge /\ ~free_all => n.mem = c[i].mem
      <3> DEFINE m == CASE i \in before -> Dumped(c[i])
                        [] i \in at \ before -> [c[i] EXCEPT !.pending = FALSE]
                        [] OTHER -> c[i]
      <3>1. c[i] \in Data
        OBVIOUS
      <3>2. m = Dumped(c[i]) \/ m = [c[i] EXCEPT !.pending = FALSE] \/ m = c[i]
        OBVIOUS
      <3>3. Slots(c[i]) = 0 => m = c[i]
        BY <2>1
      <3>4. /\ m \in Data /\ m.to_purge = c[i].to_purge /\ m.mem = c[i].mem
            /\ m.status = c[i].status
        BY <3>1, <3>2, DumpedLemma
      <3> HIDE DEF m
      <3>5. Slots(c[i]) = 0 => conns_clear(m, free_all) = c[i]
        BY <3>3 DEF conns_clear
      <3>6. LET n == conns_clear(m, free_all)
            IN  /\ n \in Data /\ Slots(n) = 0 /\ n.to_purge = m.to_purge /\ n.status = m.status
                /\ ~m.to_purge /\ ~free_all => n.mem = m.mem
        BY <3>4, ClearLemma
      <3> DEFINE n == conns_clear(m, free_all)
      <3> HIDE DEF n
      <3>7. /\ n \in Data /\ Slots(n) = 0 /\ (Slots(c[i]) = 0 => n = c[i])
            /\ n.to_purge = c[i].to_purge /\ n.status = c[i].status
            /\ ~c[i].to_purge /\ ~free_all => n.mem = c[i].mem
        BY <3>4, <3>5, <3>6 DEF n
      <3>8. QED
        BY <3>7 DEF n, m
    <2>3. java' = java
      BY <1>2 DEF FailedDump
    <2>4. QED
      BY <2>1, <2>2, <2>3
  <1>3. QED
    BY <1>1, <1>2 DEF DumpConnections

-----------------------------------------------------------------------------
(* What Java was told.                                                     *)

(* As long as nothing failed: j, what Java knows of a connection, and its  *)
(* data d agree.  Java knows the connections that exist but for those in   *)
(* new_conns; it has their status unless an update is to come, and that    *)
(* is closed once the data is freed.                                       *)
Told(d, j, born) ==
    /\ d.inNew > 0 <=> born /\ ~j.known
    /\ j.known \/ d.mem # "none" => born
    /\ ~j.known => j.status = "active"
    /\ d.mem = "alive" => ("STATS" \in d.update \/ j.status = d.status) /\ Held(d)
    /\ d.to_purge => d.status = "closed"
    /\ d.mem = "freed" => j.known /\ j.status = "closed"

(* A connection that an operation changes without a dump stays told if it  *)
(* stays in new_conns and its change of status is to be reported.          *)
LEMMA ToldChange ==
    ASSUME NEW d \in Data, NEW n \in Data, NEW j \in JavaConn, NEW born \in BOOLEAN,
           Told(d, j, born), d.mem = "alive", n.mem = "alive", n.inNew = d.inNew, Held(n),
           "STATS" \in n.update \/ (n.status = d.status /\ d.update \subseteq n.update),
           n.to_purge => n.status = "closed"
    PROVE  Told(n, j, born)
  BY DEF Told

\* A new connection, of which Java does not know, is told if it is in new_conns.
LEMMA ToldNew ==
    ASSUME NEW n \in Data, NEW j \in JavaConn, NEW born \in BOOLEAN, born, ~j.known,
           j.status = "active", n.mem = "alive", n.inNew > 0, Held(n),
           "STATS" \in n.update \/ n.status = "active", n.to_purge => n.status = "closed"
    PROVE  Told(n, j, born)
  BY DEF Told

\* What the dump sends of a connection in an array.
LEMMA UpdateLemma ==
    ASSUME NEW d \in Data, NEW j \in JavaConn, NEW born \in BOOLEAN, Told(d, j, born),
           d.mem = "alive"
    PROVE  LET k == getConnUpdate(d, j)
           IN  k \in JavaConn /\ k.status = d.status /\ (k.known <=> born)
  <1> DEFINE sent == IF d.inNew > 0 THEN d.update \cup {"STATS", "INFO"} ELSE d.update
             st == IF "STATS" \in sent THEN d.status ELSE j.status
             k == getConnUpdate(d, j)
  <1>1. k \in JavaConn
    BY JavaLemma
  <1>2. k.status = st /\ k.known = (j.known \/ d.inNew > 0)
    BY DEF getConnUpdate
  <1>3. st = d.status
    BY DEF Told
  <1>4. j.known \/ d.inNew > 0 <=> born
    BY DEF Told
  <1> HIDE DEF k, st
  <1> QED BY <1>1, <1>2, <1>3, <1>4 DEF k

(* A dump that succeeds: every connection that exists is known, and the    *)
(* ones that are freed were told to be closed.                             *)
LEMMA ToldDump ==
    ASSUME NEW d \in Data, NEW j \in JavaConn, NEW born \in BOOLEAN, NEW free_all \in BOOLEAN,
           SlotOK(d), Told(d, j, born), free_all /\ Slots(d) > 0 => d.status = "closed"
    PROVE  LET n == IF Slots(d) > 0 THEN conns_clear(Dumped(d), free_all) ELSE d
               k == IF Slots(d) > 0 THEN getConnUpdate(d, j) ELSE j
           IN  /\ Told(n, k, born)
               /\ k.known <=> born
               /\ Slots(d) > 0 /\ (d.to_purge \/ free_all) => n.mem = "freed"
  <1>0. Slots(d) \in Nat /\ d.inNew \in Nat /\ d.inUpd \in Nat
    BY DEF Slots, Data
  <1>1. CASE Slots(d) > 0
    <2> DEFINE m == Dumped(d)
               n == conns_clear(m, free_all)
               k == getConnUpdate(d, j)
    <2>1. /\ m \in Data /\ m.to_purge = d.to_purge /\ m.mem = d.mem /\ m.status = d.status
          /\ m.update = {} /\ ~m.pending /\ Slots(m) > 0
      BY <1>1, DumpedLemma DEF Slots
    <2> HIDE DEF m
    <2>2. /\ n \in Data /\ Slots(n) = 0 /\ n.to_purge = d.to_purge /\ n.status = d.status
          /\ ~n.pending
          /\ ~d.to_purge /\ ~free_all => n.mem = d.mem
          /\ d.to_purge \/ free_all => n.mem = "freed"
      BY <2>1, ClearLemma
    <2>3. d.mem = "alive" /\ d.pending
      BY <1>1 DEF SlotOK
    <2>4. k \in JavaConn /\ k.status = d.status /\ (k.known <=> born)
      BY <2>3, UpdateLemma
    <2> HIDE DEF n, k
    <2>5. n.inNew = 0
      BY <2>2 DEF Slots, Data
    <2>6. d.to_purge => d.status = "closed"
      BY DEF Told
    <2>7. n.mem = "freed" => d.status = "closed"
      BY <1>1, <2>2, <2>3, <2>6
    <2>8. n.inNew > 0 <=> born /\ ~k.known
      BY <2>4, <2>5
    <2>9. born
      BY <2>3 DEF Told
    <2>10. Told(n, k, born)
      BY <2>2, <2>4, <2>6, <2>7, <2>8, <2>9 DEF Told, Held
    <2> QED BY <1>1, <2>2, <2>4, <2>10 DEF n, k, m
  <1>2. CASE Slots(d) = 0
    <2>1. d.inNew = 0
      BY <1>0, <1>2 DEF Slots
    <2>2. j.known <=> born
      BY <2>1 DEF Told
    <2> QED BY <1>2, <2>2
  <1> QED BY <1>0, <1>1, <1>2

\* What Java was told of all connections.
AllTold == \A i \in Ids : Told(conn[i], java[i], i < new_conn_id)

\* Java was told of the connections in the order of their ids.
InOrder == \A i, j \in Ids : java[j].known /\ i < j => java[i].known

\* A dump that succeeds, on all connections.
LEMMA AllToldDump ==
    ASSUME DataTypeOK, NEW c \in [Ids -> Data], NEW free_all \in BOOLEAN,
           SendDump(c, free_all), new_conn_id' = new_conn_id,
           \A i \in Ids : /\ SlotOK(c[i]) /\ Told(c[i], java[i], i < new_conn_id)
                          /\ free_all /\ Slots(c[i]) > 0 => c[i].status = "closed"
    PROVE  /\ AllTold' /\ InOrder'
           /\ \A i \in Ids : Slots(c[i]) > 0 /\ (c[i].to_purge \/ free_all) => conn'[i].mem = "freed"
  <1>1. ASSUME NEW i \in Ids
        PROVE  /\ Told(conn'[i], java'[i], i < new_conn_id)
               /\ java'[i].known <=> i < new_conn_id
               /\ Slots(c[i]) > 0 /\ (c[i].to_purge \/ free_all) => conn'[i].mem = "freed"
    <2>1. /\ conn'[i] = IF Slots(c[i]) > 0 THEN conns_clear(Dumped(c[i]), free_all) ELSE c[i]
          /\ java'[i] = IF Slots(c[i]) > 0 THEN getConnUpdate(c[i], java[i]) ELSE java[i]
      BY DEF SendDump
    <2> DEFINE born == i < new_conn_id
               d == c[i]
               j == java[i]
    <2>2. d \in Data /\ j \in JavaConn /\ born \in BOOLEAN
      BY DEF DataTypeOK
    <2>3. SlotOK(d) /\ Told(d, j, born) /\ (free_all /\ Slots(d) > 0 => d.status = "closed")
      OBVIOUS
    <2> HIDE DEF born, d, j
    <2>4. LET n == IF Slots(d) > 0 THEN conns_clear(Dumped(d), free_all) ELSE d
              k == IF Slots(d) > 0 THEN getConnUpdate(d, j) ELSE j
          IN  /\ Told(n, k, born)
              /\ k.known <=> born
              /\ Slots(d) > 0 /\ (d.to_purge \/ free_all) => n.mem = "freed"
      BY <2>2, <2>3, ToldDump
    <2> QED BY <2>1, <2>4 DEF born, d, j
  <1>2. AllTold'
    BY <1>1 DEF AllTold
  <1>3. InOrder'
    BY <1>1 DEF InOrder, DataTypeOK, Ids
  <1> QED BY <1>1, <1>2, <1>3

(* What the properties say of Java follows.                                *)
LEMMA ToldInSync == DataTypeOK /\ Unborn /\ (~faulted => AllTold /\ InOrder) => JavaInSync
  <1> SUFFICES ASSUME DataTypeOK, Unborn, ~faulted, AllTold, InOrder
               PROVE  JavaInSync
    BY DEF JavaInSync, NewConnsContiguous, JavaStatusInSync, JavaLearnsClose
  <1>1. NewConnsContiguous
    BY DEF NewConnsContiguous, AllTold, InOrder, Told
  <1>2. JavaStatusInSync /\ JavaLearnsClose
    BY DEF JavaStatusInSync, JavaLearnsClose, AllTold, Told, Alive
  <1> QED BY <1>1, <1>2 DEF JavaInSync

-----------------------------------------------------------------------------
(* Java does not see a connection come back.                               *)

\* What Java takes for closed is closed.
ClosedForGood == \A i \in Ids : java[i].status = "closed" => conn[i].status = "closed"

\* Java neither forgets a connection nor sees it become active again.
JavaKeeps ==
    \A i \in Ids : /\ java[i].known => java'[i].known
                   /\ java[i].status = "closed" => java'[i].status = "closed"

\* A dump, whether it succeeds or not, sends no other status than the data's.
LEMMA KeepsDump ==
    ASSUME NEW c \in [Ids -> Data], NEW free_all \in BOOLEAN, java \in [Ids -> JavaConn],
           DumpConnections(c, free_all),
           \A i \in Ids : java[i].status = "closed" => c[i].status = "closed"
    PROVE  ClosedForGood' /\ JavaKeeps
  <1>1. \A i \in Ids : conn'[i].status = c[i].status
    BY DumpLemma
  <1>2. ASSUME NEW i \in Ids
        PROVE  /\ java[i].known => java'[i].known
               /\ java'[i].status \in {java[i].status, c[i].status}
    <2>1. CASE SendDump(c, free_all)
      <3>1. java'[i] = IF Slots(c[i]) > 0 THEN getConnUpdate(c[i], java[i]) ELSE java[i]
        BY <2>1 DEF SendDump
      <3>2. LET k == getConnUpdate(c[i], java[i])
            IN  /\ java[i].known => k.known
                /\ k.status \in {java[i].status, c[i].status}
        BY DEF getConnUpdate
      <3> QED BY <3>1, <3>2
    <2>2. CASE FailedDump(c, free_all)
      BY <2>2 DEF FailedDump
    <2> QED BY <2>1, <2>2 DEF DumpConnections
  <1>3. ClosedForGood'
    BY <1>1, <1>2 DEF ClosedForGood
  <1>4. JavaKeeps
    BY <1>2 DEF JavaKeeps
  <1> QED BY <1>3, <1>4
=============================================================================
