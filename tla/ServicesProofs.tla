--------------------------- MODULE ServicesProofs ---------------------------
(***************************************************************************)
(* The sockets of zdtun, the service that reconnects the VPN, and the      *)
(* messages of the decryption add-on.                                      *)
(*                                                                         *)
(* ResourcesAccounted and PurgeMakesRoom hold of zdtun for every number of *)
(* connections and every limit on its sockets.  The inductive invariant    *)
(* counts what is held, also in the middle of an operation.                *)
(*                                                                         *)
(* NothingArmed holds for every number of instances of the service and of  *)
(* networks.  The inductive invariant says which instance is alive, which  *)
(* timers were left armed, and what the last event on its way tells.       *)
(*                                                                         *)
(* ErrorShown holds for every number of connections, ports and messages.   *)
(* The inductive invariant adds that the receiver works on one registered  *)
(* connection, and that a connection is open until it is registered.       *)
(***************************************************************************)
EXTENDS Zdtun, VpnReconnect, MitmReceiver, FiniteSetTheorems, SequenceTheorems, TLAPS

\* Each leaf is tried with Zenon, then with SMT.
USE ZenonT(5), SMTT(15)

-----------------------------------------------------------------------------
(* zdtun.                                                                  *)

(* What the states that the functions of zdtun.c work on have in common,   *)
(* also in the middle of an operation: what is held is counted, and only   *)
(* by connections that are open.                                           *)
Table == [c : [Tuples -> Conn], m : [Keys -> Mapping], n : Nat, u : BOOLEAN]

Typed(s) == s \in Table /\ \A t \in Tuples : s.c[t].idle <= Timeout[t]

Holds(s, t) == s.c[t].sock \/ (t \in Udp /\ s.c[t].port # 0)

Counted(s) ==
    /\ s.n = Cardinality(Socks(s)) /\ s.n <= MAX_NUM_SOCKETS
    /\ \A t \in Tuples : Holds(s, t) => Active(s, t)

Mapped(s) ==
    \A k \in Keys :
        /\ s.m[k].num_uses > 0 => s.m[k].port # 0
        /\ s.m[k].num_uses <= Cardinality(Bound(s, k))
        /\ ~s.u => /\ s.m[k].num_uses = Cardinality(Bound(s, k))
                   /\ \A t \in Bound(s, k) : s.c[t].port = s.m[k].port

Core(s) == Typed(s) /\ Counted(s) /\ Mapped(s)

\* Between two operations, a UDP connection also has a socket exactly as long as it is bound.
Matched(s, t) ==
    /\ s.c[t].sock => s.c[t].status \in {"connecting", "connected"}
    /\ t \in Udp => (s.c[t].sock <=> s.c[t].port # 0)

Good(s) == Core(s) /\ \A t \in Tuples : Matched(s, t)

(* The sets are finite.                                                    *)
LEMMA Finite ==
    ASSUME NEW s
    PROVE  /\ IsFiniteSet(Socks(s)) /\ Cardinality(Socks(s)) \in Nat
           /\ \A k : IsFiniteSet(Bound(s, k)) /\ Cardinality(Bound(s, k)) \in Nat
  <1>1. \A S \in SUBSET Tuples : IsFiniteSet(S) /\ Cardinality(S) \in Nat
    BY ZdtunAssumption, FS_Subset, FS_CardinalityType
  <1>2. Socks(s) \in SUBSET Tuples /\ \A k : Bound(s, k) \in SUBSET Tuples
    BY DEF Socks, Bound, Tuples
  <1> QED BY <1>1, <1>2

\* The table of the program.
LEMMA NowIs ==
    /\ Now.c = conn_table /\ Now.m = udp_mappings /\ Now.n = num_open_sockets /\ Now.u = unbound
  BY DEF Now

\* Nothing is open at the start.
LEMMA ZdtunStart == Init => Good(Now)
  <1> SUFFICES ASSUME Init PROVE Good(Now)
    OBVIOUS
  <1> USE NowIs
  <1>1. Typed(Now)
    <2>1. NoConn \in Conn /\ NoConn.idle = 0
      BY DEF NoConn, Conn, Status
    <2>2. NoMapping \in Mapping
      BY DEF NoMapping, Mapping
    <2>3. Now \in Table
      BY <2>1, <2>2 DEF Init, Now, Table
    <2>4. \A t \in Tuples : 0 <= Timeout[t]
      BY ZdtunAssumption
    <2> QED BY <2>1, <2>3, <2>4 DEF Init, Typed
  <1>2. Socks(Now) = {} /\ \A k : Bound(Now, k) = {}
    BY DEF Init, Socks, Bound, NoConn, Tuples
  <1>3. Cardinality({}) = 0
    BY FS_EmptySet
  <1>4. Counted(Now)
    BY <1>2, <1>3, ZdtunAssumption DEF Init, Counted, Holds, NoConn, Tuples
  <1>5. Mapped(Now)
    BY <1>2, <1>3 DEF Init, Mapped, NoMapping
  <1> QED BY <1>1, <1>4, <1>5 DEF Init, Good, Core, Matched, NoConn

-----------------------------------------------------------------------------
(* Closing connections.                                                    *)

(* A state r in which the connections of gone hold nothing any more, with  *)
(* the counts as zdtun_conn_close leaves them.                             *)
Freed(s, gone, r) ==
    /\ Typed(r)
    /\ \A t \in Tuples : IF t \in gone THEN ~Holds(r, t) ELSE r.c[t] = s.c[t]
    /\ r.m = zdtun_conn_close(s, gone).m
    /\ r.n = zdtun_conn_close(s, gone).n
    /\ r.u = zdtun_conn_close(s, gone).u

\* The mapping after k closes.
LEMMA ReleasedIs ==
    ASSUME NEW m \in Mapping, NEW k \in Nat
    PROVE  /\ Released(m, k) \in Mapping
           /\ Released(m, k).num_uses = IF m.num_uses > k THEN m.num_uses - k ELSE 0
           /\ m.num_uses > k => Released(m, k).port = m.port
  <1>1. CASE m.num_uses > k
    <2>1. m.num_uses - k \in Nat
      BY <1>1 DEF Mapping
    <2>2. Released(m, k) = [port |-> m.port, num_uses |-> m.num_uses - k]
      BY <1>1 DEF Released, Mapping
    <2> QED BY <1>1, <2>1, <2>2 DEF Mapping
  <1>2. CASE ~(m.num_uses > k)
    BY <1>2 DEF Released, NoMapping, Mapping
  <1> QED BY <1>1, <1>2

\* Then the counts are right again.
LEMMA FreedCore ==
    ASSUME NEW s, Core(s), NEW gone \in SUBSET Tuples, NEW r, Freed(s, gone, r)
    PROVE  Core(r)
  <1> DEFINE open  == {t \in gone : Active(s, t)}
             of(k) == {t \in open \cap Udp : KeyOf[t] = k}
  <1>1. /\ r.n = Fewer(s.n, Cardinality(open \cap Socks(s)))
        /\ r.u = (s.u \/ \E t \in open \cap Udp : s.c[t].port = 0)
        /\ \A k \in Keys : r.m[k] = Released(s.m[k], Cardinality(of(k)))
    BY DEF Freed, zdtun_conn_close
  <1>2. \A t \in gone : Holds(s, t) => t \in open
    BY DEF Core, Counted
  <1>3. Counted(r)
    <2>1. Socks(r) = Socks(s) \ (open \cap Socks(s))
      BY <1>2 DEF Freed, Socks, Holds
    <2>2. Cardinality(Socks(r)) = Cardinality(Socks(s)) - Cardinality(Socks(s) \cap (open \cap Socks(s)))
      BY <2>1, Finite, FS_Difference
    <2>3. Socks(s) \cap (open \cap Socks(s)) = open \cap Socks(s)
      OBVIOUS
    <2>4. IsFiniteSet(open \cap Socks(s)) /\ Cardinality(open \cap Socks(s)) \in Nat
      BY Finite, FS_Intersection, FS_CardinalityType
    <2> HIDE DEF open
    <2>5. s.n = Cardinality(Socks(s)) /\ Cardinality(Socks(s)) \in Nat /\ Cardinality(Socks(r)) \in Nat
      BY Finite DEF Core, Counted
    <2>6. r.n = Cardinality(Socks(r)) /\ r.n <= s.n
      BY <1>1, <2>2, <2>3, <2>4, <2>5 DEF Fewer
    <2>7. r.n <= MAX_NUM_SOCKETS
      BY <2>5, <2>6, ZdtunAssumption DEF Core, Counted
    <2>8. \A t \in Tuples : Holds(r, t) => Active(r, t)
      BY DEF Freed, Core, Counted, Active, Holds
    <2> QED BY <2>6, <2>7, <2>8 DEF Counted
  <1>4. Mapped(r)
    <2> SUFFICES ASSUME NEW k \in Keys
                 PROVE  /\ r.m[k].num_uses > 0 => r.m[k].port # 0
                        /\ r.m[k].num_uses <= Cardinality(Bound(r, k))
                        /\ ~r.u => /\ r.m[k].num_uses = Cardinality(Bound(r, k))
                                   /\ \A t \in Bound(r, k) : r.c[t].port = r.m[k].port
      BY DEF Mapped
    <2> DEFINE B == Bound(s, k)
               G == of(k)
    <2>1. Bound(r, k) = B \ (B \cap G)
      BY <1>2 DEF Freed, Bound, Holds, Tuples
    <2>2. ~r.u => G \subseteq B
      BY <1>1 DEF Bound
    <2>3. IsFiniteSet(B) /\ Cardinality(B) \in Nat /\ Cardinality(Bound(r, k)) \in Nat
      BY Finite
    <2>4. G \in SUBSET Tuples
      BY DEF Tuples
    <2>5. IsFiniteSet(G) /\ Cardinality(G) \in Nat /\ Cardinality(B \cap G) \in Nat /\ Cardinality(B \cap G) <= Cardinality(G)
      BY <2>4, ZdtunAssumption, FS_Subset, FS_CardinalityType, FS_Intersection
    <2>6. r.m[k] = Released(s.m[k], Cardinality(G))
      BY <1>1
    <2>7. \A t \in Bound(r, k) : r.c[t] = s.c[t] /\ t \in B
      BY <1>2 DEF Freed, Bound, Holds, Tuples
    <2>8. s.m[k] \in Mapping /\ s.m[k].num_uses \in Nat
      BY DEF Core, Typed, Table, Mapping
    <2>9. /\ s.m[k].num_uses > 0 => s.m[k].port # 0
          /\ s.m[k].num_uses <= Cardinality(B)
          /\ ~s.u => /\ s.m[k].num_uses = Cardinality(B)
                     /\ \A t \in B : s.c[t].port = s.m[k].port
      BY DEF Core, Mapped
    <2>10. ~r.u => ~s.u
      BY <1>1
    <2> HIDE DEF B, G
    <2>11. Cardinality(Bound(r, k)) = Cardinality(B) - Cardinality(B \cap G)
      <3>1. Cardinality(B \ (B \cap G)) = Cardinality(B) - Cardinality(B \cap (B \cap G))
        BY <2>3, FS_Difference
      <3>2. B \cap (B \cap G) = B \cap G
        OBVIOUS
      <3> QED BY <2>1, <3>1, <3>2
    <2>12. /\ r.m[k].num_uses = IF s.m[k].num_uses > Cardinality(G) THEN s.m[k].num_uses - Cardinality(G) ELSE 0
           /\ s.m[k].num_uses > Cardinality(G) => r.m[k].port = s.m[k].port
      BY <2>5, <2>6, <2>8, ReleasedIs
    <2>13. r.m[k].num_uses > 0 => r.m[k].port # 0
      BY <2>5, <2>8, <2>9, <2>12
    <2>14. r.m[k].num_uses <= Cardinality(Bound(r, k))
      BY <2>3, <2>5, <2>8, <2>9, <2>11, <2>12
    <2>15. ASSUME ~r.u
           PROVE  /\ r.m[k].num_uses = Cardinality(Bound(r, k))
                  /\ \A t \in Bound(r, k) : r.c[t].port = r.m[k].port
      <3>1. B \cap G = G
        BY <2>2, <2>15
      <3>2. s.m[k].num_uses = Cardinality(B)
        BY <2>9, <2>10, <2>15
      <3>3. r.m[k].num_uses = Cardinality(Bound(r, k))
        <4>1. Cardinality(Bound(r, k)) = Cardinality(B) - Cardinality(G)
          BY <2>11, <3>1
        <4> QED BY <2>3, <2>5, <2>12, <3>2, <4>1
      <3>4. CASE s.m[k].num_uses > Cardinality(G)
        BY <2>7, <2>9, <2>10, <2>12, <2>15, <3>3, <3>4
      <3>5. CASE ~(s.m[k].num_uses > Cardinality(G))
        <4>1. Cardinality(Bound(r, k)) = 0
          BY <2>12, <3>3, <3>5
        <4>2. Bound(r, k) = {}
          BY <4>1, Finite, FS_EmptySet
        <4> QED BY <3>3, <4>2
      <3> QED BY <3>4, <3>5
    <2> QED BY <2>13, <2>14, <2>15
  <1> QED BY <1>3, <1>4 DEF Core, Freed

\* A connection that is closed, or gone, holds nothing.
LEMMA EmptyConns ==
    /\ {NoConn, NewConn, ClosedConn} \subseteq Conn
    /\ \A c \in {NoConn, NewConn, ClosedConn} : ~c.sock /\ c.port = 0 /\ c.idle = 0
    /\ NewConn.status = "new" /\ NoConn.status = "none" /\ ClosedConn.status = "closed"
    /\ \A t \in Tuples : Timeout[t] \in Nat
  <1>1. \A t \in Tuples : Timeout[t] \in Nat
    BY ZdtunAssumption
  <1>2. NoConn \in Conn /\ ~NoConn.sock /\ NoConn.port = 0 /\ NoConn.idle = 0
    BY DEF NoConn, Conn, Status
  <1>3. NewConn \in Conn /\ ~NewConn.sock /\ NewConn.port = 0 /\ NewConn.idle = 0
    BY DEF NewConn, Conn, Status
  <1>4. ClosedConn \in Conn /\ ~ClosedConn.sock /\ ClosedConn.port = 0 /\ ClosedConn.idle = 0
    BY DEF ClosedConn, Conn, Status
  <1> QED BY <1>1, <1>2, <1>3, <1>4 DEF NewConn, NoConn, ClosedConn

\* zdtun_conn_close
LEMMA CloseCore ==
    ASSUME NEW s, Core(s), NEW gone \in SUBSET Tuples
    PROVE  LET r == zdtun_conn_close(s, gone)
           IN  /\ Core(r)
               /\ \A t \in Tuples : r.c[t] = IF t \in gone /\ Active(s, t) THEN ClosedConn ELSE s.c[t]
  <1> DEFINE r == zdtun_conn_close(s, gone)
             open  == {t \in gone : Active(s, t)}
             of(k) == {t \in open \cap Udp : KeyOf[t] = k}
  <1>1. \A t \in Tuples : r.c[t] = IF t \in gone /\ Active(s, t) THEN ClosedConn ELSE s.c[t]
    BY DEF zdtun_conn_close
  <1>2. r.c \in [Tuples -> Conn]
    BY EmptyConns DEF zdtun_conn_close, Core, Typed, Table
  <1>3. \A k \in Keys : Cardinality(of(k)) \in Nat
    <2>1. \A k \in Keys : of(k) \in SUBSET Tuples
      BY DEF Tuples
    <2> QED BY <2>1, ZdtunAssumption, FS_Subset, FS_CardinalityType
  <1>4. r.m \in [Keys -> Mapping]
    <2>1. r.m = [k \in Keys |-> Released(s.m[k], Cardinality(of(k)))]
      BY DEF zdtun_conn_close
    <2>2. \A k \in Keys : s.m[k] \in Mapping
      BY DEF Core, Typed, Table
    <2> HIDE DEF r, of
    <2>3. \A k \in Keys : Released(s.m[k], Cardinality(of(k))) \in Mapping
      BY <1>3, <2>2, ReleasedIs
    <2> QED BY <2>1, <2>3
  <1>5. r.n \in Nat /\ r.u \in BOOLEAN
    <2>1. Cardinality(open \cap Socks(s)) \in Nat /\ s.n \in Nat
      BY Finite, FS_Intersection, FS_CardinalityType DEF Core, Counted
    <2>2. r.n = Fewer(s.n, Cardinality(open \cap Socks(s)))
      BY DEF zdtun_conn_close
    <2>3. r.u \in BOOLEAN
      BY DEF zdtun_conn_close, Core, Typed, Table
    <2> HIDE DEF r, open
    <2> QED BY <2>1, <2>2, <2>3 DEF Fewer
  <1>6. r \in Table
    <2>1. r = [c |-> r.c, m |-> r.m, n |-> r.n, u |-> r.u]
      BY DEF zdtun_conn_close
    <2> HIDE DEF r
    <2> QED BY <1>2, <1>4, <1>5, <2>1 DEF Table
  <1> HIDE DEF r
  <1>7. Typed(r)
    BY <1>1, <1>6, EmptyConns DEF Core, Typed
  <1>8. \A t \in gone : ~Holds(r, t)
    BY <1>1, EmptyConns DEF Core, Counted, Holds
  <1>9. Freed(s, gone, r)
    BY <1>1, <1>7, <1>8 DEF Freed, r
  <1>10. Core(r)
    BY <1>9, FreedCore
  <1> QED BY <1>1, <1>10 DEF r

\* destroy_conn
LEMMA DestroyCore ==
    ASSUME NEW s, Core(s), NEW gone \in SUBSET Tuples
    PROVE  LET r == destroy_conn(s, gone)
           IN  /\ Core(r)
               /\ \A t \in Tuples : r.c[t] = IF t \in gone THEN NoConn ELSE s.c[t]
  <1> DEFINE q == zdtun_conn_close(s, gone)
             c == [t \in Tuples |-> IF t \in gone THEN NoConn ELSE s.c[t]]
             r == destroy_conn(s, gone)
  <1>1. q \in Table
    BY CloseCore DEF Core, Typed
  <1>2. r = [q EXCEPT !.c = c]
    BY DEF destroy_conn
  <1>3. c \in [Tuples -> Conn]
    BY EmptyConns DEF Core, Typed, Table
  <1>4. \A t \in Tuples : c[t] = IF t \in gone THEN NoConn ELSE s.c[t]
    OBVIOUS
  <1> HIDE DEF q, c, r
  <1>5. r \in Table /\ r.c = c /\ r.m = q.m /\ r.n = q.n /\ r.u = q.u
    BY <1>1, <1>2, <1>3 DEF Table
  <1>6. Typed(r)
    BY <1>4, <1>5, EmptyConns DEF Core, Typed
  <1>7. \A t \in gone : ~Holds(r, t)
    BY <1>4, <1>5, EmptyConns DEF Holds
  <1>8. Freed(s, gone, r)
    BY <1>4, <1>5, <1>6, <1>7 DEF Freed, q
  <1>9. Core(r)
    BY <1>8, FreedCore
  <1> QED BY <1>4, <1>5, <1>9 DEF r

\* Neither disturbs the other connections.
LEMMA CloseGood ==
    ASSUME NEW s, Core(s), NEW gone \in SUBSET Tuples,
           \A t \in Tuples : Matched(s, t) \/ (t \in gone /\ Active(s, t))
    PROVE  Good(zdtun_conn_close(s, gone))
  BY CloseCore, EmptyConns DEF Good, Matched

\* zdtun_destroy_conn keeps the accounts of a consistent state.
LEMMA DestroyGood ==
    ASSUME NEW s, Good(s), NEW gone \in SUBSET Tuples
    PROVE  Good(destroy_conn(s, gone))
  BY DestroyCore, EmptyConns DEF Good, Matched

-----------------------------------------------------------------------------
(* Replacing a connection.                                                 *)
LEMMA WithIs ==
    ASSUME NEW s \in Table, NEW t \in Tuples, NEW c \in Conn
    PROVE  LET r == With(s, t, c)
           IN  /\ r \in Table /\ r.m = s.m /\ r.n = s.n /\ r.u = s.u
               /\ r.c[t] = c /\ \A o \in Tuples \ {t} : r.c[o] = s.c[o]
  <1> DEFINE d == [s.c EXCEPT ![t] = c]
             r == With(s, t, c)
  <1>1. d \in [Tuples -> Conn] /\ d[t] = c /\ \A o \in Tuples \ {t} : d[o] = s.c[o]
    BY DEF Table
  <1>2. r = [s EXCEPT !.c = d]
    BY DEF With
  <1> HIDE DEF d, r
  <1>3. r \in Table /\ r.c = d /\ r.m = s.m /\ r.n = s.n /\ r.u = s.u
    BY <1>1, <1>2 DEF Table
  <1> QED BY <1>1, <1>3 DEF r

\* A connection that holds what it held leaves the counts right.
LEMMA SameHold ==
    ASSUME NEW s, Core(s), NEW t \in Tuples, NEW c \in Conn, c.idle <= Timeout[t],
           c.sock = s.c[t].sock, t \in Udp => c.port = s.c[t].port,
           c.status \in {"new", "connecting", "connected"} \/ ~Holds(s, t)
    PROVE  Core(With(s, t, c)) /\ (Good(s) /\ Matched(With(s, t, c), t) => Good(With(s, t, c)))
  <1> DEFINE r == With(s, t, c)
  <1>1. /\ r \in Table /\ r.m = s.m /\ r.n = s.n /\ r.u = s.u
        /\ r.c[t] = c /\ \A o \in Tuples \ {t} : r.c[o] = s.c[o]
    BY WithIs DEF Core, Typed
  <1> HIDE DEF r
  <1>2. Typed(r)
    BY <1>1 DEF Core, Typed
  <1>3. Socks(r) = Socks(s)
    BY <1>1 DEF Socks
  <1>4. \A o \in Tuples : Holds(r, o) <=> Holds(s, o)
    BY <1>1 DEF Holds
  <1>5. \A o \in Tuples : Holds(r, o) => Active(r, o)
    BY <1>1, <1>4 DEF Core, Counted, Active
  <1>6. Counted(r)
    BY <1>1, <1>3, <1>5 DEF Core, Counted
  <1>7. \A k : Bound(r, k) = Bound(s, k)
    BY <1>1 DEF Bound, Tuples
  <1>8. \A k : \A o \in Bound(r, k) : r.c[o].port = s.c[o].port
    BY <1>1 DEF Bound, Tuples
  <1>9. Mapped(r)
    BY <1>1, <1>7, <1>8 DEF Core, Mapped
  <1>10. Good(s) /\ Matched(r, t) => \A o \in Tuples : Matched(r, o)
    BY <1>1 DEF Good, Matched
  <1> QED BY <1>2, <1>6, <1>9, <1>10 DEF Core, Good, r

\* The fields that are replaced, one by one.
LEMMA Fields ==
    ASSUME NEW c \in Conn
    PROVE  /\ \A v \in Status : LET r == [c EXCEPT !.status = v]
                                IN  r \in Conn /\ r.status = v /\ r.sock = c.sock /\ r.port = c.port /\ r.idle = c.idle
           /\ \A v \in Nat : LET r == [c EXCEPT !.idle = v]
                             IN  r \in Conn /\ r.status = c.status /\ r.sock = c.sock /\ r.port = c.port /\ r.idle = v
           /\ \A v \in BOOLEAN : LET r == [c EXCEPT !.sock = v]
                             IN  r \in Conn /\ r.status = c.status /\ r.sock = v /\ r.port = c.port /\ r.idle = c.idle
           /\ \A v \in LocalPorts : LET r == [c EXCEPT !.port = v, !.status = "connected"]
                             IN  r \in Conn /\ r.status = "connected" /\ r.sock = c.sock /\ r.port = v /\ r.idle = c.idle
  BY DEF Conn, Status

\* The timestamp.
LEMMA SeenGood ==
    ASSUME NEW s, Good(s), NEW t \in Tuples
    PROVE  Good(Seen(s, t))
  <1> DEFINE c == [s.c[t] EXCEPT !.idle = 0]
  <1>1. s \in Table /\ s.c[t] \in Conn
    BY DEF Good, Core, Typed, Table
  <1>2. c \in Conn /\ c.status = s.c[t].status /\ c.sock = s.c[t].sock /\ c.port = s.c[t].port /\ c.idle = 0
    BY <1>1 DEF Conn
  <1>3. Seen(s, t) = With(s, t, c)
    BY DEF Seen
  <1> HIDE DEF c
  <1>4. c.idle <= Timeout[t]
    BY <1>2, EmptyConns
  <1>5. c.status \in {"new", "connecting", "connected"} \/ ~Holds(s, t)
    BY <1>2 DEF Good, Core, Counted, Active
  <1>6. Matched(With(s, t, c), t)
    BY <1>1, <1>2, WithIs DEF Good, Matched
  <1> QED BY <1>2, <1>3, <1>4, <1>5, <1>6, SameHold DEF Good

\* A connection that holds nothing is replaced by another.
LEMMA EmptyGood ==
    ASSUME NEW s, Good(s), NEW t \in Tuples, NEW c \in {NewConn, ClosedConn}, ~Holds(s, t)
    PROVE  Good(With(s, t, c))
  <1>1. s \in Table
    BY DEF Good, Core, Typed
  <1>2. c \in Conn /\ ~c.sock /\ c.port = 0 /\ c.idle = 0 /\ c.idle <= Timeout[t]
    BY EmptyConns
  <1>3. c.sock = s.c[t].sock /\ (t \in Udp => c.port = s.c[t].port)
    <2>1. c.sock \in BOOLEAN /\ s.c[t].sock \in BOOLEAN
      BY <1>1, <1>2 DEF Table, Conn
    <2> QED BY <1>2, <2>1 DEF Holds
  <1>4. Matched(With(s, t, c), t)
    BY <1>1, <1>2, WithIs DEF Matched
  <1> QED BY <1>2, <1>3, <1>4, SameHold DEF Good

-----------------------------------------------------------------------------
(* Opening connections.                                                    *)

\* The state r, in which the connection t of s has a socket.
Opened(s, t, r) ==
    /\ Core(r) /\ r.c[t] = [s.c[t] EXCEPT !.sock = TRUE]
    /\ \A o \in Tuples \ {t} : r.c[o] = s.c[o]

\* open_socket counts the socket it opens.
LEMMA OpenCore ==
    ASSUME NEW s, Core(s), NEW t \in Tuples, s.c[t].status = "new", ~s.c[t].sock,
           NEW r \in open_socket(s, t)
    PROVE  Opened(s, t, r)
  <1> DEFINE c == [s.c[t] EXCEPT !.sock = TRUE]
             w == With(s, t, c)
  <1>1. s \in Table /\ s.c[t] \in Conn
    BY DEF Core, Typed, Table
  <1>2. c \in Conn /\ c.status = "new" /\ c.sock /\ c.port = s.c[t].port /\ c.idle = s.c[t].idle
    BY <1>1, Fields
  <1>3. s.n < MAX_NUM_SOCKETS /\ r = [w EXCEPT !.n = @ + 1]
    BY DEF open_socket
  <1>4. /\ w \in Table /\ w.m = s.m /\ w.n = s.n /\ w.u = s.u
        /\ w.c[t] = c /\ \A o \in Tuples \ {t} : w.c[o] = s.c[o]
    <2> HIDE DEF c
    <2> QED BY <1>1, <1>2, WithIs
  <1> HIDE DEF w, c
  <1>5. /\ r \in Table /\ r.m = s.m /\ r.n = s.n + 1 /\ r.u = s.u
        /\ r.c[t] = c /\ \A o \in Tuples \ {t} : r.c[o] = s.c[o]
    <2>1. s.n + 1 \in Nat /\ w.n = s.n
      BY <1>1, <1>4 DEF Table
    <2>2. r = [c |-> w.c, m |-> w.m, n |-> s.n + 1, u |-> w.u]
      BY <1>3, <1>4, <2>1 DEF Table
    <2> QED BY <1>4, <2>1, <2>2 DEF Table
  <1>6. Typed(r)
    BY <1>2, <1>5 DEF Core, Typed
  <1>7. Counted(r)
    <2>1. Socks(r) = Socks(s) \cup {t} /\ t \notin Socks(s)
      BY <1>2, <1>5 DEF Socks
    <2>2. Cardinality(Socks(r)) = Cardinality(Socks(s)) + 1
      BY <2>1, Finite, FS_AddElement
    <2>3. r.n = Cardinality(Socks(r)) /\ r.n <= MAX_NUM_SOCKETS
      BY <1>3, <1>5, <2>2, ZdtunAssumption, Finite DEF Core, Counted
    <2>4. \A o \in Tuples : Holds(r, o) => Active(r, o)
      BY <1>2, <1>5 DEF Core, Counted, Holds, Active
    <2> QED BY <2>3, <2>4 DEF Counted
  <1>8. Mapped(r)
    <2>1. \A k : Bound(r, k) = Bound(s, k)
      BY <1>2, <1>5 DEF Bound, Tuples
    <2>2. \A k : \A o \in Bound(r, k) : r.c[o].port = s.c[o].port
      BY <1>2, <1>5 DEF Bound, Tuples
    <2> QED BY <1>5, <2>1, <2>2, ZenonT(20) DEF Core, Mapped
  <1> QED BY <1>5, <1>6, <1>7, <1>8 DEF Core, Opened, c

\* The state r, in which the UDP connection t of s is bound.
Linked(s, t, r) ==
    /\ Core(r) /\ r.c[t].status = "connected" /\ r.c[t].sock = s.c[t].sock /\ r.c[t].port # 0
    /\ \A o \in Tuples \ {t} : r.c[o] = s.c[o]

\* bind_and_connect_udp counts the use of the mapping, and takes its port.
LEMMA BindCore ==
    ASSUME NEW s, Core(s), NEW t \in Udp, s.c[t].status = "new", s.c[t].port = 0, NEW p \in LocalPorts
    PROVE  Linked(s, t, bind_and_connect_udp(s, t, p))
  <1> DEFINE k == KeyOf[t]
             m == IF s.m[k].num_uses = 0 THEN [port |-> p, num_uses |-> 1]
                  ELSE [s.m[k] EXCEPT !.num_uses = @ + 1]
             c == [s.c[t] EXCEPT !.port = m.port, !.status = "connected"]
             w == With(s, t, c)
             r == bind_and_connect_udp(s, t, p)
  <1>1. t \in Tuples /\ k \in Keys /\ s \in Table /\ s.c[t] \in Conn /\ p # 0
    BY ZdtunAssumption DEF Core, Typed, Table, Tuples
  <1>2. s.m[k] \in Mapping /\ s.m[k].num_uses \in Nat /\ (s.m[k].num_uses > 0 => s.m[k].port # 0)
    BY <1>1 DEF Core, Typed, Table, Mapping, Mapped
  <1> HIDE DEF k
  <1>3. /\ m \in Mapping /\ m.num_uses = s.m[k].num_uses + 1 /\ m.port \in LocalPorts /\ m.port # 0
        /\ s.m[k].num_uses > 0 => m.port = s.m[k].port
    <2>1. CASE s.m[k].num_uses = 0
      BY <1>1, <2>1 DEF Mapping
    <2>2. CASE s.m[k].num_uses # 0
      <3>1. m = [port |-> s.m[k].port, num_uses |-> s.m[k].num_uses + 1]
        BY <1>2, <2>2 DEF Mapping
      <3>2. s.m[k].port \in LocalPorts /\ s.m[k].port # 0 /\ s.m[k].num_uses + 1 \in Nat
        BY <1>2, <2>2 DEF Mapping
      <3> HIDE DEF m
      <3> QED BY <3>1, <3>2 DEF Mapping
    <2> QED BY <2>1, <2>2
  <1>4. r = [w EXCEPT !.m[k] = m]
    BY DEF bind_and_connect_udp, k
  <1> HIDE DEF m
  <1>5. c \in Conn /\ c.status = "connected" /\ c.sock = s.c[t].sock /\ c.port = m.port /\ c.idle = s.c[t].idle
    BY <1>1, <1>3, Fields, ZenonT(30)
  <1> HIDE DEF c
  <1>6. /\ w \in Table /\ w.m = s.m /\ w.n = s.n /\ w.u = s.u
        /\ w.c[t] = c /\ \A o \in Tuples \ {t} : w.c[o] = s.c[o]
    BY <1>1, <1>5, WithIs
  <1> HIDE DEF w, r
  <1>7. /\ r \in Table /\ r.n = s.n /\ r.u = s.u
        /\ r.m[k] = m /\ \A o \in Keys \ {k} : r.m[o] = s.m[o]
        /\ r.c[t] = c /\ \A o \in Tuples \ {t} : r.c[o] = s.c[o]
    <2> DEFINE f == [w.m EXCEPT ![k] = m]
    <2>1. f \in [Keys -> Mapping] /\ f[k] = m /\ \A o \in Keys \ {k} : f[o] = s.m[o]
      BY <1>1, <1>3, <1>6 DEF Table
    <2>2. r = [w EXCEPT !.m = f]
      BY <1>4
    <2> HIDE DEF f
    <2>3. r = [c |-> w.c, m |-> f, n |-> w.n, u |-> w.u]
      BY <1>6, <2>2 DEF Table
    <2> QED BY <1>6, <2>1, <2>3 DEF Table
  <1>8. Typed(r)
    BY <1>5, <1>7 DEF Core, Typed
  <1>9. Counted(r)
    <2>1. Socks(r) = Socks(s)
      BY <1>5, <1>7 DEF Socks
    <2>2. \A o \in Tuples : Holds(r, o) => Active(r, o)
      BY <1>5, <1>7 DEF Core, Counted, Holds, Active
    <2> QED BY <1>7, <2>1, <2>2 DEF Core, Counted
  <1>10. Mapped(r)
    <2>1. \A o \in Keys \ {k} : Bound(r, o) = Bound(s, o)
      BY <1>7 DEF Bound, Tuples, k
    <2>2. Bound(r, k) = Bound(s, k) \cup {t} /\ t \notin Bound(s, k)
      BY <1>1, <1>3, <1>5, <1>7 DEF Bound, Tuples, k
    <2>3. Cardinality(Bound(r, k)) = Cardinality(Bound(s, k)) + 1
      BY <2>2, Finite, FS_AddElement, ZenonT(20)
    <2>4. \A o \in Keys : \A x \in Bound(s, o) : r.c[x] = s.c[x]
      BY <1>7 DEF Bound, Tuples
    <2> SUFFICES ASSUME NEW o \in Keys
                 PROVE  /\ r.m[o].num_uses > 0 => r.m[o].port # 0
                        /\ r.m[o].num_uses <= Cardinality(Bound(r, o))
                        /\ ~r.u => /\ r.m[o].num_uses = Cardinality(Bound(r, o))
                                   /\ \A x \in Bound(r, o) : r.c[x].port = r.m[o].port
      BY DEF Mapped
    <2>5. CASE o # k
      BY <1>7, <2>1, <2>4, <2>5 DEF Core, Mapped
    <2>6. CASE o = k
      <3>0. /\ s.m[k].num_uses <= Cardinality(Bound(s, k)) /\ Cardinality(Bound(s, k)) \in Nat
            /\ ~s.u => s.m[k].num_uses = Cardinality(Bound(s, k))
        BY <1>1, Finite DEF Core, Mapped
      <3>1. r.m[k].num_uses <= Cardinality(Bound(r, k))
        BY <1>2, <1>3, <1>7, <2>3, <3>0
      <3>2. ~r.u => r.m[k].num_uses = Cardinality(Bound(r, k))
        BY <1>2, <1>3, <1>7, <2>3, <3>0
      <3>3. ASSUME ~r.u, NEW x \in Bound(r, k) PROVE r.c[x].port = m.port
        <4>1. CASE x = t
          BY <1>5, <1>7, <4>1
        <4>2. CASE x # t
          <5>1. x \in Bound(s, k) /\ r.c[x] = s.c[x]
            BY <1>1, <2>2, <2>4, <3>3, <4>2
          <5>2. s.c[x].port = s.m[k].port /\ s.m[k].num_uses = Cardinality(Bound(s, k))
            BY <1>1, <1>7, <3>3, <5>1 DEF Core, Mapped
          <5>3. Cardinality(Bound(s, k)) # 0
            BY <5>1, Finite, FS_EmptySet
          <5> QED BY <1>2, <1>3, <5>1, <5>2, <5>3
        <4> QED BY <4>1, <4>2
      <3> QED BY <1>3, <1>7, <2>6, <3>1, <3>2, <3>3
    <2> QED BY <2>5, <2>6
  <1>11. Core(r) /\ r.c[t].status = "connected" /\ r.c[t].sock = s.c[t].sock /\ r.c[t].port # 0
    BY <1>3, <1>5, <1>7, <1>8, <1>9, <1>10 DEF Core
  <1> QED BY <1>7, <1>11 DEF r, Linked

-----------------------------------------------------------------------------
(* The operations, each with all its outcomes.                             *)

\* zdtun_purge_expired
LEMMA PurgeGood ==
    ASSUME NEW s, Good(s), NEW r \in PurgeExpired(s)
    PROVE  Good(r) /\ \A t \in Tuples : r.c[t] \in {NoConn, s.c[t]}
  <1> DEFINE e == destroy_conn(s, Expired(s))
  <1>1. Expired(s) \in SUBSET Tuples /\ \A j : Oldest(e, j) \subseteq SUBSET Tuples
    BY DEF Expired, Oldest
  <1>2. Good(e) /\ \A t \in Tuples : e.c[t] \in {NoConn, s.c[t]}
    BY <1>1, DestroyGood, DestroyCore DEF Good
  <1>3. r \in ForcedPurge(e)
    BY DEF PurgeExpired
  <1> HIDE DEF e
  <1>4. CASE r = e
    BY <1>2, <1>4
  <1>5. ASSUME NEW g \in SUBSET Tuples, r = destroy_conn(e, g)
        PROVE  Good(r) /\ \A t \in Tuples : r.c[t] \in {NoConn, s.c[t]}
    <2>1. Good(r)
      BY <1>2, <1>5, DestroyGood
    <2>2. \A t \in Tuples : r.c[t] = IF t \in g THEN NoConn ELSE e.c[t]
      BY <1>2, <1>5, DestroyCore DEF Good
    <2> QED BY <1>2, <2>1, <2>2
  <1> QED BY <1>1, <1>3, <1>4, <1>5 DEF ForcedPurge

\* zdtun_lookup
LEMMA LookupGood ==
    ASSUME Good(Now), NEW t \in Tuples, NEW create, NEW r \in Lookup(t, create)
    PROVE  Good(r)
  <1> DEFINE s == IF conn_table[t].status = "closed" THEN destroy_conn(Now, {t}) ELSE Now
             roomy == IF s.n >= MAX_NUM_SOCKETS THEN PurgeExpired(s) ELSE {s}
  <1>1. Good(s)
    BY DestroyGood
  <1>2. \A p \in roomy : Good(p) /\ p.c[t] \in {NoConn, s.c[t]}
    BY <1>1, PurgeGood
  <1>3. r = s \/ (s.c[t].status = "none" /\ (r \in roomy \/ \E p \in roomy : r = With(p, t, NewConn)))
    BY DEF Lookup
  <1> HIDE DEF s, roomy
  <1>4. ASSUME NEW p \in roomy, r = With(p, t, NewConn), s.c[t].status = "none" PROVE Good(r)
    <2>1. ~Active(p, t)
      BY <1>2, <1>4, EmptyConns DEF Active
    <2>2. ~Holds(p, t)
      BY <1>2, <2>1 DEF Good, Core, Counted
    <2> QED BY <1>2, <1>4, <2>2, EmptyGood
  <1> QED BY <1>1, <1>2, <1>3, <1>4

\* A new connection holds nothing.
LEMMA NewHoldsNothing ==
    ASSUME NEW s, Good(s), NEW t \in Tuples, s.c[t].status = "new"
    PROVE  ~s.c[t].sock /\ ~Holds(s, t) /\ (t \in Udp => s.c[t].port = 0)
  BY DEF Good, Matched, Holds

\* A TCP or ICMP connection with its socket.
LEMMA OpenedGood ==
    ASSUME NEW s, Good(s), NEW t \in Tuples \ Udp, s.c[t].status = "new",
           NEW v \in {"connecting", "connected"}, NEW o \in open_socket(s, t)
    PROVE  Good(With(o, t, [o.c[t] EXCEPT !.status = v]))
  <1> DEFINE c == [o.c[t] EXCEPT !.status = v]
             w == With(o, t, c)
  <1>1. /\ Core(o) /\ o.c[t] = [s.c[t] EXCEPT !.sock = TRUE]
        /\ \A x \in Tuples \ {t} : o.c[x] = s.c[x]
    BY NewHoldsNothing, OpenCore DEF Good, Opened
  <1>2. o \in Table /\ o.c[t] \in Conn
    BY <1>1 DEF Core, Typed, Table
  <1>3. v \in Status
    BY DEF Status
  <1>4. c \in Conn /\ c.status = v /\ c.sock = o.c[t].sock /\ c.port = o.c[t].port /\ c.idle = o.c[t].idle
    BY <1>2, <1>3 DEF Conn
  <1> HIDE DEF c
  <1>5. c.idle <= Timeout[t]
    BY <1>1, <1>4 DEF Core, Typed
  <1>6. Core(w)
    BY <1>1, <1>4, <1>5, SameHold
  <1>7. w.c[t] = c /\ \A x \in Tuples \ {t} : w.c[x] = o.c[x]
    BY <1>2, <1>4, WithIs
  <1>8. Matched(w, t)
    BY <1>4, <1>7 DEF Matched
  <1>9. \A x \in Tuples \ {t} : Matched(w, x)
    BY <1>1, <1>7 DEF Good, Matched
  <1> QED BY <1>6, <1>8, <1>9 DEF Good, c

\* A UDP connection with its socket, bound.
LEMMA BoundGood ==
    ASSUME NEW s, Good(s), NEW t \in Udp, s.c[t].status = "new",
           NEW p \in LocalPorts, NEW o \in open_socket(s, t)
    PROVE  Good(bind_and_connect_udp(o, t, p))
  <1> DEFINE b == bind_and_connect_udp(o, t, p)
  <1>1. t \in Tuples /\ ~s.c[t].sock /\ s.c[t].port = 0 /\ s.c[t] \in Conn
    BY NewHoldsNothing DEF Tuples, Good, Core, Typed, Table
  <1>2. /\ Core(o) /\ o.c[t] = [s.c[t] EXCEPT !.sock = TRUE]
        /\ \A x \in Tuples \ {t} : o.c[x] = s.c[x]
    BY <1>1, OpenCore DEF Good, Opened
  <1>3. o.c[t].status = "new" /\ o.c[t].sock /\ o.c[t].port = 0
    BY <1>1, <1>2 DEF Conn
  <1>4. /\ Core(b) /\ b.c[t].status = "connected" /\ b.c[t].sock = o.c[t].sock /\ b.c[t].port # 0
        /\ \A x \in Tuples \ {t} : b.c[x] = o.c[x]
    <2>1. Linked(o, t, b)
      BY <1>2, <1>3, BindCore
    <2> QED BY <2>1, Zenon DEF Linked
  <1> HIDE DEF b
  <1>5. Good(b)
    <2>1. b.c[t].sock
      BY <1>3, <1>4
    <2>2. Matched(b, t)
      BY <1>4, <2>1 DEF Matched
    <2>3. \A x \in Tuples \ {t} : Matched(b, x)
      BY <1>2, <1>4 DEF Good, Matched
    <2> QED BY <1>4, <2>2, <2>3 DEF Good
  <1> QED BY <1>5 DEF b

\* A connection with its socket, which is closed when a later call fails.
LEMMA HalfOpenGood ==
    ASSUME NEW s, Good(s), NEW t \in Tuples, s.c[t].status = "new", NEW o \in open_socket(s, t)
    PROVE  Good(zdtun_conn_close(o, {t}))
  <1>1. ~s.c[t].sock /\ s.c[t] \in Conn
    BY NewHoldsNothing DEF Good, Core, Typed, Table
  <1>2. /\ Core(o) /\ o.c[t] = [s.c[t] EXCEPT !.sock = TRUE]
        /\ \A x \in Tuples \ {t} : o.c[x] = s.c[x]
    BY <1>1, OpenCore DEF Good, Opened
  <1>3. o.c[t].status = "new"
    BY <1>1, <1>2 DEF Conn
  <1>4. Active(o, t)
    BY <1>3 DEF Active
  <1>5. \A x \in Tuples \ {t} : Matched(o, x)
    BY <1>2 DEF Good, Matched
  <1> QED BY <1>2, <1>4, <1>5, CloseGood

\* zdtun_forward
LEMMA ForwardGood ==
    ASSUME NEW s, Good(s), NEW t \in Tuples, Active(s, t), NEW r \in zdtun_forward(s, t)
    PROVE  Good(r)
  <1>1. \A b : Good(b) => Good(Seen(b, t)) /\ Good(zdtun_conn_close(b, {t}))
    BY SeenGood, CloseGood DEF Good
  <1>2. s.c[t].status = "new" => Good(With(s, t, ClosedConn))
    BY NewHoldsNothing, EmptyGood
  <1>3. CASE t \in Tcp
    <2> DEFINE tried == UNION {{With(o, t, [o.c[t] EXCEPT !.status = v]) : v \in {"connecting", "connected"}} :
                                   o \in open_socket(s, t)}
               sent   == IF s.c[t].status = "new" THEN tried ELSE {s}
    <2>1. r \in TcpForward(s, t) /\ t \notin Udp
      BY <1>3, ZdtunAssumption DEF zdtun_forward
    <2>2. ASSUME s.c[t].status = "new", NEW b \in tried PROVE Good(b)
      <3>1. PICK o \in open_socket(s, t), v \in {"connecting", "connected"} :
                b = With(o, t, [o.c[t] EXCEPT !.status = v])
        OBVIOUS
      <3> QED BY <2>1, <2>2, <3>1, OpenedGood
    <2>3. \A b \in sent : Good(b)
      <3> HIDE DEF tried
      <3> QED BY <2>2
    <2>4. \/ s.c[t].status = "new" /\ r = With(s, t, ClosedConn)
          \/ \E b \in sent : r = Seen(b, t)
          \/ \E b \in {s} \cup sent : r = zdtun_conn_close(b, {t})
      BY <2>1, Zenon DEF TcpForward
    <2> HIDE DEF sent
    <2> QED BY <1>1, <1>2, <2>3, <2>4
  <1>4. CASE t \in Udp
    <2> DEFINE tried == open_socket(s, t)
               bound  == UNION {{bind_and_connect_udp(o, t, p) : p \in FreePorts(s)} : o \in tried}
               sent   == IF s.c[t].status = "new" THEN bound ELSE {s}
    <2>1. r \in UdpForward(s, t)
      BY <1>4, ZdtunAssumption DEF zdtun_forward
    <2>2. ASSUME s.c[t].status = "new", NEW b \in bound PROVE Good(b)
      <3>1. PICK o \in open_socket(s, t), p \in LocalPorts : b = bind_and_connect_udp(o, t, p)
        BY DEF FreePorts
      <3>2. Good(bind_and_connect_udp(o, t, p))
        BY <1>4, <2>2, BoundGood
      <3> QED BY <3>1, <3>2, Zenon
    <2>3. \A b \in sent : Good(b)
      <3> HIDE DEF bound
      <3> QED BY <2>2
    <2>4. \/ s.c[t].status = "new" /\ \E o \in {s} \cup tried : r = zdtun_conn_close(o, {t})
          \/ \E b \in sent : r = Seen(b, t)
          \/ \E b \in sent : r = zdtun_conn_close(b, {t})
      BY <2>1 DEF UdpForward
    <2>5. s.c[t].status = "new" => \A o \in tried : Good(zdtun_conn_close(o, {t}))
      BY HalfOpenGood
    <2> HIDE DEF sent
    <2> QED BY <1>1, <2>3, <2>4, <2>5
  <1>5. CASE t \in Icmp
    <2> DEFINE tried == {With(o, t, [o.c[t] EXCEPT !.status = "connected"]) : o \in open_socket(s, t)}
               sent   == IF s.c[t].status = "new" THEN tried ELSE {s}
    <2>1. r \in IcmpForward(s, t) /\ t \notin Udp
      BY <1>5, ZdtunAssumption DEF zdtun_forward
    <2>2. ASSUME s.c[t].status = "new", NEW b \in tried PROVE Good(b)
      <3>1. PICK o \in open_socket(s, t) : \E v \in {"connecting", "connected"} :
                b = With(o, t, [o.c[t] EXCEPT !.status = v])
        OBVIOUS
      <3> QED BY <2>1, <2>2, <3>1, OpenedGood, ZenonT(20)
    <2>3. \A b \in sent : Good(b)
      <3> HIDE DEF tried
      <3> QED BY <2>2
    <2>4. \/ s.c[t].status = "new" /\ r = With(s, t, ClosedConn)
          \/ \E b \in sent : r = Seen(b, t)
          \/ \E b \in sent : r = zdtun_conn_close(b, {t})
      BY <2>1 DEF IcmpForward
    <2> HIDE DEF sent
    <2> QED BY <1>1, <1>2, <2>3, <2>4
  <1> QED BY <1>3, <1>4, <1>5 DEF Tuples

-----------------------------------------------------------------------------
\* Time passes.
LEMMA TickGood == Good(Now) /\ Tick => Good(Now)'
  <1> SUFFICES ASSUME Good(Now), Tick PROVE Good(Now')
    BY DEF Good
  <1> DEFINE s == Now
             r == Now'
  <1>1. s.c = conn_table /\ s.m = udp_mappings /\ s.n = num_open_sockets /\ s.u = unbound
    BY NowIs
  <1>2. r = [c |-> conn_table', m |-> s.m, n |-> s.n, u |-> s.u]
    BY <1>1 DEF Now, Tick
  <1>3. s \in Table /\ \A t \in Tuples : s.c[t] \in Conn
    BY DEF Good, Core, Typed, Table
  <1>4. ASSUME NEW t \in Tuples
        PROVE  /\ conn_table'[t] \in Conn /\ conn_table'[t].idle <= Timeout[t]
               /\ conn_table'[t].status = s.c[t].status /\ conn_table'[t].sock = s.c[t].sock
               /\ conn_table'[t].port = s.c[t].port
    <2>1. s.c[t].idle \in Nat /\ Timeout[t] \in Nat /\ s.c[t].idle <= Timeout[t] /\ conn_table[t] = s.c[t]
      BY <1>1, <1>3, EmptyConns DEF Conn, Good, Core, Typed
    <2>2. CASE Active(s, t) /\ s.c[t].idle < Timeout[t]
      <3>1. conn_table'[t] = [s.c[t] EXCEPT !.idle = s.c[t].idle + 1]
        BY <2>1, <2>2 DEF Tick
      <3>2. s.c[t].idle + 1 \in Nat /\ s.c[t].idle + 1 <= Timeout[t]
        BY <2>1, <2>2
      <3> QED BY <1>3, <3>1, <3>2 DEF Conn
    <2>3. CASE ~(Active(s, t) /\ s.c[t].idle < Timeout[t])
      <3>1. conn_table'[t] = s.c[t]
        BY <2>1, <2>3 DEF Tick
      <3> QED BY <1>3, <2>1, <3>1
    <2> QED BY <2>2, <2>3
  <1>5. conn_table' \in [Tuples -> Conn]
    <2>1. DOMAIN conn_table' = Tuples /\ conn_table' = [t \in Tuples |-> conn_table'[t]]
      BY DEF Tick
    <2> QED BY <1>4, <2>1
  <1> HIDE DEF s
  <1>6. r \in Table /\ r.c = conn_table' /\ r.m = s.m /\ r.n = s.n /\ r.u = s.u
    BY <1>2, <1>3, <1>5 DEF Table
  <1> HIDE DEF r
  <1>7. Good(s)
    BY DEF s
  <1>8. Typed(r)
    BY <1>4, <1>6 DEF Typed
  <1>9. Socks(r) = Socks(s) /\ \A k : Bound(r, k) = Bound(s, k)
    BY <1>4, <1>6 DEF Socks, Bound, Tuples
  <1>10. Counted(r)
    BY <1>4, <1>6, <1>7, <1>9 DEF Good, Core, Counted, Holds, Active
  <1>11. \A k : \A t \in Bound(r, k) : r.c[t].port = s.c[t].port
    BY <1>4, <1>6 DEF Bound, Tuples
  <1>12. Mapped(r)
    BY <1>6, <1>7, <1>9, <1>11 DEF Good, Core, Mapped
  <1>13. \A t \in Tuples : Matched(r, t)
    BY <1>4, <1>6, <1>7 DEF Good, Matched
  <1> QED BY <1>8, <1>10, <1>12, <1>13 DEF Good, Core, r

\* The server closes its side: the socket goes, the connection stays.
LEMMA ServerCloseGood ==
    ASSUME NEW s, Good(s), NEW t \in Tcp, s.c[t].sock, NEW r,
           r = [With(s, t, [s.c[t] EXCEPT !.sock = FALSE, !.idle = 0]) EXCEPT !.n = Fewer(@, 1)]
    PROVE  Good(r)
  <1> DEFINE c == [s.c[t] EXCEPT !.sock = FALSE, !.idle = 0]
             w == With(s, t, c)
  <1>1. t \in Tuples /\ t \notin Udp /\ s \in Table /\ s.c[t] \in Conn
    BY ZdtunAssumption DEF Tuples, Good, Core, Typed, Table
  <1>2. c \in Conn /\ c.status = s.c[t].status /\ ~c.sock /\ c.idle = 0 /\ c.idle <= Timeout[t]
    <2>1. c \in Conn /\ c.status = s.c[t].status /\ c.sock = FALSE /\ c.idle = 0
      BY <1>1 DEF Conn
    <2>2. 0 <= Timeout[t]
      BY <1>1, EmptyConns
    <2> HIDE DEF c
    <2> QED BY <2>1, <2>2
  <1> HIDE DEF c
  <1>3. /\ w \in Table /\ w.m = s.m /\ w.n = s.n /\ w.u = s.u
        /\ w.c[t] = c /\ \A o \in Tuples \ {t} : w.c[o] = s.c[o]
    BY <1>1, <1>2, WithIs
  <1>4. r = [w EXCEPT !.n = Fewer(w.n, 1)]
    BY <1>3 DEF c, Table
  <1> HIDE DEF w
  <1>5. Socks(s) = Socks(s) \cup {t} /\ s.n = Cardinality(Socks(s)) /\ s.n \in Nat /\ s.n <= MAX_NUM_SOCKETS
    BY <1>1, Finite DEF Socks, Good, Core, Counted
  <1>6. Cardinality(Socks(s) \ {t}) = s.n - 1 /\ s.n - 1 \in Nat
    <2>1. t \in Socks(s)
      BY <1>1 DEF Socks
    <2>2. Cardinality(Socks(s) \ {t}) = Cardinality(Socks(s)) - 1 /\ IsFiniteSet(Socks(s) \ {t})
      BY <2>1, Finite, FS_RemoveElement
    <2>3. Cardinality(Socks(s) \ {t}) \in Nat
      BY <2>2, FS_CardinalityType
    <2> QED BY <1>5, <2>2, <2>3
  <1>7. Fewer(w.n, 1) = s.n - 1
    BY <1>3, <1>5, <1>6 DEF Fewer
  <1>8. r \in Table /\ r.c = w.c /\ r.m = s.m /\ r.n = s.n - 1 /\ r.u = s.u
    <2>1. r = [c |-> w.c, m |-> w.m, n |-> s.n - 1, u |-> w.u]
      BY <1>3, <1>4, <1>7 DEF Table
    <2> QED BY <1>3, <1>6, <2>1 DEF Table
  <1>9. Typed(r)
    BY <1>2, <1>3, <1>8 DEF Good, Core, Typed
  <1>10. Counted(r)
    <2>1. Socks(r) = Socks(s) \ {t}
      BY <1>2, <1>3, <1>8, ZenonT(20) DEF Socks
    <2>2. r.n = Cardinality(Socks(r)) /\ r.n <= MAX_NUM_SOCKETS
      <3>1. s.n - 1 <= MAX_NUM_SOCKETS
        BY <1>5, ZdtunAssumption
      <3>2. Cardinality(Socks(r)) = s.n - 1
        BY <1>6, <2>1
      <3> QED BY <1>8, <3>1, <3>2
    <2>3. \A o \in Tuples \ {t} : Holds(r, o) => Active(r, o)
      BY <1>1, <1>3, <1>8, ZenonT(20) DEF Good, Core, Counted, Holds, Active
    <2>4. ~Holds(r, t)
      BY <1>1, <1>2, <1>3, <1>8 DEF Holds
    <2> QED BY <2>2, <2>3, <2>4 DEF Counted
  <1>11. Mapped(r)
    <2>1. \A o \in Udp : r.c[o] = s.c[o]
      BY <1>1, <1>3, <1>8 DEF Tuples
    <2>2. \A k : Bound(r, k) = Bound(s, k) /\ \A o \in Bound(r, k) : r.c[o] = s.c[o]
      BY <2>1 DEF Bound
    <2> QED BY <1>8, <2>2 DEF Good, Core, Mapped
  <1>12. \A o \in Tuples : Matched(r, o)
    BY <1>1, <1>2, <1>3, <1>8 DEF Good, Matched
  <1> QED BY <1>9, <1>10, <1>11, <1>12 DEF Good, Core

\* What an operation makes of the state is the next state.
LEMMA BecomesGood ==
    ASSUME NEW r, Good(r), Become(r)
    PROVE  Good(Now)'
  <1>1. r \in Table
    BY DEF Good, Core, Typed
  <1>2. r = [c |-> r.c, m |-> r.m, n |-> r.n, u |-> r.u]
    BY <1>1 DEF Table
  <1>3. Now' = r
    BY <1>2 DEF Now, Become
  <1> QED BY <1>3

\* The invariant is inductive.
LEMMA ZdtunKept == Good(Now) /\ [Next]_vars => Good(Now)'
  <1> SUFFICES ASSUME Good(Now), Next \/ UNCHANGED vars PROVE Good(Now)'
    OBVIOUS
  <1>1. ASSUME NEW t \in Tuples, SkippedPacket(t) PROVE Good(Now)'
    BY <1>1, LookupGood, BecomesGood DEF SkippedPacket
  <1>2. ASSUME NEW t \in Tuples, BlockedPacket(t) PROVE Good(Now)'
    <2>1. PICK create \in Creates(t) : \E s \in Lookup(t, create) :
            /\ Active(s, t)
            /\ Become(s) \/ Become(zdtun_conn_close(s, {t}))
      BY <1>2 DEF BlockedPacket
    <2>2. \A s \in Lookup(t, create) : Good(s) /\ Good(zdtun_conn_close(s, {t}))
      BY LookupGood, CloseGood DEF Good
    <2> QED BY <2>1, <2>2, BecomesGood
  <1>3. ASSUME NEW t \in Tuples, ForwardedPacket(t) PROVE Good(Now)'
    <2>1. PICK create \in Creates(t) : \E s \in Lookup(t, create) :
            Active(s, t) /\ \E f \in zdtun_forward(s, t) : Become(f)
      BY <1>3 DEF ForwardedPacket
    <2>2. \A s \in Lookup(t, create) : Good(s)
      BY LookupGood
    <2> QED BY <2>1, <2>2, ForwardGood, BecomesGood
  <1>4. ASSUME NEW t \in Tuples, SocketReply(t) PROVE Good(Now)'
    BY <1>4, SeenGood, BecomesGood DEF SocketReply
  <1>5. ASSUME NEW t \in Tuples, ConnectDone(t) PROVE Good(Now)'
    <2> DEFINE c == [conn_table[t] EXCEPT !.status = "connected"]
    <2>1. Now.c[t] \in Conn /\ Now \in Table /\ Now.c[t] = conn_table[t] /\ Now.c[t].idle <= Timeout[t]
      BY NowIs DEF Good, Core, Typed, Table
    <2>2. c \in Conn /\ c.status = "connected" /\ c.sock = Now.c[t].sock /\ c.port = Now.c[t].port /\ c.idle = Now.c[t].idle
      BY <2>1 DEF Conn, Status
    <2>3. Become(Seen(With(Now, t, c), t))
      BY <1>5 DEF ConnectDone
    <2> HIDE DEF c
    <2>4. Matched(With(Now, t, c), t)
      BY <2>1, <2>2, WithIs DEF Good, Matched
    <2>5. Good(With(Now, t, c))
      BY <2>1, <2>2, <2>4, SameHold DEF Good
    <2> QED BY <2>3, <2>5, SeenGood, BecomesGood
  <1>6. ASSUME NEW t \in Tuples, SocketClose(t) PROVE Good(Now)'
    <2>1. Good(zdtun_conn_close(Now, {t}))
      BY CloseGood DEF Good
    <2> QED BY <1>6, <2>1, BecomesGood DEF SocketClose
  <1>7. ASSUME NEW t \in Tuples, ServerClose(t) PROVE Good(Now)'
    <2> DEFINE r == [With(Now, t, [Now.c[t] EXCEPT !.sock = FALSE, !.idle = 0]) EXCEPT !.n = Fewer(@, 1)]
    <2>1. t \in Tcp /\ Now.c[t].sock /\ Become(r)
      BY <1>7, NowIs DEF ServerClose
    <2>2. Good(r)
      BY <2>1, ServerCloseGood
    <2> QED BY <2>1, <2>2, BecomesGood
  <1>8. CASE zdtun_purge_expired
    BY <1>8, PurgeGood, BecomesGood DEF zdtun_purge_expired
  <1>9. CASE zdtun_finalize
    BY <1>9, DestroyGood, BecomesGood DEF zdtun_finalize
  <1>10. CASE Tick
    BY <1>10, TickGood
  <1>11. CASE UNCHANGED vars
    <2>1. Now' = Now
      BY <1>11 DEF vars, Now
    <2> QED BY <2>1
  <1> QED BY <1>1, <1>2, <1>3, <1>4, <1>5, <1>6, <1>7, <1>8, <1>9, <1>10, <1>11 DEF Next

\* What the invariant says about the program.
LEMMA GoodAccounts == Good(Now) => ResourcesAccounted
  <1> SUFFICES ASSUME Good(Now) PROVE ResourcesAccounted
    OBVIOUS
  <1> USE NowIs
  <1>1. Typed(Now) /\ Counted(Now) /\ Mapped(Now) /\ \A t \in Tuples : Matched(Now, t)
    BY DEF Good, Core
  <1>2. TypeOK
    <2>1. num_open_sockets \in 0..MAX_NUM_SOCKETS
      BY <1>1, ZdtunAssumption DEF Typed, Table, Counted
    <2> QED BY <1>1, <2>1 DEF TypeOK, Typed, Table
  <1>3. SocketsCounted /\ SocketMatchesStatus
    BY <1>1 DEF SocketsCounted, SocketMatchesStatus, Counted, Matched
  <1>4. NoStaleMapping
    BY <1>1 DEF NoStaleMapping, Mapped
  <1>5. ASSUME ~unbound PROVE LocalPortShared /\ \A k \in Keys : udp_mappings[k].num_uses = Cardinality(Bound(Now, k))
    <2>1. \A k \in Keys : /\ udp_mappings[k].num_uses = Cardinality(Bound(Now, k))
                          /\ \A t \in Bound(Now, k) : conn_table[t].port = udp_mappings[k].port
      BY <1>1, <1>5 DEF Mapped
    <2>2. ASSUME NEW t \in Udp, conn_table[t].port # 0
          PROVE  udp_mappings[KeyOf[t]].num_uses > 0 /\ udp_mappings[KeyOf[t]].port = conn_table[t].port
      <3>1. KeyOf[t] \in Keys /\ t \in Bound(Now, KeyOf[t])
        BY <2>2, ZdtunAssumption DEF Bound
      <3>2. Cardinality(Bound(Now, KeyOf[t])) # 0 /\ Cardinality(Bound(Now, KeyOf[t])) \in Nat
        BY <3>1, Finite, FS_EmptySet
      <3> QED BY <2>1, <3>1, <3>2
    <2> QED BY <2>1, <2>2 DEF LocalPortShared
  <1> QED BY <1>2, <1>3, <1>4, <1>5
          DEF ResourcesAccounted, SocketsAccounted, MappingsAccounted, LocalPortSharedUnlessUnbound

(* What the connections of zdtun hold is counted and released with them,   *)
(* for any number of connections, client ports and sockets: open_socket,   *)
(* close_socket, bind_and_connect_udp, zdtun_conn_close and the purges.    *)
THEOREM ResourcesReleased == Spec => []ResourcesAccounted
  BY ZdtunStart, ZdtunKept, GoodAccounts, PTL DEF Spec

-----------------------------------------------------------------------------
\* The forced purge, when every connection has a socket.
LEMMA PurgeToLimit ==
    ASSUME NEW s, Good(s), \A t \in Tuples : Active(s, t) => s.c[t].sock,
           NEW r \in PurgeExpired(s), s.n >= MAX_NUM_SOCKETS
    PROVE  \/ r.n <= NUM_SOCKETS_AFTER_PURGE
           \/ r.n < MAX_NUM_SOCKETS /\ \E t \in Expired(s) : s.c[t].sock
  <1> DEFINE e == destroy_conn(s, Expired(s))
  <1>1. Expired(s) \in SUBSET Tuples
    BY DEF Expired
  <1>2. Good(e) /\ \A t \in Tuples : e.c[t] = IF t \in Expired(s) THEN NoConn ELSE s.c[t]
    BY <1>1, DestroyGood, DestroyCore DEF Good
  <1>3. r \in ForcedPurge(e)
    BY DEF PurgeExpired
  <1> HIDE DEF e
  <1>4. e.n = Cardinality(Socks(e)) /\ s.n = Cardinality(Socks(s)) /\ e.n \in Nat /\ s.n \in Nat
    BY <1>2, Finite DEF Good, Core, Counted
  <1>5. CASE e.n < MAX_NUM_SOCKETS
    <2>1. r = e
      BY <1>3, <1>4, <1>5, ZdtunAssumption DEF ForcedPurge
    <2>2. (\A t \in Expired(s) : ~s.c[t].sock) => Socks(e) = Socks(s)
      BY <1>2, EmptyConns DEF Socks
    <2>3. e.n # s.n
      BY <1>4, <1>5, ZdtunAssumption
    <2> QED BY <1>4, <1>5, <2>1, <2>2, <2>3
  <1>6. CASE e.n >= MAX_NUM_SOCKETS
    <2> DEFINE all == {t \in Tuples : e.c[t].status # "none"}
               j == e.n - NUM_SOCKETS_AFTER_PURGE
    <2>1. PICK g \in Oldest(e, j) : r = destroy_conn(e, g)
      BY <1>3, <1>6 DEF ForcedPurge
    <2>2. all = Socks(e)
      <3>1. ASSUME NEW t \in Tuples, e.c[t].status # "none" PROVE e.c[t].sock
        <4>1. t \notin Expired(s) /\ e.c[t] = s.c[t]
          BY <1>2, <3>1, EmptyConns
        <4>2. s.c[t].status \in Status
          BY DEF Good, Core, Typed, Table, Conn
        <4>3. Active(s, t)
          BY <3>1, <4>1, <4>2 DEF Expired, Active, Status
        <4> QED BY <4>1, <4>3
      <3>2. \A t \in Tuples : e.c[t].sock => e.c[t].status # "none"
        BY <1>2 DEF Good, Matched
      <3> QED BY <3>1, <3>2 DEF Socks
    <2>3. g \in SUBSET all /\ Cardinality(g) = IF Cardinality(all) < j THEN Cardinality(all) ELSE j
      BY <2>1 DEF Oldest
    <2> HIDE DEF all
    <2>4. j \in Nat /\ j <= e.n /\ e.n - j = NUM_SOCKETS_AFTER_PURGE
      BY <1>4, <1>6, ZdtunAssumption
    <2> HIDE DEF j
    <2>5. Cardinality(g) = j
      BY <1>4, <2>2, <2>3, <2>4
    <2>6. g \in SUBSET Tuples /\ g \subseteq Socks(e)
      BY <2>2, <2>3 DEF Socks
    <2>7. Good(r) /\ \A t \in Tuples : r.c[t] = IF t \in g THEN NoConn ELSE e.c[t]
      BY <1>2, <2>1, <2>6, DestroyGood, DestroyCore DEF Good
    <2>8. Socks(r) = Socks(e) \ g
      BY <2>7, EmptyConns DEF Socks
    <2>9. Cardinality(Socks(e) \ g) = Cardinality(Socks(e)) - Cardinality(Socks(e) \cap g)
      BY Finite, FS_Difference
    <2>10. Socks(e) \cap g = g
      BY <2>6
    <2>11. r.n = Cardinality(Socks(r))
      BY <2>7 DEF Good, Core, Counted
    <2>12. r.n = e.n - j
      BY <1>4, <2>5, <2>8, <2>9, <2>10, <2>11
    <2> QED BY <2>4, <2>12, ZdtunAssumption
  <1> QED BY <1>4, <1>5, <1>6, ZdtunAssumption

(* A purge at the limit of the open sockets makes room for the connection  *)
(* that zdtun_lookup is about to create, for any table in which every      *)
(* connection has a socket (zdtun_purge_expired).                          *)
THEOREM LimitIsKept == Spec => PurgeMakesRoom
  <1>1. ASSUME Good(Now)
        PROVE  [/\ zdtun_purge_expired
                /\ num_open_sockets >= MAX_NUM_SOCKETS
                /\ \A t \in Tuples : Active(Now, t) => conn_table[t].sock
                => \/ num_open_sockets' <= NUM_SOCKETS_AFTER_PURGE
                   \/ /\ num_open_sockets' < MAX_NUM_SOCKETS
                      /\ \E t \in Expired(Now) : conn_table[t].sock]_vars
    <2> SUFFICES ASSUME zdtun_purge_expired, num_open_sockets >= MAX_NUM_SOCKETS,
                        \A t \in Tuples : Active(Now, t) => conn_table[t].sock
                 PROVE  \/ num_open_sockets' <= NUM_SOCKETS_AFTER_PURGE
                        \/ /\ num_open_sockets' < MAX_NUM_SOCKETS
                           /\ \E t \in Expired(Now) : conn_table[t].sock
      OBVIOUS
    <2>1. PICK r \in PurgeExpired(Now) : Become(r)
      BY DEF zdtun_purge_expired
    <2>2. num_open_sockets' = r.n
      BY <2>1 DEF Become
    <2>3. Now.n >= MAX_NUM_SOCKETS /\ \A t \in Tuples : Active(Now, t) => Now.c[t].sock
      BY NowIs
    <2>4. \/ r.n <= NUM_SOCKETS_AFTER_PURGE
          \/ r.n < MAX_NUM_SOCKETS /\ \E t \in Expired(Now) : Now.c[t].sock
      BY <1>1, <2>3, PurgeToLimit
    <2> QED BY <2>2, <2>4, NowIs
  <1> QED BY <1>1, ZdtunStart, ZdtunKept, PTL DEF Spec, PurgeMakesRoom

-----------------------------------------------------------------------------
(* The service that reconnects the VPN.                                    *)

(* The service that reconnects the VPN.  Types: timers are of instances    *)
(* that were started.                                                      *)
Service == [life : {"running", "stopping", "destroyed"}, cb : BOOLEAN, active : Nets \cup {0}]

ReconnectTyped ==
    /\ vpn \in Nets \cup {0} /\ assign \in Nets \cup {0} /\ instance \in 0..Len(svc)
    /\ svc \in Seq(Service) /\ Len(svc) <= MaxInst
    /\ events \in Seq({"available", "lost"} \X Nets)
    /\ deadline \subseteq 1..Len(svc)
    /\ lost \in [1..MaxInst -> Nat]
    /\ \A k \in 1..MaxInst : k > Len(svc) => lost[k] = 0

(* Only the instance in INSTANCE is alive, and only while its callback is  *)
(* registered events are on the way, or a network is to be assigned.       *)
OneAlive ==
    /\ \A k \in 1..Len(svc) : k # instance => svc[k].life = "destroyed"
    /\ \A k \in 1..Len(svc) : svc[k].cb => svc[k].life = "running"
    /\ events # <<>> \/ assign # 0 => instance # 0 /\ svc[instance].cb

\* A timer of an instance that does not run any more was left armed.
LeftArmed ==
    /\ \A k \in 1..Len(svc) : svc[k].life # "running" /\ Armed(k) => "armed" \in astray
    /\ "other" \in astray => "armed" \in astray

(* The last event on its way is that of the running VPN; once there is     *)
(* none, the VPN is watched.                                               *)
Told ==
    /\ \A k \in 1..Len(svc) : svc[k].active # 0 => k \notin deadline
    /\ instance # 0 /\ svc[instance].cb /\ vpn # 0 =>
          IF events = <<>>
          THEN /\ svc[instance].active # 0
               /\ svc[instance].active = vpn \/ "missed" \in astray
               /\ lost[instance] = 0 \/ "back" \in astray
          ELSE events[Len(events)] = <<"available", vpn>>

ReconnectInv == ReconnectTyped /\ OneAlive /\ LeftArmed /\ Told

\* The invariant holds at the start.
LEMMA ReconnectStart == ReconnectInit => ReconnectInv
  <1> SUFFICES ASSUME ReconnectInit PROVE ReconnectInv
    OBVIOUS
  <1>1. Len(svc) = 0 /\ svc \in Seq(Service) /\ events \in Seq({"available", "lost"} \X Nets)
    BY DEF ReconnectInit
  <1>2. ReconnectTyped
    BY <1>1, ReconnectAssumption DEF ReconnectInit, ReconnectTyped
  <1>3. OneAlive /\ LeftArmed /\ Told
    BY <1>1 DEF ReconnectInit, OneAlive, LeftArmed, Told
  <1> QED BY <1>2, <1>3 DEF ReconnectInv

\* One instance of the service is replaced by r.
Replaces(k, r) ==
    /\ svc' \in Seq(Service) /\ Len(svc') = Len(svc)
    /\ \A j \in 1..Len(svc) : svc'[j] = IF j = k THEN r ELSE svc[j]

\* A step on one instance of the service leaves the others alone.
LEMMA Replaced ==
    ASSUME ReconnectTyped, NEW k \in 1..Len(svc), NEW r \in Service, svc' = [svc EXCEPT ![k] = r]
    PROVE  Replaces(k, r)
  <1>1. svc \in Seq(Service)
    BY DEF ReconnectTyped
  <1> QED BY <1>1, ExceptSeq DEF Replaces

\* The fields of an instance.
LEMMA ServiceFields ==
    ASSUME ReconnectTyped, NEW k \in 1..Len(svc)
    PROVE  /\ svc[k] \in Service
           /\ LET r == [svc[k] EXCEPT !.cb = FALSE, !.life = "stopping"]
              IN  r \in Service /\ ~r.cb /\ r.life = "stopping" /\ r.active = svc[k].active
           /\ LET r == [svc[k] EXCEPT !.cb = FALSE]
              IN  r \in Service /\ ~r.cb /\ r.life = svc[k].life /\ r.active = svc[k].active
           /\ LET r == [svc[k] EXCEPT !.life = "destroyed"]
              IN  r \in Service /\ r.cb = svc[k].cb /\ r.life = "destroyed" /\ r.active = svc[k].active
           /\ \A net \in Nets : LET r == [svc[k] EXCEPT !.active = net]
              IN  r \in Service /\ r.cb = svc[k].cb /\ r.life = svc[k].life /\ r.active = net
  <1>1. svc[k] \in Service
    BY DEF ReconnectTyped
  <1> QED BY <1>1 DEF Service

\* The static stopService: whoever calls it, the instance stops and hears nothing more.
LEMMA StopKeeps ==
    ASSUME ReconnectInv, NEW k, NEW timers, stopServiceFor(k, timers),
           timers = deadline', deadline' \subseteq deadline, assign = 0,
           UNCHANGED <<instance, lost, assign>>, vpn' \in {vpn, 0},
           k # instance => k \in 1..Len(svc) /\ Armed(k)
    PROVE  ReconnectInv'
  <1> USE DEF ReconnectInv
  <1>1. /\ instance \in 0..Len(svc) /\ svc \in Seq(Service) /\ vpn \in Nets \cup {0}
        /\ events' = <<>> /\ events' \in Seq({"available", "lost"} \X Nets)
        /\ vpn' \in Nets \cup {0}
    BY DEF ReconnectTyped, stopServiceFor
  <1>2. CASE instance = 0
    <2>1. UNCHANGED <<svc, astray>>
      BY <1>2 DEF stopServiceFor
    <2>2. ReconnectTyped'
      BY <1>1, <2>1 DEF ReconnectTyped
    <2> QED BY <1>1, <1>2, <2>1, <2>2 DEF OneAlive, LeftArmed, Armed, Told
  <1>3. CASE instance # 0
    <2> DEFINE r == [svc[instance] EXCEPT !.cb = FALSE, !.life = "stopping"]
    <2>1. instance \in 1..Len(svc)
      BY <1>1, <1>3
    <2>2. r \in Service /\ ~r.cb /\ r.life = "stopping" /\ r.active = svc[instance].active
      BY <2>1, ServiceFields
    <2>3. svc' = [svc EXCEPT ![instance] = r]
      BY <1>3 DEF stopServiceFor
    <2> HIDE DEF r
    <2>4. /\ svc' \in Seq(Service) /\ Len(svc') = Len(svc)
          /\ \A j \in 1..Len(svc) : svc'[j] = IF j = instance THEN r ELSE svc[j]
      BY <2>1, <2>2, <2>3, Replaced DEF Replaces
    <2>5. astray \subseteq astray'
      BY DEF stopServiceFor
    <2>6. Armed(instance)' => "armed" \in astray'
      BY <1>3 DEF stopServiceFor, Armed
    <2>7. \A j \in 1..Len(svc) : Armed(j)' => Armed(j)
      BY DEF Armed
    <2>8. ReconnectTyped'
      BY <1>1, <2>4 DEF ReconnectTyped
    <2>9. OneAlive'
      BY <1>1, <2>2, <2>4 DEF OneAlive
    <2>10. \A j \in 1..Len(svc) : svc'[j].life # "running" /\ Armed(j)' => "armed" \in astray'
      BY <2>4, <2>5, <2>6, <2>7 DEF LeftArmed
    <2>11. "other" \in astray' => "armed" \in astray'
      <3>1. CASE k = instance
        <4>1. astray' \subseteq astray \cup {"armed"}
          BY <3>1 DEF stopServiceFor
        <4> QED BY <2>5, <4>1 DEF LeftArmed
      <3>2. CASE k # instance
        <4>1. svc[k].life = "destroyed"
          BY <3>2 DEF OneAlive
        <4> QED BY <2>5, <3>2, <4>1 DEF LeftArmed
      <3> QED BY <3>1, <3>2
    <2>12. LeftArmed'
      BY <2>4, <2>10, <2>11 DEF LeftArmed
    <2>13. Told'
      BY <2>1, <2>2, <2>4 DEF Told
    <2> QED BY <2>8, <2>9, <2>12, <2>13
  <1> QED BY <1>2, <1>3

\* A new instance; the system starts one when there is none.
LEMMA NewInstance ==
    ASSUME ReconnectInv, onStartCommand \/ RegisterFails
    PROVE  ReconnectInv'
  <1> DEFINE k == Len(svc) + 1
  <1> USE DEF ReconnectInv
  <1>1. /\ svc \in Seq(Service) /\ Len(svc) \in Nat /\ Len(svc) < MaxInst /\ instance = 0 /\ assign = 0
        /\ vpn \in Nets \cup {0} /\ MaxInst \in Nat
    BY ReconnectAssumption DEF ReconnectTyped, onStartCommand, RegisterFails
  <1>2. events = <<>>
    BY <1>1 DEF OneAlive
  <1>3. PICK s \in Service : svc' = Append(svc, s) /\ s.active = 0 /\
            (\/ s.life = "running" /\ s.cb /\ assign' = vpn /\ astray' = astray
                /\ events' = IF vpn # 0 THEN Append(events, <<"available", vpn>>) ELSE events
             \/ s.life = "stopping" /\ ~s.cb /\ assign' = 0 /\ astray' = astray \cup {"armed"} /\ events' = events)
    <2>1. CASE onStartCommand
      <3> DEFINE s == [life |-> "running", cb |-> TRUE, active |-> 0]
      <3>1. s \in Service /\ s.life = "running" /\ s.cb /\ s.active = 0
        BY DEF Service
      <3>2. /\ svc' = Append(svc, s) /\ assign' = vpn /\ astray' = astray
            /\ events' = IF vpn # 0 THEN Append(events, <<"available", vpn>>) ELSE events
        BY <2>1 DEF onStartCommand
      <3> QED BY <3>1, <3>2
    <2>2. CASE RegisterFails
      <3> DEFINE s == [life |-> "stopping", cb |-> FALSE, active |-> 0]
      <3>1. s \in Service /\ s.life = "stopping" /\ ~s.cb /\ s.active = 0
        BY DEF Service
      <3>2. svc' = Append(svc, s) /\ assign' = 0 /\ astray' = astray \cup {"armed"} /\ events' = events
        BY <1>1, <2>2 DEF RegisterFails
      <3> QED BY <3>1, <3>2
    <2> QED BY <2>1, <2>2
  <1>4. instance' = k /\ deadline' = deadline \cup {k} /\ UNCHANGED <<vpn, lost>>
    BY DEF onStartCommand, RegisterFails
  <1>5. /\ svc' \in Seq(Service) /\ Len(svc') = k /\ svc'[k] = s
        /\ \A j \in 1..Len(svc) : svc'[j] = svc[j]
    BY <1>1, <1>3, AppendProperties
  <1>6. /\ events' \in Seq({"available", "lost"} \X Nets)
        /\ events' # <<>> => vpn # 0 /\ s.cb /\ events'[Len(events')] = <<"available", vpn>>
        /\ vpn # 0 /\ s.cb => events' # <<>>
    <2>1. CASE events' = <<>>
      <3>1. vpn # 0 /\ s.cb => FALSE
        BY <1>2, <1>3, <2>1
      <3> QED BY <2>1, <3>1
    <2>2. CASE events' # <<>>
      <3>1. events' = Append(<<>>, <<"available", vpn>>) /\ vpn # 0 /\ s.cb
        BY <1>2, <1>3, <2>2
      <3>2. <<"available", vpn>> \in {"available", "lost"} \X Nets
        BY <1>1, <3>1
      <3> QED BY <3>1, <3>2
    <2> QED BY <2>1, <2>2
  <1>7. ReconnectTyped'
    <2>0. 1..Len(svc) \subseteq 1..k /\ k \in 1..k
      BY <1>1
    <2>1. deadline' \subseteq 1..Len(svc')
      BY <1>4, <1>5, <2>0 DEF ReconnectTyped
    <2>2. assign' \in Nets \cup {0} /\ vpn' \in Nets \cup {0}
      BY <1>1, <1>3, <1>4
    <2>3. instance' \in 0..Len(svc') /\ Len(svc') <= MaxInst
      BY <1>1, <1>4, <1>5
    <2>4. \A j \in 1..MaxInst : j > Len(svc') => lost'[j] = 0
      BY <1>1, <1>4, <1>5 DEF ReconnectTyped
    <2> QED BY <1>4, <1>5, <1>6, <2>1, <2>2, <2>3, <2>4 DEF ReconnectTyped
  <1>8. OneAlive'
    <2>1. \A j \in 1..k : j # k => j \in 1..Len(svc)
      BY <1>1
    <2>2. k # 0 /\ k \in 1..k
      BY <1>1
    <2>3. \A j \in 1..k : j # k => svc'[j].life = "destroyed" /\ ~svc'[j].cb
      BY <1>1, <1>5, <2>1 DEF OneAlive
    <2>4. s.cb => s.life = "running"
      BY <1>3
    <2>5. assign' # 0 => s.cb
      BY <1>3
    <2> HIDE DEF k
    <2> QED BY <1>4, <1>5, <1>6, <2>2, <2>3, <2>4, <2>5 DEF OneAlive
  <1>9. LeftArmed'
    <2>1. \A j \in 1..k : j # k => j \in 1..Len(svc)
      BY <1>1
    <2>2. \A j \in 1..Len(svc) : Armed(j)' => Armed(j)
      BY <1>1, <1>4 DEF Armed
    <2>3. s.life # "running" => "armed" \in astray'
      BY <1>3
    <2>4. astray' \in {astray, astray \cup {"armed"}}
      BY <1>3
    <2> HIDE DEF k
    <2> QED BY <1>5, <2>1, <2>2, <2>3, <2>4 DEF LeftArmed
  <1>10. Told'
    <2>1. \A j \in 1..k : j # k => j \in 1..Len(svc)
      BY <1>1
    <2>2. \A j \in 1..Len(svc) : j # k
      BY <1>1
    <2> HIDE DEF k
    <2> QED BY <1>3, <1>4, <1>5, <1>6, <2>1, <2>2 DEF Told
  <1> QED BY <1>7, <1>8, <1>9, <1>10

\* The head of the pending events leaves, and the last one stays unless it was the head.
LEMMA EventHandled ==
    ASSUME ReconnectInv, events # <<>>, events' = Tail(events)
    PROVE  /\ Head(events) \in {"available", "lost"} \X Nets
           /\ events' \in Seq({"available", "lost"} \X Nets)
           /\ events' # <<>> => events'[Len(events')] = events[Len(events)]
           /\ events' = <<>> => Head(events) = events[Len(events)]
           /\ instance \in 1..Len(svc) /\ svc[instance].cb /\ svc[instance].life = "running"
           /\ svc[instance] \in Service
  <1> DEFINE E == {"available", "lost"} \X Nets
  <1>1. events \in Seq(E) /\ instance \in 0..Len(svc) /\ svc \in Seq(Service)
    BY DEF ReconnectInv, ReconnectTyped
  <1> HIDE DEF E
  <1>2. /\ Head(events) \in E /\ Tail(events) \in Seq(E) /\ Len(Tail(events)) = Len(events) - 1
        /\ Len(events) \in Nat \ {0} /\ Head(events) = events[1]
        /\ \A i \in 1..Len(Tail(events)) : Tail(events)[i] = events[i + 1]
    BY <1>1, HeadTailProperties
  <1>3. events' = <<>> => Len(events) = 1
    <2> SUFFICES ASSUME events' = <<>> PROVE Len(events) = 1
      OBVIOUS
    <2>1. Tail(events) = <<>>
      OBVIOUS
    <2>2. Len(Tail(events)) = 0
      BY <2>1, EmptySeq
    <2>3. Len(events) - 1 = 0
      BY <1>2, <2>2
    <2>4. Len(events) \in Nat
      BY <1>2
    <2> QED BY <2>3, <2>4
  <1>4. events' # <<>> => Len(events') \in 1..Len(events')
    BY <1>2
  <1>5. events' # <<>> => events'[Len(events')] = events[Len(events)]
    <2> SUFFICES ASSUME events' # <<>> PROVE Tail(events)[Len(Tail(events))] = events[Len(events)]
      OBVIOUS
    <2>1. Len(Tail(events)) \in 1..Len(Tail(events)) /\ Len(Tail(events)) + 1 = Len(events)
      BY <1>2, <1>4
    <2> QED BY <1>2, <2>1
  <1>6. instance # 0 /\ svc[instance].cb
    BY DEF ReconnectInv, OneAlive
  <1>7. instance \in 1..Len(svc)
    BY <1>1, <1>6
  <1>8. svc[instance].life = "running" /\ svc[instance] \in Service
    BY <1>1, <1>6, <1>7 DEF ReconnectInv, OneAlive
  <1> QED BY <1>2, <1>3, <1>5, <1>6, <1>7, <1>8 DEF E

\* The effect of Watch: the network is watched, and the instance has no timer.
Watched(net) ==
    /\ svc' \in Seq(Service) /\ Len(svc') = Len(svc)
    /\ \A j \in 1..Len(svc) : j # instance => svc'[j] = svc[j]
    /\ svc'[instance].cb = svc[instance].cb /\ svc'[instance].life = svc[instance].life
    /\ svc'[instance].active = net
    /\ deadline' = deadline \ {instance}
    /\ lost' \in [1..MaxInst -> Nat] /\ lost'[instance] = 0
    /\ \A j \in 1..MaxInst : j # instance => lost'[j] = lost[j]

\* The instance that is told to watch a network watches it.
LEMMA WatchSets ==
    ASSUME ReconnectTyped, instance \in 1..Len(svc), NEW net \in Nets, Watch(instance, net)
    PROVE  Watched(net)
  <1> DEFINE r == [svc[instance] EXCEPT !.active = net]
  <1>1. r \in Service /\ r.cb = svc[instance].cb /\ r.life = svc[instance].life /\ r.active = net
    BY ServiceFields
  <1>2. svc' = [svc EXCEPT ![instance] = r]
    BY DEF Watch
  <1> HIDE DEF r
  <1>3. Replaces(instance, r)
    BY <1>1, <1>2, Replaced
  <1>4. instance \in 1..MaxInst /\ lost \in [1..MaxInst -> Nat]
    <2>1. Len(svc) \in Nat /\ Len(svc) <= MaxInst /\ MaxInst \in Nat
      BY ReconnectAssumption DEF ReconnectTyped
    <2> QED BY <2>1 DEF ReconnectTyped
  <1>5. /\ lost' \in [1..MaxInst -> Nat] /\ lost'[instance] = 0
        /\ \A j \in 1..MaxInst : j # instance => lost'[j] = lost[j]
    BY <1>4 DEF Watch
  <1> QED BY <1>1, <1>3, <1>5 DEF Watch, Watched, Replaces

\* The parts of the invariant that do not speak of what the instance was told.
LEMMA WatchKeeps ==
    ASSUME ReconnectInv, instance \in 1..Len(svc), svc[instance].cb, NEW net \in Nets, Watched(net),
           instance' = instance, vpn' = vpn, assign' \in {assign, 0},
           events' \in Seq({"available", "lost"} \X Nets),
           astray \subseteq astray', "other" \in astray' => "other" \in astray
    PROVE  /\ ReconnectTyped' /\ OneAlive' /\ LeftArmed'
           /\ \A k \in 1..Len(svc') : svc'[k].active # 0 => k \notin deadline'
  <1> USE DEF ReconnectInv
  <1>1. Len(svc) \in Nat /\ Len(svc) <= MaxInst /\ MaxInst \in Nat
    BY ReconnectAssumption DEF ReconnectTyped
  <1>2. ReconnectTyped'
    <2>1. \A j \in 1..MaxInst : j > Len(svc) => j # instance
      BY <1>1
    <2>2. \A j \in 1..MaxInst : j > Len(svc') => lost'[j] = 0
      BY <2>1 DEF ReconnectTyped, Watched
    <2>3. deadline' \subseteq 1..Len(svc')
      BY DEF ReconnectTyped, Watched
    <2>4. assign' \in Nets \cup {0} /\ vpn' \in Nets \cup {0} /\ instance' \in 0..Len(svc')
      BY <1>1 DEF ReconnectTyped, Watched
    <2> QED BY <2>2, <2>3, <2>4 DEF ReconnectTyped, Watched
  <1>3. OneAlive'
    <2>1. instance # 0
      BY <1>1
    <2> QED BY <2>1 DEF OneAlive, Watched
  <1>4. LeftArmed'
    <2>1. svc'[instance].life = "running"
      BY DEF OneAlive, Watched
    <2>2. \A j \in 1..Len(svc) : j # instance => (Armed(j)' => Armed(j)) /\ svc'[j] = svc[j]
      BY <1>1 DEF Armed, Watched
    <2>3. Len(svc') = Len(svc)
      BY DEF Watched
    <2> QED BY <2>1, <2>2, <2>3 DEF LeftArmed
  <1>5. \A k \in 1..Len(svc') : svc'[k].active # 0 => k \notin deadline'
    BY DEF Told, Watched
  <1> QED BY <1>2, <1>3, <1>4, <1>5

\* checkAvailableNetwork on the main thread.
LEMMA AssignKeeps == ASSUME ReconnectInv, AssignRunning PROVE ReconnectInv'
  <1>1. /\ assign \in Nets /\ instance \in 1..Len(svc) /\ svc[instance].cb
        /\ events \in Seq({"available", "lost"} \X Nets)
        /\ UNCHANGED <<instance, vpn, events>> /\ assign' = 0
    <2>1. assign # 0 /\ instance # 0 /\ svc[instance].cb
      BY DEF ReconnectInv, OneAlive, AssignRunning
    <2> QED BY <2>1 DEF ReconnectInv, ReconnectTyped, AssignRunning
  <1>2. CASE svc[instance].active = assign
    <2>1. UNCHANGED <<svc, deadline, lost, astray>>
      BY <1>2 DEF AssignRunning
    <2>2. ReconnectTyped'
      BY <1>1, <2>1 DEF ReconnectInv, ReconnectTyped
    <2>3. OneAlive'
      BY <1>1, <2>1 DEF ReconnectInv, OneAlive
    <2>4. LeftArmed' /\ Told'
      BY <1>1, <2>1 DEF ReconnectInv, LeftArmed, Told, Armed
    <2> QED BY <2>2, <2>3, <2>4 DEF ReconnectInv
  <1>3. CASE svc[instance].active # assign
    <2>1. /\ Watch(instance, assign)
          /\ astray' = IF vpn # assign /\ \A i \in 1 .. Len(events) : events[i] # <<"lost", assign>>
                       THEN astray \cup {"missed"} ELSE astray
      BY <1>3 DEF AssignRunning
    <2>2. Watched(assign)
      BY <1>1, <2>1, WatchSets DEF ReconnectInv
    <2>3. /\ ReconnectTyped' /\ OneAlive' /\ LeftArmed'
          /\ \A k \in 1..Len(svc') : svc'[k].active # 0 => k \notin deadline'
      BY <1>1, <2>1, <2>2, WatchKeeps
    <2>4. ASSUME vpn # 0
          PROVE  IF events = <<>>
                 THEN /\ assign # 0 /\ (assign = vpn \/ "missed" \in astray')
                      /\ lost'[instance] = 0
                 ELSE events[Len(events)] = <<"available", vpn>>
      <3>1. CASE events = <<>>
        <4>1. assign # vpn => "missed" \in astray'
          <5>1. \A i \in 1..Len(events) : events[i] # <<"lost", assign>>
            BY <3>1, EmptySeq
          <5> QED BY <2>1, <5>1
        <4> QED BY <1>1, <2>2, <3>1, <4>1, ReconnectAssumption DEF Watched
      <3>2. CASE events # <<>>
        BY <1>1, <2>4, <3>2 DEF ReconnectInv, Told
      <3> QED BY <3>1, <3>2
    <2>5. Told'
      BY <1>1, <2>2, <2>3, <2>4 DEF Told, Watched
    <2> QED BY <2>3, <2>5 DEF ReconnectInv
  <1> QED BY <1>2, <1>3

\* onAvailable, of the last event or of an earlier one.
LEMMA AvailableKeeps == ASSUME ReconnectInv, onAvailable PROVE ReconnectInv'
  <1> DEFINE net == Head(events)[2]
  <1>1. /\ events # <<>> /\ Head(events)[1] = "available" /\ events' = Tail(events)
        /\ UNCHANGED <<instance, vpn, assign>>
    BY DEF onAvailable
  <1>2. /\ Head(events) \in {"available", "lost"} \X Nets
        /\ events' \in Seq({"available", "lost"} \X Nets)
        /\ events' # <<>> => events'[Len(events')] = events[Len(events)]
        /\ events' = <<>> => Head(events) = events[Len(events)]
        /\ instance \in 1..Len(svc) /\ svc[instance].cb /\ svc[instance].life = "running"
        /\ svc[instance] \in Service
    BY <1>1, EventHandled
  <1>3. net \in Nets /\ net # 0
    BY <1>2, ReconnectAssumption
  <1>4. astray' = IF svc[instance].active = net /\ lost[instance] > 0 THEN astray \cup {"back"} ELSE astray
    BY DEF onAvailable
  <1>5. instance # 0 /\ (vpn # 0 => events[Len(events)] = <<"available", vpn>>)
    BY <1>1, <1>2 DEF ReconnectInv, Told, OneAlive
  <1>6. vpn # 0 /\ events' = <<>> => net = vpn
    BY <1>2, <1>5
  <1>7. lost[instance] \in Nat
    <2>1. Len(svc) \in Nat /\ Len(svc) <= MaxInst /\ MaxInst \in Nat /\ lost \in [1..MaxInst -> Nat]
      BY ReconnectAssumption DEF ReconnectInv, ReconnectTyped
    <2> QED BY <1>2, <2>1
  <1>8. CASE svc[instance].active # net /\ vpn = net
    <2>1. Watch(instance, net)
      BY <1>8 DEF onAvailable
    <2> HIDE DEF net
    <2>2. Watched(net)
      BY <1>2, <1>3, <2>1, WatchSets DEF ReconnectInv
    <2>3. /\ ReconnectTyped' /\ OneAlive' /\ LeftArmed'
          /\ \A k \in 1..Len(svc') : svc'[k].active # 0 => k \notin deadline'
      BY <1>1, <1>2, <1>3, <1>4, <2>2, WatchKeeps
    <2>4. Told'
      BY <1>1, <1>2, <1>3, <1>5, <1>8, <2>2, <2>3 DEF Told, Watched
    <2> QED BY <2>3, <2>4 DEF ReconnectInv
  <1>9. CASE ~(svc[instance].active # net /\ vpn = net)
    <2>1. UNCHANGED <<svc, deadline, lost>>
      BY <1>9 DEF onAvailable
    <2> HIDE DEF net
    <2>2. ReconnectTyped'
      BY <1>1, <1>2, <2>1 DEF ReconnectInv, ReconnectTyped
    <2>3. OneAlive'
      BY <1>1, <1>2, <1>5, <2>1 DEF ReconnectInv, OneAlive
    <2>4. LeftArmed'
      BY <1>1, <1>4, <2>1 DEF ReconnectInv, LeftArmed, Armed
    <2>5. ASSUME vpn # 0, events' = <<>>
          PROVE  svc[instance].active = vpn /\ (lost[instance] = 0 \/ "back" \in astray')
      <3>1. net = vpn /\ svc[instance].active = net
        BY <1>6, <1>9, <2>5
      <3> QED BY <1>4, <1>7, <3>1
    <2>6. Told'
      BY <1>1, <1>2, <1>5, <2>1, <2>5 DEF ReconnectInv, Told
    <2> QED BY <2>2, <2>3, <2>4, <2>6 DEF ReconnectInv
  <1> QED BY <1>8, <1>9

\* onLost: if it is the last event, the VPN does not run.
LEMMA LostKeeps == ASSUME ReconnectInv, onLost PROVE ReconnectInv'
  <1>1. /\ events # <<>> /\ Head(events)[1] = "lost" /\ events' = Tail(events)
        /\ UNCHANGED <<instance, vpn, assign, svc, deadline, astray>>
    BY DEF onLost
  <1>2. /\ Head(events) \in {"available", "lost"} \X Nets
        /\ events' \in Seq({"available", "lost"} \X Nets)
        /\ events' # <<>> => events'[Len(events')] = events[Len(events)]
        /\ events' = <<>> => Head(events) = events[Len(events)]
        /\ instance \in 1..Len(svc) /\ svc[instance].cb /\ svc[instance].life = "running"
        /\ svc[instance] \in Service
    BY <1>1, EventHandled
  <1>3. instance # 0 /\ (vpn # 0 => events[Len(events)] = <<"available", vpn>>)
    BY <1>1, <1>2 DEF ReconnectInv, Told, OneAlive
  <1>4. vpn # 0 => events' # <<>>
    BY <1>1, <1>2, <1>3
  <1>5. Len(svc) \in Nat /\ Len(svc) <= MaxInst /\ MaxInst \in Nat /\ lost \in [1..MaxInst -> Nat]
    BY ReconnectAssumption DEF ReconnectInv, ReconnectTyped
  <1>6. /\ lost' \in [1..MaxInst -> Nat]
        /\ \A j \in 1..MaxInst : j # instance => lost'[j] = lost[j]
    <2>1. instance \in 1..MaxInst
      BY <1>2, <1>5
    <2>2. lost[instance] + 1 \in Nat
      BY <1>5, <2>1
    <2>3. lost' \in {lost, [lost EXCEPT ![instance] = lost[instance] + 1]}
      BY DEF onLost
    <2> QED BY <1>5, <2>1, <2>2, <2>3
  <1>7. ReconnectTyped'
    <2>1. \A j \in 1..MaxInst : j > Len(svc) => j # instance
      BY <1>2, <1>5
    <2> QED BY <1>1, <1>2, <1>6, <2>1 DEF ReconnectInv, ReconnectTyped
  <1>8. OneAlive'
    BY <1>1, <1>2, <1>3 DEF ReconnectInv, OneAlive
  <1>9. LeftArmed'
    <2>1. \A j \in 1..Len(svc) : j # instance => (Armed(j)' => Armed(j))
      BY <1>1, <1>5, <1>6 DEF Armed
    <2> QED BY <1>1, <1>2, <2>1 DEF ReconnectInv, LeftArmed
  <1>10. Told'
    BY <1>1, <1>2, <1>3, <1>4 DEF ReconnectInv, Told
  <1> QED BY <1>7, <1>8, <1>9, <1>10 DEF ReconnectInv

\* The timer that starts the capture: the callback is unregistered.
LEMMA FireLostKeeps ==
    ASSUME ReconnectInv, NEW k \in 1..Len(svc), FireLost(k) PROVE ReconnectInv'
  <1> DEFINE r == [svc[k] EXCEPT !.cb = FALSE]
  <1>1. r \in Service /\ ~r.cb /\ r.life = svc[k].life /\ r.active = svc[k].active
    BY ServiceFields DEF ReconnectInv
  <1>2. svc' = [svc EXCEPT ![k] = r]
    BY DEF FireLost
  <1> HIDE DEF r
  <1>3. /\ svc' \in Seq(Service) /\ Len(svc') = Len(svc)
        /\ \A j \in 1..Len(svc) : svc'[j] = IF j = k THEN r ELSE svc[j]
    BY <1>1, <1>2, Replaced DEF Replaces, ReconnectInv
  <1>4. /\ UNCHANGED <<vpn, instance, deadline, assign, astray>> /\ assign = 0 /\ lost[k] > 0
        /\ events' = IF k = instance THEN <<>> ELSE events
        /\ lost' = [lost EXCEPT ![k] = lost[k] - 1]
    BY DEF FireLost
  <1>5. /\ Len(svc) \in Nat /\ Len(svc) <= MaxInst /\ MaxInst \in Nat /\ lost \in [1..MaxInst -> Nat]
        /\ events \in Seq({"available", "lost"} \X Nets) /\ instance \in 0..Len(svc)
    BY ReconnectAssumption DEF ReconnectInv, ReconnectTyped
  <1>6. k \in 1..MaxInst /\ lost[k] - 1 \in Nat /\ k # 0
    <2>1. k \in 1..MaxInst
      BY <1>5
    <2>2. lost[k] \in Nat
      BY <1>5, <2>1
    <2> QED BY <1>4, <2>1, <2>2
  <1>7. /\ lost' \in [1..MaxInst -> Nat]
        /\ \A j \in 1..MaxInst : j # k => lost'[j] = lost[j]
    BY <1>4, <1>5, <1>6
  <1>8. ReconnectTyped'
    <2>1. \A j \in 1..MaxInst : j > Len(svc) => j # k
      BY <1>5
    <2>2. events' \in Seq({"available", "lost"} \X Nets)
      BY <1>4, <1>5
    <2> QED BY <1>3, <1>4, <1>7, <2>1, <2>2 DEF ReconnectInv, ReconnectTyped
  <1>9. OneAlive'
    <2>1. events' # <<>> => k # instance /\ instance # 0 /\ svc[instance].cb
      BY <1>4 DEF ReconnectInv, OneAlive
    <2>2. events' # <<>> => instance \in 1..Len(svc)
      BY <1>5, <2>1
    <2> QED BY <1>1, <1>3, <1>4, <2>1, <2>2 DEF ReconnectInv, OneAlive
  <1>10. LeftArmed'
    <2>1. \A j \in 1..Len(svc) : Armed(j)' => Armed(j)
      BY <1>4, <1>5, <1>7 DEF Armed
    <2>2. \A j \in 1..Len(svc) : svc'[j].life = svc[j].life
      BY <1>1, <1>3
    <2> QED BY <1>3, <1>4, <2>1, <2>2 DEF ReconnectInv, LeftArmed
  <1>11. Told'
    <2>1. \A j \in 1..Len(svc) : svc'[j].active = svc[j].active
      BY <1>1, <1>3
    <2>2. CASE instance = k
      BY <1>1, <1>3, <1>4, <2>1, <2>2 DEF ReconnectInv, Told
    <2>3. CASE instance # k
      <3>1. instance # 0 => instance \in 1..Len(svc) /\ instance \in 1..MaxInst
        BY <1>5
      <3>2. instance # 0 => svc'[instance] = svc[instance] /\ lost'[instance] = lost[instance]
        BY <1>3, <1>7, <2>3, <3>1
      <3>3. events' = events
        BY <1>4, <2>3
      <3> QED BY <1>3, <1>4, <2>1, <3>2, <3>3 DEF ReconnectInv, Told
    <2> QED BY <2>2, <2>3
  <1> QED BY <1>8, <1>9, <1>10, <1>11 DEF ReconnectInv

\* onDestroy: INSTANCE is cleared; nothing was on the way to an instance that stopped.
LEMMA DestroyKeeps == ASSUME ReconnectInv, onDestroy PROVE ReconnectInv'
  <1> DEFINE r == [svc[instance] EXCEPT !.life = "destroyed"]
  <1>0. /\ assign = 0 /\ instance # 0 /\ svc[instance].life = "stopping"
        /\ svc' = [svc EXCEPT ![instance] = r] /\ instance' = 0
        /\ UNCHANGED <<vpn, events, deadline, lost, assign, astray>>
    BY DEF onDestroy
  <1>1. instance \in 1..Len(svc)
    BY <1>0 DEF ReconnectInv, ReconnectTyped
  <1>2. r \in Service /\ r.cb = svc[instance].cb /\ r.life = "destroyed" /\ r.active = svc[instance].active
    BY <1>1, ServiceFields DEF ReconnectInv
  <1> HIDE DEF r
  <1>3. /\ svc' \in Seq(Service) /\ Len(svc') = Len(svc)
        /\ \A j \in 1..Len(svc) : svc'[j] = IF j = instance THEN r ELSE svc[j]
    BY <1>0, <1>1, <1>2, Replaced DEF Replaces, ReconnectInv
  <1>4. ~svc[instance].cb /\ events = <<>>
    <2>1. ~svc[instance].cb
      BY <1>0, <1>1 DEF ReconnectInv, OneAlive
    <2> QED BY <2>1 DEF ReconnectInv, OneAlive
  <1>5. ReconnectTyped'
    BY <1>0, <1>3 DEF ReconnectInv, ReconnectTyped
  <1>6. OneAlive'
    BY <1>0, <1>2, <1>3, <1>4 DEF ReconnectInv, OneAlive
  <1>7. LeftArmed'
    BY <1>0, <1>1, <1>3 DEF ReconnectInv, LeftArmed, Armed
  <1>8. Told'
    BY <1>0, <1>2, <1>3, ZenonT(20) DEF ReconnectInv, Told
  <1> QED BY <1>5, <1>6, <1>7, <1>8 DEF ReconnectInv

\* The networks change, and a registered callback is told.
LEMMA NetworkKeeps ==
    ASSUME ReconnectInv, VpnDown \/ \E net \in Nets : VpnUp(net) PROVE ReconnectInv'
  <1> DEFINE E == {"available", "lost"} \X Nets
  <1>1. UNCHANGED <<instance, svc, deadline, lost, assign, astray>>
    BY DEF VpnDown, VpnUp
  <1>2. events \in Seq(E) /\ vpn \in Nets \cup {0}
    BY DEF ReconnectInv, ReconnectTyped
  <1>3. PICK ev \in E : events' = Tell(ev) /\ vpn' \in Nets \cup {0} /\ (vpn' # 0 => ev = <<"available", vpn'>>)
    <2>1. CASE VpnDown
      <3>1. vpn \in Nets /\ vpn' = 0 /\ events' = Tell(<<"lost", vpn>>)
        BY <1>2, <2>1 DEF VpnDown
      <3> QED BY <3>1
    <2>2. CASE \E net \in Nets : VpnUp(net)
      <3>1. PICK net \in Nets : VpnUp(net)
        BY <2>2
      <3>2. vpn' = net /\ events' = Tell(<<"available", net>>)
        BY <3>1 DEF VpnUp
      <3> QED BY <3>2
    <2> QED BY <2>1, <2>2
  <1> HIDE DEF E
  <1>4. CASE instance # 0 /\ svc[instance].cb
    <2>1. events' = Append(events, ev)
      BY <1>3, <1>4 DEF Tell
    <2>2. events' \in Seq(E) /\ events' # <<>> /\ events'[Len(events')] = ev
      BY <1>2, <2>1, AppendProperties
    <2>3. ReconnectTyped'
      BY <1>1, <1>3, <2>2 DEF ReconnectInv, ReconnectTyped, E
    <2>4. OneAlive' /\ LeftArmed' /\ Told'
      BY <1>1, <1>3, <1>4, <2>2 DEF ReconnectInv, OneAlive, LeftArmed, Armed, Told
    <2> QED BY <2>3, <2>4 DEF ReconnectInv
  <1>5. CASE ~(instance # 0 /\ svc[instance].cb)
    <2>1. events' = events
      BY <1>3, <1>5 DEF Tell
    <2>2. ReconnectTyped'
      BY <1>1, <1>3, <2>1 DEF ReconnectInv, ReconnectTyped
    <2>3. OneAlive' /\ LeftArmed' /\ Told'
      BY <1>1, <1>5, <2>1 DEF ReconnectInv, OneAlive, LeftArmed, Armed, Told
    <2> QED BY <2>2, <2>3 DEF ReconnectInv
  <1> QED BY <1>4, <1>5

\* Every step keeps the invariant.
LEMMA ReconnectKept == ReconnectInv /\ [ReconnectNext]_reconnectVars => ReconnectInv'
  <1> SUFFICES ASSUME ReconnectInv, [ReconnectNext]_reconnectVars PROVE ReconnectInv'
    OBVIOUS
  <1>1. CASE onStartCommand \/ RegisterFails
    BY <1>1, NewInstance
  <1>2. CASE AssignRunning
    BY <1>2, AssignKeeps
  <1>3. CASE onAvailable
    BY <1>3, AvailableKeeps
  <1>4. CASE onLost
    BY <1>4, LostKeeps
  <1>5. ASSUME NEW k \in deadline, FireDeadline(k) PROVE ReconnectInv'
    <2>1. k \in 1..Len(svc) /\ Armed(k)
      BY DEF ReconnectInv, ReconnectTyped, Armed
    <2> QED BY <1>5, <2>1, StopKeeps DEF FireDeadline
  <1>6. ASSUME NEW k \in 1..Len(svc), FireLost(k) PROVE ReconnectInv'
    BY <1>6, FireLostKeeps
  <1>7. CASE StartFails \/ UserAbort \/ \E byUser \in BOOLEAN : StartCapture(byUser)
    <2>1. /\ stopServiceFor(instance, deadline) /\ assign = 0
          /\ UNCHANGED <<instance, deadline, lost, assign>> /\ vpn' \in {vpn, 0}
      BY <1>7 DEF StartFails, UserAbort, StartCapture
    <2> QED BY <2>1, StopKeeps
  <1>8. CASE onDestroy
    BY <1>8, DestroyKeeps
  <1>9. CASE Revoke \/ StopCapture \/ UNCHANGED reconnectVars
    <2>1. UNCHANGED <<vpn, instance, svc, events, deadline, lost, assign, astray>>
      BY <1>9 DEF Revoke, StopCapture, reconnectVars
    <2> QED BY <2>1 DEF ReconnectInv, ReconnectTyped, OneAlive, LeftArmed, Armed, Told
  <1>10. CASE VpnDown \/ \E net \in Nets : VpnUp(net)
    BY <1>10, NetworkKeeps
  <1> QED BY <1>1, <1>2, <1>3, <1>4, <1>5, <1>6, <1>7, <1>8, <1>9, <1>10, ZenonT(20) DEF ReconnectNext

(* While the other app's VPN runs and the service knows, it watches that   *)
(* VPN, and no timer will give up the wait or start the capture over it,   *)
(* but for the exceptions that NothingArmed names.                         *)
THEOREM NoTimerWhileWatching == ReconnectInit /\ [][ReconnectNext]_reconnectVars => []NothingArmed
  <1>1. ReconnectInv => NothingArmed
    <2> SUFFICES ASSUME ReconnectInv PROVE NothingArmed
      OBVIOUS
    <2>1. ASSUME Watching, vpn # 0
          PROVE  /\ svc[instance].active = vpn \/ "missed" \in astray
                 /\ instance \notin deadline
                 /\ lost[instance] = 0 \/ "back" \in astray
      <3>1. instance \in 1..Len(svc)
        BY <2>1 DEF ReconnectInv, ReconnectTyped, Watching
      <3> QED BY <2>1, <3>1 DEF ReconnectInv, Told, Watching
    <2>2. \A j \in 1..Len(svc) : j # instance /\ Armed(j) => "armed" \in astray
      BY DEF ReconnectInv, OneAlive, LeftArmed
    <2> QED BY <2>1, <2>2 DEF ReconnectInv, LeftArmed, NothingArmed
  <1> QED BY <1>1, ReconnectStart, ReconnectKept, PTL

-----------------------------------------------------------------------------
(* The error of a connection and its status (MitmReceiver).                *)

\* At most one connection was found, and it was registered.
RxFound ==
    rx.at # "idle" =>
        /\ \A c, d \in rx.conn : c = d
        /\ rx.at \in {"found", "error", "marked"} => \A c \in Conns : c \in rx.conn => c <= registered

\* The connection that is being updated.
UpdaterTyped == updater.at = "written" => updater.conn \in Conns

(* The error of a connection is written after it was registered, and what  *)
(* the two threads have yet to do accounts for every error.                *)
ErrorInv ==
    /\ registered \in Nat /\ status \in [Conns -> {"none", "open", "closed", "error"}]
    /\ RxFound /\ UpdaterTyped
    /\ \A c \in Conns : registered < c => c \notin error
    /\ ErrorShown

\* At the start there is no error.
LEMMA ErrorStarts == MitmInit => ErrorInv
  BY DEF MitmInit, ErrorInv, RxFound, UpdaterTyped, ErrorShown, Idle

\* The look-ups: the receiver leaves its last message for the next one, and has no
\* connection before it has looked into the register.
LEMMA ErrorLookup == ErrorInv /\ getConnByLocalPort => ErrorInv'
  <1> SUFFICES ASSUME ErrorInv, getConnByLocalPort PROVE ErrorInv'
    OBVIOUS
  <1> DEFINE ids == CachedId(Head(stream).port)
             a == IF ids = {} THEN "missing" ELSE "cached"
  <1>1. /\ rx' = [at |-> a, msg |-> Head(stream), conn |-> ids]
        /\ rx.at \in {"idle", "marked"}
        /\ UNCHANGED <<updater, registered, error, status, stale>>
    BY DEF getConnByLocalPort
  <1>2. \A c, d \in ids : c = d
    BY DEF CachedId
  <1>3. a \in {"missing", "cached"}
    OBVIOUS
  <1> HIDE DEF ids, a
  <1>4. rx'.at = a /\ rx'.conn = ids
    BY <1>1
  <1>5. RxFound' /\ UpdaterTyped'
    BY <1>1, <1>2, <1>3, <1>4 DEF ErrorInv, RxFound, UpdaterTyped
  <1>6. ErrorShown'
    BY <1>1 DEF ErrorInv, ErrorShown
  <1> QED BY <1>1, <1>5, <1>6 DEF ErrorInv

LEMMA ErrorFound == ErrorInv /\ getConnById => ErrorInv'
  <1> SUFFICES ASSUME ErrorInv, getConnById PROVE ErrorInv'
    OBVIOUS
  <1> DEFINE found == {c \in rx.conn : InRegister(c)}
             a == IF found = {} THEN "missing" ELSE "found"
  <1>1. /\ rx' = [at |-> a, msg |-> rx.msg, conn |-> found]
        /\ rx.at = "cached"
        /\ UNCHANGED <<updater, registered, error, status, stale>>
    BY DEF getConnById
  <1>2. \A c, d \in found : c = d
    BY <1>1 DEF ErrorInv, RxFound
  <1>3. \A c \in found : c <= registered
    BY DEF InRegister
  <1> HIDE DEF found, a
  <1>4. rx'.conn = found
    BY <1>1
  <1>5. RxFound' /\ UpdaterTyped'
    BY <1>1, <1>2, <1>3, <1>4 DEF ErrorInv, RxFound, UpdaterTyped
  <1>6. ErrorShown'
    BY <1>1 DEF ErrorInv, ErrorShown
  <1> QED BY <1>1, <1>5, <1>6 DEF ErrorInv

\* handleMessage: an error is written, and the status is yet to be tested.
LEMMA ErrorWritten == ErrorInv /\ handleMessage => ErrorInv'
  <1> SUFFICES ASSUME ErrorInv, handleMessage PROVE ErrorInv'
    OBVIOUS
  <1>1. rx.at = "found" /\ UNCHANGED <<updater, registered, status, stale>>
    BY DEF handleMessage
  <1>2. UpdaterTyped'
    BY <1>1 DEF ErrorInv, UpdaterTyped
  <1>3. CASE rx.msg.err
    <2>1. error' = error \cup rx.conn /\ rx' = [at |-> "error", conn |-> rx.conn]
      BY <1>3 DEF handleMessage
    <2>2. rx'.at = "error" /\ rx'.conn = rx.conn
      BY <2>1
    <2>3. RxFound'
      BY <2>2, <1>1 DEF ErrorInv, RxFound
    <2>4. \A c \in Conns : registered < c => c \notin error'
      <3>1. \A c \in Conns : c \in rx.conn => c <= registered
        BY <1>1 DEF ErrorInv, RxFound
      <3> QED BY <3>1, <2>1 DEF ErrorInv, Conns
    <2>5. ErrorShown'
      BY <2>1, <2>2, <1>1 DEF ErrorInv, ErrorShown
    <2> QED BY <2>3, <2>4, <2>5, <1>1, <1>2 DEF ErrorInv
  <1>4. CASE ~rx.msg.err
    <2>1. error' = error /\ rx' = Idle
      BY <1>4 DEF handleMessage
    <2>2. RxFound'
      BY <2>1 DEF RxFound, Idle
    <2>3. ErrorShown'
      BY <2>1, <1>1 DEF ErrorInv, ErrorShown
    <2> QED BY <2>1, <2>2, <2>3, <1>1, <1>2 DEF ErrorInv
  <1> QED BY <1>3, <1>4

\* The rest of handleMessage: the status is right, or the update thread has yet to correct it.
LEMMA ErrorMarked == ErrorInv /\ MarkClosed => ErrorInv'
  <1> SUFFICES ASSUME ErrorInv, MarkClosed PROVE ErrorInv'
    OBVIOUS
  <1>1. rx.at = "error" /\ rx' = [at |-> "marked", conn |-> rx.conn]
        /\ UNCHANGED <<updater, registered, error, stale>>
    BY DEF MarkClosed
  <1>2. PICK c \in rx.conn : \E seen \in StatusSeen(c) :
           status' = IF seen = "closed" THEN [status EXCEPT ![c] = "error"] ELSE status
    BY DEF MarkClosed
  <1>3. PICK seen \in StatusSeen(c) :
           status' = IF seen = "closed" THEN [status EXCEPT ![c] = "error"] ELSE status
    BY <1>2
  <1>4. rx'.at = "marked" /\ rx'.conn = rx.conn
    BY <1>1
  <1>5. RxFound' /\ UpdaterTyped'
    BY <1>1, <1>4 DEF ErrorInv, RxFound, UpdaterTyped
  <1>6. /\ status' \in [Conns -> {"none", "open", "closed", "error"}]
        /\ \A d \in Conns : d # c => status'[d] = status[d]
        /\ c \in Conns => \/ status'[c] = "error"
                          \/ status'[c] = status[c] /\ seen # "closed"
    BY <1>3 DEF ErrorInv
  <1>7. ErrorShown'
    <2> SUFFICES ASSUME NEW d \in Conns, d \notin stale, d \in error, status'[d] = "closed"
                 PROVE  updater.at = "written" /\ updater.conn = d
      BY <1>1 DEF ErrorShown
    <2>1. CASE d = c
      <3>1. status[c] = "closed" /\ seen # "closed"
        BY <1>6, <2>1
      <3> QED BY <3>1, <2>1 DEF StatusSeen
    <2>2. CASE d # c
      <3>1. d \notin rx.conn
        BY <1>1, <1>2, <2>2 DEF ErrorInv, RxFound
      <3> QED BY <3>1, <2>2, <1>6 DEF ErrorInv, ErrorShown
    <2> QED BY <2>1, <2>2
  <1> QED BY <1>1, <1>5, <1>6, <1>7 DEF ErrorInv

\* connectionsAdded: a new connection that is closed is tested for its errors, which
\* are those that waited for it.
LEMMA ErrorAdded ==
    ASSUME ErrorInv, NEW k \in Conns, connectionsAdded(k)
    PROVE  ErrorInv'
  <1> DEFINE new == registered + 1 .. registered + k
             kept == {c \in new : c > registered + k - RegSize}
             failed == {c \in kept : \E m \in Range(Handed(kept, c)) : m.err}
  <1>1. /\ registered' = registered + k /\ error' = error \cup failed
        /\ UNCHANGED <<rx, updater, stale>>
    BY DEF connectionsAdded
  <1>2. PICK closed \in SUBSET kept :
           status' = [c \in Conns |-> IF c \in kept THEN NewStatus(c \in failed, c \in closed)
                                      ELSE status[c]]
    BY DEF connectionsAdded
  <1>3. k \in Nat /\ registered \in Nat
    BY DEF Conns, ErrorInv
  <1>4. \A c \in kept : registered < c /\ c <= registered + k
    BY <1>3
  <1>5. failed \subseteq kept
    OBVIOUS
  <1> HIDE DEF new, kept, failed
  <1>6. \A c \in kept : /\ NewStatus(c \in failed, c \in closed) \in {"open", "closed", "error"}
                        /\ c \in failed => NewStatus(c \in failed, c \in closed) # "closed"
    BY DEF NewStatus
  <1>7. status' \in [Conns -> {"none", "open", "closed", "error"}]
    BY <1>2, <1>6 DEF ErrorInv
  <1>8. registered' \in Nat /\ \A c \in Conns : registered' < c => c \notin error'
    BY <1>1, <1>3, <1>4, <1>5 DEF Conns, ErrorInv
  <1>9. UpdaterTyped'
    BY <1>1 DEF ErrorInv, UpdaterTyped
  <1>10. RxFound'
    BY <1>1, <1>3 DEF ErrorInv, RxFound, Conns
  <1>11. ErrorShown'
    <2> SUFFICES ASSUME NEW c \in Conns, c \notin stale, c \in error', status'[c] = "closed"
                 PROVE  \/ updater.at = "written" /\ updater.conn = c
                        \/ rx.at = "error" /\ c \in rx.conn
      BY <1>1 DEF ErrorShown
    <2>1. c \notin kept
      <3>1. c \in kept => c \in failed
        BY <1>1, <1>4 DEF ErrorInv
      <3> QED BY <3>1, <1>2, <1>6
    <2>2. c \in error /\ status[c] = "closed"
      BY <2>1, <1>1, <1>2, <1>5
    <2> QED BY <2>2 DEF ErrorInv, ErrorShown
  <1> QED BY <1>7, <1>8, <1>9, <1>10, <1>11 DEF ErrorInv

\* The update thread writes the status, and will test for an error.
LEMMA StatusWritten ==
    ASSUME ErrorInv, NEW c \in Conns, WriteStatus(c)
    PROVE  ErrorInv'
  <1>1. /\ updater = Idle /\ updater' = [at |-> "written", conn |-> c, old |-> status[c]]
        /\ status' = [status EXCEPT ![c] = "closed"] /\ UNCHANGED <<rx, registered, error, stale>>
    BY DEF WriteStatus
  <1>2. updater'.at = "written" /\ updater'.conn = c
    BY <1>1
  <1>3. UpdaterTyped' /\ RxFound'
    BY <1>1, <1>2 DEF ErrorInv, UpdaterTyped, RxFound
  <1>4. /\ status' \in [Conns -> {"none", "open", "closed", "error"}]
        /\ \A d \in Conns : d # c => status'[d] = status[d]
    BY <1>1 DEF ErrorInv
  <1>5. updater.at # "written"
    BY <1>1 DEF Idle
  <1>6. ErrorShown'
    BY <1>1, <1>2, <1>4, <1>5 DEF ErrorInv, ErrorShown
  <1> QED BY <1>1, <1>3, <1>4, <1>6 DEF ErrorInv

\* processUpdate: the error is seen, or was written before the test of the status.
LEMMA StatusCorrected == ErrorInv /\ processUpdate => ErrorInv'
  <1> SUFFICES ASSUME ErrorInv, processUpdate PROVE ErrorInv'
    OBVIOUS
  <1> DEFINE c == updater.conn
  <1>1. updater.at = "written" /\ updater' = Idle /\ UNCHANGED <<rx, registered, error>>
    BY DEF processUpdate
  <1>2. PICK seen \in ErrorSeen(c) :
           /\ status' = IF status[c] = "closed" /\ seen THEN [status EXCEPT ![c] = "error"] ELSE status
           /\ stale' = IF seen # (c \in error) /\ rx.at = "marked" THEN stale \cup {c} ELSE stale
    BY DEF processUpdate
  <1>3. c \in Conns
    BY <1>1 DEF ErrorInv, UpdaterTyped
  <1> HIDE DEF c
  <1>4. UpdaterTyped' /\ RxFound'
    BY <1>1 DEF ErrorInv, UpdaterTyped, RxFound, Idle
  <1>5. /\ status' \in [Conns -> {"none", "open", "closed", "error"}]
        /\ \A d \in Conns : d # c => status'[d] = status[d]
        /\ status[c] # "closed" => status'[c] = status[c]
        /\ seen => status'[c] # "closed"
    BY <1>2, <1>3 DEF ErrorInv
  <1>6. \A d \in stale : d \in stale'
    BY <1>2
  <1>7. ErrorShown'
    <2> SUFFICES ASSUME NEW d \in Conns, d \notin stale', d \in error, status'[d] = "closed"
                 PROVE  rx.at = "error" /\ d \in rx.conn
      BY <1>1 DEF ErrorShown
    <2>1. CASE d = c
      <3>1. ~seen
        BY <1>5, <2>1
      <3>2. seen # (c \in error)
        BY <3>1, <2>1
      <3>3. rx.at # "marked"
        BY <1>2, <3>2, <2>1
      <3>4. rx.at \in {"error", "marked"} /\ c \in rx.conn
        BY <3>2 DEF ErrorSeen
      <3> QED BY <3>3, <3>4, <2>1
    <2>2. CASE d # c
      <3>1. status[d] = "closed" /\ d \notin stale /\ ~(updater.conn = d)
        BY <1>5, <1>6, <2>2 DEF c
      <3> QED BY <3>1 DEF ErrorInv, ErrorShown
    <2> QED BY <2>1, <2>2
  <1> QED BY <1>1, <1>4, <1>5, <1>7 DEF ErrorInv

(* Whatever the order of the messages, of the updates and of the two       *)
(* threads, and whether a connection is registered open or already closed, *)
(* with its error still waiting: a closed connection with a decryption     *)
(* error is shown as failed or will be, with the one exception that the    *)
(* history names.                                                          *)
THEOREM ErrorsShown == MitmInit /\ [][MitmNext]_mitmVars => []ErrorShown
  <1>1. ErrorInv /\ [MitmNext]_mitmVars => ErrorInv'
    <2> SUFFICES ASSUME ErrorInv, [MitmNext]_mitmVars PROVE ErrorInv'
      OBVIOUS
    <2>1. ASSUME UNCHANGED <<rx, updater, registered, error, status, stale>>
          PROVE  ErrorInv'
      BY <2>1 DEF ErrorInv, RxFound, UpdaterTyped, ErrorShown
    <2>2. ASSUME NEW p \in Ports, OpenConn(p)
          PROVE  ErrorInv'
      BY <2>1, <2>2 DEF OpenConn
    <2>3. ASSUME NEW c \in 1 .. Len(opened), NEW err \in BOOLEAN, Emit(c, err)
          PROVE  ErrorInv'
      BY <2>1, <2>3 DEF Emit
    <2>4. ASSUME NEW old \in SUBSET Ports, addPendingMessage(old)
          PROVE  ErrorInv'
      <3>1. rx.at = "missing" /\ rx' = Idle /\ UNCHANGED <<updater, registered, error, status, stale>>
        BY <2>4 DEF addPendingMessage
      <3>2. RxFound'
        BY <3>1 DEF RxFound, Idle
      <3>3. UpdaterTyped'
        BY <3>1 DEF ErrorInv, UpdaterTyped
      <3>4. ErrorShown'
        BY <3>1 DEF ErrorInv, ErrorShown
      <3> QED BY <3>1, <3>2, <3>3, <3>4 DEF ErrorInv
    <2>5. CASE UNCHANGED mitmVars
      BY <2>1, <2>5 DEF mitmVars
    <2> QED BY <2>2, <2>3, <2>4, <2>5, ErrorLookup, ErrorFound, ErrorWritten, ErrorMarked, ErrorAdded,
               StatusWritten, StatusCorrected DEF MitmNext
  <1>2. ErrorInv => ErrorShown
    BY DEF ErrorInv
  <1> QED BY <1>1, <1>2, ErrorStarts, PTL
=============================================================================
