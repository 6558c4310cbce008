-------------------------------- MODULE Zdtun --------------------------------
(***************************************************************************)
(* The connection table of zdtun, the user-space NAT of the VPN capture:   *)
(* the sockets it opens for the connections of the client, their limit,    *)
(* the purge of idle connections, and the mapping that lets the UDP        *)
(* connections of one client port share a local port.                      *)
(* The fate of every system call is a choice of the environment.  The TCP  *)
(* streams are the subject of ZdtunTcp.                                    *)
(***************************************************************************)
EXTENDS Integers, FiniteSets

CONSTANTS
    Tcp, Udp, Icmp,             \* the 5-tuples of each protocol
    Keys,                       \* the keys of the UDP mappings: a client port each
    KeyOf,                      \* udp_mapping_key: the key of each UDP tuple
    LocalPorts,                 \* the ports bind may pick
    MAX_NUM_SOCKETS,            \* the limit on open sockets
    NUM_SOCKETS_AFTER_PURGE,    \* what the forced purge aims at
    Timeout                     \* the idle time of each tuple, in ticks

Tuples == Tcp \cup Udp \cup Icmp

ASSUME ZdtunAssumption ==
    /\ Tcp \cap Udp = {} /\ Tcp \cap Icmp = {} /\ Udp \cap Icmp = {}
    /\ IsFiniteSet(Tuples)
    /\ KeyOf \in [Udp -> Keys]
    /\ LocalPorts \subseteq Nat \ {0}
    /\ MAX_NUM_SOCKETS \in Nat /\ NUM_SOCKETS_AFTER_PURGE \in 0..(MAX_NUM_SOCKETS - 1)
    /\ Timeout \in [Tuples -> Nat \ {0}]

VARIABLES
    conn_table,         \* tun->conn_table
    udp_mappings,       \* tun->udp_mappings; no mapping has 0 uses
    num_open_sockets,   \* tun->stats.num_open_sockets
    unbound             \* history: a UDP connection was closed before it was bound

vars == <<conn_table, udp_mappings, num_open_sockets, unbound>>

-----------------------------------------------------------------------------
(* A connection: its status (every status from CONN_STATUS_CLOSED on is    *)
(* "closed"), whether it has a socket, the local port of a bound UDP       *)
(* socket, and the ticks since its tstamp.                                 *)
Status == {"none", "new", "connecting", "connected", "closed"}
Conn == [status: Status, sock: BOOLEAN, port: LocalPorts \cup {0}, idle: Nat]

NoConn     == [status |-> "none", sock |-> FALSE, port |-> 0, idle |-> 0]
NewConn    == [status |-> "new", sock |-> FALSE, port |-> 0, idle |-> 0]
ClosedConn == [status |-> "closed", sock |-> FALSE, port |-> 0, idle |-> 0]

Mapping == [port: LocalPorts \cup {0}, num_uses: Nat]
NoMapping == [port |-> 0, num_uses |-> 0]

(* The functions of zdtun.c work on the state as a whole: the table c, the *)
(* mappings m, the count n of open sockets and the history u.              *)
Now == [c |-> conn_table, m |-> udp_mappings, n |-> num_open_sockets, u |-> unbound]

Become(s) ==
    /\ conn_table' = s.c
    /\ udp_mappings' = s.m
    /\ num_open_sockets' = s.n
    /\ unbound' = s.u

Active(s, t)  == s.c[t].status \in {"new", "connecting", "connected"}
Socks(s)      == {t \in Tuples : s.c[t].sock}
Bound(s, k)   == {t \in Udp : s.c[t].port # 0 /\ KeyOf[t] = k}

TypeOK ==
    /\ conn_table \in [Tuples -> Conn]
    /\ \A t \in Tuples : conn_table[t].idle <= Timeout[t]
    /\ udp_mappings \in [Keys -> Mapping]
    /\ num_open_sockets \in 0..MAX_NUM_SOCKETS
    /\ unbound \in BOOLEAN

Init ==
    /\ conn_table = [t \in Tuples |-> NoConn]
    /\ udp_mappings = [k \in Keys |-> NoMapping]
    /\ num_open_sockets = 0
    /\ unbound = FALSE

-----------------------------------------------------------------------------
\* close_socket: the count never goes below 0.
Fewer(n, k) == IF n >= k THEN n - k ELSE 0

(* The mapping after the close of k connections of its client port: it is  *)
(* freed when the count reaches 0, and later closes do not find it.        *)
Released(m, k) ==
    IF m.num_uses > k THEN [m EXCEPT !.num_uses = @ - k] ELSE NoMapping

\* Mutant: the socket is closed but still counted.
CloseUncounted(s, gone) ==
    LET open  == {t \in gone : Active(s, t)}
        of(k) == {t \in open \cap Udp : KeyOf[t] = k}
    IN  [c |-> [t \in Tuples |-> IF t \in open THEN ClosedConn ELSE s.c[t]],
         m |-> [k \in Keys |-> Released(s.m[k], Cardinality(of(k)))],
         n |-> s.n,
         u |-> s.u \/ \E t \in open \cap Udp : s.c[t].port = 0]

(* zdtun_conn_close on every connection of gone, in any order: nothing is  *)
(* done to the ones already closed.  Every UDP connection takes a use off  *)
(* the mapping of its client port, whether it was bound or not.            *)
zdtun_conn_close(s, gone) ==
    LET open  == {t \in gone : Active(s, t)}
        of(k) == {t \in open \cap Udp : KeyOf[t] = k}
    IN  [c |-> [t \in Tuples |-> IF t \in open THEN ClosedConn ELSE s.c[t]],
         m |-> [k \in Keys |-> Released(s.m[k], Cardinality(of(k)))],
         n |-> Fewer(s.n, Cardinality(open \cap Socks(s))),
         u |-> s.u \/ \E t \in open \cap Udp : s.c[t].port = 0]

\* destroy_conn on every connection of gone.
destroy_conn(s, gone) ==
    [zdtun_conn_close(s, gone) EXCEPT
        !.c = [t \in Tuples |-> IF t \in gone THEN NoConn ELSE s.c[t]]]

\* The connection t with its fields replaced.
With(s, t, c) == [s EXCEPT !.c = [s.c EXCEPT ![t] = c]]

\* conn->tstamp = zdtun_now(tun).
Seen(s, t) == With(s, t, [s.c[t] EXCEPT !.idle = 0])

-----------------------------------------------------------------------------
(* The forced purge sorts the table by tstamp and destroys the first       *)
(* to_purge entries: the k that have been idle longest.                    *)
Oldest(s, k) ==
    LET all == {t \in Tuples : s.c[t].status # "none"}
    IN  {g \in SUBSET all :
            /\ Cardinality(g) = IF Cardinality(all) < k THEN Cardinality(all) ELSE k
            /\ \A t \in g, o \in all \ g : s.c[t].idle >= s.c[o].idle}

\* Mutant: the forced purge stops one connection early.
PurgeOneLess(s) ==
    IF s.n >= MAX_NUM_SOCKETS
    THEN {destroy_conn(s, g) : g \in Oldest(s, s.n - NUM_SOCKETS_AFTER_PURGE - 1)}
    ELSE {s}

ForcedPurge(s) ==
    IF s.n >= MAX_NUM_SOCKETS
    THEN {destroy_conn(s, g) : g \in Oldest(s, s.n - NUM_SOCKETS_AFTER_PURGE)}
    ELSE {s}

Expired(s) ==
    {t \in Tuples : \/ s.c[t].status = "closed"
                    \/ Active(s, t) /\ s.c[t].idle >= Timeout[t]}

\* zdtun_purge_expired: the possible outcomes.
PurgeExpired(s) == ForcedPurge(destroy_conn(s, Expired(s)))

(* zdtun_lookup: a closed connection is destroyed; a new one is created if *)
(* asked for, after a purge when the sockets are at their limit, unless    *)
(* on_connection_open rejects it.                                          *)
Lookup(t, create) ==
    LET s == IF conn_table[t].status = "closed" THEN destroy_conn(Now, {t}) ELSE Now
    IN  IF s.c[t].status # "none" \/ ~create
        THEN {s}
        ELSE LET roomy == IF s.n >= MAX_NUM_SOCKETS THEN PurgeExpired(s) ELSE {s}
             IN  roomy \cup {With(p, t, NewConn) : p \in roomy}

-----------------------------------------------------------------------------
\* open_socket, when it succeeds.
open_socket(s, t) ==
    IF s.n < MAX_NUM_SOCKETS
    THEN {[With(s, t, [s.c[t] EXCEPT !.sock = TRUE]) EXCEPT !.n = @ + 1]}
    ELSE {}

(* bind_and_connect_udp, when it succeeds: a connection of a client port   *)
(* that has a mapping is bound to its local port; p is the one bind picks. *)
bind_and_connect_udp(s, t, p) ==
    LET k == KeyOf[t]
        m == IF s.m[k].num_uses = 0
             THEN [port |-> p, num_uses |-> 1]
             ELSE [s.m[k] EXCEPT !.num_uses = @ + 1]
    IN  [With(s, t, [s.c[t] EXCEPT !.port = m.port, !.status = "connected"])
            EXCEPT !.m[k] = m]

\* The kernel gives a port that no socket has.
FreePorts(s) == LocalPorts \ {s.c[t].port : t \in Udp}

(* handle_udp_fwd: socket() or a later call may fail, which closes the     *)
(* connection (run_vpn does it when there is no socket); so may send().    *)
UdpForward(s, t) ==
    LET opened == open_socket(s, t)
        bound  == UNION {{bind_and_connect_udp(o, t, p) : p \in FreePorts(s)} : o \in opened}
        sent   == IF s.c[t].status = "new" THEN bound ELSE {s}
    IN  (IF s.c[t].status = "new"
         THEN {zdtun_conn_close(o, {t}) : o \in {s} \cup opened} ELSE {})
        \cup {Seen(b, t) : b \in sent}
        \cup {zdtun_conn_close(b, {t}) : b \in sent}

(* handle_icmp_fwd.  Without a socket the status is set to an error        *)
(* without zdtun_conn_close; the ICMP connection has nothing to release.   *)
IcmpForward(s, t) ==
    LET opened == {With(o, t, [o.c[t] EXCEPT !.status = "connected"]) : o \in open_socket(s, t)}
        sent   == IF s.c[t].status = "new" THEN opened ELSE {s}
    IN  (IF s.c[t].status = "new" THEN {With(s, t, ClosedConn)} ELSE {})
        \cup {Seen(b, t) : b \in sent}
        \cup {zdtun_conn_close(b, {t}) : b \in sent}

(* handle_tcp_fwd: a SYN opens the socket and starts the connect, which    *)
(* may be refused, in progress or done; packets are ignored until it is    *)
(* done.  URG closes the connection in any state; a later packet may close *)
(* it too (RST, FIN of both sides, or a reply that the client cannot get). *)
TcpForward(s, t) ==
    LET opened == UNION {{With(o, t, [o.c[t] EXCEPT !.status = st]) : st \in {"connecting", "connected"}} :
                            o \in open_socket(s, t)}
        sent   == IF s.c[t].status = "new" THEN opened ELSE {s}
    IN  (IF s.c[t].status = "new" THEN {With(s, t, ClosedConn)} ELSE {})
        \cup {Seen(b, t) : b \in sent}
        \cup {zdtun_conn_close(b, {t}) : b \in {s} \cup sent}

zdtun_forward(s, t) ==
    CASE t \in Tcp  -> TcpForward(s, t)
      [] t \in Udp  -> UdpForward(s, t)
      [] t \in Icmp -> IcmpForward(s, t)

-----------------------------------------------------------------------------
(* A packet of the client, in run_vpn.  Only a SYN creates a TCP           *)
(* connection.  The connection is not there, or is rejected;               *)
Creates(t) == IF t \in Tcp THEN BOOLEAN ELSE {TRUE}

SkippedPacket(t) ==
    \E create \in Creates(t) : \E s \in Lookup(t, create) :
        /\ s.c[t].status = "none"
        /\ Become(s)

\* or it is to be blocked, with its connection closed after a spoofed DNS reply;
BlockedPacket(t) ==
    \E create \in Creates(t) : \E s \in Lookup(t, create) :
        /\ Active(s, t)
        /\ \/ Become(s)
           \/ t \in Udp /\ s.c[t].status = "new" /\ Become(zdtun_conn_close(s, {t}))

\* or it is forwarded.
ForwardedPacket(t) ==
    \E create \in Creates(t) : \E s \in Lookup(t, create) :
        /\ Active(s, t)
        /\ \E f \in zdtun_forward(s, t) : Become(f)

(* zdtun_handle_fd on the socket of t: data arrives and the client gets    *)
(* its packet (a socket that is still connecting may be readable too),     *)
SocketReply(t) ==
    /\ conn_table[t].sock
    /\ Become(Seen(Now, t))

\* or the connect has completed,
ConnectDone(t) ==
    /\ conn_table[t].status = "connecting"
    /\ conn_table[t].sock
    /\ Become(Seen(With(Now, t, [conn_table[t] EXCEPT !.status = "connected"]), t))

\* or an error or the last DNS reply ends the connection,
SocketClose(t) ==
    /\ conn_table[t].sock
    /\ Become(zdtun_conn_close(Now, {t}))

(* or the server closes its side: the socket is closed at once, the        *)
(* connection goes on until the client closes too.                         *)
ServerClose(t) ==
    /\ t \in Tcp
    /\ conn_table[t].sock
    /\ Become([With(Now, t, [conn_table[t] EXCEPT !.sock = FALSE, !.idle = 0])
                  EXCEPT !.n = Fewer(@, 1)])

\* The periodic purge of run_vpn.
zdtun_purge_expired == \E s \in PurgeExpired(Now) : Become(s)

\* zdtun_finalize, at the end of run_vpn.
zdtun_finalize == Become(destroy_conn(Now, Tuples))

\* Time passes; an idle time beyond the timeout is not told apart from it.
Tick ==
    /\ conn_table' = [t \in Tuples |->
                        IF Active(Now, t) /\ conn_table[t].idle < Timeout[t]
                        THEN [conn_table[t] EXCEPT !.idle = @ + 1] ELSE conn_table[t]]
    /\ UNCHANGED <<udp_mappings, num_open_sockets, unbound>>

Next ==
    \/ \E t \in Tuples :
          \/ SkippedPacket(t)
          \/ BlockedPacket(t)
          \/ ForwardedPacket(t)
          \/ SocketReply(t)
          \/ ConnectDone(t)
          \/ SocketClose(t)
          \/ ServerClose(t)
    \/ zdtun_purge_expired
    \/ zdtun_finalize
    \/ Tick

Spec == Init /\ [][Next]_vars

-----------------------------------------------------------------------------
(* num_open_sockets is the number of the connections that have a socket:   *)
(* no path opens one without counting it, closes one twice or forgets one. *)
SocketsCounted == num_open_sockets = Cardinality(Socks(Now))

(* A connection has a socket only while it is open, and a UDP connection   *)
(* has one exactly as long as it is bound: none leaks with its entry.      *)
SocketMatchesStatus ==
    \A t \in Tuples :
        /\ conn_table[t].sock => conn_table[t].status \in {"connecting", "connected"}
        /\ t \in Udp => (conn_table[t].sock <=> conn_table[t].port # 0)

(* The sockets are counted and go with their connections.                  *)
SocketsAccounted == TypeOK /\ SocketsCounted /\ SocketMatchesStatus

(* No mapping is left behind: its uses never exceed the bound connections  *)
(* of its client port, so it goes away with the last of them at the latest.*)
NoStaleMapping ==
    \A k \in Keys : udp_mappings[k].num_uses <= Cardinality(Bound(Now, k))

(* The connections of one client port have the same local port, the one of *)
(* the mapping, as long as the client port has an open connection.         *)
LocalPortShared ==
    \A t \in Udp : conn_table[t].port # 0 =>
        /\ udp_mappings[KeyOf[t]].num_uses > 0
        /\ udp_mappings[KeyOf[t]].port = conn_table[t].port

(* The same, when every UDP connection was bound before it was closed; the *)
(* uses of a mapping are then exactly the bound connections.               *)
LocalPortSharedUnlessUnbound ==
    unbound \/ (/\ LocalPortShared
                /\ \A k \in Keys : udp_mappings[k].num_uses = Cardinality(Bound(Now, k)))

(* The UDP mappings go with the connections that use them, neither later   *)
(* nor, unless one was closed unbound, earlier.                            *)
MappingsAccounted == NoStaleMapping /\ LocalPortSharedUnlessUnbound

(* What the connections of zdtun hold: sockets and UDP mappings.           *)
ResourcesAccounted == SocketsAccounted /\ MappingsAccounted

(* A purge at the limit makes room when every connection of the table has  *)
(* a socket: it brings the open sockets down to NUM_SOCKETS_AFTER_PURGE,   *)
(* or, when a socket had expired, at least below the limit.                *)
PurgeMakesRoom ==
    [][/\ zdtun_purge_expired
       /\ num_open_sockets >= MAX_NUM_SOCKETS
       /\ \A t \in Tuples : Active(Now, t) => conn_table[t].sock
       => \/ num_open_sockets' <= NUM_SOCKETS_AFTER_PURGE
          \/ /\ num_open_sockets' < MAX_NUM_SOCKETS
             /\ \E t \in Expired(Now) : conn_table[t].sock]_vars
=============================================================================
