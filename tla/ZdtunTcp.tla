------------------------------- MODULE ZdtunTcp -------------------------------
(***************************************************************************)
(* One TCP connection through zdtun.  zdtun ends the TCP connection of the *)
(* client (it answers the packets of the tun device itself) and relays the *)
(* bytes to a socket of its own, connected to the server or to a SOCKS5    *)
(* proxy.  It keeps no copy of what it sends: the bytes reach both ends    *)
(* only if the sequence numbers, the window and the queue are right.       *)
(*                                                                         *)
(* The client is a TCP of the device and the server is a socket of the     *)
(* kernel; both are external.  A packet written to the tun device reaches  *)
(* the TCP of the client at once; the packets of the client wait in the    *)
(* device until run_vpn reads them.  Sequence numbers are relative to the  *)
(* initial ones: the SYN is 0 and the first byte 1.  The model ends when   *)
(* zdtun closes the connection: later packets are not of this connection.  *)
(***************************************************************************)
EXTENDS Integers, Sequences

CONSTANTS
    ProxyModes,     \* whether the connection may be, or may not be, proxied
    Auth,           \* tun->socks5_user is set
    Upload,         \* bytes the client sends
    Download,       \* bytes the server sends
    Window,         \* receive buffer of the client
    Scale,          \* 2^window_scale
    MSS,            \* conn->tcp.mss
    WindowMod,      \* window_size is a uint32_t: modulo 2^32 in the code
    MaxTun          \* packets that wait in the tun device

ASSUME TcpAssumption ==
    /\ ProxyModes \subseteq BOOLEAN /\ Auth \in BOOLEAN
    /\ {Upload, Download} \subseteq Nat
    /\ {Window, Scale, MSS, MaxTun} \subseteq Nat \ {0}
    /\ WindowMod \in Nat /\ WindowMod > Window * Scale

VARIABLES
    z,              \* the zdtun_conn_t
    client,         \* the TCP of the client
    server,         \* the socket of zdtun, as the kernel and the server see it
    tun,            \* the packets of the client in the tun device
    seen            \* history: which of the events below happened

tcpVars == <<z, client, server, tun, seen>>

Events == {"first_ack",         \* an ACK of the client has set the window
           "overrun",           \* before that, the client was sent more than its SYN allows
           "before_syn_ack",    \* data or a FIN was sent to it before the SYN+ACK
           "zero_window",       \* the socket was read with a window of 0
           "fin_with_data",     \* a FIN came with data, or before queued data was sent
           "fin_repeated",      \* a repeated FIN was taken for a new one
           "probe_with_data"}   \* data came where a keepalive is expected

-----------------------------------------------------------------------------
(* The stream of the server: with a proxy it starts with the replies of    *)
(* the handshake, each of them two units long so that recv may cut it.     *)
Choice == <<"choice", "choice">>
Granted == <<"granted", "granted">>
Bnd == <<"bnd", "bnd">>
AuthOk == <<"auth", "auth">>
Data == [i \in 1..Download |-> i]
Handshake ==
    IF ~z.proxied THEN <<>>
    ELSE Choice \o (IF Auth THEN AuthOk ELSE <<>>) \o Granted \o Bnd
Stream == Handshake \o Data

\* How much of its stream the peer may send: a proxy answers, and does not speak first.
Sendable ==
    CASE z.socks5_status = "none"       -> IF z.proxied THEN 0 ELSE Len(Stream)
      [] z.socks5_status = "hello"      -> Len(Choice)
      [] z.socks5_status = "auth"       -> Len(Choice) + Len(AuthOk)
      [] z.socks5_status \in {"connecting", "skip_bnd", "established"} -> Len(Stream)

Least(a, b) == IF a < b THEN a ELSE b

StartsWith(chunk, s) == Len(chunk) >= Len(s) /\ SubSeq(chunk, 1, Len(s)) = s

\* The payload bytes of the stream of the client from sequence number a on.
Bytes(a, n) == [i \in 1..n |-> a + i - 1]

NoConn == [status |-> "none", sock |-> FALSE, rd |-> FALSE, wr |-> FALSE, tx_queue |-> <<>>,
           client_seq |-> 0, zdtun_seq |-> 0, window_size |-> 0, fin_ack_sent |-> FALSE,
           proxied |-> FALSE, client_closed |-> FALSE, socks5_status |-> "none", socks5_skip |-> 0]

TcpInit ==
    /\ z = NoConn
    /\ client = [st |-> "closed", snd_nxt |-> 0, snd_una |-> 0, rcv_nxt |-> 0,
                 read |-> 0, got |-> <<>>, fin |-> FALSE]
    /\ server = [up |-> FALSE, sent |-> 0, taken |-> 0, fin |-> FALSE, shut |-> FALSE, out |-> <<>>]
    /\ tun = <<>>
    /\ seen = {}

TcpTypeOK ==
    /\ z.status \in {"none", "connecting", "connected", "closed"}
    /\ z.socks5_status \in {"none", "hello", "auth", "connecting", "skip_bnd", "established"}
    /\ z.client_seq \in Nat /\ z.zdtun_seq \in 0..(Download + 2)
    /\ z.window_size \in 0..(WindowMod - 1)
    /\ z.sock => z.status \in {"connecting", "connected"}
    /\ client.st \in {"closed", "syn_sent", "open", "fin_sent", "reset"}
    /\ client.snd_nxt \in 0..(Upload + 2)
    /\ server.taken <= server.sent /\ server.sent <= Len(Stream)
    /\ Len(tun) <= MaxTun
    /\ seen \subseteq Events

-----------------------------------------------------------------------------
(* The TCP of the client (external).                                       *)
Buffered == client.rcv_nxt - (IF client.fin THEN 2 ELSE 1) - client.read
FreeWindow == Window - (IF client.rcv_nxt = 0 THEN 0 ELSE Buffered)

Packet(flag, seq, len) ==
    [flag |-> flag, seq |-> seq, len |-> len, ack |-> client.rcv_nxt, win |-> FreeWindow]

\* What a packet of zdtun does to the TCP of the client.
Received(c, flag, seq, ack, data) ==
    LET una == IF ack > c.snd_una /\ ack <= c.snd_nxt THEN ack ELSE c.snd_una
        n   == Len(data)
    IN  IF c.st \in {"closed", "reset"} THEN c
        ELSE IF flag = "rst" THEN [c EXCEPT !.st = "reset"]
        ELSE IF c.st = "syn_sent"
        THEN IF flag = "syn_ack" THEN [c EXCEPT !.st = "open", !.rcv_nxt = 1, !.snd_una = una] ELSE c
        ELSE IF seq # c.rcv_nxt \/ n > Window - (c.rcv_nxt - 1 - c.read) \/ flag = "syn_ack"
        THEN [c EXCEPT !.snd_una = una]
        ELSE [c EXCEPT !.snd_una = una, !.got = @ \o data,
                       !.rcv_nxt = @ + n + (IF flag = "fin" THEN 1 ELSE 0),
                       !.fin = @ \/ flag = "fin"]

ClientSends(p, next) ==
    /\ z.status # "closed"
    /\ Len(tun) < MaxTun
    /\ tun' = Append(tun, p)
    /\ client' = next
    /\ UNCHANGED <<z, server, seen>>

ClientSyn ==
    /\ client.st = "closed"
    /\ ClientSends(Packet("syn", 0, 0), [client EXCEPT !.st = "syn_sent", !.snd_nxt = 1])

\* New data, at most two bytes in a segment.
ClientData(n) ==
    /\ client.st = "open"
    /\ client.snd_nxt + n <= Upload + 1
    /\ ClientSends(Packet("ack", client.snd_nxt, n), [client EXCEPT !.snd_nxt = @ + n])

\* A retransmission: of the SYN, or of everything that is not acknowledged.
ClientRetransmit ==
    \/ /\ client.st = "syn_sent"
       /\ ClientSends(Packet("syn", 0, 0), client)
    \/ /\ client.st \in {"open", "fin_sent"}
       /\ client.snd_una < client.snd_nxt
       /\ ClientSends(
             IF client.st = "open"
             THEN Packet("ack", client.snd_una, client.snd_nxt - client.snd_una)
             ELSE Packet("fin", client.snd_una, client.snd_nxt - client.snd_una - 1), client)

\* An ACK of what was received, with the window of the moment.
ClientAck ==
    /\ client.st \in {"open", "fin_sent"}
    /\ ClientSends(Packet("ack", client.snd_nxt, 0), client)

\* A keepalive or window probe.
ClientProbe ==
    /\ client.st = "open"
    /\ ClientSends(Packet("ack", client.snd_nxt - 1, 0), client)

\* The FIN, alone or with the last n bytes.
ClientFin(n) ==
    /\ client.st = "open"
    /\ client.snd_nxt + n <= Upload + 1
    /\ ClientSends(Packet("fin", client.snd_nxt, n), [client EXCEPT !.st = "fin_sent", !.snd_nxt = @ + n + 1])

\* The application aborts.
ClientReset ==
    /\ client.st \in {"open", "fin_sent"}
    /\ ClientSends(Packet("rst", client.snd_nxt, 0), [client EXCEPT !.st = "reset"])

\* The application reads what its TCP has received.
ClientRead ==
    /\ z.status # "closed"
    /\ client.rcv_nxt > 0
    /\ Buffered > 0
    /\ client' = [client EXCEPT !.read = @ + Buffered]
    /\ UNCHANGED <<z, server, tun, seen>>

-----------------------------------------------------------------------------
(* The server or the proxy, and the kernel (external).                     *)
ServerUp ==
    /\ z.status = "connecting" /\ z.sock
    /\ ~server.up
    /\ server' = [server EXCEPT !.up = TRUE]
    /\ UNCHANGED <<z, client, tun, seen>>

ServerSend ==
    /\ server.up /\ z.sock /\ ~server.fin
    /\ server.sent < Sendable
    /\ server' = [server EXCEPT !.sent = @ + 1]
    /\ UNCHANGED <<z, client, tun, seen>>

ServerFin ==
    /\ server.up /\ z.sock /\ ~server.fin
    /\ server' = [server EXCEPT !.fin = TRUE]
    /\ UNCHANGED <<z, client, tun, seen>>

-----------------------------------------------------------------------------
(* zdtun.  Its functions work on the connection, the two peers and the     *)
(* history together.                                                       *)
Now == [z |-> z, client |-> client, server |-> server, seen |-> seen]

Become(s) ==
    /\ z' = s.z
    /\ client' = s.client
    /\ server' = s.server
    /\ seen' = s.seen

Set(s, c) == [s EXCEPT !.z = c]
Note(s, e, cond) == [s EXCEPT !.seen = IF cond THEN @ \cup {e} ELSE @]

\* The end of zdtun_conn_close: the socket, the queue and the status.
Closed(s) ==
    Set(s, [s.z EXCEPT !.status = "closed", !.sock = FALSE, !.rd = FALSE, !.wr = FALSE,
                       !.tx_queue = <<>>])

(* send_to_client: the packet carries zdtun_seq and client_seq.  When the  *)
(* client cannot get it the connection is closed, without a RST.           *)
send_to_client(s, flag, data, ok) ==
    IF ok
    THEN [s EXCEPT !.client = Received(s.client, flag, s.z.zdtun_seq, s.z.client_seq, data)]
    ELSE Closed(Set(s, [s.z EXCEPT !.fin_ack_sent = TRUE]))

\* zdtun_conn_close: a RST is sent unless the client has had a FIN.
zdtun_conn_close(s, ok) ==
    IF s.z.status = "closed" THEN s
    ELSE Closed(IF s.z.fin_ack_sent THEN s ELSE send_to_client(s, "rst", <<>>, ok))

\* send_to_client and, if the client got the packet, n more sequence numbers.
SendSeq(s, flag, data, n, ok) ==
    LET t == send_to_client(s, flag, data, ok)
    IN  IF ok THEN Set(t, [t.z EXCEPT !.zdtun_seq = @ + n]) ELSE t

send_syn_ack(s, ok) == SendSeq(s, "syn_ack", <<>>, 1, ok)

(* tcp_socket_syn: the socket is connected.  With a proxy the handshake    *)
(* starts with socks5_connect, and the SYN+ACK waits for its end.          *)
tcp_socket_syn(s, ok) ==
    LET t == Set(s, [s.z EXCEPT !.status = "connected", !.wr = FALSE])
    IN  IF s.z.proxied
        THEN Set(t, [t.z EXCEPT !.socks5_status = "hello"])
        ELSE send_syn_ack(t, ok)

SocksInProgress(c) == c.proxied /\ c.socks5_status # "established"

-----------------------------------------------------------------------------
(* handle_tcp_fwd: a packet of the client.  A SYN opens the socket; the    *)
(* window of the SYN is taken as a scaled one.                             *)
Opened(p, proxied) ==
    [z EXCEPT !.status = "connecting", !.sock = TRUE, !.rd = TRUE, !.wr = TRUE,
              !.client_seq = p.seq + 1, !.window_size = p.win * Scale, !.proxied = proxied]

TunSyn(p, proxied, ok) ==
    /\ p.flag = "syn" /\ z.status = "none"
    /\ \/ Become(Set(Now, [z EXCEPT !.status = "closed"]))                 \* no socket
       \/ Become(zdtun_conn_close(Set(Now, Opened(p, proxied)), ok))       \* refused
       \/ Become(Set(Now, Opened(p, proxied)))                             \* in progress
       \/ Become([tcp_socket_syn(Set(Now, Opened(p, proxied)), ok)         \* connected
                    EXCEPT !.server.up = TRUE])

IsKeepAlive(p) == p.flag # "syn" /\ p.seq + 1 = z.client_seq

\* Mutant: the queued bytes are not counted.
InSequenceOfAcked(p) == IsKeepAlive(p) \/ p.seq = z.client_seq

\* The next byte is the one after the queued ones.
InSequence(p) == IsKeepAlive(p) \/ p.seq = z.client_seq + Len(z.tx_queue)

\* Packets that are ignored: while connecting, or out of sequence.
TunIgnored(p) ==
    /\ \/ z.status = "connecting"
       \/ z.status = "connected" /\ ~InSequence(p)
       \/ z.status = "none" /\ p.flag # "syn"
    /\ Become(Now)

Accepted(p) == z.status = "connected" /\ InSequence(p)

\* A packet during the SOCKS5 handshake, or a RST, closes the connection.
TunClose(p, ok) ==
    /\ Accepted(p)
    /\ SocksInProgress(z) \/ p.flag = "rst"
    /\ Become(zdtun_conn_close(Now, ok))

(* A FIN: the socket is half closed, the FIN and the bytes with it are     *)
(* acknowledged, and the connection ends if the server has closed.         *)
TunFin(p, ok) ==
    LET c == [z EXCEPT !.client_seq = @ + p.len + 1, !.client_closed = TRUE]
        d == Note(Set(Now, c), "fin_with_data", z.sock /\ (p.len > 0 \/ z.tx_queue # <<>>))
        s == [Note(d, "fin_repeated", IsKeepAlive(p)) EXCEPT !.server.shut = @ \/ z.sock]
        a == send_to_client(s, "ack", <<>>, ok)
    IN  /\ Accepted(p) /\ ~SocksInProgress(z)
        /\ p.flag = "fin"
        /\ Become(IF z.sock THEN a ELSE zdtun_conn_close(a, TRUE))

\* Mutant: the socket is not made selectable again.
WindowOnly(c, p) ==
    [c EXCEPT !.window_size = (p.win - (c.zdtun_seq - p.ack)) % WindowMod]

(* An ACK sets the window to what the client can take beyond the bytes in  *)
(* flight, and makes the socket selectable again.                          *)
WindowUpdated(c, p) ==
    LET w == (p.win - (c.zdtun_seq - p.ack)) % WindowMod
    IN  [c EXCEPT !.window_size = w, !.rd = @ \/ w > 0]

\* enqueue_tcp_data: the ACK is deferred until the data is sent.
enqueue_tcp_data(c, p) ==
    [c EXCEPT !.tx_queue = @ \o Bytes(p.seq, p.len), !.wr = TRUE]

\* Data for a server that has closed is acknowledged and dropped.
AckDropped(s, p, ok) ==
    send_to_client(Set(s, [s.z EXCEPT !.client_seq = @ + p.len]), "ack", <<>>, ok)

\* Any other packet: a keepalive is answered, an ACK updates the window, data is queued.
TunAck(p, ok) ==
    LET s == IF ~z.sock THEN Now
             ELSE IF IsKeepAlive(p)
             THEN Note(send_to_client(Now, "ack", <<>>, ok), "probe_with_data", p.len > 0)
             ELSE Note(Set(Now, WindowUpdated(z, p)), "first_ack", TRUE)
    IN  /\ Accepted(p) /\ ~SocksInProgress(z)
        /\ p.flag = "ack"
        /\ Become(CASE p.len = 0 \/ s.z.status = "closed" -> s
                    [] p.len > 0 /\ s.z.status # "closed" /\ s.z.sock -> Set(s, enqueue_tcp_data(s.z, p))
                    [] OTHER -> AckDropped(s, p, ok))

\* run_vpn reads a packet of the tun device.
TunPacket ==
    /\ z.status # "closed"
    /\ tun # <<>>
    /\ tun' = Tail(tun)
    /\ LET p == Head(tun)
       IN  \/ TunIgnored(p)
           \/ \E ok \in BOOLEAN :
                \/ \E proxied \in ProxyModes : TunSyn(p, proxied, ok)
                \/ TunClose(p, ok)
                \/ TunFin(p, ok)
                \/ TunAck(p, ok)

-----------------------------------------------------------------------------
(* handle_socks5_reply: a reply of the proxy.  A choice must come alone; a *)
(* granted request is followed by an address, whose bytes are skipped;     *)
(* anything after the address in the same read is an error.                *)
SkipBnd(s, chunk, skip, ok) ==
    LET c == [s.z EXCEPT !.socks5_skip = skip - Len(chunk),
                         !.socks5_status = IF skip = Len(chunk) THEN "established" ELSE "skip_bnd"]
    IN  IF Len(chunk) > skip THEN zdtun_conn_close(s, ok)
        ELSE IF skip = Len(chunk) THEN send_syn_ack(Set(s, c), ok)
        ELSE Set(s, c)

handle_socks5_reply(s, chunk, ok) ==
    CASE s.z.socks5_status = "hello" /\ chunk = Choice ->
            Set(s, [s.z EXCEPT !.socks5_status = IF Auth THEN "auth" ELSE "connecting"])
      [] s.z.socks5_status = "auth" /\ StartsWith(chunk, AuthOk) ->
            Set(s, [s.z EXCEPT !.socks5_status = "connecting"])
      [] s.z.socks5_status = "connecting" /\ StartsWith(chunk, Granted) ->
            SkipBnd(s, SubSeq(chunk, Len(Granted) + 1, Len(chunk)), Len(Bnd), ok)
      [] s.z.socks5_status = "skip_bnd" ->
            SkipBnd(s, chunk, s.z.socks5_skip, ok)
      [] OTHER -> zdtun_conn_close(s, ok)

-----------------------------------------------------------------------------
(* handle_tcp_reply.  recv returns 0 when the server has closed and all    *)
(* its bytes were read, but also when it is asked for 0 bytes.             *)
ToRecv == Least(z.window_size, MSS)
Available == server.sent - server.taken
Readable == z.sock /\ z.rd /\ server.up /\ (Available > 0 \/ server.fin)

(* The server has closed: the client gets a FIN and the socket is closed;  *)
(* the connection ends if the client has closed too.                       *)
Eof(ok) ==
    LET s == Note(Now, "before_syn_ack", z.zdtun_seq = 0)
        f == IF z.fin_ack_sent THEN s ELSE SendSeq(s, "fin", <<>>, 1, ok)
        c == Set(f, [f.z EXCEPT !.fin_ack_sent = TRUE, !.sock = FALSE, !.rd = FALSE, !.wr = FALSE])
    IN  Become(Note(IF z.client_closed THEN zdtun_conn_close(c, TRUE) ELSE c,
                    "zero_window", ToRecv = 0))

\* Mutant: the window is not reduced.
ReplyKeepsWindow(chunk, ok) ==
    LET s == Note(Now, "overrun", "first_ack" \notin seen /\ z.zdtun_seq + Len(chunk) > Window + 1)
        t == SendSeq(Note(s, "before_syn_ack", z.zdtun_seq = 0), "ack", chunk, Len(chunk), ok)
    IN  Become([t EXCEPT !.server.taken = @ + Len(chunk)])

(* Data of the server: sent to the client at once; the socket is not read  *)
(* any more when the window is used up.                                    *)
Reply(chunk, ok) ==
    LET n == Len(chunk)
        s == Note(Now, "overrun", "first_ack" \notin seen /\ z.zdtun_seq + Len(chunk) > Window + 1)
        t == SendSeq(Note(s, "before_syn_ack", z.zdtun_seq = 0), "ack", chunk, n, ok)
        w == z.window_size - n
    IN  Become([(IF ok THEN Set(t, [t.z EXCEPT !.window_size = w, !.rd = w > 0]) ELSE t)
                  EXCEPT !.server.taken = @ + n])

handle_tcp_reply ==
    LET n     == Least(ToRecv, Available)
        chunk == SubSeq(Stream, server.taken + 1, server.taken + n)
    IN  /\ Readable
        /\ \E ok \in BOOLEAN :
              \/ n = 0 /\ Eof(ok)
              \/ /\ n > 0 /\ SocksInProgress(z)
                 /\ Become([handle_socks5_reply(Now, chunk, ok) EXCEPT !.server.taken = @ + n])
              \/ n > 0 /\ ~SocksInProgress(z) /\ Reply(chunk, ok)
        /\ UNCHANGED tun

(* handle_tcp_connect_async: the connect has ended.                        *)
handle_tcp_connect_async ==
    /\ z.sock /\ z.wr /\ z.tx_queue = <<>> /\ server.up
    /\ \E ok \in BOOLEAN : Become(tcp_socket_syn(Now, ok))
    /\ UNCHANGED tun

\* n bytes of the queue were sent.
Flushed(n) ==
    [z EXCEPT !.client_seq = @ + n, !.tx_queue = SubSeq(@, n + 1, Len(@)), !.wr = n < Len(z.tx_queue)]

(* handle_queued_tcp_data: the socket takes some bytes of the queue and    *)
(* they are acknowledged; send fails once the socket is half closed.       *)
handle_queued_tcp_data ==
    /\ z.sock /\ z.wr /\ z.tx_queue # <<>>
    /\ \E ok \in BOOLEAN :
          IF server.shut THEN Become(zdtun_conn_close(Now, ok))
          ELSE \E n \in 1..Len(z.tx_queue) :
                  Become([send_to_client(Set(Now, Flushed(n)), "ack", <<>>, ok)
                             EXCEPT !.server.out = @ \o SubSeq(z.tx_queue, 1, n)])
    /\ UNCHANGED tun

(* close_with_socket_error: the connect fails, the server or the proxy     *)
(* resets the connection, the proxy refuses it, or a send fails; or        *)
(* zdtun_purge_expired destroys the connection, even half closed.          *)
SocketError ==
    /\ z.status \in {"connecting", "connected"}
    /\ \E ok \in BOOLEAN : Become(zdtun_conn_close(Now, ok))
    /\ UNCHANGED tun

Client ==
    \/ ClientSyn
    \/ \E n \in 1..2 : ClientData(n)
    \/ ClientRetransmit
    \/ ClientAck
    \/ ClientProbe
    \/ \E n \in 0..1 : ClientFin(n)
    \/ ClientReset
    \/ ClientRead

Server == ServerUp \/ ServerSend \/ ServerFin

TcpNext ==
    \/ Client
    \/ Server
    \/ TunPacket
    \/ handle_tcp_reply
    \/ handle_tcp_connect_async
    \/ handle_queued_tcp_data
    \/ SocketError

(* run_vpn serves the tun device and the sockets for ever; the TCP of the  *)
(* client acknowledges and retransmits, its application reads.             *)
TcpFairness ==
    /\ WF_tcpVars(TunPacket)
    /\ WF_tcpVars(handle_tcp_reply)
    /\ WF_tcpVars(handle_tcp_connect_async)
    /\ WF_tcpVars(handle_queued_tcp_data)
    /\ SF_tcpVars(ClientAck)
    /\ SF_tcpVars(ClientRetransmit)
    /\ WF_tcpVars(ClientRead)
    /\ WF_tcpVars(ServerUp)

TcpSpec == TcpInit /\ [][TcpNext]_tcpVars /\ TcpFairness

-----------------------------------------------------------------------------
Up(n) == [i \in 1..n |-> i]

(* While the server is connected, what zdtun has acknowledged to the       *)
(* client is what it has sent to the server.                               *)
AckedIsSent ==
    z.sock /\ z.status = "connected" =>
        z.client_seq = 1 + Len(server.out) + (IF z.client_closed THEN 1 ELSE 0)

(* The same, unless a FIN came with data or was repeated, or data came in  *)
(* place of a keepalive.                                                   *)
AckedIsSentUnlessOdd ==
    seen \cap {"fin_with_data", "fin_repeated", "probe_with_data"} # {} \/ AckedIsSent

(* The server gets the bytes of the client in order, without gaps and      *)
(* without duplicates, unless data came in place of a keepalive; and what  *)
(* is acknowledged is sent.                                                *)
UploadInOrder ==
    /\ TcpTypeOK
    /\ "probe_with_data" \in seen \/ server.out = Up(Len(server.out))
    /\ AckedIsSentUnlessOdd

(* The client gets what was read from the server, all of it and in order,  *)
(* unless it was sent before the SYN+ACK or overran the window.            *)
BytesInOrder ==
    \/ seen \cap {"overrun", "before_syn_ack"} # {} \/ z.status # "connected"
    \/ client.st \in {"reset", "closed"}
    \/ client.got = Up(server.taken - Len(Handshake))

(* From the first ACK of the client on, zdtun never sends more than the    *)
(* client can buffer, unless it did so before or data came before the      *)
(* SYN+ACK.                                                                *)
WindowRespected ==
    \/ "first_ack" \notin seen \/ seen \cap {"overrun", "before_syn_ack"} # {}
    \/ client.st = "reset"
    \/ z.window_size <= FreeWindow

(* The client sees the end of the stream only after the server has closed  *)
(* and all its bytes were delivered, unless the window was 0 or data was   *)
(* lost at the start.                                                      *)
FinAfterServer ==
    \/ ~client.fin \/ seen \cap {"zero_window", "overrun", "before_syn_ack"} # {}
    \/ server.fin /\ client.got = Up(server.sent - Len(Handshake))

(* The client gets the stream of the server: the bytes in order and within *)
(* its window, then the end.                                               *)
DownloadInOrder == BytesInOrder /\ FinAfterServer /\ WindowRespected

(* The sequence numbers of zdtun and the client have drifted apart: data   *)
(* was sent before the SYN+ACK or overran the window, or a repeated FIN or *)
(* segment was taken for a new one; later ACKs are ignored or misread.     *)
Drifted == seen \cap {"overrun", "before_syn_ack", "fin_repeated", "probe_with_data"} # {}

(* Every byte of the server reaches the client, or the connection ends:    *)
(* the socket that a full window disabled is read again, unless the        *)
(* sequence numbers have drifted.                                          *)
DownloadCompletes ==
    \A i \in 1..Download :
        (z.sock /\ server.sent >= Len(Handshake) + i)
            ~> (Len(client.got) >= i \/ ~z.sock \/ client.st = "reset" \/ Drifted)

(* When both sides have closed the connection ends, unless the sequence    *)
(* numbers have drifted or the client gives up.                            *)
BothClosedEnds ==
    (client.st = "fin_sent" /\ server.fin)
        ~> (z.status = "closed" \/ client.st = "reset" \/ Drifted)

(* Neither the transfer nor the close of a connection hangs.               *)
TransfersEnd == DownloadCompletes /\ BothClosedEnds
=============================================================================
