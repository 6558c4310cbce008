--------------------------- MODULE TcpStepProofs ----------------------------
(***************************************************************************)
(* The relay of one TCP connection: every step of the client, of the       *)
(* server, of the network and of zdtun keeps RelayInv, for every window,   *)
(* scale, size of a packet and length of the streams.  Hence UploadInOrder *)
(* and DownloadInOrder.                                                    *)
(***************************************************************************)
EXTENDS TcpProofs

\* Each leaf is tried with Zenon, then with SMT.
USE ZenonT(5), SMTT(15)

-----------------------------------------------------------------------------
(* The steps of the socket.                                                *)

\* A state that zdtun computed and that keeps the invariant is the next one.
LEMMA BecomesInv ==
    ASSUME NEW s, NEW q, RelayInv(s, q), Become(s)
    PROVE  RelayInv(Now', q)
  <1>1. s \in RelayStates
    BY DEF RelayInv
  <1> QED BY <1>1, Becomes

\* handle_tcp_reply keeps the invariant.
LEMMA ReplyStep ==
    ASSUME RelayInv(Now, tun), handle_tcp_reply
    PROVE  RelayInv(Now', tun')
  <1> DEFINE n == Least(ToRecv, Available)
             chunk == SubSeq(Stream, server.taken + 1, server.taken + n)
  <1>1. Now.z = z /\ Now.client = client /\ Now.server = server /\ Now.seen = seen
    BY DEF Now
  <1>2. /\ z.window_size \in Nat /\ server.taken \in Nat /\ server.sent \in Nat
        /\ server.taken <= server.sent /\ server.sent <= HsLen(z) + Download
    <2>1. z \in RelayConns /\ server \in RelayServers /\ ControlInv(Now)
      BY <1>1, StateParts DEF RelayInv
    <2>2. server.taken <= server.sent /\ server.sent <= HsLen(z) + Download
      BY <2>1, <1>1, Zenon DEF ControlInv
    <2>3. z.window_size \in 0..(WindowMod - 1) /\ server.taken \in Nat /\ server.sent \in Nat
      BY <2>1, Zenon DEF RelayConns, RelayServers
    <2> QED BY <2>2, <2>3, RelayConstants
  <1>3. MSS \in Nat /\ 0 < MSS
    BY RelayConstants
  <1>4. /\ ToRecv \in Nat /\ Available \in Nat /\ n \in Nat /\ n <= z.window_size
        /\ server.taken + n <= server.sent /\ (n = 0 => ToRecv = 0 \/ server.taken = server.sent)
    BY <1>2, <1>3 DEF ToRecv, Available, Least
  <1>5. /\ z.sock /\ (server.taken < server.sent \/ server.fin) /\ tun' = tun
    BY <1>2 DEF handle_tcp_reply, Readable, Available
  <1>6. PICK ok \in BOOLEAN :
              \/ n = 0 /\ Eof(ok)
              \/ /\ n > 0 /\ SocksInProgress(z)
                 /\ Become([handle_socks5_reply(Now, chunk, ok) EXCEPT !.server.taken = @ + n])
              \/ n > 0 /\ ~SocksInProgress(z) /\ Reply(chunk, ok)
    BY DEF handle_tcp_reply
  <1> HIDE DEF n
  <1>7. CASE n = 0 /\ Eof(ok)
    <2>1. ToRecv = 0 \/ (server.fin /\ server.taken = server.sent)
      BY <1>2, <1>4, <1>5, <1>7
    <2> QED BY <2>1, <1>5, <1>7, EofKeeps
  <1>8. n > 0 => /\ chunk \in Seq(Units) /\ Len(chunk) = n
                 /\ HsLen(z) <= server.taken =>
                       \A i \in 1..n : chunk[i] = (server.taken - HsLen(z)) + i
    <2> SUFFICES ASSUME n > 0
                 PROVE  /\ chunk \in Seq(Units) /\ Len(chunk) = n
                        /\ HsLen(z) <= server.taken =>
                              \A i \in 1..n : chunk[i] = (server.taken - HsLen(z)) + i
      OBVIOUS
    <2>1. Len(Stream) = HsLen(z) + Download /\ HsLen(z) \in Nat
      BY StreamFacts DEF HsLen
    <2>2. server.taken + n <= Len(Stream) /\ 0 < n
      BY <2>1, <1>2, <1>4, RelaySizes
    <2> QED BY <2>2, <1>2, <1>4, ChunkFacts
  <1> HIDE DEF chunk
  <1>9. CASE /\ n > 0 /\ SocksInProgress(z)
             /\ Become([handle_socks5_reply(Now, chunk, ok) EXCEPT !.server.taken = @ + n])
    <2>1. z.status = "connected"
      <3>1. z.status = "connecting" => server.sent = 0
        BY <1>1, <1>9, Zenon DEF RelayInv, ControlInv, SocksInProgress
      <3>2. z.status \in {"connecting", "connected"}
        BY <1>1, <1>5, Zenon DEF RelayInv, ControlInv
      <3> QED BY <3>1, <3>2, <1>2, <1>4, <1>9
    <2>2. RelayInv([handle_socks5_reply(Now, chunk, ok) EXCEPT !.server.taken = @ + n], tun)
      <3>1. /\ Now.z.status = "connected" /\ SocksInProgress(Now.z) /\ Now.z.sock
            /\ Now.server.taken + n <= Now.server.sent /\ 0 < n
        BY <2>1, <1>1, <1>4, <1>5, <1>9
      <3> QED BY <3>1, <1>4, <1>8, <1>9, SocksReplyKeeps
    <2> QED BY <2>2, <1>5, <1>9, BecomesInv
  <1>10. CASE n > 0 /\ ~SocksInProgress(z) /\ Reply(chunk, ok)
    <2>1. 0 < n
      BY <1>4, <1>10
    <2>2. RelayInv(Now', tun)
      BY <2>1, <1>4, <1>5, <1>8, <1>10, ReplyKeeps
    <2> QED BY <2>2, <1>5
  <1> QED BY <1>6, <1>7, <1>9, <1>10

\* handle_tcp_connect_async keeps the invariant.
LEMMA ConnectStep ==
    ASSUME RelayInv(Now, tun), handle_tcp_connect_async
    PROVE  RelayInv(Now', tun')
  <1>1. Now.z.sock /\ Now.z.status = "connecting"
    BY Zenon DEF handle_tcp_connect_async, RelayInv, ControlInv, Now
  <1>2. PICK ok \in BOOLEAN : Become(tcp_socket_syn(Now, ok))
    BY DEF handle_tcp_connect_async
  <1>3. RelayInv(tcp_socket_syn(Now, ok), tun)
    BY <1>1, ConnectKeeps
  <1>4. tun' = tun
    BY DEF handle_tcp_connect_async
  <1> QED BY <1>2, <1>3, <1>4, BecomesInv

\* An error of the socket, or the end of its time, keeps the invariant.
LEMMA ErrorStep ==
    ASSUME RelayInv(Now, tun), SocketError
    PROVE  RelayInv(Now', tun')
  <1>1. Now.client.st # "closed"
    BY Zenon DEF SocketError, RelayInv, ControlInv, Now
  <1>2. PICK ok \in BOOLEAN : Become(zdtun_conn_close(Now, ok))
    BY DEF SocketError
  <1>3. RelayInv(zdtun_conn_close(Now, ok), tun)
    BY <1>1, CloseKeeps
  <1>4. tun' = tun
    BY DEF SocketError
  <1> QED BY <1>2, <1>3, <1>4, BecomesInv

-----------------------------------------------------------------------------
(* The steps that send to the server.                                      *)

\* The same connection but for what the client sends.
UploadOnly(s, t) ==
    /\ t \in RelayStates /\ t.client = s.client /\ t.seen = s.seen
    /\ t.z.status = s.z.status /\ t.z.sock = s.z.sock /\ t.z.zdtun_seq = s.z.zdtun_seq
    /\ t.z.window_size = s.z.window_size /\ t.z.fin_ack_sent = s.z.fin_ack_sent
    /\ t.z.proxied = s.z.proxied /\ t.z.socks5_status = s.z.socks5_status
    /\ t.z.socks5_skip = s.z.socks5_skip
    /\ t.server.sent = s.server.sent /\ t.server.taken = s.server.taken
    /\ t.server.fin = s.server.fin

\* What the client sends does not touch the rest.
LEMMA UploadKeeps ==
    ASSUME NEW s, NEW q, RelayInv(s, q), s.z.status = "connected", NEW t, UploadOnly(s, t),
           ~(t.z.sock /\ t.z.wr /\ t.z.tx_queue = <<>>),
           t.server.shut => t.z.client_closed, t.z.sock /\ t.z.client_closed => t.server.shut,
           t.z.client_closed => t.client.st \in {"fin_sent", "reset"},
           UploadInv(t)
    PROVE  RelayInv(t, q)
  <1>1. /\ Relays(t.z) = Relays(s.z) /\ SocksInProgress(t.z) = SocksInProgress(s.z)
        /\ HsLen(t.z) = HsLen(s.z) /\ Lost(t) = Lost(s)
    BY Zenon DEF UploadOnly, Relays, SocksInProgress, HsLen, Lost
  <1>2. ControlInv(t)
    <2>1. ControlInv(s)
      BY DEF RelayInv
    <2> QED BY <1>1, <2>1, ZenonT(20) DEF ControlInv, UploadOnly
  <1>3. SocksInv(t)
    BY <1>1, Zenon DEF SocksInv, UploadOnly, RelayInv
  <1>4. SeqInv(t)
    BY <1>1, Zenon DEF SeqInv, UploadOnly, RelayInv
  <1>5. DownloadInv(t, q)
    BY <1>1, Zenon DEF DownloadInv, UploadOnly, RelayInv
  <1>6. t \in RelayStates /\ q \in Seq(Segments) /\ ClientInv(t.client) /\ TunInv(q, t.client)
    BY Zenon DEF UploadOnly, RelayInv
  <1> QED BY <1>2, <1>3, <1>4, <1>5, <1>6 DEF RelayInv

\* The socket was given more bytes.
LEMMA OutFields ==
    ASSUME NEW h \in RelayStates, NEW d \in Seq(Int)
    PROVE  LET t == [h EXCEPT !.server.out = @ \o d]
           IN  /\ t \in RelayStates /\ t.z = h.z /\ t.client = h.client /\ t.seen = h.seen
               /\ t.server.taken = h.server.taken /\ t.server.sent = h.server.sent
               /\ t.server.fin = h.server.fin /\ t.server.shut = h.server.shut
               /\ t.server.out = h.server.out \o d
               /\ t.server = [h.server EXCEPT !.out = @ \o d]
  <1> DEFINE t == [h EXCEPT !.server.out = @ \o d]
             o == h.server.out \o d
             v == [h.server EXCEPT !.out = o]
  <1>1. h.server \in RelayServers
    BY DEF RelayStates
  <1>2. o \in Seq(Int)
    BY <1>1, ConcatProperties DEF RelayServers
  <1>3. t = [h EXCEPT !.server = v]
    BY DEF RelayStates
  <1> HIDE DEF o
  <1>4. /\ v \in RelayServers /\ v.taken = h.server.taken /\ v.sent = h.server.sent
        /\ v.fin = h.server.fin /\ v.shut = h.server.shut /\ v.out = o
    BY <1>1, <1>2 DEF RelayServers
  <1> HIDE DEF v, t
  <1>5. t.server = v /\ t \in RelayStates /\ t.z = h.z /\ t.client = h.client /\ t.seen = h.seen
    BY <1>3, <1>4 DEF RelayStates
  <1>6. v = [h.server EXCEPT !.out = @ \o d]
    BY DEF v, o
  <1> QED BY <1>4, <1>5, <1>6 DEF t, o

\* The parts of a queue of which n bytes were sent.
LEMMA QueueParts ==
    ASSUME NEW u \in Seq(Int), NEW n \in 1..Len(u)
    PROVE  /\ Len(u) \in Nat
           /\ SubSeq(u, 1, n) \in Seq(Int) /\ Len(SubSeq(u, 1, n)) = n
           /\ \A i \in 1..n : SubSeq(u, 1, n)[i] = u[i]
           /\ SubSeq(u, n + 1, Len(u)) \in Seq(Int) /\ Len(SubSeq(u, n + 1, Len(u))) = Len(u) - n
           /\ \A i \in 1..(Len(u) - n) : SubSeq(u, n + 1, Len(u))[i] = u[n + i]
  <1> DEFINE a == SubSeq(u, 1, n)  b == SubSeq(u, n + 1, Len(u))
  <1>1. Len(u) \in Nat /\ \A i \in 1..Len(u) : u[i] \in Int
    BY LenProperties, ElementOfSeq
  <1>2. /\ a \in Seq(Int) /\ Len(a) = (IF 1 <= n THEN n - 1 + 1 ELSE 0)
        /\ \A i \in 1..(n - 1 + 1) : a[i] = u[1 + i - 1]
    <2>1. \A i \in 1..n : u[i] \in Int
      BY <1>1
    <2> QED BY <2>1, SubSeqProperties
  <1>3. /\ b \in Seq(Int) /\ Len(b) = (IF n + 1 <= Len(u) THEN Len(u) - (n + 1) + 1 ELSE 0)
        /\ \A i \in 1..(Len(u) - (n + 1) + 1) : b[i] = u[(n + 1) + i - 1]
    <2>1. \A i \in (n + 1)..Len(u) : u[i] \in Int
      BY <1>1
    <2> QED BY <1>1, <2>1, SubSeqProperties
  <1> HIDE DEF a, b
  <1>4. Len(a) = n /\ \A i \in 1..n : a[i] = u[i]
    BY <1>2
  <1>5. Len(b) = Len(u) - n /\ \A i \in 1..(Len(u) - n) : b[i] = u[n + i]
    <2>1. Len(u) - (n + 1) + 1 = Len(u) - n /\ Len(b) = Len(u) - n
      BY <1>1, <1>3
    <2> SUFFICES ASSUME NEW i \in 1..(Len(u) - n) PROVE b[i] = u[n + i]
      BY <2>1
    <2>2. (n + 1) + i - 1 = n + i
      BY <1>1
    <2> QED BY <2>1, <2>2, <1>3
  <1> QED BY <1>1, <1>2, <1>3, <1>4, <1>5 DEF a, b

\* An ACK without data was sent, or could not be.
Acked(s, t) ==
    /\ t \in RelayStates /\ t.server = s.server /\ t.seen = s.seen
    /\ \/ t.z = s.z /\ SameClient(s.client, t.client)
       \/ ClosedFrom(s.z, t.z) /\ t.client = s.client

\* What send_to_client does with an ACK.
LEMMA AckFields ==
    ASSUME NEW s \in RelayStates, s.client.snd_una <= s.client.snd_nxt, NEW ok \in BOOLEAN
    PROVE  Acked(s, send_to_client(s, "ack", <<>>, ok))
  <1> DEFINE t == send_to_client(s, "ack", <<>>, ok)
             c == Received(s.client, "ack", s.z.zdtun_seq, s.z.client_seq, <<>>)
  <1>1. /\ s.z.zdtun_seq \in Nat /\ s.z.client_seq \in Nat /\ s.client \in RelayClients
    BY StateParts DEF RelayConns
  <1>2. CASE ok = TRUE
    <2>1. SameClient(s.client, c) /\ c \in RelayClients
      BY <1>1, ReceivedAck, ZenonT(20) DEF SameClient
    <2>2. t = [s EXCEPT !.client = c]
      BY <1>2 DEF send_to_client
    <2> HIDE DEF c, t
    <2>3. /\ t \in RelayStates /\ t.z = s.z /\ t.client = c
          /\ t.server = s.server /\ t.seen = s.seen
      BY <2>1, <2>2, ClientFields
    <2> QED BY <2>1, <2>3 DEF t, Acked
  <1>3. CASE ok = FALSE
    <2>1. /\ t \in RelayStates /\ ClosedFrom(s.z, t.z) /\ t.client = s.client
          /\ t.server = s.server /\ t.seen = s.seen
      BY <1>3, SendFails
    <2> HIDE DEF t
    <2> QED BY <2>1 DEF t, Acked
  <1> QED BY <1>2, <1>3

\* Such a step keeps the invariant.
LEMMA AckedKeeps ==
    ASSUME NEW s, NEW q, RelayInv(s, q), s.client.st # "closed", NEW t, Acked(s, t)
    PROVE  RelayInv(t, q)
  <1>1. s.server.taken <= s.server.sent
    BY DEF RelayInv, ControlInv
  <1>2. CASE t.z = s.z /\ SameClient(s.client, t.client)
    BY <1>2, SameKeeps DEF Acked
  <1>3. CASE ClosedFrom(s.z, t.z) /\ t.client = s.client
    <2>1. EndOfClient(s.client, t.client)
      BY <1>3 DEF EndOfClient
    <2>2. t \in RelayStates /\ t.server = s.server /\ t.seen = s.seen
      BY DEF Acked
    <2> QED BY <1>1, <1>3, <2>1, <2>2, EndKeeps
  <1> QED BY <1>2, <1>3 DEF Acked

\* The connection after n bytes of the queue were sent.
LEMMA FlushedFields ==
    ASSUME z \in RelayConns, NEW n \in 1..Len(z.tx_queue)
    PROVE  LET e == Flushed(n)
           IN  /\ e \in RelayConns /\ e.status = z.status /\ e.sock = z.sock
               /\ e.client_seq = z.client_seq + n
               /\ e.tx_queue = SubSeq(z.tx_queue, n + 1, Len(z.tx_queue))
               /\ e.wr = (n < Len(z.tx_queue)) /\ e.zdtun_seq = z.zdtun_seq
               /\ e.window_size = z.window_size /\ e.fin_ack_sent = z.fin_ack_sent
               /\ e.proxied = z.proxied /\ e.client_closed = z.client_closed
               /\ e.socks5_status = z.socks5_status /\ e.socks5_skip = z.socks5_skip
  <1> DEFINE e == Flushed(n)
             k == z.client_seq + n
             u == SubSeq(z.tx_queue, n + 1, Len(z.tx_queue))
             w == n < Len(z.tx_queue)
  <1>1. z.tx_queue \in Seq(Int) /\ z.client_seq \in Nat
    BY DEF RelayConns
  <1>2. k \in Nat /\ u \in Seq(Int) /\ w \in BOOLEAN
    BY <1>1, QueueParts
  <1>3. e = [z EXCEPT !.client_seq = k, !.tx_queue = u, !.wr = w]
    BY DEF Flushed
  <1> HIDE DEF e, k, u, w
  <1>4. e = [status |-> z.status, sock |-> z.sock, rd |-> z.rd, wr |-> w,
             tx_queue |-> u, client_seq |-> k, zdtun_seq |-> z.zdtun_seq,
             window_size |-> z.window_size, fin_ack_sent |-> z.fin_ack_sent, proxied |-> z.proxied,
             client_closed |-> z.client_closed, socks5_status |-> z.socks5_status,
             socks5_skip |-> z.socks5_skip]
    BY <1>3 DEF RelayConns
  <1>5. e \in RelayConns
    BY <1>2, <1>4, ZenonT(20) DEF RelayConns
  <1>6. /\ e.status = z.status /\ e.sock = z.sock /\ e.client_seq = k /\ e.tx_queue = u
        /\ e.wr = w /\ e.zdtun_seq = z.zdtun_seq
        /\ e.window_size = z.window_size /\ e.fin_ack_sent = z.fin_ack_sent
        /\ e.proxied = z.proxied /\ e.client_closed = z.client_closed
        /\ e.socks5_status = z.socks5_status /\ e.socks5_skip = z.socks5_skip
    BY <1>4, Zenon
  <1> QED BY <1>5, <1>6, Zenon DEF e, k, u, w

\* handle_queued_tcp_data keeps the invariant.
LEMMA FlushStep ==
    ASSUME RelayInv(Now, tun), handle_queued_tcp_data
    PROVE  RelayInv(Now', tun')
  <1>1. Now.z = z /\ Now.client = client /\ Now.server = server /\ Now.seen = seen /\ tun' = tun
    BY DEF Now, handle_queued_tcp_data
  <1>2. /\ Now \in RelayStates /\ z \in RelayConns /\ server \in RelayServers
        /\ client \in RelayClients /\ client.snd_una <= client.snd_nxt
        /\ z.tx_queue \in Seq(Int) /\ z.client_seq \in Nat /\ server.out \in Seq(Int)
    BY <1>1, StateParts DEF RelayInv, ClientInv, RelayConns, RelayServers
  <1>3. /\ z.sock /\ z.status = "connected" /\ client.st # "closed"
        /\ (server.shut => z.client_closed) /\ (z.client_closed => server.shut)
    <2>1. z.sock /\ z.tx_queue # <<>> /\ ControlInv(Now)
      BY DEF handle_queued_tcp_data, RelayInv
    <2> QED BY <1>1, <2>1, Zenon DEF ControlInv
  <1>4. PICK ok \in BOOLEAN :
          IF server.shut THEN Become(zdtun_conn_close(Now, ok))
          ELSE \E n \in 1..Len(z.tx_queue) :
                  Become([send_to_client(Set(Now, Flushed(n)), "ack", <<>>, ok)
                             EXCEPT !.server.out = @ \o SubSeq(z.tx_queue, 1, n)])
    BY DEF handle_queued_tcp_data
  <1>5. CASE server.shut
    <2>1. RelayInv(zdtun_conn_close(Now, ok), tun)
      BY <1>1, <1>3, CloseKeeps
    <2> QED BY <2>1, <1>1, <1>4, <1>5, BecomesInv
  <1>6. CASE ~server.shut
    <2>1. PICK n \in 1..Len(z.tx_queue) :
                  Become([send_to_client(Set(Now, Flushed(n)), "ack", <<>>, ok)
                             EXCEPT !.server.out = @ \o SubSeq(z.tx_queue, 1, n)])
      BY <1>4, <1>6
    <2> DEFINE e == Flushed(n)
               d == SubSeq(z.tx_queue, 1, n)
               u == Set(Now, e)
               h == send_to_client(u, "ack", <<>>, ok)
               v == [u EXCEPT !.server.out = @ \o d]
               x == [h EXCEPT !.server.out = @ \o d]
    <2>2. /\ Len(z.tx_queue) \in Nat /\ d \in Seq(Int) /\ Len(d) = n
          /\ \A i \in 1..n : d[i] = z.tx_queue[i]
      BY <1>2, QueueParts
    <2>3. /\ e \in RelayConns /\ e.status = z.status /\ e.sock = z.sock
          /\ e.client_seq = z.client_seq + n /\ Len(e.tx_queue) = Len(z.tx_queue) - n
          /\ \A i \in 1..(Len(z.tx_queue) - n) : e.tx_queue[i] = z.tx_queue[n + i]
          /\ e.wr = (n < Len(z.tx_queue)) /\ e.zdtun_seq = z.zdtun_seq
          /\ e.window_size = z.window_size /\ e.fin_ack_sent = z.fin_ack_sent
          /\ e.proxied = z.proxied /\ e.client_closed = z.client_closed
          /\ e.socks5_status = z.socks5_status /\ e.socks5_skip = z.socks5_skip
      <3>1. /\ e \in RelayConns /\ e.status = z.status /\ e.sock = z.sock
            /\ e.client_seq = z.client_seq + n
            /\ e.tx_queue = SubSeq(z.tx_queue, n + 1, Len(z.tx_queue))
            /\ e.wr = (n < Len(z.tx_queue)) /\ e.zdtun_seq = z.zdtun_seq
            /\ e.window_size = z.window_size /\ e.fin_ack_sent = z.fin_ack_sent
            /\ e.proxied = z.proxied /\ e.client_closed = z.client_closed
            /\ e.socks5_status = z.socks5_status /\ e.socks5_skip = z.socks5_skip
        BY <1>2, FlushedFields
      <3> HIDE DEF e
      <3>2. /\ Len(e.tx_queue) = Len(z.tx_queue) - n
            /\ \A i \in 1..(Len(z.tx_queue) - n) : e.tx_queue[i] = z.tx_queue[n + i]
        BY <1>2, <3>1, QueueParts, ZenonT(20)
      <3> QED BY <3>1, <3>2
    <2> HIDE DEF e, d
    <2>4. u \in RelayStates /\ u.z = e /\ u.client = client /\ u.server = server /\ u.seen = seen
      BY <1>1, <1>2, <2>3, SetFields
    <2> HIDE DEF u
    <2>5. Acked(u, h)
      <3>1. u.client.snd_una <= u.client.snd_nxt
        BY <1>2, <2>4
      <3> QED BY <3>1, <2>4, AckFields
    <2> HIDE DEF h
    <2>6. /\ v \in RelayStates /\ v.z = e /\ v.client = client /\ v.seen = seen
          /\ v.server.taken = server.taken /\ v.server.sent = server.sent
          /\ v.server.fin = server.fin /\ v.server.shut = server.shut
          /\ v.server.out = server.out \o d
          /\ v.server = [u.server EXCEPT !.out = @ \o d]
      <3>1. /\ v \in RelayStates /\ v.z = u.z /\ v.client = u.client /\ v.seen = u.seen
            /\ v.server.taken = u.server.taken /\ v.server.sent = u.server.sent
            /\ v.server.fin = u.server.fin /\ v.server.shut = u.server.shut
            /\ v.server.out = u.server.out \o d
            /\ v.server = [u.server EXCEPT !.out = @ \o d]
        BY <2>2, <2>4, OutFields
      <3> HIDE DEF v
      <3> QED BY <3>1, <2>4
    <2> HIDE DEF v
    <2>7. /\ x \in RelayStates /\ x.z = h.z /\ x.client = h.client /\ x.seen = h.seen
          /\ x.server = [h.server EXCEPT !.out = @ \o d]
      <3>1. h \in RelayStates
        BY <2>5 DEF Acked
      <3> QED BY <3>1, <2>2, OutFields
    <2> HIDE DEF x
    <2>8. Acked(v, x)
      <3>1. h.server = u.server /\ h.seen = u.seen
        BY <2>5 DEF Acked
      <3>2. x.server = v.server /\ x.seen = v.seen
        BY <3>1, <2>4, <2>6, <2>7
      <3>3. v.z = u.z /\ v.client = u.client
        BY <2>4, <2>6
      <3> QED BY <3>2, <3>3, <2>5, <2>7 DEF Acked
    <2>9. UploadOnly(Now, v)
      BY <1>1, <2>3, <2>6, Zenon DEF UploadOnly
    <2>10. ~(v.z.sock /\ v.z.wr /\ v.z.tx_queue = <<>>)
      <3>1. n < Len(z.tx_queue) => Len(e.tx_queue) # 0
        BY <2>2, <2>3
      <3>2. Len(<<>>) = 0
        BY EmptySeq
      <3> QED BY <3>1, <3>2, <2>3, <2>6
    <2>11. /\ (v.server.shut => v.z.client_closed) /\ (v.z.sock /\ v.z.client_closed => v.server.shut)
           /\ ~v.z.client_closed /\ ~v.server.shut
      BY <1>3, <1>6, <2>3, <2>6
    <2>12. UploadInv(v)
      <3> SUFFICES ASSUME "probe_with_data" \notin v.seen
                   PROVE  /\ v.server.out = Up(Len(v.server.out))
                          /\ v.z.client_seq = 1 + Len(v.server.out)
                          /\ \A i \in 1..Len(v.z.tx_queue) : v.z.tx_queue[i] = Len(v.server.out) + i
        BY <2>11 DEF UploadInv
      <3> DEFINE k == Len(server.out)
      <3>1. /\ server.out = Up(k) /\ z.client_seq = 1 + k
            /\ \A i \in 1..Len(z.tx_queue) : z.tx_queue[i] = k + i
        BY <1>1, <1>3, <1>6, <2>6, Zenon DEF RelayInv, UploadInv
      <3>2. k \in Nat
        BY <1>2, LenProperties
      <3> HIDE DEF k
      <3>3. \A i \in 1..Len(d) : d[i] = k + i
        BY <2>2, <3>1, SMTT(30)
      <3>4. server.out \o d = Up(k + n)
        <4>1. Up(k) \o d = Up(k + Len(d))
          <5>1. Up(k) \in Seq(Int)
            BY <3>2, UpTo
          <5> QED BY <5>1, <2>2, <3>2, <3>3, UpGrows
        <4> QED BY <4>1, <2>2, <3>1
      <3>5. Len(v.server.out) = k + n /\ v.server.out = Up(k + n)
        BY <3>2, <3>4, <2>6, UpTo
      <3>6. v.z.client_seq = 1 + (k + n)
        BY <1>2, <2>3, <2>6, <3>1, <3>2
      <3>7. \A i \in 1..(Len(z.tx_queue) - n) : e.tx_queue[i] = (k + n) + i
        <4> SUFFICES ASSUME NEW i \in 1..(Len(z.tx_queue) - n) PROVE e.tx_queue[i] = (k + n) + i
          OBVIOUS
        <4>1. n + i \in 1..Len(z.tx_queue) /\ k + (n + i) = (k + n) + i
          BY <2>2, <3>2
        <4> QED BY <4>1, <2>3, <3>1
      <3> QED BY <3>5, <3>6, <3>7, <2>3, <2>6
    <2>13. RelayInv(v, tun)
      BY <1>1, <1>3, <2>9, <2>10, <2>11, <2>12, UploadKeeps
    <2>14. RelayInv(x, tun)
      BY <1>3, <2>6, <2>8, <2>13, AckedKeeps
    <2>15. Become(x)
      BY <2>1 DEF x, h, u, e, d
    <2> QED BY <2>14, <2>15, <1>1, BecomesInv
  <1> QED BY <1>5, <1>6

-----------------------------------------------------------------------------
(* The packets that zdtun reads.                                           *)

\* What is known of the packet that run_vpn reads.
HeadOf(s, q, p) ==
    /\ p \in Segments /\ PacketInv(p, s.client) /\ s.client.st # "closed"
    /\ \A i \in 1..Len(Tail(q)) : EdgeOf(p) <= EdgeOf(Tail(q)[i])
    /\ ~Lost(s) /\ Relays(s.z) /\ s.z.sock /\ "first_ack" \in s.seen /\ p.flag # "syn" =>
          s.z.zdtun_seq + s.z.window_size <= EdgeOf(p)

\* A packet that was read does not wait any more.
LEMMA TailKeeps ==
    ASSUME NEW s, NEW q, RelayInv(s, q), q # <<>>
    PROVE  RelayInv(s, Tail(q)) /\ HeadOf(s, q, Head(q))
  <1> DEFINE r == Tail(q)  p == Head(q)
  <1>1. q \in Seq(Segments) /\ TunInv(q, s.client) /\ DownloadInv(s, q)
    BY DEF RelayInv
  <1>2. Len(q) \in Nat /\ Len(q) # 0
    BY <1>1, EmptySeq
  <1>3. /\ p \in Segments /\ r \in Seq(Segments) /\ Len(r) = Len(q) - 1
        /\ \A i \in 1..Len(r) : r[i] = q[i + 1]
    BY <1>1, HeadTailProperties
  <1>4. p = q[1]
    BY <1>1
  <1> HIDE DEF r, p
  <1>5. 1 \in 1..Len(q) /\ \A i \in 1..Len(r) : i + 1 \in 1..Len(q) /\ r[i] = q[i + 1] /\ 1 <= i + 1
    BY <1>2, <1>3
  <1>6. PacketInv(p, s.client) /\ s.client.st # "closed" /\ Len(q) <= MaxTun
    BY <1>1, <1>4, <1>5, Zenon DEF TunInv
  <1>7. \A i \in 1..Len(r) : EdgeOf(p) <= EdgeOf(r[i])
    <2> SUFFICES ASSUME NEW i \in 1..Len(r) PROVE EdgeOf(p) <= EdgeOf(r[i])
      OBVIOUS
    <2>1. EdgeOf(q[1]) <= EdgeOf(q[i + 1])
      BY <1>1, <1>5, Zenon DEF TunInv
    <2> QED BY <2>1, <1>4, <1>5
  <1>8. TunInv(r, s.client)
    <2>1. Len(r) <= MaxTun
      BY <1>2, <1>3, <1>6, RelaySizes
    <2>2. \A i \in 1..Len(r) : PacketInv(r[i], s.client)
      BY <1>1, <1>5, Zenon DEF TunInv
    <2>3. ASSUME NEW i \in 1..Len(r), NEW j \in 1..Len(r), i <= j
          PROVE  EdgeOf(r[i]) <= EdgeOf(r[j])
      <3>1. i + 1 <= j + 1
        BY <2>3, <1>2, <1>3
      <3>2. EdgeOf(q[i + 1]) <= EdgeOf(q[j + 1])
        BY <3>1, <1>1, <1>5, Zenon DEF TunInv
      <3> QED BY <3>2, <1>5
    <2> QED BY <2>1, <2>2, <2>3, <1>6 DEF TunInv
  <1>9. DownloadInv(s, r)
    BY <1>1, <1>5, Zenon DEF DownloadInv
  <1>10. RelayInv(s, r)
    BY <1>3, <1>8, <1>9, Zenon DEF RelayInv
  <1>11. ~Lost(s) /\ Relays(s.z) /\ s.z.sock /\ "first_ack" \in s.seen /\ p.flag # "syn" =>
            s.z.zdtun_seq + s.z.window_size <= EdgeOf(p)
    BY <1>1, <1>4, <1>5, Zenon DEF DownloadInv
  <1> QED BY <1>3, <1>6, <1>7, <1>10, <1>11 DEF HeadOf, r, p

\* The arithmetic of the window: an ACK never moves it beyond the edge that the packet carries.
LEMMA WindowMoves ==
    ASSUME NEW p \in Segments, NEW seq \in Nat, seq <= EdgeOf(p)
    PROVE  LET w == (p.win - (seq - p.ack)) % WindowMod
           IN  w \in 0..(WindowMod - 1) /\ seq + w <= EdgeOf(p)
  <1> DEFINE k == p.win - (seq - p.ack)
             w == k % WindowMod
  <1>1. p.win \in Int /\ p.ack \in Nat
    BY Zenon DEF Segments
  <1>2. k \in Nat /\ seq + k = EdgeOf(p)
    BY <1>1 DEF EdgeOf
  <1> HIDE DEF k
  <1>3. w \in 0..(WindowMod - 1)
    BY <1>2, Wrapped
  <1>4. CASE k < WindowMod
    <2>1. w = k
      BY <1>2, <1>4, NoWrap
    <2> QED BY <2>1, <1>2, <1>3 DEF k
  <1>5. CASE ~(k < WindowMod)
    <2> HIDE DEF w
    <2>1. WindowMod \in Nat
      BY RelayConstants
    <2>2. seq + w <= EdgeOf(p)
      BY <2>1, <1>2, <1>3, <1>5
    <2> QED BY <1>3, <2>2 DEF w, k
  <1> QED BY <1>4, <1>5

\* The connection after an ACK has set the window.
LEMMA WindowFields ==
    ASSUME NEW c \in RelayConns, NEW p \in Segments
    PROVE  LET e == WindowUpdated(c, p)
           IN  /\ e \in RelayConns /\ e.window_size = (p.win - (c.zdtun_seq - p.ack)) % WindowMod
               /\ e.status = c.status /\ e.sock = c.sock /\ e.wr = c.wr
               /\ e.tx_queue = c.tx_queue /\ e.client_seq = c.client_seq
               /\ e.zdtun_seq = c.zdtun_seq /\ e.fin_ack_sent = c.fin_ack_sent
               /\ e.proxied = c.proxied /\ e.client_closed = c.client_closed
               /\ e.socks5_status = c.socks5_status /\ e.socks5_skip = c.socks5_skip
  <1> DEFINE e == WindowUpdated(c, p)
             w == (p.win - (c.zdtun_seq - p.ack)) % WindowMod
             r == c.rd \/ w > 0
  <1>1. w \in 0..(WindowMod - 1) /\ r \in BOOLEAN
    <2>1. p.win \in Int /\ p.ack \in Nat /\ c.zdtun_seq \in Nat
      BY Zenon DEF Segments, RelayConns
    <2>2. p.win - (c.zdtun_seq - p.ack) \in Int
      BY <2>1
    <2> QED BY <2>2, Wrapped
  <1>2. e = [c EXCEPT !.window_size = w, !.rd = r]
    BY DEF WindowUpdated
  <1> HIDE DEF e, w, r
  <1>3. e = [status |-> c.status, sock |-> c.sock, rd |-> r, wr |-> c.wr,
             tx_queue |-> c.tx_queue, client_seq |-> c.client_seq, zdtun_seq |-> c.zdtun_seq,
             window_size |-> w, fin_ack_sent |-> c.fin_ack_sent, proxied |-> c.proxied,
             client_closed |-> c.client_closed, socks5_status |-> c.socks5_status,
             socks5_skip |-> c.socks5_skip]
    BY <1>2 DEF RelayConns
  <1>4. e \in RelayConns
    BY <1>1, <1>3, ZenonT(20) DEF RelayConns
  <1>5. /\ e.window_size = w /\ e.status = c.status /\ e.sock = c.sock /\ e.wr = c.wr
        /\ e.tx_queue = c.tx_queue /\ e.client_seq = c.client_seq
        /\ e.zdtun_seq = c.zdtun_seq /\ e.fin_ack_sent = c.fin_ack_sent
        /\ e.proxied = c.proxied /\ e.client_closed = c.client_closed
        /\ e.socks5_status = c.socks5_status /\ e.socks5_skip = c.socks5_skip
    BY <1>3, Zenon
  <1> QED BY <1>4, <1>5 DEF e, w

\* An ACK of the client sets the window.
LEMMA WindowKeeps ==
    ASSUME NEW s, NEW q \in Seq(Segments), RelayInv(s, Tail(q)), NEW p, HeadOf(s, q, p), p.flag = "ack",
           s.z.sock, Relays(s.z)
    PROVE  RelayInv(Note(Set(s, WindowUpdated(s.z, p)), "first_ack", TRUE), Tail(q))
  <1> DEFINE e == WindowUpdated(s.z, p)
             w == (p.win - (s.z.zdtun_seq - p.ack)) % WindowMod
             u == Set(s, e)
             t == Note(u, "first_ack", TRUE)
             r == Tail(q)
  <1>0. /\ s \in RelayStates /\ s.z \in RelayConns /\ s.client \in RelayClients /\ p \in Segments
        /\ ControlInv(s) /\ SocksInv(s) /\ SeqInv(s) /\ UploadInv(s) /\ DownloadInv(s, r)
        /\ ClientInv(s.client) /\ TunInv(r, s.client) /\ r \in Seq(Segments)
    BY StateParts DEF RelayInv, HeadOf
  <1>1. /\ e \in RelayConns /\ e.window_size = w
        /\ e.status = s.z.status /\ e.sock = s.z.sock /\ e.wr = s.z.wr
        /\ e.tx_queue = s.z.tx_queue /\ e.client_seq = s.z.client_seq
        /\ e.zdtun_seq = s.z.zdtun_seq /\ e.fin_ack_sent = s.z.fin_ack_sent
        /\ e.proxied = s.z.proxied /\ e.client_closed = s.z.client_closed
        /\ e.socks5_status = s.z.socks5_status /\ e.socks5_skip = s.z.socks5_skip
    BY <1>0, WindowFields
  <1> HIDE DEF e, w
  <1>2. u \in RelayStates /\ u.z = e /\ u.client = s.client /\ u.server = s.server /\ u.seen = s.seen
    BY <1>0, <1>1, SetFields
  <1> HIDE DEF u
  <1>3. /\ t \in RelayStates /\ t.z = e /\ t.client = s.client /\ t.server = s.server
        /\ t.seen = s.seen \cup {"first_ack"}
    <2>1. "first_ack" \in Events
      BY DEF Events
    <2>2. /\ t \in RelayStates /\ t.z = u.z /\ t.client = u.client /\ t.server = u.server
          /\ t.seen = u.seen \cup {"first_ack"}
      BY <2>1, <1>2, NoteFields
    <2> HIDE DEF t
    <2> QED BY <2>2, <1>2
  <1> HIDE DEF t, r
  <1>4. /\ Relays(t.z) /\ SocksInProgress(t.z) = SocksInProgress(s.z) /\ ~SocksInProgress(s.z)
        /\ Relays(t.z) = Relays(s.z) /\ HsLen(t.z) = HsLen(s.z) /\ Lost(t) = Lost(s)
        /\ t.z.status = "connected"
    BY <1>1, <1>3 DEF Relays, SocksInProgress, HsLen, Lost
  <1>5. ControlInv(t)
    BY <1>0, <1>1, <1>3, <1>4, ZenonT(20) DEF ControlInv
  <1>6. SocksInv(t)
    BY <1>0, <1>1, <1>3, <1>4, Zenon DEF SocksInv
  <1>7. SeqInv(t)
    BY <1>0, <1>1, <1>3, <1>4, Zenon DEF SeqInv
  <1>8. UploadInv(t)
    BY <1>0, <1>1, <1>3 DEF UploadInv
  <1>9. DownloadInv(t, r)
    <2> SUFFICES ASSUME ~Lost(s) PROVE DownloadInv(t, r)
      BY <1>4 DEF DownloadInv
    <2>1. /\ s.z.zdtun_seq \in Nat /\ s.z.window_size \in Nat /\ s.client.rcv_nxt \in Nat
          /\ p.win \in Int /\ p.ack \in Nat /\ EdgeOf(p) \in Int /\ Edge(s.client) \in Int
      <3>1. /\ s.z.zdtun_seq \in Nat /\ s.z.window_size \in 0..(WindowMod - 1)
            /\ s.client.rcv_nxt \in Nat /\ s.client.read \in Nat /\ p.win \in Int /\ p.ack \in Nat
        BY <1>0, Zenon DEF RelayConns, RelayClients, Segments
      <3>2. EdgeOf(p) \in Int
        BY <3>1 DEF EdgeOf
      <3>3. Edge(s.client) \in Int
        BY <3>1, RelaySizes DEF Edge, FinByte
      <3> QED BY <3>1, <3>2, <3>3, RelayConstants
    <2>2. EdgeOf(p) >= Window + 1 /\ EdgeOf(p) <= Edge(s.client)
      BY DEF HeadOf, PacketInv
    <2>3. s.z.zdtun_seq <= EdgeOf(p)
      <3>1. CASE "first_ack" \in s.seen
        <4>1. s.z.zdtun_seq + s.z.window_size <= EdgeOf(p)
          BY <3>1 DEF HeadOf
        <4> QED BY <4>1, <2>1
      <3>2. CASE "first_ack" \notin s.seen
        <4>1. s.z.zdtun_seq <= Window + 1
          BY <3>2, <1>0 DEF DownloadInv
        <4> QED BY <4>1, <2>1, <2>2, RelaySizes
      <3> QED BY <3>1, <3>2
    <2>4. w \in 0..(WindowMod - 1) /\ s.z.zdtun_seq + w <= EdgeOf(p)
      BY <1>0, <2>1, <2>3, WindowMoves DEF w
    <2>5. w \in Nat
      BY <2>4, RelayConstants
    <2>6. \A i \in 1..Len(r) : s.z.zdtun_seq + w <= EdgeOf(r[i])
      <3> SUFFICES ASSUME NEW i \in 1..Len(r) PROVE s.z.zdtun_seq + w <= EdgeOf(r[i])
        OBVIOUS
      <3>1. EdgeOf(p) <= EdgeOf(r[i])
        BY DEF HeadOf, r
      <3>2. r[i] \in Segments
        BY <1>0, ElementOfSeq
      <3>3. r[i].ack \in Nat /\ r[i].win \in Int
        BY <3>2, Zenon DEF Segments
      <3>4. EdgeOf(r[i]) \in Int
        BY <3>3 DEF EdgeOf
      <3> QED BY <3>1, <3>4, <2>1, <2>4, <2>5
    <2>7. s.z.zdtun_seq + w <= Edge(s.client)
      BY <2>1, <2>2, <2>4, <2>5
    <2>8. s.client.rcv_nxt > 0
      BY <2>1, <2>2, RelaySizes DEF Edge
    <2>9. s.client.rcv_nxt <= s.z.zdtun_seq
      BY <1>0 DEF DownloadInv
    <2>10. w + s.client.rcv_nxt <= Edge(s.client)
      BY <2>1, <2>5, <2>7, <2>9
    <2>11. "zero_window" \in t.seen <=> "zero_window" \in s.seen
      BY <1>3
    <2> QED BY <2>6, <2>7, <2>8, <2>9, <2>10, <2>11, <1>0, <1>1, <1>3, <1>4, Zenon DEF DownloadInv
  <1> QED BY <1>0, <1>3, <1>5, <1>6, <1>7, <1>8, <1>9 DEF RelayInv, t, u, e, r

\* The bytes of a packet.
LEMMA BytesFacts ==
    ASSUME NEW a \in Nat, NEW n \in Nat
    PROVE  /\ Bytes(a, n) \in Seq(Int) /\ Len(Bytes(a, n)) = n
           /\ \A i \in 1..n : Bytes(a, n)[i] = (a + i) - 1
  <1>1. Bytes(a, n) \in [1..n -> Int]
    BY DEF Bytes
  <1>2. Bytes(a, n) \in Seq(Int) /\ Len(Bytes(a, n)) = n
    BY <1>1, SMT
  <1> QED BY <1>2 DEF Bytes

\* The connection after the bytes of a packet were queued.
LEMMA EnqueueFields ==
    ASSUME NEW c \in RelayConns, NEW p \in Segments
    PROVE  LET e == enqueue_tcp_data(c, p)
           IN  /\ e \in RelayConns /\ e.tx_queue = c.tx_queue \o Bytes(p.seq, p.len)
               /\ e.status = c.status /\ e.sock = c.sock /\ e.client_seq = c.client_seq
               /\ e.zdtun_seq = c.zdtun_seq /\ e.window_size = c.window_size
               /\ e.fin_ack_sent = c.fin_ack_sent
               /\ e.proxied = c.proxied /\ e.client_closed = c.client_closed
               /\ e.socks5_status = c.socks5_status /\ e.socks5_skip = c.socks5_skip
  <1> DEFINE e == enqueue_tcp_data(c, p)
             u == c.tx_queue \o Bytes(p.seq, p.len)
  <1>1. u \in Seq(Int)
    <2>1. p.seq \in Nat /\ p.len \in Nat /\ c.tx_queue \in Seq(Int)
      BY Zenon DEF Segments, RelayConns
    <2> QED BY <2>1, BytesFacts, ConcatProperties
  <1>2. e = [c EXCEPT !.tx_queue = u, !.wr = TRUE]
    BY DEF enqueue_tcp_data
  <1> HIDE DEF e, u
  <1>3. e = [status |-> c.status, sock |-> c.sock, rd |-> c.rd, wr |-> TRUE,
             tx_queue |-> u, client_seq |-> c.client_seq, zdtun_seq |-> c.zdtun_seq,
             window_size |-> c.window_size, fin_ack_sent |-> c.fin_ack_sent, proxied |-> c.proxied,
             client_closed |-> c.client_closed, socks5_status |-> c.socks5_status,
             socks5_skip |-> c.socks5_skip]
    BY <1>2 DEF RelayConns
  <1>4. e \in RelayConns
    BY <1>1, <1>3, ZenonT(20) DEF RelayConns
  <1>5. /\ e.tx_queue = u /\ e.status = c.status /\ e.sock = c.sock /\ e.client_seq = c.client_seq
        /\ e.zdtun_seq = c.zdtun_seq /\ e.window_size = c.window_size
        /\ e.fin_ack_sent = c.fin_ack_sent
        /\ e.proxied = c.proxied /\ e.client_closed = c.client_closed
        /\ e.socks5_status = c.socks5_status /\ e.socks5_skip = c.socks5_skip
    BY <1>3, Zenon
  <1> QED BY <1>4, <1>5 DEF e, u

\* Data that is in sequence is queued after the data that waits.
LEMMA EnqueueKeeps ==
    ASSUME NEW s, NEW q, RelayInv(s, q), s.z.status = "connected", s.z.sock,
           NEW p \in Segments, p.len > 0,
           "probe_with_data" \in s.seen \/ p.seq = s.z.client_seq + Len(s.z.tx_queue)
    PROVE  RelayInv(Set(s, enqueue_tcp_data(s.z, p)), q)
  <1> DEFINE e == enqueue_tcp_data(s.z, p)
             t == Set(s, e)
             d == Bytes(p.seq, p.len)
             k == Len(s.z.tx_queue)
  <1>1. /\ s \in RelayStates /\ s.z \in RelayConns /\ s.z.tx_queue \in Seq(Int)
        /\ s.z.client_seq \in Nat /\ p.seq \in Nat /\ p.len \in Nat
        /\ s.server.out \in Seq(Int)
    <2>1. s \in RelayStates /\ s.z \in RelayConns /\ s.server \in RelayServers
      BY StateParts DEF RelayInv
    <2> QED BY <2>1, Zenon DEF RelayConns, RelayServers, Segments
  <1>2. /\ e \in RelayConns /\ e.tx_queue = s.z.tx_queue \o d
        /\ e.status = s.z.status /\ e.sock = s.z.sock /\ e.client_seq = s.z.client_seq
        /\ e.zdtun_seq = s.z.zdtun_seq /\ e.window_size = s.z.window_size
        /\ e.fin_ack_sent = s.z.fin_ack_sent
        /\ e.proxied = s.z.proxied /\ e.client_closed = s.z.client_closed
        /\ e.socks5_status = s.z.socks5_status /\ e.socks5_skip = s.z.socks5_skip
    BY <1>1, EnqueueFields
  <1>3. /\ d \in Seq(Int) /\ Len(d) = p.len /\ k \in Nat /\ Len(s.server.out) \in Nat
        /\ \A i \in 1..p.len : d[i] = (p.seq + i) - 1
    BY <1>1, BytesFacts, LenProperties
  <1> HIDE DEF e, d
  <1>4. /\ Len(e.tx_queue) = k + p.len
        /\ \A i \in 1..(k + p.len) : e.tx_queue[i] = IF i <= k THEN s.z.tx_queue[i] ELSE d[i - k]
    <2> DEFINE u == s.z.tx_queue  g == u \o d
    <2>1. u \in Seq(Int) /\ d \in Seq(Int)
      BY <1>1, <1>3
    <2>2. e.tx_queue = g /\ k = Len(u) /\ Len(d) = p.len
      BY <1>2, <1>3
    <2> HIDE DEF u, k
    <2>3. /\ Len(g) = Len(u) + Len(d)
          /\ \A i \in 1..(Len(u) + Len(d)) : g[i] = IF i <= Len(u) THEN u[i] ELSE d[i - Len(u)]
      BY <2>1, ConcatProperties
    <2> HIDE DEF g
    <2> QED BY <2>2, <2>3 DEF u
  <1> HIDE DEF k
  <1>5. t \in RelayStates /\ t.z = e /\ t.client = s.client /\ t.server = s.server /\ t.seen = s.seen
    BY <1>1, <1>2, SetFields
  <1> HIDE DEF t
  <1>6. UploadOnly(s, t)
    BY <1>2, <1>5, Zenon DEF UploadOnly
  <1>7. t.z.tx_queue # <<>>
    BY <1>1, <1>3, <1>4, <1>5, EmptySeq
  <1>8. /\ t.server.shut => t.z.client_closed
        /\ t.z.sock /\ t.z.client_closed => t.server.shut
        /\ t.z.client_closed => t.client.st \in {"fin_sent", "reset"}
    BY <1>2, <1>5, Zenon DEF RelayInv, ControlInv
  <1>9. ASSUME "probe_with_data" \notin s.seen, ~s.server.shut
        PROVE  \A i \in 1..Len(e.tx_queue) : e.tx_queue[i] = Len(s.server.out) + i
    <2>1. /\ s.z.client_seq = 1 + Len(s.server.out)
          /\ \A i \in 1..k : s.z.tx_queue[i] = Len(s.server.out) + i
      BY <1>9, Zenon DEF RelayInv, UploadInv, k
    <2> SUFFICES ASSUME NEW i \in 1..(k + p.len) PROVE e.tx_queue[i] = Len(s.server.out) + i
      BY <1>4
    <2>2. CASE i <= k
      <3>1. i \in 1..k
        BY <2>2, <1>1, <1>3
      <3> QED BY <2>1, <2>2, <3>1, <1>4
    <2>3. CASE ~(i <= k)
      <3>1. i - k \in 1..p.len
        BY <2>3, <1>1, <1>3
      <3>2. e.tx_queue[i] = (p.seq + (i - k)) - 1
        BY <3>1, <2>3, <1>3, <1>4
      <3>3. p.seq = (1 + Len(s.server.out)) + k
        BY <1>9, <2>1 DEF k
      <3> QED BY <3>1, <3>2, <3>3, <1>1, <1>3
    <2> QED BY <2>2, <2>3
  <1>10. UploadInv(t)
    <2>1. UploadInv(s)
      BY DEF RelayInv
    <2>2. /\ t.z.sock /\ t.z.status = "connected" /\ t.z.client_seq = s.z.client_seq
          /\ t.z.tx_queue = e.tx_queue /\ t.z.client_closed = s.z.client_closed
          /\ t.server = s.server /\ t.seen = s.seen /\ t.client = s.client
      BY <1>2, <1>5
    <2> QED BY <1>9, <2>1, <2>2, ZenonT(20) DEF UploadInv
  <1>11. RelayInv(t, q)
    BY <1>6, <1>7, <1>8, <1>10, UploadKeeps
  <1> QED BY <1>11 DEF t, e

\* Data for a server that has closed is acknowledged and dropped.
LEMMA DroppedKeeps ==
    ASSUME NEW s, NEW q, RelayInv(s, q), s.z.status = "connected", ~s.z.sock,
           NEW p \in Segments, NEW ok \in BOOLEAN
    PROVE  RelayInv(AckDropped(s, p, ok), q)
  <1> DEFINE n == s.z.client_seq + p.len
             e == [s.z EXCEPT !.client_seq = n]
             u == Set(s, e)
             t == send_to_client(u, "ack", <<>>, ok)
  <1>1. /\ s \in RelayStates /\ s.z \in RelayConns /\ s.client.snd_una <= s.client.snd_nxt
        /\ s.z.client_seq \in Nat /\ p.len \in Nat /\ s.client.st # "closed"
    <2>1. s \in RelayStates /\ s.z \in RelayConns /\ ControlInv(s) /\ ClientInv(s.client)
      BY StateParts DEF RelayInv
    <2> QED BY <2>1, Zenon DEF RelayConns, Segments, ControlInv, ClientInv
  <1>2. n \in Nat /\ AckDropped(s, p, ok) = t
    BY <1>1 DEF AckDropped
  <1> HIDE DEF n
  <1>3. /\ e \in RelayConns /\ e.status = s.z.status /\ e.sock = s.z.sock /\ e.wr = s.z.wr
        /\ e.tx_queue = s.z.tx_queue /\ e.zdtun_seq = s.z.zdtun_seq
        /\ e.window_size = s.z.window_size /\ e.fin_ack_sent = s.z.fin_ack_sent
        /\ e.proxied = s.z.proxied /\ e.client_closed = s.z.client_closed
        /\ e.socks5_status = s.z.socks5_status /\ e.socks5_skip = s.z.socks5_skip
    BY <1>1, <1>2 DEF RelayConns
  <1> HIDE DEF e, t
  <1>4. u \in RelayStates /\ u.z = e /\ u.client = s.client /\ u.server = s.server /\ u.seen = s.seen
    BY <1>1, <1>3, SetFields
  <1> HIDE DEF u
  <1>5. UploadOnly(s, u)
    BY <1>3, <1>4, Zenon DEF UploadOnly
  <1>6. /\ ~u.z.sock /\ (u.server.shut => u.z.client_closed)
        /\ (u.z.client_closed => u.client.st \in {"fin_sent", "reset"})
    BY <1>3, <1>4, Zenon DEF RelayInv, ControlInv
  <1>7. UploadInv(u)
    BY <1>4, <1>6, Zenon DEF RelayInv, UploadInv
  <1>8. RelayInv(u, q)
    BY <1>5, <1>6, <1>7, UploadKeeps
  <1>9. Acked(u, t)
    <2>1. u.client.snd_una <= u.client.snd_nxt
      BY <1>1, <1>4
    <2> QED BY <2>1, <1>4, AckFields DEF t
  <1>10. RelayInv(t, q)
    BY <1>1, <1>4, <1>8, <1>9, AckedKeeps
  <1> QED BY <1>2, <1>10

\* An ACK of the client, with data or without.
LEMMA TunAckKeeps ==
    ASSUME tun \in Seq(Segments), RelayInv(Now, Tail(tun)), NEW p, HeadOf(Now, tun, p),
           NEW ok \in BOOLEAN, TunAck(p, ok)
    PROVE  RelayInv(Now', Tail(tun))
  <1> DEFINE a == send_to_client(Now, "ack", <<>>, ok)
             s == IF ~z.sock THEN Now
                  ELSE IF IsKeepAlive(p) THEN Note(a, "probe_with_data", p.len > 0)
                  ELSE Note(Set(Now, WindowUpdated(z, p)), "first_ack", TRUE)
             r == Tail(tun)
  <1>1. Now.z = z /\ Now.client = client /\ Now.server = server /\ Now.seen = seen
    BY DEF Now
  <1>2. /\ z.status = "connected" /\ InSequence(p) /\ ~SocksInProgress(z) /\ p.flag = "ack"
        /\ Relays(z) /\ p \in Segments /\ p.len \in Nat /\ client.st # "closed"
    <2>1. p \in Segments /\ client.st # "closed"
      BY <1>1 DEF HeadOf
    <2>2. p.len \in Nat
      BY <2>1, Zenon DEF Segments
    <2> QED BY <2>1, <2>2 DEF TunAck, Accepted, Relays
  <1>3. Become(CASE p.len = 0 \/ s.z.status = "closed" -> s
                 [] p.len > 0 /\ s.z.status # "closed" /\ s.z.sock -> Set(s, enqueue_tcp_data(s.z, p))
                 [] OTHER -> AckDropped(s, p, ok))
    BY DEF TunAck
  <1>4. /\ Now \in RelayStates /\ z \in RelayConns /\ client.snd_una <= client.snd_nxt
    BY <1>1, StateParts DEF RelayInv, ClientInv
  <1>5. /\ RelayInv(s, r) /\ s.z.status \in {"connected", "closed"}
        /\ s.z.status = "connected" /\ s.z.sock /\ p.len > 0 =>
              "probe_with_data" \in s.seen \/ p.seq = s.z.client_seq + Len(s.z.tx_queue)
    <2>1. CASE ~z.sock
      BY <2>1, <1>1, <1>2
    <2>2. CASE z.sock /\ IsKeepAlive(p)
      <3>1. Acked(Now, a)
        BY <1>1, <1>4, AckFields
      <3> HIDE DEF a
      <3>2. RelayInv(a, r) /\ a \in RelayStates /\ a.z.status \in {"connected", "closed"}
        <4>1. RelayInv(a, r)
          BY <3>1, <1>1, <1>2, AckedKeeps
        <4> QED BY <4>1, <3>1, <1>1, <1>2 DEF Acked, ClosedFrom
      <3> DEFINE y == p.len > 0
                 n == Note(a, "probe_with_data", y)
      <3> HIDE DEF y
      <3>3. "probe_with_data" \in Events \ {"first_ack"}
        BY DEF Events
      <3>4. RelayInv(n, r)
        BY <3>2, <3>3, NoteKeeps
      <3>5. n.z = a.z /\ (y => "probe_with_data" \in n.seen)
        BY <3>2 DEF Note, RelayStates
      <3>6. s = n
        BY <2>2 DEF y
      <3> HIDE DEF s, n
      <3> QED BY <3>2, <3>4, <3>5, <3>6 DEF y
    <2>3. CASE z.sock /\ ~IsKeepAlive(p)
      <3> DEFINE e == WindowUpdated(z, p)
                 n == Note(Set(Now, e), "first_ack", TRUE)
      <3>1. RelayInv(n, r)
        BY <2>3, <1>1, <1>2, WindowKeeps
      <3>2. e \in RelayConns /\ e.status = z.status /\ e.client_seq = z.client_seq /\ e.tx_queue = z.tx_queue
        BY <1>2, <1>4, WindowFields
      <3> HIDE DEF e
      <3>3. Set(Now, e) \in RelayStates /\ Set(Now, e).z = e
        BY <3>2, <1>4, SetFields
      <3>4. n.z = e
        <4>1. "first_ack" \in Events
          BY DEF Events
        <4> QED BY <4>1, <3>3, NoteFields, ZenonT(20)
      <3>5. p.seq = z.client_seq + Len(z.tx_queue)
        BY <2>3, <1>2 DEF InSequence
      <3>6. s = n
        BY <2>3 DEF e
      <3> HIDE DEF s, n
      <3> QED BY <3>1, <3>2, <3>4, <3>5, <3>6, <1>2
    <2> QED BY <2>1, <2>2, <2>3
  <1> HIDE DEF s
  <1>6. CASE p.len = 0 \/ s.z.status = "closed"
    <2>1. Become(s)
      BY <1>3, <1>6
    <2> QED BY <2>1, <1>5, BecomesInv
  <1>7. CASE p.len > 0 /\ s.z.status # "closed" /\ s.z.sock
    <2>1. Become(Set(s, enqueue_tcp_data(s.z, p)))
      BY <1>2, <1>3, <1>7
    <2>2. RelayInv(Set(s, enqueue_tcp_data(s.z, p)), r)
      BY <1>2, <1>5, <1>7, EnqueueKeeps
    <2> QED BY <2>1, <2>2, BecomesInv
  <1>8. CASE p.len # 0 /\ s.z.status # "closed" /\ ~s.z.sock
    <2>1. Become(AckDropped(s, p, ok))
      BY <1>2, <1>3, <1>8
    <2>2. RelayInv(AckDropped(s, p, ok), r)
      BY <1>2, <1>5, <1>8, DroppedKeeps
    <2> QED BY <2>1, <2>2, BecomesInv
  <1> QED BY <1>2, <1>6, <1>7, <1>8

\* The socket is half closed.
LEMMA ShutFields ==
    ASSUME NEW h \in RelayStates, NEW b \in BOOLEAN
    PROVE  LET t == [h EXCEPT !.server.shut = @ \/ b]
           IN  /\ t \in RelayStates /\ t.z = h.z /\ t.client = h.client /\ t.seen = h.seen
               /\ t.server.taken = h.server.taken /\ t.server.sent = h.server.sent
               /\ t.server.fin = h.server.fin /\ t.server.out = h.server.out
               /\ t.server.shut = (h.server.shut \/ b)
  <1> DEFINE t == [h EXCEPT !.server.shut = @ \/ b]
             o == h.server.shut \/ b
             v == [h.server EXCEPT !.shut = o]
  <1>1. h.server \in RelayServers /\ o \in BOOLEAN
    BY DEF RelayStates
  <1>2. t = [h EXCEPT !.server = v]
    BY DEF RelayStates
  <1> HIDE DEF o
  <1>3. v = [up |-> h.server.up, sent |-> h.server.sent, taken |-> h.server.taken,
             fin |-> h.server.fin, shut |-> o, out |-> h.server.out]
    BY <1>1 DEF RelayServers
  <1> HIDE DEF v
  <1>4. v \in RelayServers
    BY <1>1, <1>3, Zenon DEF RelayServers
  <1>5. /\ v.taken = h.server.taken /\ v.sent = h.server.sent
        /\ v.fin = h.server.fin /\ v.shut = o /\ v.out = h.server.out
    BY <1>3, Zenon
  <1> HIDE DEF t
  <1>6. t.server = v /\ t \in RelayStates /\ t.z = h.z /\ t.client = h.client /\ t.seen = h.seen
    BY <1>2, <1>4 DEF RelayStates
  <1> QED BY <1>5, <1>6 DEF t, o

\* A FIN of the client.
LEMMA TunFinKeeps ==
    ASSUME tun \in Seq(Segments), RelayInv(Now, Tail(tun)), NEW p, HeadOf(Now, tun, p),
           NEW ok \in BOOLEAN, TunFin(p, ok)
    PROVE  RelayInv(Now', Tail(tun))
  <1> DEFINE m == z.client_seq + p.len + 1
             A == z.sock /\ (p.len > 0 \/ z.tx_queue # <<>>)
             K == IsKeepAlive(p)
             c == [z EXCEPT !.client_seq = m, !.client_closed = TRUE]
             d == Note(Set(Now, c), "fin_with_data", A)
             g == Note(d, "fin_repeated", K)
             s == [g EXCEPT !.server.shut = @ \/ z.sock]
             a == send_to_client(s, "ack", <<>>, ok)
             v == Note(Note(Now, "fin_with_data", A), "fin_repeated", K)
             r == Tail(tun)
  <1>1. Now.z = z /\ Now.client = client /\ Now.server = server /\ Now.seen = seen
    BY DEF Now
  <1>2. /\ z.status = "connected" /\ InSequence(p) /\ p.flag = "fin"
        /\ p \in Segments /\ p.len \in Nat /\ p.seq \in Nat /\ client.st # "closed"
        /\ p.seq + p.len + 1 = client.snd_nxt /\ client.st \in {"fin_sent", "reset"}
    <2>1. p \in Segments /\ client.st # "closed" /\ PacketInv(p, client)
      BY <1>1 DEF HeadOf
    <2>2. p.len \in Nat /\ p.seq \in Nat
      BY <2>1, Zenon DEF Segments
    <2> QED BY <2>1, <2>2 DEF TunFin, Accepted, PacketInv
  <1>3. /\ Now \in RelayStates /\ z \in RelayConns /\ client.snd_una <= client.snd_nxt
        /\ z.client_seq \in Nat /\ z.sock \in BOOLEAN /\ server.out \in Seq(Int)
        /\ z.tx_queue \in Seq(Int) /\ client.snd_nxt \in Nat
    <2>1. /\ Now \in RelayStates /\ z \in RelayConns /\ server \in RelayServers
          /\ client \in RelayClients /\ ClientInv(client)
      BY <1>1, StateParts DEF RelayInv
    <2> QED BY <2>1, Zenon DEF RelayConns, RelayServers, RelayClients, ClientInv
  <1>4. Become(IF z.sock THEN a ELSE zdtun_conn_close(a, TRUE))
    BY DEF TunFin
  <1>5. m \in Nat
    BY <1>2, <1>3
  <1> HIDE DEF m, a
  <1>6. /\ c \in RelayConns /\ c.status = z.status /\ c.sock = z.sock /\ c.wr = z.wr
        /\ c.tx_queue = z.tx_queue /\ c.zdtun_seq = z.zdtun_seq /\ c.client_seq = m
        /\ c.window_size = z.window_size /\ c.fin_ack_sent = z.fin_ack_sent
        /\ c.proxied = z.proxied /\ c.client_closed
        /\ c.socks5_status = z.socks5_status /\ c.socks5_skip = z.socks5_skip
    <2>0. c = [z EXCEPT !.client_seq = m, !.client_closed = TRUE]
      OBVIOUS
    <2> HIDE DEF c
    <2>1. c = [status |-> z.status, sock |-> z.sock, rd |-> z.rd, wr |-> z.wr,
               tx_queue |-> z.tx_queue, client_seq |-> m, zdtun_seq |-> z.zdtun_seq,
               window_size |-> z.window_size, fin_ack_sent |-> z.fin_ack_sent, proxied |-> z.proxied,
               client_closed |-> TRUE, socks5_status |-> z.socks5_status,
               socks5_skip |-> z.socks5_skip]
      BY <2>0, <1>3 DEF RelayConns
    <2>2. c \in RelayConns
      BY <2>1, <1>3, <1>5, ZenonT(20) DEF RelayConns
    <2> QED BY <2>1, <2>2, Zenon
  <1> HIDE DEF c
  <1>7. "fin_with_data" \in Events \ {"first_ack"} /\ "fin_repeated" \in Events \ {"first_ack"}
    BY DEF Events
  <1> HIDE DEF A, K
  <1>8. /\ v \in RelayStates /\ RelayInv(v, r) /\ v.z = z /\ v.client = client /\ v.server = server
        /\ (A => "fin_with_data" \in v.seen) /\ (K => "fin_repeated" \in v.seen) /\ seen \subseteq v.seen
    <2> DEFINE n == Note(Now, "fin_with_data", A)
    <2>1. RelayInv(n, r)
      BY <1>1, <1>2, <1>7, NoteKeeps
    <2>2. /\ n \in RelayStates /\ n.z = Now.z /\ n.client = Now.client /\ n.server = Now.server
          /\ (A => "fin_with_data" \in n.seen) /\ Now.seen \subseteq n.seen
      BY <1>3, <1>7 DEF Note, RelayStates
    <2> HIDE DEF n
    <2>3. n.z = z /\ n.client = client /\ n.server = server /\ seen \subseteq n.seen
      BY <2>2, <1>1
    <2>4. RelayInv(Note(n, "fin_repeated", K), r)
      BY <2>1, <2>3, <1>2, <1>7, NoteKeeps
    <2>5. /\ Note(n, "fin_repeated", K) \in RelayStates
          /\ Note(n, "fin_repeated", K).z = n.z /\ Note(n, "fin_repeated", K).client = n.client
          /\ Note(n, "fin_repeated", K).server = n.server
          /\ (K => "fin_repeated" \in Note(n, "fin_repeated", K).seen)
          /\ n.seen \subseteq Note(n, "fin_repeated", K).seen
      BY <2>2, <1>7 DEF Note, RelayStates
    <2>6. v = Note(n, "fin_repeated", K)
      BY DEF n
    <2> HIDE DEF v
    <2> QED BY <2>2, <2>3, <2>4, <2>5, <2>6
  <1>9. g \in RelayStates /\ g.z = c /\ g.client = client /\ g.server = server /\ g.seen = v.seen
    <2> DEFINE u == Set(Now, c)
    <2>1. u \in RelayStates /\ u.z = c /\ u.client = client /\ u.server = server /\ u.seen = seen
      BY <1>1, <1>3, <1>6, SetFields
    <2> HIDE DEF u
    <2>2. "fin_with_data" \in Events /\ "fin_repeated" \in Events
      BY <1>7
    <2>3. d \in RelayStates /\ d.z = c /\ d.client = client /\ d.server = server
          /\ d.seen = Note(Now, "fin_with_data", A).seen
      <3>1. d = Note(u, "fin_with_data", A)
        BY DEF u
      <3> HIDE DEF d
      <3> QED BY <3>1, <2>1, <2>2, <1>1, <1>3 DEF Note, RelayStates
    <2> HIDE DEF d
    <2>4. Note(Now, "fin_with_data", A) \in RelayStates
      BY <2>2, <1>3 DEF Note, RelayStates
    <2> DEFINE n == Note(Now, "fin_with_data", A)
    <2> HIDE DEF n
    <2>5. n \in RelayStates /\ d.seen = n.seen /\ v = Note(n, "fin_repeated", K)
      BY <2>3, <2>4 DEF n
    <2> HIDE DEF v
    <2> QED BY <2>2, <2>3, <2>5 DEF Note, RelayStates
  <1> HIDE DEF g, v
  <1>10. /\ s \in RelayStates /\ s.z = c /\ s.client = client /\ s.seen = v.seen
         /\ s.server.taken = server.taken /\ s.server.sent = server.sent
         /\ s.server.fin = server.fin /\ s.server.out = server.out
         /\ s.server.shut = (server.shut \/ z.sock)
    <2>1. /\ s \in RelayStates /\ s.z = g.z /\ s.client = g.client /\ s.seen = g.seen
          /\ s.server.taken = g.server.taken /\ s.server.sent = g.server.sent
          /\ s.server.fin = g.server.fin /\ s.server.out = g.server.out
          /\ s.server.shut = (g.server.shut \/ z.sock)
      BY <1>3, <1>9, ShutFields
    <2> HIDE DEF s
    <2> QED BY <2>1, <1>9
  <1> HIDE DEF s
  <1>11. UploadOnly(v, s)
    BY <1>6, <1>8, <1>10, Zenon DEF UploadOnly
  <1>12. /\ ~(s.z.sock /\ s.z.wr /\ s.z.tx_queue = <<>>) /\ s.z.client_closed
         /\ (s.z.sock => s.server.shut) /\ s.client.st \in {"fin_sent", "reset"}
    <2>1. z.sock /\ z.wr /\ z.tx_queue = <<>> => z.status = "connecting"
      BY <1>1, Zenon DEF RelayInv, ControlInv
    <2> QED BY <2>1, <1>2, <1>6, <1>10
  <1>13. UploadInv(s)
    <2>1. UploadInv(Now) /\ ControlInv(Now)
      BY DEF RelayInv
    <2>2. "probe_with_data" \in s.seen \/ server.out = Up(Len(server.out))
      BY <2>1, <1>1, <1>8, <1>10 DEF UploadInv
    <2>3. ASSUME {"fin_with_data", "fin_repeated", "probe_with_data"} \cap s.seen = {}, z.sock
          PROVE  m = 2 + Len(server.out) /\ m = client.snd_nxt
      <3>1. ~A /\ ~K
        BY <2>3, <1>8, <1>10
      <3>2. /\ "fin_with_data" \notin seen /\ "fin_repeated" \notin seen
            /\ "probe_with_data" \notin seen
        BY <2>3, <1>8, <1>10
      <3>3. p.len = 0 /\ Len(z.tx_queue) = 0 /\ p.seq = z.client_seq + Len(z.tx_queue)
        BY <2>3, <3>1, <1>2, EmptySeq DEF A, K, InSequence
      <3>4. m = z.client_seq + 1 /\ p.seq = z.client_seq /\ m = client.snd_nxt
        BY <3>3, <1>2, <1>3 DEF m
      <3>5. ~z.client_closed
        <4> SUFFICES ASSUME z.client_closed PROVE FALSE
          OBVIOUS
        <4>1. z.client_seq = client.snd_nxt
          BY <2>1, <2>3, <3>2, <1>1, <1>2 DEF UploadInv
        <4> QED BY <4>1, <3>4, <1>3
      <3>6. ~server.shut
        BY <3>5, <2>1, <1>1, Zenon DEF ControlInv
      <3>7. z.client_seq = 1 + Len(server.out)
        BY <2>1, <2>3, <3>2, <3>6, <1>1, <1>2, Zenon DEF UploadInv
      <3>8. Len(server.out) \in Nat
        BY <1>3, LenProperties
      <3> QED BY <3>4, <3>7, <3>8
    <2>4. /\ s.z.sock = z.sock /\ s.z.client_seq = m /\ s.z.sock => s.server.shut
      BY <1>6, <1>10, <1>12
    <2> QED BY <2>2, <2>3, <2>4, <1>6, <1>10 DEF UploadInv
  <1>14. RelayInv(s, r)
    BY <1>2, <1>8, <1>11, <1>12, <1>13, UploadKeeps
  <1>15. Acked(s, a)
    <2>1. s.client.snd_una <= s.client.snd_nxt
      BY <1>3, <1>10
    <2> QED BY <2>1, <1>10, AckFields DEF a, s, g, d, c, A, K, m
  <1>16. RelayInv(a, r) /\ a.client.st # "closed"
    <2>1. RelayInv(a, r)
      BY <1>2, <1>10, <1>14, <1>15, AckedKeeps
    <2> QED BY <2>1, <1>15, <1>10, <1>2 DEF Acked, SameClient
  <1>17. CASE z.sock
    BY <1>4, <1>16, <1>17, BecomesInv
  <1>18. CASE ~z.sock
    <2>1. RelayInv(zdtun_conn_close(a, TRUE), r)
      BY <1>16, CloseKeeps
    <2> QED BY <2>1, <1>4, <1>18, BecomesInv
  <1> QED BY <1>17, <1>18

\* The invariant does not look at the way the socket was connected.
LEMMA UpKeeps ==
    ASSUME NEW s, NEW q, RelayInv(s, q)
    PROVE  RelayInv([s EXCEPT !.server.up = TRUE], q)
  <1> DEFINE t == [s EXCEPT !.server.up = TRUE]
             v == [s.server EXCEPT !.up = TRUE]
  <1>1. s \in RelayStates /\ s.server \in RelayServers
    BY StateParts DEF RelayInv
  <1>2. t = [s EXCEPT !.server = v]
    BY <1>1 DEF RelayStates
  <1>3. v = [up |-> TRUE, sent |-> s.server.sent, taken |-> s.server.taken,
             fin |-> s.server.fin, shut |-> s.server.shut, out |-> s.server.out]
    <2>1. v = [s.server EXCEPT !.up = TRUE]
      OBVIOUS
    <2> HIDE DEF v
    <2> QED BY <1>1, <2>1 DEF RelayServers
  <1> HIDE DEF v, t
  <1>4. v \in RelayServers
    BY <1>1, <1>3, Zenon DEF RelayServers
  <1>5. t \in RelayStates /\ t.z = s.z /\ t.client = s.client /\ t.server = v /\ t.seen = s.seen
    BY <1>1, <1>2, <1>4 DEF RelayStates
  <1>6. /\ t.server.taken = s.server.taken /\ t.server.sent = s.server.sent
        /\ t.server.fin = s.server.fin /\ t.server.shut = s.server.shut
        /\ t.server.out = s.server.out
    <2>1. /\ v.taken = s.server.taken /\ v.sent = s.server.sent
          /\ v.fin = s.server.fin /\ v.shut = s.server.shut /\ v.out = s.server.out
      BY <1>3, Zenon
    <2> QED BY <2>1, <1>5, Zenon
  <1>7. Lost(t) = Lost(s)
    BY <1>5, Zenon DEF Lost
  <1>8. ControlInv(t)
    BY <1>5, <1>6, <1>7, ZenonT(20) DEF ControlInv, RelayInv
  <1>9. SocksInv(t) /\ SeqInv(t) /\ UploadInv(t)
    <2>1. SocksInv(t)
      BY <1>5, <1>6, Zenon DEF SocksInv, RelayInv
    <2>2. SeqInv(t)
      BY <1>5, <1>6, Zenon DEF SeqInv, RelayInv
    <2>3. UploadInv(t)
      BY <1>5, <1>6, Zenon DEF UploadInv, RelayInv
    <2> QED BY <2>1, <2>2, <2>3
  <1>10. DownloadInv(t, q)
    <2>1. DownloadInv(s, q)
      BY DEF RelayInv
    <2> QED BY <2>1, <1>5, <1>6, <1>7 DEF DownloadInv
  <1>11. RelayInv(t, q)
    BY <1>5, <1>8, <1>9, <1>10, Zenon DEF RelayInv
  <1> QED BY <1>11 DEF t

\* The SYN opens a socket.
LEMMA OpenedKeeps ==
    ASSUME NEW q, RelayInv(Now, q), z.status = "none", client.st # "closed",
           NEW p \in Segments, p.flag = "syn", PacketInv(p, client), NEW proxied \in BOOLEAN
    PROVE  RelayInv(Set(Now, Opened(p, proxied)), q)
  <1> DEFINE n == p.seq + 1
             w == p.win * Scale
             e == Opened(p, proxied)
             t == Set(Now, e)
  <1>1. Now.z = z /\ Now.client = client /\ Now.server = server /\ Now.seen = seen
    BY DEF Now
  <1>2. /\ z = NoConn /\ client.st = "syn_sent" /\ server.sent = 0 /\ server.taken = 0
        /\ ~server.shut /\ server.out = <<>> /\ seen = {}
    BY <1>1, Zenon DEF RelayInv, ControlInv
  <1>3. n = 1 /\ w \in 0..(WindowMod - 1)
    <2>1. p.seq = 0 /\ p.win = Window
      BY DEF PacketInv
    <2> QED BY <2>1, RelayConstants
  <1>4. e = [status |-> "connecting", sock |-> TRUE, rd |-> TRUE, wr |-> TRUE, tx_queue |-> <<>>,
             client_seq |-> 1, zdtun_seq |-> 0, window_size |-> w, fin_ack_sent |-> FALSE,
             proxied |-> proxied, client_closed |-> FALSE, socks5_status |-> "none",
             socks5_skip |-> 0]
    <2>1. e = [NoConn EXCEPT !.status = "connecting", !.sock = TRUE, !.rd = TRUE, !.wr = TRUE,
                             !.client_seq = n, !.window_size = w, !.proxied = proxied]
      BY <1>2 DEF Opened
    <2> HIDE DEF e, w
    <2> QED BY <2>1, <1>3 DEF NoConn
  <1> HIDE DEF n, w, e
  <1>5. e \in RelayConns
    <2>1. <<>> \in Seq(Int) /\ 1 \in Nat /\ 0 \in Nat /\ 0 \in Int
      BY EmptySeq
    <2> QED BY <2>1, <1>3, <1>4, Zenon DEF RelayConns
  <1>6. /\ e.status = "connecting" /\ e.sock /\ e.tx_queue = <<>> /\ e.client_seq = 1
        /\ e.zdtun_seq = 0 /\ ~e.fin_ack_sent /\ e.proxied = proxied /\ ~e.client_closed
        /\ e.socks5_status = "none"
    BY <1>4, Zenon
  <1>7. /\ t \in RelayStates /\ t.z = e /\ t.client = client /\ t.server = server /\ t.seen = seen
    <2>1. Now \in RelayStates
      BY DEF RelayInv
    <2> QED BY <2>1, <1>1, <1>5, SetFields
  <1> HIDE DEF t
  <1>8. ~Relays(e) /\ HsLen(e) \in Nat /\ (~SocksInProgress(e) => HsLen(e) = 0)
    BY <1>6 DEF Relays, HsLen, SocksInProgress
  <1>9. ~client.fin
    BY <1>1, <1>2 DEF RelayInv, ClientInv
  <1>10. ControlInv(t)
    <2>1. /\ t.z.status = "connecting" /\ t.client.st = "syn_sent" /\ ~t.z.fin_ack_sent
          /\ t.z.client_seq = 1 /\ t.z.tx_queue = <<>> /\ t.server.out = <<>>
          /\ ~t.z.client_closed /\ t.z.socks5_status = "none" /\ t.server.sent = 0
          /\ "first_ack" \notin t.seen /\ t.z.zdtun_seq = 0 /\ ~Relays(t.z)
          /\ ~t.server.shut /\ ~t.client.fin /\ t.server.taken = 0
      BY <1>2, <1>6, <1>7, <1>8, <1>9
    <2>2. t.server.taken <= t.server.sent /\ t.server.sent <= HsLen(t.z) + Download
      BY <2>1, <1>7, <1>8, RelaySizes
    <2> QED BY <2>1, <2>2, Zenon DEF ControlInv
  <1>11. SocksInv(t)
    BY <1>6, <1>7 DEF SocksInv
  <1>12. SeqInv(t)
    BY <1>2, <1>6, <1>7, <1>8, RelaySizes DEF SeqInv
  <1>13. UploadInv(t)
    <2>1. Up(0) = <<>> /\ Len(<<>>) = 0
      BY UpNone, EmptySeq
    <2> QED BY <2>1, <1>2, <1>6, <1>7 DEF UploadInv
  <1>14. DownloadInv(t, q)
    BY <1>2, <1>7, <1>8, <1>9 DEF DownloadInv
  <1>15. q \in Seq(Segments) /\ ClientInv(t.client) /\ TunInv(q, t.client)
    BY <1>1, <1>7, Zenon DEF RelayInv
  <1>16. RelayInv(t, q)
    BY <1>7, <1>10, <1>11, <1>12, <1>13, <1>14, <1>15 DEF RelayInv
  <1> QED BY <1>16 DEF t, e

\* A SYN.
LEMMA TunSynKeeps ==
    ASSUME RelayInv(Now, Tail(tun)), NEW p, HeadOf(Now, tun, p),
           NEW ok \in BOOLEAN, NEW proxied \in ProxyModes, TunSyn(p, proxied, ok)
    PROVE  RelayInv(Now', Tail(tun))
  <1> DEFINE s == Set(Now, Opened(p, proxied))
             c == [z EXCEPT !.status = "closed"]
             t == Set(Now, c)
             r == Tail(tun)
  <1>1. Now.z = z /\ Now.client = client /\ Now.server = server /\ Now.seen = seen
    BY DEF Now
  <1>2. /\ p.flag = "syn" /\ z.status = "none"
        /\ \/ Become(t)
           \/ Become(zdtun_conn_close(s, ok))
           \/ Become(s)
           \/ Become([tcp_socket_syn(s, ok) EXCEPT !.server.up = TRUE])
    BY DEF TunSyn
  <1>3. proxied \in BOOLEAN /\ p \in Segments /\ PacketInv(p, client) /\ client.st # "closed"
    BY <1>1, RelayConstants DEF HeadOf
  <1>4. RelayInv(s, r)
    BY <1>2, <1>3, OpenedKeeps
  <1>5. /\ s.z.sock /\ s.z.status = "connecting" /\ s.client = client
    <2>1. z \in RelayConns /\ Now \in RelayStates
      BY <1>1, StateParts DEF RelayInv
    <2> QED BY <2>1, <1>1 DEF Set, Opened, RelayStates, RelayConns
  <1>6. RelayInv(t, r)
    <2>1. z = NoConn /\ server.taken <= server.sent
      BY <1>1, <1>2, Zenon DEF RelayInv, ControlInv
    <2>2. z \in RelayConns /\ Now \in RelayStates
      BY <1>1, StateParts DEF RelayInv
    <2>3. ~z.sock
      BY <2>1 DEF NoConn
    <2>4. ClosedFrom(z, c) /\ c \in RelayConns
      <3>1. /\ c \in RelayConns /\ c.status = "closed" /\ c.sock = z.sock
            /\ c.zdtun_seq = z.zdtun_seq /\ c.window_size = z.window_size /\ c.proxied = z.proxied
            /\ c.client_closed = z.client_closed /\ c.fin_ack_sent = z.fin_ack_sent
        BY <2>2 DEF RelayConns
      <3> HIDE DEF c
      <3> QED BY <3>1, <2>3 DEF ClosedFrom
    <2> HIDE DEF c
    <2>5. t \in RelayStates /\ t.z = c /\ t.client = client /\ t.server = server /\ t.seen = seen
      BY <2>2, <2>4, <1>1, SetFields
    <2> HIDE DEF t
    <2>6. EndOfClient(Now.client, t.client) /\ Now.client.st # "closed" /\ ClosedFrom(Now.z, t.z)
      BY <2>4, <2>5, <1>1, <1>3 DEF EndOfClient
    <2> QED BY <2>1, <2>5, <2>6, <1>1, EndKeeps
  <1> HIDE DEF s, t
  <1>7. CASE Become(t)
    BY <1>6, <1>7, BecomesInv
  <1>8. CASE Become(zdtun_conn_close(s, ok))
    <2>1. RelayInv(zdtun_conn_close(s, ok), r)
      BY <1>3, <1>4, <1>5, CloseKeeps
    <2> QED BY <2>1, <1>8, BecomesInv
  <1>9. CASE Become(s)
    BY <1>4, <1>9, BecomesInv
  <1>10. CASE Become([tcp_socket_syn(s, ok) EXCEPT !.server.up = TRUE])
    <2>1. RelayInv(tcp_socket_syn(s, ok), r)
      BY <1>4, <1>5, ConnectKeeps
    <2>2. RelayInv([tcp_socket_syn(s, ok) EXCEPT !.server.up = TRUE], r)
      BY <2>1, UpKeeps
    <2> QED BY <2>2, <1>10, BecomesInv
  <1> QED BY <1>2, <1>7, <1>8, <1>9, <1>10

\* A packet of the tun device keeps the invariant.
LEMMA TunStep ==
    ASSUME RelayInv(Now, tun), TunPacket
    PROVE  RelayInv(Now', tun')
  <1> DEFINE p == Head(tun)
  <1>1. tun # <<>> /\ tun' = Tail(tun) /\ tun \in Seq(Segments)
    BY DEF TunPacket, RelayInv
  <1>2. RelayInv(Now, Tail(tun)) /\ HeadOf(Now, tun, p)
    BY <1>1, TailKeeps
  <1>3. \/ TunIgnored(p)
        \/ \E ok \in BOOLEAN :
             \/ \E proxied \in ProxyModes : TunSyn(p, proxied, ok)
             \/ TunClose(p, ok)
             \/ TunFin(p, ok)
             \/ TunAck(p, ok)
    BY DEF TunPacket
  <1> HIDE DEF p
  <1>4. CASE TunIgnored(p)
    BY <1>1, <1>2, <1>4, BecomesInv DEF TunIgnored
  <1>5. ASSUME NEW ok \in BOOLEAN, NEW proxied \in ProxyModes, TunSyn(p, proxied, ok)
        PROVE  RelayInv(Now', tun')
    BY <1>1, <1>2, <1>5, TunSynKeeps
  <1>6. ASSUME NEW ok \in BOOLEAN, TunClose(p, ok)
        PROVE  RelayInv(Now', tun')
    <2>1. Now.client.st # "closed"
      BY <1>2 DEF HeadOf
    <2>2. RelayInv(zdtun_conn_close(Now, ok), Tail(tun))
      BY <1>2, <2>1, CloseKeeps
    <2> QED BY <2>2, <1>1, <1>6, BecomesInv DEF TunClose
  <1>7. ASSUME NEW ok \in BOOLEAN, TunFin(p, ok)
        PROVE  RelayInv(Now', tun')
    BY <1>1, <1>2, <1>7, TunFinKeeps
  <1>8. ASSUME NEW ok \in BOOLEAN, TunAck(p, ok)
        PROVE  RelayInv(Now', tun')
    BY <1>1, <1>2, <1>8, TunAckKeeps
  <1> QED BY <1>3, <1>4, <1>5, <1>6, <1>7, <1>8

-----------------------------------------------------------------------------
(* The packets of the client.                                              *)

\* The TCP of the client speaks: what it has received is as before.
Speaks(c, d) ==
    /\ d \in RelayClients /\ ClientInv(d) /\ d.st # "closed"
    /\ d.rcv_nxt = c.rcv_nxt /\ d.read = c.read /\ d.got = c.got /\ d.fin = c.fin
    /\ c.st # "reset"
    /\ c.st \in {"closed", "syn_sent"} => d.st = "syn_sent"
    /\ c.st = "open" => d.st \in {"open", "fin_sent", "reset"}
    /\ c.st = "fin_sent" => d.st \in {"fin_sent", "reset"} /\ d.snd_nxt = c.snd_nxt

\* One more packet waits, with the window of the moment.
LEMMA AppendKeeps ==
    ASSUME NEW q \in Seq(Segments), NEW c \in RelayClients, NEW d, TunInv(q, c), Speaks(c, d),
           NEW p \in Segments, PacketInv(p, d), EdgeOf(p) = Edge(c), Len(q) < MaxTun
    PROVE  TunInv(Append(q, p), d) /\ Append(q, p) \in Seq(Segments)
  <1> DEFINE r == Append(q, p)
  <1>1. /\ r \in Seq(Segments) /\ Len(r) = Len(q) + 1 /\ Len(q) \in Nat /\ r # <<>>
        /\ \A i \in 1..Len(q) : r[i] = q[i]
        /\ r[Len(q) + 1] = p
    BY AppendProperties, LenProperties
  <1> HIDE DEF r
  <1>2. \A i \in 1..Len(r) : (i \in 1..Len(q) /\ r[i] = q[i]) \/ (i = Len(q) + 1 /\ r[i] = p)
    BY <1>1
  <1>3. Edge(d) = Edge(c) /\ d.st \in {"closed", "syn_sent", "open", "fin_sent", "reset"}
        /\ c.st \in {"closed", "syn_sent", "open", "fin_sent", "reset"}
    BY Zenon DEF Speaks, Edge, FinByte, RelayClients
  <1>4. \A i \in 1..Len(q) : PacketInv(q[i], d)
    <2> SUFFICES ASSUME NEW i \in 1..Len(q), PacketInv(q[i], c) PROVE PacketInv(q[i], d)
      BY DEF TunInv
    <2> QED BY <1>3 DEF PacketInv, Speaks
  <1>5. \A i \in 1..Len(r) : PacketInv(r[i], d)
    BY <1>2, <1>4
  <1>6. ASSUME NEW i \in 1..Len(r), NEW j \in 1..Len(r), i <= j
        PROVE  EdgeOf(r[i]) <= EdgeOf(r[j])
    <2>1. CASE j \in 1..Len(q) /\ r[j] = q[j]
      <3>1. i \in 1..Len(q) /\ r[i] = q[i]
        BY <1>1, <1>6, <2>1
      <3> QED BY <3>1, <2>1, <1>6, Zenon DEF TunInv
    <2>2. CASE j = Len(q) + 1 /\ r[j] = p
      <3>1. CASE i \in 1..Len(q) /\ r[i] = q[i]
        <4>1. EdgeOf(q[i]) <= Edge(c)
          BY <3>1 DEF TunInv, PacketInv
        <4> QED BY <4>1, <3>1, <2>2
      <3>2. CASE i = Len(q) + 1 /\ r[i] = p
        <4>1. p.ack \in Nat /\ p.win \in Int
          BY Zenon DEF Segments
        <4>2. EdgeOf(p) \in Int
          BY <4>1 DEF EdgeOf
        <4> QED BY <4>2, <3>2, <2>2
      <3> QED BY <3>1, <3>2, <1>2
    <2> QED BY <2>1, <2>2, <1>2
  <1>7. Len(r) <= MaxTun /\ d.st # "closed"
    BY <1>1, RelaySizes DEF Speaks
  <1>8. TunInv(r, d)
    BY <1>5, <1>6, <1>7 DEF TunInv
  <1> QED BY <1>1, <1>8 DEF r

\* A packet of the client keeps the invariant.
LEMMA SpeaksKeeps ==
    ASSUME RelayInv(Now, tun), NEW p \in Segments, NEW d, Speaks(client, d), PacketInv(p, d),
           EdgeOf(p) = Edge(client), ClientSends(p, d)
    PROVE  RelayInv(Now', tun')
  <1> DEFINE r == Append(tun, p)
             t == [z |-> z, client |-> d, server |-> server, seen |-> seen]
  <1>1. /\ Now.z = z /\ Now.client = client /\ Now.server = server /\ Now.seen = seen
        /\ t.z = z /\ t.client = d /\ t.server = server /\ t.seen = seen
    BY DEF Now
  <1>2. Now' = t /\ tun' = r /\ Len(tun) < MaxTun
    BY DEF ClientSends, Now
  <1>3. /\ z \in RelayConns /\ client \in RelayClients /\ server \in RelayServers
        /\ seen \in SUBSET Events /\ tun \in Seq(Segments) /\ TunInv(tun, client)
        /\ client.st \in {"closed", "syn_sent", "open", "fin_sent", "reset"}
        /\ ControlInv(Now) /\ SocksInv(Now) /\ SeqInv(Now) /\ UploadInv(Now) /\ DownloadInv(Now, tun)
    BY <1>1, StateParts DEF RelayInv, RelayClients
  <1>4. t \in RelayStates
    BY <1>3, Zenon DEF RelayStates, Speaks
  <1>5. TunInv(r, d) /\ r \in Seq(Segments)
    BY <1>2, <1>3, AppendKeeps
  <1>6. Lost(t) = Lost(Now) /\ Edge(d) = Edge(client)
    BY <1>1, Zenon DEF Lost, Speaks, Edge, FinByte
  <1> HIDE DEF t
  <1>7. ControlInv(t)
    <2>1. /\ d.st # "closed" /\ d.fin = client.fin
          /\ client.st \in {"closed", "syn_sent"} => d.st = "syn_sent"
          /\ client.st \in {"open", "fin_sent", "reset"} => d.st \in {"open", "fin_sent", "reset"}
          /\ client.st \in {"fin_sent", "reset"} => d.st \in {"fin_sent", "reset"}
      BY <1>3 DEF Speaks
    <2> QED BY <2>1, <1>1, <1>3, <1>6, ZenonT(20) DEF ControlInv
  <1>8. SocksInv(t)
    BY <1>1, <1>3, Zenon DEF SocksInv
  <1>9. SeqInv(t)
    BY <1>1, <1>3, Zenon DEF SeqInv
  <1>10. UploadInv(t)
    <2>1. z.client_closed => d.snd_nxt = client.snd_nxt
      BY <1>1, <1>3 DEF ControlInv, Speaks
    <2> QED BY <2>1, <1>1, <1>3 DEF UploadInv
  <1>11. DownloadInv(t, r)
    <2>1. \A i \in 1..Len(r) : (i \in 1..Len(tun) /\ r[i] = tun[i]) \/ r[i] = p
      <3>1. Len(tun) \in Nat /\ Len(r) = Len(tun) + 1 /\ r[Len(tun) + 1] = p
            /\ \A i \in 1..Len(tun) : r[i] = tun[i]
        <4>1. Len(tun) \in Nat
          BY <1>3, LenProperties
        <4> QED BY <4>1, <1>3, AppendProperties
      <3> HIDE DEF r
      <3> QED BY <3>1
    <2> HIDE DEF r
    <2>2. /\ (d.st \in {"open", "fin_sent"} => client.st \in {"open", "fin_sent"})
          /\ client.st # "reset"
          /\ d.rcv_nxt = client.rcv_nxt /\ d.got = client.got /\ d.fin = client.fin
      BY <1>3 DEF Speaks
    <2> QED BY <2>1, <2>2, <1>1, <1>3, <1>6, Zenon DEF DownloadInv
  <1>12. ClientInv(t.client) /\ TunInv(r, t.client)
    BY <1>1, <1>5 DEF Speaks
  <1> QED BY <1>2, <1>4, <1>5, <1>7, <1>8, <1>9, <1>10, <1>11, <1>12, ZenonT(20) DEF RelayInv

\* A packet of the client carries the edge of its window.
LEMMA PacketFields ==
    ASSUME client \in RelayClients, NEW flag \in {"syn", "ack", "fin", "rst"},
           NEW seq \in Nat, NEW len \in Nat
    PROVE  LET p == Packet(flag, seq, len)
           IN  /\ p \in Segments /\ p.flag = flag /\ p.seq = seq /\ p.len = len
               /\ EdgeOf(p) = Edge(client) /\ (client.rcv_nxt = 0 => p.win = Window)
  <1> DEFINE p == Packet(flag, seq, len)
             w == FreeWindow
  <1>1. client.rcv_nxt \in Nat /\ client.read \in Nat
    BY DEF RelayClients
  <1>2. /\ w \in Int /\ client.rcv_nxt + w = Edge(client)
        /\ client.rcv_nxt = 0 => w = Window
    <2>1. CASE client.fin
      BY <2>1, <1>1, RelaySizes DEF FreeWindow, Buffered, Edge, FinByte
    <2>2. CASE ~client.fin
      BY <2>2, <1>1, RelaySizes DEF FreeWindow, Buffered, Edge, FinByte
    <2> QED BY <2>1, <2>2
  <1>3. p = [flag |-> flag, seq |-> seq, len |-> len, ack |-> client.rcv_nxt, win |-> w]
    BY DEF Packet
  <1> HIDE DEF p, w
  <1>4. p \in Segments
    BY <1>1, <1>2, <1>3, Zenon DEF Segments
  <1>5. /\ p.flag = flag /\ p.seq = seq /\ p.len = len /\ p.ack = client.rcv_nxt /\ p.win = w
    BY <1>3, Zenon
  <1>6. EdgeOf(p) = Edge(client)
    BY <1>2, <1>5 DEF EdgeOf
  <1> QED BY <1>2, <1>4, <1>5, <1>6 DEF p

\* A packet of a client that speaks.
LEMMA PacketKeeps ==
    ASSUME RelayInv(Now, tun), NEW flag \in {"syn", "ack", "fin", "rst"}, NEW seq \in Nat, NEW len \in Nat,
           NEW d, Speaks(client, d), ClientSends(Packet(flag, seq, len), d),
           flag = "syn" => seq = 0 /\ client.st \in {"closed", "syn_sent"},
           flag # "syn" => client.st \in {"open", "fin_sent"},
           flag = "fin" => d.st \in {"fin_sent", "reset"} /\ seq + len + 1 = d.snd_nxt
    PROVE  RelayInv(Now', tun')
  <1> DEFINE p == Packet(flag, seq, len)
  <1>1. client \in RelayClients /\ ClientInv(client)
    BY StateParts DEF RelayInv, Now
  <1>2. /\ p \in Segments /\ p.flag = flag /\ p.seq = seq /\ p.len = len
        /\ EdgeOf(p) = Edge(client) /\ (client.rcv_nxt = 0 => p.win = Window)
    BY <1>1, PacketFields
  <1>3. ClientSends(p, d)
    OBVIOUS
  <1> HIDE DEF p
  <1>4. Edge(d) = Edge(client) /\ Edge(client) \in Int
    <2>1. Edge(d) = Edge(client)
      BY Zenon DEF Speaks, Edge, FinByte
    <2>2. client.rcv_nxt \in Nat /\ client.read \in Nat
      BY <1>1 DEF RelayClients
    <2> QED BY <2>1, <2>2, RelaySizes DEF Edge, FinByte
  <1>5. flag # "syn" => Edge(client) >= Window + 1
    <2> SUFFICES ASSUME flag # "syn" PROVE Edge(client) >= Window + 1
      OBVIOUS
    <2>1. client.rcv_nxt > 0 /\ client.rcv_nxt \in Nat /\ client.read \in Nat
      BY <1>1 DEF ClientInv, RelayClients
    <2> QED BY <2>1, RelaySizes DEF Edge, FinByte
  <1>6. flag = "syn" => client.rcv_nxt = 0
    BY <1>1 DEF ClientInv
  <1>7. flag # "syn" => d.st \in {"open", "fin_sent", "reset"}
    BY DEF Speaks
  <1>8. PacketInv(p, d)
    BY <1>2, <1>4, <1>5, <1>6, <1>7 DEF PacketInv
  <1> QED BY <1>2, <1>3, <1>8, SpeaksKeeps

\* A client that sends something else than a SYN.
LEMMA ClientSpeaks ==
    ASSUME NEW c \in RelayClients, ClientInv(c), c.st \in {"open", "fin_sent"},
           NEW st \in {"open", "fin_sent", "reset"}, NEW nxt \in Nat,
           c.snd_nxt <= nxt, nxt <= Upload + 2,
           st = "open" => nxt <= Upload + 1 /\ c.st = "open", c.st = "fin_sent" => nxt = c.snd_nxt
    PROVE  Speaks(c, [c EXCEPT !.st = st, !.snd_nxt = nxt])
  <1> DEFINE d == [c EXCEPT !.st = st, !.snd_nxt = nxt]
  <1>1. /\ d \in RelayClients /\ d.st = st /\ d.snd_nxt = nxt /\ d.snd_una = c.snd_una
        /\ d.rcv_nxt = c.rcv_nxt /\ d.read = c.read /\ d.got = c.got /\ d.fin = c.fin
    BY DEF RelayClients
  <1> HIDE DEF d
  <1>2. c.snd_nxt \in Nat /\ c.snd_una \in Nat /\ c.rcv_nxt \in Nat
    BY DEF RelayClients
  <1>3. c.snd_una <= nxt /\ nxt # 0
    BY <1>2 DEF ClientInv
  <1>4. FinByte(d) = FinByte(c)
    BY <1>1, Zenon DEF FinByte
  <1>5. ClientInv(d)
    <2>1. c.rcv_nxt > 0 /\ c.rcv_nxt # 0
      BY <1>2 DEF ClientInv
    <2> QED BY <2>1, <1>1, <1>3, <1>4 DEF ClientInv
  <1>6. Speaks(c, d)
    BY <1>1, <1>5 DEF Speaks
  <1> QED BY <1>6 DEF d

\* A client that sends and is as before.
LEMMA SameSpeaks ==
    ASSUME NEW c \in RelayClients, ClientInv(c), c.st \in {"syn_sent", "open", "fin_sent"}
    PROVE  Speaks(c, c)
  BY DEF Speaks

\* The SYN of the client.
LEMMA ClientSynStep ==
    ASSUME RelayInv(Now, tun), ClientSyn
    PROVE  RelayInv(Now', tun')
  <1> DEFINE d == [client EXCEPT !.st = "syn_sent", !.snd_nxt = 1]
  <1>1. client \in RelayClients /\ ClientInv(client) /\ client.st = "closed"
    BY StateParts DEF RelayInv, Now, ClientSyn
  <1>2. ClientSends(Packet("syn", 0, 0), d)
    BY DEF ClientSyn
  <1>3. /\ d \in RelayClients /\ d.st = "syn_sent" /\ d.snd_nxt = 1 /\ d.snd_una = client.snd_una
        /\ d.rcv_nxt = client.rcv_nxt /\ d.read = client.read /\ d.got = client.got
        /\ d.fin = client.fin
    BY <1>1 DEF RelayClients
  <1> HIDE DEF d
  <1>4. FinByte(d) = FinByte(client)
    BY <1>3, Zenon DEF FinByte
  <1>5. ClientInv(d)
    <2>1. client.snd_una \in Nat /\ client.rcv_nxt = 0 /\ client.snd_nxt = 0 /\ client.snd_una <= 0
          /\ client.read = 0 /\ client.got = <<>> /\ ~client.fin
      BY <1>1 DEF ClientInv, RelayClients
    <2>2. client.snd_una <= 1
      BY <2>1
    <2> QED BY <2>1, <2>2, <1>3, RelaySizes DEF ClientInv
  <1>6. Speaks(client, d)
    BY <1>1, <1>3, <1>5 DEF Speaks
  <1> QED BY <1>1, <1>2, <1>6, PacketKeeps

\* The other packets of the client: the state of its TCP and the last number move on.
LEMMA ClientMoves ==
    ASSUME RelayInv(Now, tun), NEW flag \in {"ack", "fin", "rst"}, NEW seq \in Nat, NEW len \in Nat,
           client.st \in {"open", "fin_sent"},
           NEW st \in {"open", "fin_sent", "reset"}, NEW nxt \in Nat,
           client.snd_nxt <= nxt, nxt <= Upload + 2,
           st = "open" => nxt <= Upload + 1 /\ client.st = "open",
           client.st = "fin_sent" => nxt = client.snd_nxt,
           flag = "fin" => st \in {"fin_sent", "reset"} /\ seq + len + 1 = nxt,
           NEW d, d = [client EXCEPT !.st = st, !.snd_nxt = nxt],
           ClientSends(Packet(flag, seq, len), d)
    PROVE  RelayInv(Now', tun')
  <1>1. client \in RelayClients /\ ClientInv(client)
    BY StateParts DEF RelayInv, Now
  <1>2. Speaks(client, d)
    BY <1>1, ClientSpeaks
  <1>3. d.st = st /\ d.snd_nxt = nxt
    BY <1>1 DEF RelayClients
  <1> QED BY <1>2, <1>3, PacketKeeps

\* The packets of the client keep the invariant.
LEMMA ClientStep ==
    ASSUME RelayInv(Now, tun),
           \/ ClientSyn
           \/ \E n \in 1..2 : ClientData(n)
           \/ ClientRetransmit
           \/ ClientAck
           \/ ClientProbe
           \/ \E n \in 0..1 : ClientFin(n)
           \/ ClientReset
    PROVE  RelayInv(Now', tun')
  <1>1. client \in RelayClients /\ ClientInv(client)
    BY StateParts DEF RelayInv, Now
  <1>2. client.snd_nxt \in Nat /\ client.snd_una \in Nat /\ client.snd_una <= client.snd_nxt
        /\ client.snd_nxt <= Upload + 2 /\ (client.st = "open" => client.snd_nxt <= Upload + 1)
        /\ (client.st # "closed" => client.snd_nxt # 0)
    BY <1>1 DEF RelayClients, ClientInv
  <1>3. CASE ClientSyn
    BY <1>3, ClientSynStep
  <1>4. ASSUME NEW n \in 1..2, ClientData(n)
        PROVE  RelayInv(Now', tun')
    <2> DEFINE nxt == client.snd_nxt + n
               d == [client EXCEPT !.st = "open", !.snd_nxt = nxt]
    <2>1. client.st = "open" /\ nxt <= Upload + 1
      BY <1>4 DEF ClientData
    <2>2. ClientSends(Packet("ack", client.snd_nxt, n), d)
      <3>1. d = [client EXCEPT !.snd_nxt = @ + n]
        BY <2>1, <1>1 DEF RelayClients
      <3> HIDE DEF d
      <3> QED BY <3>1, <1>4 DEF ClientData
    <2>3. nxt \in Nat /\ client.snd_nxt <= nxt /\ nxt <= Upload + 2 /\ n \in Nat
      BY <2>1, <1>2, RelaySizes
    <2> HIDE DEF nxt, d
    <2>4. d = [client EXCEPT !.st = "open", !.snd_nxt = nxt]
      BY DEF d
    <2> QED BY <2>1, <2>2, <2>3, <2>4, <1>2, ClientMoves
  <1>5. CASE ClientRetransmit
    <2>1. CASE client.st = "syn_sent" /\ ClientSends(Packet("syn", 0, 0), client)
      <3>1. Speaks(client, client)
        BY <2>1, <1>1, SameSpeaks
      <3> QED BY <2>1, <3>1, PacketKeeps
    <2>2. CASE /\ client.st = "open" /\ client.snd_una < client.snd_nxt
               /\ ClientSends(Packet("ack", client.snd_una, client.snd_nxt - client.snd_una), client)
      <3>1. Speaks(client, client) /\ client.snd_nxt - client.snd_una \in Nat
        BY <2>2, <1>1, <1>2, SameSpeaks
      <3> QED BY <2>2, <3>1, <1>2, PacketKeeps
    <2>3. CASE /\ client.st = "fin_sent" /\ client.snd_una < client.snd_nxt
               /\ ClientSends(Packet("fin", client.snd_una, client.snd_nxt - client.snd_una - 1), client)
      <3> DEFINE k == client.snd_nxt - client.snd_una - 1
      <3>1. Speaks(client, client)
        BY <2>3, <1>1, SameSpeaks
      <3>2. k \in Nat /\ client.snd_una + k + 1 = client.snd_nxt
        BY <2>3, <1>2
      <3>3. ClientSends(Packet("fin", client.snd_una, k), client)
        BY <2>3
      <3> HIDE DEF k
      <3> QED BY <2>3, <3>1, <3>2, <3>3, <1>2, PacketKeeps
    <2> QED BY <2>1, <2>2, <2>3, <1>5 DEF ClientRetransmit
  <1>6. CASE ClientAck
    <2>1. Speaks(client, client)
      BY <1>1, <1>6, SameSpeaks DEF ClientAck
    <2> QED BY <2>1, <1>2, <1>6, PacketKeeps DEF ClientAck
  <1>7. CASE ClientProbe
    <2> DEFINE k == client.snd_nxt - 1
    <2>1. Speaks(client, client) /\ client.st = "open"
      BY <1>1, <1>7, SameSpeaks DEF ClientProbe
    <2>2. k \in Nat
      BY <2>1, <1>2
    <2>3. ClientSends(Packet("ack", k, 0), client)
      BY <1>7 DEF ClientProbe
    <2> HIDE DEF k
    <2> QED BY <2>1, <2>2, <2>3, PacketKeeps
  <1>8. ASSUME NEW n \in 0..1, ClientFin(n)
        PROVE  RelayInv(Now', tun')
    <2> DEFINE nxt == client.snd_nxt + n + 1
               d == [client EXCEPT !.st = "fin_sent", !.snd_nxt = nxt]
    <2>1. client.st = "open" /\ client.snd_nxt + n <= Upload + 1
      BY <1>8 DEF ClientFin
    <2>2. ClientSends(Packet("fin", client.snd_nxt, n), d)
      BY <1>8 DEF ClientFin
    <2>3. nxt \in Nat /\ client.snd_nxt <= nxt /\ nxt <= Upload + 2 /\ n \in Nat
          /\ client.snd_nxt + n + 1 = nxt
      BY <2>1, <1>2, RelaySizes
    <2>4. d = [client EXCEPT !.st = "fin_sent", !.snd_nxt = nxt]
      OBVIOUS
    <2> HIDE DEF nxt, d
    <2> QED BY <2>1, <2>2, <2>3, <2>4, <1>2, ClientMoves
  <1>9. CASE ClientReset
    <2> DEFINE d == [client EXCEPT !.st = "reset"]
    <2>1. client.st \in {"open", "fin_sent"} /\ ClientSends(Packet("rst", client.snd_nxt, 0), d)
      BY <1>9 DEF ClientReset
    <2>2. d = [client EXCEPT !.st = "reset", !.snd_nxt = client.snd_nxt]
      BY <1>1 DEF RelayClients
    <2> HIDE DEF d
    <2>3. client.snd_nxt <= client.snd_nxt
      BY <1>2
    <2> QED BY <2>1, <2>2, <2>3, <1>2, ClientMoves
  <1> QED BY <1>3, <1>4, <1>5, <1>6, <1>7, <1>8, <1>9

-----------------------------------------------------------------------------
(* The server and the reads of the client.                                 *)

\* How much the peer may send, in each state of the handshake.
LEMMA SendableFacts ==
    ASSUME RelayInv(Now, tun), z.sock, NEW n \in Nat, n < Sendable
    PROVE  /\ n + 1 <= HsLen(z) + Download
           /\ z.status = "connecting" => ~z.proxied
           /\ z.status = "connected" /\ z.socks5_status = "hello" => n + 1 <= 2
           /\ z.status = "connected" /\ z.socks5_status = "auth" => n + 1 <= 4
  <1>1. Now.z = z /\ ControlInv(Now) /\ SocksInv(Now) /\ z \in RelayConns
    BY StateParts DEF RelayInv, Now
  <1>2. z.socks5_status \in {"none", "hello", "auth", "connecting", "skip_bnd", "established"}
    BY <1>1, Zenon DEF RelayConns
  <1>3. /\ z.status \in {"connecting", "connected"}
        /\ z.status = "connecting" => z.socks5_status = "none"
        /\ z.status = "connected" /\ z.socks5_status # "none" => z.proxied
    BY <1>1 DEF ControlInv
  <1>4. Len(Stream) = HsLen(z) + Download /\ Download \in Nat
        /\ (z.proxied => HsLen(z) \in {6, 8}) /\ (~z.proxied => HsLen(z) = 0)
    BY StreamFacts, RelaySizes DEF HsLen
  <1>5. Len(Choice) = 2 /\ Len(AuthOk) = 2
    BY DEF Choice, AuthOk
  <1>6. CASE z.socks5_status = "none"
    <2>1. CASE z.proxied
      <3>1. Sendable = 0
        BY <1>6, <2>1 DEF Sendable
      <3> QED BY <3>1
    <2>2. CASE ~z.proxied
      <3>1. Sendable = HsLen(z) + Download
        BY <1>4, <1>6, <2>2 DEF Sendable
      <3> QED BY <3>1, <2>2, <1>4, <1>6
    <2> QED BY <2>1, <2>2
  <1>7. CASE z.socks5_status = "hello"
    <2>1. Sendable = 2
      BY <1>5, <1>7 DEF Sendable
    <2> QED BY <2>1, <1>3, <1>4, <1>7
  <1>8. CASE z.socks5_status = "auth"
    <2>1. Sendable = 4
      BY <1>5, <1>8 DEF Sendable
    <2> QED BY <2>1, <1>3, <1>4, <1>8
  <1>9. CASE z.socks5_status \in {"connecting", "skip_bnd", "established"}
    <2>1. Sendable = HsLen(z) + Download
      BY <1>4, <1>9 DEF Sendable
    <2> QED BY <2>1, <1>3, <1>4, <1>9
  <1> QED BY <1>2, <1>6, <1>7, <1>8, <1>9

\* A state in which the peer went on, as far as the handshake allows.
PeerWent(v, w) ==
    /\ w \in RelayServers /\ w.taken = v.taken /\ w.shut = v.shut /\ w.out = v.out
    /\ v.fin => w.fin
    /\ w.sent = v.sent \/ (w.sent = v.sent + 1 /\ v.sent < Sendable)

\* The peer sends a byte or closes.
LEMMA PeerKeeps ==
    ASSUME RelayInv(Now, tun), z.sock, NEW w, PeerWent(server, w), server' = w,
           UNCHANGED <<z, client, tun, seen>>
    PROVE  RelayInv(Now', tun')
  <1> DEFINE t == [z |-> z, client |-> client, server |-> w, seen |-> seen]
  <1>1. /\ Now.z = z /\ Now.client = client /\ Now.server = server /\ Now.seen = seen
        /\ t.z = z /\ t.client = client /\ t.server = w /\ t.seen = seen
    BY DEF Now
  <1>2. Now' = t /\ tun' = tun
    BY DEF Now
  <1>3. /\ z \in RelayConns /\ client \in RelayClients /\ server \in RelayServers
        /\ seen \in SUBSET Events /\ tun \in Seq(Segments) /\ ClientInv(client) /\ TunInv(tun, client)
        /\ ControlInv(Now) /\ SocksInv(Now) /\ SeqInv(Now) /\ UploadInv(Now) /\ DownloadInv(Now, tun)
    BY <1>1, StateParts DEF RelayInv
  <1>4. t \in RelayStates
    BY <1>3, Zenon DEF RelayStates, PeerWent
  <1>5. Lost(t) = Lost(Now)
    BY <1>1, Zenon DEF Lost
  <1> HIDE DEF t
  <1>6. server.sent \in Nat /\ server.taken \in Nat /\ server.taken <= server.sent /\ w.sent \in Nat
        /\ w.taken = server.taken /\ w.shut = server.shut /\ w.out = server.out
        /\ (server.fin => w.fin) /\ server.sent <= HsLen(z) + Download
    BY <1>1, <1>3 DEF RelayServers, PeerWent, ControlInv
  <1>7. /\ w.taken <= w.sent /\ w.sent <= HsLen(z) + Download
        /\ \/ w.sent = server.sent
           \/ /\ z.status = "connecting" => ~z.proxied
              /\ z.status = "connected" /\ z.socks5_status = "hello" => w.sent <= 2
              /\ z.status = "connected" /\ z.socks5_status = "auth" => w.sent <= 4
    <2>1. CASE w.sent = server.sent
      BY <1>6, <2>1
    <2>2. CASE w.sent = server.sent + 1 /\ server.sent < Sendable
      <3>1. /\ server.sent + 1 <= HsLen(z) + Download
            /\ z.status = "connecting" => ~z.proxied
            /\ z.status = "connected" /\ z.socks5_status = "hello" => server.sent + 1 <= 2
            /\ z.status = "connected" /\ z.socks5_status = "auth" => server.sent + 1 <= 4
        BY <1>6, <2>2, SendableFacts
      <3>2. w.taken <= w.sent
        BY <1>6, <2>2
      <3> QED BY <3>1, <3>2, <2>2
    <2> QED BY <2>1, <2>2 DEF PeerWent
  <1>8. z.status \in {"connecting", "connected"} /\ ~z.fin_ack_sent /\ ~client.fin
    BY <1>1, <1>3 DEF ControlInv
  <1>9. ControlInv(t)
    BY <1>1, <1>3, <1>5, <1>6, <1>7, <1>8, ZenonT(20) DEF ControlInv
  <1>10. SocksInv(t)
    BY <1>1, <1>3, <1>6, <1>7 DEF SocksInv
  <1>11. SeqInv(t)
    BY <1>1, <1>3, <1>6, Zenon DEF SeqInv
  <1>12. UploadInv(t)
    BY <1>1, <1>3, <1>6, Zenon DEF UploadInv
  <1>13. DownloadInv(t, tun)
    BY <1>1, <1>3, <1>5, <1>6, <1>8, ZenonT(20) DEF DownloadInv
  <1>14. ClientInv(t.client) /\ TunInv(tun, t.client)
    BY <1>1, <1>3
  <1> QED BY <1>2, <1>3, <1>4, <1>9, <1>10, <1>11, <1>12, <1>13, <1>14, ZenonT(20) DEF RelayInv

\* The steps of the server and of the proxy keep the invariant.
LEMMA ServerStep ==
    ASSUME RelayInv(Now, tun), Server
    PROVE  RelayInv(Now', tun')
  <1>1. server \in RelayServers
    BY StateParts DEF RelayInv, Now
  <1>2. CASE ServerUp
    <2> DEFINE w == [server EXCEPT !.up = TRUE]
    <2>1. Now' = [Now EXCEPT !.server.up = TRUE]
      <3>1. [Now EXCEPT !.server.up = TRUE] = [Now EXCEPT !.server = w]
        BY DEF Now
      <3>2. server' = w /\ z' = z /\ client' = client /\ seen' = seen
        BY <1>2 DEF ServerUp
      <3> HIDE DEF w
      <3>3. [Now EXCEPT !.server = w] = [z |-> z, client |-> client, server |-> w, seen |-> seen]
        BY DEF Now
      <3>4. Now' = [z |-> z, client |-> client, server |-> w, seen |-> seen]
        BY <3>2 DEF Now
      <3> QED BY <3>1, <3>3, <3>4
    <2>2. RelayInv([Now EXCEPT !.server.up = TRUE], tun)
      BY UpKeeps
    <2>3. tun' = tun
      BY <1>2 DEF ServerUp
    <2> QED BY <2>1, <2>2, <2>3
  <1>3. CASE ServerSend
    <2> DEFINE w == [server EXCEPT !.sent = @ + 1]
    <2>1. z.sock /\ server.sent < Sendable /\ server' = w /\ UNCHANGED <<z, client, tun, seen>>
      BY <1>3 DEF ServerSend
    <2>2. w = [up |-> server.up, sent |-> server.sent + 1, taken |-> server.taken,
               fin |-> server.fin, shut |-> server.shut, out |-> server.out]
      <3>1. w = [server EXCEPT !.sent = @ + 1]
        OBVIOUS
      <3> HIDE DEF w
      <3> QED BY <1>1, <3>1 DEF RelayServers
    <2> HIDE DEF w
    <2>3. server.sent + 1 \in Nat
      BY <1>1 DEF RelayServers
    <2>4. w \in RelayServers
      BY <1>1, <2>2, <2>3, Zenon DEF RelayServers
    <2>5. w.sent = server.sent + 1 /\ w.taken = server.taken /\ w.fin = server.fin
          /\ w.shut = server.shut /\ w.out = server.out
      BY <2>2, Zenon
    <2>6. PeerWent(server, w)
      BY <2>1, <2>4, <2>5, Zenon DEF PeerWent
    <2> QED BY <2>1, <2>6, PeerKeeps
  <1>4. CASE ServerFin
    <2> DEFINE w == [server EXCEPT !.fin = TRUE]
    <2>1. z.sock /\ server' = w /\ UNCHANGED <<z, client, tun, seen>>
      BY <1>4 DEF ServerFin
    <2>2. w = [up |-> server.up, sent |-> server.sent, taken |-> server.taken,
               fin |-> TRUE, shut |-> server.shut, out |-> server.out]
      <3>1. w = [server EXCEPT !.fin = TRUE]
        OBVIOUS
      <3> HIDE DEF w
      <3> QED BY <1>1, <3>1 DEF RelayServers
    <2> HIDE DEF w
    <2>3. w \in RelayServers
      BY <1>1, <2>2, Zenon DEF RelayServers
    <2>4. w.sent = server.sent /\ w.taken = server.taken /\ w.fin
          /\ w.shut = server.shut /\ w.out = server.out
      BY <2>2, Zenon
    <2>5. PeerWent(server, w)
      BY <2>3, <2>4, Zenon DEF PeerWent
    <2> QED BY <2>1, <2>5, PeerKeeps
  <1> QED BY <1>2, <1>3, <1>4 DEF Server

\* The application reads: the window of the client moves to the right.
LEMMA ReadStep ==
    ASSUME RelayInv(Now, tun), ClientRead
    PROVE  RelayInv(Now', tun')
  <1> DEFINE k == client.read + Buffered
             d == [client EXCEPT !.read = k]
             t == [z |-> z, client |-> d, server |-> server, seen |-> seen]
  <1>1. /\ Now.z = z /\ Now.client = client /\ Now.server = server /\ Now.seen = seen
        /\ t.z = z /\ t.client = d /\ t.server = server /\ t.seen = seen
    BY DEF Now
  <1>2. Now' = t /\ tun' = tun /\ client.rcv_nxt > 0 /\ Buffered > 0
    BY DEF ClientRead, Now
  <1>3. /\ z \in RelayConns /\ client \in RelayClients /\ server \in RelayServers
        /\ seen \in SUBSET Events /\ tun \in Seq(Segments) /\ ClientInv(client) /\ TunInv(tun, client)
        /\ ControlInv(Now) /\ SocksInv(Now) /\ SeqInv(Now) /\ UploadInv(Now) /\ DownloadInv(Now, tun)
    BY <1>1, StateParts DEF RelayInv
  <1>4. client.rcv_nxt \in Nat /\ client.read \in Nat /\ client.fin \in BOOLEAN
    BY <1>3, Zenon DEF RelayClients
  <1>5. /\ FinByte(client) \in {0, 1} /\ k \in Nat /\ client.read < k
        /\ k + FinByte(client) + 1 = client.rcv_nxt
    BY <1>2, <1>4 DEF Buffered, FinByte
  <1>6. d = [st |-> client.st, snd_nxt |-> client.snd_nxt, snd_una |-> client.snd_una,
             rcv_nxt |-> client.rcv_nxt, read |-> k, got |-> client.got, fin |-> client.fin]
    <2>1. d = [client EXCEPT !.read = k]
      OBVIOUS
    <2> HIDE DEF d, k
    <2> QED BY <1>3, <2>1 DEF RelayClients
  <1> HIDE DEF k, d
  <1>7. d \in RelayClients
    BY <1>3, <1>5, <1>6, Zenon DEF RelayClients
  <1>8. /\ d.st = client.st /\ d.snd_nxt = client.snd_nxt /\ d.snd_una = client.snd_una
        /\ d.rcv_nxt = client.rcv_nxt /\ d.read = k /\ d.got = client.got /\ d.fin = client.fin
    BY <1>6, Zenon
  <1>9. FinByte(d) = FinByte(client)
    BY <1>8, Zenon DEF FinByte
  <1>10. Edge(client) \in Nat /\ Edge(d) \in Nat /\ Edge(client) <= Edge(d)
    <2>1. Edge(client) = (Window + 1) + FinByte(client) + client.read
      BY <1>2, <1>4 DEF Edge
    <2>2. Edge(d) = (Window + 1) + FinByte(client) + k
      BY <1>2, <1>4, <1>8, <1>9 DEF Edge
    <2> QED BY <2>1, <2>2, <1>4, <1>5, RelaySizes
  <1>11. ClientInv(d)
    <2>1. 1 + FinByte(d) + d.read <= d.rcv_nxt /\ d.rcv_nxt <= (Window + 1) + FinByte(d) + d.read
          /\ d.rcv_nxt # 0
      BY <1>2, <1>4, <1>5, <1>8, <1>9, RelaySizes
    <2> QED BY <2>1, <1>3, <1>8, Zenon DEF ClientInv
  <1>12. client.st # "closed"
    BY <1>2, <1>3, <1>4 DEF ClientInv
  <1>13. TunInv(tun, d)
    BY <1>3, <1>7, <1>8, <1>10, <1>12, TunKeeps
  <1>14. Lost(t) = Lost(Now)
    BY <1>1, Zenon DEF Lost
  <1>15. t \in RelayStates
    BY <1>3, <1>7, Zenon DEF RelayStates
  <1> HIDE DEF t
  <1>16. ControlInv(t)
    BY <1>1, <1>3, <1>8, <1>14, ZenonT(20) DEF ControlInv
  <1>17. SocksInv(t) /\ SeqInv(t)
    <2>1. SocksInv(t)
      BY <1>1, <1>3, Zenon DEF SocksInv
    <2>2. SeqInv(t)
      BY <1>1, <1>3, Zenon DEF SeqInv
    <2> QED BY <2>1, <2>2
  <1>18. UploadInv(t)
    BY <1>1, <1>3, <1>8, Zenon DEF UploadInv
  <1>19. DownloadInv(t, tun)
    <2>1. z.window_size \in Nat /\ z.zdtun_seq \in Nat
      BY <1>3, RelayConstants DEF RelayConns
    <2>2. z.zdtun_seq + z.window_size <= Edge(client) => z.zdtun_seq + z.window_size <= Edge(d)
      BY <2>1, <1>10
    <2>3. z.window_size + client.rcv_nxt <= Edge(client) => z.window_size + d.rcv_nxt <= Edge(d)
      BY <2>1, <1>4, <1>8, <1>10
    <2> QED BY <2>2, <2>3, <1>1, <1>3, <1>8, <1>14 DEF DownloadInv
  <1>20. ClientInv(t.client) /\ TunInv(tun, t.client)
    BY <1>1, <1>11, <1>13
  <1> QED BY <1>2, <1>3, <1>15, <1>16, <1>17, <1>18, <1>19, <1>20, ZenonT(20) DEF RelayInv

\* No connection, and a client that has not spoken yet.
LEMMA RelayStarts ==
    ASSUME TcpInit
    PROVE  RelayInv(Now, tun)
  <1> DEFINE s == Now
  <1>1. /\ s.z = NoConn /\ tun = <<>> /\ s.seen = {}
        /\ s.client = [st |-> "closed", snd_nxt |-> 0, snd_una |-> 0, rcv_nxt |-> 0,
                       read |-> 0, got |-> <<>>, fin |-> FALSE]
        /\ s.server = [up |-> FALSE, sent |-> 0, taken |-> 0, fin |-> FALSE, shut |-> FALSE,
                       out |-> <<>>]
    BY DEF Now, TcpInit
  <1>2. s = [z |-> s.z, client |-> s.client, server |-> s.server, seen |-> s.seen]
    BY DEF Now
  <1> HIDE DEF s
  <1>3. 0 \in 0..(WindowMod - 1) /\ 0 \in Nat /\ 0 \in Int /\ <<>> \in Seq(Int) /\ <<>> \in Seq(Units)
        /\ <<>> \in Seq(Segments) /\ Len(<<>>) = 0
    BY RelayConstants, EmptySeq
  <1>4. /\ s.z.status = "none" /\ ~s.z.sock /\ ~s.z.fin_ack_sent /\ s.z.zdtun_seq = 0
        /\ ~s.z.proxied /\ ~s.z.client_closed /\ s.z.socks5_status = "none"
        /\ s.client.st = "closed" /\ s.client.snd_nxt = 0 /\ s.client.snd_una = 0
        /\ s.client.rcv_nxt = 0 /\ s.client.read = 0 /\ s.client.got = <<>> /\ ~s.client.fin
        /\ s.server.sent = 0 /\ s.server.taken = 0 /\ ~s.server.shut /\ s.server.out = <<>>
    <2>1. /\ NoConn.status = "none" /\ ~NoConn.sock /\ ~NoConn.fin_ack_sent /\ NoConn.zdtun_seq = 0
          /\ ~NoConn.proxied /\ ~NoConn.client_closed /\ NoConn.socks5_status = "none"
      BY DEF NoConn
    <2>2. /\ s.client.st = "closed" /\ s.client.snd_nxt = 0 /\ s.client.snd_una = 0
          /\ s.client.rcv_nxt = 0 /\ s.client.read = 0 /\ s.client.got = <<>> /\ ~s.client.fin
      BY <1>1
    <2>3. s.server.sent = 0 /\ s.server.taken = 0 /\ ~s.server.shut /\ s.server.out = <<>>
      BY <1>1
    <2> QED BY <1>1, <2>1, <2>2, <2>3
  <1>5. s \in RelayStates
    <2>1. s.z \in RelayConns
      <3>1. NoConn \in RelayConns
        BY <1>3 DEF RelayConns, NoConn
      <3> QED BY <3>1, <1>1
    <2>2. s.client \in RelayClients
      BY <1>1, <1>3 DEF RelayClients
    <2>3. s.server \in RelayServers
      BY <1>1, <1>3 DEF RelayServers
    <2> QED BY <1>1, <1>2, <2>1, <2>2, <2>3, Zenon DEF RelayStates
  <1>6. ClientInv(s.client)
    BY <1>4, RelaySizes DEF ClientInv
  <1>7. TunInv(tun, s.client)
    BY <1>1, <1>3, RelaySizes DEF TunInv
  <1>8. HsLen(s.z) = 0
    BY <1>4 DEF HsLen
  <1>9. ControlInv(s)
    BY <1>1, <1>4, <1>8, RelaySizes DEF ControlInv, Relays
  <1>10. SocksInv(s)
    BY <1>4 DEF SocksInv
  <1>11. SeqInv(s)
    BY <1>4, <1>8, RelaySizes DEF SeqInv, Relays, SocksInProgress
  <1>12. UploadInv(s)
    <2>1. Up(0) = <<>>
      BY UpNone
    <2> QED BY <2>1, <1>3, <1>4 DEF UploadInv
  <1>13. DownloadInv(s, tun)
    BY <1>1, <1>4 DEF DownloadInv, Relays
  <1>14. RelayInv(s, tun)
    BY <1>1, <1>3, <1>5, <1>6, <1>7, <1>9, <1>10, <1>11, <1>12, <1>13, ZenonT(20) DEF RelayInv
  <1> QED BY <1>14 DEF s

\* Every step keeps the invariant.
LEMMA RelayGoesOn ==
    ASSUME RelayInv(Now, tun), [TcpNext]_tcpVars
    PROVE  RelayInv(Now', tun')
  <1>1. CASE Client
    BY <1>1, ClientStep, ReadStep DEF Client
  <1>2. CASE Server
    BY <1>2, ServerStep
  <1>3. CASE TunPacket
    BY <1>3, TunStep
  <1>4. CASE handle_tcp_reply
    BY <1>4, ReplyStep
  <1>5. CASE handle_tcp_connect_async
    BY <1>5, ConnectStep
  <1>6. CASE handle_queued_tcp_data
    BY <1>6, FlushStep
  <1>7. CASE SocketError
    BY <1>7, ErrorStep
  <1>8. CASE UNCHANGED tcpVars
    BY <1>8 DEF tcpVars, Now
  <1> QED BY <1>1, <1>2, <1>3, <1>4, <1>5, <1>6, <1>7, <1>8 DEF TcpNext

-----------------------------------------------------------------------------
(* The two streams.                                                        *)

\* The types, the bytes for the server and what was acknowledged follow.
LEMMA RelayUpload ==
    ASSUME RelayInv(Now, tun)
    PROVE  UploadInOrder
  <1>1. Now.z = z /\ Now.client = client /\ Now.server = server /\ Now.seen = seen
    BY DEF Now
  <1>2. /\ z \in RelayConns /\ client \in RelayClients /\ server \in RelayServers
        /\ seen \in SUBSET Events /\ ClientInv(client) /\ TunInv(tun, client)
        /\ ControlInv(Now) /\ SeqInv(Now) /\ UploadInv(Now)
    BY <1>1, StateParts DEF RelayInv
  <1>3. TcpTypeOK
    <2>1. /\ z.status \in {"none", "connecting", "connected", "closed"}
          /\ z.socks5_status \in {"none", "hello", "auth", "connecting", "skip_bnd", "established"}
          /\ z.client_seq \in Nat /\ z.window_size \in 0..(WindowMod - 1) /\ z.zdtun_seq \in Nat
      BY <1>2, Zenon DEF RelayConns
    <2>2. /\ client.st \in {"closed", "syn_sent", "open", "fin_sent", "reset"}
          /\ client.snd_nxt \in Nat
      BY <1>2, Zenon DEF RelayClients
    <2>3. z.zdtun_seq \in 0..(Download + 2)
      BY <1>1, <1>2, <2>1, RelaySizes DEF SeqInv
    <2>4. client.snd_nxt \in 0..(Upload + 2)
      BY <1>2, <2>2, RelaySizes DEF ClientInv
    <2>5. z.sock => z.status \in {"connecting", "connected"}
      BY <1>1, <1>2 DEF ControlInv
    <2>6. server.taken <= server.sent /\ server.sent <= Len(Stream)
      BY <1>1, <1>2, StreamFacts DEF ControlInv
    <2>7. Len(tun) <= MaxTun
      BY <1>2 DEF TunInv
    <2> QED BY <1>2, <2>1, <2>2, <2>3, <2>4, <2>5, <2>6, <2>7 DEF TcpTypeOK
  <1>4. "probe_with_data" \in seen \/ server.out = Up(Len(server.out))
    BY <1>1, <1>2 DEF UploadInv
  <1>5. AckedIsSentUnlessOdd
    <2> SUFFICES ASSUME {"fin_with_data", "fin_repeated", "probe_with_data"} \cap seen = {},
                        z.sock, z.status = "connected"
                 PROVE  z.client_seq = 1 + Len(server.out) + (IF z.client_closed THEN 1 ELSE 0)
      BY DEF AckedIsSentUnlessOdd, AckedIsSent
    <2>1. "probe_with_data" \notin seen
      OBVIOUS
    <2>2. Len(server.out) \in Nat
      BY <1>2, LenProperties DEF RelayServers
    <2>3. CASE z.client_closed
      <3>1. z.client_seq = 2 + Len(server.out)
        BY <1>1, <1>2, <2>3 DEF UploadInv
      <3> QED BY <3>1, <2>2, <2>3
    <2>4. CASE ~z.client_closed
      <3>1. ~server.shut
        BY <1>1, <1>2, <2>4 DEF ControlInv
      <3>2. z.client_seq = 1 + Len(server.out)
        BY <3>1, <2>1, <1>1, <1>2 DEF UploadInv
      <3> QED BY <3>2, <2>2, <2>4
    <2> QED BY <2>3, <2>4
  <1> QED BY <1>3, <1>4, <1>5 DEF UploadInOrder

\* The bytes for the client, its end of the stream and its window follow.
LEMMA RelayDownload ==
    ASSUME RelayInv(Now, tun)
    PROVE  DownloadInOrder
  <1>1. Now.z = z /\ Now.client = client /\ Now.server = server /\ Now.seen = seen
    BY DEF Now
  <1>2. /\ z \in RelayConns /\ client \in RelayClients /\ server \in RelayServers
        /\ ClientInv(client) /\ ControlInv(Now) /\ SocksInv(Now) /\ DownloadInv(Now, tun)
    BY <1>1, StateParts DEF RelayInv
  <1>3. Len(Handshake) = HsLen(z)
    BY StreamFacts
  <1>4. seen \cap {"overrun", "before_syn_ack"} = {} => ~Lost(Now)
    BY <1>1 DEF Lost
  <1>5. BytesInOrder
    <2> SUFFICES ASSUME seen \cap {"overrun", "before_syn_ack"} = {}, z.status = "connected",
                        client.st \notin {"reset", "closed"}
                 PROVE  client.got = Up(server.taken - HsLen(z))
      BY <1>3 DEF BytesInOrder
    <2>1. CASE SocksInProgress(z)
      <3>1. client.st = "syn_sent" /\ client.got = <<>>
        BY <2>1, <1>1, <1>2 DEF ControlInv, ClientInv
      <3>2. server.taken \in Nat /\ z.proxied /\ z.socks5_skip \in Int
            /\ z.socks5_status \in {"none", "hello", "auth", "connecting", "skip_bnd"}
        BY <2>1, <1>2 DEF RelayServers, RelayConns, SocksInProgress
      <3>3. HsLen(z) \in {6, 8} /\ (Auth => HsLen(z) = 8)
        BY <3>2 DEF HsLen
      <3>4. server.taken - HsLen(z) \in Int /\ server.taken - HsLen(z) <= 0
        BY <3>2, <3>3, <1>1, <1>2 DEF SocksInv
      <3> QED BY <3>1, <3>4, UpNone
    <2>2. CASE ~SocksInProgress(z)
      <3>1. Relays(z)
        BY <2>2 DEF Relays
      <3>2. client.st \in {"open", "fin_sent"}
        BY <3>1, <1>1, <1>2, <1>4 DEF ControlInv
      <3> QED BY <3>1, <3>2, <1>1, <1>2, <1>4 DEF DownloadInv
    <2> QED BY <2>1, <2>2
  <1>6. FinAfterServer
    <2> SUFFICES ASSUME client.fin, seen \cap {"zero_window", "overrun", "before_syn_ack"} = {}
                 PROVE  server.fin /\ client.got = Up(server.sent - HsLen(z))
      BY <1>3 DEF FinAfterServer
    <2>1. ~Lost(Now) /\ "zero_window" \notin seen
      BY <1>4
    <2> QED BY <2>1, <1>1, <1>2 DEF DownloadInv
  <1>7. WindowRespected
    <2> SUFFICES ASSUME "first_ack" \in seen, seen \cap {"overrun", "before_syn_ack"} = {},
                        client.st # "reset"
                 PROVE  z.window_size <= FreeWindow
      BY DEF WindowRespected
    <2>1. client.rcv_nxt > 0 /\ z.window_size + client.rcv_nxt <= Edge(client)
      BY <1>1, <1>2, <1>4 DEF DownloadInv
    <2>2. client.rcv_nxt \in Nat /\ client.read \in Nat /\ z.window_size \in 0..(WindowMod - 1)
      BY <1>2, Zenon DEF RelayClients, RelayConns
    <2>3. z.window_size \in Nat
      BY <2>2, RelayConstants
    <2>4. CASE client.fin
      <3>1. Edge(client) = (Window + 1) + 1 + client.read /\ Buffered = client.rcv_nxt - 2 - client.read
        BY <2>1, <2>2, <2>4 DEF Edge, FinByte, Buffered
      <3>2. FreeWindow = Window - Buffered
        BY <2>1, <2>2 DEF FreeWindow
      <3> QED BY <3>1, <3>2, <2>1, <2>2, <2>3, RelaySizes
    <2>5. CASE ~client.fin
      <3>1. Edge(client) = (Window + 1) + 0 + client.read /\ Buffered = client.rcv_nxt - 1 - client.read
        BY <2>1, <2>2, <2>5 DEF Edge, FinByte, Buffered
      <3>2. FreeWindow = Window - Buffered
        BY <2>1, <2>2 DEF FreeWindow
      <3> QED BY <3>1, <3>2, <2>1, <2>2, <2>3, RelaySizes
    <2> QED BY <2>4, <2>5
  <1> QED BY <1>5, <1>6, <1>7 DEF DownloadInOrder

\* The invariant of the relay, of every reachable state.
LEMMA RelayAlways == TcpSpec => []RelayInv(Now, tun)
  <1>1. TcpInit => RelayInv(Now, tun)
    BY RelayStarts
  <1>2. RelayInv(Now, tun) /\ [TcpNext]_tcpVars => RelayInv(Now, tun)'
    <2> SUFFICES ASSUME RelayInv(Now, tun), [TcpNext]_tcpVars PROVE RelayInv(Now, tun)'
      OBVIOUS
    <2>1. RelayInv(Now', tun')
      BY RelayGoesOn
    <2> QED BY <2>1
  <1> QED BY <1>1, <1>2, PTL DEF TcpSpec

(* Whatever the order of the packets, of the reads and of the writes, with *)
(* or without a proxy: the server gets the bytes of the client in order,   *)
(* without gaps and without duplicates, and what zdtun has acknowledged is *)
(* what it has sent, unless the odd packets named by the history came.     *)
THEOREM UploadKept == TcpSpec => []UploadInOrder
  <1>1. RelayInv(Now, tun) => UploadInOrder
    BY RelayUpload
  <1> QED BY <1>1, RelayAlways, PTL

(* And the client gets the stream of the server: what was read, in order,  *)
(* its end after the last byte, and never more than it can buffer, unless  *)
(* data was sent before the SYN+ACK or overran the window of the SYN.      *)
THEOREM DownloadKept == TcpSpec => []DownloadInOrder
  <1>1. RelayInv(Now, tun) => DownloadInOrder
    BY RelayDownload
  <1> QED BY <1>1, RelayAlways, PTL
=============================================================================
