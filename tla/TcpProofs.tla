----------------------------- MODULE TcpProofs ------------------------------
(***************************************************************************)
(* The relay of one TCP connection: the inductive invariant, and that what *)
(* zdtun computes for a packet, a read or an error of the socket keeps it. *)
(*                                                                         *)
(* The streams are compared through the sequence numbers: what the socket  *)
(* took is what was acknowledged, and what the client has is what zdtun    *)
(* numbered.  RelayInv says that, and what it rests on: the rules of the   *)
(* client, that the windows on their way never move back, how far the      *)
(* connection and the handshake with the proxy are, and what zdtun_seq,    *)
(* client_seq and window_size stand for.  It holds of a state s, which is  *)
(* the current one, Now, or one between two calls of zdtun.                *)
(***************************************************************************)
EXTENDS ZdtunTcp, SequenceTheorems, TLAPS

\* Each leaf is tried with Zenon, then with SMT.
USE ZenonT(5), SMTT(15)

\* Types: what the client can be given, the parts of a state, the packets.
Units == Int \cup {"choice", "granted", "bnd", "auth"}
RelayConns ==
    [status : {"none", "connecting", "connected", "closed"}, sock : BOOLEAN, rd : BOOLEAN,
     wr : BOOLEAN, tx_queue : Seq(Int), client_seq : Nat, zdtun_seq : Nat,
     window_size : 0..(WindowMod - 1), fin_ack_sent : BOOLEAN, proxied : BOOLEAN,
     client_closed : BOOLEAN,
     socks5_status : {"none", "hello", "auth", "connecting", "skip_bnd", "established"},
     socks5_skip : Int]
RelayClients ==
    [st : {"closed", "syn_sent", "open", "fin_sent", "reset"}, snd_nxt : Nat, snd_una : Nat,
     rcv_nxt : Nat, read : Nat, got : Seq(Units), fin : BOOLEAN]
RelayServers ==
    [up : BOOLEAN, sent : Nat, taken : Nat, fin : BOOLEAN, shut : BOOLEAN, out : Seq(Int)]
RelayStates == [z : RelayConns, client : RelayClients, server : RelayServers, seen : SUBSET Events]
Segments == [flag : {"syn", "ack", "fin", "rst"}, seq : Nat, len : Nat, ack : Nat, win : Int]

\* The replies of the proxy; the FIN in a sequence number; the recorded exceptions.
HsLen(c) == IF ~c.proxied THEN 0 ELSE IF Auth THEN 8 ELSE 6
FinByte(c) == IF c.fin THEN 1 ELSE 0
Lost(s) == "overrun" \in s.seen \/ "before_syn_ack" \in s.seen

\* The SYN+ACK was sent and data is relayed.
Relays(c) == c.status = "connected" /\ ~SocksInProgress(c)

\* The right edge of the window: the sequence number that the client does not take any more.
Edge(c) == IF c.rcv_nxt = 0 THEN Window ELSE (Window + 1) + FinByte(c) + c.read
EdgeOf(p) == p.ack + p.win

(* The TCP of the client keeps its own rules.                              *)
ClientInv(c) ==
    /\ c.st \in {"closed", "syn_sent"} => c.rcv_nxt = 0
    /\ c.st \in {"open", "fin_sent"} => c.rcv_nxt > 0
    /\ c.rcv_nxt = 0 => c.read = 0 /\ c.got = <<>> /\ ~c.fin
    /\ c.rcv_nxt > 0 => /\ 1 + FinByte(c) + c.read <= c.rcv_nxt
                        /\ c.rcv_nxt <= (Window + 1) + FinByte(c) + c.read
    /\ c.st = "closed" <=> c.snd_nxt = 0
    /\ c.snd_una <= c.snd_nxt
    /\ c.snd_nxt <= Upload + 2
    /\ c.st \in {"closed", "syn_sent", "open"} => c.snd_nxt <= Upload + 1

(* The packets that wait: the window they carry only moves to the right,   *)
(* and a FIN ends at the last sequence number of the client.               *)
PacketInv(p, c) ==
    /\ p.flag = "syn" => p.seq = 0 /\ p.win = Window
    /\ p.flag # "syn" => EdgeOf(p) >= Window + 1 /\ c.st \in {"open", "fin_sent", "reset"}
    /\ EdgeOf(p) <= Edge(c)
    /\ p.flag = "fin" => c.st \in {"fin_sent", "reset"} /\ p.seq + p.len + 1 = c.snd_nxt
TunInv(q, c) ==
    /\ Len(q) <= MaxTun
    /\ c.st = "closed" => q = <<>>
    /\ \A i \in 1..Len(q) : PacketInv(q[i], c)
    /\ \A i, j \in 1..Len(q) : i <= j => EdgeOf(q[i]) <= EdgeOf(q[j])

(* How far the connection is.                                              *)
ControlInv(s) ==
    /\ s.z.status = "none" =>
          /\ s.z = NoConn /\ s.client.st \in {"closed", "syn_sent"}
          /\ s.server.sent = 0 /\ s.server.taken = 0 /\ ~s.server.shut
          /\ s.server.out = <<>> /\ s.seen = {}
    /\ s.z.status # "none" => s.client.st # "closed"
    /\ s.z.sock => s.z.status \in {"connecting", "connected"} /\ ~s.z.fin_ack_sent
    /\ s.z.status = "connecting" =>
          /\ s.z.client_seq = 1 /\ s.z.tx_queue = <<>> /\ s.server.out = <<>>
          /\ ~s.z.client_closed /\ s.z.socks5_status = "none"
          /\ s.z.proxied => s.server.sent = 0
    /\ s.z.status = "connecting" \/ (s.z.status = "connected" /\ SocksInProgress(s.z)) =>
          /\ s.client.st = "syn_sent" /\ "first_ack" \notin s.seen
          /\ Lost(s) \/ s.z.zdtun_seq = 0
    /\ Relays(s.z) /\ ~Lost(s) => s.z.zdtun_seq > 0 /\ s.client.st \in {"open", "fin_sent", "reset"}
    /\ s.z.sock /\ s.z.wr /\ s.z.tx_queue = <<>> => s.z.status = "connecting"
    /\ s.server.shut => s.z.client_closed
    /\ s.z.sock /\ s.z.client_closed => s.server.shut
    /\ s.z.client_closed => s.client.st \in {"fin_sent", "reset"}
    /\ s.z.status = "connected" /\ s.z.socks5_status # "none" => s.z.proxied
    /\ s.client.fin => s.z.fin_ack_sent
    /\ s.server.taken <= s.server.sent
    /\ s.server.sent <= HsLen(s.z) + Download

(* The handshake with the proxy takes its replies and nothing else.        *)
SocksInv(s) ==
    s.z.status = "connected" /\ s.z.proxied =>
       /\ s.z.socks5_status # "none"
       /\ s.z.socks5_status = "hello" => s.server.taken = 0 /\ s.server.sent <= 2
       /\ s.z.socks5_status = "auth" => Auth /\ s.server.taken = 2 /\ s.server.sent <= 4
       /\ s.z.socks5_status = "connecting" => s.server.taken + 4 = HsLen(s.z)
       /\ s.z.socks5_status = "skip_bnd" =>
             s.server.taken + s.z.socks5_skip = HsLen(s.z) /\ s.z.socks5_skip > 0
       /\ s.z.socks5_status = "established" => HsLen(s.z) <= s.server.taken

(* zdtun_seq counts the SYN+ACK, the bytes and the FIN.                    *)
SeqInv(s) ==
    /\ s.z.zdtun_seq <= Download + 2
    /\ s.z.status # "closed" =>
          s.z.zdtun_seq = (IF Relays(s.z) THEN 1 ELSE 0) + (IF s.z.fin_ack_sent THEN 1 ELSE 0)
                            + (IF SocksInProgress(s.z) THEN 0 ELSE s.server.taken - HsLen(s.z))

(* client_seq and the queue continue what the server was sent.             *)
UploadInv(s) ==
    /\ \/ "probe_with_data" \in s.seen
       \/ /\ s.server.out = Up(Len(s.server.out))
          /\ s.z.sock /\ s.z.status = "connected" /\ ~s.server.shut =>
                /\ s.z.client_seq = 1 + Len(s.server.out)
                /\ \A i \in 1..Len(s.z.tx_queue) : s.z.tx_queue[i] = Len(s.server.out) + i
    /\ \/ {"fin_with_data", "fin_repeated", "probe_with_data"} \cap s.seen # {}
       \/ s.z.sock /\ s.z.status = "connected" /\ s.z.client_closed =>
                /\ s.z.client_seq = 2 + Len(s.server.out)
                /\ s.z.client_seq = s.client.snd_nxt

(* The client has what was read, and the window never passes its edge.     *)
DownloadInv(s, q) ==
    ~Lost(s) =>
       /\ Relays(s.z) => s.client.rcv_nxt <= s.z.zdtun_seq
       /\ Relays(s.z) /\ s.client.st \in {"open", "fin_sent"} =>
              /\ s.client.rcv_nxt = s.z.zdtun_seq
              /\ s.client.got = Up(s.server.taken - HsLen(s.z))
       /\ s.client.fin /\ "zero_window" \notin s.seen =>
              s.server.fin /\ s.client.got = Up(s.server.sent - HsLen(s.z))
       /\ Relays(s.z) /\ s.z.sock /\ "first_ack" \notin s.seen => s.z.zdtun_seq <= Window + 1
       /\ Relays(s.z) /\ s.z.sock /\ "first_ack" \in s.seen =>
              /\ \A i \in 1..Len(q) :
                    q[i].flag # "syn" => s.z.zdtun_seq + s.z.window_size <= EdgeOf(q[i])
              /\ s.z.zdtun_seq + s.z.window_size <= Edge(s.client)
       /\ "first_ack" \in s.seen =>
              /\ s.client.rcv_nxt > 0
              /\ s.client.st # "reset" => s.z.window_size + s.client.rcv_nxt <= Edge(s.client)

(* The inductive invariant, of a state and of the packets that wait.       *)
RelayInv(s, q) ==
    /\ s \in RelayStates /\ q \in Seq(Segments)
    /\ ClientInv(s.client) /\ TunInv(q, s.client)
    /\ ControlInv(s) /\ SocksInv(s) /\ SeqInv(s)
    /\ UploadInv(s) /\ DownloadInv(s, q)

-----------------------------------------------------------------------------
(* The windows and the streams.                                            *)

\* The constants, one by one.
LEMMA RelayConstants ==
    /\ Auth \in BOOLEAN /\ ProxyModes \subseteq BOOLEAN
    /\ Upload \in Nat /\ Download \in Nat
    /\ Window \in Nat /\ 0 < Window /\ MSS \in Nat /\ 0 < MSS /\ MaxTun \in Nat
    /\ WindowMod \in Nat /\ Window * Scale \in Nat /\ Window * Scale < WindowMod
    /\ Window < WindowMod
  <1>1. /\ Scale \in Nat /\ 0 < Scale /\ Window \in Nat /\ 0 < Window
        /\ WindowMod \in Nat /\ Window * Scale < WindowMod
    BY TcpAssumption
  <1>2. Window * Scale \in Nat /\ Window <= Window * Scale
    BY <1>1
  <1>3. Window < WindowMod
    BY <1>1, <1>2
  <1> QED BY <1>1, <1>2, <1>3, TcpAssumption

\* The sizes, without the scale.
LEMMA RelaySizes ==
    Upload \in Nat /\ Download \in Nat /\ Window \in Nat /\ 0 < Window /\ MaxTun \in Nat
  BY RelayConstants

\* A window that is not negative is not wrapped.
LEMMA NoWrap ==
    ASSUME NEW x \in Nat, x < WindowMod
    PROVE  x % WindowMod = x
  BY RelayConstants

\* What was computed modulo WindowMod is a window.
LEMMA Wrapped ==
    ASSUME NEW x \in Int
    PROVE  x % WindowMod \in 0..(WindowMod - 1)
  BY RelayConstants

\* The first n bytes of a stream.
LEMMA UpTo ==
    ASSUME NEW n \in Nat
    PROVE  /\ Up(n) \in Seq(Units) /\ Up(n) \in Seq(Int) /\ Len(Up(n)) = n
           /\ \A i \in 1..n : Up(n)[i] = i
  <1>1. Up(n) \in [1..n -> Int]
    BY DEF Up
  <1>2. Up(n) \in Seq(Int) /\ Len(Up(n)) = n
    BY <1>1, SMT
  <1>3. Up(n) \in Seq(Units)
    BY <1>2, SeqMonotonic DEF Units
  <1> QED BY <1>2, <1>3 DEF Up

\* A stream of no byte.
LEMMA UpNone == ASSUME NEW n \in Int, n <= 0 PROVE Up(n) = <<>>
  <1>1. 1..n = {}
    BY SMT
  <1>2. Up(n) = [i \in {} |-> i]
    BY <1>1 DEF Up
  <1>3. Up(0) = [i \in {} |-> i]
    <2>1. 1..0 = {}
      BY SMT
    <2> QED BY <2>1 DEF Up
  <1>4. Up(0) = <<>>
    BY UpTo, EmptySeq
  <1> QED BY <1>2, <1>3, <1>4

\* A stream and the bytes that continue it.
LEMMA UpGrows ==
    ASSUME NEW S, NEW n \in Nat, Up(n) \in Seq(S), NEW d \in Seq(S), \A i \in 1..Len(d) : d[i] = n + i
    PROVE  Up(n) \o d = Up(n + Len(d))
  <1> DEFINE u == Up(n) \o d  v == Up(n + Len(d))
  <1>0. Len(d) \in Nat
    BY LenProperties
  <1>1. /\ Len(Up(n)) = n /\ \A i \in 1..n : Up(n)[i] = i
        /\ v \in Seq(Int) /\ Len(v) = n + Len(d) /\ \A i \in 1..(n + Len(d)) : v[i] = i
    BY <1>0, UpTo
  <1>2. /\ u \in Seq(S) /\ Len(u) = n + Len(d)
        /\ \A i \in 1..(n + Len(d)) : u[i] = IF i <= n THEN Up(n)[i] ELSE d[i - n]
    <2>1. /\ u \in Seq(S) /\ Len(u) = Len(Up(n)) + Len(d)
          /\ \A i \in 1..(Len(Up(n)) + Len(d)) :
                u[i] = IF i <= Len(Up(n)) THEN Up(n)[i] ELSE d[i - Len(Up(n))]
      BY ConcatProperties
    <2> QED BY <1>1, <2>1
  <1>3. \A i \in 1..(n + Len(d)) : u[i] = i
    <2> SUFFICES ASSUME NEW i \in 1..(n + Len(d)) PROVE u[i] = i
      OBVIOUS
    <2>1. CASE i <= n
      <3>1. i \in 1..n
        BY <2>1, <1>0
      <3> QED BY <3>1, <2>1, <1>1, <1>2
    <2>2. CASE ~(i <= n)
      <3>1. i - n \in 1..Len(d) /\ n + (i - n) = i
        BY <2>2, <1>0
      <3>2. d[i - n] = n + (i - n)
        BY <3>1
      <3> QED BY <3>1, <3>2, <2>2, <1>2
    <2> QED BY <2>1, <2>2
  <1>4. u \in Seq(S \cup Int) /\ v \in Seq(S \cup Int)
    BY <1>1, <1>2, SeqMonotonic
  <1>5. Len(u) = Len(v) /\ \A i \in 1..Len(u) : u[i] = v[i]
    BY <1>1, <1>2, <1>3, SMTT(30)
  <1> QED BY <1>4, <1>5, SeqEqual

-----------------------------------------------------------------------------
(* What the operators compute.                                             *)

\* The parts of a state.
LEMMA StateParts ==
    ASSUME NEW s \in RelayStates
    PROVE  /\ s.z \in RelayConns /\ s.client \in RelayClients /\ s.server \in RelayServers
           /\ s.seen \in SUBSET Events
  BY DEF RelayStates

\* Set replaces the connection.
LEMMA SetFields ==
    ASSUME NEW s \in RelayStates, NEW c \in RelayConns
    PROVE  /\ Set(s, c) \in RelayStates /\ Set(s, c).z = c
           /\ Set(s, c).client = s.client /\ Set(s, c).server = s.server /\ Set(s, c).seen = s.seen
  BY DEF Set, RelayStates

\* Note adds to the history only.
LEMMA NoteFields ==
    ASSUME NEW s \in RelayStates, NEW e \in Events, NEW cond
    PROVE  /\ Note(s, e, cond) \in RelayStates /\ Note(s, e, cond).z = s.z
           /\ Note(s, e, cond).client = s.client /\ Note(s, e, cond).server = s.server
           /\ cond => Note(s, e, cond).seen = s.seen \cup {e}
           /\ ~cond => Note(s, e, cond).seen = s.seen
  BY DEF Note, RelayStates

\* What a closed connection keeps.
ClosedFrom(c, d) ==
    /\ d \in RelayConns
    /\ d.status = "closed" /\ ~d.sock
    /\ d.zdtun_seq = c.zdtun_seq /\ d.window_size = c.window_size /\ d.proxied = c.proxied
    /\ d.client_closed = c.client_closed /\ (c.fin_ack_sent => d.fin_ack_sent)

\* Closed ends the connection and leaves the rest.
LEMMA ClosedFields ==
    ASSUME NEW s \in RelayStates
    PROVE  /\ Closed(s) \in RelayStates /\ ClosedFrom(s.z, Closed(s).z)
           /\ Closed(s).z.fin_ack_sent = s.z.fin_ack_sent
           /\ Closed(s).client = s.client /\ Closed(s).server = s.server /\ Closed(s).seen = s.seen
  <1> DEFINE c == [s.z EXCEPT !.status = "closed", !.sock = FALSE, !.rd = FALSE, !.wr = FALSE,
                              !.tx_queue = <<>>]
  <1>1. s.z \in RelayConns
    BY StateParts
  <1>2. c \in RelayConns /\ ClosedFrom(s.z, c) /\ c.fin_ack_sent = s.z.fin_ack_sent
    BY <1>1, EmptySeq DEF ClosedFrom, RelayConns
  <1>3. Closed(s) = Set(s, c)
    BY DEF Closed
  <1> HIDE DEF c
  <1> QED BY <1>2, <1>3, SetFields

\* The client is as before, but for what it knows to be acknowledged.
SameClient(c, d) ==
    /\ d \in RelayClients /\ d.snd_una <= d.snd_nxt
    /\ d.st = c.st /\ d.snd_nxt = c.snd_nxt /\ d.rcv_nxt = c.rcv_nxt /\ d.read = c.read
    /\ d.got = c.got /\ d.fin = c.fin

\* An ACK without data tells the client what was acknowledged, no more.
LEMMA ReceivedAck ==
    ASSUME NEW c \in RelayClients, c.snd_una <= c.snd_nxt, NEW seq \in Nat, NEW ack \in Nat
    PROVE  SameClient(c, Received(c, "ack", seq, ack, <<>>))
  <1> DEFINE una == IF ack > c.snd_una /\ ack <= c.snd_nxt THEN ack ELSE c.snd_una
             r == Received(c, "ack", seq, ack, <<>>)
  <1>1. c.got \o <<>> = c.got /\ Len(<<>>) = 0
    BY ConcatEmptySeq, EmptySeq DEF RelayClients
  <1>2. c.rcv_nxt + 0 + 0 = c.rcv_nxt /\ una \in Nat /\ una <= c.snd_nxt
    BY DEF RelayClients
  <1>3. \/ r = c
        \/ r = [c EXCEPT !.snd_una = una]
        \/ r = [c EXCEPT !.snd_una = una, !.got = @ \o <<>>, !.rcv_nxt = @ + 0 + 0,
                         !.fin = @ \/ FALSE]
    BY <1>1 DEF Received
  <1>4. CASE r = c
    BY <1>4 DEF SameClient
  <1>5. CASE r = [c EXCEPT !.snd_una = una]
    BY <1>5, <1>2 DEF SameClient, RelayClients
  <1>6. CASE r = [c EXCEPT !.snd_una = una, !.got = @ \o <<>>, !.rcv_nxt = @ + 0 + 0,
                           !.fin = @ \/ FALSE]
    <2> HIDE DEF una
    <2>1. c.fin \in BOOLEAN /\ (c.fin \/ FALSE) = c.fin
      BY DEF RelayClients
    <2>2. r = [c EXCEPT !.snd_una = una, !.got = c.got, !.rcv_nxt = c.rcv_nxt, !.fin = c.fin]
      BY <1>6, <1>1, <1>2, <2>1, Zenon
    <2>3. una \in Nat /\ una <= c.snd_nxt
      BY <1>2
    <2> HIDE DEF r
    <2>4. r = [st |-> c.st, snd_nxt |-> c.snd_nxt, snd_una |-> una, rcv_nxt |-> c.rcv_nxt,
               read |-> c.read, got |-> c.got, fin |-> c.fin]
      BY <2>2 DEF RelayClients
    <2>5. r \in RelayClients
      BY <2>3, <2>4, Zenon DEF RelayClients
    <2>6. /\ r.st = c.st /\ r.snd_nxt = c.snd_nxt /\ r.snd_una = una /\ r.rcv_nxt = c.rcv_nxt
          /\ r.read = c.read /\ r.got = c.got /\ r.fin = c.fin
      BY <2>4, Zenon
    <2> QED BY <2>3, <2>5, <2>6 DEF SameClient, r
  <1> QED BY <1>3, <1>4, <1>5, <1>6

\* The client is as before, but its connection is reset.
ResetClient(c, d) ==
    /\ d \in RelayClients /\ d.st = "reset" /\ d.snd_una = c.snd_una
    /\ d.snd_nxt = c.snd_nxt /\ d.rcv_nxt = c.rcv_nxt /\ d.read = c.read
    /\ d.got = c.got /\ d.fin = c.fin

\* A RST resets the TCP of the client, unless there is none.
LEMMA ReceivedRst ==
    ASSUME NEW c \in RelayClients, c.st # "closed", NEW seq, NEW ack
    PROVE  ResetClient(c, Received(c, "rst", seq, ack, <<>>))
  <1> DEFINE r == Received(c, "rst", seq, ack, <<>>)
  <1>1. c.st = "reset" => r = c
    BY DEF Received
  <1>2. c.st \notin {"closed", "reset"} => r = [c EXCEPT !.st = "reset"]
    BY DEF Received
  <1> HIDE DEF r
  <1>3. CASE c.st = "reset"
    BY <1>1, <1>3 DEF ResetClient, r
  <1>4. CASE c.st # "reset"
    BY <1>2, <1>4 DEF RelayClients, ResetClient, r
  <1> QED BY <1>3, <1>4 DEF r

\* The SYN+ACK opens the connection of a client that waits for it.
LEMMA ReceivedSynAck ==
    ASSUME NEW c \in RelayClients, c.st = "syn_sent", c.snd_una <= c.snd_nxt,
           NEW seq, NEW ack \in Nat
    PROVE  LET r == Received(c, "syn_ack", seq, ack, <<>>)
           IN  /\ r \in RelayClients /\ r.st = "open" /\ r.snd_una <= r.snd_nxt
               /\ r.snd_nxt = c.snd_nxt /\ r.rcv_nxt = 1 /\ r.read = c.read
               /\ r.got = c.got /\ r.fin = c.fin
  <1> DEFINE una == IF ack > c.snd_una /\ ack <= c.snd_nxt THEN ack ELSE c.snd_una
             r == Received(c, "syn_ack", seq, ack, <<>>)
  <1>1. r = [c EXCEPT !.st = "open", !.rcv_nxt = 1, !.snd_una = una]
    BY DEF Received
  <1>2. una \in Nat /\ una <= c.snd_nxt
    BY DEF RelayClients
  <1> HIDE DEF una, r
  <1>3. r \in RelayClients /\ r.st = "open" /\ r.snd_una <= r.snd_nxt
               /\ r.snd_nxt = c.snd_nxt /\ r.rcv_nxt = 1 /\ r.read = c.read
               /\ r.got = c.got /\ r.fin = c.fin
    BY <1>1, <1>2 DEF RelayClients
  <1> QED BY <1>3 DEF r

\* The client takes the data and the FIN, if they are next and fit in its buffer.
Takes(c, seq, data) ==
    /\ c.st \in {"open", "fin_sent"} /\ c.rcv_nxt = seq
    /\ Len(data) <= Window - (c.rcv_nxt - 1 - c.read)
TakenBy(c, d, flag, data) ==
    /\ d.rcv_nxt = c.rcv_nxt + Len(data) + (IF flag = "fin" THEN 1 ELSE 0)
    /\ d.got = c.got \o data /\ d.fin = (c.fin \/ flag = "fin")
OtherwiseSame(c, d) ==
    /\ d \in RelayClients /\ d.snd_una <= d.snd_nxt
    /\ d.st = c.st /\ d.snd_nxt = c.snd_nxt /\ d.read = c.read

\* A packet with data or a FIN is taken or leaves the stream of the client as it is.
LEMMA ReceivedMore ==
    ASSUME NEW c \in RelayClients, c.snd_una <= c.snd_nxt, NEW flag \in {"ack", "fin"},
           NEW seq \in Nat, NEW ack \in Nat, NEW data \in Seq(Units)
    PROVE  LET r == Received(c, flag, seq, ack, data)
           IN  /\ OtherwiseSame(c, r)
               /\ IF Takes(c, seq, data) THEN TakenBy(c, r, flag, data) ELSE SameClient(c, r)
  <1> DEFINE una == IF ack > c.snd_una /\ ack <= c.snd_nxt THEN ack ELSE c.snd_una
             r == Received(c, flag, seq, ack, data)
             nxt == c.rcv_nxt + Len(data) + (IF flag = "fin" THEN 1 ELSE 0)
             fin == c.fin \/ flag = "fin"
             got == c.got \o data
  <1>1. /\ c.rcv_nxt \in Nat /\ c.read \in Nat /\ c.got \in Seq(Units) /\ c.fin \in BOOLEAN
        /\ una \in Nat /\ una <= c.snd_nxt
        /\ c.st \in {"closed", "syn_sent", "open", "fin_sent", "reset"}
    BY DEF RelayClients
  <1>2. Len(data) \in Nat /\ got \in Seq(Units) /\ nxt \in Nat /\ fin \in BOOLEAN
    <2>1. Len(data) \in Nat /\ got \in Seq(Units)
      BY <1>1, LenProperties, ConcatProperties
    <2>2. fin \in BOOLEAN
      OBVIOUS
    <2>3. nxt \in Nat
      BY <2>1, <1>1
    <2> QED BY <2>1, <2>2, <2>3
  <1> DEFINE full == Len(data) > Window - (c.rcv_nxt - 1 - c.read)
  <1>a. full <=> ~(Len(data) <= Window - (c.rcv_nxt - 1 - c.read))
    BY <1>1, <1>2, RelayConstants, SMTT(30)
  <1>b. r = IF c.st \in {"closed", "reset"} \/ c.st = "syn_sent" THEN c
            ELSE IF seq # c.rcv_nxt \/ full THEN [c EXCEPT !.snd_una = una]
            ELSE [c EXCEPT !.snd_una = una, !.got = got, !.rcv_nxt = nxt, !.fin = fin]
    BY DEF Received
  <1> HIDE DEF una, r, nxt, fin, got, full
  <1>3. Takes(c, seq, data) =>
           r = [c EXCEPT !.snd_una = una, !.got = got, !.rcv_nxt = nxt, !.fin = fin]
    BY <1>a, <1>b DEF Takes
  <1>4. ~Takes(c, seq, data) => r = c \/ r = [c EXCEPT !.snd_una = una]
    BY <1>1, <1>a, <1>b DEF Takes
  <1>5. CASE Takes(c, seq, data)
    <2>1. r = [st |-> c.st, snd_nxt |-> c.snd_nxt, snd_una |-> una, rcv_nxt |-> nxt,
               read |-> c.read, got |-> got, fin |-> fin]
      BY <1>3, <1>5 DEF RelayClients
    <2>2. r \in RelayClients
      BY <2>1, <1>1, <1>2, Zenon DEF RelayClients
    <2>3. /\ r.st = c.st /\ r.snd_nxt = c.snd_nxt /\ r.snd_una = una /\ r.rcv_nxt = nxt
          /\ r.read = c.read /\ r.got = got /\ r.fin = fin
      BY <2>1, Zenon
    <2>4. OtherwiseSame(c, r)
      BY <2>2, <2>3, <1>1 DEF OtherwiseSame
    <2>5. TakenBy(c, r, flag, data)
      BY <2>3, Zenon DEF TakenBy, nxt, got, fin
    <2> QED BY <2>4, <2>5, <1>5 DEF r
  <1>6. CASE ~Takes(c, seq, data)
    <2>1. SameClient(c, r)
      BY <1>4, <1>6, <1>1 DEF SameClient, RelayClients
    <2>2. OtherwiseSame(c, r)
      BY <2>1 DEF SameClient, OtherwiseSame
    <2> QED BY <2>1, <2>2, <1>6 DEF r
  <1> QED BY <1>5, <1>6

\* The client of a state may be replaced.
LEMMA ClientFields ==
    ASSUME NEW s \in RelayStates, NEW c \in RelayClients
    PROVE  LET t == [s EXCEPT !.client = c]
           IN  /\ t \in RelayStates /\ t.z = s.z /\ t.client = c
               /\ t.server = s.server /\ t.seen = s.seen
  BY DEF RelayStates

\* A packet that cannot be sent ends the connection and changes nothing else.
LEMMA SendFails ==
    ASSUME NEW s \in RelayStates, NEW flag, NEW data
    PROVE  LET t == send_to_client(s, flag, data, FALSE)
           IN  /\ t \in RelayStates /\ ClosedFrom(s.z, t.z) /\ t.client = s.client
               /\ t.server = s.server /\ t.seen = s.seen /\ t.z.fin_ack_sent
  <1> DEFINE c == [s.z EXCEPT !.fin_ack_sent = TRUE]
             t == send_to_client(s, flag, data, FALSE)
  <1>1. s.z \in RelayConns
    BY StateParts
  <1>2. /\ c \in RelayConns /\ c.fin_ack_sent /\ c.zdtun_seq = s.z.zdtun_seq
        /\ c.window_size = s.z.window_size /\ c.proxied = s.z.proxied
        /\ c.client_closed = s.z.client_closed
    BY <1>1 DEF RelayConns
  <1>3. t = Closed(Set(s, c))
    BY DEF send_to_client
  <1> HIDE DEF c, t
  <1>4. /\ Set(s, c) \in RelayStates /\ Set(s, c).z = c /\ Set(s, c).client = s.client
        /\ Set(s, c).server = s.server /\ Set(s, c).seen = s.seen
    BY <1>2, SetFields
  <1>5. /\ t \in RelayStates /\ ClosedFrom(c, t.z) /\ t.z.fin_ack_sent = c.fin_ack_sent
        /\ t.client = s.client /\ t.server = s.server /\ t.seen = s.seen
    BY <1>3, <1>4, ClosedFields
  <1>6. ClosedFrom(s.z, t.z) /\ t.z.fin_ack_sent
    BY <1>5, <1>2 DEF ClosedFrom
  <1> QED BY <1>5, <1>6 DEF t

-----------------------------------------------------------------------------
(* The end of a connection.                                                *)

\* The invariants do not look at what the client knows to be acknowledged.
LEMMA SameKeeps ==
    ASSUME NEW s, NEW q, RelayInv(s, q), NEW t \in RelayStates,
           t.z = s.z, t.server = s.server, t.seen = s.seen, SameClient(s.client, t.client)
    PROVE  RelayInv(t, q)
  <1> DEFINE c == s.client  d == t.client
  <1>1. /\ d.st = c.st /\ d.snd_nxt = c.snd_nxt /\ d.rcv_nxt = c.rcv_nxt /\ d.read = c.read
        /\ d.got = c.got /\ d.fin = c.fin /\ d.snd_una <= d.snd_nxt
    BY DEF SameClient
  <1>2. Edge(d) = Edge(c) /\ FinByte(d) = FinByte(c)
    BY <1>1, Zenon DEF Edge, FinByte
  <1>3. Lost(t) = Lost(s)
    BY Zenon DEF Lost
  <1>4. ClientInv(c) /\ TunInv(q, c)
    BY DEF RelayInv
  <1>5. ClientInv(d)
    BY <1>1, <1>2, <1>4, Zenon DEF ClientInv
  <1>6. TunInv(q, d)
    BY <1>1, <1>2, <1>4, Zenon DEF TunInv, PacketInv
  <1>7. ControlInv(t) /\ SocksInv(t) /\ SeqInv(t)
    <2>1. ControlInv(t)
      <3>1. ControlInv(s)
        BY DEF RelayInv
      <3> QED BY <1>1, <1>3, <3>1, ZenonT(20) DEF ControlInv
    <2>2. SocksInv(t)
      BY Zenon DEF RelayInv, SocksInv
    <2>3. SeqInv(t)
      BY Zenon DEF RelayInv, SeqInv
    <2> QED BY <2>1, <2>2, <2>3
  <1>8. UploadInv(t)
    BY <1>1, Zenon DEF RelayInv, UploadInv
  <1>9. DownloadInv(t, q)
    BY <1>1, <1>2, <1>3, Zenon DEF RelayInv, DownloadInv
  <1> QED BY <1>5, <1>6, <1>7, <1>8, <1>9 DEF RelayInv

\* What the end of a connection does to the client.
EndOfClient(c, d) == d = c \/ SameClient(c, d) \/ ResetClient(c, d)

\* The end of a connection, whatever its state.
LEMMA EndKeeps ==
    ASSUME NEW s, NEW q, RelayInv(s, q), s.client.st # "closed", NEW t \in RelayStates,
           ClosedFrom(s.z, t.z), EndOfClient(s.client, t.client), t.seen = s.seen,
           t.server.out = s.server.out, t.server.shut = s.server.shut,
           t.server.fin = s.server.fin, t.server.sent = s.server.sent,
           t.server.taken <= s.server.sent
    PROVE  RelayInv(t, q)
  <1> DEFINE c == s.client  d == t.client
  <1>0. /\ c \in RelayClients /\ d \in RelayClients /\ ClientInv(c) /\ TunInv(q, c)
        /\ s.server \in RelayServers /\ t.server \in RelayServers
        /\ s.z \in RelayConns /\ t.z \in RelayConns
    BY StateParts DEF RelayInv
  <1>1. /\ d.snd_nxt = c.snd_nxt /\ d.rcv_nxt = c.rcv_nxt /\ d.read = c.read
        /\ d.got = c.got /\ d.fin = c.fin /\ d.snd_una <= d.snd_nxt
        /\ d.st = c.st \/ d.st = "reset"
    BY <1>0, Zenon DEF EndOfClient, SameClient, ResetClient, ClientInv
  <1>2. Edge(d) = Edge(c) /\ FinByte(d) = FinByte(c)
    BY <1>1, Zenon DEF Edge, FinByte
  <1>3. Lost(t) = Lost(s)
    BY Zenon DEF Lost
  <1>4. /\ t.z.status = "closed" /\ ~t.z.sock /\ ~Relays(t.z)
        /\ t.z.zdtun_seq = s.z.zdtun_seq /\ t.z.window_size = s.z.window_size
        /\ t.z.client_closed = s.z.client_closed /\ (s.z.fin_ack_sent => t.z.fin_ack_sent)
        /\ HsLen(t.z) = HsLen(s.z)
    BY Zenon DEF ClosedFrom, Relays, HsLen
  <1>5. ClientInv(d)
    BY <1>0, <1>1, <1>2 DEF ClientInv
  <1>6. TunInv(q, d)
    <2>1. d.st # "closed"
      BY <1>1
    <2>2. \A i \in 1..Len(q) : PacketInv(q[i], c) => PacketInv(q[i], d)
      BY <1>1, <1>2 DEF PacketInv
    <2> QED BY <1>0, <2>1, <2>2, Zenon DEF TunInv
  <1>7. ControlInv(t)
    BY <1>1, <1>3, <1>4, Zenon DEF ControlInv, RelayInv
  <1>8. SocksInv(t) /\ SeqInv(t)
    BY <1>4, Zenon DEF SocksInv, SeqInv, RelayInv
  <1>9. UploadInv(t)
    BY <1>4, Zenon DEF UploadInv, RelayInv
  <1>10. DownloadInv(t, q)
    BY <1>1, <1>2, <1>3, <1>4, Zenon DEF DownloadInv, RelayInv
  <1> QED BY <1>5, <1>6, <1>7, <1>8, <1>9, <1>10 DEF RelayInv

\* An entry of the history, but for the first ACK, only weakens what is required.
LEMMA NoteKeeps ==
    ASSUME NEW s, NEW q, RelayInv(s, q), s.z.status # "none",
           NEW e \in Events \ {"first_ack"}, NEW cond
    PROVE  RelayInv(Note(s, e, cond), q)
  <1> DEFINE t == Note(s, e, cond)
  <1>1. /\ t \in RelayStates /\ t.z = s.z /\ t.client = s.client /\ t.server = s.server
        /\ (cond => t.seen = s.seen \cup {e}) /\ (~cond => t.seen = s.seen)
    <2>1. s \in RelayStates /\ e \in Events
      BY DEF RelayInv
    <2> QED BY <2>1, NoteFields
  <1> HIDE DEF t
  <1>2. (Lost(s) => Lost(t)) /\ ("first_ack" \in t.seen <=> "first_ack" \in s.seen) /\ s.seen \subseteq t.seen
    BY <1>1 DEF Lost
  <1>3. ControlInv(t)
    BY <1>1, <1>2, Zenon DEF ControlInv, RelayInv
  <1>4. SocksInv(t)
    BY <1>1, Zenon DEF SocksInv, RelayInv
  <1>5. SeqInv(t)
    BY <1>1, Zenon DEF SeqInv, RelayInv
  <1>6. UploadInv(t)
    BY <1>1, <1>2 DEF UploadInv, RelayInv
  <1>7. DownloadInv(t, q)
    BY <1>1, <1>2 DEF DownloadInv, RelayInv
  <1> QED BY <1>1, <1>3, <1>4, <1>5, <1>6, <1>7 DEF RelayInv, t

\* What zdtun_conn_close does, for what has a connection.
LEMMA CloseFields ==
    ASSUME NEW s \in RelayStates, s.z.status # "closed", s.client.st # "closed", NEW ok \in BOOLEAN
    PROVE  LET t == zdtun_conn_close(s, ok)
           IN  /\ t \in RelayStates /\ ClosedFrom(s.z, t.z) /\ EndOfClient(s.client, t.client)
               /\ t.server = s.server /\ t.seen = s.seen
  <1> DEFINE t == zdtun_conn_close(s, ok)
             u == IF s.z.fin_ack_sent THEN s ELSE send_to_client(s, "rst", <<>>, ok)
             c == Received(s.client, "rst", s.z.zdtun_seq, s.z.client_seq, <<>>)
  <1>1. s.z \in RelayConns /\ s.client \in RelayClients
    BY StateParts
  <1>2. /\ u \in RelayStates /\ u.server = s.server /\ u.seen = s.seen
        /\ u.z = s.z \/ ClosedFrom(s.z, u.z)
        /\ EndOfClient(s.client, u.client)
    <2>1. CASE u = s
      BY <2>1 DEF EndOfClient
    <2>2. CASE u = send_to_client(s, "rst", <<>>, TRUE)
      <3>1. ResetClient(s.client, c) /\ c \in RelayClients
        BY <1>1, ReceivedRst DEF ResetClient
      <3>2. u = [s EXCEPT !.client = c]
        BY <2>2 DEF send_to_client
      <3> HIDE DEF c, u
      <3> QED BY <3>1, <3>2, ClientFields DEF EndOfClient
    <2>3. CASE u = send_to_client(s, "rst", <<>>, FALSE)
      <3> HIDE DEF u
      <3> QED BY <2>3, SendFails DEF EndOfClient
    <2> QED BY <2>1, <2>2, <2>3
  <1>3. t = Closed(u)
    BY DEF zdtun_conn_close
  <1> HIDE DEF u, t
  <1>4. /\ t \in RelayStates /\ ClosedFrom(u.z, t.z)
        /\ t.client = u.client /\ t.server = u.server /\ t.seen = u.seen
    BY <1>2, <1>3, ClosedFields
  <1>5. ClosedFrom(s.z, t.z)
    BY <1>2, <1>4, Zenon DEF ClosedFrom
  <1> QED BY <1>2, <1>4, <1>5 DEF t

\* zdtun_conn_close keeps the invariant.
LEMMA CloseKeeps ==
    ASSUME NEW s, NEW q, RelayInv(s, q), s.client.st # "closed", NEW ok \in BOOLEAN
    PROVE  RelayInv(zdtun_conn_close(s, ok), q)
  <1> DEFINE t == zdtun_conn_close(s, ok)
  <1>1. CASE s.z.status = "closed"
    BY <1>1 DEF zdtun_conn_close
  <1>2. CASE s.z.status # "closed"
    <2>1. s \in RelayStates /\ s.server.taken <= s.server.sent
      BY DEF RelayInv, ControlInv
    <2>2. /\ t \in RelayStates /\ ClosedFrom(s.z, t.z) /\ EndOfClient(s.client, t.client)
          /\ t.server = s.server /\ t.seen = s.seen
      BY <1>2, <2>1, CloseFields
    <2> HIDE DEF t
    <2> QED BY <2>1, <2>2, EndKeeps DEF t
  <1> QED BY <1>1, <1>2

-----------------------------------------------------------------------------
(* The SYN+ACK.                                                            *)

\* The packets that wait allow for a client that went on.
LEMMA TunKeeps ==
    ASSUME NEW q \in Seq(Segments), NEW c \in RelayClients, NEW d \in RelayClients, TunInv(q, c),
           d.snd_nxt = c.snd_nxt, Edge(c) <= Edge(d), d.st # "closed",
           c.st \in {"open", "fin_sent", "reset"} => d.st \in {"open", "fin_sent", "reset"},
           c.st \in {"fin_sent", "reset"} => d.st \in {"fin_sent", "reset"}
    PROVE  TunInv(q, d)
  <1>1. Edge(c) \in Int /\ Edge(d) \in Int
    BY RelaySizes DEF Edge, FinByte, RelayClients
  <1>2. \A i \in 1..Len(q) : q[i] \in Segments /\ EdgeOf(q[i]) \in Int
    <2> SUFFICES ASSUME NEW i \in 1..Len(q) PROVE q[i] \in Segments /\ EdgeOf(q[i]) \in Int
      OBVIOUS
    <2>1. q[i] \in Segments
      BY ElementOfSeq
    <2>2. q[i].ack \in Nat /\ q[i].win \in Int
      BY <2>1, Zenon DEF Segments
    <2> QED BY <2>1, <2>2 DEF EdgeOf
  <1>3. \A i \in 1..Len(q) : PacketInv(q[i], c) => PacketInv(q[i], d)
    BY <1>1, <1>2 DEF PacketInv
  <1> QED BY <1>3, Zenon DEF TunInv

\* The client whose connection was opened by the SYN+ACK.
OpenClient(c, d) ==
    /\ d \in RelayClients /\ d.st = "open" /\ d.snd_una <= d.snd_nxt
    /\ d.snd_nxt = c.snd_nxt /\ d.rcv_nxt = 1 /\ d.read = c.read
    /\ d.got = c.got /\ d.fin = c.fin

\* The client that was opened.
LEMMA OpenedClient ==
    ASSUME NEW q \in Seq(Segments), NEW c \in RelayClients, c.st = "syn_sent",
           ClientInv(c), TunInv(q, c), NEW d, OpenClient(c, d)
    PROVE  /\ ClientInv(d) /\ TunInv(q, d) /\ Edge(d) = Window + 1 /\ d.got = <<>> /\ ~d.fin
  <1>1. c.rcv_nxt = 0 /\ c.read = 0 /\ c.got = <<>> /\ ~c.fin /\ Edge(c) = Window
    BY DEF ClientInv, Edge
  <1>2. /\ d \in RelayClients /\ d.st = "open" /\ d.snd_nxt = c.snd_nxt /\ d.rcv_nxt = 1
        /\ d.read = 0 /\ d.got = <<>> /\ ~d.fin /\ FinByte(d) = 0 /\ d.snd_una <= d.snd_nxt
    BY <1>1, Zenon DEF OpenClient, FinByte
  <1>3. Edge(d) = Window + 1
    BY <1>2, RelaySizes DEF Edge
  <1>4. ClientInv(d)
    BY <1>2, RelaySizes DEF ClientInv, RelayClients
  <1>5. TunInv(q, d)
    BY <1>1, <1>2, <1>3, RelaySizes, TunKeeps
  <1> QED BY <1>2, <1>3, <1>4, <1>5

\* A connection with another sequence number.
LEMMA SeqFields ==
    ASSUME NEW c \in RelayConns, NEW m \in Nat
    PROVE  [c EXCEPT !.zdtun_seq = m] \in RelayConns
  <1> DEFINE e == [c EXCEPT !.zdtun_seq = m]
  <1>1. e = [c EXCEPT !.zdtun_seq = m]
    OBVIOUS
  <1> HIDE DEF e
  <1>2. e = [status |-> c.status, sock |-> c.sock, rd |-> c.rd, wr |-> c.wr,
             tx_queue |-> c.tx_queue, client_seq |-> c.client_seq, zdtun_seq |-> m,
             window_size |-> c.window_size, fin_ack_sent |-> c.fin_ack_sent, proxied |-> c.proxied,
             client_closed |-> c.client_closed, socks5_status |-> c.socks5_status,
             socks5_skip |-> c.socks5_skip]
    BY <1>1 DEF RelayConns
  <1>3. e \in RelayConns
    BY <1>2, ZenonT(20) DEF RelayConns
  <1> QED BY <1>1, <1>3

\* What send_syn_ack does to a client that waits for it.
LEMMA SynAckFields ==
    ASSUME NEW s \in RelayStates, s.client.st = "syn_sent", s.client.snd_una <= s.client.snd_nxt
    PROVE  LET t == send_syn_ack(s, TRUE)
           IN  /\ t \in RelayStates /\ t.z = [s.z EXCEPT !.zdtun_seq = @ + 1]
               /\ OpenClient(s.client, t.client) /\ t.server = s.server /\ t.seen = s.seen
  <1> DEFINE c == Received(s.client, "syn_ack", s.z.zdtun_seq, s.z.client_seq, <<>>)
             u == [s EXCEPT !.client = c]
             w == [s.z EXCEPT !.zdtun_seq = @ + 1]
             t == send_syn_ack(s, TRUE)
  <1>1. s.z \in RelayConns /\ s.client \in RelayClients
    BY StateParts
  <1>2. s.z.client_seq \in Nat /\ w \in RelayConns
    <2>1. s.z.client_seq \in Nat /\ s.z.zdtun_seq \in Nat
      BY <1>1, Zenon DEF RelayConns
    <2>2. s.z.zdtun_seq + 1 \in Nat
      BY <2>1
    <2> QED BY <2>1, <2>2, <1>1, SeqFields
  <1>3. OpenClient(s.client, c) /\ c \in RelayClients
    BY <1>1, <1>2, ReceivedSynAck DEF OpenClient
  <1>4. /\ u \in RelayStates /\ u.z = s.z /\ u.client = c /\ u.server = s.server /\ u.seen = s.seen
    BY <1>3, ClientFields
  <1>5. t = Set(u, [u.z EXCEPT !.zdtun_seq = @ + 1])
    BY DEF send_syn_ack, SendSeq, send_to_client
  <1> HIDE DEF c, u, t
  <1>6. t = Set(u, w)
    BY <1>4, <1>5
  <1> HIDE DEF w
  <1>7. t \in RelayStates /\ t.z = w /\ t.client = c /\ t.server = s.server /\ t.seen = s.seen
    BY <1>2, <1>4, <1>6, SetFields
  <1> QED BY <1>3, <1>7 DEF t, w

\* The connection relays: the SYN+ACK was sent, after what was sent before it.
LEMMA SynAckKeeps ==
    ASSUME NEW s, NEW q, RelayInv(s, q), s.z.sock, s.client.st = "syn_sent",
           NEW t \in RelayStates, OpenClient(s.client, t.client), t.seen = s.seen,
           t.z.status = "connected", ~SocksInProgress(t.z), t.z.sock, ~t.z.wr \/ t.z.tx_queue # <<>>,
           t.z.zdtun_seq = s.z.zdtun_seq + 1, ~t.z.fin_ack_sent, t.z.proxied = s.z.proxied,
           t.z.proxied \/ t.z.socks5_status = "none",
           t.z.client_closed = s.z.client_closed,
           "first_ack" \notin s.seen, Lost(s) \/ s.z.zdtun_seq = 0,
           t.server.taken - HsLen(t.z) = s.z.zdtun_seq,
           t.server.taken <= t.server.sent, t.server.sent = s.server.sent,
           t.server.shut = s.server.shut, UploadInv(t)
    PROVE  RelayInv(t, q)
  <1> DEFINE c == s.client  d == t.client
  <1>0. /\ s \in RelayStates /\ q \in Seq(Segments) /\ c \in RelayClients /\ ClientInv(c) /\ TunInv(q, c)
        /\ s.z.zdtun_seq \in Nat /\ t.server.taken \in Nat /\ t.server.sent \in Nat
    BY StateParts DEF RelayInv, RelayConns, RelayServers
  <1>1. /\ ClientInv(d) /\ TunInv(q, d) /\ Edge(d) = Window + 1 /\ d.got = <<>> /\ ~d.fin
        /\ d.st = "open" /\ d.rcv_nxt = 1
    BY <1>0, OpenedClient, ZenonT(20) DEF OpenClient
  <1>2. Relays(t.z) /\ HsLen(t.z) = HsLen(s.z) /\ HsLen(s.z) \in Nat /\ Lost(t) = Lost(s)
    BY DEF Relays, HsLen, Lost
  <1>3. ControlInv(s)
    BY DEF RelayInv
  <1>4. ControlInv(t)
    BY <1>0, <1>1, <1>2, <1>3 DEF ControlInv, Relays
  <1>5. HsLen(t.z) <= t.server.taken
    BY <1>0, <1>2
  <1>6. SocksInv(t)
    BY <1>5 DEF SocksInv, SocksInProgress
  <1>7. SeqInv(t)
    <2>1. t.z.zdtun_seq = 1 + 0 + (t.server.taken - HsLen(t.z))
      BY <1>0
    <2>2. t.server.sent <= HsLen(t.z) + Download
      BY <1>4 DEF ControlInv
    <2>3. t.z.zdtun_seq <= Download + 2
      BY <2>1, <2>2, <1>0, <1>2, RelaySizes
    <2> QED BY <2>1, <2>3, <1>2 DEF SeqInv
  <1>8. DownloadInv(t, q)
    <2> SUFFICES ASSUME ~Lost(t) PROVE DownloadInv(t, q)
      BY DEF DownloadInv
    <2>1. t.z.zdtun_seq = 1 /\ t.server.taken - HsLen(t.z) = 0
      BY <1>2, <1>0
    <2>2. Up(0) = <<>>
      BY UpNone
    <2> QED BY <2>1, <2>2, <1>1, RelaySizes DEF DownloadInv
  <1> QED BY <1>0, <1>1, <1>4, <1>6, <1>7, <1>8 DEF RelayInv

\* The socket is connected: the SYN+ACK is sent or the handshake with the proxy starts.
LEMMA ConnectKeeps ==
    ASSUME NEW s, NEW q, RelayInv(s, q), s.z.sock, s.z.status = "connecting", NEW ok \in BOOLEAN
    PROVE  RelayInv(tcp_socket_syn(s, ok), q)
  <1> DEFINE b == [s.z EXCEPT !.status = "connected", !.wr = FALSE]
             u == Set(s, b)
  <1>0. /\ s \in RelayStates /\ s.z \in RelayConns /\ s.server \in RelayServers
        /\ s.client \in RelayClients /\ s.client.snd_una <= s.client.snd_nxt
        /\ s.server.taken \in Nat /\ s.server.sent \in Nat
    BY StateParts DEF RelayInv, ClientInv, RelayServers
  <1>1. /\ s.client.st = "syn_sent" /\ "first_ack" \notin s.seen /\ (Lost(s) \/ s.z.zdtun_seq = 0)
        /\ s.z.client_seq = 1 /\ s.z.tx_queue = <<>> /\ s.server.out = <<>>
        /\ ~s.z.client_closed /\ ~s.z.fin_ack_sent /\ s.z.socks5_status = "none"
        /\ s.z.proxied => s.server.sent = 0
        /\ s.server.taken <= s.server.sent /\ s.server.sent <= HsLen(s.z) + Download
        /\ ~s.client.fin /\ ~s.server.shut
    BY Zenon DEF RelayInv, ControlInv
  <1>2. /\ b \in RelayConns /\ b.status = "connected" /\ b.sock /\ ~b.wr /\ b.tx_queue = <<>>
        /\ b.client_seq = 1 /\ b.zdtun_seq = s.z.zdtun_seq /\ ~b.fin_ack_sent
        /\ b.window_size = s.z.window_size /\ b.client_closed = s.z.client_closed
        /\ b.proxied = s.z.proxied /\ ~b.client_closed /\ b.socks5_status = "none"
    BY <1>0, <1>1 DEF RelayConns
  <1> HIDE DEF b
  <1>3. /\ u \in RelayStates /\ u.z = b /\ u.client = s.client /\ u.server = s.server
        /\ u.seen = s.seen
    BY <1>0, <1>2, SetFields
  <1>4. SeqInv(s) /\ s.server.taken - HsLen(s.z) \in Int
    BY <1>0 DEF RelayInv, HsLen
  <1>5. CASE s.z.proxied
    <2> DEFINE e == [u.z EXCEPT !.socks5_status = "hello"]
               t == Set(u, e)
    <2>1. /\ e \in RelayConns /\ e.status = "connected" /\ e.sock /\ ~e.wr /\ e.tx_queue = <<>>
          /\ e.client_seq = 1 /\ e.zdtun_seq = s.z.zdtun_seq /\ ~e.fin_ack_sent
          /\ e.proxied /\ ~e.client_closed /\ e.socks5_status = "hello"
      BY <1>2, <1>3, <1>5 DEF RelayConns
    <2>2. tcp_socket_syn(s, ok) = t
      BY <1>5 DEF tcp_socket_syn, b
    <2> HIDE DEF e
    <2>3. /\ t \in RelayStates /\ t.z = e /\ t.client = s.client /\ t.server = s.server
          /\ t.seen = s.seen
      BY <1>3, <2>1, SetFields
    <2> HIDE DEF t
    <2>4. SocksInProgress(e) /\ ~Relays(e) /\ HsLen(e) = HsLen(s.z) /\ Lost(t) = Lost(s)
          /\ SocksInProgress(s.z) /\ ~Relays(s.z)
      BY <2>1, <2>3, <1>1, <1>5 DEF SocksInProgress, Relays, HsLen, Lost
    <2>5. ControlInv(t)
      <3>1. /\ t.z.status = "connected" /\ SocksInProgress(t.z) /\ ~Relays(t.z) /\ ~t.z.wr /\ t.z.proxied
            /\ ~t.z.fin_ack_sent /\ ~t.z.client_closed /\ t.z.zdtun_seq = s.z.zdtun_seq
        BY <2>1, <2>3, <2>4, Zenon
      <3>2. /\ t.client.st = "syn_sent" /\ "first_ack" \notin t.seen /\ (Lost(t) \/ t.z.zdtun_seq = 0)
            /\ ~t.client.fin /\ ~t.server.shut
            /\ t.server.taken <= t.server.sent /\ t.server.sent <= HsLen(t.z) + Download
        BY <2>3, <2>4, <3>1, <1>1, Zenon
      <3> QED BY <3>1, <3>2, Zenon DEF ControlInv
    <2>6. SocksInv(t)
      BY <2>1, <2>3, <1>0, <1>1, <1>5 DEF SocksInv
    <2>7. SeqInv(t)
      BY <2>1, <2>3, <2>4, <1>1, <1>4, Zenon DEF SeqInv
    <2>8. UploadInv(t)
      BY <2>1, <2>3, <1>1, UpNone, EmptySeq DEF UploadInv
    <2>9. DownloadInv(t, q)
      BY <2>3, <2>4, <1>1, Zenon DEF DownloadInv
    <2> QED BY <2>2, <2>3, <2>5, <2>6, <2>7, <2>8, <2>9, <1>0 DEF RelayInv
  <1>6. CASE ~s.z.proxied /\ ok = TRUE
    <2> DEFINE t == send_syn_ack(u, TRUE)
               e == [u.z EXCEPT !.zdtun_seq = @ + 1]
    <2>1. tcp_socket_syn(s, ok) = t
      BY <1>6 DEF tcp_socket_syn, b
    <2>2. /\ t \in RelayStates /\ t.z = e /\ OpenClient(s.client, t.client)
          /\ t.server = s.server /\ t.seen = s.seen
      <3>1. u \in RelayStates /\ u.client.st = "syn_sent" /\ u.client.snd_una <= u.client.snd_nxt
        BY <1>0, <1>1, <1>3
      <3> HIDE DEF u
      <3>2. /\ t \in RelayStates /\ t.z = e /\ OpenClient(u.client, t.client)
            /\ t.server = u.server /\ t.seen = u.seen
        BY <3>1, SynAckFields
      <3> QED BY <3>2, <1>3
    <2>3. /\ e \in RelayConns /\ e.status = "connected" /\ e.sock /\ ~e.wr /\ e.tx_queue = <<>>
          /\ e.client_seq = 1 /\ e.zdtun_seq = s.z.zdtun_seq + 1 /\ ~e.fin_ack_sent
          /\ e.proxied = s.z.proxied /\ ~e.client_closed /\ e.client_closed = s.z.client_closed
          /\ e.socks5_status = "none"
      BY <1>2, <1>3 DEF RelayConns
    <2> HIDE DEF t, e
    <2>4. UploadInv(t)
      BY <2>2, <2>3, <1>1, UpNone, EmptySeq DEF UploadInv
    <2>5. ~SocksInProgress(e) /\ HsLen(e) = 0 /\ HsLen(s.z) = 0 /\ ~SocksInProgress(s.z) /\ ~Relays(s.z)
      BY <1>6, <2>3 DEF SocksInProgress, HsLen, Relays
    <2>6. t.server.taken - HsLen(t.z) = s.z.zdtun_seq
      BY <2>2, <2>5, <1>0, <1>1, <1>4 DEF SeqInv
    <2>7. RelayInv(t, q)
      <3>1. /\ t.z.status = "connected" /\ ~SocksInProgress(t.z) /\ t.z.sock /\ ~t.z.wr
            /\ t.z.zdtun_seq = s.z.zdtun_seq + 1 /\ ~t.z.fin_ack_sent /\ t.z.proxied = s.z.proxied
            /\ t.z.client_closed = s.z.client_closed /\ t.server.taken <= t.server.sent
            /\ t.z.socks5_status = "none"
        BY <2>2, <2>3, <2>5, <1>1
      <3> QED BY <3>1, <2>2, <2>4, <2>6, <1>1, SynAckKeeps
    <2> QED BY <2>1, <2>7
  <1>7. CASE ~s.z.proxied /\ ok = FALSE
    <2> DEFINE t == send_to_client(u, "syn_ack", <<>>, FALSE)
    <2>1. tcp_socket_syn(s, ok) = t
      BY <1>7 DEF tcp_socket_syn, send_syn_ack, SendSeq, b
    <2>2. /\ t \in RelayStates /\ ClosedFrom(u.z, t.z) /\ t.client = s.client
          /\ t.server = s.server /\ t.seen = s.seen
      BY <1>3, SendFails
    <2> HIDE DEF t
    <2>3. ClosedFrom(s.z, t.z) /\ EndOfClient(s.client, t.client) /\ s.client.st # "closed"
      <3>1. ClosedFrom(b, t.z)
        BY <2>2, <1>3, Zenon
      <3>2. ClosedFrom(s.z, t.z)
        BY <3>1, <1>1, <1>2 DEF ClosedFrom
      <3> QED BY <2>2, <3>2, <1>1 DEF EndOfClient
    <2> QED BY <2>1, <2>2, <2>3, <1>1, EndKeeps
  <1> QED BY <1>5, <1>6, <1>7

-----------------------------------------------------------------------------
(* The handshake with the proxy.                                           *)

\* The stream of the peer: the replies of the proxy, then the bytes.
LEMMA StreamFacts ==
    /\ Handshake \in Seq(Units) /\ Len(Handshake) = HsLen(z)
    /\ Stream \in Seq(Units) /\ Len(Stream) = HsLen(z) + Download
    /\ \A j \in 1..Download : Stream[HsLen(z) + j] = j
  <1>1. /\ Choice \in Seq(Units) /\ AuthOk \in Seq(Units) /\ Granted \in Seq(Units) /\ Bnd \in Seq(Units)
        /\ Len(Choice) = 2 /\ Len(AuthOk) = 2 /\ Len(Granted) = 2 /\ Len(Bnd) = 2
    BY DEF Choice, AuthOk, Granted, Bnd, Units
  <1>2. <<>> \in Seq(Units) /\ Len(<<>>) = 0
    BY EmptySeq
  <1> DEFINE a == IF Auth THEN AuthOk ELSE <<>>
             h1 == Choice \o a  h2 == h1 \o Granted  h3 == h2 \o Bnd
  <1>3. a \in Seq(Units) /\ (Auth => Len(a) = 2) /\ (~Auth => Len(a) = 0)
    <2>1. CASE Auth
      BY <1>1, <2>1, Zenon
    <2>2. CASE ~Auth
      BY <1>2, <2>2, Zenon
    <2> QED BY <2>1, <2>2
  <1> HIDE DEF a
  <1>4. h1 \in Seq(Units) /\ Len(h1) = Len(Choice) + Len(a)
    BY <1>1, <1>3, ConcatProperties
  <1> HIDE DEF h1
  <1>5. h2 \in Seq(Units) /\ Len(h2) = Len(h1) + Len(Granted)
    BY <1>1, <1>4, ConcatProperties
  <1> HIDE DEF h2
  <1>6. h3 \in Seq(Units) /\ Len(h3) = Len(h2) + Len(Bnd)
    BY <1>1, <1>5, ConcatProperties
  <1> HIDE DEF h3
  <1>7. Handshake = IF ~z.proxied THEN <<>> ELSE h3
    BY DEF Handshake, h3, h2, h1, a
  <1>8. Handshake \in Seq(Units) /\ Len(Handshake) = HsLen(z) /\ HsLen(z) \in Nat
    <2>1. CASE ~z.proxied
      BY <2>1, <1>2, <1>7 DEF HsLen
    <2>2. CASE z.proxied /\ Auth
      <3>1. Len(h3) = 8
        <4>1. Len(a) = 2
          BY <2>2, <1>3
        <4> QED BY <4>1, <1>1, <1>4, <1>5, <1>6
      <3> QED BY <2>2, <3>1, <1>6, <1>7 DEF HsLen
    <2>3. CASE z.proxied /\ ~Auth
      <3>1. Len(h3) = 6
        <4>1. Len(a) = 0
          BY <2>3, <1>3
        <4> QED BY <4>1, <1>1, <1>4, <1>5, <1>6
      <3> QED BY <2>3, <3>1, <1>6, <1>7 DEF HsLen
    <2> QED BY <2>1, <2>2, <2>3
  <1>9. Data = Up(Download)
    BY DEF Data, Up
  <1>10. Data \in Seq(Units) /\ Len(Data) = Download /\ \A j \in 1..Download : Data[j] = j
    BY <1>9, UpTo, RelaySizes
  <1>11. /\ Stream \in Seq(Units) /\ Len(Stream) = Len(Handshake) + Len(Data)
         /\ \A i \in 1..(Len(Handshake) + Len(Data)) :
               Stream[i] = IF i <= Len(Handshake) THEN Handshake[i] ELSE Data[i - Len(Handshake)]
    BY <1>8, <1>10, ConcatProperties DEF Stream
  <1>12. \A j \in 1..Download : Stream[HsLen(z) + j] = j
    <2> SUFFICES ASSUME NEW j \in 1..Download PROVE Stream[HsLen(z) + j] = j
      OBVIOUS
    <2>1. /\ HsLen(z) + j \in 1..(HsLen(z) + Download) /\ ~(HsLen(z) + j <= HsLen(z))
          /\ (HsLen(z) + j) - HsLen(z) = j
      BY <1>8, RelaySizes
    <2> QED BY <2>1, <1>8, <1>10, <1>11
  <1> QED BY <1>8, <1>10, <1>11, <1>12

\* What recv returns of it.
LEMMA ChunkFacts ==
    ASSUME NEW k \in Nat, NEW n \in Nat, 0 < n, k + n <= Len(Stream)
    PROVE  LET chunk == SubSeq(Stream, k + 1, k + n)
           IN  /\ chunk \in Seq(Units) /\ Len(chunk) = n
               /\ HsLen(z) <= k => \A i \in 1..n : chunk[i] = (k - HsLen(z)) + i
  <1> DEFINE chunk == SubSeq(Stream, k + 1, k + n)
  <1>1. Stream \in Seq(Units) /\ HsLen(z) \in Nat /\ Len(Stream) = HsLen(z) + Download
    BY StreamFacts DEF HsLen
  <1>2. \A i \in (k + 1)..(k + n) : Stream[i] \in Units
    <2> SUFFICES ASSUME NEW i \in (k + 1)..(k + n) PROVE Stream[i] \in Units
      OBVIOUS
    <2>1. i \in 1..Len(Stream)
      BY <1>1, RelaySizes
    <2> QED BY <1>1, <2>1, ElementOfSeq
  <1>3. /\ chunk \in Seq(Units)
        /\ Len(chunk) = IF k + 1 <= k + n THEN (k + n) - (k + 1) + 1 ELSE 0
        /\ \A i \in 1..((k + n) - (k + 1) + 1) : chunk[i] = Stream[(k + 1) + i - 1]
    BY <1>2, SubSeqProperties
  <1>4. Len(chunk) = n /\ (k + n) - (k + 1) + 1 = n
    BY <1>3
  <1> HIDE DEF chunk
  <1>5. ASSUME HsLen(z) <= k, NEW i \in 1..n PROVE chunk[i] = (k - HsLen(z)) + i
    <2> DEFINE j == (k - HsLen(z)) + i
    <2>1. chunk[i] = Stream[(k + 1) + i - 1]
      BY <1>3, <1>4
    <2>2. j \in 1..Download /\ (k + 1) + i - 1 = HsLen(z) + j
      BY <1>1, <1>5, RelaySizes
    <2> HIDE DEF j
    <2>3. Stream[HsLen(z) + j] = j
      BY <2>2, StreamFacts
    <2> QED BY <2>1, <2>2, <2>3 DEF j
  <1> QED BY <1>3, <1>4, <1>5 DEF chunk

\* The bytes that recv returned are taken from the socket.
LEMMA TakenFields ==
    ASSUME NEW h \in RelayStates, NEW n \in Nat
    PROVE  LET t == [h EXCEPT !.server.taken = @ + n]
           IN  /\ t \in RelayStates /\ t.z = h.z /\ t.client = h.client /\ t.seen = h.seen
               /\ t.server.taken = h.server.taken + n /\ t.server.sent = h.server.sent
               /\ t.server.fin = h.server.fin /\ t.server.shut = h.server.shut
               /\ t.server.out = h.server.out
  <1> DEFINE t == [h EXCEPT !.server.taken = @ + n]
  <1>1. h.server \in RelayServers /\ h.server.taken \in Nat
    BY DEF RelayStates, RelayServers
  <1>2. t = [h EXCEPT !.server = [h.server EXCEPT !.taken = @ + n]]
    BY DEF RelayStates
  <1> DEFINE v == [h.server EXCEPT !.taken = @ + n]
             m == h.server.taken + n
  <1>3. /\ v \in RelayServers /\ v.taken = m /\ v.sent = h.server.sent
        /\ v.fin = h.server.fin /\ v.shut = h.server.shut /\ v.out = h.server.out
    <2>1. v = [h.server EXCEPT !.taken = m] /\ m \in Nat
      BY <1>1
    <2> HIDE DEF v, m
    <2>2. v = [up |-> h.server.up, sent |-> h.server.sent, taken |-> m, fin |-> h.server.fin,
               shut |-> h.server.shut, out |-> h.server.out]
      BY <2>1, <1>1 DEF RelayServers
    <2>3. v \in RelayServers
      BY <2>1, <2>2, <1>1, Zenon DEF RelayServers
    <2> QED BY <2>2, <2>3, Zenon
  <1> HIDE DEF v, t
  <1>4. t.server = v /\ t \in RelayStates /\ t.z = h.z /\ t.client = h.client /\ t.seen = h.seen
    BY <1>2, <1>3 DEF RelayStates, v
  <1> QED BY <1>3, <1>4 DEF t, m

\* A reply of the proxy that is not the expected one ends the connection.
LEMMA RefusedKeeps ==
    ASSUME NEW s, NEW q, RelayInv(s, q), s.z.status \in {"connecting", "connected"},
           NEW n \in Nat, s.server.taken + n <= s.server.sent, NEW ok \in BOOLEAN
    PROVE  RelayInv([zdtun_conn_close(s, ok) EXCEPT !.server.taken = @ + n], q)
  <1> DEFINE h == zdtun_conn_close(s, ok)
             t == [h EXCEPT !.server.taken = @ + n]
  <1>1. s \in RelayStates /\ s.client.st # "closed" /\ s.z.status # "closed"
    BY DEF RelayInv, ControlInv
  <1>2. /\ h \in RelayStates /\ ClosedFrom(s.z, h.z) /\ EndOfClient(s.client, h.client)
        /\ h.server = s.server /\ h.seen = s.seen
    BY <1>1, CloseFields
  <1> HIDE DEF h
  <1>3. /\ t \in RelayStates /\ t.z = h.z /\ t.client = h.client /\ t.seen = h.seen
        /\ t.server.taken = h.server.taken + n /\ t.server.sent = h.server.sent
        /\ t.server.fin = h.server.fin /\ t.server.shut = h.server.shut
        /\ t.server.out = h.server.out
    BY <1>2, TakenFields
  <1> HIDE DEF t
  <1>4. /\ ClosedFrom(s.z, t.z) /\ EndOfClient(s.client, t.client) /\ t.seen = s.seen
        /\ t.server.out = s.server.out /\ t.server.shut = s.server.shut
        /\ t.server.fin = s.server.fin /\ t.server.sent = s.server.sent
        /\ t.server.taken <= s.server.sent
    BY <1>2, <1>3
  <1>5. RelayInv(t, q)
    BY <1>1, <1>3, <1>4, EndKeeps
  <1> QED BY <1>5 DEF t, h

\* The same connection at another point of the handshake.
OnlySocks(c, d) ==
    /\ d \in RelayConns /\ d.status = c.status /\ d.sock = c.sock /\ d.rd = c.rd /\ d.wr = c.wr
    /\ d.tx_queue = c.tx_queue /\ d.client_seq = c.client_seq /\ d.zdtun_seq = c.zdtun_seq
    /\ d.window_size = c.window_size /\ d.fin_ack_sent = c.fin_ack_sent
    /\ d.proxied = c.proxied /\ d.client_closed = c.client_closed

\* A reply of the proxy that is the expected one continues the handshake.
LEMMA HandshakeKeeps ==
    ASSUME NEW s, NEW q, RelayInv(s, q), s.z.status = "connected", SocksInProgress(s.z),
           NEW c, OnlySocks(s.z, c), c.socks5_status # "established",
           NEW n \in Nat, s.server.taken + n <= s.server.sent,
           NEW t, t = [Set(s, c) EXCEPT !.server.taken = @ + n], SocksInv(t)
    PROVE  RelayInv(t, q)
  <1>1. s \in RelayStates /\ c \in RelayConns
    BY DEF RelayInv, OnlySocks
  <1>2. /\ Set(s, c) \in RelayStates /\ Set(s, c).z = c
        /\ Set(s, c).client = s.client /\ Set(s, c).server = s.server /\ Set(s, c).seen = s.seen
    BY <1>1, SetFields
  <1>3. /\ t \in RelayStates /\ t.z = c /\ t.client = s.client /\ t.seen = s.seen
        /\ t.server.taken = s.server.taken + n /\ t.server.sent = s.server.sent
        /\ t.server.fin = s.server.fin /\ t.server.shut = s.server.shut
        /\ t.server.out = s.server.out
    BY <1>2, TakenFields
  <1>4. /\ c.status = "connected" /\ c.proxied /\ SocksInProgress(c) /\ ~Relays(c) /\ ~Relays(s.z)
        /\ HsLen(c) = HsLen(s.z) /\ Lost(t) = Lost(s)
    BY <1>3, Zenon DEF OnlySocks, SocksInProgress, Relays, HsLen, Lost
  <1>5. ControlInv(t)
    <2>1. ControlInv(s)
      BY DEF RelayInv
    <2> QED BY <1>3, <1>4, <2>1 DEF ControlInv, OnlySocks
  <1>6. SeqInv(t)
    BY <1>3, <1>4, Zenon DEF RelayInv, SeqInv, OnlySocks
  <1>7. UploadInv(t)
    <2>1. UploadInv(s)
      BY DEF RelayInv
    <2>2. /\ t.z.sock = s.z.sock /\ t.z.status = s.z.status /\ t.z.client_seq = s.z.client_seq
          /\ t.z.tx_queue = s.z.tx_queue /\ t.z.client_closed = s.z.client_closed
      BY <1>3, Zenon DEF OnlySocks
    <2> QED BY <1>3, <2>1, <2>2 DEF UploadInv
  <1>8. DownloadInv(t, q)
    BY <1>3, <1>4, Zenon DEF RelayInv, DownloadInv, OnlySocks
  <1> QED BY <1>3, <1>5, <1>6, <1>7, <1>8 DEF RelayInv

\* The handshake is over: the SYN+ACK is sent.
LEMMA EstablishedKeeps ==
    ASSUME NEW s, NEW q, RelayInv(s, q), s.z.status = "connected", SocksInProgress(s.z), s.z.sock,
           NEW c, OnlySocks(s.z, c), c.socks5_status = "established",
           NEW n \in Nat, s.server.taken + n = HsLen(s.z), s.server.taken + n <= s.server.sent,
           NEW ok \in BOOLEAN
    PROVE  RelayInv([send_syn_ack(Set(s, c), ok) EXCEPT !.server.taken = @ + n], q)
  <1> DEFINE u == Set(s, c)
             h == send_syn_ack(u, ok)
             t == [h EXCEPT !.server.taken = @ + n]
  <1>1. /\ s \in RelayStates /\ c \in RelayConns /\ s.z \in RelayConns /\ s.server.taken \in Nat
        /\ s.client.snd_una <= s.client.snd_nxt /\ s.z.zdtun_seq \in Nat
    BY StateParts DEF RelayInv, OnlySocks, ClientInv, RelayServers, RelayConns
  <1>2. /\ s.client.st = "syn_sent" /\ "first_ack" \notin s.seen /\ (Lost(s) \/ s.z.zdtun_seq = 0)
        /\ ~s.z.fin_ack_sent
    BY Zenon DEF RelayInv, ControlInv
  <1>3. /\ u \in RelayStates /\ u.z = c /\ u.client = s.client /\ u.server = s.server
        /\ u.seen = s.seen
    BY <1>1, SetFields
  <1> HIDE DEF u
  <1>4. CASE ok = TRUE
    <2> DEFINE e == [u.z EXCEPT !.zdtun_seq = @ + 1]
    <2>1. u.client.st = "syn_sent" /\ u.client.snd_una <= u.client.snd_nxt
      BY <1>1, <1>2, <1>3
    <2>2. /\ h \in RelayStates /\ h.z = e /\ OpenClient(u.client, h.client)
          /\ h.server = u.server /\ h.seen = u.seen
      BY <1>3, <1>4, <2>1, SynAckFields
    <2>3. /\ e.status = c.status /\ e.sock = c.sock /\ e.wr = c.wr
          /\ e.tx_queue = c.tx_queue /\ e.client_seq = c.client_seq /\ e.zdtun_seq = c.zdtun_seq + 1
          /\ e.fin_ack_sent = c.fin_ack_sent /\ e.proxied = c.proxied
          /\ e.client_closed = c.client_closed /\ e.socks5_status = c.socks5_status
      BY <1>1, <1>3 DEF RelayConns
    <2> HIDE DEF h, e
    <2>4. /\ t \in RelayStates /\ t.z = h.z /\ t.client = h.client /\ t.seen = h.seen
          /\ t.server.taken = h.server.taken + n /\ t.server.sent = h.server.sent
          /\ t.server.fin = h.server.fin /\ t.server.shut = h.server.shut
          /\ t.server.out = h.server.out
      BY <2>2, TakenFields
    <2> HIDE DEF t
    <2>5. /\ t.z.status = "connected" /\ t.z.sock = s.z.sock /\ t.z.wr = s.z.wr
          /\ t.z.tx_queue = s.z.tx_queue /\ t.z.client_seq = s.z.client_seq
          /\ t.z.zdtun_seq = s.z.zdtun_seq + 1 /\ ~t.z.fin_ack_sent /\ t.z.proxied = s.z.proxied
          /\ t.z.client_closed = s.z.client_closed /\ t.z.socks5_status = "established" /\ t.z.proxied
      <3>1. t.z = e
        BY <2>2, <2>4
      <3> QED BY <3>1, <2>3, <1>2, Zenon DEF OnlySocks, SocksInProgress
    <2>6. /\ OpenClient(s.client, t.client) /\ t.seen = s.seen
          /\ t.server.taken = s.server.taken + n /\ t.server.sent = s.server.sent
          /\ t.server.shut = s.server.shut /\ t.server.out = s.server.out
      BY <2>2, <2>4, <1>3
    <2>7. ~SocksInProgress(t.z) /\ HsLen(t.z) = HsLen(s.z)
      BY <2>5, Zenon DEF SocksInProgress, HsLen
    <2>8. UploadInv(t)
      <3>1. UploadInv(s) /\ t.client.snd_nxt = s.client.snd_nxt
        BY <2>6 DEF RelayInv, OpenClient
      <3> QED BY <3>1, <2>5, <2>6, ZenonT(20) DEF UploadInv
    <2>9. ~t.z.wr \/ t.z.tx_queue # <<>>
      BY <2>5 DEF RelayInv, ControlInv
    <2>10. s.z.zdtun_seq = 0 /\ t.server.taken - HsLen(t.z) = s.z.zdtun_seq
      <3>1. ~Relays(s.z)
        BY DEF Relays
      <3>2. s.z.zdtun_seq = 0 + 0 + 0
        BY <3>1, <1>2, Zenon DEF RelayInv, SeqInv
      <3>3. HsLen(s.z) \in Nat
        BY DEF HsLen
      <3> QED BY <3>2, <3>3, <2>6, <2>7, <1>1
    <2>11. t.server.taken <= t.server.sent
      BY <2>6
    <2>12. RelayInv(t, q)
      BY <1>2, <2>4, <2>5, <2>6, <2>7, <2>8, <2>9, <2>10, <2>11, SynAckKeeps
    <2> QED BY <2>12 DEF t, h, u
  <1>5. CASE ok = FALSE
    <2>1. h = send_to_client(u, "syn_ack", <<>>, FALSE)
      BY <1>5 DEF send_syn_ack, SendSeq
    <2> HIDE DEF h
    <2>2. /\ h \in RelayStates /\ ClosedFrom(u.z, h.z) /\ h.client = u.client
          /\ h.server = u.server /\ h.seen = u.seen
      BY <1>3, <2>1, SendFails
    <2>3. /\ t \in RelayStates /\ t.z = h.z /\ t.client = h.client /\ t.seen = h.seen
          /\ t.server.taken = h.server.taken + n /\ t.server.sent = h.server.sent
          /\ t.server.fin = h.server.fin /\ t.server.shut = h.server.shut
          /\ t.server.out = h.server.out
      BY <2>2, TakenFields
    <2> HIDE DEF t
    <2>4. ClosedFrom(s.z, t.z)
      BY <2>2, <2>3, <1>3, ZenonT(20) DEF ClosedFrom, OnlySocks
    <2>5. /\ EndOfClient(s.client, t.client) /\ t.seen = s.seen
          /\ t.server.out = s.server.out /\ t.server.shut = s.server.shut
          /\ t.server.fin = s.server.fin /\ t.server.sent = s.server.sent
          /\ t.server.taken <= s.server.sent /\ s.client.st # "closed"
      BY <2>2, <2>3, <1>2, <1>3 DEF EndOfClient
    <2>6. RelayInv(t, q)
      BY <2>3, <2>4, <2>5, EndKeeps
    <2> QED BY <2>6 DEF t, h, u
  <1> QED BY <1>4, <1>5

\* The address of a granted request is skipped, whatever the reads it comes in.
LEMMA SkipKeeps ==
    ASSUME NEW s, NEW q, RelayInv(s, q), s.z.status = "connected", SocksInProgress(s.z), s.z.sock,
           NEW n \in Nat, s.server.taken + n <= s.server.sent,
           NEW chunk, Len(chunk) \in Nat, NEW skip \in Nat,
           (s.server.taken + n) - Len(chunk) + skip = HsLen(s.z), NEW ok \in BOOLEAN
    PROVE  RelayInv([SkipBnd(s, chunk, skip, ok) EXCEPT !.server.taken = @ + n], q)
  <1> DEFINE c == [s.z EXCEPT !.socks5_skip = skip - Len(chunk),
                              !.socks5_status = IF skip = Len(chunk) THEN "established" ELSE "skip_bnd"]
  <1>1. s \in RelayStates /\ s.z \in RelayConns /\ s.server.taken \in Nat /\ HsLen(s.z) \in Nat
    BY StateParts DEF RelayInv, RelayServers, HsLen
  <1>2. /\ OnlySocks(s.z, c) /\ c.socks5_skip = skip - Len(chunk)
        /\ c.socks5_status = IF skip = Len(chunk) THEN "established" ELSE "skip_bnd"
    <2> DEFINE k == skip - Len(chunk)
               st == IF skip = Len(chunk) THEN "established" ELSE "skip_bnd"
    <2>1. k \in Int /\ st \in {"established", "skip_bnd"}
      OBVIOUS
    <2>2. c = [s.z EXCEPT !.socks5_skip = k, !.socks5_status = st]
      OBVIOUS
    <2> HIDE DEF k, st, c
    <2>3. OnlySocks(s.z, c) /\ c.socks5_skip = k /\ c.socks5_status = st
      BY <1>1, <2>1, <2>2 DEF OnlySocks, RelayConns
    <2> QED BY <2>3 DEF k, st
  <1>3. SkipBnd(s, chunk, skip, ok) =
           IF Len(chunk) > skip THEN zdtun_conn_close(s, ok)
           ELSE IF skip = Len(chunk) THEN send_syn_ack(Set(s, c), ok) ELSE Set(s, c)
    BY DEF SkipBnd
  <1> HIDE DEF c
  <1>4. CASE Len(chunk) > skip
    BY <1>3, <1>4, RefusedKeeps
  <1>5. CASE skip = Len(chunk)
    <2>1. s.server.taken + n = HsLen(s.z) /\ ~(Len(chunk) > skip) /\ c.socks5_status = "established"
      BY <1>1, <1>2, <1>5
    <2>2. SkipBnd(s, chunk, skip, ok) = send_syn_ack(Set(s, c), ok)
      BY <2>1, <1>3, <1>5
    <2> QED BY <1>2, <2>1, <2>2, EstablishedKeeps
  <1>6. CASE Len(chunk) < skip
    <2> DEFINE t == [Set(s, c) EXCEPT !.server.taken = @ + n]
    <2>1. ~(Len(chunk) > skip) /\ skip # Len(chunk) /\ c.socks5_status = "skip_bnd"
      BY <1>2, <1>6
    <2>2. SkipBnd(s, chunk, skip, ok) = Set(s, c)
      BY <2>1, <1>3
    <2>3. /\ Set(s, c) \in RelayStates /\ Set(s, c).z = c /\ Set(s, c).server = s.server
      BY <1>1, <1>2, SetFields DEF OnlySocks
    <2>4. t.z = c /\ t.server.taken = s.server.taken + n
      <3> DEFINE u == Set(s, c)
      <3>1. u \in RelayStates /\ u.z = c /\ u.server = s.server
        BY <2>3
      <3> HIDE DEF u
      <3>2. t = [u EXCEPT !.server.taken = @ + n]
        BY DEF u
      <3> HIDE DEF t
      <3>3. t.z = u.z /\ t.server.taken = u.server.taken + n
        BY <3>1, <3>2, TakenFields
      <3> QED BY <3>1, <3>3
    <2> HIDE DEF t
    <2>5. /\ t.server.taken + t.z.socks5_skip = HsLen(s.z) /\ t.z.socks5_skip > 0
          /\ HsLen(t.z) = HsLen(s.z) /\ t.z.socks5_status = "skip_bnd"
      <3>1. HsLen(t.z) = HsLen(s.z)
        BY <2>4, <1>2, Zenon DEF OnlySocks, HsLen
      <3>2. t.z.socks5_skip = skip - Len(chunk) /\ t.z.socks5_status = "skip_bnd"
        BY <1>2, <2>1, <2>4
      <3>3. t.server.taken + t.z.socks5_skip = HsLen(s.z) /\ t.z.socks5_skip > 0
        BY <3>2, <1>1, <1>6, <2>4, SMTT(30)
      <3> QED BY <3>1, <3>2, <3>3
    <2>6. SocksInv(t)
      BY <2>5 DEF SocksInv
    <2>7. RelayInv(t, q)
      BY <1>2, <2>1, <2>6, HandshakeKeeps DEF t
    <2> QED BY <2>2, <2>7 DEF t
  <1>7. Len(chunk) > skip \/ skip = Len(chunk) \/ Len(chunk) < skip
    OBVIOUS
  <1> QED BY <1>4, <1>5, <1>6, <1>7

\* A reply of the proxy to a choice of the handshake.
LEMMA ChoiceKeeps ==
    ASSUME NEW s, NEW q, RelayInv(s, q), s.z.status = "connected", SocksInProgress(s.z),
           NEW n \in Nat, s.server.taken + n <= s.server.sent,
           NEW st \in {"auth", "connecting"},
           st = "auth" => Auth /\ s.server.taken + n = 2 /\ s.server.sent <= 4,
           st = "connecting" => s.server.taken + n + 4 = HsLen(s.z)
    PROVE  RelayInv([Set(s, [s.z EXCEPT !.socks5_status = st]) EXCEPT !.server.taken = @ + n], q)
  <1> DEFINE c == [s.z EXCEPT !.socks5_status = st]
             t == [Set(s, c) EXCEPT !.server.taken = @ + n]
  <1>1. s \in RelayStates /\ s.z \in RelayConns
    BY StateParts DEF RelayInv
  <1>2. OnlySocks(s.z, c) /\ c.socks5_status = st
    BY <1>1 DEF OnlySocks, RelayConns
  <1> HIDE DEF c
  <1>3. /\ Set(s, c) \in RelayStates /\ Set(s, c).z = c /\ Set(s, c).server = s.server
    BY <1>1, <1>2, SetFields DEF OnlySocks
  <1>4. t.z = c /\ t.server.taken = s.server.taken + n /\ t.server.sent = s.server.sent
    <2>1. /\ t.z = Set(s, c).z /\ t.server.taken = Set(s, c).server.taken + n
          /\ t.server.sent = Set(s, c).server.sent
      BY <1>3, TakenFields, ZenonT(20)
    <2> QED BY <2>1, <1>3
  <1> HIDE DEF t
  <1>5. HsLen(t.z) = HsLen(s.z) /\ t.z.socks5_status = st
    BY <1>2, <1>4, Zenon DEF OnlySocks, HsLen
  <1>6. SocksInv(t)
    BY <1>4, <1>5 DEF SocksInv
  <1>7. RelayInv(t, q)
    BY <1>2, <1>6, HandshakeKeeps DEF t
  <1> QED BY <1>7 DEF t, c

\* handle_socks5_reply keeps the invariant.
LEMMA SocksReplyKeeps ==
    ASSUME NEW s, NEW q, RelayInv(s, q), s.z.status = "connected", SocksInProgress(s.z), s.z.sock,
           NEW chunk \in Seq(Units), NEW n \in Nat, Len(chunk) = n, 0 < n,
           s.server.taken + n <= s.server.sent, NEW ok \in BOOLEAN
    PROVE  RelayInv([handle_socks5_reply(s, chunk, ok) EXCEPT !.server.taken = @ + n], q)
  <1> DEFINE h == handle_socks5_reply(s, chunk, ok)
             st == s.z.socks5_status
  <1>1. s.server.taken \in Nat /\ s.server.sent \in Nat /\ s.z.socks5_skip \in Int /\ s.z.proxied
    BY StateParts DEF RelayInv, RelayServers, RelayConns, SocksInProgress
  <1>2. SocksInv(s) /\ HsLen(s.z) = IF Auth THEN 8 ELSE 6
    BY <1>1 DEF RelayInv, HsLen
  <1>3. Len(Choice) = 2 /\ Len(AuthOk) = 2 /\ Len(Granted) = 2 /\ Len(Bnd) = 2
    BY DEF Choice, AuthOk, Granted, Bnd
  <1>4. CASE st = "hello" /\ chunk = Choice
    <2> DEFINE to == IF Auth THEN "auth" ELSE "connecting"
    <2>1. h = Set(s, [s.z EXCEPT !.socks5_status = to])
      BY <1>4 DEF handle_socks5_reply
    <2>2. s.server.taken = 0 /\ s.server.sent <= 2 /\ n = 2
      BY <1>1, <1>2, <1>3, <1>4 DEF SocksInv
    <2>3. to \in {"auth", "connecting"}
      OBVIOUS
    <2>4. to = "auth" => Auth /\ s.server.taken + n = 2 /\ s.server.sent <= 4
      BY <2>2, <1>1
    <2>5. to = "connecting" => s.server.taken + n + 4 = HsLen(s.z)
      BY <2>2, <1>2
    <2> HIDE DEF h, to
    <2> QED BY <2>1, <2>3, <2>4, <2>5, ChoiceKeeps DEF h
  <1>5. CASE st = "auth" /\ StartsWith(chunk, AuthOk)
    <2>1. h = Set(s, [s.z EXCEPT !.socks5_status = "connecting"])
      BY <1>5 DEF handle_socks5_reply
    <2>2. Auth /\ s.server.taken = 2 /\ s.server.sent <= 4 /\ n >= 2
      BY <1>1, <1>2, <1>3, <1>5 DEF SocksInv, StartsWith
    <2>3. s.server.taken + n + 4 = HsLen(s.z)
      BY <2>2, <1>1, <1>2
    <2> HIDE DEF h
    <2> QED BY <2>1, <2>3, ChoiceKeeps DEF h
  <1>6. CASE st = "connecting" /\ StartsWith(chunk, Granted)
    <2> DEFINE rest == SubSeq(chunk, Len(Granted) + 1, Len(chunk))
    <2>1. h = SkipBnd(s, rest, Len(Bnd), ok)
      BY <1>6 DEF handle_socks5_reply
    <2>2. s.server.taken + 4 = HsLen(s.z) /\ n >= 2
      BY <1>1, <1>2, <1>3, <1>6 DEF SocksInv, StartsWith
    <2>3. \A i \in 3..n : chunk[i] \in Units
      <3> SUFFICES ASSUME NEW i \in 3..n PROVE chunk[i] \in Units
        OBVIOUS
      <3>1. i \in 1..Len(chunk)
        OBVIOUS
      <3> QED BY <3>1, ElementOfSeq
    <2>4. Len(SubSeq(chunk, 3, n)) = IF 3 <= n THEN n - 3 + 1 ELSE 0
      BY <2>3, SubSeqProperties
    <2>5. rest = SubSeq(chunk, 3, n)
      BY <1>3
    <2> HIDE DEF h, rest
    <2>6. Len(rest) \in Nat /\ Len(rest) = n - 2
      BY <2>2, <2>4, <2>5
    <2>7. Len(Bnd) \in Nat /\ (s.server.taken + n) - Len(rest) + Len(Bnd) = HsLen(s.z)
      BY <2>2, <2>6, <1>1, <1>3
    <2> QED BY <2>1, <2>6, <2>7, SkipKeeps, SMTT(30) DEF h
  <1>7. CASE st = "skip_bnd"
    <2>1. h = SkipBnd(s, chunk, s.z.socks5_skip, ok)
      BY <1>7 DEF handle_socks5_reply
    <2>2. s.server.taken + s.z.socks5_skip = HsLen(s.z) /\ s.z.socks5_skip \in Nat
      BY <1>1, <1>2, <1>7 DEF SocksInv
    <2>3. (s.server.taken + n) - Len(chunk) + s.z.socks5_skip = HsLen(s.z)
      BY <2>2, <1>1
    <2> HIDE DEF h
    <2> QED BY <2>1, <2>2, <2>3, SkipKeeps DEF h
  <1>8. CASE /\ ~(st = "hello" /\ chunk = Choice) /\ ~(st = "auth" /\ StartsWith(chunk, AuthOk))
             /\ ~(st = "connecting" /\ StartsWith(chunk, Granted)) /\ st # "skip_bnd"
    <2>1. h = zdtun_conn_close(s, ok)
      BY <1>8 DEF handle_socks5_reply
    <2> HIDE DEF h
    <2> QED BY <2>1, RefusedKeeps DEF h
  <1> QED BY <1>4, <1>5, <1>6, <1>7, <1>8

-----------------------------------------------------------------------------
(* Data and the FIN to the client.                                         *)

\* What a packet does to the client, the window and the packets that wait.
WentOn(q, c, d, flag, seq, data) ==
    /\ ClientInv(d) /\ TunInv(q, d)
    /\ Edge(d) \in Int /\ Edge(c) \in Int /\ Edge(d) = Edge(c) + FinByte(d)
    /\ d.fin => flag = "fin" /\ Takes(c, seq, data)
    /\ Takes(c, seq, data) => d.rcv_nxt = (c.rcv_nxt + Len(data)) + FinByte(d)
    /\ Takes(c, seq, data) => d.got = c.got \o data /\ c.rcv_nxt > 0
    /\ ~Takes(c, seq, data) => d.rcv_nxt = c.rcv_nxt /\ d.got = c.got

\* A client that has had no FIN keeps its rules, whether it takes a packet or not.
LEMMA MoreClient ==
    ASSUME NEW q \in Seq(Segments), NEW c \in RelayClients, ClientInv(c), TunInv(q, c), ~c.fin,
           c.st # "closed",
           NEW flag \in {"ack", "fin"}, NEW data \in Seq(Units), flag = "fin" => data = <<>>,
           NEW seq \in Nat, NEW d \in RelayClients, OtherwiseSame(c, d),
           IF Takes(c, seq, data) THEN TakenBy(c, d, flag, data) ELSE SameClient(c, d)
    PROVE  WentOn(q, c, d, flag, seq, data)
  <1>1. /\ c.rcv_nxt \in Nat /\ c.read \in Nat /\ d.rcv_nxt \in Nat /\ d.read \in Nat
        /\ d.st = c.st /\ d.snd_nxt = c.snd_nxt /\ d.read = c.read /\ d.snd_una <= d.snd_nxt
        /\ Len(data) \in Nat /\ FinByte(c) = 0 /\ d.fin \in BOOLEAN
    BY LenProperties DEF RelayClients, OtherwiseSame, FinByte
  <1>2. CASE Takes(c, seq, data)
    <2>1. /\ c.st \in {"open", "fin_sent"} /\ c.rcv_nxt > 0
          /\ Len(data) <= Window - (c.rcv_nxt - 1 - c.read)
      BY <1>2, Zenon DEF Takes, ClientInv
    <2>2. TakenBy(c, d, flag, data)
      BY <1>2
    <2>3. d.fin <=> flag = "fin"
      BY <2>2, Zenon DEF TakenBy
    <2>4. d.rcv_nxt = (c.rcv_nxt + Len(data)) + FinByte(d) /\ FinByte(d) \in {0, 1}
      BY <2>2, <2>3, <1>1 DEF TakenBy, FinByte
    <2>5. d.got = c.got \o data
      BY <2>2 DEF TakenBy
    <2>6. /\ Edge(c) = (Window + 1) + 0 + c.read /\ Edge(d) = (Window + 1) + FinByte(d) + c.read
          /\ d.rcv_nxt > 0
      BY <2>1, <2>4, <1>1 DEF Edge
    <2>7. Edge(d) \in Int /\ Edge(c) \in Int /\ Edge(d) = Edge(c) + FinByte(d) /\ Edge(c) <= Edge(d)
      BY <2>4, <2>6, <1>1, RelaySizes
    <2>8. ClientInv(d)
      <3>1. 1 + FinByte(c) + c.read <= c.rcv_nxt
        BY <2>1 DEF ClientInv
      <3>2. /\ 1 + FinByte(d) + d.read <= d.rcv_nxt
            /\ d.rcv_nxt <= (Window + 1) + FinByte(d) + d.read
        BY <3>1, <2>1, <2>4, <1>1, RelaySizes, SMTT(30)
      <3> QED BY <3>2, <2>1, <2>6, <1>1 DEF ClientInv
    <2>9. TunInv(q, d)
      BY <2>7, <1>1, TunKeeps
    <2> QED BY <1>2, <2>1, <2>3, <2>4, <2>5, <2>7, <2>8, <2>9 DEF WentOn
  <1>3. CASE ~Takes(c, seq, data)
    <2>1. d.rcv_nxt = c.rcv_nxt /\ d.got = c.got /\ d.fin = c.fin
      BY <1>3 DEF SameClient
    <2>2. Edge(d) = Edge(c) /\ FinByte(d) = 0
      BY <2>1, <1>1, Zenon DEF Edge, FinByte
    <2>3. Edge(c) \in Int
      BY <1>1, RelaySizes DEF Edge
    <2>4. ClientInv(d)
      BY <2>1, <2>2, <1>1, Zenon DEF ClientInv
    <2>5. TunInv(q, d)
      BY <2>2, <2>3, <1>1, TunKeeps
    <2> QED BY <1>3, <2>1, <2>2, <2>3, <2>4, <2>5 DEF WentOn
  <1> QED BY <1>2, <1>3

\* The connection after data or a FIN was sent.
SentMore(s, t, n, fin) ==
    /\ t \in RelayStates /\ t.seen = s.seen
    /\ t.z.status = s.z.status /\ t.z.tx_queue = s.z.tx_queue /\ t.z.client_seq = s.z.client_seq
    /\ t.z.proxied = s.z.proxied /\ t.z.client_closed = s.z.client_closed
    /\ t.z.socks5_status = s.z.socks5_status /\ t.z.socks5_skip = s.z.socks5_skip
    /\ t.z.zdtun_seq = (s.z.zdtun_seq + n) + fin
    /\ t.server.taken = s.server.taken + n /\ t.server.sent = s.server.sent
    /\ t.server.fin = s.server.fin /\ t.server.shut = s.server.shut
    /\ t.server.out = s.server.out

\* What does not depend on the client.
LEMMA SentMoreFacts ==
    ASSUME NEW s, NEW q, RelayInv(s, q), NEW n \in Nat, NEW fin \in {0, 1}, NEW t, SentMore(s, t, n, fin)
    PROVE  /\ Relays(t.z) = Relays(s.z) /\ SocksInProgress(t.z) = SocksInProgress(s.z)
           /\ HsLen(t.z) = HsLen(s.z) /\ HsLen(s.z) \in Nat /\ Lost(t) = Lost(s)
           /\ s.z.zdtun_seq \in Nat /\ s.server.taken \in Nat /\ s.server.sent \in Nat
           /\ s.z.window_size \in Nat /\ s.client \in RelayClients /\ s.client.rcv_nxt \in Nat
           /\ t.client \in RelayClients
  <1>1. Relays(t.z) = Relays(s.z) /\ SocksInProgress(t.z) = SocksInProgress(s.z)
    BY Zenon DEF SentMore, Relays, SocksInProgress
  <1>2. HsLen(t.z) = HsLen(s.z) /\ HsLen(s.z) \in Nat /\ Lost(t) = Lost(s)
    BY DEF SentMore, HsLen, Lost
  <1>3. /\ s.z.zdtun_seq \in Nat /\ s.server.taken \in Nat /\ s.server.sent \in Nat
        /\ s.z.window_size \in Nat /\ s.client \in RelayClients /\ s.client.rcv_nxt \in Nat
    <2>1. s.z \in RelayConns /\ s.client \in RelayClients /\ s.server \in RelayServers
      BY StateParts DEF RelayInv
    <2>2. /\ s.z.zdtun_seq \in Nat /\ s.server.taken \in Nat /\ s.server.sent \in Nat
          /\ s.z.window_size \in 0..(WindowMod - 1) /\ s.client.rcv_nxt \in Nat
      BY <2>1, Zenon DEF RelayConns, RelayServers, RelayClients
    <2> QED BY <2>1, <2>2, RelayConstants
  <1>4. t.client \in RelayClients
    BY StateParts DEF SentMore
  <1> QED BY <1>1, <1>2, <1>3, <1>4

\* What handle_tcp_reply may send: after the SYN+ACK, and within the window.
MaySend(s, n) ==
    ~Lost(s) => s.z.zdtun_seq # 0 /\ ("first_ack" \in s.seen \/ s.z.zdtun_seq + n <= Window + 1)

\* Data was sent to the client.
LEMMA DataKeeps ==
    ASSUME NEW s, NEW q, RelayInv(s, q), s.z.sock, ~SocksInProgress(s.z),
           NEW chunk \in Seq(Units), NEW n \in Nat, Len(chunk) = n, 0 < n, n <= s.z.window_size,
           s.server.taken + n <= s.server.sent, MaySend(s, n),
           HsLen(s.z) <= s.server.taken =>
              \A i \in 1..n : chunk[i] = (s.server.taken - HsLen(s.z)) + i,
           NEW t, SentMore(s, t, n, 0), t.z.sock, ~t.z.fin_ack_sent, t.z.wr = s.z.wr,
           t.z.window_size = s.z.window_size - n,
           OtherwiseSame(s.client, t.client),
           IF Takes(s.client, s.z.zdtun_seq, chunk) THEN TakenBy(s.client, t.client, "ack", chunk)
           ELSE SameClient(s.client, t.client)
    PROVE  RelayInv(t, q)
  <1> DEFINE c == s.client  d == t.client
             takes == Takes(c, s.z.zdtun_seq, chunk)
  <1>0. ControlInv(s) /\ SocksInv(s) /\ SeqInv(s) /\ UploadInv(s) /\ DownloadInv(s, q)
    BY DEF RelayInv
  <1>1. /\ Relays(t.z) = Relays(s.z) /\ SocksInProgress(t.z) = SocksInProgress(s.z)
        /\ HsLen(t.z) = HsLen(s.z) /\ HsLen(s.z) \in Nat /\ Lost(t) = Lost(s)
        /\ s.z.zdtun_seq \in Nat /\ s.server.taken \in Nat /\ s.server.sent \in Nat
        /\ s.z.window_size \in Nat /\ c \in RelayClients /\ c.rcv_nxt \in Nat
        /\ d \in RelayClients
    BY SentMoreFacts
  <1>2. ~s.z.fin_ack_sent /\ ~c.fin /\ c.st # "closed" /\ s.z.status \in {"connecting", "connected"}
    BY <1>0, Zenon DEF ControlInv
  <1>3. ClientInv(c) /\ TunInv(q, c) /\ q \in Seq(Segments)
    BY DEF RelayInv
  <1>4. /\ ClientInv(d) /\ TunInv(q, d)
        /\ Edge(d) \in Int /\ Edge(c) \in Int /\ Edge(d) = Edge(c) + FinByte(d)
        /\ ~d.fin
        /\ takes => d.rcv_nxt = (c.rcv_nxt + Len(chunk)) + FinByte(d)
        /\ takes => d.got = c.got \o chunk /\ c.rcv_nxt > 0
        /\ ~takes => d.rcv_nxt = c.rcv_nxt /\ d.got = c.got
    <2>1. "ack" \in {"ack", "fin"} /\ ("ack" = "fin" => chunk = <<>>) /\ "ack" # "fin"
      OBVIOUS
    <2>2. WentOn(q, c, d, "ack", s.z.zdtun_seq, chunk)
      BY <1>1, <1>2, <1>3, <2>1, MoreClient
    <2> QED BY <2>1, <2>2 DEF WentOn
  <1>5. FinByte(d) = 0 /\ d.st = c.st /\ d.snd_nxt = c.snd_nxt /\ Edge(d) = Edge(c)
    BY <1>4 DEF FinByte, OtherwiseSame
  <1>6. ControlInv(t)
    <2>1. Lost(s) \/ s.z.zdtun_seq # 0
      BY DEF MaySend
    <2>2. s.z.status = "connecting" => Lost(s)
      BY <2>1, <1>0, Zenon DEF ControlInv
    <2>3. Relays(t.z) /\ ~Lost(t) => t.z.zdtun_seq > 0 /\ d.st \in {"open", "fin_sent", "reset"}
      BY <1>0, <1>1, <1>5 DEF ControlInv, SentMore
    <2>4. /\ t.z.status = s.z.status /\ t.z.tx_queue = s.z.tx_queue /\ t.z.client_seq = s.z.client_seq
          /\ t.z.client_closed = s.z.client_closed /\ t.z.socks5_status = s.z.socks5_status
          /\ t.seen = s.seen /\ t.server.sent = s.server.sent /\ t.server.shut = s.server.shut
          /\ t.server.out = s.server.out /\ t.z.proxied = s.z.proxied
          /\ t.server.taken <= t.server.sent
      BY DEF SentMore
    <2> QED BY <2>2, <2>3, <2>4, <1>0, <1>1, <1>2, <1>4, <1>5, Zenon DEF ControlInv
  <1>7. SocksInv(t)
    BY <1>0, <1>1 DEF SocksInv, SocksInProgress, SentMore
  <1>8. SeqInv(t)
    <2>1. /\ t.z.zdtun_seq = s.z.zdtun_seq + n /\ t.server.taken = s.server.taken + n
          /\ t.z.status = s.z.status /\ t.server.taken <= s.server.sent
      BY <1>1 DEF SentMore
    <2>2. s.z.zdtun_seq = (IF Relays(s.z) THEN 1 ELSE 0) + 0 + (s.server.taken - HsLen(s.z))
      BY <1>0, <1>2 DEF SeqInv
    <2>3. t.z.zdtun_seq = (IF Relays(t.z) THEN 1 ELSE 0) + 0 + (t.server.taken - HsLen(t.z))
      BY <2>1, <2>2, <1>1, SMTT(30)
    <2>4. s.server.sent <= HsLen(s.z) + Download
      BY <1>0 DEF ControlInv
    <2>5. t.z.zdtun_seq <= Download + 2
      <3> DEFINE b == IF Relays(t.z) THEN 1 ELSE 0
      <3>1. b \in {0, 1} /\ t.z.zdtun_seq = b + (t.server.taken - HsLen(t.z))
        BY <2>1, <2>3, <1>1
      <3> HIDE DEF b
      <3> QED BY <3>1, <2>1, <2>4, <1>1, RelaySizes, SMTT(30)
    <2> QED BY <2>3, <2>5, <1>1, <1>2 DEF SeqInv
  <1>9. UploadInv(t)
    <2>1. /\ t.z.status = s.z.status /\ t.z.tx_queue = s.z.tx_queue /\ t.z.client_seq = s.z.client_seq
          /\ t.z.client_closed = s.z.client_closed /\ t.seen = s.seen
          /\ t.server.shut = s.server.shut /\ t.server.out = s.server.out
      BY DEF SentMore
    <2> QED BY <2>1, <1>0, <1>5 DEF UploadInv
  <1>10. DownloadInv(t, q)
    <2> SUFFICES ASSUME ~Lost(t) PROVE DownloadInv(t, q)
      BY DEF DownloadInv
    <2>1. /\ ~Lost(s) /\ s.z.zdtun_seq # 0
          /\ "first_ack" \in s.seen \/ s.z.zdtun_seq + n <= Window + 1
      BY <1>1 DEF MaySend
    <2>2. Relays(s.z)
      BY <2>1, <1>0, <1>2 DEF ControlInv, Relays
    <2>3. /\ t.z.zdtun_seq = s.z.zdtun_seq + n /\ t.server.taken = s.server.taken + n
          /\ t.z.zdtun_seq + t.z.window_size = s.z.zdtun_seq + s.z.window_size
          /\ t.seen = s.seen
      BY <1>1 DEF SentMore
    <2>4. c.rcv_nxt <= s.z.zdtun_seq /\ d.rcv_nxt <= c.rcv_nxt + n
      BY <1>0, <1>1, <1>4, <1>5, <2>1, <2>2 DEF DownloadInv
    <2>5. c.st \in {"open", "fin_sent"} => takes
      <3> SUFFICES ASSUME c.st \in {"open", "fin_sent"} PROVE takes
        OBVIOUS
      <3>1. c.rcv_nxt = s.z.zdtun_seq
        BY <1>0, <2>1, <2>2 DEF DownloadInv
      <3>2. Edge(c) = (Window + 1) + 0 + c.read /\ c.read \in Nat
        BY <1>1, <1>2, <2>1, <3>1 DEF Edge, FinByte, RelayClients
      <3>3. CASE "first_ack" \in s.seen
        <4>1. s.z.zdtun_seq + s.z.window_size <= Edge(c)
          BY <3>3, <1>0, <2>1, <2>2 DEF DownloadInv
        <4>2. n <= Window - (c.rcv_nxt - 1 - c.read)
          <5>1. c.rcv_nxt + n <= (Window + 1) + c.read
            BY <4>1, <3>1, <3>2, <1>1, RelaySizes, SMTT(30)
          <5> QED BY <5>1, <3>2, <1>1, RelaySizes, SMTT(30)
        <4> QED BY <4>2, <3>1 DEF Takes
      <3>4. CASE s.z.zdtun_seq + n <= Window + 1
        <4>2. n <= Window - (c.rcv_nxt - 1 - c.read)
          BY <3>4, <3>1, <3>2, <1>1, RelaySizes, SMTT(30)
        <4> QED BY <4>2, <3>1 DEF Takes
      <3> QED BY <3>3, <3>4, <2>1
    <2>6. d.st \in {"open", "fin_sent"} =>
             d.rcv_nxt = t.z.zdtun_seq /\ d.got = Up(t.server.taken - HsLen(t.z))
      <3> SUFFICES ASSUME d.st \in {"open", "fin_sent"}
                   PROVE  d.rcv_nxt = t.z.zdtun_seq /\ d.got = Up(t.server.taken - HsLen(t.z))
        OBVIOUS
      <3>1. takes /\ c.rcv_nxt = s.z.zdtun_seq /\ c.got = Up(s.server.taken - HsLen(s.z))
        BY <2>1, <2>2, <2>5, <1>0, <1>5 DEF DownloadInv
      <3>2. d.rcv_nxt = t.z.zdtun_seq
        BY <3>1, <2>3, <1>1, <1>4, <1>5
      <3> DEFINE k == s.server.taken - HsLen(s.z)
      <3>3. HsLen(s.z) <= s.server.taken /\ k \in Nat
        <4>1. HsLen(s.z) <= s.server.taken
          BY <1>0, <1>1, <2>2 DEF SocksInv, SocksInProgress, Relays, HsLen
        <4> QED BY <4>1, <1>1
      <3>4. \A i \in 1..Len(chunk) : chunk[i] = k + i
        BY <3>3
      <3>5. t.server.taken - HsLen(t.z) = k + Len(chunk)
        BY <2>3, <1>1
      <3> HIDE DEF k
      <3>6. Up(k) \in Seq(Units)
        BY <3>3, UpTo
      <3>7. Up(k) \o chunk = Up(k + Len(chunk))
        BY <3>3, <3>4, <3>6, UpGrows
      <3> QED BY <3>1, <3>2, <3>5, <3>7, <1>4 DEF k
    <2>7. "first_ack" \notin t.seen => t.z.zdtun_seq <= Window + 1
      BY <2>1, <2>3
    <2>8. "first_ack" \in t.seen =>
             /\ \A i \in 1..Len(q) :
                   q[i].flag # "syn" => t.z.zdtun_seq + t.z.window_size <= EdgeOf(q[i])
             /\ t.z.zdtun_seq + t.z.window_size <= Edge(d)
      BY <2>1, <2>2, <2>3, <1>0, <1>5 DEF DownloadInv
    <2>9. "first_ack" \in t.seen =>
             /\ d.rcv_nxt > 0
             /\ d.st # "reset" => t.z.window_size + d.rcv_nxt <= Edge(d)
      <3> SUFFICES ASSUME "first_ack" \in t.seen
                   PROVE  d.rcv_nxt > 0 /\ (d.st # "reset" => t.z.window_size + d.rcv_nxt <= Edge(d))
        OBVIOUS
      <3>1. c.rcv_nxt > 0 /\ (c.st # "reset" => s.z.window_size + c.rcv_nxt <= Edge(c))
        BY <2>1, <2>3, <1>0 DEF DownloadInv
      <3>2. d.rcv_nxt > 0 /\ d.rcv_nxt \in Nat
        BY <3>1, <1>1, <1>4, <1>5
      <3> QED BY <3>1, <3>2, <2>4, <1>1, <1>4, <1>5
    <2>10. d.rcv_nxt <= t.z.zdtun_seq
      BY <2>3, <2>4, <1>1, <1>4, <1>5, SMTT(30)
    <2> QED BY <2>6, <2>7, <2>8, <2>9, <2>10, <1>4 DEF DownloadInv
  <1> QED BY <1>3, <1>4, <1>6, <1>7, <1>8, <1>9, <1>10 DEF RelayInv, SentMore

\* The FIN was sent to the client, and the socket is closed.
LEMMA FinKeeps ==
    ASSUME NEW s, NEW q, RelayInv(s, q), s.z.sock, Lost(s) \/ s.z.zdtun_seq # 0,
           "zero_window" \in s.seen \/ (s.server.fin /\ s.server.taken = s.server.sent),
           NEW t, SentMore(s, t, 0, 1), ~t.z.sock, t.z.fin_ack_sent,
           t.z.window_size = s.z.window_size,
           OtherwiseSame(s.client, t.client),
           IF Takes(s.client, s.z.zdtun_seq, <<>>) THEN TakenBy(s.client, t.client, "fin", <<>>)
           ELSE SameClient(s.client, t.client)
    PROVE  RelayInv(t, q)
  <1> DEFINE c == s.client  d == t.client
             takes == Takes(c, s.z.zdtun_seq, <<>>)
  <1>0. ControlInv(s) /\ SocksInv(s) /\ SeqInv(s) /\ UploadInv(s) /\ DownloadInv(s, q)
    BY DEF RelayInv
  <1>1. /\ Relays(t.z) = Relays(s.z) /\ SocksInProgress(t.z) = SocksInProgress(s.z)
        /\ HsLen(t.z) = HsLen(s.z) /\ HsLen(s.z) \in Nat /\ Lost(t) = Lost(s)
        /\ s.z.zdtun_seq \in Nat /\ s.server.taken \in Nat /\ s.server.sent \in Nat
        /\ s.z.window_size \in Nat /\ c \in RelayClients /\ c.rcv_nxt \in Nat
        /\ d \in RelayClients
    BY SentMoreFacts
  <1>2. ~s.z.fin_ack_sent /\ ~c.fin /\ c.st # "closed" /\ s.z.status \in {"connecting", "connected"}
    BY <1>0, Zenon DEF ControlInv
  <1>3. ClientInv(c) /\ TunInv(q, c) /\ q \in Seq(Segments)
    BY DEF RelayInv
  <1>4. <<>> \in Seq(Units) /\ Len(<<>>) = 0 /\ c.got \in Seq(Units) /\ c.got \o <<>> = c.got
    BY <1>1, EmptySeq, ConcatEmptySeq DEF RelayClients
  <1>5. /\ ClientInv(d) /\ TunInv(q, d)
        /\ Edge(d) \in Int /\ Edge(c) \in Int /\ Edge(d) = Edge(c) + FinByte(d)
        /\ d.fin => takes
        /\ takes => d.rcv_nxt = c.rcv_nxt + FinByte(d)
        /\ d.got = c.got /\ (takes => c.rcv_nxt > 0)
        /\ ~takes => d.rcv_nxt = c.rcv_nxt
    <2>1. "fin" \in {"ack", "fin"} /\ ("fin" = "fin" => <<>> = <<>>)
      OBVIOUS
    <2>2. WentOn(q, c, d, "fin", s.z.zdtun_seq, <<>>)
      BY <1>1, <1>2, <1>3, <1>4, <2>1, MoreClient
    <2> QED BY <2>2, <1>1, <1>4 DEF WentOn
  <1>6. /\ FinByte(d) \in {0, 1} /\ (takes => FinByte(d) = 1) /\ (~takes => FinByte(d) = 0)
        /\ d.st = c.st /\ d.snd_nxt = c.snd_nxt /\ d.rcv_nxt = c.rcv_nxt + FinByte(d)
    <2>1. takes => d.fin
      BY DEF TakenBy
    <2>2. d.st = c.st /\ d.snd_nxt = c.snd_nxt
      BY DEF OtherwiseSame
    <2>3. FinByte(d) \in {0, 1} /\ (takes => FinByte(d) = 1) /\ (~takes => FinByte(d) = 0)
      BY <2>1, <1>5 DEF FinByte
    <2> QED BY <2>2, <2>3, <1>1, <1>5
  <1>7. ControlInv(t)
    <2>1. s.z.status = "connecting" \/ (s.z.status = "connected" /\ SocksInProgress(s.z)) => Lost(s)
      BY <1>0, Zenon DEF ControlInv
    <2>2. Relays(t.z) /\ ~Lost(t) => t.z.zdtun_seq > 0 /\ d.st \in {"open", "fin_sent", "reset"}
      BY <1>0, <1>1, <1>6 DEF ControlInv, SentMore
    <2>3. /\ t.z.status = s.z.status /\ t.z.tx_queue = s.z.tx_queue /\ t.z.client_seq = s.z.client_seq
          /\ t.z.client_closed = s.z.client_closed /\ t.z.socks5_status = s.z.socks5_status
          /\ t.seen = s.seen /\ t.server.sent = s.server.sent /\ t.server.shut = s.server.shut
          /\ t.server.out = s.server.out /\ t.z.proxied = s.z.proxied
      BY ZenonT(20) DEF SentMore
    <2>4. t.server.taken <= t.server.sent /\ t.server.taken = s.server.taken
      <3>1. s.server.taken <= s.server.sent
        BY <1>0 DEF ControlInv
      <3> QED BY <3>1, <1>1 DEF SentMore
    <2> QED BY <2>1, <2>2, <2>3, <2>4, <1>0, <1>1, <1>2, <1>6, ZenonT(20) DEF ControlInv
  <1>8. /\ t.z.zdtun_seq = s.z.zdtun_seq + 1 /\ t.server.taken = s.server.taken
        /\ t.z.status = s.z.status /\ t.seen = s.seen /\ t.server.sent = s.server.sent
        /\ t.server.fin = s.server.fin
    BY <1>1 DEF SentMore
  <1>9. SocksInv(t)
    BY <1>0, <1>1, <1>8, Zenon DEF SocksInv, SentMore
  <1>10. SeqInv(t)
    <2> DEFINE a == IF Relays(s.z) THEN 1 ELSE 0
               b == IF SocksInProgress(s.z) THEN 0 ELSE s.server.taken - HsLen(s.z)
    <2>1. s.z.zdtun_seq = a + 0 + b
      BY <1>0, <1>2 DEF SeqInv
    <2>2. s.server.taken <= s.server.sent /\ s.server.sent <= HsLen(s.z) + Download
      BY <1>0 DEF ControlInv
    <2>3. a \in {0, 1} /\ b \in Int /\ b <= Download
      BY <2>2, <1>1, RelaySizes
    <2>4. /\ a = IF Relays(t.z) THEN 1 ELSE 0
          /\ b = IF SocksInProgress(t.z) THEN 0 ELSE t.server.taken - HsLen(t.z)
      BY <1>1, <1>8
    <2> HIDE DEF a, b
    <2>5. t.z.zdtun_seq = a + 1 + b /\ t.z.zdtun_seq <= Download + 2
      BY <2>1, <2>3, <1>8, RelaySizes
    <2> QED BY <2>4, <2>5, Zenon DEF SeqInv
  <1>11. UploadInv(t)
    <2>1. t.server.out = s.server.out
      BY DEF SentMore
    <2> QED BY <2>1, <1>0, <1>8 DEF UploadInv
  <1>12. DownloadInv(t, q)
    <2> SUFFICES ASSUME ~Lost(t) PROVE DownloadInv(t, q)
      BY DEF DownloadInv
    <2>1. ~Lost(s) /\ s.z.zdtun_seq # 0 /\ Relays(s.z) /\ Relays(t.z)
      BY <1>0, <1>1, <1>2 DEF ControlInv, Relays
    <2>2. c.rcv_nxt <= s.z.zdtun_seq
      BY <1>0, <2>1 DEF DownloadInv
    <2>3. c.st \in {"open", "fin_sent"} =>
             takes /\ c.rcv_nxt = s.z.zdtun_seq /\ c.got = Up(s.server.taken - HsLen(s.z))
      <3> SUFFICES ASSUME c.st \in {"open", "fin_sent"}
                   PROVE  takes /\ c.rcv_nxt = s.z.zdtun_seq /\ c.got = Up(s.server.taken - HsLen(s.z))
        OBVIOUS
      <3>1. c.rcv_nxt = s.z.zdtun_seq /\ c.got = Up(s.server.taken - HsLen(s.z))
        BY <1>0, <2>1 DEF DownloadInv
      <3>2. c.rcv_nxt <= (Window + 1) + FinByte(c) + c.read /\ FinByte(c) = 0 /\ c.read \in Nat
        BY <1>1, <1>2, <1>3, <2>1, <3>1 DEF ClientInv, FinByte, RelayClients
      <3>3. Len(<<>>) <= Window - (c.rcv_nxt - 1 - c.read)
        BY <3>2, <1>1, <1>4, RelaySizes, SMTT(30)
      <3> QED BY <3>1, <3>3 DEF Takes
    <2>4. takes => c.st \in {"open", "fin_sent"}
      BY DEF Takes
    <2>5. d.rcv_nxt <= t.z.zdtun_seq
      BY <2>2, <1>1, <1>6, <1>8
    <2>6. d.st \in {"open", "fin_sent"} =>
             d.rcv_nxt = t.z.zdtun_seq /\ d.got = Up(t.server.taken - HsLen(t.z))
      BY <2>3, <1>1, <1>5, <1>6, <1>8
    <2>7. d.fin /\ "zero_window" \notin t.seen =>
             t.server.fin /\ d.got = Up(t.server.sent - HsLen(t.z))
      BY <2>3, <2>4, <1>1, <1>5, <1>8
    <2>8. "first_ack" \in t.seen =>
             d.rcv_nxt > 0 /\ (d.st # "reset" => t.z.window_size + d.rcv_nxt <= Edge(d))
      <3> SUFFICES ASSUME "first_ack" \in t.seen
                   PROVE  d.rcv_nxt > 0 /\ (d.st # "reset" => t.z.window_size + d.rcv_nxt <= Edge(d))
        OBVIOUS
      <3>1. c.rcv_nxt > 0 /\ (c.st # "reset" => s.z.window_size + c.rcv_nxt <= Edge(c))
        BY <2>1, <1>0, <1>8 DEF DownloadInv
      <3> QED BY <3>1, <1>1, <1>5, <1>6
    <2> QED BY <2>5, <2>6, <2>7, <2>8 DEF DownloadInv
  <1> QED BY <1>3, <1>5, <1>7, <1>9, <1>10, <1>11, <1>12 DEF RelayInv, SentMore

\* The state after a step of zdtun is the one it computed.
LEMMA Becomes ==
    ASSUME NEW s \in RelayStates, Become(s)
    PROVE  Now' = s
  BY DEF Become, Now, RelayStates

\* The client was sent data or a FIN.
Delivered(s, d, flag, data) ==
    /\ OtherwiseSame(s.client, d)
    /\ IF Takes(s.client, s.z.zdtun_seq, data) THEN TakenBy(s.client, d, flag, data)
       ELSE SameClient(s.client, d)

\* So it was, and zdtun_seq counts n more.
SentSeq(s, t, flag, data, n) ==
    /\ t \in RelayStates /\ t.z = [s.z EXCEPT !.zdtun_seq = @ + n]
    /\ t.server = s.server /\ t.seen = s.seen /\ Delivered(s, t.client, flag, data)

\* What SendSeq does with data or a FIN.
LEMMA SendSeqFields ==
    ASSUME NEW s \in RelayStates, s.client.snd_una <= s.client.snd_nxt, NEW flag \in {"ack", "fin"},
           NEW data \in Seq(Units), NEW n \in Nat
    PROVE  SentSeq(s, SendSeq(s, flag, data, n, TRUE), flag, data, n)
  <1> DEFINE c == Received(s.client, flag, s.z.zdtun_seq, s.z.client_seq, data)
             u == [s EXCEPT !.client = c]
             w == [s.z EXCEPT !.zdtun_seq = @ + n]
             t == SendSeq(s, flag, data, n, TRUE)
  <1>1. s.z \in RelayConns /\ s.client \in RelayClients
    BY StateParts
  <1>2. s.z.client_seq \in Nat /\ s.z.zdtun_seq \in Nat /\ w \in RelayConns
    <2> DEFINE m == s.z.zdtun_seq + n
    <2>1. s.z.client_seq \in Nat /\ s.z.zdtun_seq \in Nat
      BY <1>1 DEF RelayConns
    <2>2. m \in Nat /\ w = [s.z EXCEPT !.zdtun_seq = m]
      BY <2>1
    <2> HIDE DEF m, w
    <2> QED BY <1>1, <2>1, <2>2 DEF RelayConns
  <1>3. Delivered(s, c, flag, data)
    BY <1>1, <1>2, ReceivedMore DEF Delivered
  <1>4. t = Set(u, [u.z EXCEPT !.zdtun_seq = @ + n])
    BY DEF SendSeq, send_to_client
  <1> HIDE DEF c
  <1>5. c \in RelayClients
    BY <1>3 DEF Delivered, OtherwiseSame
  <1>6. /\ u \in RelayStates /\ u.z = s.z /\ u.client = c /\ u.server = s.server /\ u.seen = s.seen
    BY <1>5, ClientFields
  <1> HIDE DEF u, t
  <1>7. t = Set(u, w)
    BY <1>4, <1>6
  <1> HIDE DEF w
  <1>8. t \in RelayStates /\ t.z = w /\ t.client = c /\ t.server = s.server /\ t.seen = s.seen
    BY <1>2, <1>6, <1>7, SetFields
  <1> QED BY <1>3, <1>8 DEF t, w, SentSeq

\* Data of the server is sent to the client, whether it can be sent or not.
LEMMA ReplyKeeps ==
    ASSUME NEW q, RelayInv(Now, q), z.sock, ~SocksInProgress(z),
           NEW chunk \in Seq(Units), NEW n \in Nat, Len(chunk) = n, 0 < n, n <= z.window_size,
           server.taken + n <= server.sent,
           HsLen(z) <= server.taken => \A i \in 1..n : chunk[i] = (server.taken - HsLen(z)) + i,
           NEW ok \in BOOLEAN, Reply(chunk, ok)
    PROVE  RelayInv(Now', q)
  <1> DEFINE a == "first_ack" \notin seen /\ z.zdtun_seq + Len(chunk) > Window + 1
             b == z.zdtun_seq = 0
             s1 == Note(Now, "overrun", a)
             s == Note(s1, "before_syn_ack", b)
             w == z.window_size - n
             t == SendSeq(s, "ack", chunk, n, ok)
             x == [(IF ok THEN Set(t, [t.z EXCEPT !.window_size = w, !.rd = w > 0]) ELSE t)
                     EXCEPT !.server.taken = @ + n]
  <1>1. Become(x)
    BY ZenonT(20) DEF Reply
  <1>2. Now.z = z /\ Now.client = client /\ Now.server = server /\ Now.seen = seen
    BY DEF Now
  <1>3. /\ Now \in RelayStates /\ z \in RelayConns /\ server \in RelayServers
        /\ client \in RelayClients /\ client.snd_una <= client.snd_nxt
        /\ z.zdtun_seq \in Nat /\ z.window_size \in 0..(WindowMod - 1) /\ server.taken \in Nat
        /\ server.sent \in Nat
    BY <1>2, StateParts DEF RelayInv, ClientInv, RelayConns, RelayServers
  <1>4. z.status # "none" /\ ~z.fin_ack_sent /\ client.st # "closed"
    BY <1>2, Zenon DEF RelayInv, ControlInv
  <1>5. "overrun" \in Events \ {"first_ack"} /\ "before_syn_ack" \in Events \ {"first_ack"}
    BY DEF Events
  <1> HIDE DEF a, b
  <1>6. /\ s1 \in RelayStates /\ s1.z = z /\ s1.client = client /\ s1.server = server
        /\ (a => s1.seen = seen \cup {"overrun"}) /\ (~a => s1.seen = seen) /\ RelayInv(s1, q)
    <2>1. RelayInv(s1, q)
      BY <1>2, <1>4, <1>5, NoteKeeps
    <2>2. /\ s1 \in RelayStates /\ s1.z = Now.z /\ s1.client = Now.client /\ s1.server = Now.server
          /\ a => s1.seen = Now.seen \cup {"overrun"}
          /\ ~a => s1.seen = Now.seen
      <3>1. "overrun" \in Events /\ Now \in RelayStates
        BY <1>3, <1>5
      <3> QED BY <3>1 DEF Note, RelayStates
    <2> HIDE DEF s1
    <2> QED BY <2>1, <2>2, <1>2
  <1> HIDE DEF s1
  <1>7. /\ s \in RelayStates /\ s.z = z /\ s.client = client /\ s.server = server
        /\ (b => s.seen = s1.seen \cup {"before_syn_ack"}) /\ (~b => s.seen = s1.seen)
        /\ RelayInv(s, q)
    <2>1. RelayInv(s, q)
      BY <1>4, <1>5, <1>6, NoteKeeps
    <2>2. /\ s \in RelayStates /\ s.z = s1.z /\ s.client = s1.client /\ s.server = s1.server
          /\ b => s.seen = s1.seen \cup {"before_syn_ack"}
          /\ ~b => s.seen = s1.seen
      <3>1. "before_syn_ack" \in Events /\ s1 \in RelayStates
        BY <1>5, <1>6
      <3> QED BY <3>1 DEF Note, RelayStates
    <2> HIDE DEF s
    <2> QED BY <2>1, <2>2, <1>6
  <1> HIDE DEF s
  <1>8. MaySend(s, n)
    <2> SUFFICES ASSUME ~Lost(s)
                 PROVE  z.zdtun_seq # 0 /\ ("first_ack" \in s.seen \/ z.zdtun_seq + n <= Window + 1)
      BY <1>7 DEF MaySend
    <2>1. ~b /\ ~a
      BY <1>6, <1>7 DEF Lost
    <2>2. s.seen = seen
      BY <1>6, <1>7, <2>1
    <2> QED BY <2>1, <2>2, <1>3, RelaySizes DEF a, b
  <1>9. CASE ok = TRUE
    <2>0. SentSeq(s, t, "ack", chunk, n)
      <3>1. s \in RelayStates /\ s.client.snd_una <= s.client.snd_nxt /\ "ack" \in {"ack", "fin"}
        BY <1>3, <1>7
      <3>2. t = SendSeq(s, "ack", chunk, n, TRUE)
        BY <1>9
      <3>3. SentSeq(s, SendSeq(s, "ack", chunk, n, TRUE), "ack", chunk, n)
        BY <3>1, SendSeqFields
      <3> HIDE DEF t
      <3> QED BY <3>2, <3>3
    <2> HIDE DEF t
    <2>1. /\ t \in RelayStates /\ t.z = [s.z EXCEPT !.zdtun_seq = @ + n]
          /\ t.server = s.server /\ t.seen = s.seen /\ Delivered(s, t.client, "ack", chunk)
      BY <2>0 DEF SentSeq
    <2> DEFINE e == [t.z EXCEPT !.window_size = w, !.rd = w > 0]
               u == Set(t, e)
    <2>2. w \in 0..(WindowMod - 1) /\ (w > 0) \in BOOLEAN
      BY <1>3, RelayConstants
    <2>3. /\ e \in RelayConns /\ e.status = z.status /\ e.sock = z.sock /\ e.wr = z.wr
          /\ e.tx_queue = z.tx_queue /\ e.client_seq = z.client_seq
          /\ e.zdtun_seq = z.zdtun_seq + n /\ e.window_size = w /\ e.fin_ack_sent = z.fin_ack_sent
          /\ e.proxied = z.proxied /\ e.client_closed = z.client_closed
          /\ e.socks5_status = z.socks5_status /\ e.socks5_skip = z.socks5_skip
      <3> DEFINE r == w > 0  m == z.zdtun_seq + n
      <3>1. r \in BOOLEAN /\ m \in Nat
        BY <2>2, <1>3
      <3>2. e = [[z EXCEPT !.zdtun_seq = m] EXCEPT !.window_size = w, !.rd = r]
        BY <2>1, <1>7
      <3> HIDE DEF r, w, e, m
      <3>3. e = [z EXCEPT !.zdtun_seq = m, !.window_size = w, !.rd = r]
        BY <3>2
      <3>4. /\ e \in RelayConns /\ e.status = z.status /\ e.sock = z.sock /\ e.wr = z.wr
            /\ e.tx_queue = z.tx_queue /\ e.client_seq = z.client_seq
            /\ e.zdtun_seq = m /\ e.window_size = w /\ e.fin_ack_sent = z.fin_ack_sent
            /\ e.proxied = z.proxied /\ e.client_closed = z.client_closed
            /\ e.socks5_status = z.socks5_status /\ e.socks5_skip = z.socks5_skip
        BY <3>1, <3>3, <2>2, <1>3 DEF RelayConns
      <3> QED BY <3>4 DEF m
    <2> HIDE DEF e, w
    <2>4. u \in RelayStates /\ u.z = e /\ u.client = t.client /\ u.server = t.server /\ u.seen = t.seen
      BY <2>1, <2>3, SetFields
    <2>5. x = [u EXCEPT !.server.taken = @ + n]
      BY <1>9 DEF e
    <2> HIDE DEF u, x
    <2>6. /\ x \in RelayStates /\ x.z = u.z /\ x.client = u.client /\ x.seen = u.seen
          /\ x.server.taken = u.server.taken + n /\ x.server.sent = u.server.sent
          /\ x.server.fin = u.server.fin /\ x.server.shut = u.server.shut
          /\ x.server.out = u.server.out
      BY <2>4, <2>5, TakenFields, ZenonT(20)
    <2>7. x.z = e /\ x.client = t.client /\ x.seen = s.seen
      BY <2>1, <2>4, <2>6
    <2>8. /\ x.server.taken = s.server.taken + n /\ x.server.sent = s.server.sent
          /\ x.server.fin = s.server.fin /\ x.server.shut = s.server.shut
          /\ x.server.out = s.server.out
      BY <2>1, <2>4, <2>6
    <2>9. SentMore(s, x, n, 0)
      <3>1. x.z.zdtun_seq = (s.z.zdtun_seq + n) + 0
        BY <2>3, <2>7, <1>3, <1>7
      <3> QED BY <3>1, <2>3, <2>6, <2>7, <2>8, <1>7 DEF SentMore
    <2>10. x.z.sock /\ ~x.z.fin_ack_sent /\ x.z.wr = s.z.wr /\ x.z.window_size = s.z.window_size - n
      BY <2>3, <2>7, <1>4, <1>7 DEF w
    <2>11. Delivered(s, x.client, "ack", chunk)
      BY <2>1, <2>7
    <2>12. /\ s.z.sock /\ ~SocksInProgress(s.z) /\ n <= s.z.window_size
           /\ s.server.taken + n <= s.server.sent
           /\ HsLen(s.z) <= s.server.taken =>
                 \A i \in 1..n : chunk[i] = (s.server.taken - HsLen(s.z)) + i
      BY <1>7
    <2>13. RelayInv(x, q)
      BY <1>7, <1>8, <2>9, <2>10, <2>11, <2>12, DataKeeps DEF Delivered
    <2>14. Now' = x
      BY <1>1, <2>6, Becomes
    <2> QED BY <2>13, <2>14
  <1>10. CASE ok = FALSE
    <2>1. t = send_to_client(s, "ack", chunk, FALSE) /\ x = [t EXCEPT !.server.taken = @ + n]
      BY <1>10 DEF SendSeq
    <2> HIDE DEF t, x
    <2>2. /\ t \in RelayStates /\ ClosedFrom(s.z, t.z) /\ t.client = s.client
          /\ t.server = s.server /\ t.seen = s.seen
      BY <1>7, <2>1, SendFails
    <2>3. /\ x \in RelayStates /\ x.z = t.z /\ x.client = t.client /\ x.seen = t.seen
          /\ x.server.taken = t.server.taken + n /\ x.server.sent = t.server.sent
          /\ x.server.fin = t.server.fin /\ x.server.shut = t.server.shut
          /\ x.server.out = t.server.out
      <3>1. x = [t EXCEPT !.server.taken = @ + n]
        BY <2>1
      <3> QED BY <2>2, <3>1, TakenFields, ZenonT(20)
    <2>4. /\ ClosedFrom(s.z, x.z) /\ EndOfClient(s.client, x.client) /\ x.seen = s.seen
          /\ x.server.out = s.server.out /\ x.server.shut = s.server.shut
          /\ x.server.fin = s.server.fin /\ x.server.sent = s.server.sent
          /\ x.server.taken <= s.server.sent /\ s.client.st # "closed"
      BY <2>2, <2>3, <1>4, <1>7, ZenonT(20) DEF EndOfClient
    <2>5. RelayInv(x, q)
      BY <1>7, <2>3, <2>4, EndKeeps
    <2>6. Now' = x
      BY <1>1, <2>3, Becomes
    <2> QED BY <2>5, <2>6
  <1> QED BY <1>9, <1>10

\* The server has closed, or recv was asked for nothing: the client is sent a FIN.
LEMMA EofKeeps ==
    ASSUME NEW q, RelayInv(Now, q), z.sock,
           ToRecv = 0 \/ (server.fin /\ server.taken = server.sent),
           NEW ok \in BOOLEAN, Eof(ok)
    PROVE  RelayInv(Now', q)
  <1> DEFINE b == z.zdtun_seq = 0
             zw == ToRecv = 0
             s == Note(Now, "before_syn_ack", b)
             v == Note(s, "zero_window", zw)
             f == SendSeq(s, "fin", <<>>, 1, ok)
             g == [f.z EXCEPT !.fin_ack_sent = TRUE, !.sock = FALSE, !.rd = FALSE, !.wr = FALSE]
             c == Set(f, g)
             w == IF z.client_closed THEN zdtun_conn_close(c, TRUE) ELSE c
             x == Note(w, "zero_window", zw)
  <1>1. Now.z = z /\ Now.client = client /\ Now.server = server /\ Now.seen = seen
    BY DEF Now
  <1>2. /\ Now \in RelayStates /\ z \in RelayConns /\ server \in RelayServers
        /\ client \in RelayClients /\ client.snd_una <= client.snd_nxt /\ z.zdtun_seq \in Nat
        /\ server.taken \in Nat /\ server.taken <= server.sent
    BY <1>1, StateParts DEF RelayInv, ClientInv, RelayConns, RelayServers, ControlInv
  <1>3. /\ z.status \in {"connecting", "connected"} /\ ~z.fin_ack_sent /\ client.st # "closed"
    BY <1>1, Zenon DEF RelayInv, ControlInv
  <1>4. Become(x)
    BY <1>3 DEF Eof
  <1>5. "zero_window" \in Events \ {"first_ack"} /\ "before_syn_ack" \in Events \ {"first_ack"}
    BY DEF Events
  <1> HIDE DEF b, zw
  <1>6. /\ s \in RelayStates /\ s.z = z /\ s.client = client /\ s.server = server
        /\ (b => "before_syn_ack" \in s.seen) /\ RelayInv(s, q)
    <2>1. RelayInv(s, q)
      BY <1>1, <1>3, <1>5, NoteKeeps
    <2>2. /\ s \in RelayStates /\ s.z = Now.z /\ s.client = Now.client /\ s.server = Now.server
          /\ b => "before_syn_ack" \in s.seen
      <3>1. "before_syn_ack" \in Events /\ Now \in RelayStates
        BY <1>2, <1>5
      <3> QED BY <3>1 DEF Note, RelayStates
    <2> HIDE DEF s
    <2> QED BY <2>1, <2>2, <1>1
  <1> HIDE DEF s
  <1>7. /\ v \in RelayStates /\ v.z = z /\ v.client = client /\ v.server = server
        /\ (zw => v.seen = s.seen \cup {"zero_window"}) /\ (~zw => v.seen = s.seen) /\ RelayInv(v, q)
    <2>1. RelayInv(v, q)
      BY <1>3, <1>5, <1>6, NoteKeeps
    <2>2. /\ v \in RelayStates /\ v.z = s.z /\ v.client = s.client /\ v.server = s.server
          /\ zw => v.seen = s.seen \cup {"zero_window"}
          /\ ~zw => v.seen = s.seen
      <3>1. "zero_window" \in Events
        BY <1>5
      <3> QED BY <3>1, <1>6 DEF Note, RelayStates
    <2> HIDE DEF v
    <2> QED BY <2>1, <2>2, <1>6
  <1> HIDE DEF v
  \* The entry of the history may be made before or after the rest.
  <1>8. ASSUME NEW r \in RelayStates, r.seen = s.seen
        PROVE  LET n == Note(r, "zero_window", zw)
               IN  /\ n \in RelayStates /\ n.z = r.z /\ n.client = r.client
                   /\ n.server = r.server /\ n.seen = v.seen
    <2> DEFINE n == Note(r, "zero_window", zw)
    <2>1. "zero_window" \in Events
      BY <1>5
    <2>2. /\ n \in RelayStates /\ n.z = r.z /\ n.client = r.client /\ n.server = r.server
          /\ (zw => n.seen = r.seen \cup {"zero_window"}) /\ (~zw => n.seen = r.seen)
      BY <2>1 DEF Note, RelayStates
    <2>3. n.seen = v.seen
      BY <2>2, <1>7, <1>8
    <2> HIDE DEF n
    <2> QED BY <2>2, <2>3 DEF n
  <1>9. CASE ok = TRUE
    <2>1. SentSeq(s, f, "fin", <<>>, 1)
      <3>1. /\ s \in RelayStates /\ s.client.snd_una <= s.client.snd_nxt /\ "fin" \in {"ack", "fin"}
            /\ <<>> \in Seq(Units) /\ 1 \in Nat
        BY <1>2, <1>6, EmptySeq
      <3>2. SentSeq(s, SendSeq(s, "fin", <<>>, 1, TRUE), "fin", <<>>, 1)
        BY <3>1, SendSeqFields
      <3>3. f = SendSeq(s, "fin", <<>>, 1, TRUE)
        BY <1>9
      <3> HIDE DEF f
      <3> QED BY <3>2, <3>3
    <2> HIDE DEF f
    <2>2. /\ f \in RelayStates /\ f.z = [z EXCEPT !.zdtun_seq = @ + 1] /\ f.server = server
          /\ f.seen = s.seen /\ Delivered(s, f.client, "fin", <<>>)
      BY <2>1, <1>6 DEF SentSeq
    <2>3. /\ g \in RelayConns /\ g.status = z.status /\ ~g.sock /\ g.fin_ack_sent
          /\ g.tx_queue = z.tx_queue /\ g.client_seq = z.client_seq
          /\ g.zdtun_seq = z.zdtun_seq + 1 /\ g.window_size = z.window_size
          /\ g.proxied = z.proxied /\ g.client_closed = z.client_closed
          /\ g.socks5_status = z.socks5_status /\ g.socks5_skip = z.socks5_skip
      <3> DEFINE m == z.zdtun_seq + 1
      <3>1. m \in Nat /\ g = [[z EXCEPT !.zdtun_seq = m] EXCEPT
                                !.fin_ack_sent = TRUE, !.sock = FALSE, !.rd = FALSE, !.wr = FALSE]
        BY <2>2, <1>2
      <3> HIDE DEF m, g
      <3>2. g = [z EXCEPT !.zdtun_seq = m, !.fin_ack_sent = TRUE, !.sock = FALSE, !.rd = FALSE,
                          !.wr = FALSE]
        BY <3>1
      <3>3. /\ g \in RelayConns /\ g.status = z.status /\ ~g.sock /\ g.fin_ack_sent
            /\ g.tx_queue = z.tx_queue /\ g.client_seq = z.client_seq
            /\ g.zdtun_seq = m /\ g.window_size = z.window_size
            /\ g.proxied = z.proxied /\ g.client_closed = z.client_closed
            /\ g.socks5_status = z.socks5_status /\ g.socks5_skip = z.socks5_skip
        <4>1. g = [status |-> z.status, sock |-> FALSE, rd |-> FALSE, wr |-> FALSE,
                   tx_queue |-> z.tx_queue, client_seq |-> z.client_seq, zdtun_seq |-> m,
                   window_size |-> z.window_size, fin_ack_sent |-> TRUE, proxied |-> z.proxied,
                   client_closed |-> z.client_closed, socks5_status |-> z.socks5_status,
                   socks5_skip |-> z.socks5_skip]
          BY <3>2, <1>2 DEF RelayConns
        <4>2. g \in RelayConns
          BY <4>1, <3>1, <1>2, ZenonT(20) DEF RelayConns
        <4> QED BY <4>1, <4>2, Zenon
      <3> QED BY <3>3 DEF m
    <2> HIDE DEF g
    <2>4. c \in RelayStates /\ c.z = g /\ c.client = f.client /\ c.server = server /\ c.seen = s.seen
      BY <2>2, <2>3, SetFields
    <2> HIDE DEF c
    <2> DEFINE y == Note(c, "zero_window", zw)
    <2>5. y \in RelayStates /\ y.z = g /\ y.client = f.client /\ y.server = server /\ y.seen = v.seen
      BY <2>4, <1>8
    <2> HIDE DEF y
    <2>6. RelayInv(y, q)
      <3>1. Lost(v) \/ v.z.zdtun_seq # 0
        BY <1>6, <1>7 DEF Lost, b
      <3>2. "zero_window" \in v.seen \/ (v.server.fin /\ v.server.taken = v.server.sent)
        BY <1>7 DEF zw
      <3>3. SentMore(v, y, 0, 1)
        <4>1. y.z.zdtun_seq = (v.z.zdtun_seq + 0) + 1 /\ y.server.taken = v.server.taken + 0
          BY <2>3, <2>5, <1>2, <1>7
        <4> QED BY <4>1, <2>3, <2>5, <1>7 DEF SentMore
      <3>4. /\ v.z.sock /\ ~y.z.sock /\ y.z.fin_ack_sent /\ y.z.window_size = v.z.window_size
        BY <2>3, <2>5, <1>7
      <3>5. Delivered(v, y.client, "fin", <<>>)
        BY <2>2, <2>5, <1>6, <1>7, Zenon DEF Delivered
      <3> QED BY <1>7, <3>1, <3>2, <3>3, <3>4, <3>5, FinKeeps DEF Delivered
    <2>7. RelayInv(x, q) /\ x \in RelayStates
      <3>1. CASE ~z.client_closed
        BY <3>1, <2>5, <2>6 DEF y
      <3>2. CASE z.client_closed
        <4>1. w = Closed(c)
          BY <3>2, <2>3, <2>4, <1>3 DEF zdtun_conn_close
        <4> HIDE DEF w
        <4>2. /\ w \in RelayStates /\ ClosedFrom(c.z, w.z) /\ w.client = c.client
              /\ w.server = c.server /\ w.seen = c.seen
          BY <4>1, <2>4, ClosedFields
        <4>3. x \in RelayStates /\ x.z = w.z /\ x.client = w.client /\ x.server = w.server /\ x.seen = v.seen
          BY <4>2, <2>4, <1>8
        <4> HIDE DEF x
        <4>4. /\ ClosedFrom(y.z, x.z) /\ EndOfClient(y.client, x.client) /\ x.seen = y.seen
              /\ x.server = y.server /\ y.server.taken <= y.server.sent
          BY <4>2, <4>3, <2>4, <2>5, <1>2 DEF EndOfClient
        <4>5. y.client.st # "closed"
          BY <2>2, <2>5, <1>3, <1>6 DEF Delivered, OtherwiseSame
        <4> QED BY <4>3, <4>4, <4>5, <2>6, EndKeeps
      <3> QED BY <3>1, <3>2
    <2> HIDE DEF x
    <2>8. Now' = x
      BY <1>4, <2>7, Becomes
    <2> QED BY <2>7, <2>8
  <1>10. CASE ok = FALSE
    <2>1. f = send_to_client(s, "fin", <<>>, FALSE)
      BY <1>10 DEF SendSeq
    <2> HIDE DEF f
    <2>2. /\ f \in RelayStates /\ ClosedFrom(z, f.z) /\ f.client = client
          /\ f.server = server /\ f.seen = s.seen
      BY <2>1, <1>6, SendFails
    <2>3. ClosedFrom(z, g)
      <3>1. f.z \in RelayConns
        BY <2>2 DEF ClosedFrom
      <3>2. /\ g \in RelayConns /\ g.status = f.z.status /\ ~g.sock /\ g.fin_ack_sent
            /\ g.zdtun_seq = f.z.zdtun_seq /\ g.window_size = f.z.window_size
            /\ g.proxied = f.z.proxied /\ g.client_closed = f.z.client_closed
        BY <3>1 DEF RelayConns
      <3> HIDE DEF g
      <3> QED BY <2>2, <3>2, Zenon DEF ClosedFrom
    <2> HIDE DEF g
    <2>4. c \in RelayStates /\ c.z = g /\ c.client = client /\ c.server = server /\ c.seen = s.seen
      <3>1. g \in RelayConns
        BY <2>3 DEF ClosedFrom
      <3> QED BY <2>2, <3>1, SetFields
    <2> HIDE DEF c
    <2>5. w = c
      BY <2>3, <2>4 DEF ClosedFrom, zdtun_conn_close
    <2> HIDE DEF w
    <2>6. x \in RelayStates /\ x.z = g /\ x.client = client /\ x.server = server /\ x.seen = v.seen
      BY <2>4, <2>5, <1>8
    <2> HIDE DEF x
    <2>7. /\ ClosedFrom(v.z, x.z) /\ EndOfClient(v.client, x.client) /\ x.server = v.server
          /\ v.client.st # "closed" /\ v.server.taken <= v.server.sent
      BY <2>3, <2>6, <1>2, <1>3, <1>7 DEF EndOfClient
    <2>8. RelayInv(x, q)
      BY <2>6, <2>7, <1>7, EndKeeps
    <2>9. Now' = x
      BY <1>4, <2>6, Becomes
    <2> QED BY <2>8, <2>9
  <1> QED BY <1>9, <1>10
=============================================================================
