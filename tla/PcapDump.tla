------------------------------- MODULE PcapDump -------------------------------
(***************************************************************************)
(* The PCAP dumper.  The capture thread appends records to a buffer, which *)
(* is handed to the dump callback when it is full, when a second has       *)
(* passed, or when the dumper is destroyed.  The TLS master secrets come   *)
(* from the thread of MitmReceiver: it finds the dumper through global_pd, *)
(* and adds them to a second buffer, the key log, under a mutex.  A dump   *)
(* that reaches its maximum size is stopped in the middle of the capture.  *)
(*                                                                         *)
(* Sizes are the ones of the code; the contents of packets and secrets are *)
(* numbers.  Whether a second has passed is a free choice.  Exporting the  *)
(* key log and adding a secret are each done under the mutex and are one   *)
(* step; what the receiver does before it takes the mutex is not.          *)
(***************************************************************************)
EXTENDS Integers, Sequences, FiniteSets, Functions

CONSTANTS
    Modes,          \* the values of pcap_dump_mode_t that the user may choose
    Snaplens,       \* the snap lengths that the API may ask for
    MaxSnaplen,     \* PCAPD_SNAPLEN or VPN_BUFFER_SIZE
    Limits,         \* the values of max_dump_size, 0 for none
    BufferSize,     \* PCAP_BUFFER_SIZE
    AlmostFull,     \* PCAP_BUFFER_ALMOST_FULL_SIZE
    PktLens,        \* lengths of packets
    SecretLens,     \* lengths of secrets
    MaxPkts,        \* bound on the packets
    MaxSecrets      \* bound on the secrets

\* The sizes of the headers: pcap_rec, ethhdr, pcapdroid_trailer_t, the pcapng blocks.
PcapRec == 16
EthHdr == 14
Trailer == 32
EnhPacketBlock == 28
DecrSecretsBlock == 16

ASSUME DumpAssumption ==
    /\ Modes \subseteq {"pcap", "trailer", "pcapng"}
    /\ Snaplens \subseteq Int /\ PktLens \subseteq Nat \ {0} /\ SecretLens \subseteq Nat
    /\ Limits \subseteq Nat /\ AlmostFull \in Nat
    /\ MaxSnaplen \in Nat \ {0} /\ BufferSize \in Nat
    /\ MaxSnaplen + PcapRec + EthHdr + Trailer + 4 < BufferSize
    /\ MaxPkts \in Nat /\ MaxSecrets \in Nat

VARIABLES
    conf,       \* mode, snaplen and max_dump_size of the dumper
    dumper,     \* its buffers and counters, see Empty
    cap,        \* the capture thread: run, flushed, freed, null
    recv,       \* the receiver: idle, or the secret it holds and how far it is
    pkts,       \* packets dumped so far, taken or not
    secrets,    \* secrets received so far
    taken,      \* history: the secrets that were added to the key log
    odd         \* history: how secrets were lost, see SecretsKept

dumpVars == <<conf, dumper, cap, recv, pkts, secrets, taken, odd>>

\* (~n + 1) & 3
Padding(n) == (4 - (n % 4)) % 4
MinLen(a, b) == IF a < b THEN a ELSE b

-----------------------------------------------------------------------------
(* The records.                                                            *)
pcap_rec_size(c, pkt_len) ==
    LET len   == MinLen(pkt_len, c.snaplen)
        frame == len + Trailer + EthHdr
    IN  CASE c.mode = "pcapng"  -> EnhPacketBlock + 4 + len + Padding(len)
          [] c.mode = "trailer" -> frame + Padding(frame) + PcapRec
          [] OTHER              -> len + PcapRec

(* What dump_packet_pcap and dump_packet_pcapng write of a packet: the     *)
(* lengths of the payload and of the trailer, and the number of bytes of   *)
(* the record that are written.                                            *)
dump_packet_pcap(c, pktlen) ==
    LET incl_len == pcap_rec_size(c, pktlen) - PcapRec
        eth      == IF c.mode = "trailer" THEN EthHdr ELSE 0
        payload  == MinLen(pktlen, incl_len - eth)
        offset   == eth + payload
        room     == c.mode = "trailer" /\ incl_len - offset >= Trailer
    IN  [payload |-> payload, trailer |-> IF room THEN Trailer ELSE 0,
         written |-> PcapRec + offset + IF room THEN Padding(offset) + Trailer ELSE 0]

dump_packet_pcapng(c, pktlen) ==
    LET captured == MinLen(pktlen, c.snaplen)
    IN  [payload |-> captured, trailer |-> 0,
         written |-> EnhPacketBlock + captured + Padding(captured) + 4]

Layout(c, pktlen) ==
    IF c.mode = "pcapng" THEN dump_packet_pcapng(c, pktlen) ELSE dump_packet_pcap(c, pktlen)

-----------------------------------------------------------------------------
(* A dumper: the indexes and the size that the code keeps, whether it has  *)
(* a key log, what is in the two buffers, the packets and the secrets that *)
(* the callback has received, bytes long, and the secrets discarded.       *)
Empty == [buffer_idx |-> 0, dump_size |-> 0, keylog_idx |-> 0,
          has_keylog |-> FALSE,
          buffer |-> <<>>, keylog |-> <<>>, out |-> <<>>, keys |-> <<>>, discarded |-> <<>>, bytes |-> 0]

\* pd_run: the snap length of the API is used if it is in range.
DumpInit ==
    /\ conf \in [mode : Modes, snaplen : {IF n <= 0 \/ n > MaxSnaplen THEN MaxSnaplen ELSE n : n \in Snaplens},
                 max_dump_size : Limits]
    /\ dumper = Empty
    /\ cap = "run"
    /\ recv = [at |-> "idle"]
    /\ pkts = 0
    /\ secrets = 0
    /\ taken = {}
    /\ odd = {}

Exceeds(d, n) == conf.max_dump_size > 0 /\ d.dump_size + n >= conf.max_dump_size

BlockSize(d) == DecrSecretsBlock + d.keylog_idx + Padding(d.keylog_idx) + 4

Discards(d) == d.keylog_idx # 0 /\ Exceeds(d, BlockSize(d))

\* Mutant: the size of the key log is not counted in the size of the dump.
KeylogNotCounted(d) ==
    IF d.keylog_idx = 0 THEN d
    ELSE IF Discards(d) THEN [d EXCEPT !.discarded = @ \o d.keylog, !.keylog_idx = 0, !.keylog = <<>>]
    ELSE [d EXCEPT !.bytes = @ + BlockSize(d), !.keys = @ \o d.keylog, !.keylog_idx = 0, !.keylog = <<>>]

export_keylog_buffer(d) ==
    IF d.keylog_idx = 0 THEN d
    ELSE IF Discards(d) THEN [d EXCEPT !.discarded = @ \o d.keylog, !.keylog_idx = 0, !.keylog = <<>>]
    ELSE [d EXCEPT !.dump_size = @ + BlockSize(d), !.bytes = @ + BlockSize(d), !.keys = @ \o d.keylog,
                   !.keylog_idx = 0, !.keylog = <<>>]

export_buffer(d) ==
    LET e == export_keylog_buffer(d)
    IN  IF e.buffer_idx = 0 THEN e
        ELSE [e EXCEPT !.out = @ \o e.buffer, !.bytes = @ + e.buffer_idx, !.buffer_idx = 0, !.buffer = <<>>]

\* Mutant: only the key log is looked at.
KeylogOnly(d, due) == IF d.keylog_idx > AlmostFull THEN export_buffer(d) ELSE d

\* due: a second has passed since the last export.
pcap_check_export(d, due) ==
    IF (d.buffer_idx > 0 /\ due) \/ d.keylog_idx > AlmostFull THEN export_buffer(d) ELSE d

-----------------------------------------------------------------------------
(* The capture thread.                                                     *)

Full(d, len) == BufferSize - d.buffer_idx <= pcap_rec_size(conf, len)

\* The first half of pcap_dump_packet: the dumper with room made in it, and
\* whether the record fits.
MakeRoom(d, len) ==
    LET e == IF Full(d, len) THEN export_buffer(d) ELSE d
    IN  [dumper |-> e, ok |-> ~Full(e, len) /\ ~Exceeds(e, pcap_rec_size(conf, len))]

\* Its second half.
AddRecord(d, len) ==
    LET size == pcap_rec_size(conf, len)
    IN  [d EXCEPT !.buffer = Append(@, [n |-> pkts + 1, len |-> len]),
                  !.buffer_idx = @ + size, !.dump_size = @ + size]

\* pcap_dump_packet takes a packet.
pd_dump_packet(len, due) ==
    /\ cap = "run" /\ pkts < MaxPkts
    /\ MakeRoom(dumper, len).ok
    /\ dumper' = pcap_check_export(AddRecord(MakeRoom(dumper, len).dumper, len), due)
    /\ pkts' = pkts + 1
    /\ UNCHANGED <<conf, cap, recv, secrets, taken, odd>>

\* It refuses the packet, and pd_dump_packet stops the dump: the first step of
\* pcap_destroy_dumper exports what is left.
stop_pcap_dump(len) ==
    /\ cap = "run" /\ pkts < MaxPkts
    /\ ~MakeRoom(dumper, len).ok
    /\ dumper' = export_buffer(MakeRoom(dumper, len).dumper)
    /\ pkts' = pkts + 1
    /\ cap' = "flushed"
    /\ UNCHANGED <<conf, recv, secrets, taken, odd>>

\* The branch of pd_housekeeping.
CheckExport(due) ==
    /\ cap = "run"
    /\ dumper' = pcap_check_export(dumper, due)
    /\ UNCHANGED <<conf, cap, recv, pkts, secrets, taken, odd>>

\* pd_run ends with a dumper, and stops the dump.
EndOfRun ==
    /\ cap = "run"
    /\ dumper' = export_buffer(dumper)
    /\ cap' = "flushed"
    /\ UNCHANGED <<conf, recv, pkts, secrets, taken, odd>>

\* The rest of pcap_destroy_dumper: a secret that came after the export is freed with it.
Free ==
    /\ cap = "flushed"
    /\ cap' = "freed"
    /\ odd' = odd \cup (IF dumper.keylog # <<>> THEN {"late"} ELSE {})
    /\ UNCHANGED <<conf, dumper, recv, pkts, secrets, taken>>

\* stop_pcap_dump clears the pointer, only then.
ClearPointer ==
    /\ cap = "freed"
    /\ cap' = "null"
    /\ UNCHANGED <<conf, dumper, recv, pkts, secrets, taken, odd>>

-----------------------------------------------------------------------------
(* The thread of MitmReceiver, in dumpMasterSecret.  It has secrets for    *)
(* the dumper only in the PCAPNG format.                                   *)

\* global_pd->pcap_dump.dumper is tested...
dumpMasterSecret(len) ==
    /\ conf.mode = "pcapng" /\ recv.at = "idle" /\ secrets < MaxSecrets
    /\ secrets' = secrets + 1
    /\ recv' = IF cap = "null" THEN recv ELSE [at |-> "checked", len |-> len]
    /\ UNCHANGED <<conf, dumper, cap, pkts, taken, odd>>

InUse == cap \in {"run", "flushed"}

\* ...the key log is allocated, or cannot be, and its room is tested, without
\* the mutex: a secret that does not fit is refused...
TestRoom ==
    /\ recv.at = "checked" /\ InUse
    /\ \/ ~dumper.has_keylog /\ recv' = [at |-> "idle"] /\ UNCHANGED dumper
       \/ /\ dumper' = [dumper EXCEPT !.has_keylog = TRUE]
          /\ recv' = IF dumper.keylog_idx + recv.len + 1 >= BufferSize THEN [at |-> "idle"]
                     ELSE [recv EXCEPT !.at = "tested"]
    /\ UNCHANGED <<conf, cap, pkts, secrets, taken, odd>>

\* Mutant: the secret is added without the mutex: the capture thread may have
\* exported, and emptied, the key log between the copy and the new index.
AddWithoutMutex ==
    /\ recv.at = "tested" /\ InUse
    /\ \E idx \in {dumper.keylog_idx, 0} :
          dumper' = [dumper EXCEPT !.keylog = IF idx = 0 THEN <<secrets>> ELSE Append(@, secrets),
                                   !.keylog_idx = idx + recv.len + 1]
    /\ taken' = taken \cup {secrets}
    /\ recv' = [at |-> "idle"]
    /\ UNCHANGED <<conf, cap, pkts, secrets, odd>>

\* ...and it is added under the mutex, with a newline.
pcap_dump_secret ==
    /\ recv.at = "tested" /\ InUse
    /\ dumper' = [dumper EXCEPT !.keylog = Append(@, secrets), !.keylog_idx = @ + recv.len + 1]
    /\ taken' = taken \cup {secrets}
    /\ recv' = [at |-> "idle"]
    /\ UNCHANGED <<conf, cap, pkts, secrets, odd>>

\* The dumper that was tested has been freed, or is NULL when it is read again:
\* the outcome is undefined, here the secret is lost.
UseFreed ==
    /\ recv.at # "idle" /\ ~InUse
    /\ odd' = odd \cup {"freed"}
    /\ recv' = [at |-> "idle"]
    /\ UNCHANGED <<conf, dumper, cap, pkts, secrets, taken>>

-----------------------------------------------------------------------------
DumpNext ==
    \/ \E len \in PktLens, due \in BOOLEAN : pd_dump_packet(len, due)
    \/ \E len \in PktLens : stop_pcap_dump(len)
    \/ \E due \in BOOLEAN : CheckExport(due)
    \/ EndOfRun \/ Free \/ ClearPointer
    \/ \E len \in SecretLens : dumpMasterSecret(len)
    \/ TestRoom \/ pcap_dump_secret \/ UseFreed

\* The capture thread runs, and finishes what it has begun; pd_housekeeping
\* checks the buffer at every turn of the capture loop, and a second passes.
DumpFairness ==
    /\ WF_dumpVars(CheckExport(TRUE))
    /\ WF_dumpVars(Free) /\ WF_dumpVars(ClearPointer)

DumpSpec == DumpInit /\ [][DumpNext]_dumpVars /\ DumpFairness

-----------------------------------------------------------------------------
DumpTypeOK ==
    /\ conf \in [mode : Modes, snaplen : 1 .. MaxSnaplen, max_dump_size : Limits]
    /\ dumper.buffer_idx \in Nat /\ dumper.dump_size \in Nat /\ dumper.keylog_idx \in Nat
    /\ dumper.bytes \in Nat
    /\ cap \in {"run", "flushed", "freed", "null"}
    /\ pkts \in 0 .. MaxPkts /\ secrets \in 0 .. MaxSecrets

(* A record is what its header says: every byte of it is written, with the *)
(* whole packet up to the snap length and, in that mode, the trailer that  *)
(* tells the app.  Not so for a packet longer than the snap length in the  *)
(* trailer mode, where the payload may take the place of the trailer.      *)
WholeRecord(c, len) ==
    LET l == Layout(c, len)
    IN  /\ l.written <= pcap_rec_size(c, len)
        /\ \/ c.mode = "trailer" /\ len > c.snaplen
           \/ /\ l.written = pcap_rec_size(c, len)
              /\ l.payload = MinLen(len, c.snaplen)
              /\ l.trailer = IF c.mode = "trailer" THEN Trailer ELSE 0

(* The size that the dumper reports, and by which it stops, is the number  *)
(* of bytes that the callback has received and of those that wait in the   *)
(* buffer; it stays below the maximum; and neither buffer is ever written  *)
(* past its end, whatever pcap_dump_secret read before it took the mutex,  *)
(* nor is a record past the size that was counted for it.                  *)
SizeRespected ==
    /\ dumper.dump_size = dumper.bytes + dumper.buffer_idx
    /\ conf.max_dump_size > 0 => dumper.dump_size < conf.max_dump_size
    /\ dumper.buffer_idx < BufferSize
    /\ dumper.keylog_idx < BufferSize
    /\ \A len \in PktLens : WholeRecord(conf, len)

SizeOf(recs) == FoldFunction(LAMBDA r, sum : sum + pcap_rec_size(conf, r.len), 0, recs)

(* The dump is the packets that were taken, in order and without a gap,    *)
(* and buffer_idx is where the next record goes: the records that wait are *)
(* as long as pcap_rec_size said.  When the dumper is freed none is left   *)
(* in the buffer.                                                          *)
PacketsInOrder ==
    LET all == dumper.out \o dumper.buffer
    IN  /\ \A i \in 1 .. Len(all) : all[i].n = i
        /\ cap = "run" => Len(all) = pkts
        /\ dumper.buffer_idx = SizeOf(dumper.buffer)
        /\ cap # "run" => dumper.buffer = <<>> /\ Len(all) \in {pkts, pkts - 1}

Increasing(s) == \A i, j \in 1 .. Len(s) : i < j => s[i] < s[j]

(* A secret that pcap_dump_secret took is in the key log, in the dump, or  *)
(* was discarded because the dump would have become too large: once and    *)
(* in order.  The exception is a secret that came after the last export,   *)
(* which is freed with the key log.                                        *)
SecretsKept ==
    LET all == dumper.keys \o dumper.discarded \o dumper.keylog
    IN  /\ Range(all) = taken /\ Len(all) = Cardinality(taken)
        /\ Increasing(dumper.keys \o dumper.keylog)
        /\ dumper.discarded # <<>> => conf.max_dump_size > 0
        /\ cap \in {"freed", "null"} /\ "late" \notin odd => dumper.keylog = <<>>

(* What the dumper takes it keeps: packets and secrets (pd_dump_packet,    *)
(* pcap_dump_secret), see above.                                           *)
DumpAccounted == DumpTypeOK /\ PacketsInOrder /\ SecretsKept

(* A packet that waits in the buffer is exported: by the next packets, by  *)
(* pd_housekeeping or when the dump stops.                                 *)
PacketsExported == dumper.buffer # <<>> ~> dumper.buffer = <<>>
=============================================================================
