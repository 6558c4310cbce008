# PCAPdroid in TLA+

PCAPdroid captures the traffic of an Android device, either as a VPN (the user-space
network stack zdtun terminates every connection) or with root (the daemon `pcapd` reads
an interface). It tracks connections, reports them to a Java user interface, blocks
some of them, and writes a PCAP dump. This directory models the parts of that program
in which order, concurrency or a long sequence of calls decides whether it is right.

Everything is translated from the source. `PROJECT.json` maps each definition to its
lines, lists the hazards of the code with the properties that cover them, and names for
every checked property a plausible bug that the property detects.

Paths below are relative to `src/`; `jni/` is `app/src/main/jni/` and `java/` is
`app/src/main/java/com/emanuelef/remote_capture/`.

## 1. The system

| Part | Source | State | Operations | Module |
|---|---|---|---|---|
| Connection data | `jni/core/pcapdroid.c`, `jni_impl.c` | `pd_conn_t`, the arrays `new_conns` and `conns_updates`, what Java knows | create, process a packet, notify, dump, purge | ConnData |
| Root capture | `jni/core/capture_libpcap.c` | hash table of connections | packet, expiry, list reload, end | RootConns |
| VPN capture | `jni/core/capture_vpn.c` | zdtun table with `pd_conn_t` as user data, packet context | packet, reply, close callback, purge, end | VpnConns |
| zdtun sockets | `submodules/zdtun/zdtun.c` | connection table, socket count, UDP mappings | lookup, forward, reply, close, purge | Zdtun |
| zdtun TCP, SOCKS5 | `submodules/zdtun/zdtun.c`, `socks5.c` | sequence numbers, window, transmit queue, proxy handshake | client packet, socket readable or writable | ZdtunTcp |
| Firewall | `jni/core/pcapdroid.c`, `jni_impl.c`, `java/model/*list*.java`, `java/CaptureService.java` | lists in force, mailboxes, verdict of each connection | edit a list, reload, housekeeping, DPI | Firewall |
| Malware blacklists | `java/Blacklists.java`, `java/Utils.java`, `jni/core/pcapdroid.c` | files, reload flag, worker, list in force | download, request, load, join, put in force | BlacklistsReload |
| pcapd | `jni/pcapd/pcapd.c`, `jni/core/capture_libpcap.c` | pid file, socket, iptables rules, interface, route | start, connect, loop, netlink, recheck, end | Pcapd |
| Service threads | `java/CaptureService.java`, `jni/core/*` | two queues, three threads, stop requests | dump, register, export, stop, join | CaptureThreads |
| Connections register | `java/ConnectionsRegister.java` | ring of descriptors, counters | add, update, reset | ConnectionsRegister |
| Rules about apps and hosts | `java/model/MatchList.java`, `Blocklist.java`, `jni/core/blacklist.c` | rules, their uids, grace periods; names as sequences of labels | add, remove, import, install, uninstall, restart | MatchList, HostMatch |
| PCAP dumper | `jni/core/pcap_dump.c`, `jni_impl.c` | record buffer, key log, sizes | packet, secret, export, destroy | PcapDump |
| Decryption messages | `java/MitmReceiver.java`, `java/ConnectionsRegister.java` | cache of ports, waiting messages, chunks, error and status | receive, look up, queue, register, update | MitmReceiver |
| Decryption add-on | `java/MitmAddon.java`, `java/MitmReceiver.java` | binding, socket pair, receiver thread | connect, certificate, start, stop, die | MitmAddon |
| VPN reconnection | `java/VpnReconnectService.java`, `java/CaptureHelper.java` | instances, timers, watched network | start, network events, timers, stop | VpnReconnect |
| Connections list | `java/adapters/ConnectionsAdapter.java`, `java/fragments/ConnectionsFragment.java` | filtered list, position table, posted notifications | notification, filter change | ConnectionsAdapter |

How they interact:

* The **capture thread** runs `pd_run`: one of the two packet loops, with
  `pd_housekeeping` after every iteration. Nearly all the native state is its own. What
  it shares with others is a flag or a pointer: `running`, the mailboxes of the lists,
  `reload_blacklists_now`, `reload_done`.
* It reports to Java through JNI: a batch of new and updated connections, a chunk of the
  PCAP dump, a status. Batches and chunks go through bounded queues to two more threads,
  one of which feeds the register. The register notifies the list, on the main thread.
* The **main thread** changes rules and stops the capture; an **update thread**
  downloads blacklists; a native **worker** loads them.
* In the VPN capture, zdtun owns the connections and calls back into `capture_vpn.c`,
  which may call zdtun again before the first call is done.
* The **receiver thread** of the decryption add-on, which is another app, brings decrypted
  data to connections by their local port, and TLS secrets to the dumper of the capture
  thread.
* In the root capture, the packets come from another **process**, which outlives the app
  if the app is killed.

What makes this hard, and hard to test:

* memory that two tables and two arrays point to, released by whichever comes last;
* callbacks that re-enter the function that is calling them;
* numbers that address a ring (`incr_id`) and must stay contiguous across threads;
* termination requests that go through the queue they have to end;
* lists built by one thread, put in force by another, while connections are open;
* a daemon of an earlier capture that connects late, or dies while its file remains;
* a TCP relay that keeps no copy of what it sends;
* a key log that one thread fills while another exports or frees it;
* messages that arrive before the connection that they are about;
* a service that is bound, refused, lost or stopped in any order, and timers that outlive
  the service that set them;
* rules kept by package name and matched by uid, while packages come and go.

The notes of the components in `PROJECT.json` say what each model leaves out; section 7
lists the parts that are not modelled.

## 2. Modules

```
Components                                        Model-checked with   Proved in
ConnData -- RootConns                             RootConns            RootConnsProofs
   |                                                                   (uses ConnDataProofs)
   +------- VpnConns                              VpnConns             VpnConnsProofs
                                                                       (uses ConnDataProofs)
ConnectionsLog (abstract)
   ^ refines
ConnectionsRegister -- ConnectionsAdapter         MCRegister           RegisterProofs
CaptureThreads                                    CaptureThreads       RegisterProofs
Zdtun                                             MCZdtun              ServicesProofs
ZdtunTcp                                          ZdtunTcp             TcpProofs, TcpStepProofs
Firewall, MatchList, HostMatch                    MCFirewall           FirewallProofs
BlacklistsReload                                  BlacklistsReload     VpnConnsProofs
Pcapd                                             MCPcapd              RootConnsProofs
PcapDump                                          MCServices           VpnConnsProofs
MitmAddon                                         MCServices           RootConnsProofs
MitmReceiver, VpnReconnect                        MCServices           ServicesProofs
```

`RootConns` and `VpnConns` compose the connection data with the table that owns it and
with the dump to Java. `ConnectionsAdapter` composes the register with its listener.
The other modules meet at narrow interfaces, which each of them takes as a free choice:
`CaptureThreads` sees batches as numbers, `ConnectionsRegister` receives them in the
order that `RegisteredIsPrefix` of `CaptureThreads` guarantees and with the numbering
that `JavaInSync` of the capture modules guarantees (its conjunct `NewConnsContiguous`); `Firewall` sees the
blacklist that `BlacklistsReload` puts in force.

`MCFirewall` and `MCServices` put components that share no state in one run: the variable
`part` chooses, once and for all, the component that a behaviour exercises, and the others
stay in their initial state, where none of their fair actions is enabled. A property of
one component is thus checked on the behaviours of that component.

The models keep the control of the code and abstract its data. A packet is a 5-tuple
and what nDPI makes of it; a list is a set of rules; a blacklist is the versions of its
files; a PCAP chunk is a number. Functions that work on a struct are operators from a
record to a record, so that nested calls compose as they do in the code and an action
is the whole handler.

### ConnData, RootConns, VpnConns

`conn[i]` is the `pd_conn_t` with `incr_id = i`: whether its memory is not yet
allocated, alive or freed; its status; the pending update flags; `to_purge`; and how
many slots of each array point to it (`inNew`, `inUpd`). `java[i]` is what the register
was told. `conns_clear` frees through every slot, so that one slot too many is a double
free and one too few a leak. The JNI calls of the dump may fail in the middle, which
leaves connections unreported; `faulted` remembers it.

`handle_packet`, `purge_expired_connections`, `ReloadLists`, `SendDumpNow` and `Finish`
of RootConns are the steps of `run_libpcap`. A packet may close a connection (TCP flags,
or the last reply of a DNS request, which also takes it out of the table); the model
lets any DNS reply be the last one instead of counting requests.

In VpnConns a step is one pass through the loop of `run_vpn`. `ForwardOk`,
`ForwardReply`, `ForwardClose`, `ForwardFail` and `ForwardNoSocket` are what
`zdtun_forward` may do with a packet before it returns: nothing more, answer the client
at once (which calls `remote2vpn` with the packet context still set), close the
connection, fail, or find no socket. `zdtun_conn_close` may send a RST, which may be
refused, which closes the connection again inside the close. The field `fw` of an entry
is `data->vpn.fw_pctx`, a pointer to the stack of the loop.

### Zdtun, ZdtunTcp

Zdtun is the connection table. `num_open_sockets`, the forced purge at
`MAX_NUM_SOCKETS`, the idle timeouts, and the UDP mappings with their uses are the
code's; every system call may fail. The history `unbound` remembers a UDP connection
that was closed before it was bound.

ZdtunTcp follows one connection byte by byte: the client's TCP and the server's socket
are external (both are modelled by what a standard TCP may do), zdtun is translated.
`TunPacket` is `handle_tcp_fwd` for the next packet of the device,
`handle_queued_tcp_data`, `handle_tcp_connect_async` and `handle_tcp_reply` are the
socket events, the SOCKS5 handshake with replies split anywhere included. `window_size`
keeps its modular arithmetic; sequence numbers are relative and do not wrap.

### Firewall, BlacklistsReload

The user's lists (`user`), the mailboxes (`new`) and the lists in force (`cur`) are
separate; `live` counts the native lists that are allocated. `EditList`,
`SetWhitelistMode` and `setFirewallEnabled` are the handlers of the main thread with the
reload each one makes. `StartSkips`, `StartBuilds` and `StartPublishes` are the loading
at the start, made on the capture thread: building a list and leaving it in the mailbox
are two steps because the main thread may fill the same mailbox between them. So are the
two writes at the end of `reloadFirewallWhitelist` on the main thread: the list is in the
mailbox first, and `EnableWhitelist` turns its mode on, when the capture thread may have
put the list in force already.
`pd_housekeeping(branch)` takes one branch of the function, as the code does.
`Verdict(c)` restates the rule of the firewall on the lists in force; the actions
compute `to_block` at the places where the code does.

In BlacklistsReload, a blacklist is the function from files to the versions that were
read. The update thread belongs to a capture but is not joined with it; the Java object,
the files and the flag outlive the capture. The worker reads one file per step, so that
a download may fall between two files. A download is two steps: the temporary file is
opened (`DownloadOpens`), and it replaces the list or is deleted (`DownloadCloses`). The
update threads of two captures may have the same temporary file open; whichever of them
ends first takes it away from the other.

### MatchList, HostMatch

The rules about apps are packages (`appRules`), the list matches by uid (`mUids`), and
`mPackageToUid` connects them; the package manager is external and its broadcasts arrive
late. `wanted` and `lifted` remember what the user asked for. `Shared(p, u)` notices that
another rule has, or had when the list last looked, the uid that a removal takes away.

HostMatch has the rules about hosts. A host name is the sequence
of its labels, so that `cleanDomain` (one leading "www." is removed) and
`get_second_level_domain` are modelled by what they do; `matchesHost` is the Java
side and `blacklist_match_domain` the native one, on the list that
`blacklist_load_list_descriptor` builds from the same rules.

### PcapDump, MitmReceiver, MitmAddon, VpnReconnect

PcapDump keeps the sizes of the code: the record headers, the padding, the Ethernet header
and the trailer of each of the three formats. `pd_dump_packet` is one step of the capture
thread. A secret passes through `dumpMasterSecret` (finds the dumper), `TestRoom` (reads
the length of the key log without the mutex) and `pcap_dump_secret` (adds it under the
mutex), between which the capture thread may export or free.

In MitmReceiver the look-up of a port in the cache, the look-up of the connection in the
register and the queueing of a message are three steps, as they are three synchronized
blocks, and the registration of connections may come between. `connectionsAdded` is the
registration of the new connections of a dump: the register keeps the newest if it cannot
hold all, each comes with its first update, so that it may be closed by then, and the
messages that waited for it are handled, with their test of the status. `decryption_error` and `status` are fields without synchronization: a reader may
get the old value until the writer enters its next monitor. For the receiver thread that
is the look-up of its next message, and until then it is `marked`: it has written the
error and tested the status, and the update thread may not see the error yet.

MitmAddon is one life of the binding, step by step on three threads: the callbacks on the
main thread (`main` is where it is in the middle of one), the receiver thread, and
`MitmReceiver.stop` on the capture thread (`stopper`); the creation of the receiver thread
and its start are two accesses to `mThread`, which `stop` may clear between them.
VpnReconnect has the instances of
the service, the network events on their way, and the timers, which are not removed when
an instance stops.

### Pcapd, CaptureThreads

Pcapd has the app (`app`, the steps of `connectPcapd` and `run_libpcap`) and one daemon
per capture (`st`). They share the pid file, the socket path and the socket. The daemon's
select loop takes one ready descriptor at a time in the order of the code. `odd` names
what happened that the properties except. The processes of the model are the daemons: the
SIGKILL of `connectPcapd` goes to the child that was started, which with `-d` has been
waited for by then, and what else may have got its pid is outside the model.

CaptureThreads has four threads: the capture thread (`cap` is its place in `pd_run` and
`run`), the two consumers, and the main thread. The queues have the code's bounded
behaviour: `offer` drops when full, `put` waits and is retried when interrupted.

### ConnectionsRegister, ConnectionsAdapter

The methods of the register are synchronized, so each is one action. `newConnections`
writes the ring, evicts and counts; `connectionsUpdates` finds a connection by its
distance from the oldest. `ConnectionsLog` is the abstract specification: the number of
connections seen and the window of the last `Size`. The adapter handles notifications
later, when the register may have moved on; `objs` models that the ring and the list
share the descriptor objects. `onPause` takes no posted notification back, so that after
`onResume` some may be handled that its first update already counts.

## 3. Runs

Every run takes less than five minutes with two workers.

| Run | Configuration | Result |
|---|---|---|
| `root_conns` | `RootConns.cfg` | holds |
| `vpn_conns` | `VpnConns.cfg` | holds |
| `threads` | `Threads.cfg` | holds |
| `register` | `Register.cfg` | holds |
| `zdtun` | `Zdtun.cfg` | holds |
| `tcp` | `ZdtunTcp.cfg` | holds |
| `firewall` | `Firewall.cfg` | holds |
| `blacklists` | `BlacklistsReload.cfg` | holds |
| `pcapd` | `Pcapd.cfg` | holds |
| `services` | `Services.cfg` | holds |
| `blacklists_timeout` | `BlacklistsTimeout.cfg` | `UpdatedIsWhole` is violated |
| `pcapd_filter` | `PcapdFilter.cfg` | `SocketClosedExits` is violated |

For example: `tlc -workers 2 -config Firewall.cfg MCFirewall`.

Several invariants are conjunctions; their parts are named below in parentheses.

**root_conns, vpn_conns.** No slot of an array points to freed data and no data is in two
slots (`SlotsSafe`). No user data of zdtun is stale or shared, and no open connection keeps
a packet context of an earlier iteration (`CallbacksSafe`: `UserDataSafe`,
`NoDanglingContext`). Nothing leaks (`NoLeakUnlessFaulted`) and what is marked for release
is released (`PurgedAreFreed`). Java is in step (`JavaInSync`): new connections are
reported without gaps, on which the ring of the register depends (`NewConnsContiguous`),
the status is right when no update is pending (`JavaStatusInSync`), and every close is told
before the data is released (`JavaLearnsClose`). Java never sees a closed connection
reopened (`JavaMonotone`).

**threads.** The register gets the batches in order and without gaps even when the queue
overflows (`RegisteredIsPrefix`). The dump is complete, and STOPPED is announced only when
no thread is left and, without overflow, everything is registered (`StoppedIsComplete`). A
stop ends the capture, unless the request was lost or the dumper died
(`StopCompletesUnlessLost`).

**register.** The assertion on the addressing of the ring holds (`AssertHolds`), the
counters equal a recount of the ring (`CountersRight`; the count of blocked connections
keeps the dropped ones, so for it the recount is a lower bound), and the register
implements the log (`ImplementsLog`). The list shows each connection once and in order,
its position table is right, and it agrees with the register when no notification waits
(`ListConsistent`).

**zdtun.** The socket count is right on every path and sockets go with their connections;
no UDP mapping outlives its connections, and the connections of a client port share a
local port (`ResourcesAccounted`). A purge at the limit, when
every connection has a socket, leaves at most `NUM_SOCKETS_AFTER_PURGE` of them or, if a
socket had expired, fewer than the limit (`PurgeMakesRoom`).

**tcp.** The server gets the client's bytes in order and what is acknowledged was sent
(`UploadInOrder`). The client gets the server's bytes in order and then the end, and its
window is respected (`DownloadInOrder`). A socket that a full window disabled is read
again, and two closes end the connection (`TransfersEnd`).

**firewall.** A connection is blocked exactly when the lists in force say so
(`BlocksByTheRules`), each list is destroyed once (`ListsAccounted`), and the newest list
is the one the user chose (`NewestIsChosen`). The uids that a list matches are those of
the packages that the user put in it, through installs, removals, shared uids, grace
periods and restarts (`UidsFollowRules`). Java and the native code match the same names
(`HostsInSync`, which the comments "Keep in sync" on both sides ask for).

**blacklists.** No blacklist is lost while the capture runs, and none is freed twice
(`BlacklistsAccounted`; the one that a worker has loaded when the capture ends during a
reload stays allocated); a requested
reload ends with the requested versions, and so does the update shown by Java
(`ReloadsEnd`).

**pcapd.** The app reads the daemon that it started, the pid file names a live process and
no rule is left when the capture has ended (`DaemonsAccounted`; of the rules of a killed
app nothing is said). The daemon polls its open interface, unless the recheck reopened it,
and closes each handle once (`InterfaceAccounted`), follows the route, and ends with the app after a
stop (`DaemonResponds`).

**services.** *The dumper*: its size is what was exported plus what waits and stays below
the maximum, no buffer is written past its end, and a record has the parts that its header
says (`SizeRespected`). Packets are dumped in order and without a gap, and secrets once and
in order (`DumpAccounted`). What waits is exported (`PacketsExported`). *The messages*: a
connection gets its own messages, all, once and in order (`MessagesReachOwner`), and gets
them in the end (`MessagesHandled`). A closed connection with an error is shown as failed,
whichever of the two threads learnt of it first, and also when it was closed before it was
registered (`ErrorShown`). *The add-on*: after a stop
nothing is bound or open (`StoppedIsReleased`), and the stop and the receiver thread end
(`ReceiverStops`). *The reconnection*: while the other VPN runs no timer is set that would
act against it (`NothingArmed`), and the wait ends (`ReconnectEnds`).

The type invariants are part of the theorems for the two captures, and a conjunct of one
invariant of most other modules (`RegisteredIsPrefix`, `CountersRight`, `ListConsistent`,
`ResourcesAccounted`, `UploadInOrder`, `ListsAccounted`, `BlacklistsAccounted`,
`InterfaceAccounted`, `DumpAccounted`).

### Named exceptions

Some of these properties hold only outside cases that the models record in history
variables. They are behaviours of the code, not gaps of the models:

* `faulted` (ConnData): a JNI call failed in the dump, or zdtun could not open a socket
  for a connection whose data was just created; the data is then lost.
* StopCompletesUnlessLost: a stop before `pd_run` sets `running` is overwritten; a
  termination request offered to a full queue is dropped (an interrupt repeats it); a
  dead dumper leaves the capture thread waiting in `put`.
* `unbound` (Zdtun): a UDP connection closed before it was bound gives back a use of
  the mapping that it never took, which may end the sharing of the local port early.
* `seen` (ZdtunTcp): `overrun` (data sent before the first ACK told the scaled window),
  `before_syn_ack`, `zero_window` (`recv` of 0 bytes taken for an end of stream),
  `fin_with_data` (a FIN that carries data, or comes while data is queued, is acknowledged
  as a whole, and the data is not sent), `fin_repeated`, `probe_with_data` (data in place
  of a keep-alive).
* `drift` and `odd` (Firewall): a switch was turned and no list loaded since (the whitelist
  mode is turned on after its list was published, so that the list may have been loaded
  before); nDPI
  replaced a host that came from the cache; a netd request got the uid of an app; the
  malware whitelist was loaded without a blocklist; two threads filled one mailbox, or
  it was filled late; a reload was refused.
* `odd` (Pcapd): an earlier daemon had not yet written its pid file (`missed`), the app
  was killed (`killed`), an interface could not be opened (`open`). Of `iface`, `reopened`: the
  recheck opened an interface that is not polled until the next netlink message.
* `raced` (ConnectionsAdapter): the filter was changed while notifications waited (a
  connection that the refresh already read is then added a second time), or the register
  dropped connections while positions in it waited. The next refresh clears it.
* `overlapped` (ConnectionsAdapter): the fragment was resumed while notifications from
  before the pause waited. Their connections are counted twice, until it is resumed with
  none waiting.
* `mixed` (MatchList): two rules had one uid and the removal of one took it away
  (`shared`); the cache named a package that no longer had the uid (`stale`); a rule was
  removed while the broadcast of its package was on the way (`moved`); a package was not
  installed when the list was loaded (`dropped`); an app was blocked during its grace
  period (`graced`). For names: an imported rule that begins with "www.", and names with
  "www." twice or a leading dot (HostMatch).
* `odd` (PcapDump): a secret that comes after the last export is freed with the key log
  (`late`), and one that is on its way may be added to a freed dumper. In the trailer
  format a packet longer than the snap length may lose its trailer.
* `strayed`, `stale` (MitmReceiver): a port is used again before the new connection is
  registered; the registration falls between the look-up and the queueing of a message;
  the connection has left the cache or the register, or was cut from a dump larger than the
  register; waiting messages are purged. An error
  is missed only if the update thread read `decryption_error` while the receiver was
  `marked` with that connection, and got the old value.
* `slips` (MitmAddon): a stop before the service has connected leaves it bound (`early`);
  the main thread sets the socket between the two accesses of `stop` (`fd`); `stop` clears
  `mThread` between its creation and its start, and the main thread's exception ends the app
  (`null thread`); an answer about a missing certificate that comes after the stop ends the
  next capture.
* `astray` (VpnReconnect): the VPN comes back as the same network and the timer of its loss
  stays (`back`); the VPN is lost while `onStartCommand` looks at it (`missed`); a timer of
  a stopped instance acts on the next (`armed`).

### Findings

* `blacklists_timeout`: a download that times out after its first bytes replaces the old
  file and is shown as updated. The comment says that the target is only written on
  success. (In the model a temporary file that two update threads share has the same end.)
* `pcapd_filter`: `matches_uid_filter` does not advance in its filter, so that a packet
  of another app keeps the daemon in an endless loop and it does not exit with its
  socket, as the header of `pcapd.c` says it does.

## 4. Bounds

| Run | Bounds | Why they are enough |
|---|---|---|
| `root_conns` | 2 connections, 2 tuples | a tuple can be reused while the data of its old connection waits for the dump, and two connections can be in different arrays at once |
| `vpn_conns` | 2 connections, a TCP and a UDP tuple, failing sockets | the same, with a RST for TCP and none for UDP; failing dumps are in the proof and in `root_conns` |
| `threads` | queues of 2, 3 batches and 3 chunks, 1 wake-up | one more item than a queue holds, so that both overflow with a termination request behind |
| `register` | ring of 2, 3 connections on one known interface, malicious and blocked or neither, dumps of up to 3, updates of 2, lag of 1 | the ring wraps, a dump exceeds the ring, an update names a dropped connection; a connection of the unknown interface, which the count per interface leaves out, does not occur |
| `zdtun` | 5 tuples, limit of 3 sockets, 1 after the purge, 3 local ports | the limit is reached, a purge must choose, two connections share a client port |
| `tcp` | 2 bytes each way, window of 1, one packet in the device | every second byte waits for a window update; a split at every byte |
| `firewall`, verdicts | 2 connections, 2 changes, 2 values for each list (1 for the decryption list), one blacklist or none | a change can fall before, between and after the loading at the start, and a second one can undo it |
| `firewall`, rules | 2 packages, 2 uids, 4 package events, 3 edits; 3 edits of hosts, 7 rules and all names of up to 4 labels over 3 | packages share a uid, exchange it and are reinstalled before the list knows; two rules and a removal; every name on which a rule, its second-level domain and "www." meet |
| `blacklists` | 2 files, 1 new version, 2 captures | a download between two reads of the worker; an update thread that outlives its capture and shares a temporary file with the next |
| `pcapd` | 2 captures, 2 interfaces, 1 route change, 2 rules, filter of 1 app | a late daemon of the first capture meets the second; a rule fails in the middle |
| `services`, dumper | 3 packets of 2 lengths, 3 secrets of 2 lengths, buffers of 150 bytes, no limit or one of 230 | a buffer fills after one or two records, the limit is reached with data and with secrets, and a secret overflows the key log |
| `services`, messages | 3 connections on 2 ports, 2 messages, register of 2, cache of 1 | a port is used again, a connection leaves the cache and the register, a dump of 3 is cut to 2, a purge of waiting messages |
| `services`, add-on | one life of the binding | unbounded otherwise |
| `services`, reconnection | 2 networks, 2 instances, 3 starts of the other VPN | a timer of the first instance meets the second; a network comes back |

`MaxConns`, `MaxBatches`, `MaxChunks`, `MaxWakes`, `MaxChanges`, `MaxVersion`,
`MaxCaptures`, `MaxSessions`, `MaxTun`, `MaxLag`, `MaxPkgEvents`, `MaxEdits`,
`MaxHostEdits`, `MaxPkts`, `MaxSecrets`, `MaxMsgs` and `MaxInst` cut unbounded counters;
the others are sizes of the code (`Size`, the queues, the socket limit), made small. Where a model
simply ends at its bound, or where the program may rest (the capture has ended), deadlock
is not checked; it is checked for `zdtun`, whose table never comes to rest.

## 5. Fairness

Only the program's own threads are fair, never the user, the network or a failure.

* RootConns: the dump (`WF(SendDumpNow)`). The loop wakes up at least every
  `SELECT_TIMEOUT_MS`, and `pd_housekeeping` sends a dump when one is due.
* CaptureThreads: each thread takes its next step. The capture thread is fair in what does
  not depend on traffic: it sees that `running` is false.
* ZdtunTcp: `run_vpn` serves the device and the sockets. It looks at the sockets only when
  the device has no packet, so this assumes that the device is not readable at every turn
  (in the model its packets are bounded). The client's TCP (external)
  acknowledges and retransmits, strongly fair because its packets compete for the device,
  and its application reads.
* BlacklistsReload: the update thread, the worker and the branch of `pd_housekeeping`,
  which is called again and again; starting and stopping are free.
* Pcapd: the app and each daemon take their next step; packets, routes, kills and stops
  are free. Reading a packet is not fair.
* PcapDump: the capture thread finishes the stop of a dump, and `pd_housekeeping` checks
  the buffer at every turn of the loop when a second has passed. Packets and secrets are
  free.
* MitmReceiver: both threads handle what they have, and the capture goes on reporting the
  connections that it has opened. The registration is strongly fair: the same thread also
  applies updates, however many there are, but it takes up one dump after the other, and
  the new connections of a dump with its updates. The add-on is free to send nothing.
* MitmAddon: each of the three threads finishes what it has begun. The add-on handles its
  messages; it is destroyed when nobody binds it (which Android does); a read ends once
  both ends of the socket are closed. Connecting, stopping and dying are free.
* VpnReconnect: the main thread and the callback thread run and timers fire. The other VPN
  is free.

VpnConns, Zdtun, Firewall, MatchList, HostMatch and the register have safety properties and action
properties only, so they have no fairness.

## 6. Proofs

TLAPS proves 27 theorems for every value of the constants, from the assumptions on
constants that the modules name (`ConnAssumption`, `RootAssumption`, `VpnAssumption`,
`RegisterAssumption`, `ThreadsAssumption`, `BlacklistsAssumption`, `DumpAssumption`,
`FirewallAssumption`, `RulesAssumption`, `PcapdAssumption`, `ZdtunAssumption`,
`TcpAssumption`, `ReconnectAssumption`). Twenty-three are invariance proofs: an inductive
invariant holds initially, is preserved by each action, and implies the property. Three are proofs of an
action property from an invariant, and one is a refinement. Every inductive invariant was
also model-checked, on instances of the size of section 4.

A proof module may hold the proofs of components that share no name: `RootConnsProofs`
those of the root capture, of its daemons and of the add-on, `VpnConnsProofs` those of the
VPN capture, of the blacklists and of the dumper, `RegisterProofs` those of the register
and of the threads that feed it, `FirewallProofs` those of the firewall and of the rules
about apps, and `ServicesProofs` those of the zdtun table, of the service that reconnects
and of the decryption messages. The relay of TCP has two modules, because its proof is the
longest. HostMatch and ConnectionsAdapter are only model-checked. A leaf is tried with
Zenon first and with SMT after 5 seconds (the `USE` at the head of the modules): most
leaves need no arithmetic.

**RootConnsProofs!MemorySafety** — `Spec => [](TypeOK /\ SlotsSafe /\ QueuedHasUpdate /\ TableSafe)`.
No slot or entry points to freed data, for any number of connections and tuples and with
dumps that fail half-way. `SlotsSafe` is not inductive: a packet for a tuple whose entry
were stale would revive freed data, and a new connection would overwrite one that already
has that id. `MemInv` adds that the table is safe (`TableSafe`), that ids not yet given
out are blank (`Unborn`), that the table holds only given ones (`TableBorn`), and that a
queued connection has an update (`QueuedHasUpdate`), because `purge_expired_connections`
decides by the update whether a slot still needs the data.

**VpnConnsProofs!MemorySafety** —
`Spec => [](TypeOK /\ SlotsSafe /\ CallbacksSafe)`. The same for the VPN
capture, with nested callbacks. The lemmas follow the callbacks: `Live(w)` is what a
callback may assume of the connection it is called for, and each of `remote2vpn`,
`update_conn_status`, `send_to_client`, `connection_closed` and `zdtun_conn_close`
preserves it, the last one also when the RST it sends closes the connection again.
`StoreLemma` carries the result back to the table; one lemma per action combines them.
The fresh data of a failed socket is lost (see `faulted`) but never pointed to.

**RootConnsProofs** and **VpnConnsProofs**: **JavaTold** — `Spec => []JavaInSync`, and
**NothingLeaks** — `Spec => []NoLeakUnlessFaulted`. Until a dump fails (or, with the VPN, a
socket), Java knows the connections in order, has the status of each unless an update is
to come, and learns of each close before the data is released; and no data is lost.
`JavaInSync` is not inductive. `SyncInv` adds to `MemInv` the relation `Told` between the
data of each connection and what Java knows of it: a connection marked `pending` is in an
array (`Held`; the mark alone makes `notif_connection` skip it), data marked `to_purge` is
closed, and a connection that Java does not know has never been reported. In the VPN
capture each callback lemma also shows `Good(d0, w)`: what a callback makes of the data
`d0` it started with is a change that Java will hear of (`Changed`), and a connection that
zdtun has closed is queued and marked, also when the close of the RST was nested in it.
`open_socket` is the one path that stores a closed connection for which this fails.

**RootConnsProofs!JavaNeverReopens** and **VpnConnsProofs!JavaNeverReopens** —
`Spec => JavaMonotone`. With failures, too, no connection that Java takes for closed
becomes active. The invariant is that such a connection is closed in the native code
(`ClosedForGood`); with the VPN it needs `OpenActive` of `MemInv`, since
`update_conn_status` sets the status of an open connection to active.

**RegisterProofs!RingAddressing** — `Spec => [](AssertHolds /\ SlotsInUse)`.
For every size of the ring, of the dumps and of the capture, the position that
`connectionsUpdates` computes from an id holds that id. The assertion says nothing about
slots that it does not look at, so `RingInv` gives the id in every slot: one before
`mTail` was written in this turn of the ring, one after it in the previous turn; and it
holds what was last reported for that id. The
lemmas `Wrap`, `WriteIndex` and `NewTail` reduce each `% Size` to a case distinction,
which is what the arithmetic of the prover can use.

**RegisterProofs!RegisterImplementsLog** — `Spec => ImplementsLog`. The
register implements `ConnectionsLog`, for every size of the ring and of the dumps.
`RingShown` derives from `RingInv` that the ring, read from its oldest slot, is the end of
the sequence of all that was reported (`Shown`). A step of the register is then a step on a
suffix of that sequence, where nothing wraps: `AddImplementsAdd`,
`UpdateImplementsUpdate` and `ResetImplementsReset` show that each is the step of the log.

**RegisterProofs!DeliveredInOrder** — `ThreadsSpec => []RegisteredIsPrefix`, and
**StopIsComplete** — `ThreadsSpec => []StoppedIsComplete`. For every capacity of the queues:
the batches are registered in order and without a gap, also after an overflow, and when
the capture thread has ended both workers have, with every batch registered (unless the
queue overflowed) and every chunk in the file (unless the dumper failed). The properties
speak of what was delivered, so `ThreadsInv` speaks of what is queued: the queue holds the
next numbers, each once and in order (`Numbered`), and nothing is behind the termination
request (`PillLast`), so that a worker that takes the request has taken the data.

**VpnConnsProofs!NoBlacklistLost** — `BlacklistsSpec => []BlacklistsAccounted`. For every
number of files, downloads and captures: what is allocated is the list in force and the
one just loaded. `ReloadInv` adds who owns `new_bl`: it is NULL from the start of a reload
until its worker has ended, and again once `pd_housekeeping` has taken it, so that neither
the worker nor the next reload overwrites a list.

**VpnConnsProofs!DumpSizes** — `DumpSpec => []SizeRespected`. For every snap length,
maximum, buffer size and set of lengths, provided that a whole record fits the buffer
(`DumpAssumption`, which the constants of the code satisfy). `SizeInv` adds what the
receiver tested before it took the mutex: only the receiver makes the key log longer, so
the room that it found is still there. The lemmas on `Padding` show that a record is as
long as `pcap_rec_size` says in each of the formats.

**FirewallProofs!RulesDecide** — `Spec => []BlocksByTheRules`, **ListsDestroyedOnce** —
`Spec => []ListsAccounted`, and **ChoicesReach** — `Spec => []NewestIsChosen`. For all
connections, lists and blacklists, in every interleaving of the user with the start, the
packets, the housekeeping and the end of a capture. The inductive invariant `FirewallInv`
has four parts. `Decided` is the verdict, stated of the state that the functions of the
capture thread pass on, so that each check on a connection, the iteration over all
connections and the switch of a list have a lemma of their own. `ControlTyped` says how
far the start is, and what it holds between building a list and leaving it in the mailbox.
`Allocation` counts the lists: a box that is not loaded has only its mailbox, and one list
too many exists only if two threads filled a mailbox or it was filled late. (Whitelist mode
that is turned on behind its list, `EnableSound`, puts every open connection in `drift`.)
`Chosen` follows
the choice of the user from the descriptor into the mailbox and into force; while a box is
waiting to be loaded there is nothing to compare.

**FirewallProofs!UidsMatched** — `RulesSpec => []UidsFollowRules`. For all packages and uids.
The property speaks of moments when no broadcast is on the way; `Followed`, of `RulesInv`,
relates at every moment the uids of a list to the uids that the list last saw of the
packages in its rules, and a package whose uid has changed since to the broadcast that will
tell.

**RootConnsProofs!InterfacesAccounted** — `PcapdSpec => []InterfaceAccounted`, and
**OwnDaemonOnly** — `PcapdSpec => []DaemonsAccounted`. For every number of captures and
daemons and every set of interfaces. `IfaceInv` says that a daemon has no interface before
its loop, and the lemmas show that each function of `pcapd.c` keeps the handle and the
polled descriptor together (`Sound`, `Polled`). `ClientInv` says who may still connect: only
the daemon of the capture, unless one was `missed`; `PidInv` and `IptablesInv` do the same for
the pid file and the iptables rules.

**ServicesProofs!ResourcesReleased** — `Spec => []ResourcesAccounted`, and **LimitIsKept** —
`Spec => PurgeMakesRoom`, of Zdtun. For every finite set of tuples and every socket limit,
with each system call free to fail. `Good` counts sockets and uses of the UDP mappings in
the state that the functions of `zdtun.c` work on; its part `Core` holds in the middle of an
operation too, when a connection has a port and no socket yet. The lemmas reduce each
operation to the replacement of one connection, and the cardinalities to one element more
or less. That a purge leaves few enough is a count: the forced part
closes as many connections as there are sockets too many, or is not needed because those
that had expired were enough.

**ServicesProofs!NoTimerWhileWatching** —
`ReconnectInit /\ [][ReconnectNext]_reconnectVars => []NothingArmed`. For every number of
instances, networks and events. `ReconnectInv` says which instance is alive (`OneAlive`),
that a timer of any other was left armed (`LeftArmed`), and that the last event on its way
tells of the running VPN, which is watched once no event is left (`Told`).

**TcpStepProofs!UploadKept** — `TcpSpec => []UploadInOrder`, and **DownloadKept** —
`TcpSpec => []DownloadInOrder`, of ZdtunTcp. For every window, scale, size of a packet and
length of the two streams, with or without a proxy and its password, and for replies of
the proxy that are split anywhere. The properties compare streams; the proof compares
sequence numbers, and its invariant `RelayInv` has a part for each thing that they rest on.
`ClientInv`: the client's TCP never takes a byte beyond its window. `TunInv`: the right
edge of the window, acknowledgement plus window, never moves back from one packet that
waits in the device to the next, nor from those to the client; with this alone it is safe
that zdtun believes the last packet it read. `ControlInv` and `SocksInv`: how far the
connection and the handshake are, so that no reply of the proxy reaches the client and no
byte of the server is taken for a reply. `SeqInv`: `zdtun_seq` is the SYN+ACK, the bytes
taken from the socket after the handshake, and the FIN. `UploadInv`: what was sent to the
server, then the transmit queue, are the client's bytes, and `client_seq` is where the
former end. `DownloadInv`: the client has exactly what was taken, and `zdtun_seq` plus
`window_size` is at most the right edge. `RelayInv` is a predicate of a state and of the
packets that wait, since a handler of zdtun passes through states that are not those of
the model: `TcpProofs` shows what each function of `zdtun.c` makes of such a state, and
`TcpStepProofs` that each action keeps it. The recorded exceptions (`seen`) stand in the
parts that they void, and nowhere else.

**RootConnsProofs!AddonReleased** —
`AddonInit /\ [][AddonNext]_addonVars => []StoppedIsReleased`. MitmAddon has no constants,
so that its run already covers every state; the invariant `AddonInv` says why the property
holds. The certificate is asked for once, so that the socket pair is made once
(`AskedOnce`). `stop` finds the socket and closes it, or the receiver thread does, unless
it was assigned between the two accesses of `stop`, or the thread was never started because
`stop` had cleared `mThread` (`SocketKept`). A service that connects
after the stop is told to stop, and nothing is started (`StopKept`).

**ServicesProofs!ErrorsShown** — `MitmInit /\ [][MitmNext]_mitmVars => []ErrorShown`. For
every number of connections, ports and messages, and all sizes of the cache and of the
register. `ErrorInv` adds that the receiver has found at most one connection, that it was
registered, and that a connection that was not registered has no error. One that is
registered already closed, with an error that waited for it, gets its status in the same
synchronized block (`ErrorAdded`). For a connection with an error that is shown as closed, one of the two threads is at the step
that will correct it.

`ConnDataProofs` holds the lemmas on the operations of connection data that both captures
use: what each returns is well-formed, keeps the memory alive and is in at most one slot,
and what a dump tells Java of it.

Two formulas that runs had confirmed could not be proved, because they were false for
larger constants. `PurgeMakesRoom` said that a purge at the limit always comes down to
`NUM_SOCKETS_AFTER_PURGE`; but when an expired socket has already brought the count below
the limit, nothing more is closed. `UidsFollowRules` failed with four package events: the
removal of a rule may take away a uid that another rule has only in the package manager,
which `Shared` did not notice. Both runs now have constants at which the earlier forms
fail. The proofs of the relay and of the messages corrected their models as well. In
ZdtunTcp a proxy could speak before zdtun had greeted it, and two cases of what the
client's TCP makes of a packet overlapped, so that the model did not say which applies. In MitmReceiver the window in which an error can be missed ended too
early: the receiver's write is sure to be seen only from its next monitor on.

Only model-checked:

* every liveness property (`PurgedAreFreed`, `StopCompletesUnlessLost`, `TransfersEnd`,
  `ReloadsEnd`, `DaemonResponds`, `PacketsExported`, `MessagesHandled`, `ReceiverStops`,
  `ReconnectEnds`): the prover does not treat fairness;
* `DumpAccounted`, `CountersRight`, `ListConsistent`, `MessagesReachOwner` and
  `HostsInSync`: their sums, filters and folds over sequences need an induction over data,
  which the prover cannot use.

## 7. Not modelled

* nDPI, libpcap, the MaxMind reader and generated code: third-party, and most of the lines
  under `src/`. nDPI's results are free choices. The modelled definitions stand for about
  3% of all lines for this reason, but for about half of the lines of the C files of
  PCAPdroid and zdtun that keep state (`pcapdroid.c`, `capture_vpn.c`, `capture_libpcap.c`,
  `jni_impl.c`, `pcap_dump.c`, `pcapd.c`, `zdtun.c`, `socks5.c`); the rest of those files
  is parsing, formatting, logging and set-up.
* The uid resolver, netlink parsing, port mapping and DNS message parsing: input and
  output, or parsers; their results are free choices where a model uses them.
* The caches of hosts and uids: used by one thread, only to look up; a host that is cached
  or not is a free choice in Firewall.
* HTTP reassembly (a parser with decompression), the application resolver, geolocation and
  billing (lookups in Android services and databases).
* The activities and views other than the connections list, the control API and the
  outputs of the dump (file, UDP, HTTP server): user interface or input and output. Of
  these, only the clients of the HTTP server have threads of their own.
* Inside the modelled parts: checksums, header parsing and the wrap of sequence numbers in
  ZdtunTcp; the per-application statistics of the register; the counting of pending DNS
  requests in the root capture; the start checks of the service; the header of the dump;
  rules about addresses, protocols and countries (equality tests on a table).

Further observations on code that is below the models:

* `pd_giveup_dpi` (`pcapdroid.c:561`) changes the protocol without a notification; the
  protocol that Java shows is not part of a property.
* `capture_libpcap.c:372`: the eight-bit count of pending DNS requests wraps on a reply
  without a request; `:369` compares the DNS flags without conversion of the byte order;
  `:547` adds 1000 to the ICMP timeout where the others multiply. Timeouts and the
  contents of packets are free choices here.
* `zdtun.c:1212`: a NOP option lengthens the rest of the TCP options instead of
  shortening it. Options are below the model.
* `CaptureService.java:1136`: the STOPPED status of an old capture may arrive in a new
  one; `:622` reads a field twice that another thread clears.

## 8. What could come next

Modules were ordered by risk: memory first (ConnData and the two captures), then the path
to the user interface, the network stack, the rules, the daemon and the services beside
the capture. In the same order, what a next step would add:

1. The clients of the HTTP server, and the per-application statistics of the register.
2. The least-recently-used caches, so that the host of a connection in Firewall comes from
   the model of the cache.
3. The wrap of sequence numbers in ZdtunTcp, under which the proofs of the relay would have
   to compare them modulo 2^32.
