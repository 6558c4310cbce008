-------------------------------- MODULE Pcapd --------------------------------
(***************************************************************************)
(* The capture without a VPN: the app starts the daemon pcapd as root, or  *)
(* as a child to read a PCAP file, waits for it on a UNIX socket, and      *)
(* reads packets from it until the capture is stopped, the daemon closes   *)
(* the socket, or the app is killed.  Captures follow each other, and the  *)
(* daemon of one may still run when the next is started: they share the    *)
(* paths of the pid file and of the socket.                                *)
(*                                                                         *)
(* The daemon waits in select for its client, for netlink and for the      *)
(* interface.  Packets are modelled by their uid; what the app makes of    *)
(* them is the module RootConns.                                           *)
(***************************************************************************)
EXTENDS Integers, Sequences, FiniteSets

CONSTANTS
    MaxSessions,    \* bound on the captures
    Modes,          \* the captures: "inet" (@inet), "named" (an interface), "file"
    Links,          \* network interfaces
    FirstRoutes,    \* the routes at the start
    MaxChanges,     \* bound on the changes of the route to the internet
    Uids,           \* uids of the packets
    Filter,         \* the uids of option -u; none when there is no filter
    NumRules,       \* the iptables rules that redirect traffic for TLS decryption
    NULL

Sessions == 1..MaxSessions

ASSUME PcapdAssumption ==
    /\ MaxSessions \in Nat \ {0} /\ MaxChanges \in Nat /\ NumRules \in Nat
    /\ Modes \subseteq {"inet", "named", "file"}
    /\ FirstRoutes \subseteq Links \cup {NULL}
    /\ Filter \in Seq(Uids)
    /\ NULL \notin Links /\ NULL \notin Modes /\ NULL \notin Sessions

VARIABLES
    mode,       \* the kind of capture
    session,    \* the current capture, which is also the identity of its daemon
    app,        \* where run_libpcap is: idle, killed, bound, waiting, rules, running, closing, exiting
    app_running, \* running, the flag of pcapdroid.c
    client,     \* the daemon that was accepted
    queue,      \* the daemons that have connected and are not accepted
    rules,      \* the iptables rules that this capture has added
    iptables_cleanup,
    pidfile,    \* PCAPD_PID
    sockpath,   \* the capture that listens at PCAPD_SOCKET_PATH
    st,         \* where every daemon is
    iface,      \* their interface: the open link, the one in sel_fds, opened by the recheck
    handles,    \* open pcap_t
    nl,         \* netlink messages to read
    route,      \* environment: the interface of the default route, for @inet
    changes,    \* changes of the route
    odd         \* history: events that lose a process, a rule or an interface

appvars == <<session, app, app_running, client, queue, rules, iptables_cleanup>>
paths == <<pidfile, sockpath>>
daemons == <<st, iface, handles, nl>>
env == <<route, changes>>
pcapdVars == <<mode, appvars, paths, daemons, env, odd>>

Events == {"missed",    \* a daemon that had not connected yet survived the start of the next capture
           "killed",    \* the app was killed before it removed the old pid file
           "open"}      \* an interface could not be opened

Closed == [pd |-> NULL, sel |-> NULL, reopened |-> FALSE]

PcapdInit ==
    /\ mode \in Modes
    /\ session = 1 /\ app = "idle" /\ app_running = FALSE
    /\ client = NULL /\ queue = <<>>
    /\ rules = 0 /\ iptables_cleanup = FALSE
    /\ pidfile = NULL /\ sockpath = NULL
    /\ st = [d \in Sessions |-> "none"]
    /\ iface = [d \in Sessions |-> Closed]
    /\ handles = [d \in Sessions |-> 0]
    /\ nl = [d \in Sessions |-> <<>>]
    /\ route \in FirstRoutes /\ (mode # "inet" => route = NULL)
    /\ changes = 0
    /\ odd = {}

Daemonize == mode # "file"
Attached(d) == client = d \/ \E i \in 1..Len(queue) : queue[i] = d
Unconnected(d) == st[d] \in {"forked", "ready"}

-----------------------------------------------------------------------------
(* SIGTERM: until the flag running is set, the daemon dies or exits; then  *)
(* sighandler clears the flag, which interrupts select and nothing else.   *)
(* There is one for each daemon, because the app removes the pid file.     *)
Ended(d) ==
    /\ st' = [st EXCEPT ![d] = "ended"]
    /\ iface' = [iface EXCEPT ![d] = Closed] /\ handles' = [handles EXCEPT ![d] = 0]
    /\ nl' = [nl EXCEPT ![d] = <<>>]

Signalled(d) ==
    CASE st[d] \in {"spin", "ending"} -> UNCHANGED daemons
      [] st[d] = "loop" -> st' = [st EXCEPT ![d] = "ending"] /\ UNCHANGED <<iface, handles, nl>>
      [] OTHER -> Ended(d)

-----------------------------------------------------------------------------
(* connectPcapd.                                                           *)
\* Mutant: the old daemon is not killed.
StartWithoutKill ==
    /\ app = "idle" /\ st[session] = "none"
    /\ app' = "killed" /\ app_running' = TRUE
    /\ odd' = odd \cup (IF \E d \in Sessions : d # pidfile /\ Unconnected(d) THEN {"missed"} ELSE {})
    /\ UNCHANGED <<mode, session, client, queue, rules, iptables_cleanup, paths, daemons, env>>

\* The user starts a capture; the daemon that the pid file names is killed.
KillOld ==
    /\ app = "idle" /\ st[session] = "none"
    /\ app' = "killed" /\ app_running' = TRUE
    /\ IF pidfile # NULL THEN Signalled(pidfile) ELSE UNCHANGED daemons
    /\ odd' = odd \cup (IF \E d \in Sessions : d # pidfile /\ Unconnected(d) THEN {"missed"} ELSE {})
    /\ UNCHANGED <<mode, session, client, queue, rules, iptables_cleanup, paths, env>>

\* The paths are removed, and the socket bound.
Bind ==
    /\ app = "killed"
    /\ app' = "bound"
    /\ pidfile' = NULL /\ sockpath' = session
    /\ UNCHANGED <<mode, session, app_running, client, queue, rules, iptables_cleanup, daemons, env, odd>>

\* start_subprocess; with -d, the parent of the daemon exits at once.
Spawn ==
    /\ app = "bound"
    /\ \/ app' = "waiting" /\ st' = [st EXCEPT ![session] = "forked"]
       \/ app' = "closing" /\ UNCHANGED st    \* root was denied
    /\ UNCHANGED <<mode, session, app_running, client, queue, rules, iptables_cleanup, paths, iface, handles, nl, env, odd>>

Accept ==
    /\ app = "waiting" /\ app_running /\ queue # <<>>
    /\ client' = Head(queue) /\ queue' = <<>>    \* close(sock) resets the others
    /\ sockpath' = NULL
    /\ app' = "rules"
    /\ UNCHANGED <<mode, session, app_running, rules, iptables_cleanup, pidfile, daemons, env, odd>>

(* The timeout of 5 seconds, or the capture is stopped.  The SIGKILL is    *)
(* for the child: with -d, that is not the daemon but its parent, which    *)
(* has exited and was waited for.  The signal then finds no process, or    *)
(* one that has got the pid since; never a daemon, each of which was       *)
(* started before the child had ended.                                     *)
GiveUp ==
    /\ app = "waiting"
    /\ app_running => queue = <<>>
    /\ app' = "closing" /\ queue' = <<>> /\ sockpath' = NULL
    /\ IF Daemonize THEN UNCHANGED daemons
       ELSE Ended(session)
    /\ UNCHANGED <<mode, session, app_running, client, rules, iptables_cleanup, pidfile, env, odd>>

-----------------------------------------------------------------------------
(* run_libpcap.                                                            *)
\* The next iptables rule, which may fail; then the loop.
AddRule ==
    /\ app = "rules"
    /\ \/ /\ rules < NumRules /\ rules' = rules + 1
          /\ iptables_cleanup' = TRUE /\ UNCHANGED app
       \/ rules < NumRules /\ app' = "closing" /\ UNCHANGED <<rules, iptables_cleanup>>
       \/ rules = NumRules /\ app' = "running" /\ UNCHANGED <<rules, iptables_cleanup>>
    /\ UNCHANGED <<mode, session, app_running, client, queue, paths, daemons, env, odd>>

\* The loop ends: it was stopped, or the daemon closed the socket.
LoopEnds ==
    /\ app = "running"
    /\ ~app_running \/ st[client] = "ended"
    /\ app' = "closing"
    /\ UNCHANGED <<mode, session, app_running, client, queue, rules, iptables_cleanup, paths, daemons, env, odd>>

\* The cleanup: the socket is closed, the rules are removed.
Cleanup ==
    /\ app = "closing"
    /\ client' = NULL
    /\ rules' = IF iptables_cleanup THEN 0 ELSE rules
    /\ iptables_cleanup' = FALSE /\ app_running' = FALSE
    /\ app' = "exiting" /\ sockpath' = NULL
    /\ UNCHANGED <<mode, session, queue, pidfile, daemons, env, odd>>

NextSession == IF session < MaxSessions THEN session + 1 ELSE session

\* A child is waited for.
Exited ==
    /\ app = "exiting"
    /\ Daemonize \/ st[session] \in {"none", "ended"}
    /\ app' = "idle" /\ session' = NextSession
    /\ UNCHANGED <<mode, app_running, client, queue, rules, iptables_cleanup, paths, daemons, env, odd>>

stopPacketLoop ==
    /\ app_running
    /\ app_running' = FALSE
    /\ UNCHANGED <<mode, session, app, client, queue, rules, iptables_cleanup, paths, daemons, env, odd>>

\* Android kills the app: its sockets are closed; the rules stay, and no capture removes them.
AppKilled ==
    /\ app # "idle"
    /\ app' = "idle" /\ session' = NextSession
    /\ app_running' = FALSE /\ client' = NULL /\ queue' = <<>> /\ iptables_cleanup' = FALSE
    /\ sockpath' = NULL /\ rules' = 0
    /\ odd' = odd \cup (IF app = "killed" THEN {"killed"} ELSE {})
    /\ UNCHANGED <<mode, pidfile, daemons, env>>

-----------------------------------------------------------------------------
(* init_pcapd_capture, in the daemon d.                                    *)
Step(d, from, to) == st[d] = from /\ st' = [st EXCEPT ![d] = to]

\* The pid file, the netlink socket and the signal handlers.
create_pid_file(d) ==
    /\ Step(d, "forked", "ready")
    /\ pidfile' = IF Daemonize THEN d ELSE pidfile
    /\ UNCHANGED <<mode, appvars, sockpath, iface, handles, nl, env, odd>>

Connect(d) ==
    /\ \/ /\ sockpath # NULL
          /\ Step(d, "ready", "linked") /\ queue' = Append(queue, d)
       \/ /\ sockpath = NULL
          /\ Step(d, "ready", "ending") /\ UNCHANGED queue
    /\ UNCHANGED <<mode, session, app, app_running, client, rules, iptables_cleanup, paths, iface, handles, nl, env, odd>>

\* unlink(PCAPD_SOCKET_PATH), whichever socket it names by now.
UnlinkSocket(d) ==
    /\ Step(d, "linked", "opening")
    /\ sockpath' = NULL
    /\ UNCHANGED <<mode, appvars, pidfile, iface, handles, nl, env, odd>>

-----------------------------------------------------------------------------
(* The interface of the daemon d: a record of Closed's shape, the number   *)
(* of pcap_t, and whether the open has failed.                             *)
State(d) == [i |-> iface[d], n |-> handles[d], failed |-> FALSE]

\* close_interface
close_interface(s) ==
    IF s.i.pd = NULL THEN s ELSE [s EXCEPT !.i = Closed, !.n = @ - 1]

\* check_inet_interface: the new interface is opened before the old one is closed.
check_inet_interface(s, opens) ==
    IF route = NULL \/ route = s.i.pd THEN s
    ELSE IF ~opens THEN [s EXCEPT !.failed = TRUE]
    ELSE [s EXCEPT !.i.pd = route, !.n = @ + 1 - (IF s.i.pd = NULL THEN 0 ELSE 1)]

\* get_selectable_fds
get_selectable_fds(s) == [s EXCEPT !.i.sel = s.i.pd, !.i.reopened = FALSE]

\* The recheck at the end of an iteration, every 2 seconds.
Recheck(s, now, opens) ==
    IF mode = "inet" /\ s.i.pd = NULL /\ now
    THEN LET t == check_inet_interface(s, opens)
         IN  [t EXCEPT !.i.reopened = @ \/ t.i.pd # NULL]
    ELSE s

Becomes(d, s) ==
    /\ iface' = [iface EXCEPT ![d] = s.i] /\ handles' = [handles EXCEPT ![d] = s.n]
    /\ odd' = odd \cup (IF s.failed THEN {"open"} ELSE {})

\* run_pcap_dump, up to its loop.
OpenInterface(d) ==
    \E opens \in BOOLEAN :
        LET s == IF mode = "inet" THEN check_inet_interface(State(d), opens)
                 ELSE IF opens THEN [State(d) EXCEPT !.i.pd = mode, !.n = 1] ELSE State(d)
        IN  /\ Step(d, "opening", IF mode # "inet" /\ ~opens THEN "ending" ELSE "loop")
            /\ Becomes(d, get_selectable_fds(s))
            /\ UNCHANGED <<mode, appvars, paths, nl, env>>

-----------------------------------------------------------------------------
(* One iteration of the loop of run_pcap_dump, by the descriptor that      *)
(* select returns: the client first, then netlink, then the interface.     *)
Polls(d) == st[d] = "loop" /\ Attached(d)

\* "Client closed"
LoopBreaks(d) ==
    /\ ~Attached(d)
    /\ Step(d, "loop", "ending")
    /\ UNCHANGED <<mode, appvars, paths, iface, handles, nl, env, odd>>

\* Mutant: only the deletion of an interface is looked at.
NlIgnoresRoute(s, msg, opens) ==
    IF msg # "route" /\ msg = s.i.pd THEN check_inet_interface(close_interface(s), opens) ELSE s

\* handle_nl_message: a new route, or the deletion of the open interface.
handle_nl_message(s, msg, opens) ==
    IF msg = "route" THEN check_inet_interface(s, opens)
    ELSE IF msg = s.i.pd THEN check_inet_interface(close_interface(s), opens)
    ELSE s

\* Mutant: sel_fds is not refreshed after a netlink message.
NetlinkWithoutRefresh(d) ==
    /\ Polls(d) /\ nl[d] # <<>>
    /\ nl' = [nl EXCEPT ![d] = Tail(@)]
    /\ \/ \E now, opens \in BOOLEAN :
             /\ Becomes(d, Recheck(handle_nl_message(State(d), Head(nl[d]), opens), now, opens))
             /\ UNCHANGED st
       \/ Step(d, "loop", "ending") /\ UNCHANGED <<iface, handles, odd>>
    /\ UNCHANGED <<mode, appvars, paths, env>>

LoopNetlink(d) ==
    /\ Polls(d) /\ nl[d] # <<>>
    /\ nl' = [nl EXCEPT ![d] = Tail(@)]
    /\ \/ \E now, opens \in BOOLEAN :
             /\ Becomes(d, Recheck(get_selectable_fds(handle_nl_message(State(d), Head(nl[d]), opens)), now, opens))
             /\ UNCHANGED st
       \/ Step(d, "loop", "ending") /\ UNCHANGED <<iface, handles, odd>>    \* recvmsg failed
    /\ UNCHANGED <<mode, appvars, paths, env>>

Readable(d) == Polls(d) /\ nl[d] = <<>> /\ iface[d].sel # NULL

\* matches_uid_filter returns only if the first uid of the filter matches.
FilterReturns(uid) == Filter = <<>> \/ Filter[1] = uid

\* read_pkt, when it does not return.
ReadSpins(d) ==
    /\ Readable(d)
    /\ \E uid \in Uids : ~FilterReturns(uid)
    /\ Step(d, "loop", "spin")
    /\ UNCHANGED <<mode, appvars, paths, iface, handles, nl, env, odd>>

\* read_pkt: the interface fails.  The one to the internet is waited for.
ReadFails(d) ==
    /\ Readable(d) /\ mode # "file"
    /\ \E now, opens \in BOOLEAN : Becomes(d, Recheck(close_interface(State(d)), now, opens))
    /\ IF mode = "inet" THEN UNCHANGED st ELSE Step(d, "loop", "ending")
    /\ UNCHANGED <<mode, appvars, paths, nl, env>>

ReadEnds(d) ==
    /\ Readable(d) /\ mode = "file"
    /\ Step(d, "loop", "ending")    \* PCAPD_EOF
    /\ UNCHANGED <<mode, appvars, paths, iface, handles, nl, env, odd>>

\* select times out.
LoopRechecks(d) ==
    /\ Polls(d) /\ nl[d] = <<>> /\ mode = "inet" /\ iface[d].pd = NULL
    /\ \E opens \in BOOLEAN : Becomes(d, Recheck(State(d), TRUE, opens))
    /\ UNCHANGED <<mode, appvars, paths, st, nl, env>>

\* The pid file is removed, whichever daemon wrote it.
finish_pcapd_capture(d) ==
    /\ Step(d, "ending", "ended")
    /\ iface' = [iface EXCEPT ![d] = Closed] /\ handles' = [handles EXCEPT ![d] = close_interface(State(d)).n]
    /\ nl' = [nl EXCEPT ![d] = <<>>]
    /\ pidfile' = NULL
    /\ UNCHANGED <<mode, appvars, sockpath, env, odd>>

-----------------------------------------------------------------------------
(* The route to the internet, and the netlink messages on it.              *)
Notified(msg) ==
    nl' = [d \in Sessions |->
              IF st[d] \in {"ready", "linked", "opening", "loop", "spin"}
              THEN Append(nl[d], msg) ELSE nl[d]]

RouteChanges ==
    /\ mode = "inet"
    /\ changes < MaxChanges /\ changes' = changes + 1
    /\ \/ \E l \in Links \ {route} : route' = l /\ Notified("route")
       \/ route # NULL /\ route' = NULL /\ Notified(route)    \* RTM_DELLINK
    /\ UNCHANGED <<mode, appvars, paths, st, iface, handles, odd>>

-----------------------------------------------------------------------------
App == Bind \/ Spawn \/ Accept \/ GiveUp \/ AddRule \/ LoopEnds \/ Cleanup \/ Exited

Daemon(d) ==
    \/ create_pid_file(d) \/ Connect(d) \/ UnlinkSocket(d) \/ OpenInterface(d)
    \/ LoopBreaks(d) \/ LoopNetlink(d) \/ LoopRechecks(d)
    \/ finish_pcapd_capture(d)

Reads(d) == ReadSpins(d) \/ ReadFails(d) \/ ReadEnds(d)

PcapdNext ==
    \/ KillOld
    \/ App
    \/ stopPacketLoop
    \/ AppKilled
    \/ \E d \in Sessions : Daemon(d) \/ Reads(d)
    \/ RouteChanges

\* The processes run; starting, stopping, the packets and the network are free.
Fairness == WF_pcapdVars(App) /\ \A d \in Sessions : WF_pcapdVars(Daemon(d))

PcapdSpec == PcapdInit /\ [][PcapdNext]_pcapdVars /\ Fairness

-----------------------------------------------------------------------------
PcapdTypeOK ==
    /\ mode \in Modes /\ session \in Sessions
    /\ app \in {"idle", "killed", "bound", "waiting", "rules", "running", "closing", "exiting"}
    /\ app_running \in BOOLEAN /\ iptables_cleanup \in BOOLEAN
    /\ {client, pidfile, sockpath} \subseteq Sessions \cup {NULL}
    /\ st \in [Sessions -> {"none", "forked", "ready", "linked", "opening", "loop", "spin", "ending", "ended"}]
    /\ queue \in Seq(Sessions) /\ rules \in 0..NumRules
    /\ \A d \in Sessions : handles[d] \in 0..1
    /\ route \in Links \cup {NULL} /\ changes \in 0..MaxChanges /\ odd \subseteq Events

(* The app reads the packets of the daemon it has just started, with its   *)
(* interface and filter, never those of an earlier one that connects late; *)
(* unless that one had not yet written the pid file by which it is killed. *)
RightDaemon == (client # NULL /\ "missed" \notin odd) => client = session

(* The pid in the pid file is that of a live daemon, so that the SIGTERM   *)
(* sent as root hits no other process; unless the app was killed before it *)
(* removed the file.                                                       *)
PidIsAlive ==
    pidfile # NULL => (st[pidfile] \notin {"none", "ended"} \/ app = "killed" \/ "killed" \in odd)

(* No iptables rule is left when the capture has ended, also when adding   *)
(* one of them failed.  (That rules stay when the app is killed is not     *)
(* stated.)                                                                *)
RulesRemoved == app = "idle" => rules = 0

(* The daemon that the app reads from, the one that its pid file names and *)
(* the iptables rules are those of the capture (run_libpcap, connectPcapd) *)
(* with the exceptions of the three conjuncts.  What else the app does as  *)
(* root is not stated: the SIGKILL of GiveUp, and the rules of an app that *)
(* was killed.                                                             *)
DaemonsAccounted == RightDaemon /\ PidIsAlive /\ RulesRemoved

(* The daemon polls the interface that it has open, and no closed one;     *)
(* an interface that the recheck has opened is polled only after the next  *)
(* netlink message.                                                        *)
SelectsOpenInterface ==
    \A d \in Sessions : st[d] = "loop" =>
        iface[d].sel = IF iface[d].reopened THEN NULL ELSE iface[d].pd

\* Every pcap_t is closed once.
HandlesAccounted ==
    \A d \in Sessions : handles[d] = IF iface[d].pd = NULL THEN 0 ELSE 1

(* The interface of a daemon: polled while it is open, closed once.        *)
InterfaceAccounted == PcapdTypeOK /\ SelectsOpenInterface /\ HandlesAccounted

(* "When the socket is closed, the daemon exits" (pcapd.c).                *)
SocketClosedExits ==
    \A d \in Sessions : (st[d] \in {"loop", "spin"} /\ ~Attached(d)) ~> st[d] = "ended"

(* The daemon exits when its socket is closed, whatever the state of its   *)
(* interface and of netlink, unless it is in the endless loop of           *)
(* matches_uid_filter.                                                     *)
LoopExits ==
    \A d \in Sessions : (st[d] = "loop" /\ ~Attached(d)) ~> st[d] = "ended"

(* "... and detects its changes": when the route changes no more, the      *)
(* daemon opens its interface, unless an open has failed.                  *)
FollowsRoute ==
    \A d \in Sessions :
        (mode = "inet" /\ st[d] = "loop" /\ route # NULL /\ changes = MaxChanges)
            ~> (st[d] # "loop" \/ "open" \in odd \/ iface[d].pd = route)

(* A capture that is stopped ends: run_libpcap returns, unless it waits    *)
(* for a child in that endless loop.                                       *)
StopCompletes ==
    (app \notin {"idle", "killed", "bound"} /\ ~app_running)
        ~> (app = "idle" \/ \E d \in Sessions : st[d] = "spin")

(* The shutdown of both sides: neither waits for ever for the other.       *)
ShutdownCompletes == LoopExits /\ StopCompletes

(* The daemon responds to what it polls: the route, the closed socket.     *)
DaemonResponds == FollowsRoute /\ ShutdownCompletes
=============================================================================
