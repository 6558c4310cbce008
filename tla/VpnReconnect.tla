----------------------------- MODULE VpnReconnect -----------------------------
(***************************************************************************)
(* VpnReconnectService: when the VPN of another app takes the place of the *)
(* capture, the service waits for that VPN to end and starts the capture   *)
(* again.  It gives up when it sees no VPN within 10 seconds, and lets 3   *)
(* seconds pass after the VPN is lost before it starts.                    *)
(*                                                                         *)
(* onStartCommand, the timers and onDestroy run on the main thread, the    *)
(* network callbacks on the thread of ConnectivityManager, and the         *)
(* networks change by themselves.  stopService acts on the service that is *)
(* in INSTANCE, whoever calls it.  Timers fire in any order: the           *)
(* properties do not depend on their lengths.  Networks, the service       *)
(* manager and CaptureService are external, modelled as they are used.     *)
(***************************************************************************)
EXTENDS Integers, Sequences

CONSTANTS
    Nets,           \* networks of the other app's VPN
    MaxInst,        \* bound on the instances of the service
    MaxChanges      \* bound on the times that the other VPN starts

ASSUME ReconnectAssumption ==
    MaxInst \in Nat /\ MaxChanges \in Nat /\ 0 \notin Nets

VARIABLES
    vpn,            \* the network of the other app's VPN, or 0
    changes,        \* times that it has started
    capture,        \* our capture is running
    requested,      \* a start of the service that the system has not handled
    instance,       \* INSTANCE: an instance, or 0
    svc,            \* the instances so far: life, network callback, mActiveVpnNetwork
    events,         \* network events on the way to the callbacks
    deadline,       \* instances whose 10 seconds timer is set
    lost,           \* the number of 3 seconds timers of each
    assign,         \* onStartCommand, about to assign the network that it found, or 0
    helper,         \* the CaptureHelpers that are resolving hosts: one for each timer fired
    astray          \* history: see NothingArmed

reconnectVars == <<vpn, changes, capture, requested, instance, svc, events, deadline, lost,
                   assign, helper, astray>>

ReconnectInit ==
    /\ vpn = 0 /\ changes = 0
    /\ capture = TRUE /\ requested = FALSE /\ helper = 0
    /\ instance = 0 /\ svc = <<>>
    /\ events = <<>>
    /\ deadline = {} /\ lost = [k \in 1 .. MaxInst |-> 0]
    /\ assign = 0
    /\ astray = {}

-----------------------------------------------------------------------------
(* The service.                                                            *)

\* The timers of an instance are set when it stops: they are not removed.
Armed(k) == k \in deadline \/ lost[k] > 0

\* The static stopService, called for instance k: the callback of the service in
\* INSTANCE is unregistered, and the service will be destroyed.  Its timers stay.
stopServiceFor(k, timers) ==
    /\ svc' = IF instance = 0 THEN svc
              ELSE [svc EXCEPT ![instance].cb = FALSE, ![instance].life = "stopping"]
    /\ events' = <<>>
    /\ astray' = astray
         \cup (IF instance # 0 /\ (instance \in timers \/ lost[instance] > 0) THEN {"armed"} ELSE {})
         \cup (IF instance # 0 /\ k # instance THEN {"other"} ELSE {})

\* onCreate and onStartCommand: the deadline is set, the callback registered and
\* the running VPN, if any, is looked for.
onStartCommand ==
    /\ requested /\ instance = 0 /\ Len(svc) < MaxInst /\ assign = 0
    /\ LET k == Len(svc) + 1
       IN  /\ instance' = k
           /\ svc' = Append(svc, [life |-> "running", cb |-> TRUE, active |-> 0])
           /\ deadline' = deadline \cup {k}
    /\ requested' = FALSE
    /\ events' = IF vpn # 0 THEN Append(events, <<"available", vpn>>) ELSE events
    /\ assign' = vpn
    /\ UNCHANGED <<vpn, changes, capture, lost, helper, astray>>

\* registerNetworkCallback throws, and the service stops.
RegisterFails ==
    /\ requested /\ instance = 0 /\ Len(svc) < MaxInst /\ assign = 0
    /\ LET k == Len(svc) + 1
       IN  /\ instance' = k
           /\ svc' = Append(svc, [life |-> "stopping", cb |-> FALSE, active |-> 0])
           /\ deadline' = deadline \cup {k}
    /\ requested' = FALSE
    /\ astray' = astray \cup {"armed"}
    /\ UNCHANGED <<vpn, changes, capture, events, lost, assign, helper>>

\* Mutant: the timers are left.
WatchKeepTimers(k, net) ==
    /\ svc' = [svc EXCEPT ![k].active = net]
    /\ UNCHANGED <<deadline, lost>>

\* The end of checkAvailableNetwork: the network is watched, and all the timers
\* of the service are removed.
Watch(k, net) ==
    /\ svc' = [svc EXCEPT ![k].active = net]
    /\ deadline' = deadline \ {k}
    /\ lost' = [lost EXCEPT ![k] = 0]

\* checkAvailableNetwork on the main thread. The network may have been lost since
\* it was found: nobody will say so again.
AssignRunning ==
    /\ assign # 0
    /\ IF svc[instance].active = assign THEN UNCHANGED <<svc, deadline, lost, astray>>
       ELSE /\ Watch(instance, assign)
            /\ astray' = IF vpn # assign /\ \A i \in 1 .. Len(events) : events[i] # <<"lost", assign>>
                         THEN astray \cup {"missed"} ELSE astray
    /\ assign' = 0
    /\ UNCHANGED <<vpn, changes, capture, requested, instance, events, helper>>

\* onAvailable, on the thread of the callbacks.
onAvailable ==
    /\ events # <<>> /\ Head(events)[1] = "available"
    /\ LET net == Head(events)[2]
       IN  IF svc[instance].active # net /\ vpn = net THEN Watch(instance, net)
           ELSE UNCHANGED <<svc, deadline, lost>>
    /\ astray' = IF svc[instance].active = Head(events)[2] /\ lost[instance] > 0
                 THEN astray \cup {"back"} ELSE astray
    /\ events' = Tail(events)
    /\ UNCHANGED <<vpn, changes, capture, requested, instance, assign, helper>>

\* onLost: of the network that is watched, the timer is set.
onLost ==
    /\ events # <<>> /\ Head(events)[1] = "lost"
    /\ lost' = IF svc[instance].active = Head(events)[2] THEN [lost EXCEPT ![instance] = @ + 1] ELSE lost
    /\ events' = Tail(events)
    /\ UNCHANGED <<vpn, changes, capture, requested, instance, svc, deadline, assign, helper, astray>>

\* The timers, on the main thread.  The first one stops the service.
FireDeadline(k) ==
    /\ assign = 0 /\ k \in deadline
    /\ deadline' = deadline \ {k} /\ UNCHANGED lost
    /\ stopServiceFor(k, deadline \ {k})
    /\ UNCHANGED <<vpn, changes, capture, requested, instance, assign, helper>>

\* The second one unregisters the callback and starts the capture; one that runs
\* is stopped first.  Hosts are resolved on another thread.
FireLost(k) ==
    /\ assign = 0 /\ lost[k] > 0
    /\ lost' = [lost EXCEPT ![k] = @ - 1]
    /\ svc' = [svc EXCEPT ![k].cb = FALSE]
    /\ events' = IF k = instance THEN <<>> ELSE events
    /\ capture' = FALSE
    /\ helper' = helper + 1
    /\ UNCHANGED <<vpn, changes, requested, instance, deadline, assign, astray>>

\* VpnService.prepare or the resolution fails, and the listener stops the service...
StartFails ==
    /\ helper > 0 /\ assign = 0
    /\ helper' = helper - 1
    /\ stopServiceFor(instance, deadline)
    /\ UNCHANGED <<vpn, changes, capture, requested, instance, deadline, lost, assign>>

\* ...or the capture starts, here or because the user starts it: CaptureService
\* stops the service, and our VPN takes the place of the other one.
StartCapture(byUser) ==
    /\ assign = 0 /\ ~requested
    /\ IF byUser THEN ~capture /\ UNCHANGED helper ELSE helper > 0 /\ helper' = helper - 1
    /\ capture' = TRUE /\ vpn' = 0
    /\ stopServiceFor(instance, deadline)
    /\ UNCHANGED <<changes, requested, instance, deadline, lost, assign>>

\* The user aborts, from the notification.
UserAbort ==
    /\ assign = 0 /\ instance # 0 /\ svc[instance].life = "running"
    /\ stopServiceFor(instance, deadline)
    /\ UNCHANGED <<vpn, changes, capture, requested, instance, deadline, lost, assign, helper>>

\* Mutant: the callback is left registered, and INSTANCE set.
KeepInstance ==
    /\ assign = 0 /\ instance # 0 /\ svc[instance].life = "stopping"
    /\ svc' = [svc EXCEPT ![instance].life = "destroyed"]
    /\ UNCHANGED <<vpn, changes, capture, requested, instance, events, deadline, lost, assign, helper, astray>>

onDestroy ==
    /\ assign = 0 /\ instance # 0 /\ svc[instance].life = "stopping"
    /\ svc' = [svc EXCEPT ![instance].life = "destroyed"]
    /\ instance' = 0
    /\ UNCHANGED <<vpn, changes, capture, requested, events, deadline, lost, assign, helper, astray>>

-----------------------------------------------------------------------------
(* The capture and the networks.                                           *)

\* Another app takes the VPN: CaptureService.onRevoke, and the status STOPPED.
Revoke ==
    /\ capture /\ Len(svc) < MaxInst
    /\ capture' = FALSE
    /\ requested' = TRUE
    /\ UNCHANGED <<vpn, changes, instance, svc, events, deadline, lost, assign, helper, astray>>

\* The user stops the capture: nobody waits.
StopCapture ==
    /\ capture
    /\ capture' = FALSE
    /\ UNCHANGED <<vpn, changes, requested, instance, svc, events, deadline, lost, assign, helper, astray>>

Tell(ev) == IF instance # 0 /\ svc[instance].cb THEN Append(events, ev) ELSE events

VpnUp(net) ==
    /\ ~capture /\ vpn = 0 /\ changes < MaxChanges
    /\ vpn' = net /\ changes' = changes + 1
    /\ events' = Tell(<<"available", net>>)
    /\ UNCHANGED <<capture, requested, instance, svc, deadline, lost, assign, helper, astray>>

VpnDown ==
    /\ vpn # 0
    /\ vpn' = 0
    /\ events' = Tell(<<"lost", vpn>>)
    /\ UNCHANGED <<changes, capture, requested, instance, svc, deadline, lost, assign, helper, astray>>

-----------------------------------------------------------------------------
ReconnectNext ==
    \/ onStartCommand \/ RegisterFails \/ AssignRunning \/ onAvailable \/ onLost
    \/ \E k \in deadline : FireDeadline(k)
    \/ \E k \in 1 .. Len(svc) : FireLost(k)
    \/ StartFails \/ (\E byUser \in BOOLEAN : StartCapture(byUser)) \/ UserAbort \/ onDestroy
    \/ Revoke \/ StopCapture
    \/ \E net \in Nets : VpnUp(net)
    \/ VpnDown

\* The main thread and the thread of the callbacks run, timers fire, and a start
\* of the capture succeeds or fails.
ReconnectFairness ==
    /\ WF_reconnectVars(onStartCommand \/ RegisterFails) /\ WF_reconnectVars(AssignRunning)
    /\ WF_reconnectVars(onAvailable \/ onLost)
    /\ WF_reconnectVars(\E k \in deadline : FireDeadline(k))
    /\ WF_reconnectVars(\E k \in 1 .. Len(svc) : FireLost(k))
    /\ WF_reconnectVars(StartFails \/ StartCapture(FALSE))
    /\ WF_reconnectVars(onDestroy)

-----------------------------------------------------------------------------
\* The service runs, and has been told of every change.
Watching ==
    /\ instance # 0 /\ events = <<>> /\ assign = 0
    /\ svc[instance].life = "running" /\ svc[instance].cb

(* While the other app's VPN runs and the service knows, it is the VPN     *)
(* that the service watches, and no timer is set that would give up the    *)
(* wait or start the capture over it.  The exceptions are a VPN that is    *)
(* lost and comes back as the same network, whose timer is not removed; a  *)
(* VPN that is lost while onStartCommand looks at it; and a timer of an    *)
(* instance that has been stopped: such a timer is also the only way for   *)
(* one instance to stop another.                                           *)
NothingArmed ==
    /\ Watching /\ vpn # 0 =>
          /\ svc[instance].active = vpn \/ "missed" \in astray
          /\ instance \notin deadline
          /\ lost[instance] = 0 \/ "back" \in astray
          /\ \A j \in 1 .. Len(svc) : j # instance /\ Armed(j) => "armed" \in astray
    /\ "other" \in astray => "armed" \in astray

(* A service that has no VPN to wait for ends: by its deadline, by the     *)
(* start of the capture or by giving up.  Not when the VPN was lost after  *)
(* onStartCommand had found it and before it was watched.                  *)
ReconnectEnds ==
    instance # 0 /\ vpn = 0 ~> instance = 0 \/ vpn # 0 \/ "missed" \in astray
=============================================================================
