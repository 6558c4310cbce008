------------------------------- MODULE Firewall -------------------------------
(***************************************************************************)
(* The rules and how they reach the packet loop.  The firewall blocklist   *)
(* and whitelist, the malware whitelist and the decryption list are edited *)
(* by the user on the main thread.  The JNI functions reload... build a    *)
(* native list and leave it in a mailbox (firewall.new_bl, firewall.new_wl,*)
(* malware_detection.new_wl, tls_decryption.new_list); pd_housekeeping, on *)
(* the capture thread, puts it in force and checks the active connections  *)
(* again.                                                                  *)
(*                                                                         *)
(* A rule is a model value that stands for an app, an address or a host;   *)
(* a list is a set of rules.  A connection has one of each.  How the       *)
(* malware blacklist is reloaded is the module BlacklistsReload; here only *)
(* the list in force matters.  The branches of pd_housekeeping depend on   *)
(* the time and are nondeterministic.                                      *)
(***************************************************************************)
EXTENDS Integers, Sequences

CONSTANTS
    Conns,              \* connections
    Uid, Ip, Host,      \* Conns -> rule: what a rule for the connection would name
    Cached,             \* Conns -> set of hosts the LRU cache may give for its address
    Dns,                \* the connections to UDP port 53
    Netd, Phone, Unknown,   \* UID_NETD, UID_PHONE, UID_UNKNOWN
    Lists,              \* Boxes -> set of the lists the user may choose
    Blacklists,         \* the malware blacklists that may come in force
    MaxChanges,         \* bound on the actions of the user
    FirewallVisible,    \* mBilling.isFirewallVisible()
    NULL

\* The mailboxes.
Boxes == {"block", "white", "mwl", "dec"}

\* The hosts that may be known of a connection, and pd_conn_t.
Infos == {NULL} \cup {Host[c] : c \in Conns} \cup UNION {Cached[c] : c \in Conns}
Connection ==
    [uid : {Uid[c] : c \in Conns}, info : Infos, info_from_lru : BOOLEAN, fresh : BOOLEAN,
     whitelisted_app : BOOLEAN, blacklisted_internal : BOOLEAN, blacklisted_ip : BOOLEAN,
     blacklisted_domain : BOOLEAN, to_block : BOOLEAN, netd_block_missed : BOOLEAN]

ASSUME FirewallAssumption ==
    /\ \A f \in {Uid, Ip, Host, Cached} : DOMAIN f = Conns
    /\ Dns \subseteq Conns
    /\ DOMAIN Lists = Boxes /\ \A b \in Boxes : Lists[b] # {} /\ NULL \notin Lists[b]
    /\ NULL \notin Blacklists /\ NULL \notin Connection
    /\ MaxChanges \in Nat /\ FirewallVisible \in BOOLEAN

VARIABLES
    user,       \* what the user has chosen: the lists, the whitelist mode, the firewall switch
    changes,    \* actions of the user so far
    enabling,   \* the main thread has a whitelist in the mailbox, and its mode to turn on
    phase,      \* of the capture thread: init, starting, running, freed, stopped
    start,      \* the boxes it has still to load at the start, and a list being built
    fw,         \* firewall.enabled and firewall.wl_enabled
    cur,        \* the lists in force
    new,        \* the mailboxes
    live,       \* lists of each box that are allocated
    malware,    \* malware_detection.bl
    conns,      \* the pd_conn_t of the active connections
    drift,      \* history: connections whose verdict is older than the rules
    odd         \* history: events that lose a rule or a list

vars == <<user, changes, enabling, phase, start, fw, cur, new, live, malware, conns, drift, odd>>

Events == {"refused",       \* a reload found its mailbox full, or could not build its list
           "raced",         \* two threads filled the same mailbox
           "late"}          \* a mailbox was filled after pd_run freed the lists

\* Mutant: the firewall whitelist is not loaded at the start.
StartWithoutWhite == <<"mwl", "dec", "block">>

\* updateServiceStatus(STARTED)
StartOrder == <<"mwl", "dec", "block", "white">>

Init ==
    /\ user \in [list : {[b \in Boxes |-> CHOOSE l \in Lists[b] : TRUE]}, wl_mode : BOOLEAN, enabled : BOOLEAN]
    /\ changes = 0
    /\ enabling = FALSE
    /\ phase = "init"
    /\ start = [boxes |-> StartOrder, held |-> NULL]
    /\ fw = [enabled |-> user.enabled, wl_enabled |-> FALSE]
    /\ cur = [b \in Boxes |-> NULL]
    /\ new = [b \in Boxes |-> NULL]
    /\ live = [b \in Boxes |-> 0]
    /\ malware = NULL
    /\ conns = [c \in Conns |-> NULL]
    /\ drift = {}
    /\ odd = {}

-----------------------------------------------------------------------------
(* The state that the functions of the capture thread work on.             *)
Now == [fw |-> fw, cur |-> cur, new |-> new, live |-> live, malware |-> malware,
        conns |-> conns, drift |-> drift, odd |-> odd]

Become(s) ==
    /\ fw' = s.fw /\ cur' = s.cur /\ new' = s.new /\ live' = s.live /\ malware' = s.malware
    /\ conns' = s.conns /\ drift' = s.drift /\ odd' = s.odd

Active(s) == {c \in Conns : s.conns[c] # NULL}
Note(s, e, cond) == [s EXCEPT !.odd = IF cond THEN @ \cup {e} ELSE @]

\* blacklist_match_...: whether a list, if there is one, has the rule.
Match(list, rule) == list # NULL /\ rule # NULL /\ rule \in list

-----------------------------------------------------------------------------
(* The verdict on a connection.                                            *)
check_blacklisted_domain(s, k) ==
    LET bad == /\ ~k.blacklisted_domain /\ ~k.whitelisted_app
               /\ Match(s.malware, k.info) /\ ~Match(s.cur["mwl"], k.info)
    IN  [k EXCEPT !.blacklisted_domain = @ \/ bad,
                  !.to_block = @ \/ bad \/ (s.fw.enabled /\ Match(s.cur["block"], k.info))]

\* In whitelist mode all is blocked but the apps of the list, and DNS of unspecified apps.
WhitelistBlocks(s, c, k) ==
    /\ s.fw.enabled /\ s.fw.wl_enabled /\ s.cur["white"] # NULL
    /\ c \notin Dns \/ k.uid \notin {Netd, Phone, Unknown}
    /\ ~Match(s.cur["white"], k.uid)

check_whitelist_mode_block(s, c, k) == [k EXCEPT !.to_block = @ \/ WhitelistBlocks(s, c, k)]

FirewallBlocks(s, c, k) ==
    /\ s.fw.enabled
    /\ \E rule \in {k.uid, Ip[c], k.info} : Match(s.cur["block"], rule)

Blacklisted(k) == k.blacklisted_internal \/ k.blacklisted_ip \/ k.blacklisted_domain

\* Mutant: a connection that was blocked once stays blocked.
NeverUnblock(s, c) ==
    LET k == s.conns[c]
    IN  check_whitelist_mode_block(s, c,
            [k EXCEPT !.to_block = @ \/ Blacklisted(k) \/ FirewallBlocks(s, c, k)])

check_blocked_conn_cb(s, c) ==
    LET k == s.conns[c]
    IN  check_whitelist_mode_block(s, c,
            [k EXCEPT !.to_block = Blacklisted(k) \/ FirewallBlocks(s, c, k)])

\* iter_active_connections(check_blocked_conn_cb)
RecheckBlocked(s) ==
    [s EXCEPT !.conns = [c \in Conns |-> IF @[c] = NULL THEN NULL ELSE check_blocked_conn_cb(s, c)],
              !.drift = {}]

(* check_blacklisted_conn_cb: the connections that the malware whitelist   *)
(* has now are not blacklisted any more; the block is looked at again only *)
(* if there is a firewall blocklist.                                       *)
Whitelisted(s, c) ==
    LET k   == s.conns[c]
        app == Match(s.cur["mwl"], k.uid)
    IN  [k EXCEPT !.whitelisted_app = app,
                  !.blacklisted_ip = @ /\ ~app /\ ~Match(s.cur["mwl"], Ip[c]),
                  !.blacklisted_domain = @ /\ ~app /\ ~Match(s.cur["mwl"], k.info)]

check_blacklisted_conn_cb(s) ==
    LET t == [s EXCEPT !.conns = [c \in Conns |-> IF @[c] = NULL THEN NULL ELSE Whitelisted(s, c)]]
        changed == {c \in Active(s) : \/ s.conns[c].blacklisted_ip # t.conns[c].blacklisted_ip
                                      \/ s.conns[c].blacklisted_domain # t.conns[c].blacklisted_domain}
    IN  IF s.cur["block"] = NULL
        THEN [t EXCEPT !.drift = @ \cup changed]
        ELSE [t EXCEPT !.conns = [c \in Conns |-> IF c \in changed THEN check_blocked_conn_cb(t, c) ELSE @[c]],
                       !.drift = @ \ changed]

-----------------------------------------------------------------------------
(* The connections, on the capture thread.                                 *)
\* The malware and firewall checks of pd_new_connection on the address and the app.
CheckAddress(s, c, k) ==
    LET bad == ~k.whitelisted_app /\ Match(s.malware, Ip[c]) /\ ~Match(s.cur["mwl"], Ip[c])
        b   == [k EXCEPT !.blacklisted_ip = bad, !.to_block = @ \/ bad]
    IN  [b EXCEPT !.to_block = @ \/ FirewallBlocks(s, c, [b EXCEPT !.info = NULL])]

(* A host of the cache tells which app a DNS request of netd was for: the  *)
(* request gets its uid, and its block may have been missed.               *)
NetdResolved(s, uid, info) ==
    {d \in Active(s) : uid # Unknown /\ info # NULL /\ s.conns[d].fresh /\ s.conns[d].uid = Netd /\ s.conns[d].info = info}

NetdUid(s, k, uid) ==
    [k EXCEPT !.uid = uid,
              !.netd_block_missed = @ \/ (/\ ~k.to_block /\ s.fw.enabled /\ s.cur["block"] # NULL
                                         /\ \/ Match(s.cur["block"], uid)
                                            \/ s.fw.wl_enabled /\ s.cur["white"] # NULL /\ ~Match(s.cur["white"], uid))]

(* pd_new_connection: host is what the cache gives for the address.  The   *)
(* new connection is itself in new_conns when the netd requests are looked *)
(* for.                                                                    *)
pd_new_connection(c, host) ==
    LET k0 == [uid |-> Uid[c], info |-> host, info_from_lru |-> host # NULL, fresh |-> TRUE,
               whitelisted_app |-> Match(cur["mwl"], Uid[c]), blacklisted_internal |-> FALSE,
               blacklisted_ip |-> FALSE, blacklisted_domain |-> FALSE, to_block |-> FALSE,
               netd_block_missed |-> FALSE]
        s  == [Now EXCEPT !.conns[c] = k0]
        r  == NetdResolved(s, Uid[c], host)
        k1 == IF c \in r THEN NetdUid(s, k0, Uid[c]) ELSE k0
        k2 == CheckAddress(s, c, check_blacklisted_domain(s, k1))
    IN  /\ phase = "running" /\ conns[c] = NULL
        /\ conns' = [d \in Conns |->
                        IF d = c THEN check_whitelist_mode_block(s, c, k2)
                        ELSE IF d \in r THEN NetdUid(s, conns[d], Uid[c]) ELSE conns[d]]
        /\ drift' = drift \cup (r \ {c})
        /\ UNCHANGED <<user, changes, enabling, phase, start, fw, cur, new, live, malware, odd>>


(* A block of the VPN itself, whatever the lists say: the traffic to a DNS *)
(* server that is not a plain request (check_dns_req_allowed), QUIC, or a  *)
(* private DNS server (vpn_process_ndpi).                                  *)
BlockedInternally(c) ==
    /\ phase = "running" /\ conns[c] # NULL
    /\ conns' = [conns EXCEPT ![c].blacklisted_internal = TRUE, ![c].to_block = TRUE]
    /\ UNCHANGED <<user, changes, enabling, phase, start, fw, cur, new, live, malware, drift, odd>>

(* process_ndpi_data: nDPI finds the host.  What the host of the cache     *)
(* made of the connection stays.                                           *)
process_ndpi_data(c) ==
    LET k == [conns[c] EXCEPT !.info = Host[c], !.info_from_lru = FALSE]
    IN  /\ phase = "running" /\ conns[c] # NULL
        /\ conns[c].info = NULL \/ conns[c].info_from_lru
        /\ conns' = [conns EXCEPT ![c] = check_blacklisted_domain(Now, k)]
        /\ drift' = drift \cup (IF conns[c].info \in {NULL, Host[c]} THEN {} ELSE {c})
        /\ UNCHANGED <<user, changes, enabling, phase, start, fw, cur, new, live, malware, odd>>

\* The connection is purged.
pd_purge_connection(c) ==
    /\ phase = "running" /\ conns[c] # NULL
    /\ conns' = [conns EXCEPT ![c] = NULL]
    /\ drift' = drift \ {c}
    /\ UNCHANGED <<user, changes, enabling, phase, start, fw, cur, new, live, malware, odd>>

-----------------------------------------------------------------------------
(* The mailboxes.                                                          *)
\* What Java passes: no firewall whitelist when its mode is off.
Descriptor(b) == IF b = "white" /\ ~user.wl_mode THEN NULL ELSE user.list[b]
Reloads(b) == b \in {"block", "white"} => FirewallVisible

\* Building the native list, or the end of a reload of no whitelist.
Publish(s, b, list) ==
    IF list = NULL THEN [s EXCEPT !.fw.wl_enabled = FALSE, !.drift = Active(s)]
    ELSE [s EXCEPT !.new[b] = list, !.live[b] = @ + 1]

\* A whitelist is in the mailbox first, and its mode is turned on then.
Enable(s) == [s EXCEPT !.fw.wl_enabled = TRUE, !.drift = Active(s)]

(* reloadBlocklist, reloadFirewallWhitelist, reloadMalwareWhitelist and    *)
(* reloadDecryptionList on the main thread: refused when the mailbox is    *)
(* full or the list cannot be built.                                       *)
Reload(s, b, list, built) ==
    IF s.new[b] # NULL \/ (list # NULL /\ ~built) THEN Note(s, "refused", TRUE)
    ELSE Note(Note(Publish(s, b, list), "late", phase = "freed"),
              "raced", start.held # NULL /\ Head(start.boxes) = b)

HasPd == phase \in {"starting", "running", "freed"}

\* The handlers of the main thread: a change of the user, and the reload it makes.
UserChanges ==
    /\ ~enabling /\ changes < MaxChanges
    /\ changes' = changes + 1
    /\ UNCHANGED <<phase, start>>

\* What the main thread has still to do: pd_housekeeping may run before.
TurnsOn == enabling' = (new'["white"] # new["white"])

EditList(b, list) ==
    /\ UserChanges
    /\ list # user.list[b]
    /\ LET u == [user EXCEPT !.list[b] = list]
       IN  /\ user' = u
           /\ \E built \in BOOLEAN :
                 IF HasPd /\ Reloads(b)
                 THEN Become(Reload(Now, b, IF b = "white" /\ ~u.wl_mode THEN NULL ELSE list, built))
                 ELSE Become(Now)
    /\ TurnsOn

SetWhitelistMode ==
    /\ UserChanges
    /\ user' = [user EXCEPT !.wl_mode = ~@]
    /\ \E built \in BOOLEAN :
          IF HasPd /\ Reloads("white")
          THEN Become(Reload(Now, "white", IF user.wl_mode THEN NULL ELSE user.list["white"], built))
          ELSE Become(Now)
    /\ TurnsOn

\* The end of reloadFirewallWhitelist.
EnableWhitelist ==
    /\ enabling /\ enabling' = FALSE
    /\ Become(IF HasPd THEN Enable(Now) ELSE Now)
    /\ UNCHANGED <<user, changes, phase, start>>

\* The connections are not checked again.
setFirewallEnabled ==
    /\ UserChanges
    /\ user' = [user EXCEPT !.enabled = ~@]
    /\ Become(IF HasPd THEN [Now EXCEPT !.fw.enabled = ~user.enabled, !.drift = Active(Now)] ELSE Now)
    /\ UNCHANGED enabling

-----------------------------------------------------------------------------
(* The capture thread.                                                     *)
\* runPacketLoop and the start of pd_run: the blacklists may be loaded at once.
pd_run ==
    /\ phase = "init"
    /\ phase' = "starting"
    /\ \E m \in Blacklists \cup {NULL} : Become([Now EXCEPT !.fw.enabled = user.enabled, !.malware = m])
    /\ UNCHANGED <<user, changes, enabling, start>>

\* The next box of updateServiceStatus(STARTED), which the capture thread calls.
StartNext ==
    /\ phase' = IF Len(start.boxes) = 1 THEN "running" ELSE "starting"
    /\ start' = [boxes |-> Tail(start.boxes), held |-> NULL]
    /\ UNCHANGED <<user, changes, enabling>>

StartSkips ==
    LET b == Head(start.boxes)
    IN  /\ phase = "starting" /\ start.held = NULL
        /\ \/ (~Reloads(b) \/ new[b] # NULL) /\ Become(Now)
           \/ Reloads(b) /\ new[b] = NULL /\ Descriptor(b) = NULL /\ Become(Publish(Now, b, NULL))
        /\ StartNext

StartBuilds ==
    LET b == Head(start.boxes)
    IN  /\ phase = "starting" /\ start.held = NULL
        /\ Reloads(b) /\ new[b] = NULL /\ Descriptor(b) # NULL
        /\ start' = [start EXCEPT !.held = Descriptor(b)]
        /\ Become(Now)
        /\ UNCHANGED <<user, changes, enabling, phase>>

StartPublishes ==
    LET b == Head(start.boxes)
        s == Publish(Now, b, start.held)
    IN  /\ phase = "starting" /\ start.held # NULL
        /\ Become(IF b = "white" THEN Enable(s) ELSE s)
        /\ StartNext

\* Mutant: the old list is not destroyed.
LoadLeaks(s, b) ==
    IF s.new[b] = NULL THEN s ELSE [s EXCEPT !.cur[b] = s.new[b], !.new[b] = NULL]

\* A new list is put in force, and the old one destroyed.
Load(s, b) ==
    IF s.new[b] = NULL THEN s
    ELSE [s EXCEPT !.live[b] = @ - (IF s.cur[b] = NULL THEN 0 ELSE 1),
                   !.cur[b] = s.new[b], !.new[b] = NULL]

\* The connections of new_conns are sent to Java.
Dumped(s) ==
    [s EXCEPT !.conns = [c \in Conns |-> IF @[c] = NULL THEN NULL ELSE [@[c] EXCEPT !.fresh = FALSE]]]

\* One of the branches that depend on the time, then the mailboxes.
pd_housekeeping(branch) ==
    LET s1 == IF branch = "conns_dump" THEN Dumped(Now) ELSE Now
        s2 == IF new["mwl"] = NULL THEN s1 ELSE check_blacklisted_conn_cb(Load(s1, "mwl"))
        s3 == CASE new["block"] # NULL -> RecheckBlocked(Load(s2, "block"))
                [] new["block"] = NULL /\ new["white"] # NULL -> RecheckBlocked(Load(s2, "white"))
                [] OTHER -> s2
        s4 == Load(s3, "dec")
    IN  /\ phase = "running"
        /\ \/ branch \in {"other", "conns_dump"} /\ Become(s4)
           \/ branch = "malware" /\ \E m \in Blacklists : Become([s4 EXCEPT !.malware = m])
        /\ UNCHANGED <<user, changes, enabling, phase, start>>

\* A list that is referred to, or none.
Held(l) == IF l = NULL THEN 0 ELSE 1

(* The end of pd_run: the lists are destroyed.                             *)
PdRunEnds ==
    /\ phase = "running"
    /\ phase' = "freed"
    /\ Become([Now EXCEPT
                !.live = [b \in Boxes |-> @[b] - Held(cur[b]) - Held(new[b])],
                !.conns = [c \in Conns |-> NULL], !.drift = {}])
    /\ UNCHANGED <<user, changes, enabling, start>>

\* runPacketLoop returns: global_pd is NULL.
Returned ==
    /\ phase = "freed"
    /\ phase' = "stopped"
    /\ UNCHANGED <<user, changes, enabling, start, fw, cur, new, live, malware, conns, drift, odd>>

Branches == {"other", "conns_dump", "malware"}

Next ==
    \/ \E b \in Boxes : \E l \in Lists[b] : EditList(b, l)
    \/ SetWhitelistMode
    \/ EnableWhitelist
    \/ setFirewallEnabled
    \/ pd_run
    \/ StartSkips
    \/ StartBuilds
    \/ StartPublishes
    \/ \E c \in Conns : \E h \in Cached[c] \cup {NULL} : pd_new_connection(c, h)
    \/ \E c \in Conns : BlockedInternally(c)
    \/ \E c \in Conns : process_ndpi_data(c)
    \/ \E c \in Conns : pd_purge_connection(c)
    \/ \E branch \in Branches : pd_housekeeping(branch)
    \/ PdRunEnds
    \/ Returned

Spec == Init /\ [][Next]_vars

-----------------------------------------------------------------------------
TypeOK ==
    /\ phase \in {"init", "starting", "running", "freed", "stopped"}
    /\ \A b \in Boxes : {cur[b], new[b]} \subseteq Lists[b] \cup {NULL} /\ live[b] \in 0..3
    /\ malware \in Blacklists \cup {NULL}
    /\ conns \in [Conns -> Connection \cup {NULL}]
    /\ drift \subseteq Active(Now) /\ odd \subseteq Events

\* What the lists in force and the switches say of a connection.
Verdict(c) ==
    \/ Blacklisted(conns[c])
    \/ FirewallBlocks(Now, c, conns[c])
    \/ WhitelistBlocks(Now, c, conns[c])

(* A connection is blocked if and only if the lists in force say so,       *)
(* however they came in force before or after it was opened and its host   *)
(* was found.  The exceptions are the ones that drift names: a switch was  *)
(* turned and no list loaded since, also the whitelist mode when its list  *)
(* is put in force before it; nDPI replaced a host of the cache; a request *)
(* of netd got the uid of an app; or the malware whitelist was loaded      *)
(* without a firewall blocklist.                                           *)
BlocksByTheRules ==
    \A c \in Active(Now) \ drift : conns[c].to_block <=> Verdict(c)

Refs(b) == Held(cur[b]) + Held(new[b])

(* Every list is destroyed once: the allocated ones are those in force and *)
(* in the mailboxes while the capture runs, and none are left when it has  *)
(* ended, unless two threads filled one mailbox, or it was filled late.    *)
ListsAccounted ==
    /\ TypeOK
    /\ odd \cap {"raced", "late"} # {} \/
        \A b \in Boxes : live[b] = IF phase \in {"freed", "stopped"} THEN 0 ELSE Refs(b)

(* The newest list, in the mailbox or else in force, is the one that the   *)
(* user chose: no change is lost between the start, which loads the lists  *)
(* on the capture thread, and the changes on the main thread, unless a     *)
(* reload was refused or raced.                                            *)
NewestIsChosen ==
    (phase = "running" /\ odd \cap {"refused", "raced"} = {}) =>
        \A b \in {x \in Boxes : Reloads(x) /\ Descriptor(x) # NULL} :
            (IF new[b] # NULL THEN new[b] ELSE cur[b]) = Descriptor(b)
=============================================================================
