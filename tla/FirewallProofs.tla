--------------------------- MODULE FirewallProofs ---------------------------
(***************************************************************************)
(* The firewall and the rules about apps.                                  *)
(*                                                                         *)
(* For all connections, lists and blacklists and every number of changes   *)
(* by the user, BlocksByTheRules, ListsAccounted and NewestIsChosen hold   *)
(* in every interleaving of the user with the start, the packets, the      *)
(* housekeeping and the end of a capture.  None of them is inductive.      *)
(* That a connection is blocked as the rules say rests on the types of     *)
(* what the capture thread works on; the accounts of the lists rest on how *)
(* far the start-up is, on what it holds between a reload and the store    *)
(* into the mailbox, and on who may have filled a mailbox twice or late.   *)
(* FirewallInv says all of that.  The lemmas follow the calls of the       *)
(* capture thread: each check on a connection, the iteration over all of   *)
(* them, the switch of one list, and then the actions.                     *)
(*                                                                         *)
(* UidsFollowRules holds for all packages and uids, and every number of    *)
(* edits, installs and restarts.  The inductive invariant relates the uids *)
(* of the list to its rules by what the list last saw of each package, and *)
(* a uid that has changed since to a broadcast on the way.                 *)
(***************************************************************************)
EXTENDS Firewall, MatchList, WellFoundedInduction, TLAPS

\* Each leaf is tried with Zenon, then with SMT.
USE ZenonT(5), SMTT(15)

\* The boxes that the start of the capture has still to load.
Entries(q) == {q[i] : i \in DOMAIN q}
Pending == Entries(start.boxes)

LoadsLeft == {<<>>, <<"white">>, <<"block", "white">>, <<"dec", "block", "white">>,
             <<"mwl", "dec", "block", "white">>}

\* Types of what the capture thread works on.
AnyList == {NULL} \cup UNION {Lists[b] : b \in Boxes}
Switches == [enabled : BOOLEAN, wl_enabled : BOOLEAN]
State == [fw : Switches, cur : [Boxes -> AnyList], new : [Boxes -> AnyList], live : [Boxes -> Int],
          malware : Blacklists \cup {NULL}, conns : [Conns -> Connection \cup {NULL}],
          drift : SUBSET Conns, odd : SUBSET Events]

StateTyped(s) ==
    /\ s \in State
    /\ \A b \in Boxes : {s.cur[b], s.new[b]} \subseteq Lists[b] \cup {NULL}
    /\ s.drift \subseteq Active(s)

\* What the lists in force and the switches of a state say of a connection.
VerdictIn(s, c) ==
    \/ Blacklisted(s.conns[c])
    \/ FirewallBlocks(s, c, s.conns[c])
    \/ WhitelistBlocks(s, c, s.conns[c])

Decided(s) == \A c \in Active(s) \ s.drift : s.conns[c].to_block <=> VerdictIn(s, c)

\* The choices of the user, and how far the start is.
ControlTyped ==
    /\ user.list \in [Boxes -> UNION {Lists[b] : b \in Boxes}]
    /\ \A b \in Boxes : user.list[b] \in Lists[b]
    /\ user.wl_mode \in BOOLEAN /\ user.enabled \in BOOLEAN
    /\ user = [list |-> user.list, wl_mode |-> user.wl_mode, enabled |-> user.enabled]
    /\ phase \in {"init", "starting", "running", "freed", "stopped"}
    /\ start = [boxes |-> start.boxes, held |-> start.held]
    /\ start.boxes \in LoadsLeft
    /\ phase = "init" => start.boxes = StartOrder
    /\ phase = "starting" <=> phase # "init" /\ start.boxes # <<>>
    /\ start.held # NULL => /\ phase = "starting" /\ Reloads(Head(start.boxes))
                            /\ start.held \in Lists[Head(start.boxes)]

(* Allocated lists: a box that is not loaded yet has only what is in the   *)
(* mailbox; when the lists are freed, one that raced may be left, and one  *)
(* that came late.                                                         *)
Allocation ==
    /\ phase = "init" => \A c \in Conns : conns[c] = NULL
    /\ phase \in {"init", "starting"} => \A b \in Boxes : cur[b] = NULL
    /\ start.held # NULL /\ new[Head(start.boxes)] # NULL => "raced" \in odd
    /\ phase = "init" => \A b \in Boxes : new[b] = NULL
    /\ \A b \in Pending : live[b] = Held(new[b])
    /\ phase \notin {"freed", "stopped"} =>
          \A b \in Boxes : live[b] - Held(cur[b]) - Held(new[b]) \in
                              IF odd \cap {"raced", "late"} # {} THEN {0, 1} ELSE {0}
    /\ phase \in {"freed", "stopped"} =>
          \A b \in Boxes : live[b] \in IF odd \cap {"raced", "late"} = {} THEN {0}
                                       ELSE IF new[b] = NULL THEN {0, 1} ELSE {0, 1, 2}

(* What the user chose: a list in the mailbox, or that is being built, or  *)
(* else that is in force.                                                  *)
Chosen ==
    phase \in {"init", "starting", "running"} /\ odd \cap {"refused", "raced"} = {} =>
        /\ \A b \in {x \in Boxes : Reloads(x) /\ Descriptor(x) # NULL} :
              IF new[b] # NULL THEN new[b] = Descriptor(b)
              ELSE b \in Pending \/ cur[b] = Descriptor(b)
        /\ start.held # NULL => start.held = Descriptor(Head(start.boxes)) /\ new[Head(start.boxes)] = NULL

FirewallInv == StateTyped(Now) /\ Decided(Now) /\ ControlTyped /\ Allocation /\ Chosen

-----------------------------------------------------------------------------
(* The verdict on a connection.                                            *)

\* The fields of a connection.
LEMMA ConnectionFields ==
    ASSUME NEW k \in Connection
    PROVE  /\ k.uid \in {Uid[c] : c \in Conns} /\ k.info \in Infos
           /\ k.info_from_lru \in BOOLEAN /\ k.fresh \in BOOLEAN /\ k.whitelisted_app \in BOOLEAN
           /\ k.blacklisted_internal \in BOOLEAN /\ k.blacklisted_ip \in BOOLEAN
           /\ k.blacklisted_domain \in BOOLEAN /\ k.to_block \in BOOLEAN /\ k.netd_block_missed \in BOOLEAN
  BY DEF Connection

\* A match is a truth value.
LEMMA MatchBool == \A l, r : Match(l, r) \in BOOLEAN
  BY DEF Match

\* What a verdict depends on: the app, the host, the switches and two lists.
Same(s, t) ==
    /\ t.fw.enabled = s.fw.enabled /\ t.fw.wl_enabled = s.fw.wl_enabled
    /\ t.cur["block"] = s.cur["block"] /\ t.cur["white"] = s.cur["white"]

\* The same switches and lists decide alike for the same app and host.
LEMMA BlocksSame ==
    ASSUME NEW s, NEW t, Same(s, t), NEW c, NEW k, NEW m, m.uid = k.uid, m.info = k.info
    PROVE  /\ FirewallBlocks(t, c, m) <=> FirewallBlocks(s, c, k)
           /\ WhitelistBlocks(t, c, m) <=> WhitelistBlocks(s, c, k)
  BY DEF Same, FirewallBlocks, WhitelistBlocks

\* check_whitelist_mode_block and check_blacklisted_domain change the flags only.
LEMMA WhitelistFields ==
    ASSUME NEW s, NEW c, NEW k \in Connection
    PROVE  LET m == check_whitelist_mode_block(s, c, k)
           IN  /\ m \in Connection /\ m.uid = k.uid /\ m.info = k.info
               /\ m.blacklisted_internal = k.blacklisted_internal /\ m.blacklisted_ip = k.blacklisted_ip
               /\ m.blacklisted_domain = k.blacklisted_domain
               /\ m.to_block <=> k.to_block \/ WhitelistBlocks(s, c, k)
  <1> DEFINE w == WhitelistBlocks(s, c, k)
             m == [k EXCEPT !.to_block = k.to_block \/ w]
  <1>1. m = check_whitelist_mode_block(s, c, k)
    BY DEF check_whitelist_mode_block
  <1>2. (k.to_block \/ w) \in BOOLEAN
    OBVIOUS
  <1>3. m \in Connection
    BY <1>2 DEF Connection
  <1>4. /\ m.uid = k.uid /\ m.info = k.info /\ m.to_block = (k.to_block \/ w)
        /\ m.blacklisted_internal = k.blacklisted_internal /\ m.blacklisted_ip = k.blacklisted_ip
        /\ m.blacklisted_domain = k.blacklisted_domain
    BY DEF Connection
  <1> QED BY <1>1, <1>3, <1>4

\* check_blacklisted_domain blocks what it finds blacklisted, and changes nothing else.
LEMMA DomainFields ==
    ASSUME NEW s, NEW k \in Connection
    PROVE  LET m == check_blacklisted_domain(s, k)
           IN  /\ m \in Connection /\ m.uid = k.uid /\ m.info = k.info
               /\ m.blacklisted_internal = k.blacklisted_internal /\ m.blacklisted_ip = k.blacklisted_ip
               /\ k.blacklisted_domain => m.blacklisted_domain
               /\ m.to_block <=> \/ k.to_block \/ (m.blacklisted_domain /\ ~k.blacklisted_domain)
                                 \/ (s.fw.enabled /\ Match(s.cur["block"], k.info))
  <1> DEFINE bad == /\ ~k.blacklisted_domain /\ ~k.whitelisted_app
                    /\ Match(s.malware, k.info) /\ ~Match(s.cur["mwl"], k.info)
             d == k.blacklisted_domain \/ bad
             b == k.to_block \/ bad \/ (s.fw.enabled /\ Match(s.cur["block"], k.info))
             m == [k EXCEPT !.blacklisted_domain = d, !.to_block = b]
  <1>1. m = check_blacklisted_domain(s, k)
    BY DEF check_blacklisted_domain
  <1>2. d \in BOOLEAN /\ b \in BOOLEAN
    OBVIOUS
  <1>3. bad <=> d /\ ~k.blacklisted_domain
    OBVIOUS
  <1>4. b <=> k.to_block \/ (d /\ ~k.blacklisted_domain) \/ (s.fw.enabled /\ Match(s.cur["block"], k.info))
    BY <1>3
  <1>5. k.blacklisted_domain => d
    OBVIOUS
  <1> HIDE DEF b, d
  <1>6. m \in Connection
    BY <1>2 DEF Connection
  <1>7. /\ m.uid = k.uid /\ m.info = k.info /\ m.to_block = b
        /\ m.blacklisted_internal = k.blacklisted_internal /\ m.blacklisted_ip = k.blacklisted_ip
        /\ m.blacklisted_domain = d
    BY DEF Connection
  <1> QED BY <1>1, <1>4, <1>5, <1>6, <1>7

\* check_blocked_conn_cb: the block is what the rules say.
LEMMA BlockedFields ==
    ASSUME NEW s, NEW c, s.conns[c] \in Connection
    PROVE  LET m == check_blocked_conn_cb(s, c)
           IN  /\ m \in Connection /\ m.uid = s.conns[c].uid /\ m.info = s.conns[c].info
               /\ Blacklisted(m) <=> Blacklisted(s.conns[c])
               /\ m.to_block <=> \/ Blacklisted(s.conns[c]) \/ FirewallBlocks(s, c, s.conns[c])
                                 \/ WhitelistBlocks(s, c, s.conns[c])
  <1> DEFINE k == s.conns[c]
             b == Blacklisted(k) \/ FirewallBlocks(s, c, k)
             j == [k EXCEPT !.to_block = b]
             m == check_whitelist_mode_block(s, c, j)
  <1>1. m = check_blocked_conn_cb(s, c)
    BY DEF check_blocked_conn_cb
  <1>2. b \in BOOLEAN
    OBVIOUS
  <1> HIDE DEF b
  <1>3. /\ j \in Connection /\ j.uid = k.uid /\ j.info = k.info /\ j.to_block = b
        /\ j.blacklisted_internal = k.blacklisted_internal /\ j.blacklisted_ip = k.blacklisted_ip
        /\ j.blacklisted_domain = k.blacklisted_domain
    BY <1>2 DEF Connection
  <1> HIDE DEF j
  <1>4. /\ m \in Connection /\ m.uid = j.uid /\ m.info = j.info
        /\ m.blacklisted_internal = j.blacklisted_internal /\ m.blacklisted_ip = j.blacklisted_ip
        /\ m.blacklisted_domain = j.blacklisted_domain
        /\ m.to_block <=> j.to_block \/ WhitelistBlocks(s, c, j)
    BY <1>3, WhitelistFields
  <1>5. WhitelistBlocks(s, c, j) <=> WhitelistBlocks(s, c, k)
    BY <1>3, BlocksSame DEF Same
  <1>6. Blacklisted(m) <=> Blacklisted(k)
    BY <1>3, <1>4 DEF Blacklisted
  <1> HIDE DEF m
  <1> QED BY <1>1, <1>3, <1>4, <1>5, <1>6 DEF b

-----------------------------------------------------------------------------
(* The states that the capture thread goes through in one step.            *)
Sound(s) == StateTyped(s) /\ Decided(s)

\* The switches, the lists and the mailboxes are the same.
Boxed(s, t) ==
    /\ t.fw = s.fw /\ t.cur = s.cur /\ t.new = s.new /\ t.live = s.live /\ t.odd = s.odd

\* The variables are the fields of the state of the capture thread.
LEMMA NowFields ==
    /\ Now.fw = fw /\ Now.cur = cur /\ Now.new = new /\ Now.live = live /\ Now.malware = malware
    /\ Now.conns = conns /\ Now.drift = drift /\ Now.odd = odd
  BY DEF Now

\* The next state is the one that a function of the capture thread returns.
LEMMA NextFields == ASSUME NEW s \in State, Become(s) PROVE Now' = s
  BY DEF State, Now, Become

\* The active connections are those that have a record.
LEMMA ActiveIs ==
    ASSUME NEW s, s.conns \in [Conns -> Connection \cup {NULL}]
    PROVE  \A c \in Conns : c \in Active(s) <=> s.conns[c] \in Connection
  BY FirewallAssumption DEF Active

\* Lists and switches that a verdict does not depend on may change.
LEMMA DecidedSame ==
    ASSUME NEW s, NEW t, Decided(s), Same(s, t), t.conns = s.conns, s.drift \subseteq t.drift
    PROVE  Decided(t)
  <1>1. Active(t) = Active(s)
    BY DEF Active
  <1>2. SUFFICES ASSUME NEW c \in Active(s) \ s.drift PROVE t.conns[c].to_block <=> VerdictIn(t, c)
    BY <1>1 DEF Decided
  <1>3. s.conns[c].to_block <=> VerdictIn(s, c)
    BY DEF Decided
  <1>4. VerdictIn(s, c) <=> VerdictIn(t, c)
    BY BlocksSame DEF VerdictIn
  <1> QED BY <1>3, <1>4

\* Each connection is replaced by one with a verdict, or is left as it is.
LEMMA ConnsReplaced ==
    ASSUME NEW s, NEW t, Sound(s) \/ (StateTyped(s) /\ t.drift = {}), t \in State, Boxed(s, t),
           t.drift \subseteq s.drift \cup Active(t),
           \A c \in Conns : t.conns[c] = NULL <=> s.conns[c] = NULL,
           \A c \in Active(s) \ t.drift :
               \/ t.conns[c].to_block <=> VerdictIn(t, c)
               \/ /\ c \notin s.drift /\ Sound(s)
                  /\ t.conns[c].uid = s.conns[c].uid /\ t.conns[c].info = s.conns[c].info
                  /\ t.conns[c].to_block = s.conns[c].to_block
                  /\ Blacklisted(t.conns[c]) <=> Blacklisted(s.conns[c])
    PROVE  Sound(t)
  <1>0. StateTyped(s)
    BY DEF Sound
  <1>1. Active(t) = Active(s)
    BY DEF Active
  <1>2. StateTyped(t)
    BY <1>0, <1>1 DEF StateTyped, Boxed
  <1>3. ASSUME NEW c \in Active(t) \ t.drift PROVE t.conns[c].to_block <=> VerdictIn(t, c)
    <2>1. CASE /\ c \notin s.drift /\ Sound(s)
               /\ t.conns[c].uid = s.conns[c].uid /\ t.conns[c].info = s.conns[c].info
               /\ t.conns[c].to_block = s.conns[c].to_block
               /\ Blacklisted(t.conns[c]) <=> Blacklisted(s.conns[c])
      <3>1. s.conns[c].to_block <=> VerdictIn(s, c)
        BY <1>1, <2>1 DEF Sound, Decided
      <3>2. Same(s, t)
        BY DEF Same, Boxed
      <3>3. VerdictIn(s, c) <=> VerdictIn(t, c)
        BY <2>1, <3>2, BlocksSame DEF VerdictIn
      <3> QED BY <2>1, <3>1, <3>3
    <2> QED BY <1>1, <2>1
  <1> QED BY <1>2, <1>3 DEF Sound, Decided

\* iter_active_connections(check_blocked_conn_cb): every verdict is that of the lists.
LEMMA RecheckSound ==
    ASSUME NEW s, StateTyped(s)
    PROVE  Sound(RecheckBlocked(s)) /\ Boxed(s, RecheckBlocked(s))
  <1> DEFINE f == [c \in Conns |-> IF s.conns[c] = NULL THEN NULL ELSE check_blocked_conn_cb(s, c)]
             t == [s EXCEPT !.conns = f, !.drift = {}]
  <1>1. t = RecheckBlocked(s)
    BY DEF RecheckBlocked
  <1>2. \A c \in Conns : s.conns[c] # NULL => s.conns[c] \in Connection
    BY DEF StateTyped, State
  <1>3. \A c \in Conns : s.conns[c] # NULL =>
            /\ f[c] \in Connection /\ f[c].uid = s.conns[c].uid /\ f[c].info = s.conns[c].info
            /\ Blacklisted(f[c]) <=> Blacklisted(s.conns[c])
            /\ f[c].to_block <=> VerdictIn(s, c)
    <2> SUFFICES ASSUME NEW c \in Conns, s.conns[c] # NULL
                 PROVE  /\ f[c] \in Connection /\ f[c].uid = s.conns[c].uid /\ f[c].info = s.conns[c].info
                        /\ Blacklisted(f[c]) <=> Blacklisted(s.conns[c])
                        /\ f[c].to_block <=> VerdictIn(s, c)
      OBVIOUS
    <2>1. f[c] = check_blocked_conn_cb(s, c)
      OBVIOUS
    <2> HIDE DEF f
    <2> QED BY <1>2, <2>1, BlockedFields DEF VerdictIn
  <1>4. f \in [Conns -> Connection \cup {NULL}]
    BY <1>3
  <1>5. \A c \in Conns : f[c] = NULL <=> s.conns[c] = NULL
    <2>1. \A c \in Conns : s.conns[c] = NULL => f[c] = NULL
      OBVIOUS
    <2> HIDE DEF f
    <2> QED BY <1>3, <2>1, FirewallAssumption
  <1> HIDE DEF f
  <1>6. t \in State /\ t.conns = f /\ t.drift = {} /\ Boxed(s, t)
    BY <1>4 DEF StateTyped, State, Boxed
  <1> HIDE DEF t
  <1>7. \A c \in Active(s) : t.conns[c].to_block <=> VerdictIn(t, c)
    <2> SUFFICES ASSUME NEW c \in Active(s) PROVE t.conns[c].to_block <=> VerdictIn(t, c)
      OBVIOUS
    <2>1. c \in Conns /\ s.conns[c] # NULL
      BY DEF Active
    <2>2. Same(s, t)
      BY <1>6 DEF Same, Boxed
    <2>3. VerdictIn(s, c) <=> VerdictIn(t, c)
      BY <1>3, <1>6, <2>1, <2>2, BlocksSame DEF VerdictIn
    <2> QED BY <1>3, <1>6, <2>1, <2>3
  <1>8. Sound(t)
    <2>1. t.drift \subseteq s.drift \cup Active(t)
      BY <1>6
    <2> QED BY <1>5, <1>6, <1>7, <2>1, ConnsReplaced
  <1> QED BY <1>1, <1>6, <1>8

\* check_blacklisted_conn_cb clears flags of the malware detection.
LEMMA WhitelistedFields ==
    ASSUME NEW s, NEW c, s.conns[c] \in Connection
    PROVE  LET m == Whitelisted(s, c)
           IN  /\ m \in Connection /\ m.uid = s.conns[c].uid /\ m.info = s.conns[c].info
               /\ m.blacklisted_internal = s.conns[c].blacklisted_internal
               /\ m.to_block = s.conns[c].to_block
  <1> DEFINE k   == s.conns[c]
             app == Match(s.cur["mwl"], k.uid)
             ip  == k.blacklisted_ip /\ ~app /\ ~Match(s.cur["mwl"], Ip[c])
             d   == k.blacklisted_domain /\ ~app /\ ~Match(s.cur["mwl"], k.info)
             m   == [k EXCEPT !.whitelisted_app = app, !.blacklisted_ip = ip, !.blacklisted_domain = d]
  <1>1. m = Whitelisted(s, c)
    BY DEF Whitelisted
  <1>2. app \in BOOLEAN /\ ip \in BOOLEAN /\ d \in BOOLEAN
    BY MatchBool
  <1> HIDE DEF app, ip, d
  <1>3. /\ m \in Connection /\ m.uid = k.uid /\ m.info = k.info
        /\ m.blacklisted_internal = k.blacklisted_internal /\ m.to_block = k.to_block
    BY <1>2 DEF Connection
  <1> QED BY <1>1, <1>3

\* The malware whitelist is applied to the active connections.
LEMMA MalwareSound ==
    ASSUME NEW s, Sound(s)
    PROVE  Sound(check_blacklisted_conn_cb(s)) /\ Boxed(s, check_blacklisted_conn_cb(s))
  <1> DEFINE w == [c \in Conns |-> IF s.conns[c] = NULL THEN NULL ELSE Whitelisted(s, c)]
             t == [s EXCEPT !.conns = w]
             changed == {c \in Active(s) : \/ s.conns[c].blacklisted_ip # t.conns[c].blacklisted_ip
                                           \/ s.conns[c].blacklisted_domain # t.conns[c].blacklisted_domain}
             f == [c \in Conns |-> IF c \in changed THEN check_blocked_conn_cb(t, c) ELSE w[c]]
             r == check_blacklisted_conn_cb(s)
  <1>0. StateTyped(s) /\ s \in State
    BY DEF Sound, StateTyped
  <1>1. \A c \in Conns : s.conns[c] # NULL => s.conns[c] \in Connection
    BY <1>0 DEF State
  <1>2. \A c \in Conns : s.conns[c] # NULL =>
            /\ w[c] \in Connection /\ w[c].uid = s.conns[c].uid /\ w[c].info = s.conns[c].info
            /\ w[c].blacklisted_internal = s.conns[c].blacklisted_internal
            /\ w[c].to_block = s.conns[c].to_block
    <2> SUFFICES ASSUME NEW c \in Conns, s.conns[c] # NULL
                 PROVE  /\ w[c] \in Connection /\ w[c].uid = s.conns[c].uid /\ w[c].info = s.conns[c].info
                        /\ w[c].blacklisted_internal = s.conns[c].blacklisted_internal
                        /\ w[c].to_block = s.conns[c].to_block
      OBVIOUS
    <2>1. w[c] = Whitelisted(s, c)
      OBVIOUS
    <2> HIDE DEF w
    <2> QED BY <1>1, <2>1, WhitelistedFields
  <1>3. \A c \in Conns : s.conns[c] = NULL => w[c] = NULL
    OBVIOUS
  <1>4. w \in [Conns -> Connection \cup {NULL}]
    BY <1>2
  <1> HIDE DEF w
  <1>5. t \in State /\ t.conns = w /\ t.drift = s.drift /\ Boxed(s, t)
    BY <1>0, <1>4 DEF State, Boxed
  <1>6. changed \subseteq Active(s) /\ Active(s) \subseteq Conns
    BY DEF Active
  <1>7. \A c \in Active(s) \ changed : Blacklisted(w[c]) <=> Blacklisted(s.conns[c])
    BY <1>2, <1>5 DEF Active, Blacklisted
  <1>8. \A c \in Conns : w[c] = NULL <=> s.conns[c] = NULL
    BY <1>2, <1>3, FirewallAssumption
  <1>9. r = IF s.cur["block"] = NULL THEN [t EXCEPT !.drift = s.drift \cup changed]
            ELSE [t EXCEPT !.conns = f, !.drift = s.drift \ changed]
    <2>1. t.drift = s.drift
      BY <1>5
    <2> QED BY <1>5, <2>1 DEF check_blacklisted_conn_cb, w
  <1> HIDE DEF changed, r, t
  <1>10. CASE s.cur["block"] = NULL
    <2> DEFINE d == s.drift \cup changed
    <2>1. d \subseteq Conns
      BY <1>0, <1>6 DEF State
    <2>2. r = [t EXCEPT !.drift = d]
      BY <1>9, <1>10
    <2> HIDE DEF d
    <2>3. r \in State /\ r.conns = w /\ r.drift = d /\ Boxed(s, r)
      BY <1>5, <2>1, <2>2 DEF State, Boxed
    <2>4. r.drift \subseteq s.drift \cup Active(r)
      <3>1. Active(r) = Active(s)
        BY <1>8, <2>3 DEF Active
      <3> QED BY <1>6, <2>3, <3>1 DEF d
    <2>5. \A c \in Active(s) \ r.drift :
              /\ c \notin s.drift /\ Sound(s)
              /\ r.conns[c].uid = s.conns[c].uid /\ r.conns[c].info = s.conns[c].info
              /\ r.conns[c].to_block = s.conns[c].to_block
              /\ Blacklisted(r.conns[c]) <=> Blacklisted(s.conns[c])
      BY <1>2, <1>7, <2>3 DEF d, Active
    <2>6. Sound(r)
      BY <1>0, <1>8, <2>3, <2>4, <2>5, ConnsReplaced
    <2> QED BY <2>3, <2>6 DEF r
  <1>11. CASE s.cur["block"] # NULL
    <2> DEFINE d == s.drift \ changed
    <2>0. \A c \in changed : c \in Conns /\ t.conns[c] \in Connection
      BY <1>2, <1>5, <1>6 DEF Active
    <2>1. \A c \in changed : /\ f[c] \in Connection /\ f[c].uid = t.conns[c].uid
                             /\ f[c].info = t.conns[c].info
                             /\ Blacklisted(f[c]) <=> Blacklisted(t.conns[c])
                             /\ f[c].to_block <=> VerdictIn(t, c)
      <3> SUFFICES ASSUME NEW c \in changed
                   PROVE  /\ f[c] \in Connection /\ f[c].uid = t.conns[c].uid
                          /\ f[c].info = t.conns[c].info
                          /\ Blacklisted(f[c]) <=> Blacklisted(t.conns[c])
                          /\ f[c].to_block <=> VerdictIn(t, c)
        OBVIOUS
      <3>1. f[c] = check_blocked_conn_cb(t, c)
        BY <2>0
      <3> HIDE DEF f
      <3> QED BY <2>0, <3>1, BlockedFields DEF VerdictIn
    <2>2. f \in [Conns -> Connection \cup {NULL}] /\ \A c \in Conns \ changed : f[c] = w[c]
      BY <1>4, <2>1
    <2>3. \A c \in Conns : f[c] = NULL <=> s.conns[c] = NULL
      BY <1>6, <1>8, <2>1, <2>2, FirewallAssumption DEF Active
    <2>4. r = [t EXCEPT !.conns = f, !.drift = d] /\ d \subseteq Conns
      BY <1>0, <1>9, <1>11 DEF State
    <2> HIDE DEF f, d
    <2>5. r \in State /\ r.conns = f /\ r.drift = d /\ Boxed(s, r)
      BY <1>5, <2>2, <2>4 DEF State, Boxed
    <2>6. \A c \in changed : r.conns[c].to_block <=> VerdictIn(r, c)
      <3> SUFFICES ASSUME NEW c \in changed PROVE r.conns[c].to_block <=> VerdictIn(r, c)
        OBVIOUS
      <3>1. Same(t, r)
        BY <1>5, <2>5 DEF Same, Boxed
      <3>2. VerdictIn(t, c) <=> VerdictIn(r, c)
        BY <2>1, <2>5, <3>1, BlocksSame DEF VerdictIn
      <3> QED BY <2>1, <2>5, <3>2
    <2>7. \A c \in (Active(s) \ r.drift) \ changed :
              /\ c \notin s.drift /\ Sound(s)
              /\ r.conns[c].uid = s.conns[c].uid /\ r.conns[c].info = s.conns[c].info
              /\ r.conns[c].to_block = s.conns[c].to_block
              /\ Blacklisted(r.conns[c]) <=> Blacklisted(s.conns[c])
      BY <1>2, <1>7, <2>2, <2>5 DEF d, Active
    <2>8. r.drift \subseteq s.drift \cup Active(r)
      BY <2>5 DEF d
    <2>9. Sound(r)
      BY <1>0, <2>3, <2>5, <2>6, <2>7, <2>8, ConnsReplaced
    <2> QED BY <2>5, <2>9 DEF r
  <1> QED BY <1>10, <1>11

\* Sending the new connections to Java changes no verdict.
LEMMA DumpedSound ==
    ASSUME NEW s, Sound(s)
    PROVE  Sound(Dumped(s)) /\ Boxed(s, Dumped(s))
  <1> DEFINE f == [c \in Conns |-> IF s.conns[c] = NULL THEN NULL ELSE [s.conns[c] EXCEPT !.fresh = FALSE]]
             t == [s EXCEPT !.conns = f]
  <1>0. StateTyped(s) /\ s \in State
    BY DEF Sound, StateTyped
  <1>1. t = Dumped(s)
    BY DEF Dumped
  <1>2. \A c \in Conns : s.conns[c] # NULL => s.conns[c] \in Connection
    BY <1>0 DEF State
  <1>3. \A k \in Connection : LET m == [k EXCEPT !.fresh = FALSE]
                              IN  /\ m \in Connection /\ m.uid = k.uid /\ m.info = k.info
                                  /\ m.to_block = k.to_block /\ (Blacklisted(m) <=> Blacklisted(k))
    BY DEF Connection, Blacklisted
  <1>4. \A c \in Conns : s.conns[c] # NULL =>
            /\ f[c] \in Connection /\ f[c].uid = s.conns[c].uid /\ f[c].info = s.conns[c].info
            /\ f[c].to_block = s.conns[c].to_block /\ (Blacklisted(f[c]) <=> Blacklisted(s.conns[c]))
    <2> SUFFICES ASSUME NEW c \in Conns, s.conns[c] # NULL
                 PROVE  /\ f[c] \in Connection /\ f[c].uid = s.conns[c].uid /\ f[c].info = s.conns[c].info
                        /\ f[c].to_block = s.conns[c].to_block /\ (Blacklisted(f[c]) <=> Blacklisted(s.conns[c]))
      OBVIOUS
    <2>1. f[c] = [s.conns[c] EXCEPT !.fresh = FALSE]
      OBVIOUS
    <2> HIDE DEF f
    <2> QED BY <1>2, <1>3, <2>1
  <1>5. f \in [Conns -> Connection \cup {NULL}]
    BY <1>4
  <1>6. \A c \in Conns : s.conns[c] = NULL => f[c] = NULL
    OBVIOUS
  <1> HIDE DEF f
  <1>7. \A c \in Conns : f[c] = NULL <=> s.conns[c] = NULL
    BY <1>4, <1>6, FirewallAssumption
  <1>8. t \in State /\ t.conns = f /\ t.drift = s.drift /\ Boxed(s, t)
    BY <1>0, <1>5 DEF State, Boxed
  <1> HIDE DEF t
  <1>9. \A c \in Active(s) \ t.drift :
            /\ c \notin s.drift /\ Sound(s)
            /\ t.conns[c].uid = s.conns[c].uid /\ t.conns[c].info = s.conns[c].info
            /\ t.conns[c].to_block = s.conns[c].to_block
            /\ Blacklisted(t.conns[c]) <=> Blacklisted(s.conns[c])
    <2> SUFFICES ASSUME NEW c \in Active(s), c \notin t.drift
                 PROVE  /\ c \notin s.drift /\ Sound(s)
                        /\ t.conns[c].uid = s.conns[c].uid /\ t.conns[c].info = s.conns[c].info
                        /\ t.conns[c].to_block = s.conns[c].to_block
                        /\ Blacklisted(t.conns[c]) <=> Blacklisted(s.conns[c])
      OBVIOUS
    <2>1. c \in Conns /\ s.conns[c] # NULL
      BY DEF Active
    <2>2. t.conns[c] = f[c] /\ t.drift = s.drift
      BY <1>8
    <2>3. /\ f[c].uid = s.conns[c].uid /\ f[c].info = s.conns[c].info
          /\ f[c].to_block = s.conns[c].to_block /\ (Blacklisted(f[c]) <=> Blacklisted(s.conns[c]))
      BY <1>4, <2>1
    <2>4. t.conns[c].to_block = s.conns[c].to_block
      BY <2>2, <2>3
    <2>5. t.conns[c].uid = s.conns[c].uid /\ t.conns[c].info = s.conns[c].info
      BY <2>2, <2>3
    <2>6. Blacklisted(t.conns[c]) <=> Blacklisted(s.conns[c])
      BY <2>2, <2>3
    <2> QED BY <2>2, <2>4, <2>5, <2>6
  <1>10. t.drift \subseteq s.drift \cup Active(t)
    BY <1>8
  <1>11. Sound(t)
    BY <1>7, <1>8, <1>9, <1>10, ConnsReplaced
  <1> QED BY <1>1, <1>8, <1>11

-----------------------------------------------------------------------------
(* The lists on their way from the mailboxes.                              *)

\* A box is as it was, or its new list is in force and the old one destroyed.
BoxLoaded(s, t, b) ==
    \/ t.cur[b] = s.cur[b] /\ t.new[b] = s.new[b] /\ t.live[b] = s.live[b]
    \/ /\ s.new[b] # NULL /\ t.new[b] = NULL /\ t.cur[b] = s.new[b]
       /\ t.live[b] = s.live[b] - Held(s.cur[b])

Loaded(s, t) == t.fw = s.fw /\ t.odd = s.odd /\ \A b \in Boxes : BoxLoaded(s, t, b)

\* Loading one more list keeps what loading the others has established.
LEMMA LoadedBoxed ==
    ASSUME NEW s, NEW t, NEW r, Loaded(s, t), Boxed(t, r)
    PROVE  Loaded(s, r)
  BY DEF Loaded, Boxed, BoxLoaded

\* Taking the list of one mailbox leaves the others, the switches and the connections alone.
LEMMA LoadFields ==
    ASSUME NEW o, NEW s, StateTyped(s), Loaded(o, s), NEW b \in Boxes,
           s.cur[b] = o.cur[b], s.live[b] = o.live[b], s.new[b] = o.new[b]
    PROVE  LET t == Load(s, b)
           IN  /\ StateTyped(t) /\ t.fw = s.fw /\ t.conns = s.conns /\ t.drift = s.drift
               /\ \A x \in Boxes \ {b} : t.cur[x] = s.cur[x] /\ t.new[x] = s.new[x] /\ t.live[x] = s.live[x]
               /\ Loaded(o, t)
  <1>1. CASE s.new[b] = NULL
    BY <1>1 DEF Load
  <1>2. CASE s.new[b] # NULL
    <2> DEFINE n == IF s.cur[b] = NULL THEN 0 ELSE 1
               live1 == [s.live EXCEPT ![b] = s.live[b] - n]
               cur1 == [s.cur EXCEPT ![b] = s.new[b]]
               new1 == [s.new EXCEPT ![b] = NULL]
               t == Load(s, b)
    <2>0. s \in State /\ n \in Int /\ n = Held(s.cur[b])
      BY DEF StateTyped, Held
    <2>1. t = [s EXCEPT !.live = live1, !.cur = cur1, !.new = new1]
      BY <1>2, <2>0 DEF Load, State
    <2> HIDE DEF n
    <2>2. /\ live1 \in [Boxes -> Int] /\ live1[b] = s.live[b] - n
          /\ \A x \in Boxes \ {b} : live1[x] = s.live[x]
      BY <2>0 DEF State
    <2>3. /\ cur1 \in [Boxes -> AnyList] /\ cur1[b] = s.new[b]
          /\ \A x \in Boxes \ {b} : cur1[x] = s.cur[x]
      BY <2>0 DEF State
    <2>4. /\ new1 \in [Boxes -> AnyList] /\ new1[b] = NULL
          /\ \A x \in Boxes \ {b} : new1[x] = s.new[x]
      <3>1. NULL \in AnyList
        BY DEF AnyList
      <3>2. s.new \in [Boxes -> AnyList]
        BY <2>0 DEF State
      <3> QED BY <3>1, <3>2
    <2> HIDE DEF live1, cur1, new1, t
    <2>5. /\ t \in State /\ t.live = live1 /\ t.cur = cur1 /\ t.new = new1
          /\ t.fw = s.fw /\ t.conns = s.conns /\ t.drift = s.drift /\ t.odd = s.odd
      BY <2>0, <2>1, <2>2, <2>3, <2>4 DEF State
    <2>6. StateTyped(t)
      BY <2>3, <2>4, <2>5 DEF StateTyped, Active
    <2>7. BoxLoaded(o, t, b)
      BY <1>2, <2>0, <2>2, <2>3, <2>4, <2>5 DEF BoxLoaded
    <2>8. \A x \in Boxes \ {b} : BoxLoaded(o, t, x)
      BY <2>2, <2>3, <2>4, <2>5 DEF BoxLoaded, Loaded
    <2>9. Loaded(o, t)
      BY <2>5, <2>7, <2>8 DEF Loaded
    <2> QED BY <2>2, <2>3, <2>4, <2>5, <2>6, <2>9 DEF t
  <1> QED BY <1>1, <1>2

\* pd_housekeeping: the lists that it loads decide, whichever branch it takes first.
LEMMA HousekeepingSound ==
    ASSUME Sound(Now), NEW branch \in Branches, pd_housekeeping(branch)
    PROVE  Sound(Now)' /\ Loaded(Now, Now')
  <1> DEFINE s1 == IF branch = "conns_dump" THEN Dumped(Now) ELSE Now
             s2 == IF new["mwl"] = NULL THEN s1 ELSE check_blacklisted_conn_cb(Load(s1, "mwl"))
             s3 == CASE new["block"] # NULL -> RecheckBlocked(Load(s2, "block"))
                     [] new["block"] = NULL /\ new["white"] # NULL -> RecheckBlocked(Load(s2, "white"))
                     [] OTHER -> s2
             s4 == Load(s3, "dec")
  <1>1. \/ Become(s4)
        \/ \E m \in Blacklists : Become([s4 EXCEPT !.malware = m])
    BY DEF pd_housekeeping
  <1>2. Sound(s1) /\ Boxed(Now, s1)
    BY DumpedSound DEF Boxed
  <1>3. Loaded(Now, s1)
    BY <1>2 DEF Loaded, Boxed, BoxLoaded
  <1> HIDE DEF s1
  <1>4. /\ Sound(s2) /\ Loaded(Now, s2)
        /\ \A x \in Boxes \ {"mwl"} : s2.cur[x] = Now.cur[x] /\ s2.new[x] = Now.new[x] /\ s2.live[x] = Now.live[x]
    <2> DEFINE t == Load(s1, "mwl")
    <2>1. /\ StateTyped(t) /\ t.fw = s1.fw /\ t.conns = s1.conns /\ t.drift = s1.drift
          /\ \A x \in Boxes \ {"mwl"} : t.cur[x] = s1.cur[x] /\ t.new[x] = s1.new[x] /\ t.live[x] = s1.live[x]
          /\ Loaded(Now, t)
      <3>1. "mwl" \in Boxes /\ StateTyped(s1)
        BY <1>2 DEF Boxes, Sound
      <3>2. s1.cur["mwl"] = Now.cur["mwl"] /\ s1.live["mwl"] = Now.live["mwl"] /\ s1.new["mwl"] = Now.new["mwl"]
        BY <1>2 DEF Boxed
      <3> QED BY <1>3, <3>1, <3>2, LoadFields
    <2> HIDE DEF t
    <2>2. Same(s1, t)
      BY <2>1 DEF Same, Boxes
    <2>3. Sound(t)
      BY <1>2, <2>1, <2>2, DecidedSame DEF Sound
    <2>4. Sound(check_blacklisted_conn_cb(t)) /\ Boxed(t, check_blacklisted_conn_cb(t))
      BY <2>3, MalwareSound
    <2>5. s2 \in {s1, check_blacklisted_conn_cb(t)}
      BY DEF t
    <2>6. CASE s2 = s1
      BY <1>2, <1>3, <2>6 DEF Boxed
    <2>7. CASE s2 = check_blacklisted_conn_cb(t)
      <3>1. Sound(s2) /\ Boxed(t, s2)
        BY <2>4, <2>7
      <3>2. Loaded(Now, s2)
        BY <2>1, <3>1, LoadedBoxed
      <3> QED BY <1>2, <2>1, <3>1, <3>2 DEF Boxed
    <2> QED BY <2>5, <2>6, <2>7
  <1> HIDE DEF s2
  <1>5. ASSUME NEW b \in {"block", "white"}
        PROVE  /\ Sound(RecheckBlocked(Load(s2, b))) /\ Loaded(Now, RecheckBlocked(Load(s2, b)))
               /\ LET t == RecheckBlocked(Load(s2, b))
                  IN  t.cur["dec"] = Now.cur["dec"] /\ t.new["dec"] = Now.new["dec"] /\ t.live["dec"] = Now.live["dec"]
    <2> DEFINE t == Load(s2, b)
               r == RecheckBlocked(t)
    <2>1. b \in Boxes \ {"mwl"} /\ "dec" \in Boxes \ {"mwl"} /\ "dec" \in Boxes \ {b} /\ StateTyped(s2)
      BY <1>4 DEF Boxes, Sound
    <2>2. /\ StateTyped(t) /\ Loaded(Now, t)
          /\ \A x \in Boxes \ {b} : t.cur[x] = s2.cur[x] /\ t.new[x] = s2.new[x] /\ t.live[x] = s2.live[x]
      BY <1>4, <2>1, LoadFields
    <2> HIDE DEF t
    <2>3. Sound(r) /\ Boxed(t, r)
      BY <2>2, RecheckSound
    <2> HIDE DEF r
    <2>4. Loaded(Now, r)
      BY <2>2, <2>3, LoadedBoxed
    <2>5. r.cur["dec"] = Now.cur["dec"] /\ r.new["dec"] = Now.new["dec"] /\ r.live["dec"] = Now.live["dec"]
      BY <1>4, <2>1, <2>2, <2>3 DEF Boxed
    <2> QED BY <2>3, <2>4, <2>5 DEF r, t
  <1>6. /\ Sound(s3) /\ Loaded(Now, s3)
        /\ s3.cur["dec"] = Now.cur["dec"] /\ s3.new["dec"] = Now.new["dec"] /\ s3.live["dec"] = Now.live["dec"]
    <2>1. CASE s3 = s2
      BY <1>4, <2>1 DEF Boxes
    <2>2. CASE s3 = RecheckBlocked(Load(s2, "block"))
      BY <1>5, <2>2
    <2>3. CASE s3 = RecheckBlocked(Load(s2, "white"))
      BY <1>5, <2>3
    <2> QED BY <2>1, <2>2, <2>3
  <1> HIDE DEF s3
  <1>7. /\ StateTyped(s4) /\ s4.fw = s3.fw /\ s4.conns = s3.conns /\ s4.drift = s3.drift
        /\ s4.cur["block"] = s3.cur["block"] /\ s4.cur["white"] = s3.cur["white"]
        /\ Loaded(Now, s4)
    <2>1. /\ "dec" \in Boxes /\ "block" \in Boxes \ {"dec"} /\ "white" \in Boxes \ {"dec"} /\ StateTyped(s3)
      BY <1>6 DEF Boxes, Sound
    <2> QED BY <1>6, <2>1, LoadFields
  <1> HIDE DEF s4
  <1>8. Sound(s4) /\ s4 \in State
    <2>1. Same(s3, s4)
      BY <1>7 DEF Same
    <2> QED BY <1>6, <1>7, <2>1, DecidedSame DEF Sound, StateTyped
  <1>9. CASE Become(s4)
    BY <1>7, <1>8, <1>9, NextFields
  <1>10. ASSUME NEW m \in Blacklists, Become([s4 EXCEPT !.malware = m]) PROVE Sound(Now)' /\ Loaded(Now, Now')
    <2> DEFINE t == [s4 EXCEPT !.malware = m]
    <2>1. t \in State /\ t.conns = s4.conns /\ t.drift = s4.drift /\ Boxed(s4, t)
      BY <1>8 DEF State, Boxed
    <2>2. Now' = t
      BY <1>10, <2>1, NextFields
    <2> HIDE DEF t
    <2>3. StateTyped(t)
      BY <1>7, <2>1, ZenonT(20) DEF StateTyped, Active, Boxed
    <2>4. Same(s4, t)
      BY <2>1 DEF Same, Boxed
    <2>5. Sound(t)
      BY <1>8, <2>1, <2>3, <2>4, DecidedSame DEF Sound
    <2>6. Loaded(Now, t)
      BY <1>7, <2>1, LoadedBoxed
    <2> QED BY <2>2, <2>5, <2>6
  <1> QED BY <1>1, <1>9, <1>10

-----------------------------------------------------------------------------
(* The connections.                                                        *)
listVars == <<fw, cur, new, live, malware, odd>>

\* A step that changes connections only.
LEMMA ConnsStep ==
    ASSUME Sound(Now), UNCHANGED listVars, conns' \in [Conns -> Connection \cup {NULL}],
           drift' \subseteq {c \in Conns : conns'[c] # NULL},
           \A c \in Conns : conns'[c] # NULL /\ c \notin drift' =>
               (conns'[c].to_block <=> VerdictIn(Now', c)) \/ (conns'[c] = conns[c] /\ c \notin drift)
    PROVE  Sound(Now)' /\ Boxed(Now, Now')
  <1>1. /\ Now'.fw = fw' /\ Now'.cur = cur' /\ Now'.new = new' /\ Now'.live = live' /\ Now'.malware = malware'
        /\ Now'.conns = conns' /\ Now'.drift = drift' /\ Now'.odd = odd'
    BY DEF Now
  <1>2. Boxed(Now, Now') /\ Same(Now, Now')
    BY <1>1, NowFields DEF Boxed, Same, listVars
  <1>3. Now \in State /\ StateTyped(Now)
    BY DEF Sound, StateTyped
  <1>4. /\ fw \in Switches /\ cur \in [Boxes -> AnyList] /\ new \in [Boxes -> AnyList]
        /\ live \in [Boxes -> Int] /\ malware \in Blacklists \cup {NULL} /\ odd \in SUBSET Events
    BY <1>3, NowFields DEF State
  <1>5. Now' \in State
    BY <1>4 DEF State, Now, listVars
  <1>6. StateTyped(Now')
    BY <1>1, <1>3, <1>5, NowFields DEF StateTyped, Active, listVars
  <1>7. ASSUME NEW c \in Active(Now') \ drift' PROVE conns'[c].to_block <=> VerdictIn(Now', c)
    <2>1. c \in Conns /\ conns'[c] # NULL
      BY <1>1 DEF Active
    <2>2. CASE conns'[c] = conns[c] /\ c \notin drift
      <3>1. c \in Active(Now) \ Now.drift
        BY <2>1, <2>2, NowFields DEF Active
      <3>2. conns[c].to_block <=> VerdictIn(Now, c)
        BY <3>1, NowFields DEF Sound, Decided
      <3>3. VerdictIn(Now, c) <=> VerdictIn(Now', c)
        BY <1>1, <1>2, <2>2, BlocksSame, NowFields DEF VerdictIn
      <3> QED BY <2>2, <3>2, <3>3
    <2> QED BY <2>1, <2>2
  <1> QED BY <1>1, <1>2, <1>6, <1>7 DEF Sound, Decided

\* The connections of the current state.
LEMMA ConnsTyped ==
    ASSUME Sound(Now)
    PROVE  /\ conns \in [Conns -> Connection \cup {NULL}]
           /\ drift \subseteq {c \in Conns : conns[c] # NULL}
  BY NowFields DEF Sound, StateTyped, State, Active

\* A uid that netd tells late changes neither the verdict nor the host.
LEMMA NetdFields ==
    ASSUME NEW s, NEW k \in Connection, NEW u \in {Uid[c] : c \in Conns}
    PROVE  LET m == NetdUid(s, k, u)
           IN  /\ m \in Connection /\ m.uid = u /\ m.info = k.info /\ m.to_block = k.to_block
               /\ m.blacklisted_internal = k.blacklisted_internal /\ m.blacklisted_ip = k.blacklisted_ip
               /\ m.blacklisted_domain = k.blacklisted_domain
  <1> DEFINE b == k.netd_block_missed \/ (/\ ~k.to_block /\ s.fw.enabled /\ s.cur["block"] # NULL
                                          /\ \/ Match(s.cur["block"], u)
                                             \/ s.fw.wl_enabled /\ s.cur["white"] # NULL /\ ~Match(s.cur["white"], u))
             m == [k EXCEPT !.uid = u, !.netd_block_missed = b]
  <1>1. m = NetdUid(s, k, u)
    BY DEF NetdUid
  <1>2. b \in BOOLEAN
    OBVIOUS
  <1> HIDE DEF b
  <1>3. /\ m \in Connection /\ m.uid = u /\ m.info = k.info /\ m.to_block = k.to_block
        /\ m.blacklisted_internal = k.blacklisted_internal /\ m.blacklisted_ip = k.blacklisted_ip
        /\ m.blacklisted_domain = k.blacklisted_domain
    BY <1>2 DEF Connection
  <1> QED BY <1>1, <1>3

\* What the rules say of the app and the address.
AddressBlocks(s, c, uid) ==
    s.fw.enabled /\ (Match(s.cur["block"], uid) \/ Match(s.cur["block"], Ip[c]))

\* The firewall blocks by address and app, or by host.
LEMMA FirewallParts ==
    ASSUME NEW s, NEW c, NEW k
    PROVE  /\ FirewallBlocks(s, c, k) <=> AddressBlocks(s, c, k.uid) \/ (s.fw.enabled /\ Match(s.cur["block"], k.info))
           /\ k.info = NULL => (FirewallBlocks(s, c, k) <=> AddressBlocks(s, c, k.uid))
  <1>1. FirewallBlocks(s, c, k) <=> AddressBlocks(s, c, k.uid) \/ (s.fw.enabled /\ Match(s.cur["block"], k.info))
    BY DEF FirewallBlocks, AddressBlocks
  <1>2. k.info = NULL => ~Match(s.cur["block"], k.info)
    BY DEF Match
  <1> QED BY <1>1, <1>2

\* The checks of a new connection block by address and app.
LEMMA AddressFields ==
    ASSUME NEW s, NEW c, NEW k \in Connection
    PROVE  LET m == CheckAddress(s, c, k)
           IN  /\ m \in Connection /\ m.uid = k.uid /\ m.info = k.info
               /\ m.blacklisted_internal = k.blacklisted_internal
               /\ m.blacklisted_domain = k.blacklisted_domain
               /\ m.to_block <=> k.to_block \/ m.blacklisted_ip \/ AddressBlocks(s, c, k.uid)
  <1> DEFINE bad == ~k.whitelisted_app /\ Match(s.malware, Ip[c]) /\ ~Match(s.cur["mwl"], Ip[c])
             b1  == k.to_block \/ bad
             b   == [k EXCEPT !.blacklisted_ip = bad, !.to_block = b1]
             n   == [b EXCEPT !.info = NULL]
             b2  == b1 \/ FirewallBlocks(s, c, n)
             m   == [b EXCEPT !.to_block = b2]
  <1>1. bad \in BOOLEAN /\ b1 \in BOOLEAN
    OBVIOUS
  <1>2. /\ b \in Connection /\ b.uid = k.uid /\ b.info = k.info /\ b.to_block = b1
        /\ b.blacklisted_internal = k.blacklisted_internal
        /\ b.blacklisted_domain = k.blacklisted_domain /\ b.blacklisted_ip = bad
    <2> HIDE DEF b1, bad
    <2> QED BY <1>1 DEF Connection
  <1>3. m = CheckAddress(s, c, k)
    <2>1. b.to_block = b1
      BY <1>2
    <2> QED BY <2>1 DEF CheckAddress
  <1> HIDE DEF b
  <1>4. n.uid = k.uid /\ n.info = NULL
    BY <1>2 DEF Connection
  <1> HIDE DEF n
  <1>5. FirewallBlocks(s, c, n) <=> AddressBlocks(s, c, k.uid)
    BY <1>4, FirewallParts
  <1>6. b2 \in BOOLEAN /\ (b2 <=> k.to_block \/ bad \/ AddressBlocks(s, c, k.uid))
    BY <1>5
  <1> HIDE DEF b2, bad, b1
  <1>7. /\ m \in Connection /\ m.uid = k.uid /\ m.info = k.info
        /\ m.blacklisted_internal = k.blacklisted_internal
        /\ m.blacklisted_domain = k.blacklisted_domain /\ m.blacklisted_ip = bad /\ m.to_block = b2
    BY <1>2, <1>6 DEF Connection
  <1> QED BY <1>3, <1>6, <1>7

\* pd_new_connection: the checks that it makes one after the other give the verdict.
LEMMA NewConnection ==
    ASSUME Sound(Now), NEW c \in Conns, NEW host \in Cached[c] \cup {NULL}, pd_new_connection(c, host)
    PROVE  Sound(Now)' /\ Boxed(Now, Now')
  <1> DEFINE w  == Match(cur["mwl"], Uid[c])
             l  == host # NULL
             k0 == [uid |-> Uid[c], info |-> host, info_from_lru |-> l, fresh |-> TRUE,
                    whitelisted_app |-> w, blacklisted_internal |-> FALSE,
                    blacklisted_ip |-> FALSE, blacklisted_domain |-> FALSE, to_block |-> FALSE,
                    netd_block_missed |-> FALSE]
             s  == [Now EXCEPT !.conns[c] = k0]
             r  == NetdResolved(s, Uid[c], host)
             k1 == IF c \in r THEN NetdUid(s, k0, Uid[c]) ELSE k0
             kd == check_blacklisted_domain(s, k1)
             k2 == CheckAddress(s, c, kd)
             m  == check_whitelist_mode_block(s, c, k2)
  <1>1. /\ conns' = [d \in Conns |-> IF d = c THEN m
                                     ELSE IF d \in r THEN NetdUid(s, conns[d], Uid[c]) ELSE conns[d]]
        /\ drift' = drift \cup (r \ {c}) /\ UNCHANGED listVars /\ conns[c] = NULL
    BY DEF pd_new_connection, listVars
  <1>2. w \in BOOLEAN /\ l \in BOOLEAN /\ host \in Infos /\ Uid[c] \in {Uid[d] : d \in Conns}
    BY MatchBool DEF Infos
  <1> HIDE DEF w, l
  <1>3. /\ k0 \in Connection /\ k0.uid = Uid[c] /\ k0.info = host /\ k0.to_block = FALSE
        /\ k0.blacklisted_internal = FALSE /\ k0.blacklisted_ip = FALSE /\ k0.blacklisted_domain = FALSE
    BY <1>2 DEF Connection
  <1> HIDE DEF k0
  <1>4. conns \in [Conns -> Connection \cup {NULL}] /\ drift \subseteq {d \in Conns : conns[d] # NULL}
    BY ConnsTyped
  <1>5. /\ s.conns = [conns EXCEPT ![c] = k0] /\ Same(Now, s)
    BY NowFields DEF Same, Now
  <1> HIDE DEF s
  <1>6. r \subseteq Active(s) /\ \A d \in r \ {c} : d \in Conns /\ conns[d] \in Connection
    BY <1>4, <1>5 DEF NetdResolved, Active
  <1> HIDE DEF r
  <1>7. /\ k1 \in Connection /\ k1.uid = Uid[c] /\ k1.info = host /\ k1.to_block = FALSE
        /\ k1.blacklisted_internal = FALSE /\ k1.blacklisted_ip = FALSE /\ k1.blacklisted_domain = FALSE
    BY <1>2, <1>3, NetdFields
  <1> HIDE DEF k1
  <1>8. /\ kd \in Connection /\ kd.uid = Uid[c] /\ kd.info = host /\ kd.blacklisted_internal = FALSE
        /\ kd.to_block <=> kd.blacklisted_domain \/ (s.fw.enabled /\ Match(s.cur["block"], host))
    <2>1. /\ kd \in Connection /\ kd.uid = k1.uid /\ kd.info = k1.info
          /\ kd.blacklisted_internal = k1.blacklisted_internal
          /\ kd.to_block <=> \/ k1.to_block \/ (kd.blacklisted_domain /\ ~k1.blacklisted_domain)
                             \/ (s.fw.enabled /\ Match(s.cur["block"], k1.info))
      BY <1>7, DomainFields
    <2> HIDE DEF kd
    <2> QED BY <1>7, <2>1
  <1> HIDE DEF kd
  <1>9. /\ k2 \in Connection /\ k2.uid = Uid[c] /\ k2.info = host /\ k2.blacklisted_internal = FALSE
        /\ k2.to_block <=> k2.blacklisted_domain \/ k2.blacklisted_ip \/ FirewallBlocks(s, c, k2)
    <2>1. /\ k2 \in Connection /\ k2.uid = kd.uid /\ k2.info = kd.info
          /\ k2.blacklisted_internal = kd.blacklisted_internal
          /\ k2.blacklisted_domain = kd.blacklisted_domain
          /\ k2.to_block <=> kd.to_block \/ k2.blacklisted_ip \/ AddressBlocks(s, c, kd.uid)
      BY <1>8, AddressFields
    <2> HIDE DEF k2
    <2>2. FirewallBlocks(s, c, k2) <=> AddressBlocks(s, c, k2.uid) \/ (s.fw.enabled /\ Match(s.cur["block"], k2.info))
      BY FirewallParts
    <2>3. k2.uid = kd.uid /\ k2.uid = Uid[c] /\ k2.info = host
      BY <1>8, <2>1
    <2>4. k2.to_block <=> k2.blacklisted_domain \/ k2.blacklisted_ip \/ FirewallBlocks(s, c, k2)
      BY <1>8, <2>1, <2>2, <2>3
    <2> QED BY <1>8, <2>1, <2>3, <2>4
  <1> HIDE DEF k2
  <1>10. /\ m \in Connection /\ m.uid = k2.uid /\ m.info = k2.info
         /\ m.to_block <=> Blacklisted(m) \/ FirewallBlocks(s, c, k2) \/ WhitelistBlocks(s, c, k2)
    <2>1. /\ m \in Connection /\ m.uid = k2.uid /\ m.info = k2.info
          /\ m.blacklisted_internal = k2.blacklisted_internal /\ m.blacklisted_ip = k2.blacklisted_ip
          /\ m.blacklisted_domain = k2.blacklisted_domain
          /\ m.to_block <=> k2.to_block \/ WhitelistBlocks(s, c, k2)
      BY <1>9, WhitelistFields
    <2> HIDE DEF m
    <2>2. Blacklisted(m) <=> k2.blacklisted_domain \/ k2.blacklisted_ip
      BY <1>9, <2>1 DEF Blacklisted
    <2> QED BY <1>9, <2>1, <2>2
  <1> HIDE DEF m
  <1>11. conns' \in [Conns -> Connection \cup {NULL}]
    <2>1. \A d \in r \ {c} : NetdUid(s, conns[d], Uid[c]) \in Connection
      BY <1>2, <1>6, NetdFields
    <2> QED BY <1>1, <1>4, <1>10, <2>1
  <1>12. drift' \subseteq {d \in Conns : conns'[d] # NULL}
    <2> SUFFICES ASSUME NEW d \in drift' PROVE d \in Conns /\ conns'[d] # NULL
      OBVIOUS
    <2>1. CASE d \in r \ {c}
      <3>1. NetdUid(s, conns[d], Uid[c]) \in Connection
        BY <1>2, <1>6, <2>1, NetdFields
      <3> QED BY <1>1, <1>6, <2>1, <3>1, FirewallAssumption
    <2>2. CASE d \in drift /\ d \notin r
      <3>1. d \in Conns /\ conns[d] # NULL /\ d # c
        BY <1>1, <1>4, <2>2
      <3> QED BY <1>1, <2>2, <3>1
    <2> QED BY <1>1, <1>4, <2>1, <2>2
  <1>13. ASSUME NEW d \in Conns, conns'[d] # NULL, d \notin drift'
         PROVE  (conns'[d].to_block <=> VerdictIn(Now', d)) \/ (conns'[d] = conns[d] /\ d \notin drift)
    <2>1. CASE d = c
      <3>1. conns'[c] = m
        BY <1>1
      <3>2. Same(s, Now') /\ Now'.conns = conns'
        BY <1>1, <1>5, NowFields DEF Same, Now, listVars
      <3>3. /\ FirewallBlocks(Now', c, m) <=> FirewallBlocks(s, c, k2)
            /\ WhitelistBlocks(Now', c, m) <=> WhitelistBlocks(s, c, k2)
        BY <1>10, <3>2, BlocksSame
      <3>4. VerdictIn(Now', c) <=> Blacklisted(m) \/ FirewallBlocks(Now', c, m) \/ WhitelistBlocks(Now', c, m)
        BY <3>1, <3>2 DEF VerdictIn
      <3> QED BY <1>10, <2>1, <3>1, <3>3, <3>4
    <2>2. CASE d # c
      <3>1. d \notin drift /\ d \notin r
        BY <1>1, <1>13, <2>2
      <3> QED BY <1>1, <2>2, <3>1
    <2> QED BY <2>1, <2>2
  <1> QED BY <1>1, <1>11, <1>12, <1>13, ConnsStep

\* A block of the VPN itself.
LEMMA InternalBlock ==
    ASSUME Sound(Now), NEW c \in Conns, BlockedInternally(c)
    PROVE  Sound(Now)' /\ Boxed(Now, Now')
  <1> DEFINE m == [conns[c] EXCEPT !.blacklisted_internal = TRUE, !.to_block = TRUE]
  <1>1. conns \in [Conns -> Connection \cup {NULL}] /\ drift \subseteq {d \in Conns : conns[d] # NULL}
    BY ConnsTyped
  <1>2. /\ conns' = [conns EXCEPT ![c] = m] /\ UNCHANGED listVars /\ drift' = drift
        /\ conns[c] \in Connection
    BY <1>1 DEF BlockedInternally, listVars
  <1>3. m \in Connection /\ m.blacklisted_internal /\ m.to_block
    BY <1>2 DEF Connection
  <1> HIDE DEF m
  <1>4. conns' \in [Conns -> Connection \cup {NULL}] /\ conns'[c] = m /\ m # NULL
    BY <1>1, <1>2, <1>3, FirewallAssumption
  <1>5. \A d \in Conns \ {c} : conns'[d] = conns[d]
    BY <1>1, <1>2
  <1>6. drift' \subseteq {d \in Conns : conns'[d] # NULL}
    BY <1>1, <1>2, <1>4, <1>5
  <1>7. conns'[c].to_block <=> VerdictIn(Now', c)
    <2>1. Now'.conns = conns'
      BY DEF Now
    <2>2. Blacklisted(conns'[c])
      BY <1>3, <1>4 DEF Blacklisted
    <2> QED BY <1>3, <1>4, <2>1, <2>2 DEF VerdictIn
  <1> QED BY <1>2, <1>4, <1>5, <1>6, <1>7, ConnsStep

\* The connection is purged.
LEMMA PurgeConnection ==
    ASSUME Sound(Now), NEW c \in Conns, pd_purge_connection(c)
    PROVE  Sound(Now)' /\ Boxed(Now, Now')
  <1>1. conns \in [Conns -> Connection \cup {NULL}] /\ drift \subseteq {d \in Conns : conns[d] # NULL}
    BY ConnsTyped
  <1>2. conns' = [conns EXCEPT ![c] = NULL] /\ UNCHANGED listVars /\ drift' = drift \ {c}
    BY DEF pd_purge_connection, listVars
  <1>3. /\ conns' \in [Conns -> Connection \cup {NULL}] /\ conns'[c] = NULL
        /\ \A d \in Conns \ {c} : conns'[d] = conns[d]
    BY <1>1, <1>2
  <1>4. drift' \subseteq {d \in Conns : conns'[d] # NULL}
    BY <1>1, <1>2, <1>3
  <1> QED BY <1>2, <1>3, <1>4, ConnsStep

\* process_ndpi_data: the host adds to the verdict.
LEMMA HostFound ==
    ASSUME Sound(Now), NEW c \in Conns, process_ndpi_data(c)
    PROVE  Sound(Now)' /\ Boxed(Now, Now')
  <1> DEFINE k == [conns[c] EXCEPT !.info = Host[c], !.info_from_lru = FALSE]
             m == check_blacklisted_domain(Now, k)
  <1>1. conns \in [Conns -> Connection \cup {NULL}] /\ drift \subseteq {d \in Conns : conns[d] # NULL}
    BY ConnsTyped
  <1>2. /\ conns' = [conns EXCEPT ![c] = m] /\ UNCHANGED listVars
        /\ drift' = drift \cup (IF conns[c].info \in {NULL, Host[c]} THEN {} ELSE {c})
        /\ conns[c] \in Connection
    BY <1>1 DEF process_ndpi_data, listVars
  <1>3. /\ k \in Connection /\ k.uid = conns[c].uid /\ k.info = Host[c] /\ k.to_block = conns[c].to_block
        /\ k.blacklisted_internal = conns[c].blacklisted_internal
        /\ k.blacklisted_ip = conns[c].blacklisted_ip
        /\ k.blacklisted_domain = conns[c].blacklisted_domain
    <2>1. Host[c] \in Infos
      BY DEF Infos
    <2> QED BY <1>2, <2>1 DEF Connection
  <1> HIDE DEF k
  <1>4. /\ m \in Connection /\ m.uid = k.uid /\ m.info = k.info
        /\ m.blacklisted_internal = k.blacklisted_internal /\ m.blacklisted_ip = k.blacklisted_ip
        /\ k.blacklisted_domain => m.blacklisted_domain
        /\ m.to_block <=> \/ k.to_block \/ (m.blacklisted_domain /\ ~k.blacklisted_domain)
                          \/ (fw.enabled /\ Match(cur["block"], k.info))
    BY <1>3, DomainFields, NowFields
  <1> HIDE DEF m
  <1>5. conns' \in [Conns -> Connection \cup {NULL}] /\ conns'[c] = m /\ m # NULL
    BY <1>1, <1>2, <1>4, FirewallAssumption
  <1>6. \A d \in Conns \ {c} : conns'[d] = conns[d] /\ (d \notin drift' => d \notin drift)
    BY <1>1, <1>2
  <1>7. drift' \subseteq {d \in Conns : conns'[d] # NULL}
    BY <1>1, <1>2, <1>5, <1>6
  <1>8. ASSUME c \notin drift' PROVE m.to_block <=> VerdictIn(Now', c)
    <2> DEFINE o == conns[c]
    <2>1. c \notin drift /\ o.info \in {NULL, Host[c]} /\ c \in Active(Now) \ Now.drift
      BY <1>2, <1>8, NowFields, FirewallAssumption DEF Active
    <2>2. o.to_block <=> Blacklisted(o) \/ FirewallBlocks(Now, c, o) \/ WhitelistBlocks(Now, c, o)
      BY <2>1, NowFields DEF Sound, Decided, VerdictIn
    <2>3. Same(Now, Now') /\ Now'.conns = conns'
      BY <1>2, NowFields DEF Same, Now, listVars
    <2>4. VerdictIn(Now', c) <=> Blacklisted(m) \/ FirewallBlocks(Now', c, m) \/ WhitelistBlocks(Now', c, m)
      BY <1>5, <2>3 DEF VerdictIn
    <2>5. /\ FirewallBlocks(Now', c, m) <=> FirewallBlocks(Now, c, k)
          /\ WhitelistBlocks(Now', c, m) <=> WhitelistBlocks(Now, c, k)
      BY <1>4, <2>3, BlocksSame
    <2>6. WhitelistBlocks(Now, c, k) <=> WhitelistBlocks(Now, c, o)
      BY <1>3 DEF WhitelistBlocks
    <2>7. FirewallBlocks(Now, c, k) <=> FirewallBlocks(Now, c, o) \/ (fw.enabled /\ Match(cur["block"], k.info))
      <3>1. /\ FirewallBlocks(Now, c, k) <=> AddressBlocks(Now, c, k.uid) \/ (fw.enabled /\ Match(cur["block"], k.info))
            /\ FirewallBlocks(Now, c, o) <=> AddressBlocks(Now, c, o.uid) \/ (fw.enabled /\ Match(cur["block"], o.info))
            /\ o.info = NULL => (FirewallBlocks(Now, c, o) <=> AddressBlocks(Now, c, o.uid))
        BY FirewallParts, NowFields
      <3>2. o.info = Host[c] => o.info = k.info
        BY <1>3
      <3> QED BY <1>3, <2>1, <3>1, <3>2
    <2>8. Blacklisted(m) <=> Blacklisted(o) \/ (m.blacklisted_domain /\ ~k.blacklisted_domain)
      <3>1. /\ m.blacklisted_internal = o.blacklisted_internal /\ m.blacklisted_ip = o.blacklisted_ip
            /\ k.blacklisted_domain = o.blacklisted_domain /\ (k.blacklisted_domain => m.blacklisted_domain)
        BY <1>3, <1>4
      <3> QED BY <3>1 DEF Blacklisted
    <2>9. k.to_block = o.to_block
      BY <1>3
    <2> QED BY <1>4, <2>2, <2>4, <2>5, <2>6, <2>7, <2>8, <2>9
  <1> QED BY <1>2, <1>5, <1>6, <1>7, <1>8, ConnsStep

-----------------------------------------------------------------------------
(* The mailboxes.                                                          *)

\* The lists that the user may choose for a box, and no list.
LEMMA ListTypes ==
    ASSUME NEW b \in Boxes, NEW l \in Lists[b]
    PROVE  l \in AnyList /\ l # NULL
  BY FirewallAssumption DEF AnyList

\* A list is left in the mailbox of b, or the whitelist mode ends.
Posted(s, t, b, list) ==
    /\ t.cur = s.cur
    /\ \A x \in Boxes \ {b} : t.new[x] = s.new[x] /\ t.live[x] = s.live[x]
    /\ IF list = NULL THEN t.new[b] = s.new[b] /\ t.live[b] = s.live[b]
                      ELSE t.new[b] = list /\ t.live[b] = s.live[b] + 1

\* If nothing is certain about any active connection, nothing is decided.
LEMMA AllDrift == ASSUME NEW t, t.drift = Active(t) PROVE Decided(t)
  BY DEF Decided

\* A store into the mailbox keeps the verdicts, and posts the list.
LEMMA PublishSound ==
    ASSUME NEW s, Sound(s), NEW b \in Boxes, NEW list \in Lists[b] \cup {NULL}
    PROVE  LET t == Publish(s, b, list)
           IN  Sound(t) /\ Posted(s, t, b, list) /\ t.odd = s.odd
  <1>0. s \in State /\ StateTyped(s)
    BY DEF Sound, StateTyped
  <1>1. s.fw \in Switches
    BY <1>0 DEF State
  <1>2. CASE list = NULL
    <2> DEFINE f == [s.fw EXCEPT !.wl_enabled = FALSE]
               d == Active(s)
               t == [s EXCEPT !.fw = f, !.drift = d]
    <2>1. t = Publish(s, b, list)
      BY <1>2 DEF Publish
    <2>2. f \in Switches /\ d \in SUBSET Conns
      BY <1>1 DEF Switches, Active
    <2> HIDE DEF f, d
    <2>3. /\ t \in State /\ t.drift = d /\ t.cur = s.cur /\ t.new = s.new /\ t.live = s.live
          /\ t.conns = s.conns /\ t.odd = s.odd
      BY <1>0, <2>2 DEF State
    <2> HIDE DEF t
    <2>4. t.drift = Active(t)
      BY <2>3 DEF Active, d
    <2>5. StateTyped(t)
      BY <1>0, <2>3, <2>4 DEF StateTyped
    <2>6. Sound(t)
      BY <2>4, <2>5, AllDrift DEF Sound
    <2> QED BY <1>2, <2>1, <2>3, <2>6 DEF Posted
  <1>3. CASE list # NULL
    <2> DEFINE n == [s.new EXCEPT ![b] = list]
               v == [s.live EXCEPT ![b] = s.live[b] + 1]
               t == [s EXCEPT !.new = n, !.live = v]
    <2>1. t = Publish(s, b, list)
      BY <1>0, <1>3 DEF Publish, State
    <2>2. list \in AnyList
      BY <1>3, ListTypes
    <2>3. n \in [Boxes -> AnyList] /\ n[b] = list /\ \A x \in Boxes \ {b} : n[x] = s.new[x]
      BY <1>0, <2>2 DEF State
    <2>4. v \in [Boxes -> Int] /\ v[b] = s.live[b] + 1 /\ \A x \in Boxes \ {b} : v[x] = s.live[x]
      BY <1>0 DEF State
    <2> HIDE DEF n, v
    <2>5. /\ t \in State /\ t.fw = s.fw /\ t.drift = s.drift /\ t.cur = s.cur /\ t.new = n /\ t.live = v
          /\ t.conns = s.conns /\ t.odd = s.odd
      BY <1>0, <2>3, <2>4 DEF State
    <2> HIDE DEF t
    <2>6. StateTyped(t)
      <3>1. Active(t) = Active(s)
        BY <2>5 DEF Active
      <3> QED BY <1>0, <1>3, <2>3, <2>5, <3>1, ZenonT(20) DEF StateTyped
    <2>7. Decided(t)
      <3>1. Same(s, t)
        BY <2>5 DEF Same
      <3> QED BY <2>5, <3>1, DecidedSame DEF Sound
    <2>8. Posted(s, t, b, list)
      BY <1>3, <2>3, <2>4, <2>5 DEF Posted
    <2> QED BY <2>1, <2>5, <2>6, <2>7, <2>8 DEF Sound
  <1> QED BY <1>2, <1>3

\* The whitelist mode is turned on: no verdict is certain, and the lists are as they were.
LEMMA EnableSound ==
    ASSUME NEW s, Sound(s)
    PROVE  LET t == Enable(s)
           IN  Sound(t) /\ t.cur = s.cur /\ t.new = s.new /\ t.live = s.live /\ t.odd = s.odd
  <1> DEFINE f == [s.fw EXCEPT !.wl_enabled = TRUE]
             d == Active(s)
             t == [s EXCEPT !.fw = f, !.drift = d]
  <1>0. s \in State /\ StateTyped(s)
    BY DEF Sound, StateTyped
  <1>1. s.fw \in Switches
    BY <1>0 DEF State
  <1>2. t = Enable(s)
    BY DEF Enable
  <1>3. f \in Switches /\ d \in SUBSET Conns
    BY <1>1 DEF Switches, Active
  <1> HIDE DEF f, d
  <1>4. /\ t \in State /\ t.drift = d /\ t.cur = s.cur /\ t.new = s.new /\ t.live = s.live
        /\ t.conns = s.conns /\ t.odd = s.odd
    BY <1>0, <1>3 DEF State
  <1> HIDE DEF t
  <1>5. t.drift = Active(t)
    BY <1>4 DEF Active, d
  <1>6. StateTyped(t)
    BY <1>0, <1>4, <1>5 DEF StateTyped
  <1>7. Sound(t)
    BY <1>5, <1>6, AllDrift DEF Sound
  <1> QED BY <1>2, <1>4, <1>7

\* Noting an exception changes only the notes.
LEMMA NoteSound ==
    ASSUME NEW s, Sound(s), NEW e \in Events, NEW cond
    PROVE  LET t == Note(s, e, cond)
           IN  /\ Sound(t) /\ t.cur = s.cur /\ t.new = s.new /\ t.live = s.live
               /\ t.odd = IF cond THEN s.odd \cup {e} ELSE s.odd
  <1> DEFINE o == IF cond THEN s.odd \cup {e} ELSE s.odd
             t == [s EXCEPT !.odd = o]
  <1>0. s \in State /\ StateTyped(s)
    BY DEF Sound, StateTyped
  <1>1. t = Note(s, e, cond)
    BY DEF Note
  <1>2. o \in SUBSET Events
    BY <1>0 DEF State
  <1> HIDE DEF o
  <1>3. /\ t \in State /\ t.fw = s.fw /\ t.cur = s.cur /\ t.new = s.new /\ t.live = s.live
        /\ t.conns = s.conns /\ t.drift = s.drift /\ t.odd = o
    BY <1>0, <1>2 DEF State
  <1> HIDE DEF t
  <1>4. StateTyped(t)
    BY <1>0, <1>3 DEF StateTyped, Active
  <1>5. Same(s, t)
    BY <1>3 DEF Same
  <1>6. Sound(t)
    BY <1>3, <1>4, <1>5, DecidedSame DEF Sound
  <1> QED BY <1>1, <1>3, <1>6 DEF o

(* The main thread reloads a box: refused, or posted and noted if it was   *)
(* late or raced with the start.                                           *)
Reloaded(b, list) ==
    \/ UNCHANGED <<cur, new, live>> /\ odd' = odd \cup {"refused"}
    \/ /\ new[b] = NULL /\ Posted(Now, Now', b, list)
       /\ odd' = odd \cup (IF phase = "freed" THEN {"late"} ELSE {})
                     \cup (IF start.held # NULL /\ Head(start.boxes) = b THEN {"raced"} ELSE {})

\* A reload from a Java thread keeps the verdicts, and is refused or posts the list.
LEMMA ReloadSound ==
    ASSUME Sound(Now), NEW b \in Boxes, NEW list \in Lists[b] \cup {NULL}, NEW built,
           Become(Reload(Now, b, list, built))
    PROVE  Sound(Now)' /\ Reloaded(b, list)
  <1>0. "refused" \in Events /\ "late" \in Events /\ "raced" \in Events
    BY DEF Events
  <1>1. CASE Now.new[b] # NULL \/ (list # NULL /\ ~built)
    <2> DEFINE t == Note(Now, "refused", TRUE)
    <2>1. Become(t)
      BY <1>1 DEF Reload
    <2>2. Sound(t) /\ t.cur = cur /\ t.new = new /\ t.live = live /\ t.odd = odd \cup {"refused"}
      BY <1>0, NoteSound, NowFields
    <2> HIDE DEF t
    <2>3. Now' = t
      BY <2>1, <2>2, NextFields DEF Sound, StateTyped
    <2> QED BY <2>1, <2>2, <2>3 DEF Become, Reloaded
  <1>2. CASE ~(Now.new[b] # NULL \/ (list # NULL /\ ~built))
    <2> DEFINE p == Publish(Now, b, list)
               late == phase = "freed"
               raced == start.held # NULL /\ Head(start.boxes) = b
               q == Note(p, "late", late)
               t == Note(q, "raced", raced)
    <2>1. Become(t)
      BY <1>2 DEF Reload
    <2>2. Sound(p) /\ Posted(Now, p, b, list) /\ p.odd = odd
      BY PublishSound, NowFields
    <2> HIDE DEF p, late, raced
    <2>3. /\ Sound(q) /\ q.cur = p.cur /\ q.new = p.new /\ q.live = p.live
          /\ q.odd = IF late THEN p.odd \cup {"late"} ELSE p.odd
      BY <1>0, <2>2, NoteSound, ZenonT(30)
    <2> HIDE DEF q
    <2>4. /\ Sound(t) /\ t.cur = q.cur /\ t.new = q.new /\ t.live = q.live
          /\ t.odd = IF raced THEN q.odd \cup {"raced"} ELSE q.odd
      <3>1. Sound(q) /\ "raced" \in Events
        BY <1>0, <2>3
      <3> QED BY <3>1, NoteSound, ZenonT(30)
    <2> HIDE DEF t
    <2>5. Now' = t
      BY <2>1, <2>4, NextFields DEF Sound, StateTyped
    <2>6. Posted(Now, t, b, list)
      BY <2>2, <2>3, <2>4 DEF Posted
    <2>7. new[b] = NULL
      BY <1>2, NowFields
    <2>8. odd' = t.odd
      BY <2>1 DEF Become
    <2> QED BY <2>2, <2>3, <2>4, <2>5, <2>6, <2>7, <2>8 DEF Reloaded, late, raced
  <1> QED BY <1>1, <1>2

-----------------------------------------------------------------------------
(* The start of the capture.                                               *)

\* The boxes of each of the queues of the start-up.
LEMMA EntriesAre ==
    /\ Entries(<<>>) = {} /\ Entries(<<"white">>) = {"white"}
    /\ Entries(<<"block", "white">>) = {"block", "white"}
    /\ Entries(<<"dec", "block", "white">>) = {"dec", "block", "white"}
    /\ Entries(<<"mwl", "dec", "block", "white">>) = {"mwl", "dec", "block", "white"}
  BY DEF Entries

\* The boxes that are left, but for the first one.
LEMMA SuffixStep ==
    ASSUME NEW q \in LoadsLeft, q # <<>>
    PROVE  /\ Head(q) \in Boxes /\ Tail(q) \in LoadsLeft
           /\ Len(q) = 1 <=> Tail(q) = <<>>
           /\ Entries(Tail(q)) = Entries(q) \ {Head(q)}
           /\ Head(q) \in Entries(q) /\ Entries(q) \subseteq Boxes
  <1>1. CASE q = <<"white">>
    <2>1. Tail(q) = <<>> /\ Head(q) = "white" /\ Len(q) = 1
      BY <1>1
    <2>2. Entries(q) = {"white"} /\ Entries(Tail(q)) = {}
      BY <1>1, <2>1, EntriesAre
    <2>3. Tail(q) \in LoadsLeft /\ (Tail(q) = <<>> <=> Len(q) = 1)
      BY <2>1 DEF LoadsLeft
    <2>4. Entries(Tail(q)) = Entries(q) \ {Head(q)}
      BY <2>1, <2>2
    <2> QED BY <2>1, <2>2, <2>3, <2>4 DEF Boxes
  <1>2. CASE q = <<"block", "white">>
    <2>1. Tail(q) = <<"white">> /\ Head(q) = "block" /\ Len(q) = 2
      BY <1>2
    <2>2. Entries(q) = {"block", "white"} /\ Entries(Tail(q)) = {"white"}
      BY <1>2, <2>1, EntriesAre
    <2>3. Tail(q) \in LoadsLeft /\ (Tail(q) = <<>> <=> Len(q) = 1)
      BY <2>1 DEF LoadsLeft
    <2>4. Entries(Tail(q)) = Entries(q) \ {Head(q)}
      BY <2>1, <2>2
    <2> QED BY <2>1, <2>2, <2>3, <2>4 DEF Boxes
  <1>3. CASE q = <<"dec", "block", "white">>
    <2>1. Tail(q) = <<"block", "white">> /\ Head(q) = "dec" /\ Len(q) = 3
      BY <1>3
    <2>2. Entries(q) = {"dec", "block", "white"} /\ Entries(Tail(q)) = {"block", "white"}
      BY <1>3, <2>1, EntriesAre
    <2>3. Tail(q) \in LoadsLeft /\ (Tail(q) = <<>> <=> Len(q) = 1)
      BY <2>1 DEF LoadsLeft
    <2>4. Entries(Tail(q)) = Entries(q) \ {Head(q)}
      BY <2>1, <2>2
    <2> QED BY <2>1, <2>2, <2>3, <2>4 DEF Boxes
  <1>4. CASE q = <<"mwl", "dec", "block", "white">>
    <2>1. Tail(q) = <<"dec", "block", "white">> /\ Head(q) = "mwl" /\ Len(q) = 4
      BY <1>4
    <2>2. Entries(q) = {"mwl", "dec", "block", "white"} /\ Entries(Tail(q)) = {"dec", "block", "white"}
      BY <1>4, <2>1, EntriesAre
    <2>3. Tail(q) \in LoadsLeft /\ (Tail(q) = <<>> <=> Len(q) = 1)
      BY <2>1 DEF LoadsLeft
    <2>4. Entries(Tail(q)) = Entries(q) \ {Head(q)}
      BY <2>1, <2>2
    <2> QED BY <2>1, <2>2, <2>3, <2>4 DEF Boxes
  <1> QED BY <1>1, <1>2, <1>3, <1>4 DEF LoadsLeft

\* The start-up begins with all the boxes.
LEMMA AllLeft == StartOrder \in LoadsLeft /\ StartOrder # <<>> /\ Entries(StartOrder) = Boxes
  <1>1. StartOrder = <<"mwl", "dec", "block", "white">>
    BY DEF StartOrder
  <1>2. Entries(StartOrder) = {"mwl", "dec", "block", "white"}
    BY <1>1, EntriesAre
  <1> QED BY <1>1, <1>2 DEF LoadsLeft, Boxes

\* The lists in the current state.
LEMMA BoxTypes ==
    ASSUME Sound(Now), NEW b \in Boxes
    PROVE  /\ live[b] \in Int /\ Held(cur[b]) \in {0, 1} /\ Held(new[b]) \in {0, 1}
           /\ cur[b] \in Lists[b] \cup {NULL} /\ new[b] \in Lists[b] \cup {NULL}
  BY NowFields DEF Sound, StateTyped, State, Held

\* What Java passes for a box.
LEMMA DescriptorType ==
    ASSUME ControlTyped, NEW b \in Boxes
    PROVE  Descriptor(b) \in Lists[b] \cup {NULL}
  BY DEF ControlTyped, Descriptor

-----------------------------------------------------------------------------
(* The changes of the user.                                                *)

\* The start is not affected.
LEMMA ControlKept ==
    ASSUME ControlTyped, UNCHANGED <<phase, start>>,
           user' = [list |-> user'.list, wl_mode |-> user'.wl_mode, enabled |-> user'.enabled],
           user'.list \in [Boxes -> UNION {Lists[b] : b \in Boxes}],
           \A b \in Boxes : user'.list[b] \in Lists[b],
           user'.wl_mode \in BOOLEAN, user'.enabled \in BOOLEAN
    PROVE  ControlTyped'
  BY DEF ControlTyped, Reloads

\* A reload keeps the account of the allocated lists.
LEMMA ReloadAllocation ==
    ASSUME Sound(Now), ControlTyped, Allocation, UNCHANGED <<phase, start>>, NEW b \in Boxes,
           NEW list \in Lists[b] \cup {NULL}, Reloaded(b, list), HasPd
    PROVE  Allocation'
  <1>0. phase # "init" /\ Pending' = Pending /\ Pending \subseteq Boxes
    <2>1. Pending \subseteq Boxes
      <3>1. start.boxes \in LoadsLeft
        BY DEF ControlTyped
      <3>2. CASE start.boxes = <<>>
        BY <3>2, EntriesAre DEF Pending
      <3>3. CASE start.boxes # <<>>
        BY <3>1, <3>3, SuffixStep DEF Pending
      <3> QED BY <3>2, <3>3
    <2> QED BY <2>1 DEF HasPd, Pending
  <1>1. CASE UNCHANGED <<cur, new, live>> /\ odd' = odd \cup {"refused"}
    <2>1. (odd \cap {"raced", "late"} = {})' <=> odd \cap {"raced", "late"} = {}
      BY <1>1
    <2> QED BY <1>0, <1>1, <2>1 DEF Allocation
  <1>2. CASE /\ new[b] = NULL /\ Posted(Now, Now', b, list)
             /\ odd' = odd \cup (IF phase = "freed" THEN {"late"} ELSE {})
                           \cup (IF start.held # NULL /\ Head(start.boxes) = b THEN {"raced"} ELSE {})
    <2>1. /\ cur' = cur /\ \A x \in Boxes \ {b} : new'[x] = new[x] /\ live'[x] = live[x]
          /\ IF list = NULL THEN new'[b] = NULL /\ live'[b] = live[b]
                            ELSE new'[b] = list /\ live'[b] = live[b] + 1
      BY <1>2 DEF Posted, Now
    <2>0. live[b] \in Int
      BY BoxTypes
    <2>2. live[b] \in Int /\ Held(new[b]) = 0 /\ live'[b] = live[b] + Held(new'[b])
      <3>1. CASE list = NULL
        BY <1>2, <2>0, <2>1, <3>1 DEF Held
      <3>2. CASE list # NULL
        BY <1>2, <2>0, <2>1, <3>2 DEF Held
      <3> QED BY <3>1, <3>2
    <2>3. odd \subseteq odd' /\ (phase = "freed" => "late" \in odd')
      BY <1>2
    <2>4. ASSUME NEW x \in Pending PROVE live'[x] = Held(new'[x])
      <3>1. live[x] = Held(new[x]) /\ x \in Boxes
        BY <1>0 DEF Allocation
      <3>2. CASE x = b
        <4>1. Held(new'[b]) \in Int
          BY DEF Held
        <4> QED BY <2>2, <3>1, <3>2, <4>1
      <3>3. CASE x # b
        BY <2>1, <3>1, <3>3
      <3> QED BY <3>2, <3>3
    <2>5. ASSUME phase \notin {"freed", "stopped"}, NEW x \in Boxes
          PROVE  live'[x] - Held(cur'[x]) - Held(new'[x]) \in
                     IF odd' \cap {"raced", "late"} # {} THEN {0, 1} ELSE {0}
      <3>1. live'[x] - Held(cur'[x]) - Held(new'[x]) = live[x] - Held(cur[x]) - Held(new[x])
        <4>1. live[x] \in Int /\ Held(cur[x]) \in {0, 1} /\ Held(new[x]) \in {0, 1} /\ Held(new'[x]) \in {0, 1}
          BY BoxTypes DEF Held
        <4>2. CASE x = b
          BY <2>1, <2>2, <4>1, <4>2
        <4>3. CASE x # b
          BY <2>1, <4>3
        <4> QED BY <4>2, <4>3
      <3>2. live[x] - Held(cur[x]) - Held(new[x]) \in IF odd \cap {"raced", "late"} # {} THEN {0, 1} ELSE {0}
        BY <2>5 DEF Allocation
      <3> QED BY <2>3, <3>1, <3>2
    <2>6. ASSUME phase \in {"freed", "stopped"}, NEW x \in Boxes
          PROVE  live'[x] \in IF odd' \cap {"raced", "late"} = {} THEN {0}
                              ELSE IF new'[x] = NULL THEN {0, 1} ELSE {0, 1, 2}
      <3>1. phase = "freed" /\ "late" \in odd'
        BY <2>3, <2>6 DEF HasPd
      <3>2. live[x] \in IF odd \cap {"raced", "late"} = {} THEN {0}
                        ELSE IF new[x] = NULL THEN {0, 1} ELSE {0, 1, 2}
        BY <2>6 DEF Allocation
      <3>3. CASE x = b
        <4>1. live[b] \in {0, 1}
          BY <1>2, <3>2, <3>3
        <4>2. new'[b] = NULL => live'[b] = live[b]
          BY <2>2 DEF Held
        <4>3. live'[b] \in {0, 1, 2}
          BY <2>2, <4>1 DEF Held
        <4> QED BY <3>1, <3>3, <4>1, <4>2, <4>3
      <3>4. CASE x # b
        BY <2>1, <3>1, <3>2, <3>4
      <3> QED BY <3>3, <3>4
    <2>7. ASSUME start.held # NULL, new'[Head(start.boxes)] # NULL PROVE "raced" \in odd'
      <3>1. Head(start.boxes) \in Boxes
        BY <2>7, SuffixStep DEF ControlTyped
      <3>2. CASE Head(start.boxes) = b
        BY <1>2, <2>7, <3>2
      <3>3. CASE Head(start.boxes) # b
        BY <2>1, <2>3, <2>7, <3>1, <3>3 DEF Allocation
      <3> QED BY <3>2, <3>3
    <2> QED BY <1>0, <2>1, <2>4, <2>5, <2>6, <2>7 DEF Allocation
  <1> QED BY <1>1, <1>2 DEF Reloaded

\* The choice of the user is in the mailbox, or it was refused or raced.
LEMMA ReloadChosen ==
    ASSUME Sound(Now), ControlTyped, Chosen, UNCHANGED <<phase, start>>, NEW b \in Boxes,
           Reloaded(b, Descriptor(b)'), \A x \in Boxes \ {b} : Descriptor(x)' = Descriptor(x)
    PROVE  Chosen'
  <1> SUFFICES ASSUME phase \in {"init", "starting", "running"}, odd' \cap {"refused", "raced"} = {}
               PROVE  /\ \A x \in {y \in Boxes : Reloads(y) /\ Descriptor(y)' # NULL} :
                            IF new'[x] # NULL THEN new'[x] = Descriptor(x)'
                            ELSE x \in Pending \/ cur'[x] = Descriptor(x)'
                      /\ start.held # NULL => /\ start.held = Descriptor(Head(start.boxes))'
                                              /\ new'[Head(start.boxes)] = NULL
    BY DEF Chosen, Reloads, Pending
  <1>1. /\ new[b] = NULL /\ Posted(Now, Now', b, Descriptor(b)')
        /\ odd \subseteq odd' /\ ~(start.held # NULL /\ Head(start.boxes) = b)
    BY DEF Reloaded
  <1>2. /\ cur' = cur /\ \A x \in Boxes \ {b} : new'[x] = new[x]
        /\ Descriptor(b)' # NULL => new'[b] = Descriptor(b)'
    BY <1>1 DEF Posted, Now
  <1>3. /\ \A x \in {y \in Boxes : Reloads(y) /\ Descriptor(y) # NULL} :
              IF new[x] # NULL THEN new[x] = Descriptor(x)
              ELSE x \in Pending \/ cur[x] = Descriptor(x)
        /\ start.held # NULL => /\ start.held = Descriptor(Head(start.boxes))
                                /\ new[Head(start.boxes)] = NULL
    BY <1>1 DEF Chosen
  <1>4. ASSUME NEW x \in {y \in Boxes : Reloads(y) /\ Descriptor(y)' # NULL}
        PROVE  IF new'[x] # NULL THEN new'[x] = Descriptor(x)'
               ELSE x \in Pending \/ cur'[x] = Descriptor(x)'
    <2>1. CASE x = b
      BY <1>2, <2>1
    <2>2. CASE x # b
      BY <1>2, <1>3, <2>2
    <2> QED BY <2>1, <2>2
  <1>5. ASSUME start.held # NULL
        PROVE  start.held = Descriptor(Head(start.boxes))' /\ new'[Head(start.boxes)] = NULL
    <2>1. Head(start.boxes) \in Boxes
      BY <1>5, SuffixStep DEF ControlTyped
    <2> QED BY <1>1, <1>2, <1>3, <1>5, <2>1
  <1> QED BY <1>4, <1>5

\* A change that no reload follows.
LEMMA ChangeWithoutReload ==
    ASSUME FirewallInv, UNCHANGED <<phase, start, cur, new, live, odd, conns>>, NEW b \in Boxes,
           ~HasPd \/ ~Reloads(b), \A x \in Boxes \ {b} : Descriptor(x)' = Descriptor(x)
    PROVE  Allocation' /\ Chosen'
  <1>1. Allocation'
    BY DEF FirewallInv, Allocation, Pending
  <1>2. ASSUME phase \in {"init", "starting", "running"}, odd \cap {"refused", "raced"} = {}
        PROVE  /\ \A x \in {y \in Boxes : Reloads(y) /\ Descriptor(y)' # NULL} :
                     IF new[x] # NULL THEN new[x] = Descriptor(x)'
                     ELSE x \in Pending \/ cur[x] = Descriptor(x)'
               /\ start.held # NULL => /\ start.held = Descriptor(Head(start.boxes))'
                                       /\ new[Head(start.boxes)] = NULL
    <2>1. CASE phase = "init"
      <3>1. Pending = Boxes /\ start.held = NULL /\ \A x \in Boxes : new[x] = NULL
        BY <2>1, AllLeft DEF FirewallInv, ControlTyped, Allocation, Pending
      <3> QED BY <3>1
    <2>2. CASE phase # "init"
      <3>1. ~Reloads(b)
        BY <1>2, <2>2 DEF HasPd
      <3>2. /\ \A x \in {y \in Boxes : Reloads(y) /\ Descriptor(y) # NULL} :
                  IF new[x] # NULL THEN new[x] = Descriptor(x)
                  ELSE x \in Pending \/ cur[x] = Descriptor(x)
            /\ start.held # NULL => /\ start.held = Descriptor(Head(start.boxes))
                                    /\ new[Head(start.boxes)] = NULL
        BY <1>2 DEF FirewallInv, Chosen
      <3>3. start.held # NULL => Head(start.boxes) \in Boxes \ {b}
        <4> SUFFICES ASSUME start.held # NULL PROVE Head(start.boxes) \in Boxes \ {b}
          OBVIOUS
        <4>1. start.boxes \in LoadsLeft /\ start.boxes # <<>> /\ Reloads(Head(start.boxes))
          BY DEF FirewallInv, ControlTyped
        <4>2. Head(start.boxes) \in Boxes
          BY <4>1, SuffixStep
        <4> QED BY <3>1, <4>1, <4>2
      <3>4. \A x \in {y \in Boxes : Reloads(y) /\ Descriptor(y)' # NULL} : x # b /\ Descriptor(x) # NULL
        BY <3>1
      <3> QED BY <3>2, <3>3, <3>4
    <2> QED BY <2>1, <2>2
  <1>3. Chosen'
    BY <1>2 DEF Chosen, Reloads, Pending
  <1> QED BY <1>1, <1>3

\* Nothing changes for the capture thread.
LEMMA SameState == ASSUME Sound(Now), Become(Now) PROVE Sound(Now)' /\ UNCHANGED <<fw, cur, new, live, malware, conns, drift, odd>>
  <1>1. UNCHANGED <<fw, cur, new, live, malware, conns, drift, odd>>
    BY NowFields DEF Become
  <1>2. Now' = Now
    BY <1>1 DEF Now
  <1> QED BY <1>1, <1>2

\* The user.
LEMMA UserFields ==
    ASSUME ControlTyped
    PROVE  /\ \A b \in Boxes : \A l \in Lists[b] :
                 LET u == [user EXCEPT !.list[b] = l]
                 IN  /\ u = [list |-> u.list, wl_mode |-> u.wl_mode, enabled |-> u.enabled]
                     /\ u.list \in [Boxes -> UNION {Lists[x] : x \in Boxes}]
                     /\ u.list[b] = l /\ \A x \in Boxes \ {b} : u.list[x] = user.list[x]
                     /\ u.wl_mode = user.wl_mode /\ u.enabled = user.enabled
           /\ LET u == [user EXCEPT !.wl_mode = ~@]
              IN  /\ u = [list |-> u.list, wl_mode |-> u.wl_mode, enabled |-> u.enabled]
                  /\ u.list = user.list /\ u.wl_mode = ~user.wl_mode /\ u.enabled = user.enabled
           /\ LET u == [user EXCEPT !.enabled = ~@]
              IN  /\ u = [list |-> u.list, wl_mode |-> u.wl_mode, enabled |-> u.enabled]
                  /\ u.list = user.list /\ u.wl_mode = user.wl_mode /\ u.enabled = ~user.enabled
  <1> DEFINE U == [list : [Boxes -> UNION {Lists[x] : x \in Boxes}], wl_mode : BOOLEAN, enabled : BOOLEAN]
  <1>1. user \in U
    BY DEF ControlTyped
  <1>2. ASSUME NEW b \in Boxes, NEW l \in Lists[b]
        PROVE  LET u == [user EXCEPT !.list[b] = l]
               IN  /\ u = [list |-> u.list, wl_mode |-> u.wl_mode, enabled |-> u.enabled]
                   /\ u.list \in [Boxes -> UNION {Lists[x] : x \in Boxes}]
                   /\ u.list[b] = l /\ \A x \in Boxes \ {b} : u.list[x] = user.list[x]
                   /\ u.wl_mode = user.wl_mode /\ u.enabled = user.enabled
    <2> DEFINE f == [user.list EXCEPT ![b] = l]
               u == [user EXCEPT !.list = f]
    <2>1. l \in UNION {Lists[x] : x \in Boxes}
      OBVIOUS
    <2>2. f \in [Boxes -> UNION {Lists[x] : x \in Boxes}] /\ f[b] = l /\ \A x \in Boxes \ {b} : f[x] = user.list[x]
      BY <1>1, <2>1
    <2>3. u = [user EXCEPT !.list[b] = l]
      BY <1>1
    <2> HIDE DEF f
    <2>4. u \in U /\ u.list = f /\ u.wl_mode = user.wl_mode /\ u.enabled = user.enabled
      BY <1>1, <2>2
    <2>5. u = [list |-> u.list, wl_mode |-> u.wl_mode, enabled |-> u.enabled]
      BY <2>4
    <2> HIDE DEF u
    <2> QED BY <2>2, <2>3, <2>4, <2>5
  <1>3. LET u == [user EXCEPT !.wl_mode = ~@]
        IN  /\ u = [list |-> u.list, wl_mode |-> u.wl_mode, enabled |-> u.enabled]
            /\ u.list = user.list /\ u.wl_mode = ~user.wl_mode /\ u.enabled = user.enabled
    BY <1>1
  <1>4. LET u == [user EXCEPT !.enabled = ~@]
        IN  /\ u = [list |-> u.list, wl_mode |-> u.wl_mode, enabled |-> u.enabled]
            /\ u.list = user.list /\ u.wl_mode = user.wl_mode /\ u.enabled = ~user.enabled
    BY <1>1
  <1> QED BY <1>2, <1>3, <1>4

\* The main thread reloads box b, or leaves the capture as it is.
LEMMA UserStep ==
    ASSUME FirewallInv, NEW b \in Boxes, NEW built, UNCHANGED <<phase, start>>, ControlTyped',
           IF HasPd /\ Reloads(b) THEN Become(Reload(Now, b, Descriptor(b)', built)) ELSE Become(Now),
           \A x \in Boxes \ {b} : Descriptor(x)' = Descriptor(x)
    PROVE  FirewallInv'
  <1>1. Sound(Now) /\ ControlTyped /\ Allocation /\ Chosen
    BY DEF FirewallInv, Sound
  <1>2. CASE HasPd /\ Reloads(b)
    <2> DEFINE d == Descriptor(b)'
    <2>1. Become(Reload(Now, b, d, built))
      BY <1>2
    <2>2. d \in Lists[b] \cup {NULL}
      BY DEF ControlTyped, Descriptor
    <2> HIDE DEF d
    <2>3. Sound(Now)' /\ Reloaded(b, d)
      BY <1>1, <2>1, <2>2, ReloadSound
    <2>4. Allocation'
      BY <1>1, <1>2, <2>2, <2>3, ReloadAllocation
    <2>5. Chosen'
      BY <1>1, <2>3, ReloadChosen DEF d
    <2> QED BY <2>3, <2>4, <2>5 DEF FirewallInv, Sound
  <1>3. CASE ~(HasPd /\ Reloads(b))
    <2>1. Become(Now)
      BY <1>3
    <2>2. Sound(Now)' /\ UNCHANGED <<fw, cur, new, live, malware, conns, drift, odd>>
      BY <1>1, <2>1, SameState
    <2>3. Allocation' /\ Chosen'
      BY <1>3, <2>2, ChangeWithoutReload
    <2> QED BY <2>2, <2>3 DEF FirewallInv, Sound
  <1> QED BY <1>2, <1>3

\* An edit of a list by the user keeps the invariant.
LEMMA EditKeeps ==
    ASSUME FirewallInv, NEW b \in Boxes, NEW l \in Lists[b], EditList(b, l)
    PROVE  FirewallInv'
  <1> DEFINE u == [user EXCEPT !.list[b] = l]
  <1>0. ControlTyped
    BY DEF FirewallInv
  <1>1. user' = u /\ UNCHANGED <<phase, start>>
    BY DEF EditList, UserChanges
  <1>2. /\ u = [list |-> u.list, wl_mode |-> u.wl_mode, enabled |-> u.enabled]
        /\ u.list \in [Boxes -> UNION {Lists[x] : x \in Boxes}]
        /\ u.list[b] = l /\ \A x \in Boxes \ {b} : u.list[x] = user.list[x]
        /\ u.wl_mode = user.wl_mode /\ u.enabled = user.enabled
    BY <1>0, UserFields, ZenonT(20)
  <1>3. PICK built \in BOOLEAN :
            IF HasPd /\ Reloads(b)
            THEN Become(Reload(Now, b, IF b = "white" /\ ~u.wl_mode THEN NULL ELSE l, built))
            ELSE Become(Now)
    BY DEF EditList
  <1> HIDE DEF u
  <1>4. ControlTyped'
    <2>1. \A x \in Boxes : user'.list[x] \in Lists[x]
      BY <1>0, <1>1, <1>2 DEF ControlTyped
    <2>2. user.wl_mode \in BOOLEAN /\ user.enabled \in BOOLEAN
      BY <1>0 DEF ControlTyped
    <2> QED BY <1>0, <1>1, <1>2, <2>1, <2>2, ControlKept
  <1>5. Descriptor(b)' = IF b = "white" /\ ~u.wl_mode THEN NULL ELSE l
    BY <1>1, <1>2 DEF Descriptor
  <1>6. \A x \in Boxes \ {b} : Descriptor(x)' = Descriptor(x)
    BY <1>1, <1>2 DEF Descriptor
  <1> QED BY <1>1, <1>3, <1>4, <1>5, <1>6, UserStep

\* A change of the whitelist mode keeps the invariant.
LEMMA ModeKeeps == ASSUME FirewallInv, SetWhitelistMode PROVE FirewallInv'
  <1> DEFINE u == [user EXCEPT !.wl_mode = ~@]
  <1>0. ControlTyped /\ "white" \in Boxes
    BY DEF FirewallInv, Boxes
  <1>1. user' = u /\ UNCHANGED <<phase, start>>
    BY DEF SetWhitelistMode, UserChanges
  <1>2. /\ u = [list |-> u.list, wl_mode |-> u.wl_mode, enabled |-> u.enabled]
        /\ u.list = user.list /\ u.wl_mode = ~user.wl_mode /\ u.enabled = user.enabled
    BY <1>0, UserFields
  <1>3. PICK built \in BOOLEAN :
            IF HasPd /\ Reloads("white")
            THEN Become(Reload(Now, "white", IF user.wl_mode THEN NULL ELSE user.list["white"], built))
            ELSE Become(Now)
    BY DEF SetWhitelistMode
  <1> HIDE DEF u
  <1>4. ControlTyped'
    <2>1. /\ user.list \in [Boxes -> UNION {Lists[x] : x \in Boxes}]
          /\ \A x \in Boxes : user.list[x] \in Lists[x]
          /\ user.wl_mode \in BOOLEAN /\ user.enabled \in BOOLEAN
      BY <1>0 DEF ControlTyped
    <2>2. u.wl_mode \in BOOLEAN
      BY <1>2, <2>1
    <2> QED BY <1>0, <1>1, <1>2, <2>1, <2>2, ControlKept
  <1>5. Descriptor("white")' = IF user.wl_mode THEN NULL ELSE user.list["white"]
    BY <1>1, <1>2 DEF Descriptor
  <1>6. \A x \in Boxes \ {"white"} : Descriptor(x)' = Descriptor(x)
    BY <1>1, <1>2 DEF Descriptor
  <1> QED BY <1>0, <1>1, <1>3, <1>4, <1>5, <1>6, UserStep

\* The lists and the choices of the user are as they were.
LEMMA ListsKept ==
    ASSUME FirewallInv, Sound(Now)', ControlTyped', Boxed(Now, Now') \/ UNCHANGED <<cur, new, live, odd>>,
           UNCHANGED <<phase, start>>, user'.list = user.list, user'.wl_mode = user.wl_mode,
           phase = "init" => UNCHANGED conns
    PROVE  FirewallInv'
  <1>1. UNCHANGED <<cur, new, live, odd>>
    BY DEF Boxed, Now
  <1>2. \A x : Descriptor(x)' = Descriptor(x)
    BY DEF Descriptor
  <1>3. Allocation'
    BY <1>1 DEF FirewallInv, Allocation, Pending
  <1>4. Chosen'
    BY <1>1, <1>2 DEF FirewallInv, Chosen, Pending, Reloads
  <1> QED BY <1>3, <1>4 DEF FirewallInv, Sound

\* A change of the firewall switch keeps the invariant.
LEMMA EnabledKeeps == ASSUME FirewallInv, setFirewallEnabled PROVE FirewallInv'
  <1> DEFINE u == [user EXCEPT !.enabled = ~@]
             e == ~user.enabled
             f == [fw EXCEPT !.enabled = e]
             d == Active(Now)
             t == [Now EXCEPT !.fw = f, !.drift = d]
  <1>0. ControlTyped /\ Sound(Now)
    BY DEF FirewallInv, Sound
  <1>1. user' = u /\ UNCHANGED <<phase, start>>
    BY DEF setFirewallEnabled, UserChanges
  <1>2. /\ u = [list |-> u.list, wl_mode |-> u.wl_mode, enabled |-> u.enabled]
        /\ u.list = user.list /\ u.wl_mode = user.wl_mode /\ u.enabled = e
    BY <1>0, UserFields
  <1> HIDE DEF u
  <1>3. /\ user.list \in [Boxes -> UNION {Lists[x] : x \in Boxes}]
        /\ \A x \in Boxes : user.list[x] \in Lists[x]
        /\ user.wl_mode \in BOOLEAN /\ e \in BOOLEAN
    BY <1>0 DEF ControlTyped
  <1>4. ControlTyped'
    BY <1>0, <1>1, <1>2, <1>3, ControlKept
  <1>5. CASE ~HasPd
    <2>1. Become(Now)
      BY <1>5 DEF setFirewallEnabled
    <2>2. Sound(Now)' /\ UNCHANGED <<fw, cur, new, live, malware, conns, drift, odd>>
      BY <1>0, <2>1, SameState
    <2> QED BY <1>1, <1>2, <1>4, <2>2, ListsKept
  <1>6. CASE HasPd
    <2>0. Now \in State /\ StateTyped(Now) /\ fw \in Switches
      BY <1>0, NowFields DEF Sound, StateTyped, State
    <2>1. Become(t)
      BY <1>6, NowFields DEF setFirewallEnabled
    <2>2. f \in Switches /\ d \in SUBSET Conns
      BY <1>3, <2>0 DEF Switches, Active
    <2> HIDE DEF f, d
    <2>3. /\ t \in State /\ t.drift = d /\ t.cur = cur /\ t.new = new /\ t.live = live
          /\ t.conns = conns /\ t.odd = odd
      BY <2>0, <2>2, NowFields DEF State
    <2> HIDE DEF t
    <2>4. Now' = t
      BY <2>1, <2>3, NextFields
    <2>5. t.drift = Active(t)
      BY <2>3, NowFields DEF Active, d
    <2>6. StateTyped(t)
      BY <2>0, <2>3, <2>5, NowFields DEF StateTyped
    <2>7. Sound(t)
      BY <2>5, <2>6, AllDrift DEF Sound
    <2>8. UNCHANGED <<cur, new, live, odd, conns>>
      BY <2>1, <2>3 DEF Become
    <2> QED BY <1>1, <1>2, <1>4, <2>4, <2>7, <2>8, ListsKept
  <1> QED BY <1>5, <1>6

\* The end of the reload of a whitelist keeps the invariant.
LEMMA TurnedOnKeeps == ASSUME FirewallInv, EnableWhitelist PROVE FirewallInv'
  <1>0. ControlTyped /\ Sound(Now)
    BY DEF FirewallInv, Sound
  <1>1. UNCHANGED <<user, phase, start>>
    BY DEF EnableWhitelist
  <1>2. ControlTyped'
    BY <1>0, <1>1 DEF ControlTyped, Reloads
  <1>3. CASE ~HasPd
    <2>1. Become(Now)
      BY <1>3 DEF EnableWhitelist
    <2>2. Sound(Now)' /\ UNCHANGED <<fw, cur, new, live, malware, conns, drift, odd>>
      BY <1>0, <2>1, SameState
    <2> QED BY <1>1, <1>2, <2>2, ListsKept
  <1>4. CASE HasPd
    <2> DEFINE t == Enable(Now)
    <2>1. Become(t)
      BY <1>4 DEF EnableWhitelist
    <2>2. Sound(t) /\ t.cur = cur /\ t.new = new /\ t.live = live /\ t.odd = odd
      BY <1>0, EnableSound, NowFields
    <2> HIDE DEF t
    <2>3. Now' = t
      BY <2>1, <2>2, NextFields DEF Sound, StateTyped
    <2>4. UNCHANGED <<cur, new, live, odd>>
      BY <2>1, <2>2 DEF Become
    <2>5. phase # "init"
      BY <1>4 DEF HasPd
    <2> QED BY <1>1, <1>2, <2>2, <2>3, <2>4, <2>5, ListsKept
  <1> QED BY <1>3, <1>4

\* The steps of the connections.
LEMMA ConnectionsKeep ==
    ASSUME FirewallInv, NEW c \in Conns,
           \/ \E h \in Cached[c] \cup {NULL} : pd_new_connection(c, h)
           \/ BlockedInternally(c) \/ process_ndpi_data(c) \/ pd_purge_connection(c)
    PROVE  FirewallInv'
  <1>1. Sound(Now) /\ ControlTyped
    BY DEF FirewallInv, Sound
  <1>2. UNCHANGED <<user, phase, start>> /\ phase = "running"
    BY DEF pd_new_connection, BlockedInternally, process_ndpi_data, pd_purge_connection
  <1>3. Sound(Now)' /\ Boxed(Now, Now')
    BY <1>1, NewConnection, InternalBlock, HostFound, PurgeConnection
  <1>4. ControlTyped'
    BY <1>1, <1>2 DEF ControlTyped, Reloads
  <1> QED BY <1>2, <1>3, <1>4, ListsKept

-----------------------------------------------------------------------------
(* The capture thread.                                                     *)
\* The start: there are no connections yet.
LEMMA RunKeeps == ASSUME FirewallInv, pd_run PROVE FirewallInv'
  <1>0. ControlTyped /\ Sound(Now) /\ Now \in State /\ StateTyped(Now) /\ fw \in Switches
    <2>1. ControlTyped /\ Sound(Now) /\ Now \in State /\ StateTyped(Now)
      BY DEF FirewallInv, Sound, StateTyped
    <2> QED BY <2>1, NowFields DEF State
  <1>1. phase = "init" /\ phase' = "starting" /\ UNCHANGED <<user, start>>
    BY DEF pd_run
  <1>2. /\ start.boxes = StartOrder /\ start.held = NULL /\ Pending = Boxes
        /\ \A c \in Conns : conns[c] = NULL
    <2>1. start.boxes = StartOrder /\ start.held = NULL
      BY <1>0, <1>1 DEF ControlTyped
    <2>2. \A c \in Conns : conns[c] = NULL
      BY <1>1 DEF FirewallInv, Allocation
    <2> QED BY <2>1, <2>2, AllLeft DEF Pending
  <1>3. PICK m \in Blacklists \cup {NULL} : Become([Now EXCEPT !.fw.enabled = user.enabled, !.malware = m])
    BY DEF pd_run
  <1> DEFINE f == [fw EXCEPT !.enabled = user.enabled]
             t == [Now EXCEPT !.fw = f, !.malware = m]
  <1>4. Become(t)
    BY <1>3, NowFields
  <1>5. f \in Switches
    BY <1>0 DEF Switches, ControlTyped
  <1> HIDE DEF f
  <1>6. /\ t \in State /\ t.drift = drift /\ t.cur = cur /\ t.new = new /\ t.live = live
        /\ t.conns = conns /\ t.odd = odd
    BY <1>0, <1>5, NowFields DEF State
  <1> HIDE DEF t
  <1>7. Now' = t
    BY <1>4, <1>6, NextFields
  <1>8. StateTyped(t) /\ Decided(t)
    <2>1. Active(t) = {}
      BY <1>2, <1>6 DEF Active
    <2>2. Active(Now) = {}
      BY <1>2, NowFields DEF Active
    <2>3. t.drift \subseteq Active(t)
      BY <1>0, <1>6, <2>2, NowFields DEF StateTyped
    <2> QED BY <1>0, <1>6, <2>1, <2>3, NowFields DEF StateTyped, Decided
  <1>9. UNCHANGED <<cur, new, live, odd, conns>>
    BY <1>4, <1>6 DEF Become
  <1>10. ControlTyped'
    BY <1>0, <1>1, <1>2, AllLeft DEF ControlTyped, Reloads
  <1>11. Allocation'
    BY <1>1, <1>2, <1>9 DEF FirewallInv, Allocation, Pending
  <1>12. Chosen'
    BY <1>1, <1>2, <1>9 DEF FirewallInv, Chosen, Pending, Reloads, Descriptor
  <1> QED BY <1>7, <1>8, <1>10, <1>11, <1>12 DEF FirewallInv

\* The next box.
NextBox(b) ==
    /\ b = Head(start.boxes) /\ b \in Pending /\ b \in Boxes
    /\ Pending \subseteq Boxes /\ Pending' = Pending \ {b}
    /\ start'.held = NULL /\ phase \in {"starting"} /\ phase' \in {"starting", "running"}
    /\ UNCHANGED user /\ ControlTyped'

\* What is left to load after one step of the start-up.
LEMMA StartStep ==
    ASSUME ControlTyped, phase = "starting", StartNext
    PROVE  NextBox(Head(start.boxes))
  <1>1. start.boxes \in LoadsLeft /\ start.boxes # <<>>
    BY DEF ControlTyped
  <1>2. /\ Head(start.boxes) \in Boxes /\ Tail(start.boxes) \in LoadsLeft
        /\ Len(start.boxes) = 1 <=> Tail(start.boxes) = <<>>
        /\ Entries(Tail(start.boxes)) = Entries(start.boxes) \ {Head(start.boxes)}
        /\ Head(start.boxes) \in Entries(start.boxes) /\ Entries(start.boxes) \subseteq Boxes
    BY <1>1, SuffixStep
  <1>3. /\ start' = [boxes |-> Tail(start.boxes), held |-> NULL] /\ UNCHANGED user
        /\ phase' = IF Len(start.boxes) = 1 THEN "running" ELSE "starting"
    BY DEF StartNext
  <1>4. /\ start'.boxes = Tail(start.boxes) /\ start'.held = NULL
        /\ start' = [boxes |-> start'.boxes, held |-> start'.held]
    BY <1>3
  <1>5. ControlTyped'
    BY <1>2, <1>3, <1>4 DEF ControlTyped
  <1> QED BY <1>2, <1>3, <1>4, <1>5 DEF NextBox, Pending

\* The boxes that are left alone are accounted for as before.
LEMMA StartKeeps ==
    ASSUME FirewallInv, NEW b, NextBox(b), Sound(Now)', odd' = odd, cur' = cur,
           \A x \in Boxes \ {b} : new'[x] = new[x] /\ live'[x] = live[x],
           \/ new'[b] = new[b] /\ live'[b] = live[b]
           \/ new'[b] # NULL /\ live'[b] = live[b] + 1 /\ (new[b] # NULL => "raced" \in odd),
           Reloads(b) /\ odd \cap {"refused", "raced"} = {} =>
               Descriptor(b) = NULL \/ new'[b] = Descriptor(b)
    PROVE  FirewallInv'
  <1>1. Sound(Now) /\ Allocation /\ Chosen
    BY DEF FirewallInv, Sound
  <1>2. live[b] \in Int /\ Held(new[b]) \in {0, 1} /\ live[b] = Held(new[b]) /\ cur[b] = NULL
    BY <1>1, BoxTypes DEF NextBox, Allocation
  <1>3. \A x \in Boxes : cur[x] = NULL
    BY <1>1 DEF NextBox, Allocation
  <1>4. live'[b] - Held(cur'[b]) - Held(new'[b]) \in IF odd' \cap {"raced", "late"} # {} THEN {0, 1} ELSE {0}
    <2>1. Held(cur'[b]) = 0
      BY <1>2 DEF Held
    <2>2. CASE new'[b] = new[b] /\ live'[b] = live[b]
      BY <1>2, <2>1, <2>2
    <2>3. CASE new'[b] # NULL /\ live'[b] = live[b] + 1 /\ (new[b] # NULL => "raced" \in odd)
      <3>1. Held(new'[b]) = 1
        BY <2>3 DEF Held
      <3>2. CASE new[b] = NULL
        <4>1. live'[b] = 1
          BY <1>2, <2>3, <3>2 DEF Held
        <4> QED BY <2>1, <3>1, <4>1
      <3>3. CASE new[b] # NULL
        <4>1. live'[b] = 2 /\ odd' \cap {"raced", "late"} # {}
          BY <1>2, <2>3, <3>3 DEF Held
        <4> QED BY <2>1, <3>1, <4>1
      <3> QED BY <3>2, <3>3
    <2> QED BY <2>2, <2>3
  <1>5. Allocation'
    <2>1. phase' \in {"starting", "running"} /\ phase = "starting" /\ start'.held = NULL
      BY DEF NextBox
    <2>2. \A x \in Pending' : live'[x] = Held(new'[x])
      BY <1>1 DEF NextBox, Allocation
    <2>3. \A x \in Boxes : live'[x] - Held(cur'[x]) - Held(new'[x]) \in
                               IF odd' \cap {"raced", "late"} # {} THEN {0, 1} ELSE {0}
      <3> SUFFICES ASSUME NEW x \in Boxes, x # b
                   PROVE  live'[x] - Held(cur'[x]) - Held(new'[x]) \in
                               IF odd' \cap {"raced", "late"} # {} THEN {0, 1} ELSE {0}
        BY <1>4
      <3>1. live'[x] - Held(cur'[x]) - Held(new'[x]) = live[x] - Held(cur[x]) - Held(new[x])
        OBVIOUS
      <3>2. live[x] - Held(cur[x]) - Held(new[x]) \in IF odd \cap {"raced", "late"} # {} THEN {0, 1} ELSE {0}
        BY <1>1, <2>1 DEF Allocation
      <3> QED BY <3>1, <3>2
    <2> QED BY <1>3, <2>1, <2>2, <2>3 DEF Allocation
  <1>6. Chosen'
    <2>1. \A x : Descriptor(x)' = Descriptor(x)
      BY DEF Descriptor, NextBox
    <2>2. SUFFICES ASSUME odd \cap {"refused", "raced"} = {}
                   PROVE  \A x \in {y \in Boxes : Reloads(y) /\ Descriptor(y) # NULL} :
                              IF new'[x] # NULL THEN new'[x] = Descriptor(x)
                              ELSE x \in Pending' \/ cur'[x] = Descriptor(x)
      BY <2>1 DEF Chosen, Reloads, NextBox
    <2>3. \A x \in {y \in Boxes : Reloads(y) /\ Descriptor(y) # NULL} :
              IF new[x] # NULL THEN new[x] = Descriptor(x)
              ELSE x \in Pending \/ cur[x] = Descriptor(x)
      BY <1>1, <2>2 DEF Chosen, NextBox
    <2> QED BY <2>2, <2>3 DEF NextBox
  <1> QED BY <1>5, <1>6 DEF FirewallInv, Sound, NextBox

\* A list that the start-up does not load keeps the invariant.
LEMMA SkipsKeep == ASSUME FirewallInv, StartSkips PROVE FirewallInv'
  <1> DEFINE b == Head(start.boxes)
  <1>0. ControlTyped /\ Sound(Now) /\ Chosen /\ phase = "starting"
    BY DEF FirewallInv, Sound, StartSkips
  <1>1. NextBox(b)
    BY <1>0, StartStep DEF StartSkips
  <1>2. b \in Boxes
    BY <1>1 DEF NextBox
  <1>3. CASE (~Reloads(b) \/ new[b] # NULL) /\ Become(Now)
    <2>1. Sound(Now)' /\ UNCHANGED <<fw, cur, new, live, malware, conns, drift, odd>>
      BY <1>0, <1>3, SameState
    <2>2. Reloads(b) /\ odd \cap {"refused", "raced"} = {} => Descriptor(b) = NULL \/ new'[b] = Descriptor(b)
      BY <1>0, <1>2, <1>3, <2>1 DEF Chosen
    <2> HIDE DEF b
    <2> QED BY <1>1, <2>1, <2>2, StartKeeps
  <1>4. CASE Descriptor(b) = NULL /\ Become(Publish(Now, b, NULL))
    <2> DEFINE t == Publish(Now, b, NULL)
    <2>1. Sound(t) /\ Posted(Now, t, b, NULL) /\ t.odd = odd
      BY <1>0, <1>2, PublishSound, NowFields
    <2> HIDE DEF t
    <2>2. Now' = t
      BY <1>4, <2>1, NextFields DEF Sound, StateTyped, t
    <2>3. /\ Sound(Now)' /\ odd' = odd /\ cur' = cur /\ new'[b] = new[b] /\ live'[b] = live[b]
          /\ \A x \in Boxes \ {b} : new'[x] = new[x] /\ live'[x] = live[x]
      BY <2>1, <2>2, NowFields DEF Posted, Now
    <2> HIDE DEF b
    <2> QED BY <1>1, <1>4, <2>3, StartKeeps
  <1> QED BY <1>3, <1>4 DEF StartSkips

\* Building a list at the start keeps the invariant.
LEMMA BuildsKeep == ASSUME FirewallInv, StartBuilds PROVE FirewallInv'
  <1> DEFINE b == Head(start.boxes)
             d == Descriptor(b)
  <1>0. ControlTyped /\ Sound(Now) /\ Allocation /\ Chosen
    BY DEF FirewallInv, Sound
  <1>1. /\ phase = "starting" /\ Reloads(b) /\ new[b] = NULL /\ d # NULL
        /\ start' = [start EXCEPT !.held = d] /\ UNCHANGED <<user, phase>> /\ Become(Now)
    BY DEF StartBuilds
  <1>2. b \in Boxes
    BY <1>0, <1>1, SuffixStep DEF ControlTyped
  <1>3. d \in Lists[b]
    BY <1>0, <1>1, <1>2, DescriptorType
  <1>4. Sound(Now)' /\ UNCHANGED <<fw, cur, new, live, malware, conns, drift, odd>>
    BY <1>0, <1>1, SameState
  <1>5. start = [boxes |-> start.boxes, held |-> start.held]
    BY <1>0 DEF ControlTyped
  <1> HIDE DEF d
  <1>6. start' = [boxes |-> start.boxes, held |-> d]
    BY <1>1, <1>5
  <1>7. start'.boxes = start.boxes /\ start'.held = d
    BY <1>6
  <1>8. ControlTyped'
    BY <1>0, <1>1, <1>3, <1>6, <1>7 DEF ControlTyped, Reloads
  <1>9. Allocation'
    BY <1>0, <1>1, <1>4, <1>7 DEF Allocation, Pending
  <1>10. Chosen'
    <2>1. \A x : Descriptor(x)' = Descriptor(x)
      BY <1>1 DEF Descriptor
    <2> QED BY <1>0, <1>1, <1>4, <1>7, <2>1 DEF Chosen, Pending, Reloads, d
  <1> QED BY <1>4, <1>8, <1>9, <1>10 DEF FirewallInv, Sound

\* Storing the list built at the start keeps the invariant.
LEMMA PublishesKeep == ASSUME FirewallInv, StartPublishes PROVE FirewallInv'
  <1> DEFINE b == Head(start.boxes)
             p == Publish(Now, b, start.held)
             t == IF b = "white" THEN Enable(p) ELSE p
  <1>0. ControlTyped /\ Sound(Now) /\ Chosen /\ Allocation /\ phase = "starting" /\ start.held # NULL
    BY DEF FirewallInv, Sound, StartPublishes
  <1>1. NextBox(b)
    BY <1>0, StartStep DEF StartPublishes
  <1>2. b \in Boxes /\ start.held \in Lists[b] \cup {NULL}
    BY <1>0, <1>1 DEF NextBox, ControlTyped
  <1>3. Sound(t) /\ Posted(Now, t, b, start.held) /\ t.odd = odd
    <2>1. Sound(p) /\ Posted(Now, p, b, start.held) /\ p.odd = odd
      BY <1>0, <1>2, PublishSound, NowFields
    <2> HIDE DEF p
    <2>2. Sound(t) /\ t.cur = p.cur /\ t.new = p.new /\ t.live = p.live /\ t.odd = p.odd
      BY <2>1, EnableSound
    <2> QED BY <2>1, <2>2 DEF Posted
  <1>4. Become(t)
    BY DEF StartPublishes
  <1> HIDE DEF t
  <1>5. Now' = t
    BY <1>3, <1>4, NextFields DEF Sound, StateTyped
  <1>6. /\ Sound(Now)' /\ odd' = odd /\ cur' = cur /\ new'[b] = start.held /\ live'[b] = live[b] + 1
        /\ \A x \in Boxes \ {b} : new'[x] = new[x] /\ live'[x] = live[x]
    BY <1>0, <1>3, <1>5, NowFields DEF Posted, Now
  <1>7. new[b] # NULL => "raced" \in odd
    BY <1>0 DEF Allocation
  <1>8. odd \cap {"refused", "raced"} = {} => new'[b] = Descriptor(b)
    BY <1>0, <1>6 DEF Chosen
  <1> HIDE DEF b
  <1> QED BY <1>0, <1>1, <1>6, <1>7, <1>8, StartKeeps

\* pd_housekeeping keeps the count and the newest list.
LEMMA HousekeepingKeeps ==
    ASSUME FirewallInv, NEW branch \in Branches, pd_housekeeping(branch) PROVE FirewallInv'
  <1>0. ControlTyped /\ Sound(Now) /\ Chosen /\ Allocation
    BY DEF FirewallInv, Sound
  <1>1. phase = "running" /\ UNCHANGED <<user, phase, start>>
    BY DEF pd_housekeeping
  <1>2. Sound(Now)' /\ Loaded(Now, Now')
    BY <1>0, HousekeepingSound
  <1>3. odd' = odd /\ \A b \in Boxes :
            \/ cur'[b] = cur[b] /\ new'[b] = new[b] /\ live'[b] = live[b]
            \/ /\ new[b] # NULL /\ new'[b] = NULL /\ cur'[b] = new[b]
               /\ live'[b] = live[b] - Held(cur[b])
    BY <1>2 DEF Loaded, BoxLoaded, Now
  <1>4. ControlTyped'
    BY <1>0, <1>1 DEF ControlTyped, Reloads
  <1>5. start.boxes = <<>> /\ start.held = NULL /\ Pending = {} /\ Pending' = {}
    BY <1>0, <1>1, EntriesAre DEF ControlTyped, Pending
  <1>6. \A b \in Boxes : live'[b] - Held(cur'[b]) - Held(new'[b]) = live[b] - Held(cur[b]) - Held(new[b])
    <2> SUFFICES ASSUME NEW b \in Boxes
                 PROVE  live'[b] - Held(cur'[b]) - Held(new'[b]) = live[b] - Held(cur[b]) - Held(new[b])
      OBVIOUS
    <2>1. live[b] \in Int /\ Held(cur[b]) \in {0, 1} /\ Held(new[b]) \in {0, 1} /\ Held(NULL) = 0
      BY <1>0, BoxTypes DEF Held
    <2>2. CASE cur'[b] = cur[b] /\ new'[b] = new[b] /\ live'[b] = live[b]
      BY <2>2
    <2>3. CASE /\ new[b] # NULL /\ new'[b] = NULL /\ cur'[b] = new[b]
               /\ live'[b] = live[b] - Held(cur[b])
      BY <2>1, <2>3
    <2> QED BY <1>3, <2>2, <2>3
  <1>7. Allocation'
    BY <1>0, <1>1, <1>3, <1>5, <1>6 DEF Allocation
  <1>8. Chosen'
    <2>1. \A x : Descriptor(x)' = Descriptor(x)
      BY <1>1 DEF Descriptor
    <2>2. ASSUME odd \cap {"refused", "raced"} = {}, NEW b \in Boxes, Reloads(b), Descriptor(b) # NULL
          PROVE  IF new'[b] # NULL THEN new'[b] = Descriptor(b) ELSE cur'[b] = Descriptor(b)
      <3>1. IF new[b] # NULL THEN new[b] = Descriptor(b) ELSE cur[b] = Descriptor(b)
        BY <1>0, <1>1, <1>5, <2>2 DEF Chosen
      <3> QED BY <1>3, <3>1
    <2> QED BY <1>1, <1>3, <1>5, <2>1, <2>2 DEF Chosen, Reloads
  <1> QED BY <1>2, <1>4, <1>7, <1>8 DEF FirewallInv, Sound

\* The end of the capture destroys the lists.
LEMMA EndKeeps == ASSUME FirewallInv, PdRunEnds PROVE FirewallInv'
  <1> DEFINE v == [b \in Boxes |-> live[b] - Held(cur[b]) - Held(new[b])]
             f == [c \in Conns |-> NULL]
             t == [Now EXCEPT !.live = v, !.conns = f, !.drift = {}]
  <1>0. ControlTyped /\ Sound(Now) /\ Allocation /\ Now \in State /\ StateTyped(Now)
    BY DEF FirewallInv, Sound, StateTyped
  <1>1. phase = "running" /\ phase' = "freed" /\ UNCHANGED <<user, start>> /\ Become(t)
    BY NowFields DEF PdRunEnds
  <1>3. \A b \in Boxes : v[b] \in Int /\ v[b] = live[b] - Held(cur[b]) - Held(new[b])
    BY <1>0, BoxTypes
  <1>4. v \in [Boxes -> Int]
    BY <1>3
  <1>5. f \in [Conns -> Connection \cup {NULL}] /\ \A c \in Conns : f[c] = NULL
    OBVIOUS
  <1> HIDE DEF v, f
  <1>6. t \in State /\ t.live = v /\ t.conns = f /\ t.drift = {} /\ t.cur = cur /\ t.new = new /\ t.odd = odd
    BY <1>0, <1>4, <1>5, NowFields DEF State
  <1> HIDE DEF t
  <1>7. Now' = t
    BY <1>1, <1>6, NextFields
  <1>8. StateTyped(t) /\ Decided(t)
    <2>1. Active(t) = {}
      BY <1>5, <1>6 DEF Active
    <2> QED BY <1>0, <1>6, <2>1, NowFields DEF StateTyped, Decided
  <1>9. live' = v /\ UNCHANGED <<cur, new, odd>>
    BY <1>1, <1>6 DEF Become
  <1>10. start.boxes = <<>> /\ start.held = NULL /\ Pending' = {}
    BY <1>0, <1>1, EntriesAre DEF ControlTyped, Pending
  <1>11. ControlTyped'
    BY <1>0, <1>1, <1>10 DEF ControlTyped, Reloads
  <1>12. Allocation'
    <2>1. \A b \in Boxes : live'[b] \in IF odd \cap {"raced", "late"} # {} THEN {0, 1} ELSE {0}
      BY <1>0, <1>1, <1>3, <1>9 DEF Allocation
    <2>2. \A b \in Boxes : live'[b] \in IF odd' \cap {"raced", "late"} = {} THEN {0}
                                        ELSE IF new'[b] = NULL THEN {0, 1} ELSE {0, 1, 2}
      BY <1>9, <2>1
    <2> QED BY <1>1, <1>10, <2>2 DEF Allocation
  <1>13. Chosen'
    BY <1>1 DEF Chosen
  <1> QED BY <1>7, <1>8, <1>11, <1>12, <1>13 DEF FirewallInv

\* The return of the capture thread keeps the invariant.
LEMMA ReturnedKeeps == ASSUME FirewallInv, Returned PROVE FirewallInv'
  <1>1. /\ phase = "freed" /\ phase' = "stopped"
        /\ UNCHANGED <<user, start, fw, cur, new, live, malware, conns, drift, odd>>
    BY DEF Returned
  <1>2. Now' = Now
    BY <1>1 DEF Now
  <1>3. start.boxes = <<>> /\ start.held = NULL
    BY <1>1 DEF FirewallInv, ControlTyped
  <1>4. ControlTyped'
    BY <1>1, <1>3 DEF FirewallInv, ControlTyped, Reloads
  <1>5. Allocation' /\ Chosen'
    BY <1>1, <1>3 DEF FirewallInv, Allocation, Chosen, Pending
  <1> QED BY <1>2, <1>4, <1>5 DEF FirewallInv

-----------------------------------------------------------------------------
\* The invariant holds at the start.
LEMMA FirewallStart == Init => FirewallInv
  <1> SUFFICES ASSUME Init PROVE FirewallInv
    OBVIOUS
  <1> DEFINE d == [b \in Boxes |-> CHOOSE l \in Lists[b] : TRUE]
  <1>1. \A b \in Boxes : d[b] \in Lists[b]
    BY FirewallAssumption
  <1>2. user \in [list : {d}, wl_mode : BOOLEAN, enabled : BOOLEAN]
    BY DEF Init
  <1>3. d \in [Boxes -> UNION {Lists[b] : b \in Boxes}]
    BY <1>1
  <1> HIDE DEF d
  <1>4. /\ user.list = d /\ user.wl_mode \in BOOLEAN /\ user.enabled \in BOOLEAN
        /\ user = [list |-> user.list, wl_mode |-> user.wl_mode, enabled |-> user.enabled]
    BY <1>2
  <1>5. /\ start = [boxes |-> StartOrder, held |-> NULL] /\ start.boxes = StartOrder /\ start.held = NULL
        /\ phase = "init"
    BY DEF Init
  <1>6. ControlTyped
    BY <1>1, <1>3, <1>4, <1>5, AllLeft DEF ControlTyped
  <1>7. /\ fw \in Switches /\ cur \in [Boxes -> AnyList] /\ new \in [Boxes -> AnyList]
        /\ live \in [Boxes -> Int] /\ malware \in Blacklists \cup {NULL} /\ odd \in SUBSET Events
        /\ conns \in [Conns -> Connection \cup {NULL}] /\ drift \in SUBSET Conns
    <2>1. NULL \in AnyList
      BY DEF AnyList
    <2>2. fw \in Switches
      BY <1>4 DEF Init, Switches
    <2> QED BY <2>1, <2>2 DEF Init
  <1>8. Now \in State
    BY <1>7 DEF State, Now
  <1>9. StateTyped(Now) /\ Decided(Now)
    <2>1. Active(Now) = {} /\ drift = {}
      BY NowFields DEF Init, Active
    <2>2. \A b \in Boxes : cur[b] = NULL /\ new[b] = NULL
      BY DEF Init
    <2> QED BY <1>8, <2>1, <2>2, NowFields DEF StateTyped, Decided
  <1>10. Allocation
    <2>1. Pending = Boxes /\ Held(NULL) = 0
      BY <1>5, AllLeft DEF Pending, Held
    <2>2. \A b \in Boxes : cur[b] = NULL /\ new[b] = NULL /\ live[b] = 0
      BY DEF Init
    <2>3. \A c \in Conns : conns[c] = NULL
      BY DEF Init
    <2>4. \A b \in Boxes : live[b] - Held(cur[b]) - Held(new[b]) = 0
      BY <2>1, <2>2
    <2> QED BY <1>5, <2>1, <2>2, <2>3, <2>4 DEF Allocation
  <1>11. Chosen
    <2>1. Pending = Boxes /\ \A b \in Boxes : new[b] = NULL
      BY <1>5, AllLeft DEF Pending, Init
    <2> QED BY <1>5, <2>1 DEF Chosen
  <1> QED BY <1>6, <1>9, <1>10, <1>11 DEF FirewallInv

\* Every step keeps the invariant.
LEMMA FirewallKept == FirewallInv /\ [Next]_vars => FirewallInv'
  <1> SUFFICES ASSUME FirewallInv, [Next]_vars PROVE FirewallInv'
    OBVIOUS
  <1>1. ASSUME NEW b \in Boxes, NEW l \in Lists[b], EditList(b, l) PROVE FirewallInv'
    BY <1>1, EditKeeps
  <1>2. CASE SetWhitelistMode
    BY <1>2, ModeKeeps
  <1>3. CASE setFirewallEnabled
    BY <1>3, EnabledKeeps
  <1>4. CASE pd_run
    BY <1>4, RunKeeps
  <1>5. CASE StartSkips
    BY <1>5, SkipsKeep
  <1>6. CASE StartBuilds
    BY <1>6, BuildsKeep
  <1>7. CASE StartPublishes
    BY <1>7, PublishesKeep
  <1>8. ASSUME NEW c \in Conns,
               \/ \E h \in Cached[c] \cup {NULL} : pd_new_connection(c, h)
               \/ BlockedInternally(c) \/ process_ndpi_data(c) \/ pd_purge_connection(c)
        PROVE  FirewallInv'
    BY <1>8, ConnectionsKeep
  <1>9. ASSUME NEW branch \in Branches, pd_housekeeping(branch) PROVE FirewallInv'
    BY <1>9, HousekeepingKeeps
  <1>10. CASE PdRunEnds
    BY <1>10, EndKeeps
  <1>11. CASE Returned
    BY <1>11, ReturnedKeeps
  <1>13. CASE EnableWhitelist
    BY <1>13, TurnedOnKeeps
  <1>12. CASE UNCHANGED vars
    <2>1. UNCHANGED <<user, phase, start, fw, cur, new, live, malware, conns, drift, odd>>
      BY <1>12 DEF vars
    <2>2. Now' = Now
      BY <2>1 DEF Now
    <2>3. ControlTyped'
      BY <2>1 DEF FirewallInv, ControlTyped, Reloads
    <2> QED BY <2>1, <2>2, <2>3, ListsKept DEF FirewallInv, Sound
  <1> QED BY <1>1, <1>2, <1>3, <1>4, <1>5, <1>6, <1>7, <1>8, <1>9, <1>10, <1>11, <1>12, <1>13 DEF Next

(* A connection is blocked if and only if the lists in force say so,       *)
(* outside the exceptions that drift names: the order in which lists,      *)
(* switches, connections and their hosts come does not matter.             *)
THEOREM RulesDecide == Spec => []BlocksByTheRules
  <1>1. FirewallInv => BlocksByTheRules
    <2> SUFFICES ASSUME FirewallInv, NEW c \in Active(Now) \ drift PROVE conns[c].to_block <=> Verdict(c)
      BY DEF BlocksByTheRules
    <2>1. conns[c].to_block <=> VerdictIn(Now, c)
      BY NowFields DEF FirewallInv, Decided
    <2>2. VerdictIn(Now, c) <=> Verdict(c)
      BY NowFields DEF VerdictIn, Verdict
    <2> QED BY <2>1, <2>2
  <1> QED BY <1>1, FirewallStart, FirewallKept, PTL DEF Spec

(* Every native list is destroyed once: unless two threads filled one      *)
(* mailbox or it was filled late, the allocated lists are those in force   *)
(* and in the mailboxes, and none when the capture has ended.              *)
THEOREM ListsDestroyedOnce == Spec => []ListsAccounted
  <1>1. FirewallInv => ListsAccounted
    <2> SUFFICES ASSUME FirewallInv PROVE ListsAccounted
      OBVIOUS
    <2>0. Sound(Now) /\ Now \in State /\ StateTyped(Now)
      BY DEF FirewallInv, Sound, StateTyped
    <2>1. \A b \in Boxes : Refs(b) = Held(cur[b]) + Held(new[b])
      BY DEF Refs
    <2>2. ASSUME NEW b \in Boxes
          PROVE  /\ live[b] \in 0..3 /\ {cur[b], new[b]} \subseteq Lists[b] \cup {NULL}
                 /\ odd \cap {"raced", "late"} = {} =>
                        live[b] = IF phase \in {"freed", "stopped"} THEN 0 ELSE Refs(b)
      <3>1. /\ live[b] \in Int /\ Held(cur[b]) \in {0, 1} /\ Held(new[b]) \in {0, 1}
            /\ cur[b] \in Lists[b] \cup {NULL} /\ new[b] \in Lists[b] \cup {NULL}
        BY <2>0, BoxTypes
      <3>2. Refs(b) = Held(cur[b]) + Held(new[b])
        BY <2>1
      <3>3. CASE phase \in {"freed", "stopped"}
        <4>1. live[b] \in IF odd \cap {"raced", "late"} = {} THEN {0}
                          ELSE IF new[b] = NULL THEN {0, 1} ELSE {0, 1, 2}
          BY <3>3 DEF FirewallInv, Allocation
        <4> QED BY <3>1, <3>3, <4>1
      <3>4. CASE phase \notin {"freed", "stopped"}
        <4>1. live[b] - Held(cur[b]) - Held(new[b]) \in IF odd \cap {"raced", "late"} # {} THEN {0, 1} ELSE {0}
          BY <3>4 DEF FirewallInv, Allocation
        <4>2. CASE odd \cap {"raced", "late"} # {}
          <5>1. live[b] - Held(cur[b]) - Held(new[b]) \in {0, 1}
            BY <4>1, <4>2
          <5> QED BY <3>1, <4>2, <5>1
        <4>3. CASE odd \cap {"raced", "late"} = {}
          BY <3>1, <3>2, <3>4, <4>1, <4>3
        <4> QED BY <4>2, <4>3
      <3> QED BY <3>3, <3>4
    <2>3. TypeOK
      <3>1. /\ malware \in Blacklists \cup {NULL} /\ conns \in [Conns -> Connection \cup {NULL}]
            /\ drift \subseteq Active(Now) /\ odd \subseteq Events
        BY <2>0, NowFields DEF StateTyped, State
      <3>2. phase \in {"init", "starting", "running", "freed", "stopped"}
        BY DEF FirewallInv, ControlTyped
      <3> QED BY <2>2, <3>1, <3>2 DEF TypeOK
    <2> QED BY <2>2, <2>3 DEF ListsAccounted
  <1> QED BY <1>1, FirewallStart, FirewallKept, PTL DEF Spec

(* No choice of the user is lost between the start, which loads the lists  *)
(* on the capture thread, and the changes on the main thread, unless a     *)
(* reload was refused or raced.                                            *)
THEOREM ChoicesReach == Spec => []NewestIsChosen
  <1>1. FirewallInv => NewestIsChosen
    <2> SUFFICES ASSUME FirewallInv, phase = "running", odd \cap {"refused", "raced"} = {},
                        NEW b \in Boxes, Reloads(b), Descriptor(b) # NULL
                 PROVE  (IF new[b] # NULL THEN new[b] ELSE cur[b]) = Descriptor(b)
      BY DEF NewestIsChosen
    <2>1. Pending = {}
      BY EntriesAre DEF FirewallInv, ControlTyped, Pending
    <2> QED BY <2>1 DEF FirewallInv, Chosen
  <1> QED BY <1>1, FirewallStart, FirewallKept, PTL DEF Spec

-----------------------------------------------------------------------------
(* The rules about apps.                                                   *)

\* The entries of a queue.
Waiting(q) == {q[i] : i \in DOMAIN q}

\* Types.
RulesTyped ==
    /\ installed \in [Pkgs -> AppUids \cup {0}]
    /\ broadcasts \in Seq(Pkgs)
    /\ mApps \in [AppUids -> Pkgs \cup {0}]
    /\ appRules \in SUBSET Pkgs /\ saved \in SUBSET Pkgs
    /\ mPackageToUid \in [Pkgs -> AppUids \cup {0}]
    /\ mUidToGrace \in [AppUids -> {"none", "running", "over"}]

(* What holds as long as nothing exceptional has happened: the rules are   *)
(* the packages that the user wants, the uids are those that the list last *)
(* saw for them, and a package whose uid has changed since has a broadcast *)
(* on the way.                                                             *)
Followed ==
    mixed = {} =>
        /\ wanted = appRules /\ saved = appRules
        /\ mUids = {mPackageToUid[p] : p \in appRules} \ {0}
        /\ \A p \in appRules : installed[p] = mPackageToUid[p] \/ p \in Waiting(broadcasts)
        /\ lifted = {u \in AppUids : mUidToGrace[u] = "running"}

RulesInv == RulesTyped /\ Followed

\* 0, which stands for no package and no uid, is neither.
LEMMA Numbers == 0 \notin Pkgs /\ 0 \notin AppUids /\ Pkgs \subseteq Nat
  BY RulesAssumption

\* The entries of a queue.
LEMMA WaitingAppend ==
    ASSUME NEW S, NEW q \in Seq(S), NEW x \in S
    PROVE  Append(q, x) \in Seq(S) /\ Waiting(Append(q, x)) = Waiting(q) \cup {x}
  <1>1. /\ Append(q, x) \in Seq(S) /\ DOMAIN Append(q, x) = 1 .. Len(q) + 1 /\ DOMAIN q = 1 .. Len(q)
        /\ Len(q) \in Nat
        /\ \A i \in 1 .. Len(q) + 1 : Append(q, x)[i] = IF i <= Len(q) THEN q[i] ELSE x
    OBVIOUS
  <1>2. \A y : y \in Waiting(Append(q, x)) <=> \E i \in 1 .. Len(q) + 1 : y = Append(q, x)[i]
    BY <1>1 DEF Waiting
  <1>3. \A y : y \in Waiting(q) <=> \E i \in 1 .. Len(q) : y = q[i]
    BY <1>1 DEF Waiting
  <1>4. ASSUME NEW y \in Waiting(Append(q, x)) PROVE y \in Waiting(q) \cup {x}
    BY <1>1, <1>2, <1>3, <1>4
  <1>5. ASSUME NEW y \in Waiting(q) \cup {x} PROVE y \in Waiting(Append(q, x))
    <2>1. CASE y = x
      <3>1. Len(q) + 1 \in 1 .. Len(q) + 1 /\ Append(q, x)[Len(q) + 1] = x
        BY <1>1
      <3> QED BY <1>2, <2>1, <3>1
    <2>2. CASE y \in Waiting(q)
      BY <1>1, <1>2, <1>3, <2>2
    <2> QED BY <2>1, <2>2
  <1> QED BY <1>1, <1>4, <1>5

\* The entries of a queue after its head is taken.
LEMMA WaitingTail ==
    ASSUME NEW S, NEW q \in Seq(S), q # <<>>
    PROVE  /\ Tail(q) \in Seq(S) /\ Head(q) \in S
           /\ \A x \in Waiting(q) : x = Head(q) \/ x \in Waiting(Tail(q))
  <1>1. /\ Tail(q) \in Seq(S) /\ Head(q) \in S /\ Head(q) = q[1] /\ DOMAIN q = 1 .. Len(q) /\ Len(q) \in Nat
        /\ DOMAIN Tail(q) = 1 .. Len(q) - 1
        /\ \A i \in 1 .. Len(q) - 1 : Tail(q)[i] = q[i + 1]
    OBVIOUS
  <1>2. ASSUME NEW x \in Waiting(q), x # Head(q) PROVE x \in Waiting(Tail(q))
    <2>1. PICK i \in 1 .. Len(q) : x = q[i]
      BY <1>1 DEF Waiting
    <2>2. i - 1 \in 1 .. Len(q) - 1 /\ i - 1 + 1 = i
      BY <1>1, <1>2, <2>1
    <2>3. Tail(q)[i - 1] = x
      BY <1>1, <2>1, <2>2
    <2> QED BY <1>1, <2>2, <2>3 DEF Waiting
  <1> QED BY <1>1, <1>2

\* The empty queue has no entries.
LEMMA WaitingEmpty == Waiting(<<>>) = {}
  BY DEF Waiting

\* The package that a uid resolves to.
LEMMA FirstIs ==
    ASSUME NEW u, Sharing(u) # {} PROVE FirstOf(u) \in Sharing(u)
  <1>1. Sharing(u) \subseteq Nat
    BY Numbers DEF Sharing
  <1> DEFINE less == OpToRel(<, Nat)
  <1>2. \A p, q \in Nat : p < q => <<p, q>> \in less
    BY DEF OpToRel
  <1>3. IsWellFoundedOn(less, Nat)
    BY NatLessThanWellFounded
  <1> HIDE DEF less
  <1>4. PICK p \in Sharing(u) : \A q \in Sharing(u) : ~(<<q, p>> \in less)
    BY <1>1, <1>3, WFMin
  <1>5. ASSUME NEW q \in Sharing(u) PROVE p <= q
    <2>1. p \in Nat /\ q \in Nat
      BY <1>1
    <2>2. ~(q < p)
      BY <1>2, <1>4, <2>1
    <2> QED BY <2>1, <2>2
  <1> QED BY <1>5 DEF FirstOf

\* A uid resolves to a package, or to none when no package has it.
LEMMA ResolvedIs ==
    ASSUME RulesTyped, NEW u \in AppUids
    PROVE  /\ getAppByUid(u) \in Pkgs \cup {0}
           /\ getAppByUid(u) = 0 => Sharing(u) = {}
           /\ [mApps EXCEPT ![u] = getAppByUid(u)] \in [AppUids -> Pkgs \cup {0}]
  <1>1. getAppByUid(u) \in Pkgs \cup {0} /\ (getAppByUid(u) = 0 => Sharing(u) = {})
    <2>1. CASE Sharing(u) # {}
      <3>1. FirstOf(u) \in Pkgs /\ FirstOf(u) # 0
        BY <2>1, FirstIs, Numbers DEF Sharing
      <3> QED BY <3>1, Numbers DEF getAppByUid, RulesTyped
    <2>2. CASE Sharing(u) = {}
      BY <2>2, Numbers DEF getAppByUid, RulesTyped
    <2> QED BY <2>1, <2>2
  <1> QED BY <1>1 DEF RulesTyped

-----------------------------------------------------------------------------
\* The invariant holds at the start.
LEMMA RulesStart == RulesInit => RulesInv
  <1> SUFFICES ASSUME RulesInit PROVE RulesInv
    OBVIOUS
  <1>1. RulesTyped
    BY DEF RulesInit, RulesTyped
  <1>2. Followed
    BY DEF RulesInit, Followed
  <1> QED BY <1>1, <1>2 DEF RulesInv

\* The packages change, and their broadcast is sent.
LEMMA PackagesKeep ==
    ASSUME RulesInv, NEW p \in Pkgs, (\E u \in AppUids : Install(p, u)) \/ Uninstall(p)
    PROVE  RulesInv'
  <1>1. PICK u \in AppUids \cup {0} : installed' = [installed EXCEPT ![p] = u]
    BY DEF Install, Uninstall
  <1>2. /\ broadcasts' = Append(broadcasts, p)
        /\ UNCHANGED <<mApps, appRules, mPackageToUid, mUids, saved, mUidToGrace, wanted, lifted, mixed>>
    BY DEF Install, Uninstall
  <1>3. broadcasts' \in Seq(Pkgs) /\ Waiting(broadcasts') = Waiting(broadcasts) \cup {p}
    BY <1>2, WaitingAppend DEF RulesInv, RulesTyped
  <1>4. RulesTyped'
    BY <1>1, <1>2, <1>3 DEF RulesInv, RulesTyped
  <1>5. Followed'
    <2>1. \A x \in Pkgs : x # p => installed'[x] = installed[x]
      BY <1>1 DEF RulesInv, RulesTyped
    <2> QED BY <1>2, <1>3, <2>1 DEF RulesInv, RulesTyped, Followed
  <1> QED BY <1>4, <1>5 DEF RulesInv

\* A broadcast is received.
LEMMA BroadcastKeeps == ASSUME RulesInv, uidMappingChanged PROVE RulesInv'
  <1> DEFINE p == Head(broadcasts)
             old == mPackageToUid[p]
             fresh == installed[p]
  <1>0. RulesTyped /\ Followed
    BY DEF RulesInv
  <1>1. /\ broadcasts # <<>> /\ broadcasts' = Tail(broadcasts)
        /\ UNCHANGED <<installed, appRules, saved, mUidToGrace, wanted, lifted>>
    BY DEF uidMappingChanged
  <1>2. /\ broadcasts' \in Seq(Pkgs) /\ p \in Pkgs
        /\ \A x \in Waiting(broadcasts) : x = p \/ x \in Waiting(broadcasts')
    BY <1>0, <1>1, WaitingTail DEF RulesTyped
  <1>3. CASE p \notin appRules /\ UNCHANGED <<mApps, mPackageToUid, mUids, mixed>>
    BY <1>0, <1>1, <1>2, <1>3 DEF RulesInv, RulesTyped, Followed
  <1>4. CASE uidMappingOf(p)
    <2>1. /\ p \in appRules /\ mPackageToUid' = [mPackageToUid EXCEPT ![p] = fresh]
          /\ mUids' = IF old = fresh THEN mUids ELSE (mUids \ {old}) \cup ({fresh} \ {0})
          /\ mApps' = IF fresh = 0 THEN mApps ELSE [mApps EXCEPT ![fresh] = getAppByUid(fresh)]
          /\ mixed' = IF old \notin {0, fresh} THEN mixed \cup Shared(p, old) ELSE mixed
      BY <1>4 DEF uidMappingOf
    <2>2. fresh \in AppUids \cup {0} /\ old \in AppUids \cup {0}
      BY <1>0, <1>2 DEF RulesTyped
    <2> HIDE DEF p, old, fresh
    <2>3. RulesTyped'
      <3>1. fresh # 0 => [mApps EXCEPT ![fresh] = getAppByUid(fresh)] \in [AppUids -> Pkgs \cup {0}]
        BY <1>0, <2>2, ResolvedIs
      <3>2. mApps' \in [AppUids -> Pkgs \cup {0}]
        BY <1>0, <2>1, <3>1 DEF RulesTyped
      <3>3. mPackageToUid' \in [Pkgs -> AppUids \cup {0}]
        BY <1>0, <2>1, <2>2 DEF RulesTyped
      <3> QED BY <1>0, <1>1, <1>2, <3>2, <3>3 DEF RulesTyped
    <2>4. ASSUME mixed' = {} PROVE Followed'
      <3>1. mixed = {}
        BY <2>1, <2>4
      <3>2. old \notin {0, fresh} => \A x \in appRules \ {p} : mPackageToUid[x] # old
        <4> SUFFICES ASSUME old \notin {0, fresh}, NEW x \in appRules \ {p} PROVE mPackageToUid[x] # old
          OBVIOUS
        <4>1. Shared(p, old) = {}
          BY <2>1, <2>4
        <4> QED BY <4>1 DEF Shared
      <3>3. /\ \A x \in appRules \ {p} : mPackageToUid'[x] = mPackageToUid[x]
            /\ mPackageToUid'[p] = fresh /\ mPackageToUid[p] = old /\ installed[p] = fresh
        BY <1>0, <1>2, <2>1 DEF RulesTyped, old, fresh
      <3>4. mUids' = {mPackageToUid'[x] : x \in appRules'} \ {0}
        <4>1. mUids = {mPackageToUid[x] : x \in appRules} \ {0}
          BY <1>0, <3>1 DEF Followed
        <4>2. appRules' = appRules
          BY <1>1
        <4>3. CASE old = fresh
          <5>1. \A x \in appRules : mPackageToUid'[x] = mPackageToUid[x]
            BY <3>3, <4>3
          <5> QED BY <2>1, <4>1, <4>2, <4>3, <5>1
        <4>4. CASE old # fresh
          <5>1. \A y : y \in mUids' <=> (y \in mUids /\ y # old) \/ (y = fresh /\ y # 0)
            BY <2>1, <4>4
          <5>2. \A y : y \in mUids <=> y # 0 /\ \E x \in appRules : y = mPackageToUid[x]
            BY <4>1
          <5>3. \A y : y \in {mPackageToUid'[x] : x \in appRules'} \ {0}
                       <=> y # 0 /\ \E x \in appRules : y = mPackageToUid'[x]
            BY <4>2
          <5>4. \A y : y \in mUids' <=> y # 0 /\ \E x \in appRules : y = mPackageToUid'[x]
            BY <2>1, <3>2, <3>3, <4>4, <5>1, <5>2
          <5> QED BY <5>3, <5>4
        <4> QED BY <4>3, <4>4
      <3>5. \A x \in appRules' : installed'[x] = mPackageToUid'[x] \/ x \in Waiting(broadcasts')
        BY <1>0, <1>1, <1>2, <3>1, <3>3 DEF Followed
      <3> QED BY <1>0, <1>1, <3>1, <3>4, <3>5 DEF Followed
    <2> QED BY <2>3, <2>4 DEF RulesInv, Followed
  <1> QED BY <1>3, <1>4 DEF uidMappingChanged


\* addRule, as addApp and addAppByUid do it for a package.
LEMMA AddRuleFollows ==
    ASSUME RulesInv, NEW p \in Pkgs, addRule(p), mixed = {}
    PROVE  /\ wanted' = appRules'
           /\ mUids' = {mPackageToUid'[x] : x \in appRules'} \ {0}
           /\ \A x \in appRules' : installed[x] = mPackageToUid'[x] \/ x \in Waiting(broadcasts)
           /\ Refused(p) => appRules' = appRules
  <1>0. /\ RulesTyped /\ wanted = appRules /\ mUids = {mPackageToUid[x] : x \in appRules} \ {0}
        /\ \A x \in appRules : installed[x] = mPackageToUid[x] \/ x \in Waiting(broadcasts)
    BY DEF RulesInv, Followed
  <1>1. CASE Refused(p)
    <2>1. UNCHANGED <<appRules, mPackageToUid, mUids>>
      BY <1>1 DEF addRule
    <2>2. wanted' = appRules
      BY <1>0, <1>1 DEF addRule, Refused
    <2> QED BY <1>0, <2>1, <2>2
  <1>2. CASE ~Refused(p)
    <2>1. /\ appRules' = appRules \cup {p} /\ mPackageToUid' = [mPackageToUid EXCEPT ![p] = installed[p]]
          /\ mUids' = mUids \cup {installed[p]} /\ wanted' = wanted \cup {p}
          /\ p \notin appRules /\ installed[p] # 0
      BY <1>2 DEF addRule, Refused
    <2>2. mPackageToUid'[p] = installed[p] /\ \A x \in appRules : mPackageToUid'[x] = mPackageToUid[x]
      BY <1>0, <2>1 DEF RulesTyped
    <2>3. \A y : y \in mUids' <=> (y # 0 /\ \E x \in appRules : y = mPackageToUid[x]) \/ y = mPackageToUid'[p]
      BY <1>0, <2>1, <2>2
    <2>4. \A y : y \in mUids' <=> y # 0 /\ \E x \in appRules' : y = mPackageToUid'[x]
      BY <2>1, <2>2, <2>3
    <2>5. mUids' = {mPackageToUid'[x] : x \in appRules'} \ {0}
      BY <2>4
    <2> QED BY <1>0, <1>2, <2>1, <2>2, <2>5
  <1> QED BY <1>1, <1>2

\* Adding a rule keeps the types.
LEMMA AddRuleTyped ==
    ASSUME RulesTyped, NEW p \in Pkgs, addRule(p)
    PROVE  appRules' \in SUBSET Pkgs /\ mPackageToUid' \in [Pkgs -> AppUids \cup {0}]
  BY DEF RulesTyped, addRule

\* Adding an app keeps the invariant.
LEMMA AddKeeps == ASSUME RulesInv, NEW p \in Pkgs, addApp(p) PROVE RulesInv'
  <1>0. RulesTyped /\ addRule(p)
    BY DEF RulesInv, addApp
  <1>1. UNCHANGED <<installed, broadcasts, mApps, mUidToGrace>> /\ saved' \in {saved, appRules'}
    BY DEF addApp
  <1>2. RulesTyped'
    BY <1>0, <1>1, AddRuleTyped DEF RulesTyped
  <1>3. ASSUME mixed' = {} PROVE Followed'
    <2>1. mixed = {} /\ installed[p] \notin lifted
      BY <1>3 DEF addApp
    <2>2. /\ wanted' = appRules' /\ mUids' = {mPackageToUid'[x] : x \in appRules'} \ {0}
          /\ \A x \in appRules' : installed[x] = mPackageToUid'[x] \/ x \in Waiting(broadcasts)
          /\ Refused(p) => appRules' = appRules
      BY <1>0, <2>1, AddRuleFollows
    <2>3. saved' = appRules'
      BY <2>1, <2>2 DEF addApp, RulesInv, Followed
    <2>4. lifted' = lifted
      BY <2>1 DEF addApp
    <2> QED BY <1>1, <2>1, <2>2, <2>3, <2>4 DEF RulesInv, Followed
  <1> QED BY <1>2, <1>3 DEF RulesInv, Followed

\* The grace period of a uid ends with an edit that names it.
LEMMA GraceEnds ==
    ASSUME RulesInv, NEW u \in AppUids, mUidToGrace' = [mUidToGrace EXCEPT ![u] = "none"],
           lifted' = lifted \ {u}
    PROVE  /\ mUidToGrace' \in [AppUids -> {"none", "running", "over"}]
           /\ mixed = {} => lifted' = {x \in AppUids : mUidToGrace'[x] = "running"}
  <1>1. mUidToGrace' \in [AppUids -> {"none", "running", "over"}]
    BY DEF RulesInv, RulesTyped
  <1>2. ASSUME mixed = {} PROVE lifted' = {x \in AppUids : mUidToGrace'[x] = "running"}
    <2>1. lifted = {x \in AppUids : mUidToGrace[x] = "running"}
      BY <1>2 DEF RulesInv, Followed
    <2>2. mUidToGrace'[u] = "none" /\ \A x \in AppUids \ {u} : mUidToGrace'[x] = mUidToGrace[x]
      BY DEF RulesInv, RulesTyped
    <2> QED BY <2>1, <2>2
  <1> QED BY <1>1, <1>2

\* Adding an app by its uid keeps the invariant.
LEMMA AddByUidKeeps == ASSUME RulesInv, NEW u \in AppUids, addAppByUid(u) PROVE RulesInv'
  <1> DEFINE g == getAppByUid(u)
  <1>0. RulesTyped /\ g \in Pkgs \cup {0}
    BY ResolvedIs DEF RulesInv
  <1>1. /\ UNCHANGED <<installed, broadcasts>> /\ mApps' = [mApps EXCEPT ![u] = g]
        /\ IF g = 0 THEN UNCHANGED <<appRules, mPackageToUid, mUids, wanted>> ELSE addRule(g)
        /\ saved' = appRules' /\ mixed' = mixed \cup Stale(u)
        /\ mUidToGrace' = [mUidToGrace EXCEPT ![u] = "none"] /\ lifted' = lifted \ {u}
    BY DEF addAppByUid
  <1>2. mApps' \in [AppUids -> Pkgs \cup {0}]
    BY <1>0, <1>1, ResolvedIs
  <1>3. /\ mUidToGrace' \in [AppUids -> {"none", "running", "over"}]
        /\ mixed = {} => lifted' = {x \in AppUids : mUidToGrace'[x] = "running"}
    BY <1>1, GraceEnds
  <1> HIDE DEF g
  <1>4. appRules' \in SUBSET Pkgs /\ mPackageToUid' \in [Pkgs -> AppUids \cup {0}]
    BY <1>0, <1>1, AddRuleTyped DEF RulesTyped
  <1>5. RulesTyped'
    BY <1>0, <1>1, <1>2, <1>3, <1>4 DEF RulesTyped
  <1>6. ASSUME mixed' = {} PROVE Followed'
    <2>1. mixed = {}
      BY <1>1, <1>6
    <2>2. /\ wanted' = appRules' /\ mUids' = {mPackageToUid'[x] : x \in appRules'} \ {0}
          /\ \A x \in appRules' : installed[x] = mPackageToUid'[x] \/ x \in Waiting(broadcasts)
      <3>1. CASE g = 0
        BY <1>1, <2>1, <3>1 DEF RulesInv, Followed
      <3>2. CASE g # 0
        BY <1>0, <1>1, <2>1, <3>2, AddRuleFollows
      <3> QED BY <3>1, <3>2
    <2> QED BY <1>1, <1>3, <2>1, <2>2 DEF Followed
  <1> QED BY <1>5, <1>6 DEF RulesInv, Followed

\* removeRule, when nothing exceptional comes of it.
LEMMA RemoveRule ==
    ASSUME RulesInv, NEW p \in Pkgs, NEW why, removeRule(p, why), mixed' = {}
    PROVE  /\ mixed = {} /\ why = {} /\ appRules' = appRules \ {p}
           /\ mUids' = {mPackageToUid'[x] : x \in appRules'} \ {0}
           /\ \A x \in appRules' : installed[x] = mPackageToUid'[x] \/ x \in Waiting(broadcasts)
           /\ installed[p] # 0 => \A x \in appRules \ {p} : installed[x] # installed[p]
  <1> DEFINE u == installed[p]
  <1>1. /\ appRules' = appRules \ {p} /\ mUids' = mUids \ {u}
        /\ mPackageToUid' = IF u = 0 THEN mPackageToUid ELSE [mPackageToUid EXCEPT ![p] = 0]
    BY DEF removeRule
  <1>2. mixed = {} /\ why = {} /\ Shared(p, u) = {} /\ (p \in appRules => mPackageToUid[p] \in {0, u})
    BY DEF removeRule
  <1> HIDE DEF u
  <1>3. u # 0 => \A x \in appRules \ {p} : u # mPackageToUid[x] /\ u # installed[x]
    BY <1>2 DEF Shared
  <1>4. /\ RulesTyped /\ mUids = {mPackageToUid[x] : x \in appRules} \ {0}
        /\ \A x \in appRules : installed[x] = mPackageToUid[x] \/ x \in Waiting(broadcasts)
    BY <1>2 DEF RulesInv, Followed
  <1>5. \A x \in appRules' : mPackageToUid'[x] = mPackageToUid[x]
    BY <1>1, <1>4 DEF RulesTyped
  <1>6. mUids' = {mPackageToUid'[x] : x \in appRules'} \ {0}
    <2>1. \A y : y \in mUids <=> y # 0 /\ \E x \in appRules : y = mPackageToUid[x]
      BY <1>4
    <2>2. \A y : y \in mUids' <=> y \in mUids /\ y # u
      BY <1>1
    <2>3. \A y : y \in mUids' <=> y # 0 /\ \E x \in appRules' : y = mPackageToUid'[x]
      BY <1>1, <1>2, <1>3, <1>5, <2>1, <2>2
    <2> QED BY <2>3
  <1> QED BY <1>1, <1>2, <1>3, <1>4, <1>5, <1>6 DEF u


\* Removing a rule keeps the types.
LEMMA RemoveRuleTyped ==
    ASSUME RulesTyped, NEW p \in Pkgs, NEW why, removeRule(p, why)
    PROVE  appRules' \in SUBSET Pkgs /\ mPackageToUid' \in [Pkgs -> AppUids \cup {0}]
  BY DEF RulesTyped, removeRule

\* Removing an app keeps the invariant.
LEMMA RemoveKeeps == ASSUME RulesInv, NEW p \in Pkgs, removeApp(p) PROVE RulesInv'
  <1>0. RulesTyped /\ removeRule(p, {}) /\ saved' = appRules' /\ wanted' = wanted \ {p}
    BY DEF RulesInv, removeApp
  <1>1. UNCHANGED <<installed, broadcasts, mApps, mUidToGrace, lifted>>
    BY DEF removeApp
  <1>2. RulesTyped'
    BY <1>0, <1>1, RemoveRuleTyped DEF RulesTyped
  <1>3. ASSUME mixed' = {} PROVE Followed'
    <2>1. /\ mixed = {} /\ appRules' = appRules \ {p}
          /\ mUids' = {mPackageToUid'[x] : x \in appRules'} \ {0}
          /\ \A x \in appRules' : installed[x] = mPackageToUid'[x] \/ x \in Waiting(broadcasts)
      BY <1>0, <1>3, RemoveRule
    <2>2. wanted' = appRules' /\ lifted = {x \in AppUids : mUidToGrace[x] = "running"}
      BY <1>0, <2>1 DEF RulesInv, Followed
    <2> QED BY <1>0, <1>1, <2>1, <2>2 DEF Followed
  <1> QED BY <1>2, <1>3 DEF RulesInv, Followed

\* By uid: of the packages that have it, only the one it resolves to has a rule.
LEMMA RemoveByUidKeeps == ASSUME RulesInv, NEW u \in AppUids, removeAppByUid(u) PROVE RulesInv'
  <1> DEFINE g == getAppByUid(u)
  <1>0. RulesTyped /\ g \in Pkgs \cup {0} /\ (g = 0 => Sharing(u) = {})
    BY ResolvedIs DEF RulesInv
  <1>1. /\ UNCHANGED <<installed, broadcasts>> /\ mApps' = [mApps EXCEPT ![u] = g]
        /\ IF g = 0 THEN UNCHANGED <<appRules, mPackageToUid, mUids, mixed>> ELSE removeRule(g, Stale(u))
        /\ saved' = appRules' /\ wanted' = wanted \ (Sharing(u) \cup {g})
        /\ mUidToGrace' = [mUidToGrace EXCEPT ![u] = "none"] /\ lifted' = lifted \ {u}
    BY DEF removeAppByUid
  <1>2. mApps' \in [AppUids -> Pkgs \cup {0}] /\ (Stale(u) = {} /\ g # 0 => installed[g] = u)
    BY <1>0, <1>1, ResolvedIs DEF Stale
  <1>3. /\ mUidToGrace' \in [AppUids -> {"none", "running", "over"}]
        /\ mixed = {} => lifted' = {x \in AppUids : mUidToGrace'[x] = "running"}
    BY <1>1, GraceEnds
  <1> HIDE DEF g
  <1>4. appRules' \in SUBSET Pkgs /\ mPackageToUid' \in [Pkgs -> AppUids \cup {0}]
    BY <1>0, <1>1, RemoveRuleTyped DEF RulesTyped
  <1>5. RulesTyped'
    BY <1>0, <1>1, <1>2, <1>3, <1>4 DEF RulesTyped
  <1>6. ASSUME mixed' = {} PROVE Followed'
    <2>1. /\ mixed = {} /\ wanted' = appRules'
          /\ mUids' = {mPackageToUid'[x] : x \in appRules'} \ {0}
          /\ \A x \in appRules' : installed[x] = mPackageToUid'[x] \/ x \in Waiting(broadcasts)
      <3>1. CASE g = 0
        <4>1. mixed = {} /\ wanted' = wanted \ {0} /\ 0 \notin appRules
          BY <1>0, <1>1, <1>6, <3>1, Numbers DEF RulesTyped
        <4> QED BY <1>1, <3>1, <4>1 DEF RulesInv, Followed
      <3>2. CASE g # 0
        <4>1. g \in Pkgs /\ removeRule(g, Stale(u))
          BY <1>0, <1>1, <3>2
        <4>2. /\ mixed = {} /\ Stale(u) = {} /\ appRules' = appRules \ {g}
              /\ mUids' = {mPackageToUid'[x] : x \in appRules'} \ {0}
              /\ \A x \in appRules' : installed[x] = mPackageToUid'[x] \/ x \in Waiting(broadcasts)
              /\ installed[g] # 0 => \A x \in appRules \ {g} : installed[x] # installed[g]
          BY <1>6, <4>1, RemoveRule
        <4>3. installed[g] = u /\ u # 0
          BY <1>2, <3>2, <4>2, Numbers
        <4>4. wanted = appRules
          BY <4>2 DEF RulesInv, Followed
        <4>5. wanted' = appRules'
          BY <1>1, <4>2, <4>3, <4>4 DEF Sharing
        <4> QED BY <4>2, <4>5
      <3> QED BY <3>1, <3>2
    <2> QED BY <1>1, <1>3, <2>1 DEF Followed
  <1> QED BY <1>5, <1>6 DEF RulesInv, Followed

\* Grace periods.
LEMMA GraceKeeps ==
    ASSUME RulesInv,
           \/ \E u \in AppUids : unblockAppForMinutes(u) \/ GraceElapses(u)
           \/ checkGracePeriods
    PROVE  RulesInv'
  <1>0. RulesTyped /\ Followed
    BY DEF RulesInv
  <1>1. UNCHANGED <<installed, broadcasts, mApps, appRules, mPackageToUid, mUids, wanted, mixed>>
    BY DEF unblockAppForMinutes, GraceElapses, checkGracePeriods
  <1>2. saved' \in {saved, appRules}
    BY DEF unblockAppForMinutes, GraceElapses, checkGracePeriods
  <1>3. /\ mUidToGrace' \in [AppUids -> {"none", "running", "over"}]
        /\ mixed = {} => lifted' = {x \in AppUids : mUidToGrace'[x] = "running"}
    <2>0. mixed = {} => lifted = {x \in AppUids : mUidToGrace[x] = "running"}
      BY <1>0 DEF Followed
    <2>1. ASSUME NEW u \in AppUids, unblockAppForMinutes(u)
          PROVE  /\ mUidToGrace' \in [AppUids -> {"none", "running", "over"}]
                 /\ mixed = {} => lifted' = {x \in AppUids : mUidToGrace'[x] = "running"}
      <3>1. mUidToGrace' = [mUidToGrace EXCEPT ![u] = "running"] /\ lifted' = lifted \cup {u}
        BY <2>1 DEF unblockAppForMinutes
      <3>2. /\ mUidToGrace' \in [AppUids -> {"none", "running", "over"}]
            /\ mUidToGrace'[u] = "running" /\ \A x \in AppUids \ {u} : mUidToGrace'[x] = mUidToGrace[x]
        BY <1>0, <3>1 DEF RulesTyped
      <3> QED BY <2>0, <3>1, <3>2
    <2>2. ASSUME NEW u \in AppUids, GraceElapses(u)
          PROVE  /\ mUidToGrace' \in [AppUids -> {"none", "running", "over"}]
                 /\ mixed = {} => lifted' = {x \in AppUids : mUidToGrace'[x] = "running"}
      <3>1. mUidToGrace' = [mUidToGrace EXCEPT ![u] = "over"] /\ lifted' = lifted \ {u}
        BY <2>2 DEF GraceElapses
      <3>2. /\ mUidToGrace' \in [AppUids -> {"none", "running", "over"}]
            /\ mUidToGrace'[u] = "over" /\ \A x \in AppUids \ {u} : mUidToGrace'[x] = mUidToGrace[x]
        BY <1>0, <3>1 DEF RulesTyped
      <3> QED BY <2>0, <3>1, <3>2
    <2>3. CASE checkGracePeriods
      <3>1. /\ mUidToGrace' = [u \in AppUids |-> IF mUidToGrace[u] = "over" THEN "none" ELSE mUidToGrace[u]]
            /\ lifted' = lifted
        BY <2>3 DEF checkGracePeriods
      <3>2. /\ mUidToGrace' \in [AppUids -> {"none", "running", "over"}]
            /\ \A x \in AppUids : mUidToGrace'[x] = "running" <=> mUidToGrace[x] = "running"
        BY <1>0, <3>1 DEF RulesTyped
      <3> QED BY <2>0, <3>1, <3>2
    <2> QED BY <2>1, <2>2, <2>3
  <1>4. RulesTyped'
    BY <1>0, <1>1, <1>2, <1>3 DEF RulesTyped
  <1>5. Followed'
    BY <1>0, <1>1, <1>2, <1>3 DEF Followed
  <1> QED BY <1>4, <1>5 DEF RulesInv

\* A new process loads the rules.
LEMMA ReloadRules == ASSUME RulesInv, reload PROVE RulesInv'
  <1> DEFINE present == {p \in saved : installed[p] # 0}
             loaded == {FirstOf(installed[p]) : p \in present}
  <1>0. RulesTyped
    BY DEF RulesInv
  <1>1. /\ broadcasts' = <<>> /\ appRules' = loaded /\ installed' = installed
        /\ mPackageToUid' = [p \in Pkgs |-> IF p \in loaded THEN installed[p] ELSE 0]
        /\ mUids' = {installed[p] : p \in loaded}
        /\ mApps' = [u \in AppUids |-> IF u \in mUids' THEN FirstOf(u) ELSE 0]
        /\ saved' = IF loaded = present THEN saved ELSE loaded
        /\ mUidToGrace' = [u \in AppUids |-> "none"] /\ lifted' = {}
        /\ wanted' = {p \in wanted : p \notin present} \cup {FirstOf(installed[p]) : p \in wanted \cap present}
        /\ mixed' = IF wanted \subseteq present THEN mixed ELSE mixed \cup {"dropped"}
    BY DEF reload

  <1>2. \A p \in present : /\ p \in Pkgs /\ installed[p] \in AppUids
                           /\ FirstOf(installed[p]) \in Pkgs /\ installed[FirstOf(installed[p])] = installed[p]
    <2> SUFFICES ASSUME NEW p \in present
                 PROVE  /\ p \in Pkgs /\ installed[p] \in AppUids /\ FirstOf(installed[p]) \in Pkgs
                        /\ installed[FirstOf(installed[p])] = installed[p]
      OBVIOUS
    <2>1. p \in Pkgs /\ installed[p] # 0 /\ installed[p] \in AppUids
      BY <1>0 DEF RulesTyped
    <2>2. p \in Sharing(installed[p])
      BY <2>1 DEF Sharing
    <2>3. FirstOf(installed[p]) \in Sharing(installed[p])
      BY <2>2, FirstIs
    <2> QED BY <2>1, <2>3 DEF Sharing
  <1>3. loaded \in SUBSET Pkgs /\ \A p \in loaded : installed[p] \in AppUids
    BY <1>2
  <1>4. \A u \in mUids' : u \in AppUids /\ FirstOf(u) \in Pkgs
    BY <1>1, <1>2
  <1>5. present \in SUBSET Pkgs /\ present \subseteq saved
    BY <1>0 DEF RulesTyped
  <1>6. ASSUME mixed' = {}
        PROVE  mixed = {} /\ wanted' = loaded /\ saved' = loaded
    <2>1. mixed = {} /\ wanted \subseteq present
      BY <1>1, <1>6
    <2>2. wanted = saved
      BY <2>1 DEF RulesInv, Followed
    <2>3. present = saved /\ wanted \cap present = present /\ {p \in wanted : p \notin present} = {}
      BY <1>5, <2>1, <2>2
    <2>4. wanted' = loaded
      BY <1>1, <2>3
    <2>5. saved' = loaded
      BY <1>1, <2>3
    <2> QED BY <2>1, <2>4, <2>5
  <1> HIDE DEF present, loaded
  <1>7. RulesTyped'
    <2>1. mPackageToUid' \in [Pkgs -> AppUids \cup {0}]
      BY <1>1, <1>3
    <2>2. mApps' \in [AppUids -> Pkgs \cup {0}]
      BY <1>1, <1>4
    <2>3. saved' \in SUBSET Pkgs /\ broadcasts' \in Seq(Pkgs)
      BY <1>0, <1>1, <1>3 DEF RulesTyped
    <2> QED BY <1>0, <1>1, <1>3, <2>1, <2>2, <2>3 DEF RulesTyped
  <1>8. ASSUME mixed' = {} PROVE Followed'
    <2>1. \A p \in loaded : mPackageToUid'[p] = installed[p] /\ installed[p] # 0
      BY <1>1, <1>3, Numbers
    <2>2. mUids' = {mPackageToUid'[p] : p \in appRules'} \ {0}
      <3>1. \A y : y \in mUids' <=> \E p \in loaded : y = installed[p]
        BY <1>1
      <3>2. \A y : y \in {mPackageToUid'[p] : p \in appRules'} \ {0} <=> \E p \in loaded : y = installed[p]
        BY <1>1, <2>1
      <3> QED BY <3>1, <3>2
    <2>3. lifted' = {u \in AppUids : mUidToGrace'[u] = "running"}
      BY <1>1
    <2>4. wanted' = appRules' /\ saved' = appRules'
      BY <1>1, <1>6, <1>8
    <2>5. \A p \in appRules' : installed'[p] = mPackageToUid'[p]
      BY <1>1, <2>1
    <2> QED BY <2>2, <2>3, <2>4, <2>5 DEF Followed
  <1> QED BY <1>7, <1>8 DEF RulesInv, Followed

\* Every step of the rules keeps the invariant.
LEMMA RulesKept == RulesInv /\ [AppRulesNext]_rulesVars => RulesInv'
  <1> SUFFICES ASSUME RulesInv, [AppRulesNext]_rulesVars PROVE RulesInv'
    OBVIOUS
  <1>1. ASSUME NEW p \in Pkgs, (\E u \in AppUids : Install(p, u)) \/ Uninstall(p) PROVE RulesInv'
    BY <1>1, PackagesKeep
  <1>2. ASSUME NEW p \in Pkgs, addApp(p) PROVE RulesInv'
    BY <1>2, AddKeeps
  <1>3. ASSUME NEW p \in Pkgs, removeApp(p) PROVE RulesInv'
    BY <1>3, RemoveKeeps
  <1>4. CASE uidMappingChanged
    BY <1>4, BroadcastKeeps
  <1>5. ASSUME NEW u \in AppUids, addAppByUid(u) PROVE RulesInv'
    BY <1>5, AddByUidKeeps
  <1>6. ASSUME NEW u \in AppUids, removeAppByUid(u) PROVE RulesInv'
    BY <1>6, RemoveByUidKeeps
  <1>7. CASE (\E u \in AppUids : unblockAppForMinutes(u) \/ GraceElapses(u)) \/ checkGracePeriods
    BY <1>7, GraceKeeps
  <1>8. CASE reload
    BY <1>8, ReloadRules
  <1>9. CASE UNCHANGED rulesVars
    <2>1. UNCHANGED <<installed, broadcasts, mApps, appRules, mPackageToUid, mUids, saved,
                      mUidToGrace, wanted, lifted, mixed>>
      BY <1>9 DEF rulesVars
    <2> QED BY <2>1 DEF RulesInv, RulesTyped, Followed
  <1> QED BY <1>1, <1>2, <1>3, <1>4, <1>5, <1>6, <1>7, <1>8, <1>9 DEF AppRulesNext

(* The uids that a list matches follow the packages that the user put in   *)
(* it, through installs, edits, grace periods and restarts, outside the    *)
(* exceptions that mixed names.                                            *)
THEOREM UidsMatched == RulesSpec => []UidsFollowRules
  <1>1. RulesInv => UidsFollowRules
    <2> SUFFICES ASSUME RulesInv, broadcasts = <<>>, \A u \in AppUids : mUidToGrace[u] # "over", mixed = {}
                 PROVE  {u \in AppUids : matchesApp(u)} = {installed[p] : p \in wanted} \ ({0} \cup lifted)
      BY DEF UidsFollowRules
    <2>1. /\ wanted = appRules /\ mUids = {mPackageToUid[p] : p \in appRules} \ {0}
          /\ \A p \in appRules : installed[p] = mPackageToUid[p]
          /\ lifted = {u \in AppUids : mUidToGrace[u] = "running"}
      BY WaitingEmpty DEF RulesInv, Followed
    <2>2. mUids = {installed[p] : p \in wanted} \ {0} /\ \A u \in mUids : u \in AppUids
      BY <2>1 DEF RulesInv, RulesTyped
    <2>3. \A u \in AppUids : mUidToGrace[u] = "none" <=> u \notin lifted
      BY <2>1 DEF RulesInv, RulesTyped
    <2> QED BY <2>2, <2>3 DEF matchesApp
  <1> QED BY <1>1, RulesStart, RulesKept, PTL DEF RulesSpec
=============================================================================
