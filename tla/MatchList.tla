------------------------------ MODULE MatchList ------------------------------
(***************************************************************************)
(* MatchList, the rules of the user (block list, white lists, decryption   *)
(* list), as far as they are about apps.  A rule holds a package name,     *)
(* since uids change when an app is installed again, but it matches by     *)
(* uid: the list keeps the uids of its packages, and follows the package   *)
(* broadcasts.  Packages may share a uid.  The rules are saved after each  *)
(* edit and loaded again when the process starts.                          *)
(*                                                                         *)
(* The rules about hosts are in HostMatch.                                 *)
(*                                                                         *)
(* Everything runs on the main thread; the package manager is external.    *)
(***************************************************************************)
EXTENDS Integers, Sequences

CONSTANTS
    Pkgs,           \* packages, numbers in the order of their names
    AppUids,        \* uids of apps
    MaxPkgEvents,   \* bound on installs and uninstalls
    MaxEdits        \* bound on edits of the list, and restarts

ASSUME RulesAssumption ==
    /\ Pkgs \subseteq Nat \ {0} /\ AppUids \subseteq Nat \ {0}
    /\ MaxPkgEvents \in Nat /\ MaxEdits \in Nat

VARIABLES
    installed,      \* the uid of each package, or 0
    broadcasts,     \* packages whose broadcast has not been received
    mApps,          \* cache of AppsResolver: the package of each uid, or 0
    appRules,       \* mRules about apps: a set of packages
    mPackageToUid,
    mUids,
    saved,          \* the rules about apps in the preferences
    mUidToGrace,    \* of the block list: "none", "running" or "over" (its time has passed)
    wanted,         \* history: the packages that the user wants matched
    lifted,         \* history: the uids that the user wants unblocked for now
    pkgEvents, edits,
    mixed           \* history: see UidsFollowRules

rulesVars == <<installed, broadcasts, mApps, appRules, mPackageToUid, mUids, saved, mUidToGrace,
               wanted, lifted, pkgEvents, edits, mixed>>

RulesInit ==
    /\ installed = [p \in Pkgs |-> 0]
    /\ broadcasts = <<>>
    /\ mApps = [u \in AppUids |-> 0]
    /\ appRules = {} /\ saved = {} /\ mUids = {} /\ wanted = {}
    /\ mPackageToUid = [p \in Pkgs |-> 0]
    /\ mUidToGrace = [u \in AppUids |-> "none"]
    /\ lifted = {}
    /\ pkgEvents = 0 /\ edits = 0
    /\ mixed = {}

-----------------------------------------------------------------------------
(* The packages.                                                           *)

Install(p, u) ==
    /\ pkgEvents < MaxPkgEvents /\ installed[p] = 0
    /\ installed' = [installed EXCEPT ![p] = u]
    /\ broadcasts' = Append(broadcasts, p)
    /\ pkgEvents' = pkgEvents + 1
    /\ UNCHANGED <<mApps, appRules, mPackageToUid, mUids, saved, mUidToGrace, wanted, lifted,
                   edits, mixed>>

Uninstall(p) ==
    /\ pkgEvents < MaxPkgEvents /\ installed[p] # 0
    /\ installed' = [installed EXCEPT ![p] = 0]
    /\ broadcasts' = Append(broadcasts, p)
    /\ pkgEvents' = pkgEvents + 1
    /\ UNCHANGED <<mApps, appRules, mPackageToUid, mUids, saved, mUidToGrace, wanted, lifted,
                   edits, mixed>>

\* AppsResolver.getAppByUid: the cached package, or the first by name; 0 for null.
Sharing(u) == {p \in Pkgs : installed[p] = u}
FirstOf(u) == CHOOSE p \in Sharing(u) : \A q \in Sharing(u) : p <= q
getAppByUid(u) ==
    IF mApps[u] # 0 THEN mApps[u] ELSE IF Sharing(u) = {} THEN 0 ELSE FirstOf(u)

\* The package of another rule has the same uid, or had when the list last saw it.
Shared(p, u) ==
    IF u # 0 /\ \E q \in appRules \ {p} : u \in {mPackageToUid[q], installed[q]} THEN {"shared"} ELSE {}

\* Mutant: on a change of uid, the old one is kept.
uidMappingKeepsOld(p) ==
    LET old == mPackageToUid[p]
        new == installed[p]
    IN  /\ p \in appRules
        /\ mPackageToUid' = [mPackageToUid EXCEPT ![p] = new]
        /\ mUids' = mUids \cup ({new} \ {0})
        /\ mApps' = IF new = 0 THEN mApps ELSE [mApps EXCEPT ![new] = getAppByUid(new)]
        /\ mixed' = IF old \notin {0, new} THEN mixed \cup Shared(p, old) ELSE mixed

\* The uid of a package that has a rule is removed if it has changed, and the new
\* one is added.
uidMappingOf(p) ==
    LET old == mPackageToUid[p]
        new == installed[p]
    IN  /\ p \in appRules
        /\ mPackageToUid' = [mPackageToUid EXCEPT ![p] = new]
        /\ mUids' = IF old = new THEN mUids ELSE (mUids \ {old}) \cup ({new} \ {0})
        /\ mApps' = IF new = 0 THEN mApps ELSE [mApps EXCEPT ![new] = getAppByUid(new)]
        /\ mixed' = IF old \notin {0, new} THEN mixed \cup Shared(p, old) ELSE mixed

\* The receiver of PCAPdroid: checkUidMapping.
uidMappingChanged ==
    /\ broadcasts # <<>>
    /\ \/ uidMappingOf(Head(broadcasts))
       \/ Head(broadcasts) \notin appRules /\ UNCHANGED <<mApps, mPackageToUid, mUids, mixed>>
    /\ broadcasts' = Tail(broadcasts)
    /\ UNCHANGED <<installed, appRules, saved, mUidToGrace, wanted, lifted, pkgEvents, edits>>

-----------------------------------------------------------------------------
(* Edits of the rules about apps; the callers save the list.               *)

\* addRule: refused for a package that has a rule or is not installed.
Refused(p) == p \in appRules \/ installed[p] = 0

addRule(p) ==
    /\ IF Refused(p) THEN UNCHANGED <<appRules, mPackageToUid, mUids>>
       ELSE /\ appRules' = appRules \cup {p}
            /\ mPackageToUid' = [mPackageToUid EXCEPT ![p] = installed[p]]
            /\ mUids' = mUids \cup {installed[p]}
    /\ wanted' = IF installed[p] = 0 THEN wanted ELSE wanted \cup {p}

\* The cache still names a package that no longer has the uid.
Stale(u) == IF getAppByUid(u) # 0 /\ installed[getAppByUid(u)] # u THEN {"stale"} ELSE {}

\* By package, for a new app or in the list itself: a grace period stays.
addApp(p) ==
    /\ edits < MaxEdits /\ edits' = edits + 1
    /\ addRule(p)
    /\ saved' = IF Refused(p) THEN saved ELSE appRules'
    /\ lifted' = lifted \ {installed[p]}
    /\ mixed' = IF installed[p] \in lifted THEN mixed \cup {"graced"} ELSE mixed
    /\ UNCHANGED <<installed, broadcasts, mApps, mUidToGrace, pkgEvents>>

\* By uid, from a connection or the list of apps; a uid without a package has no rule.
addAppByUid(u) ==
    /\ edits < MaxEdits /\ edits' = edits + 1
    /\ mUidToGrace' = [mUidToGrace EXCEPT ![u] = "none"]
    /\ lifted' = lifted \ {u}
    /\ IF getAppByUid(u) = 0 THEN UNCHANGED <<appRules, mPackageToUid, mUids, wanted>>
       ELSE addRule(getAppByUid(u))
    /\ saved' = appRules'
    /\ mApps' = [mApps EXCEPT ![u] = getAppByUid(u)]
    /\ mixed' = mixed \cup Stale(u)
    /\ UNCHANGED <<installed, broadcasts, pkgEvents>>

\* removeRule: the uid is the one that the package has now.
removeRule(p, why) ==
    LET u == installed[p]
    IN  /\ appRules' = appRules \ {p}
        /\ mPackageToUid' = IF u = 0 THEN mPackageToUid ELSE [mPackageToUid EXCEPT ![p] = 0]
        /\ mUids' = mUids \ {u}
        /\ mixed' = mixed \cup why \cup Shared(p, u)
                          \cup (IF p \in appRules /\ mPackageToUid[p] \notin {0, u} THEN {"moved"} ELSE {})

removeApp(p) ==
    /\ edits < MaxEdits /\ edits' = edits + 1
    /\ removeRule(p, {})
    /\ saved' = appRules'
    /\ wanted' = wanted \ {p}
    /\ UNCHANGED <<installed, broadcasts, mApps, mUidToGrace, lifted, pkgEvents>>

\* The user means the app of this uid, whichever package the rule is about.
removeAppByUid(u) ==
    /\ edits < MaxEdits /\ edits' = edits + 1
    /\ mUidToGrace' = [mUidToGrace EXCEPT ![u] = "none"]
    /\ lifted' = lifted \ {u}
    /\ IF getAppByUid(u) = 0 THEN UNCHANGED <<appRules, mPackageToUid, mUids, mixed>>
       ELSE removeRule(getAppByUid(u), Stale(u))
    /\ saved' = appRules'
    /\ mApps' = [mApps EXCEPT ![u] = getAppByUid(u)]
    /\ wanted' = wanted \ (Sharing(u) \cup {getAppByUid(u)})
    /\ UNCHANGED <<installed, broadcasts, pkgEvents>>

\* unblockAppForMinutes: while the period runs, the rule is there and does not match.
unblockAppForMinutes(u) ==
    /\ edits < MaxEdits /\ edits' = edits + 1
    /\ mUidToGrace' = [mUidToGrace EXCEPT ![u] = "running"]
    /\ lifted' = lifted \cup {u}
    /\ saved' = appRules
    /\ UNCHANGED <<installed, broadcasts, mApps, appRules, mPackageToUid, mUids,
                   wanted, pkgEvents, mixed>>

GraceElapses(u) ==
    /\ mUidToGrace[u] = "running"
    /\ mUidToGrace' = [mUidToGrace EXCEPT ![u] = "over"]
    /\ lifted' = lifted \ {u}
    /\ UNCHANGED <<installed, broadcasts, mApps, appRules, mPackageToUid, mUids, saved,
                   wanted, pkgEvents, edits, mixed>>

\* Called at each update of the connections.
checkGracePeriods ==
    /\ \E u \in AppUids : mUidToGrace[u] = "over"
    /\ mUidToGrace' = [u \in AppUids |-> IF mUidToGrace[u] = "over" THEN "none" ELSE mUidToGrace[u]]
    /\ UNCHANGED <<installed, broadcasts, mApps, appRules, mPackageToUid, mUids, saved,
                   wanted, lifted, pkgEvents, edits, mixed>>

\* A new process loads the list (reload, deserialize).  A rule is given the package
\* that its uid resolves to; the rule of a package that is not installed is skipped.
\* If a rule has been renamed, what was loaded is saved.
reload ==
    LET present == {p \in saved : installed[p] # 0}
        loaded  == {FirstOf(installed[p]) : p \in present}
    IN  /\ edits < MaxEdits /\ edits' = edits + 1
        /\ broadcasts' = <<>>
        /\ appRules' = loaded
        /\ mPackageToUid' = [p \in Pkgs |-> IF p \in loaded THEN installed[p] ELSE 0]
        /\ mUids' = {installed[p] : p \in loaded}
        /\ mApps' = [u \in AppUids |-> IF u \in mUids' THEN FirstOf(u) ELSE 0]
        /\ saved' = IF loaded = present THEN saved ELSE loaded
        /\ mUidToGrace' = [u \in AppUids |-> "none"]
        /\ lifted' = {}
        /\ wanted' = {p \in wanted : p \notin present} \cup {FirstOf(installed[p]) : p \in wanted \cap present}
        /\ mixed' = IF wanted \subseteq present THEN mixed ELSE mixed \cup {"dropped"}
        /\ UNCHANGED <<installed, pkgEvents>>

-----------------------------------------------------------------------------
AppRulesNext ==
    \/ \E p \in Pkgs, u \in AppUids : Install(p, u)
    \/ \E p \in Pkgs : Uninstall(p) \/ addApp(p) \/ removeApp(p)
    \/ uidMappingChanged
    \/ \E u \in AppUids : addAppByUid(u) \/ removeAppByUid(u) \/ unblockAppForMinutes(u) \/ GraceElapses(u)
    \/ checkGracePeriods
    \/ reload

RulesSpec == RulesInit /\ [][AppRulesNext]_rulesVars

-----------------------------------------------------------------------------
(* Properties.                                                             *)

matchesApp(u) == u \in mUids /\ mUidToGrace[u] = "none"

\* Once the package broadcasts are received and the grace periods that have passed
\* are removed, the list matches exactly the uids of the installed packages that the
\* user has put in it, without those unblocked for now (MatchList.java matchesApp,
\* uidMappingChanged; Blocklist.java).  The exceptions: two rules had the same uid
\* and one of them lost it ("shared"); an app was given by its uid, and the cache named
\* a package that no longer had it ("stale"); a rule was removed while the broadcast of its
\* package was on the way ("moved"); a package with a rule was not installed when the
\* list was loaded ("dropped"); an app was blocked by its package during its grace
\* period ("graced").
UidsFollowRules ==
    broadcasts = <<>> /\ (\A u \in AppUids : mUidToGrace[u] # "over") /\ mixed = {} =>
        {u \in AppUids : matchesApp(u)} = {installed[p] : p \in wanted} \ ({0} \cup lifted)
=============================================================================
