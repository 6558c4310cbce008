------------------------------ MODULE HostMatch ------------------------------
(***************************************************************************)
(* The rules of the user about hosts (block list, white lists, decryption  *)
(* list).  A rule is matched in Java, for the user interface, and in the   *)
(* native code, which decides; each says to keep in sync with the other.   *)
(* A name is the sequence of its labels, an empty first one for a leading  *)
(* dot.  The rules about apps are in MatchList.                            *)
(***************************************************************************)
EXTENDS Integers, Sequences, SequencesExt

CONSTANTS
    HostRules,      \* names that the user may add to the list or import
    Hosts,          \* names that are matched
    MaxHostEdits    \* bound on edits of the list

ASSUME HostAssumption == MaxHostEdits \in Nat

VARIABLES
    hostRules,      \* mRules about hosts, in order
    hostEdits

hostVars == <<hostRules, hostEdits>>

HostInit == hostRules = <<>> /\ hostEdits = 0

cleanDomain(h) == IF Len(h) > 1 /\ h[1] = "www" THEN Tail(h) ELSE h
LastTwo(h) == SubSeq(h, Len(h) - 1, Len(h))

addHostRule(h) ==
    /\ hostEdits < MaxHostEdits /\ hostEdits' = hostEdits + 1
    /\ hostRules' = IF Contains(hostRules, h) THEN hostRules ELSE Append(hostRules, h)

addHost(h) == addHostRule(cleanDomain(h))

\* Rules imported from a file are taken as they are.
importHost(h) == addHostRule(h)

removeHost(h) ==
    /\ hostEdits < MaxHostEdits /\ hostEdits' = hostEdits + 1
    /\ hostRules' = SelectSeq(hostRules, LAMBDA r : r # cleanDomain(h))

\* Mutant: the parent domain, rather than the second-level one.
ParentDomain(h) == IF Len(h) <= 2 THEN h ELSE Tail(h)

\* Utils.getSecondLevelDomain: a leading dot does not delimit a label.
getSecondLevelDomain(h) == IF Len(h) <= 2 \/ (Len(h) = 3 /\ h[1] = "") THEN h ELSE LastTwo(h)

matchesHost(h) ==
    LET host == cleanDomain(h)
    IN  \/ Contains(hostRules, cleanDomain(host))
        \/ getSecondLevelDomain(host) # host /\ Contains(hostRules, getSecondLevelDomain(host))

\* The native list: its second-level domain, match and insertion.
get_second_level_domain(h) == IF Len(h) <= 2 THEN h ELSE LastTwo(h)

blacklist_match_domain(bl, h) ==
    LET host == cleanDomain(h)
    IN  host \in bl \/ get_second_level_domain(host) \in bl

blacklist_add_domain(bl, h) ==
    LET host == cleanDomain(h)
    IN  IF blacklist_match_domain(bl, host) THEN bl ELSE bl \cup {host}

\* The list descriptor holds the rules in order.
blacklist_load_list_descriptor == FoldLeft(blacklist_add_domain, {}, hostRules)

HostRulesNext == \E h \in HostRules : addHost(h) \/ importHost(h) \/ removeHost(h)

-----------------------------------------------------------------------------
(* Properties.                                                             *)

\* A name that the two sides may take differently: "www." twice, or a leading dot.
Unusual(h) == h[1] = "" \/ cleanDomain(h) # cleanDomain(cleanDomain(h)) \/ cleanDomain(h)[1] = ""

\* The user interface and the native code agree on which names the rules match, for
\* every order in which the rules are added (the comments "Keep in sync" at
\* MatchList.java matchesHost and blacklist.c blacklist_match_domain), unless an
\* imported rule begins with "www." or a name is Unusual.
HostsInSync ==
    LET bl == blacklist_load_list_descriptor
    IN  /\ hostRules # <<>>
        /\ \A r \in ToSet(hostRules) : cleanDomain(r) = r /\ ~Unusual(r)
        => \A h \in {x \in Hosts : ~Unusual(x)} : matchesHost(h) <=> blacklist_match_domain(bl, h)
=============================================================================
