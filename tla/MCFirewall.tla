------------------------------ MODULE MCFirewall ------------------------------
(***************************************************************************)
(* The rules of the user.  A behaviour exercises one of three parts: the   *)
(* verdicts of the native side, on a connection of an app and a DNS        *)
(* request of netd for the same host; the rules about apps in Java; those  *)
(* about hosts.  The parts share no state in the models.                   *)
(***************************************************************************)
EXTENDS Firewall, MatchList, HostMatch

CONSTANTS c1, c2, a1, i1, i2, h1, h2

MCUid == c1 :> a1 @@ c2 :> Netd
MCIp == c1 :> i1 @@ c2 :> i2
MCHost == c1 :> h1 @@ c2 :> h1
MCCached == c1 :> {h1, h2} @@ c2 :> {}
MCLists == "block" :> {{}, {h2}} @@ "white" :> {{}, {a1}} @@ "mwl" :> {{}, {h1}} @@ "dec" :> {{}}
MCBlacklists == {{h1}}

\* The names of up to four labels, with and without a leading dot.
Labels == {"www", "a", "b"}
Names(n) == [1 .. n -> Labels]
MCHosts == LET plain == UNION {Names(n) : n \in 1 .. 4} IN plain \cup {<<"">> \o h : h \in Names(1) \cup Names(2)}
MCHostRules == {<<"b">>, <<"a", "b">>, <<"www", "a", "b">>, <<"b", "a", "b">>, <<"www", "b", "b">>,
                <<"a", "b", "a", "b">>, <<"", "a", "b">>}

VARIABLE part

RuleParts == {"verdicts", "apps", "hosts"}

MCInit ==
    /\ part \in RuleParts
    /\ Init /\ RulesInit /\ HostInit
    /\ part # "verdicts" => user.wl_mode /\ user.enabled

Verdicts == part = "verdicts" /\ Next /\ UNCHANGED <<part, rulesVars, hostVars>>
AppRules == part = "apps" /\ AppRulesNext /\ UNCHANGED <<part, vars, hostVars>>
HostNames == part = "hosts" /\ HostRulesNext /\ UNCHANGED <<part, vars, rulesVars>>

MCNext == Verdicts \/ AppRules \/ HostNames

MCSpec == MCInit /\ [][MCNext]_<<part, vars, rulesVars, hostVars>>
=============================================================================
