--------------------------- MODULE ConnectionsLog ---------------------------
(***************************************************************************)
(* What the ConnectionsRegister promises: a log of the connections that    *)
(* keeps the Size most recent ones ("can store up to _size items, after    *)
(* which rollover occurs and older connections are replaced with the new   *)
(* ones"), counts the ones it dropped, and shows of each connection what   *)
(* the capture last reported about it.                                     *)
(***************************************************************************)
EXTENDS Naturals, Sequences

CONSTANTS Size, MaxBatch

VARIABLES
    sent,       \* what the capture last reported about each incr_id
    items,      \* the connections of the log, the oldest first
    untracked   \* how many connections were dropped

vars == <<sent, items, untracked>>

\* The last n elements of a sequence, or all of them.
LastOf(s, n) == IF Len(s) > n THEN SubSeq(s, Len(s) - n + 1, Len(s)) ELSE s

Init == sent = <<>> /\ items = <<>> /\ untracked = 0

\* The capture reports n more connections.
Add(n) ==
    LET new == [k \in 1..n |-> [id |-> Len(sent) + k - 1, attr |-> sent'[Len(sent) + k]]]
    IN  /\ Len(sent') = Len(sent) + n
        /\ SubSeq(sent', 1, Len(sent)) = sent
        /\ items' = LastOf(items \o new, Size)
        /\ untracked' = untracked + Len(items) + n - Len(items')

\* The capture reports changes of some connections, in the log or not.
Update ==
    /\ Len(sent') = Len(sent)
    /\ items' = [k \in 1..Len(items) |-> [items[k] EXCEPT !.attr = sent'[items[k].id + 1]]]
    /\ UNCHANGED untracked

Reset ==
    /\ items' = <<>>
    /\ untracked' = 0
    /\ UNCHANGED sent

Next == (\E n \in 1..MaxBatch : Add(n)) \/ Update \/ Reset

Spec == Init /\ [][Next]_vars
=============================================================================
