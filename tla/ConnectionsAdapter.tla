------------------------- MODULE ConnectionsAdapter -------------------------
(***************************************************************************)
(* The list of connections shown to the user: the ConnectionsAdapter,      *)
(* which mirrors the ConnectionsRegister.  The register notifies its       *)
(* listener, the ConnectionsFragment, which posts each notification to the *)
(* main thread; the adapter handles it there, while the register may have  *)
(* moved on.  With a filter the adapter keeps its own list of the matching *)
(* connections; the filter of the model shows the malicious ones.          *)
(***************************************************************************)
EXTENDS ConnectionsRegister, SequencesExt

CONSTANTS
    MaxLag      \* how many notifications may wait while the register works

ASSUME AdapterAssumption == MaxLag \in Nat

VARIABLES
    objs,                   \* the ConnectionDescriptor of each incr_id, in the ring or not
    events,                 \* the notifications posted to the main thread
    listening,              \* whether the fragment is a listener of the register
    filter,                 \* hasFilter
    mUnfilteredItemsCount,
    list,                   \* mFilteredConn, mIdToFilteredPos, mNumRemovedItems
    raced,                  \* history: since the list was last built with no notification
                            \* waiting, it was built while some waited, or the register
                            \* has dropped connections while positions in it waited
    overlapped              \* history: at the last resume, notifications still waited that
                            \* the first update had counted already

adapterVars == <<filter, mUnfilteredItemsCount, list>>
allVars == <<vars, objs, events, listening, adapterVars, raced, overlapped>>

AllIds == 0..(MaxConns - 1)
EmptyList == [conns |-> <<>>, pos |-> [id \in AllIds |-> -1], removed |-> 0]

AdapterTypeOK ==
    /\ objs \in Seq(Attr) /\ Len(objs) = Len(sent)
    /\ {listening, filter, raced, overlapped} \subseteq BOOLEAN
    /\ mUnfilteredItemsCount \in IF overlapped THEN Int ELSE 0..Size
    /\ list \in [conns: Seq(AllIds), pos: [AllIds -> Nat \cup {-1}], removed: Nat]

AdapterInit ==
    /\ Init
    /\ objs = <<>> /\ events = <<>> /\ listening = TRUE
    /\ filter = FALSE /\ mUnfilteredItemsCount = 0 /\ list = EmptyList
    /\ raced = FALSE /\ overlapped = FALSE

-----------------------------------------------------------------------------
\* The operations of the adapter on its list.
matches(id) == objs[id + 1].mal

getFilteredItemPos(a, id) == IF a.pos[id] = -1 THEN -1 ELSE a.pos[id] - a.removed

removeFilteredItemAt(a, p) ==
    IF p \in 0..(Len(a.conns) - 1)
    THEN [a EXCEPT !.conns = RemoveAt(@, p + 1), !.pos[a.conns[p + 1]] = -1]
    ELSE a

fixFilteredPositions(a, start) ==
    [a EXCEPT !.pos = [id \in AllIds |->
        LET at == {i \in (start + 1)..Len(a.conns) : a.conns[i] = id}
        IN  IF at = {} THEN @[id] ELSE Max(at) - 1 + a.removed]]

\* Mutant: the positions of a list that has lost its first items are not shifted.
AddUnshifted(a, id) ==
    IF matches(id)
    THEN [a EXCEPT !.pos[id] = Len(a.conns), !.conns = Append(@, id)]
    ELSE a

\* One connection of connectionsAdded, of connectionsRemoved.
AddFiltered(a, id) ==
    IF matches(id)
    THEN [a EXCEPT !.pos[id] = a.removed + Len(a.conns), !.conns = Append(@, id)]
    ELSE a

RemoveFiltered(a, id) ==
    IF getFilteredItemPos(a, id) = -1
    THEN a
    ELSE [removeFilteredItemAt(a, 0) EXCEPT !.removed = @ + 1]

(* One position of connectionsUpdated: a connection that does not match    *)
(* any more is removed; just and first are num_just_removed and            *)
(* first_removed_pos.                                                      *)
Recheck(u, reg_pos) ==
    LET id == getConn(reg_pos).id
        p  == getFilteredItemPos(u.a, id) - u.just
    IN  IF reg_pos >= mCurItems \/ getFilteredItemPos(u.a, id) = -1 \/ matches(id)
        THEN u
        ELSE [a |-> removeFilteredItemAt(u.a, p), just |-> u.just + 1,
              first |-> IF u.first = -1 THEN p ELSE u.first]

(* refreshFilteredConnections with the count num: the register is read as  *)
(* it is now.                                                              *)
Refreshed(num, on) ==
    IF on
    THEN LET ids == [i \in 1..Least(num, mCurItems) |-> getConn(i - 1).id]
         IN  FoldLeft(AddFiltered, EmptyList, ids)
    ELSE EmptyList

-----------------------------------------------------------------------------
\* The notifications, handled in the order they were posted.
connectionsChanges(num) ==
    /\ mUnfilteredItemsCount' = num
    /\ list' = Refreshed(num, filter)
    /\ UNCHANGED filter

connectionsAdded(ids) ==
    /\ mUnfilteredItemsCount' = mUnfilteredItemsCount + Len(ids)
    /\ list' = IF filter THEN FoldLeft(AddFiltered, list, ids) ELSE list
    /\ UNCHANGED filter

connectionsRemoved(ids) ==
    /\ mUnfilteredItemsCount' = mUnfilteredItemsCount - Len(ids)
    /\ list' = IF filter THEN FoldLeft(RemoveFiltered, list, ids) ELSE list
    /\ UNCHANGED filter

\* "Sort order necessary to properly use num_just_removed".
connectionsUpdated(positions) ==
    LET u == FoldLeft(Recheck, [a |-> list, just |-> 0, first |-> -1],
                      SetToSortSeq(positions, <))
    IN  /\ list' = IF ~filter \/ u.first = -1 THEN list ELSE fixFilteredPositions(u.a, u.first)
        /\ UNCHANGED <<filter, mUnfilteredItemsCount>>

\* The main thread runs the oldest posted notification.
HandleEvent ==
    /\ events # <<>>
    /\ LET e == Head(events)
       IN  \/ e.type = "added" /\ connectionsAdded(e.arg)
           \/ e.type = "removed" /\ connectionsRemoved(e.arg)
           \/ e.type = "updated" /\ connectionsUpdated(e.arg)
           \/ e.type = "changes" /\ connectionsChanges(e.arg)
    /\ events' = Tail(events)
    /\ raced' = (raced /\ ~(Head(events).type = "changes" /\ Len(events) = 1))
    /\ UNCHANGED <<vars, objs, listening, overlapped>>

\* The user sets or clears the filter.
SetFilter ==
    /\ filter' = ~filter
    /\ raced' = (events # <<>>)
    /\ list' = Refreshed(mUnfilteredItemsCount, ~filter)
    /\ UNCHANGED <<vars, objs, events, listening, mUnfilteredItemsCount, overlapped>>

\* The fragment is paused, and resumed: "Send the first update to sync it".
\* The notifications posted before the pause are not taken back: they are handled on
\* top of that update if they still wait.
onPause ==
    /\ listening
    /\ listening' = FALSE
    /\ UNCHANGED <<vars, objs, events, adapterVars, raced, overlapped>>

onResume ==
    /\ ~listening
    /\ listening' = TRUE
    /\ connectionsChanges(mCurItems)
    /\ raced' = (events # <<>>)
    /\ overlapped' = (events # <<>>)
    /\ UNCHANGED <<vars, objs, events>>

-----------------------------------------------------------------------------
Event(type, arg) == [type |-> type, arg |-> arg]
Post(es) == events' = IF listening THEN events \o es ELSE events
PositionsWait == \E i \in DOMAIN events : events[i].type = "updated"
IdSeq(first, n) == [i \in 1..n |-> first + i - 1]

\* The register adds connections: the ones that fall out, then the new ones.
RegisterAdds(conns) ==
    LET n == Least(Len(conns), Size)
        out_items == OutItems(n)
        oldest == mItemsRing[firstPos].id
    IN  /\ newConnections(conns)
        /\ objs' = objs \o conns
        /\ Post((IF out_items > 0
                 THEN <<Event("removed", IdSeq(oldest, out_items))>> ELSE <<>>)
                  \o <<Event("added", IdSeq(Len(sent) + Len(conns) - n, n))>>)
        /\ raced' = (raced \/ (PositionsWait /\ out_items > 0))
        /\ UNCHANGED <<listening, adapterVars, overlapped>>

\* The register updates connections: the positions of the ones it has.
RegisterUpdates(ids, attr) ==
    LET found == {id \in ids : getConnPositionById(id) # -1}
        changed_pos == {getConnPositionById(id) : id \in found}
    IN  /\ connectionsUpdates(ids, attr)
        /\ objs' = [k \in 1..Len(objs) |-> IF k - 1 \in found THEN attr[k - 1] ELSE objs[k]]
        /\ Post(IF found = {} THEN <<>> ELSE <<Event("updated", changed_pos)>>)
        /\ UNCHANGED <<listening, adapterVars, raced, overlapped>>

RegisterReset ==
    /\ reset
    /\ Post(<<Event("changes", 0)>>)
    /\ raced' = (raced \/ PositionsWait)
    /\ UNCHANGED <<objs, listening, adapterVars, overlapped>>

\* The bound on the work of the register while notifications wait.
LagBound == Len(events) <= MaxLag

AdapterNext ==
    \/ LagBound /\ \E conns \in Batches : RegisterAdds(conns)
    \/ LagBound /\ \E ids \in SUBSET (0..(Len(sent) - 1)) :
          /\ Cardinality(ids) \in 1..MaxUpdates
          /\ \E attr \in Changes(ids) : RegisterUpdates(ids, attr)
    \/ LagBound /\ RegisterReset
    \/ HandleEvent \/ SetFilter \/ onPause \/ onResume

AdapterSpec == AdapterInit /\ [][AdapterNext]_allVars

-----------------------------------------------------------------------------
(* The filtered list shows each connection once, in the order of the       *)
(* register, unless it has raced.                                          *)
ShownOnce == raced \/ \A i, j \in DOMAIN list.conns : i < j => list.conns[i] < list.conns[j]

(* mIdToFilteredPos, shifted by mNumRemovedItems, gives the position of    *)
(* each connection in the list, and of no other connection, unless it has  *)
(* raced.                                                                  *)
PositionsRight ==
    filter /\ ~raced => \A id \in AllIds :
        LET p == getFilteredItemPos(list, id)
        IN  IF \E i \in DOMAIN list.conns : list.conns[i] = id
            THEN p \in 0..(Len(list.conns) - 1) /\ list.conns[p + 1] = id
            ELSE p = -1

(* Once the notifications are handled, the adapter counts the connections  *)
(* of the register, raced or not ("in order to avoid desyncs"), unless the *)
(* last resume overlapped with older notifications; and every connection   *)
(* of a list that has not raced is in the register and matches the filter. *)
IdleInSync ==
    listening /\ events = <<>> =>
        /\ overlapped \/ mUnfilteredItemsCount = mCurItems
        /\ raced \/ \A i \in DOMAIN list.conns :
              getConnPositionById(list.conns[i]) # -1 /\ matches(list.conns[i])

(* The filtered list and its table of positions are consistent, and follow *)
(* the register.                                                           *)
ListConsistent == AdapterTypeOK /\ ShownOnce /\ PositionsRight /\ IdleInSync
=============================================================================
