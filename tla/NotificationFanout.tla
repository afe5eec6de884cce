------------------------- MODULE NotificationFanout -------------------------
(***************************************************************************)
(* The notification Manager of internal/config/config.go.                  *)
(*                                                                         *)
(* One goroutine (subscribeToActivities) runs ProcessActivity for each     *)
(* activity of the feed: for every user it evaluates ShouldNotify (which   *)
(* reads the user's preferences and, if there are none, writes defaults),  *)
(* reads the preferences again for EnableInApp, stores the notification    *)
(* and broadcasts it to the user's subscriber channels.  Meanwhile HTTP    *)
(* handlers call Subscribe, Unsubscribe and UpdatePreferences, and each    *)
(* SSE stream reads its channel.  The subscriber map is guarded by         *)
(* subscribersMu, so Subscribe, Unsubscribe and one whole broadcastToUser  *)
(* are atomic steps; the database calls of ProcessActivity are separate    *)
(* steps with the HTTP handlers' steps in between.                         *)
(*                                                                         *)
(* Channels are the entries of chans, in the order Subscribe made them;    *)
(* chans[i].got is what the stream reading channel i has received.         *)
(* inQuietHours is left out: preferences here have no quiet hours, which   *)
(* is what createDefaultPreferences stores.                                *)
(***************************************************************************)
EXTENDS Integers, Sequences, FiniteSets

CONSTANTS
    Users,        \* users returned by db.ListUsers
    SubIDs,       \* subscriberID values the SSE handlers pass
    Activities,   \* activities of the feed: [event, target, prio] records
    PrefChoices,  \* preferences a user may save with UpdatePreferences
    ChanCap,      \* buffer of a subscriber channel (100 in Subscribe)
    DBErrors,     \* whether a database call may fail
    None          \* absent map entry / metadata key


Priorities == {"low", "normal", "high", "critical"}

(* NotificationPreferences: EnableInApp, SubscribedEvents (empty: all),    *)
(* MinPriority ("" if never set).                                          *)
Prefs == [inApp : BOOLEAN, events : SUBSET {a.event : a \in Activities},
          minPriority : Priorities \cup {""}]

(* createDefaultPreferences.                                               *)
DefaultPrefs == [inApp |-> TRUE, events |-> {}, minPriority |-> "normal"]

(* ChanCap is positive (make(chan, 100)); None is not a user and not a     *)
(* channel index; users save well-formed preferences.                      *)
ASSUME FanoutAssumption ==
    /\ ChanCap \in Nat \ {0}
    /\ DBErrors \in BOOLEAN
    /\ None \notin Users
    /\ None \notin Nat
    /\ PrefChoices \subseteq Prefs

VARIABLES
    subs,      \* m.subscribers: subs[u][s] is a channel index or None
    chans,     \* every channel made: [user, buf, closed, got]
    prefs,     \* notification_preferences rows: prefs[u] or None
    prefsBy,   \* ghost: who wrote prefs[u] last ("none", "user", "default")
    store,     \* notifications rows: [id, user, act] records
    nextId,    \* uuid.New(): a fresh id per notification
    pa         \* ProcessActivity: pc, activity, users left, user, notification

vars == <<subs, chans, prefs, prefsBy, store, nextId, pa>>

Notification == [id : Nat, user : Users, act : Activities]

Channel == [user : Users, buf : Seq(Notification), closed : BOOLEAN,
            got : Seq(Notification)]

PAState ==
    [pc : {"idle", "user", "default", "prefs", "create", "broadcast"},
     act : Activities \cup {None}, left : SUBSET Users, u : Users \cup {None},
     n : Notification \cup {None}]

-----------------------------------------------------------------------------
(* ShouldNotify's rules, over the activity's event type, its               *)
(* assigned_to / decider_id metadata (target) and its priority metadata.   *)

(* determinePriority: the metadata priority first, then the event type.    *)
determinePriority(a) ==
    IF a.prio # None
    THEN CASE a.prio = "P0" -> "critical"
           [] a.prio = "P1" -> "high"
           [] a.prio = "P2" -> "normal"
           [] OTHER         -> "low"
    ELSE CASE a.event \in {"bead.assigned", "decision.created"} -> "high"
           [] a.event \in {"workflow.failed", "provider.deleted"} -> "critical"
           [] a.event \in {"bead.created", "agent.spawned"}       -> "normal"
           [] OTHER                                               -> "low"

(* isEventSubscribed: an empty subscription list means every event.        *)
isEventSubscribed(ev, subscribed) == subscribed = {} \/ ev \in subscribed

(* meetsPriorityThreshold: a name missing from the map has level 0.        *)
Level(p) == CASE p = "critical" -> 3 [] p = "high" -> 2 [] p = "normal" -> 1
               [] OTHER -> 0
meetsPriorityThreshold(p, min) == Level(p) >= Level(min)

(* formatNotification returns a non-empty title.                           *)
HasTitle(a, u) ==
    \/ a.event = "bead.assigned" /\ a.target = u
    \/ a.event = "decision.created" /\ a.target = u
    \/ a.event = "bead.created" /\ a.prio = "P0"
    \/ a.event \in {"provider.deleted", "workflow.failed"}

ShouldNotify(p, a, u) ==
    /\ isEventSubscribed(a.event, p.events)
    /\ meetsPriorityThreshold(determinePriority(a), p.minPriority)
    /\ HasTitle(a, u)

Init ==
    /\ subs = [u \in Users |-> [s \in SubIDs |-> None]]
    /\ chans = <<>>
    /\ prefs = [u \in Users |-> None]
    /\ prefsBy = [u \in Users |-> "none"]
    /\ store = {}
    /\ nextId = 0
    /\ pa = [pc |-> "idle", act |-> None, left |-> {}, u |-> None, n |-> None]

-----------------------------------------------------------------------------
(* Fault variant: the new channel's index is taken before the append.     *)
SubscribeStaleIndex(u, s) ==
    /\ chans' = Append(chans, [user |-> u, buf |-> <<>>, closed |-> FALSE,
                               got |-> <<>>])
    /\ subs' = [subs EXCEPT ![u][s] = Len(chans)]
    /\ UNCHANGED <<prefs, prefsBy, store, nextId, pa>>

(* Subscribe: a new channel of capacity ChanCap replaces whatever the map  *)
(* held for (u, s); an old channel there is neither closed nor kept.       *)
Subscribe(u, s) ==
    /\ chans' = Append(chans, [user |-> u, buf |-> <<>>, closed |-> FALSE,
                               got |-> <<>>])
    /\ subs' = [subs EXCEPT ![u][s] = Len(chans) + 1]
    /\ UNCHANGED <<prefs, prefsBy, store, nextId, pa>>

(* Fault variant: the channel is closed but its map entry is kept.         *)
UnsubscribeKeepEntry(u, s) ==
    /\ subs[u][s] # None
    /\ chans' = [chans EXCEPT ![subs[u][s]].closed = TRUE]
    /\ UNCHANGED <<subs, prefs, prefsBy, store, nextId, pa>>

(* Unsubscribe: close the registered channel and delete its entry (the     *)
(* removal of an emptied user map is not observable here).                 *)
Unsubscribe(u, s) ==
    /\ subs[u][s] # None
    /\ chans' = [chans EXCEPT ![subs[u][s]].closed = TRUE]
    /\ subs' = [subs EXCEPT ![u][s] = None]
    /\ UNCHANGED <<prefs, prefsBy, store, nextId, pa>>

(* The SSE stream of channel i receives the oldest buffered notification.  *)
Receive(i) ==
    /\ chans[i].buf # <<>>
    /\ chans' = [chans EXCEPT ![i].got = Append(@, Head(chans[i].buf)),
                              ![i].buf = Tail(@)]
    /\ UNCHANGED <<subs, prefs, prefsBy, store, nextId, pa>>

(* UpdatePreferences from the API: upsert the user's row.                  *)
UpdatePreferences(u, p) ==
    /\ prefs' = [prefs EXCEPT ![u] = p]
    /\ prefsBy' = [prefsBy EXCEPT ![u] = "user"]
    /\ UNCHANGED <<subs, chans, store, nextId, pa>>

-----------------------------------------------------------------------------
(* ProcessActivity.                                                        *)

(* ListUsers; on an error ProcessActivity returns at once (a stutter).     *)
PAStart(a) ==
    /\ pa.pc = "idle"
    /\ pa' = [pc |-> "user", act |-> a, left |-> Users, u |-> None, n |-> None]
    /\ UNCHANGED <<subs, chans, prefs, prefsBy, store, nextId>>

(* Where ShouldNotify goes once it has preferences p for user u.           *)
AfterFilter(p, u) ==
    IF ShouldNotify(p, pa.act, u)
    THEN [pa EXCEPT !.pc = "prefs", !.u = u,
                    !.n = [id |-> nextId, user |-> u, act |-> pa.act]]
    ELSE [pa EXCEPT !.pc = "user", !.u = u]

(* Next user: ShouldNotify's GetPreferences.  A failed read means "do not  *)
(* notify"; no row sends ShouldNotify on to createDefaultPreferences.      *)
PANextUser(u) ==
    /\ pa.pc = "user"
    /\ u \in pa.left
    /\ \/ /\ DBErrors
          /\ pa' = [pa EXCEPT !.left = @ \ {u}, !.u = u]
          /\ UNCHANGED nextId
       \/ /\ prefs[u] = None
          /\ pa' = [pa EXCEPT !.left = @ \ {u}, !.pc = "default", !.u = u]
          /\ UNCHANGED nextId
       \/ /\ prefs[u] # None
          /\ pa' = [AfterFilter(prefs[u], u) EXCEPT !.left = @ \ {u}]
          /\ nextId' = IF ShouldNotify(prefs[u], pa.act, u) THEN nextId + 1 ELSE nextId
    /\ UNCHANGED <<subs, chans, prefs, prefsBy, store>>

(* createDefaultPreferences: UpdatePreferences upserts the defaults over   *)
(* whatever the row holds by now; ShouldNotify goes on with the defaults.  *)
(* A failed upsert means "do not notify".                                  *)
PACreateDefault ==
    /\ pa.pc = "default"
    /\ \/ /\ prefs' = [prefs EXCEPT ![pa.u] = DefaultPrefs]
          /\ prefsBy' = [prefsBy EXCEPT ![pa.u] = "default"]
          /\ pa' = AfterFilter(DefaultPrefs, pa.u)
          /\ nextId' = IF ShouldNotify(DefaultPrefs, pa.act, pa.u)
                       THEN nextId + 1 ELSE nextId
       \/ /\ DBErrors
          /\ pa' = [pa EXCEPT !.pc = "user"]
          /\ UNCHANGED <<prefs, prefsBy, nextId>>
    /\ UNCHANGED <<subs, chans, store>>

(* ProcessActivity's own GetPreferences: skip the user if in-app          *)
(* notifications are disabled in the row read now, which a concurrent      *)
(* UpdatePreferences may have changed since ShouldNotify's read.           *)
PAReadPrefs ==
    /\ pa.pc = "prefs"
    /\ pa' = [pa EXCEPT !.pc =
                 IF prefs[pa.u] = None \/ ~prefs[pa.u].inApp THEN "user" ELSE "create"]
    /\ UNCHANGED <<subs, chans, prefs, prefsBy, store, nextId>>

(* ProcessActivity's GetPreferences fails: skip the user.                 *)
PAReadPrefsError ==
    /\ pa.pc = "prefs"
    /\ DBErrors
    /\ pa' = [pa EXCEPT !.pc = "user"]
    /\ UNCHANGED <<subs, chans, prefs, prefsBy, store, nextId>>

(* Fault variant: a failed insert is not skipped.                          *)
PACreateNoSkip ==
    /\ pa.pc = "create"
    /\ \/ /\ store' = store \cup {pa.n}
       \/ /\ DBErrors
          /\ UNCHANGED store
    /\ pa' = [pa EXCEPT !.pc = "broadcast"]
    /\ UNCHANGED <<subs, chans, prefs, prefsBy, nextId>>

(* CreateNotification: insert the row; on an error skip the user.          *)
PACreate ==
    /\ pa.pc = "create"
    /\ \/ /\ store' = store \cup {pa.n}
          /\ pa' = [pa EXCEPT !.pc = "broadcast"]
       \/ /\ DBErrors
          /\ pa' = [pa EXCEPT !.pc = "user"]
          /\ UNCHANGED store
    /\ UNCHANGED <<subs, chans, prefs, prefsBy, nextId>>

(* The channels registered for user u.                                     *)
UserChans(u) == {subs[u][s] : s \in {s2 \in SubIDs : subs[u][s2] # None}}

(* broadcastToUser, under the read lock: a non-blocking send on each of    *)
(* the user's channels; a full buffer drops the notification.              *)
PABroadcast ==
    /\ pa.pc = "broadcast"
    /\ chans' = [i \in DOMAIN chans |->
                    IF i \in UserChans(pa.u) /\ Len(chans[i].buf) < ChanCap
                    THEN [chans[i] EXCEPT !.buf = Append(@, pa.n)]
                    ELSE chans[i]]
    /\ pa' = [pa EXCEPT !.pc = "user"]
    /\ UNCHANGED <<subs, prefs, prefsBy, store, nextId>>

(* Every user done: ProcessActivity returns.                               *)
PAEnd ==
    /\ pa.pc = "user"
    /\ pa.left = {}
    /\ pa' = [pa EXCEPT !.pc = "idle"]
    /\ UNCHANGED <<subs, chans, prefs, prefsBy, store, nextId>>

Next ==
    \/ \E u \in Users, s \in SubIDs : Subscribe(u, s) \/ Unsubscribe(u, s)
    \/ \E i \in DOMAIN chans : Receive(i)
    \/ \E u \in Users, p \in PrefChoices : UpdatePreferences(u, p)
    \/ \E a \in Activities : PAStart(a)
    \/ \E u \in Users : PANextUser(u)
    \/ PACreateDefault \/ PAReadPrefs \/ PAReadPrefsError
    \/ PACreate \/ PABroadcast \/ PAEnd

Spec == Init /\ [][Next]_vars

-----------------------------------------------------------------------------
TypeOK ==
    /\ subs \in [Users -> [SubIDs -> (1..Len(chans)) \cup {None}]]
    /\ chans \in Seq(Channel)
    /\ prefs \in [Users -> Prefs \cup {None}]
    /\ prefsBy \in [Users -> {"none", "user", "default"}]
    /\ store \subseteq Notification
    /\ nextId \in Nat
    /\ pa \in PAState

(* The subscriber map only holds open channels of the right user, each    *)
(* under one subscriber: broadcastToUser never sends on a closed channel   *)
(* (a panic in Go) and Unsubscribe never closes a channel twice.           *)
RegistryConsistent ==
    \A u \in Users, s \in SubIDs :
        subs[u][s] # None =>
            /\ ~chans[subs[u][s]].closed
            /\ chans[subs[u][s]].user = u
            /\ \A v \in Users, t \in SubIDs :
                  subs[v][t] = subs[u][s] => <<v, t>> = <<u, s>>

(* A stream only ever sees notifications of its own user that are stored:  *)
(* ProcessActivity broadcasts a notification after CreateNotification has  *)
(* stored it, and skips the user when the insert fails.                    *)
DeliveredWereStored ==
    \A i \in DOMAIN chans :
        \A j \in 1..Len(chans[i].buf \o chans[i].got) :
            LET n == (chans[i].buf \o chans[i].got)[j]
            IN  n \in store /\ n.user = chans[i].user

(* Every channel that is still open is in the subscriber map, so that an   *)
(* Unsubscribe, or the teardown that closes subscribers, can close it and  *)
(* end its stream (spec: teardown drains queues and closes subscribers).   *)
OpenChannelsRegistered ==
    \A i \in DOMAIN chans :
        ~chans[i].closed => \E u \in Users, s \in SubIDs : subs[u][s] = i

(* Preferences a user saved are never replaced by the defaults: defaults   *)
(* are created only when no preferences exist (GetPreferences: "Return     *)
(* default preferences if none exist").                                    *)
UserPrefsKept ==
    [][\A u \in Users : prefsBy[u] = "user" => prefsBy'[u] = "user"]_vars
=============================================================================
