---------------------- MODULE NotificationFanoutProofs ----------------------
(***************************************************************************)
(* Proofs about the notification Manager, for every choice of the          *)
(* constants that satisfies FanoutAssumption: the subscriber map only      *)
(* holds open channels of their own user, each under one subscriber, and   *)
(* a stream only ever receives stored notifications of its own user.       *)
(***************************************************************************)
EXTENDS NotificationFanout, SequenceTheorems, TLAPS

(* Every notification in q is in the set S and addressed to user u.       *)
AllStored(q, u, S) == \A j \in 1..Len(q) : q[j] \in S /\ q[j].user = u

(* What ProcessActivity holds at each of its steps: the activity once it   *)
(* started, the user once a user is picked, and, from the moment           *)
(* ShouldNotify built it, a notification for that user, stored once        *)
(* CreateNotification succeeded.                                           *)
PALocalsSet ==
    /\ pa.pc # "idle" => pa.act \in Activities
    /\ pa.pc \in {"default", "prefs", "create", "broadcast"} => pa.u \in Users
    /\ pa.pc \in {"prefs", "create", "broadcast"} =>
           pa.n \in Notification /\ pa.n.user = pa.u
    /\ pa.pc = "broadcast" => pa.n \in store

(* Every buffered or received notification of a channel is stored and     *)
(* addressed to the channel's user.                                        *)
ChannelsStored ==
    \A i \in DOMAIN chans :
        /\ AllStored(chans[i].buf, chans[i].user, store)
        /\ AllStored(chans[i].got, chans[i].user, store)

IInv == TypeOK /\ PALocalsSet /\ RegistryConsistent /\ ChannelsStored

-----------------------------------------------------------------------------
(* Facts about the sequences the model is built from.                      *)

(* A sequence's domain is 1..Len, and its elements are in its set.         *)
LEMMA SeqFacts ==
    ASSUME NEW S, NEW q \in Seq(S)
    PROVE  /\ DOMAIN q = 1..Len(q)
           /\ Len(q) \in Nat
           /\ \A j \in 1..Len(q) : q[j] \in S
  BY ElementOfSeq, LenProperties

(* Appending a notification of S for user u keeps a queue AllStored.       *)
LEMMA AppendStored ==
    ASSUME NEW q \in Seq(Notification), NEW u, NEW S, NEW x,
           AllStored(q, u, S), x \in S, x.user = u
    PROVE  AllStored(Append(q, x), u, S)
<1>1. /\ Len(Append(q, x)) = Len(q) + 1
      /\ \A j \in 1..Len(q) : Append(q, x)[j] = q[j]
      /\ Append(q, x)[Len(q) + 1] = x
      /\ Len(q) \in Nat
  BY AppendProperties, LenProperties
<1>. QED
  BY <1>1 DEF AllStored

(* Removing the head of an AllStored queue keeps it AllStored, and the     *)
(* head is a notification of S for user u.                                 *)
LEMMA TailStored ==
    ASSUME NEW q \in Seq(Notification), NEW u, NEW S, AllStored(q, u, S),
           q # <<>>
    PROVE  /\ AllStored(Tail(q), u, S)
           /\ Head(q) \in S /\ Head(q).user = u
           /\ Tail(q) \in Seq(Notification)
           /\ Head(q) \in Notification
<1>1. /\ Tail(q) \in Seq(Notification)
      /\ Len(Tail(q)) = Len(q) - 1
      /\ \A j \in 1..Len(Tail(q)) : Tail(q)[j] = q[j + 1]
      /\ Head(q) = q[1]
      /\ Len(q) \in Nat \ {0}
  BY HeadTailProperties, EmptySeq
<1>2. Head(q) \in Notification
  BY <1>1, ElementOfSeq
<1>. QED
  BY <1>1, <1>2 DEF AllStored

(* AllStored in a set stays true in a larger set.                          *)
LEMMA StoredMonotone ==
    ASSUME NEW q, NEW u, NEW S, NEW T, AllStored(q, u, S), S \subseteq T
    PROVE  AllStored(q, u, T)
  BY DEF AllStored

-----------------------------------------------------------------------------
(* The invariant holds initially.                                          *)
LEMMA InitIInv == Init => IInv
<1> SUFFICES ASSUME Init PROVE IInv
  OBVIOUS
<1>1. Len(chans) = 0 /\ chans \in Seq(Channel) /\ DOMAIN chans = {}
  BY EmptySeq DEF Init
<1>2. TypeOK
  BY <1>1, FanoutAssumption DEF Init, TypeOK, PAState
<1>3. PALocalsSet /\ RegistryConsistent /\ ChannelsStored
  BY <1>1 DEF Init, PALocalsSet, RegistryConsistent, ChannelsStored
<1>. QED
  BY <1>2, <1>3 DEF IInv

-----------------------------------------------------------------------------
(* Each action keeps the invariant.                                        *)

(* Subscribe appends a fresh open channel and points (u, s) at it: no      *)
(* other entry can point there, because every entry is an index of an      *)
(* older channel or None, which is not a number.                           *)
LEMMA SubscribeIInv ==
    ASSUME IInv, NEW u \in Users, NEW s \in SubIDs, Subscribe(u, s)
    PROVE  IInv'
<1>1. [user |-> u, buf |-> <<>>, closed |-> FALSE, got |-> <<>>] \in Channel
  BY EmptySeq DEF Channel
<1>2. /\ chans \in Seq(Channel)
      /\ Len(chans) \in Nat
      /\ chans' \in Seq(Channel)
      /\ Len(chans') = Len(chans) + 1
      /\ DOMAIN chans' = 1..Len(chans) + 1
      /\ \A i \in 1..Len(chans) : chans'[i] = chans[i]
      /\ chans'[Len(chans) + 1] =
             [user |-> u, buf |-> <<>>, closed |-> FALSE, got |-> <<>>]
  BY <1>1, AppendProperties, LenProperties DEF IInv, TypeOK, Subscribe
<1>3. \A v \in Users, t \in SubIDs : subs[v][t] \in (1..Len(chans)) \cup {None}
  BY DEF IInv, TypeOK
<1>4. subs' = [v \in Users |-> [t \in SubIDs |->
                 IF <<v, t>> = <<u, s>> THEN Len(chans) + 1 ELSE subs[v][t]]]
  BY DEF Subscribe, IInv, TypeOK
<1>5. TypeOK'
  <2>1. subs' \in [Users -> [SubIDs -> (1..Len(chans')) \cup {None}]]
    BY <1>2, <1>3, <1>4
  <2>. QED
    BY <2>1, <1>2 DEF Subscribe, IInv, TypeOK
<1>6. RegistryConsistent'
  <2> SUFFICES ASSUME NEW v \in Users, NEW t \in SubIDs, subs'[v][t] # None
               PROVE  /\ ~chans'[subs'[v][t]].closed
                      /\ chans'[subs'[v][t]].user = v
                      /\ \A w \in Users, r \in SubIDs :
                            subs'[w][r] = subs'[v][t] => <<w, r>> = <<v, t>>
    BY DEF RegistryConsistent
  <2>1. CASE <<v, t>> = <<u, s>>
    <3>1. subs'[v][t] = Len(chans) + 1
      BY <2>1, <1>4
    <3>2. ASSUME NEW w \in Users, NEW r \in SubIDs, <<w, r>> # <<u, s>>
          PROVE  subs'[w][r] # Len(chans) + 1
      BY <3>2, <1>2, <1>3, <1>4, FanoutAssumption
    <3>. QED
      BY <2>1, <3>1, <3>2, <1>2
  <2>2. CASE <<v, t>> # <<u, s>>
    <3>1. subs'[v][t] = subs[v][t] /\ subs[v][t] \in 1..Len(chans)
      BY <2>2, <1>3, <1>4
    <3>2. /\ ~chans[subs[v][t]].closed
          /\ chans[subs[v][t]].user = v
          /\ \A w \in Users, r \in SubIDs :
                subs[w][r] = subs[v][t] => <<w, r>> = <<v, t>>
      BY <3>1 DEF IInv, RegistryConsistent
    <3>. QED
      BY <2>2, <3>1, <3>2, <1>2, <1>4
  <2>. QED
    BY <2>1, <2>2
<1>7. ChannelsStored'
  <2> SUFFICES ASSUME NEW i \in DOMAIN chans'
               PROVE  /\ AllStored(chans'[i].buf, chans'[i].user, store')
                      /\ AllStored(chans'[i].got, chans'[i].user, store')
    BY DEF ChannelsStored
  <2>1. CASE i \in 1..Len(chans)
    BY <2>1, <1>2 DEF Subscribe, IInv, ChannelsStored
  <2>2. CASE i = Len(chans) + 1
    BY <2>2, <1>2, EmptySeq DEF AllStored
  <2>. QED
    BY <2>1, <2>2, <1>2
<1>8. PALocalsSet'
  BY DEF Subscribe, IInv, PALocalsSet
<1>. QED
  BY <1>5, <1>6, <1>7, <1>8 DEF IInv

(* Unsubscribe closes the one channel (u, s) points at and clears the      *)
(* entry; since no other entry points at that channel, the channels still  *)
(* in the map stay open.                                                   *)
LEMMA UnsubscribeIInv ==
    ASSUME IInv, NEW u \in Users, NEW s \in SubIDs, Unsubscribe(u, s)
    PROVE  IInv'
<1>1. /\ subs[u][s] \in 1..Len(chans)
      /\ chans \in Seq(Channel)
      /\ DOMAIN chans = 1..Len(chans)
      /\ chans[subs[u][s]] \in Channel
  BY SeqFacts DEF Unsubscribe, IInv, TypeOK
<1>2. [chans[subs[u][s]] EXCEPT !.closed = TRUE] \in Channel
  BY <1>1 DEF Channel
<1>3. chans' = [chans EXCEPT ![subs[u][s]] = [chans[subs[u][s]] EXCEPT !.closed = TRUE]]
  BY DEF Unsubscribe
<1>4. /\ chans' \in Seq(Channel)
      /\ Len(chans') = Len(chans)
      /\ \A j \in 1..Len(chans) :
            chans'[j] = IF j = subs[u][s]
                        THEN [chans[subs[u][s]] EXCEPT !.closed = TRUE]
                        ELSE chans[j]
  BY <1>1, <1>2, <1>3, ExceptSeq
<1>5. /\ DOMAIN chans' = DOMAIN chans
      /\ \A j \in DOMAIN chans : /\ chans'[j].user = chans[j].user
                                 /\ chans'[j].buf = chans[j].buf
                                 /\ chans'[j].got = chans[j].got
  <2>1. DOMAIN chans' = DOMAIN chans
    BY <1>1, <1>4, SeqFacts
  <2>2. ASSUME NEW j \in DOMAIN chans
        PROVE  /\ chans'[j].user = chans[j].user
               /\ chans'[j].buf = chans[j].buf
               /\ chans'[j].got = chans[j].got
    <3>1. j \in 1..Len(chans)
      BY <1>1
    <3>2. CASE j = subs[u][s]
      BY <3>1, <3>2, <1>1, <1>4 DEF Channel
    <3>3. CASE j # subs[u][s]
      BY <3>1, <3>3, <1>4
    <3>. QED
      BY <3>2, <3>3
  <2>. QED
    BY <2>1, <2>2
<1>6. subs' = [v \in Users |-> [t \in SubIDs |->
                 IF <<v, t>> = <<u, s>> THEN None ELSE subs[v][t]]]
  BY DEF Unsubscribe, IInv, TypeOK
<1>7. TypeOK'
  BY <1>4, <1>6 DEF Unsubscribe, IInv, TypeOK
<1>8. RegistryConsistent'
  <2> SUFFICES ASSUME NEW v \in Users, NEW t \in SubIDs, subs'[v][t] # None
               PROVE  /\ ~chans'[subs'[v][t]].closed
                      /\ chans'[subs'[v][t]].user = v
                      /\ \A w \in Users, r \in SubIDs :
                            subs'[w][r] = subs'[v][t] => <<w, r>> = <<v, t>>
    BY DEF RegistryConsistent
  <2>1. <<v, t>> # <<u, s>> /\ subs'[v][t] = subs[v][t]
    BY <1>6
  <2>2. /\ ~chans[subs[v][t]].closed
        /\ chans[subs[v][t]].user = v
        /\ \A w \in Users, r \in SubIDs :
              subs[w][r] = subs[v][t] => <<w, r>> = <<v, t>>
    BY <2>1 DEF IInv, RegistryConsistent
  <2>3. subs[v][t] \in 1..Len(chans) /\ subs[v][t] # subs[u][s]
    BY <2>1, <2>2 DEF IInv, TypeOK
  <2>4. chans'[subs[v][t]] = chans[subs[v][t]]
    BY <2>3, <1>4
  <2>. QED
    BY <2>1, <2>2, <2>4, <1>6
<1>9. ChannelsStored'
  BY <1>5 DEF Unsubscribe, IInv, ChannelsStored
<1>10. PALocalsSet'
  BY DEF Unsubscribe, IInv, PALocalsSet
<1>. QED
  BY <1>7, <1>8, <1>9, <1>10 DEF IInv

(* A stream takes the head of its buffer: the notification moves from buf  *)
(* to got of the same channel.                                             *)
LEMMA ReceiveIInv ==
    ASSUME IInv, NEW i \in DOMAIN chans, Receive(i)
    PROVE  IInv'
<1>1. /\ chans \in Seq(Channel)
      /\ DOMAIN chans = 1..Len(chans)
      /\ chans[i] \in Channel
  BY SeqFacts DEF IInv, TypeOK
<1>2. /\ chans[i].buf \in Seq(Notification)
      /\ chans[i].got \in Seq(Notification)
      /\ AllStored(chans[i].buf, chans[i].user, store)
      /\ AllStored(chans[i].got, chans[i].user, store)
      /\ chans[i].buf # <<>>
  BY <1>1 DEF Channel, IInv, ChannelsStored, Receive
<1>3. /\ AllStored(Tail(chans[i].buf), chans[i].user, store)
      /\ Tail(chans[i].buf) \in Seq(Notification)
      /\ Head(chans[i].buf) \in Notification
      /\ AllStored(Append(chans[i].got, Head(chans[i].buf)), chans[i].user, store)
      /\ Append(chans[i].got, Head(chans[i].buf)) \in Seq(Notification)
  BY <1>2, TailStored, AppendStored, AppendProperties
<1>4. /\ [chans[i] EXCEPT !.got = Append(chans[i].got, Head(chans[i].buf)),
                          !.buf = Tail(chans[i].buf)] \in Channel
      /\ chans' = [chans EXCEPT ![i] =
                     [chans[i] EXCEPT !.got = Append(chans[i].got, Head(chans[i].buf)),
                                      !.buf = Tail(chans[i].buf)]]
  BY <1>1, <1>3 DEF Receive, Channel
<1>5. /\ chans' \in Seq(Channel)
      /\ Len(chans') = Len(chans)
      /\ \A j \in 1..Len(chans) \ {i} : chans'[j] = chans[j]
      /\ chans'[i].user = chans[i].user
      /\ chans'[i].buf = Tail(chans[i].buf)
      /\ chans'[i].got = Append(chans[i].got, Head(chans[i].buf))
      /\ chans'[i].closed = chans[i].closed
  BY <1>1, <1>4, ExceptSeq
<1>6. DOMAIN chans' = DOMAIN chans
  BY <1>1, <1>5, SeqFacts
<1>7. TypeOK' /\ RegistryConsistent'
  <2>1. TypeOK'
    BY <1>5 DEF Receive, IInv, TypeOK
  <2>2. RegistryConsistent'
    <3>0. subs' = subs
      BY DEF Receive
    <3>1. ASSUME NEW u \in Users, NEW s \in SubIDs, subs[u][s] # None
          PROVE  /\ ~chans'[subs[u][s]].closed
                 /\ chans'[subs[u][s]].user = u
                 /\ \A v \in Users, t \in SubIDs :
                       subs[v][t] = subs[u][s] => <<v, t>> = <<u, s>>
      <4>1. /\ subs[u][s] \in 1..Len(chans)
            /\ ~chans[subs[u][s]].closed
            /\ chans[subs[u][s]].user = u
            /\ \A v \in Users, t \in SubIDs :
                  subs[v][t] = subs[u][s] => <<v, t>> = <<u, s>>
        BY <3>1 DEF IInv, TypeOK, RegistryConsistent
      <4>2. CASE subs[u][s] = i
        BY <1>5, <4>1, <4>2
      <4>3. CASE subs[u][s] # i
        BY <1>5, <4>1, <4>3
      <4>. QED
        BY <4>2, <4>3
    <3>. QED
      BY <3>0, <3>1 DEF RegistryConsistent
  <2>. QED
    BY <2>1, <2>2
<1>8. ChannelsStored'
  BY <1>1, <1>3, <1>5, <1>6 DEF Receive, IInv, ChannelsStored
<1>9. PALocalsSet'
  BY DEF Receive, IInv, PALocalsSet
<1>. QED
  BY <1>7, <1>8, <1>9 DEF IInv

(* UpdatePreferences only writes the preferences table.                    *)
LEMMA UpdatePreferencesIInv ==
    ASSUME IInv, NEW u \in Users, NEW p \in PrefChoices, UpdatePreferences(u, p)
    PROVE  IInv'
<1>1. p \in Prefs
  BY FanoutAssumption
<1>2. TypeOK'
  BY <1>1 DEF UpdatePreferences, IInv, TypeOK
<1>. QED
  BY <1>2 DEF UpdatePreferences, IInv, PALocalsSet, RegistryConsistent,
              ChannelsStored

(* A step of ProcessActivity that leaves channels, map and store alone    *)
(* keeps the invariant as soon as it keeps PALocalsSet and the types.      *)
LEMMA PAOnlyStep ==
    ASSUME IInv, UNCHANGED <<subs, chans, store>>, TypeOK', PALocalsSet'
    PROVE  IInv'
  BY DEF IInv, RegistryConsistent, ChannelsStored

(* DefaultPrefs are well-formed preferences.                               *)
LEMMA DefaultPrefsType == DefaultPrefs \in Prefs
  BY DEF DefaultPrefs, Prefs, Priorities

(* Where ShouldNotify goes after reading preferences for user u: back to   *)
(* the next user, or on with a notification for u numbered nextId.         *)
LEMMA AfterFilterType ==
    ASSUME TypeOK, NEW p, NEW u \in Users, pa.act \in Activities
    PROVE  /\ AfterFilter(p, u) \in PAState
           /\ AfterFilter(p, u).pc \in {"user", "prefs"}
           /\ AfterFilter(p, u).u = u
           /\ AfterFilter(p, u).act = pa.act
           /\ AfterFilter(p, u).left = pa.left
           /\ AfterFilter(p, u).pc = "prefs" =>
                  /\ AfterFilter(p, u).n \in Notification
                  /\ AfterFilter(p, u).n.user = u
<1>1. [id |-> nextId, user |-> u, act |-> pa.act] \in Notification
  BY DEF TypeOK, Notification
<1>. QED
  BY <1>1 DEF AfterFilter, TypeOK, PAState

LEMMA PAStartIInv ==
    ASSUME IInv, NEW a \in Activities, PAStart(a)
    PROVE  IInv'
<1>1. TypeOK'
  BY DEF PAStart, IInv, TypeOK, PAState
<1>2. PALocalsSet'
  BY DEF PAStart, PALocalsSet
<1>. QED
  BY <1>1, <1>2, PAOnlyStep DEF PAStart

LEMMA PANextUserIInv ==
    ASSUME IInv, NEW u \in Users, PANextUser(u)
    PROVE  IInv'
<1>1. /\ pa.act \in Activities
      /\ pa \in PAState
      /\ pa.pc = "user"
  BY DEF PANextUser, IInv, PALocalsSet, TypeOK
<1>2. CASE /\ DBErrors
           /\ pa' = [pa EXCEPT !.left = @ \ {u}, !.u = u]
           /\ UNCHANGED nextId
  BY <1>1, <1>2, PAOnlyStep DEF PANextUser, IInv, TypeOK, PAState, PALocalsSet
<1>3. CASE /\ prefs[u] = None
           /\ pa' = [pa EXCEPT !.left = @ \ {u}, !.pc = "default", !.u = u]
           /\ UNCHANGED nextId
  BY <1>1, <1>3, PAOnlyStep DEF PANextUser, IInv, TypeOK, PAState, PALocalsSet
<1>4. CASE /\ prefs[u] # None
           /\ pa' = [AfterFilter(prefs[u], u) EXCEPT !.left = @ \ {u}]
           /\ nextId' = IF ShouldNotify(prefs[u], pa.act, u) THEN nextId + 1 ELSE nextId
  <2>1. /\ AfterFilter(prefs[u], u) \in PAState
        /\ AfterFilter(prefs[u], u).pc \in {"user", "prefs"}
        /\ AfterFilter(prefs[u], u).u = u
        /\ AfterFilter(prefs[u], u).act = pa.act
        /\ AfterFilter(prefs[u], u).left = pa.left
        /\ AfterFilter(prefs[u], u).pc = "prefs" =>
               /\ AfterFilter(prefs[u], u).n \in Notification
               /\ AfterFilter(prefs[u], u).n.user = u
    BY <1>1, AfterFilterType DEF IInv
  <2>2. /\ pa'.pc = AfterFilter(prefs[u], u).pc
        /\ pa'.u = u
        /\ pa'.act = pa.act
        /\ pa'.n = AfterFilter(prefs[u], u).n
        /\ pa'.left = pa.left \ {u}
        /\ pa' \in PAState
    BY <1>4, <2>1 DEF PAState
  <2>3. nextId' \in Nat
    BY <1>4 DEF IInv, TypeOK
  <2>4. TypeOK'
    BY <1>4, <2>2, <2>3 DEF PANextUser, IInv, TypeOK
  <2>5. PALocalsSet'
    BY <1>1, <1>4, <2>1, <2>2 DEF PANextUser, PALocalsSet
  <2>. QED
    BY <2>4, <2>5, PAOnlyStep DEF PANextUser
<1>. QED
  BY <1>2, <1>3, <1>4 DEF PANextUser

LEMMA PACreateDefaultIInv ==
    ASSUME IInv, PACreateDefault
    PROVE  IInv'
<1>1. /\ pa.act \in Activities
      /\ pa.u \in Users
      /\ pa \in PAState
      /\ pa.pc = "default"
  BY DEF PACreateDefault, IInv, PALocalsSet, TypeOK
<1>2. CASE /\ prefs' = [prefs EXCEPT ![pa.u] = DefaultPrefs]
           /\ prefsBy' = [prefsBy EXCEPT ![pa.u] = "default"]
           /\ pa' = AfterFilter(DefaultPrefs, pa.u)
           /\ nextId' = IF ShouldNotify(DefaultPrefs, pa.act, pa.u)
                        THEN nextId + 1 ELSE nextId
  <2>1. /\ AfterFilter(DefaultPrefs, pa.u) \in PAState
        /\ AfterFilter(DefaultPrefs, pa.u).pc \in {"user", "prefs"}
        /\ AfterFilter(DefaultPrefs, pa.u).u = pa.u
        /\ AfterFilter(DefaultPrefs, pa.u).act = pa.act
        /\ AfterFilter(DefaultPrefs, pa.u).pc = "prefs" =>
               /\ AfterFilter(DefaultPrefs, pa.u).n \in Notification
               /\ AfterFilter(DefaultPrefs, pa.u).n.user = pa.u
    BY <1>1, AfterFilterType DEF IInv
  <2>2. TypeOK'
    BY <1>1, <1>2, <2>1, DefaultPrefsType DEF PACreateDefault, IInv, TypeOK
  <2>3. PALocalsSet'
    BY <1>1, <1>2, <2>1 DEF PACreateDefault, PALocalsSet
  <2>. QED
    BY <2>2, <2>3, PAOnlyStep DEF PACreateDefault
<1>3. CASE /\ DBErrors
           /\ pa' = [pa EXCEPT !.pc = "user"]
           /\ UNCHANGED <<prefs, prefsBy, nextId>>
  BY <1>1, <1>3, PAOnlyStep DEF PACreateDefault, IInv, TypeOK, PAState, PALocalsSet
<1>. QED
  BY <1>2, <1>3 DEF PACreateDefault

LEMMA PAReadPrefsIInv ==
    ASSUME IInv, PAReadPrefs
    PROVE  IInv'
<1>1. /\ pa \in PAState
      /\ pa.pc = "prefs"
  BY DEF PAReadPrefs, IInv, TypeOK
<1>2. CASE prefs[pa.u] = None \/ ~prefs[pa.u].inApp
  <2>1. pa' = [pa EXCEPT !.pc = "user"]
    BY <1>2 DEF PAReadPrefs
  <2>. QED
    BY <1>1, <2>1, PAOnlyStep DEF PAReadPrefs, IInv, TypeOK, PAState, PALocalsSet
<1>3. CASE ~(prefs[pa.u] = None \/ ~prefs[pa.u].inApp)
  <2>1. pa' = [pa EXCEPT !.pc = "create"]
    BY <1>3 DEF PAReadPrefs
  <2>. QED
    BY <1>1, <2>1, PAOnlyStep DEF PAReadPrefs, IInv, TypeOK, PAState, PALocalsSet
<1>. QED
  BY <1>2, <1>3

LEMMA PAReadPrefsErrorIInv ==
    ASSUME IInv, PAReadPrefsError
    PROVE  IInv'
  BY PAOnlyStep DEF PAReadPrefsError, IInv, TypeOK, PAState, PALocalsSet

LEMMA PAEndIInv ==
    ASSUME IInv, PAEnd
    PROVE  IInv'
<1>1. TypeOK' /\ PALocalsSet'
  BY DEF PAEnd, IInv, TypeOK, PAState, PALocalsSet
<1>. QED
  BY <1>1, PAOnlyStep DEF PAEnd

(* CreateNotification stores the notification (the store only grows) or  *)
(* fails and skips the user.                                               *)
LEMMA PACreateIInv ==
    ASSUME IInv, PACreate
    PROVE  IInv'
<1>1. /\ pa \in PAState
      /\ pa.pc = "create"
      /\ pa.n \in Notification
      /\ pa.n.user = pa.u
      /\ pa.u \in Users
  BY DEF PACreate, IInv, TypeOK, PALocalsSet
<1>2. CASE /\ store' = store \cup {pa.n}
           /\ pa' = [pa EXCEPT !.pc = "broadcast"]
  <2>1. TypeOK' /\ PALocalsSet'
    BY <1>1, <1>2 DEF PACreate, IInv, TypeOK, PAState, PALocalsSet
  <2>2. RegistryConsistent'
    BY DEF PACreate, IInv, RegistryConsistent
  <2>3. ChannelsStored'
    <3> SUFFICES ASSUME NEW i \in DOMAIN chans
                 PROVE  /\ AllStored(chans[i].buf, chans[i].user, store')
                        /\ AllStored(chans[i].got, chans[i].user, store')
      BY DEF PACreate, ChannelsStored
    <3>1. /\ AllStored(chans[i].buf, chans[i].user, store)
          /\ AllStored(chans[i].got, chans[i].user, store)
      BY DEF IInv, ChannelsStored
    <3>. QED
      BY <1>2, <3>1, StoredMonotone
  <2>. QED
    BY <2>1, <2>2, <2>3 DEF IInv
<1>3. CASE /\ DBErrors
           /\ pa' = [pa EXCEPT !.pc = "user"]
           /\ UNCHANGED store
  BY <1>1, <1>3, PAOnlyStep DEF PACreate, IInv, TypeOK, PAState, PALocalsSet
<1>. QED
  BY <1>2, <1>3 DEF PACreate

(* broadcastToUser appends the stored notification of user pa.u to the     *)
(* buffers of the channels registered for pa.u, which belong to pa.u.     *)
LEMMA PABroadcastIInv ==
    ASSUME IInv, PABroadcast
    PROVE  IInv'
<1>1. /\ pa \in PAState
      /\ pa.pc = "broadcast"
      /\ pa.n \in Notification
      /\ pa.n \in store
      /\ pa.n.user = pa.u
      /\ pa.u \in Users
      /\ chans \in Seq(Channel)
      /\ DOMAIN chans = 1..Len(chans)
      /\ Len(chans) \in Nat
  BY SeqFacts DEF PABroadcast, IInv, TypeOK, PALocalsSet
<1> DEFINE Hit(i) == i \in UserChans(pa.u) /\ Len(chans[i].buf) < ChanCap
<1>2. chans' = [i \in 1..Len(chans) |->
                  IF Hit(i) THEN [chans[i] EXCEPT !.buf = Append(chans[i].buf, pa.n)]
                  ELSE chans[i]]
  BY <1>1 DEF PABroadcast
<1>3. ASSUME NEW i \in 1..Len(chans), Hit(i)
      PROVE  chans[i].user = pa.u
  <2>1. PICK s \in SubIDs : subs[pa.u][s] # None /\ subs[pa.u][s] = i
    BY <1>3 DEF UserChans
  <2>. QED
    BY <1>1, <2>1 DEF IInv, RegistryConsistent
<1>4. ASSUME NEW i \in 1..Len(chans)
      PROVE  /\ chans'[i] \in Channel
             /\ chans'[i].user = chans[i].user
             /\ chans'[i].closed = chans[i].closed
             /\ chans'[i].got = chans[i].got
             /\ AllStored(chans'[i].buf, chans'[i].user, store)
  <2>0. chans[i] \in Channel
    BY <1>1, ElementOfSeq
  <2>1. /\ chans[i] \in Channel
        /\ chans[i].buf \in Seq(Notification)
        /\ AllStored(chans[i].buf, chans[i].user, store)
    BY <1>1, <2>0 DEF Channel, IInv, ChannelsStored
  <2>2. CASE Hit(i)
    <3>1. /\ AllStored(Append(chans[i].buf, pa.n), chans[i].user, store)
          /\ Append(chans[i].buf, pa.n) \in Seq(Notification)
      BY <1>1, <1>3, <2>1, <2>2, AppendStored, AppendProperties
    <3>2. chans'[i] = [chans[i] EXCEPT !.buf = Append(chans[i].buf, pa.n)]
      BY <1>2, <2>2
    <3>. QED
      BY <2>1, <3>1, <3>2 DEF Channel
  <2>3. CASE ~Hit(i)
    BY <1>2, <2>1, <2>3
  <2>. QED
    BY <2>2, <2>3
<1>5. /\ chans' \in Seq(Channel)
      /\ Len(chans') = Len(chans)
      /\ DOMAIN chans' = DOMAIN chans
  <2>1. chans' \in [1..Len(chans) -> Channel]
    BY <1>2, <1>4
  <2>. QED
    BY <1>1, <2>1, SeqDef, LenProperties
<1>6. TypeOK'
  BY <1>1, <1>5 DEF PABroadcast, IInv, TypeOK, PAState
<1>7. RegistryConsistent'
  BY <1>1, <1>4, <1>5 DEF PABroadcast, IInv, TypeOK, RegistryConsistent
<1>8. ChannelsStored'
  BY <1>1, <1>4, <1>5 DEF PABroadcast, IInv, ChannelsStored
<1>9. PALocalsSet'
  BY <1>1 DEF PABroadcast, IInv, PALocalsSet
<1>. QED
  BY <1>6, <1>7, <1>8, <1>9 DEF IInv

(* The invariant is inductive: one lemma per action, and stuttering.       *)
LEMMA IInvInductive == IInv /\ [Next]_vars => IInv'
<1> SUFFICES ASSUME IInv, [Next]_vars PROVE IInv'
  OBVIOUS
<1>1. CASE \E u \in Users, s \in SubIDs : Subscribe(u, s) \/ Unsubscribe(u, s)
  BY <1>1, SubscribeIInv, UnsubscribeIInv
<1>2. CASE \E i \in DOMAIN chans : Receive(i)
  BY <1>2, ReceiveIInv
<1>3. CASE \E u \in Users, p \in PrefChoices : UpdatePreferences(u, p)
  BY <1>3, UpdatePreferencesIInv
<1>4. CASE \E a \in Activities : PAStart(a)
  BY <1>4, PAStartIInv
<1>5. CASE \E u \in Users : PANextUser(u)
  BY <1>5, PANextUserIInv
<1>6. CASE PACreateDefault
  BY <1>6, PACreateDefaultIInv
<1>7. CASE PAReadPrefs
  BY <1>7, PAReadPrefsIInv
<1>8. CASE PAReadPrefsError
  BY <1>8, PAReadPrefsErrorIInv
<1>9. CASE PACreate
  BY <1>9, PACreateIInv
<1>10. CASE PABroadcast
  BY <1>10, PABroadcastIInv
<1>11. CASE PAEnd
  BY <1>11, PAEndIInv
<1>12. CASE UNCHANGED vars
  BY <1>12 DEF vars, IInv, TypeOK, PALocalsSet, RegistryConsistent,
              ChannelsStored, AllStored, Channel, PAState, Notification
<1>. QED
  BY <1>1, <1>2, <1>3, <1>4, <1>5, <1>6, <1>7, <1>8, <1>9, <1>10, <1>11,
     <1>12 DEF Next

-----------------------------------------------------------------------------
(* The theorems.                                                           *)

THEOREM InvariantHolds == Spec => []IInv
<1>1. Init => IInv
  BY InitIInv
<1>2. IInv /\ [Next]_vars => IInv'
  BY IInvInductive
<1>. QED
  BY <1>1, <1>2, PTL DEF Spec

(* Every reachable state of the Manager is well typed, whatever the users, *)
(* subscriber ids, activities and saved preferences.                       *)
THEOREM TypeCorrect == Spec => []TypeOK
  BY InvariantHolds, PTL DEF IInv

(* Subscribe, Unsubscribe and broadcastToUser never break the subscriber   *)
(* map: every registered channel is open, belongs to its user and is       *)
(* registered once, so a broadcast never sends on a closed channel and     *)
(* Unsubscribe never closes a channel twice, for any number of users,      *)
(* subscribers and channels.                                               *)
THEOREM RegistryConsistentInvariant == Spec => []RegistryConsistent
  BY InvariantHolds, PTL DEF IInv

(* An index past the first a of a + b positions is one of the last b.    *)
LEMMA ShiftIndex ==
    ASSUME NEW a \in Nat, NEW b \in Nat, NEW j \in 1..a + b, ~(j <= a)
    PROVE  j - a \in 1..b
  OBVIOUS

(* What a stream holds, buffered and received, is stored and addressed to  *)
(* its user.                                                               *)
LEMMA ChannelsStoredDelivered == IInv => DeliveredWereStored
<1> SUFFICES ASSUME IInv, NEW i \in DOMAIN chans,
                    NEW j \in 1..Len(chans[i].buf \o chans[i].got)
             PROVE  /\ (chans[i].buf \o chans[i].got)[j] \in store
                    /\ (chans[i].buf \o chans[i].got)[j].user = chans[i].user
  BY DEF DeliveredWereStored
<1>1. /\ chans[i] \in Channel
      /\ chans[i].buf \in Seq(Notification)
      /\ chans[i].got \in Seq(Notification)
      /\ AllStored(chans[i].buf, chans[i].user, store)
      /\ AllStored(chans[i].got, chans[i].user, store)
  <2>1. chans \in Seq(Channel) /\ DOMAIN chans = 1..Len(chans)
    BY SeqFacts DEF IInv, TypeOK
  <2>2. chans[i] \in Channel
    BY <2>1, ElementOfSeq
  <2>. QED
    BY <2>2 DEF Channel, IInv, ChannelsStored
<1>2. /\ Len(chans[i].buf \o chans[i].got) = Len(chans[i].buf) + Len(chans[i].got)
      /\ \A k \in 1..Len(chans[i].buf) + Len(chans[i].got) :
            (chans[i].buf \o chans[i].got)[k] =
               IF k <= Len(chans[i].buf) THEN chans[i].buf[k]
               ELSE chans[i].got[k - Len(chans[i].buf)]
      /\ Len(chans[i].buf) \in Nat /\ Len(chans[i].got) \in Nat
  BY <1>1, ConcatProperties, LenProperties
<1>3. CASE j <= Len(chans[i].buf)
  <2>1. (chans[i].buf \o chans[i].got)[j] = chans[i].buf[j]
        /\ j \in 1..Len(chans[i].buf)
    BY <1>2, <1>3
  <2>. QED
    BY <1>1, <2>1 DEF AllStored
<1>4. CASE ~(j <= Len(chans[i].buf))
  <2>0. j \in 1..Len(chans[i].buf) + Len(chans[i].got)
    BY <1>2
  <2>a. Len(chans[i].buf) \in Nat /\ Len(chans[i].got) \in Nat
    BY <1>1, LenProperties
  <2>1. j - Len(chans[i].buf) \in 1..Len(chans[i].got)
    BY <1>4, <2>0, <2>a, ShiftIndex
  <2>2. (chans[i].buf \o chans[i].got)[j] = chans[i].got[j - Len(chans[i].buf)]
    BY <1>2, <1>4, <2>0
  <2>. QED
    BY <1>1, <2>1, <2>2 DEF AllStored
<1>. QED
  BY <1>3, <1>4

(* ProcessActivity broadcasts a notification only after CreateNotification *)
(* stored it, and only to channels of its user, so a stream never shows a  *)
(* notification that is not stored or is not its user's, for any number   *)
(* of users, channels and failing database calls.                         *)
THEOREM DeliveredWereStoredInvariant == Spec => []DeliveredWereStored
<1>1. IInv => DeliveredWereStored
  BY ChannelsStoredDelivered
<1>. QED
  BY <1>1, InvariantHolds, PTL

=============================================================================
