---------------------------- MODULE PlayersProofs ----------------------------
(***************************************************************************)
(* Proofs about what players share: the chat channels, for any characters, *)
(* guilds, channels and visits; the parties, for any players and any       *)
(* number of parties; the trades, for any players and any items in any     *)
(* containers; the orders of one player, for any orders and events; and    *)
(* the waiting list, for any clients and retry times.                      *)
(***************************************************************************)
EXTENDS Chat, Party, Trade, Errands, WaitingList, FiniteSetTheorems, SequenceTheorems, WellFoundedInduction, TLAPS

-----------------------------------------------------------------------------
(* Chat channels.                                                          *)

\* Whoever listens to a channel is in the game and finds the channel in the list it is
\* removed from when it leaves, or came in without being invited.
ListenersFindIt ==
    \A c \in Channels : \A u \in users[c] :
        \/ <<c, u>> \in uninvited
        \/ u[1] \in present /\ u = Me(u[1]) /\ c \in ChannelList(u[1])

SoleOwners == \A c, d \in PrivateChannels : owner[c] = owner[d] => c = d

\* The inductive invariant behind ChatLinks.
ChatInv ==
    /\ ChatTypeOK
    /\ \A p \in present : visits[p] >= 1
    /\ \A c \in PrivateIds : owner[c] = NoOwner => invites[c] = {}
    /\ ListenersFindIt
    /\ OwnersListen
    /\ SoleOwners

LEMMA MeIsVisitor ==
    ASSUME ChatTypeOK, NEW p \in present, visits[p] >= 1
    PROVE  p \in Chatters /\ Me(p) \in Visitors /\ Me(p)[1] = p
BY ChatAssumption DEF ChatTypeOK, ChatAssumption, Me, Visitors

\* The channels left are those the player owned, closed, and others without the player.
LEMMA LeaveKeeps ==
    ASSUME ChatInv, NEW p \in present, NEW cs, LeaveThese(p, cs),
           UNCHANGED visits, guildChannels' \subseteq Guilds,
           \/ present' = present
           \/ present' = present \ {p} /\ ChannelList(p) \subseteq cs
    PROVE  ChatInv'
<1> DEFINE closed == cs \cap OwnedBy(p)
           me == Me(p)
<1>1. /\ users' = [c \in Channels |-> IF c \in closed THEN {}
                                      ELSE IF c \in cs THEN users[c] \ {me}
                                      ELSE users[c]]
      /\ owner' = [c \in PrivateIds |-> IF c \in closed THEN NoOwner ELSE owner[c]]
      /\ invites' = [c \in PrivateIds |-> IF c \in closed THEN {} ELSE invites[c]]
      /\ uninvited' = {u \in uninvited : u[1] \notin closed /\ (u[1] \in cs => u[2] # me)}
  BY DEF LeaveThese
<1>2. p \in Chatters /\ me[1] = p
  BY MeIsVisitor DEF ChatInv
<1>3. closed \subseteq PrivateChannels /\ closed \subseteq cs
      /\ \A c \in PrivateChannels : owner[c] = p /\ c \in cs => c \in closed
  BY DEF OwnedBy
<1>me. me = Me(p)
  OBVIOUS
<1> HIDE DEF closed, me
<1>4. PICK cl : cl = closed
  OBVIOUS
<1>5. PICK my : my = me
  OBVIOUS
<1>6. /\ PrivateChannels' = PrivateChannels \ cl
      /\ \A c \in PrivateIds \ cl : owner'[c] = owner[c] /\ invites'[c] = invites[c]
      /\ \A c \in Channels \ cl : users'[c] = IF c \in cs THEN users[c] \ {my} ELSE users[c]
      /\ \A c \in cl : c \in Channels => users'[c] = {}
      /\ \A c \in cl : c \in PrivateIds => owner'[c] = NoOwner /\ invites'[c] = {}
      /\ \A q : Me(q)' = Me(q)
  BY <1>1, <1>4, <1>5 DEF PrivateChannels, Me
<1>7. ChatTypeOK'
  <2>1. /\ users' \in [Channels -> SUBSET Visitors]
        /\ owner' \in [PrivateIds -> Chatters \cup {NoOwner}]
        /\ invites' \in [PrivateIds -> SUBSET Chatters]
    BY <1>1 DEF ChatInv, ChatTypeOK
  <2>2. uninvited' \subseteq PrivateIds \X Visitors
    BY <1>1 DEF ChatInv, ChatTypeOK
  <2> QED BY <2>1, <2>2 DEF ChatInv, ChatTypeOK
<1>8. ListenersFindIt'
  <2> SUFFICES ASSUME NEW c \in Channels, NEW u \in users'[c], <<c, u>> \notin uninvited'
               PROVE  u[1] \in present' /\ u = Me(u[1])' /\ c \in ChannelList(u[1])'
    BY DEF ListenersFindIt
  <2>1. c \notin cl /\ u \in users[c] /\ (c \in cs => u # my)
    BY <1>6
  <2>2. <<c, u>> \notin uninvited
    BY <1>1, <1>4, <1>5, <2>1
  <2>3. u[1] \in present /\ u = Me(u[1]) /\ c \in ChannelList(u[1])
    BY <2>1, <2>2 DEF ChatInv, ListenersFindIt
  <2>4. c \in ChannelList(u[1])'
    BY <1>6, <2>1, <2>3 DEF ChannelList, IsInvited, PrivateChannels
  <2>5. u[1] \in present'
    <3>1. CASE u[1] = p
      <4>1. c \notin cs
        BY <1>5, <1>me, <2>1, <2>3, <3>1
      <4> QED BY <2>3, <3>1, <4>1
    <3>2. CASE u[1] # p
      BY <2>3, <3>2
    <3> QED BY <3>1, <3>2
  <2> QED BY <1>6, <2>3, <2>4, <2>5
<1>9. OwnersListen'
  <2> SUFFICES ASSUME NEW c \in PrivateChannels'
               PROVE  owner'[c] \in present' /\ <<owner'[c], visits'[owner'[c]]>> \in users'[c]
    BY DEF OwnersListen, Me
  <2>1. c \in PrivateChannels /\ c \in PrivateIds /\ c \in Channels /\ c \notin cl
        /\ owner'[c] = owner[c]
    BY <1>6 DEF PrivateChannels, Channels
  <2>2. owner[c] \in present /\ Me(owner[c]) \in users[c]
        /\ <<owner'[c], visits'[owner'[c]]>> = Me(owner[c])
    BY <2>1 DEF ChatInv, OwnersListen, Me
  <2>3. CASE owner[c] = p
    <3>1. c \notin cs
      BY <1>3, <1>4, <2>1, <2>3
    <3>2. c \in ChannelList(p)
      BY <2>1, <2>3 DEF ChannelList, IsInvited
    <3> QED BY <1>6, <2>1, <2>2, <3>1, <3>2
  <2>4. CASE owner[c] # p
    <3>1. Me(owner[c]) # my
      BY <1>5, <1>me, <2>4 DEF Me
    <3> QED BY <1>6, <2>1, <2>2, <2>4, <3>1
  <2> QED BY <2>3, <2>4
<1>10. SoleOwners'
  BY <1>6 DEF ChatInv, SoleOwners, PrivateChannels
<1>11. \A c \in PrivateIds : owner'[c] = NoOwner => invites'[c] = {}
  BY <1>6 DEF ChatInv
<1>12. \A q \in present' : visits'[q] >= 1
  BY DEF ChatInv
<1> QED BY <1>7, <1>8, <1>9, <1>10, <1>11, <1>12 DEF ChatInv

LEMMA EnterChatKeeps == ASSUME ChatInv, NEW p \in Chatters, EnterChat(p) PROVE ChatInv'
<1>1. /\ p \notin present /\ visits[p] < MaxVisits
      /\ present' = present \cup {p} /\ visits' = [visits EXCEPT ![p] = @ + 1]
      /\ UNCHANGED <<users, owner, invites, guildChannels, uninvited>>
      /\ visits \in [Chatters -> 0 .. MaxVisits] /\ MaxVisits \in Nat
  BY ChatAssumption DEF EnterChat, ChatInv, ChatTypeOK, ChatAssumption
<1>2. visits' \in [Chatters -> 0 .. MaxVisits] /\ visits'[p] >= 1
      /\ \A q \in Chatters : q # p => visits'[q] = visits[q]
  <2>1. visits[p] + 1 \in 0 .. MaxVisits /\ visits[p] + 1 >= 1
    BY <1>1
  <2> QED BY <1>1, <2>1
<1>3. ChatTypeOK'
  BY <1>1, <1>2 DEF ChatInv, ChatTypeOK
<1>4. \A q \in present : q \in Chatters /\ q # p /\ visits'[q] = visits[q] /\ Me(q)' = Me(q)
  BY <1>1, <1>2 DEF ChatInv, ChatTypeOK, Me
<1>5. \A q : ChannelList(q)' = ChannelList(q)
  BY <1>1 DEF ChannelList, PrivateChannels, IsInvited
<1>6. ListenersFindIt'
  <2> SUFFICES ASSUME NEW d \in Channels, NEW u \in users'[d], <<d, u>> \notin uninvited'
               PROVE  u[1] \in present' /\ u = Me(u[1])' /\ d \in ChannelList(u[1])'
    BY DEF ListenersFindIt
  <2>1. u[1] \in present /\ u = Me(u[1]) /\ d \in ChannelList(u[1])
    BY <1>1 DEF ChatInv, ListenersFindIt
  <2> QED BY <1>1, <1>4, <1>5, <2>1
<1>7. OwnersListen'
  <2>1. \A c \in PrivateChannels : owner[c] \in present /\ Me(owner[c]) \in users[c]
    BY DEF ChatInv, OwnersListen
  <2> QED BY <1>1, <1>4, <2>1 DEF OwnersListen, PrivateChannels, Me
<1>8. SoleOwners'
  BY <1>1 DEF ChatInv, SoleOwners, PrivateChannels
<1>9. \A q \in present' : visits'[q] >= 1
  BY <1>1, <1>2, <1>4 DEF ChatInv
<1> QED BY <1>1, <1>3, <1>6, <1>7, <1>8, <1>9 DEF ChatInv

LEMMA LeastIs ==
    ASSUME NEW S \in SUBSET Nat, S # {} PROVE Min(S) \in S /\ \A m \in S : Min(S) <= m
<1> DEFINE R == OpToRel(<, Nat)
<1>1. \A x, y \in Nat : <<y, x>> \in R <=> y < x
  BY DEF OpToRel
<1>2. IsWellFoundedOn(R, Nat)
  BY NatLessThanWellFounded
<1> HIDE DEF R
<1>3. \E n \in S : \A m \in S : ~(<<m, n>> \in R)
  BY <1>2, WFMin
<1>4. PICK n \in S : \A m \in S : <<m, n>> \notin R
  BY <1>3
<1>5. \A m \in S : m \in Nat /\ n \in Nat /\ ~(m < n)
  BY <1>1, <1>4
<1>6. \A m \in S : n <= m
  BY <1>5
<1> QED BY <1>6 DEF Min

LEMMA CreatePrivateKeeps == ASSUME ChatInv, NEW p \in Chatters, CreatePrivate(p) PROVE ChatInv'
<1>1. PICK c : c = Min(PrivateIds \ PrivateChannels)
  OBVIOUS
<1>2. /\ p \in present /\ OwnedBy(p) = {}
      /\ owner' = [owner EXCEPT ![c] = p] /\ users' = [users EXCEPT ![c] = {Me(p)}]
      /\ UNCHANGED <<invites, guildChannels, visits, present, uninvited>>
  BY <1>1 DEF CreatePrivate
<1>3. c \in PrivateIds /\ c \notin PrivateChannels /\ c \in Channels
  <2>1. PrivateIds \ PrivateChannels # {}
    BY DEF CreatePrivate, PrivateChannels
  <2>2. PrivateIds \ PrivateChannels \in SUBSET Nat
    BY ChatAssumption DEF ChatAssumption
  <2> QED BY <1>1, <2>1, <2>2, LeastIs DEF Channels
<1>4. p \in Chatters /\ Me(p) \in Visitors /\ Me(p)[1] = p /\ p # NoOwner
  BY <1>2, MeIsVisitor, ChatAssumption DEF ChatInv, ChatAssumption
<1>5. /\ owner'[c] = p /\ \A d \in PrivateIds : d # c => owner'[d] = owner[d]
      /\ users'[c] = {Me(p)} /\ \A d \in Channels : d # c => users'[d] = users[d]
      /\ PrivateChannels' = PrivateChannels \cup {c}
      /\ \A q : Me(q)' = Me(q)
  <2>1. /\ owner'[c] = p /\ \A d \in PrivateIds : d # c => owner'[d] = owner[d]
        /\ users'[c] = {Me(p)} /\ \A d \in Channels : d # c => users'[d] = users[d]
    BY <1>2, <1>3 DEF ChatInv, ChatTypeOK
  <2> QED BY <1>2, <1>3, <1>4, <2>1 DEF PrivateChannels, Me
<1>6. ChatTypeOK'
  BY <1>2, <1>3, <1>4 DEF ChatInv, ChatTypeOK
<1>7. c \in ChannelList(p)' /\ \A d, q : d # c /\ d \in ChannelList(q) => d \in ChannelList(q)'
  BY <1>2, <1>5 DEF ChannelList, IsInvited, PrivateChannels
<1>8. ListenersFindIt'
  <2> SUFFICES ASSUME NEW d \in Channels, NEW u \in users'[d], <<d, u>> \notin uninvited'
               PROVE  u[1] \in present' /\ u = Me(u[1])' /\ d \in ChannelList(u[1])'
    BY DEF ListenersFindIt
  <2>1. CASE d = c
    BY <1>2, <1>4, <1>5, <1>7, <2>1
  <2>2. CASE d # c
    <3>1. u[1] \in present /\ u = Me(u[1]) /\ d \in ChannelList(u[1])
      BY <1>2, <1>5, <2>2 DEF ChatInv, ListenersFindIt
    <3> QED BY <1>2, <1>5, <1>7, <2>2, <3>1
  <2> QED BY <2>1, <2>2
<1>9. OwnersListen'
  <2>1. \A d \in PrivateChannels : d \in PrivateIds /\ d \in Channels /\ d # c
                                   /\ owner[d] \in present /\ Me(owner[d]) \in users[d]
    BY <1>3 DEF ChatInv, OwnersListen, PrivateChannels, Channels
  <2>2. \A d \in PrivateChannels' :
           owner'[d] \in present' /\ <<owner'[d], visits'[owner'[d]]>> \in users'[d]
    BY <1>2, <1>5, <2>1 DEF Me
  <2> QED BY <2>2 DEF OwnersListen, Me
<1>10. SoleOwners'
  <2>1. \A d \in PrivateChannels : d \in PrivateIds /\ d # c /\ owner[d] # p
    BY <1>2, <1>3 DEF OwnedBy, PrivateChannels
  <2> QED BY <1>5, <2>1 DEF ChatInv, SoleOwners
<1>11. \A d \in PrivateIds : owner'[d] = NoOwner => invites'[d] = {}
  BY <1>2, <1>4, <1>5 DEF ChatInv
<1> QED BY <1>2, <1>6, <1>8, <1>9, <1>10, <1>11 DEF ChatInv

LEMMA InviteKeeps ==
    ASSUME ChatInv, NEW p \in Chatters, NEW q \in Chatters, InviteToChannel(p, q)
    PROVE  ChatInv'
<1>1. PICK c \in OwnedBy(p) :
         /\ invites' = [invites EXCEPT ![c] = @ \cup {q}]
         /\ uninvited' = uninvited \ {<<c, Me(q)>>}
  BY DEF InviteToChannel
<1>2. /\ q \in present /\ c \in PrivateChannels /\ c \in PrivateIds
      /\ UNCHANGED <<users, owner, guildChannels, visits, present>>
  BY DEF InviteToChannel, OwnedBy, PrivateChannels
<1>3. /\ invites'[c] = invites[c] \cup {q}
      /\ \A d \in PrivateIds : d # c => invites'[d] = invites[d]
      /\ PrivateChannels' = PrivateChannels
      /\ \A r : Me(r)' = Me(r)
  BY <1>1, <1>2 DEF ChatInv, ChatTypeOK, PrivateChannels, Me
<1>4. ChatTypeOK'
  BY <1>1, <1>2 DEF ChatInv, ChatTypeOK
<1>5. \A d, r : d \in ChannelList(r) => d \in ChannelList(r)'
  BY <1>2, <1>3 DEF ChannelList, IsInvited, PrivateChannels
<1>6. c \in ChannelList(q)'
  BY <1>2, <1>3 DEF ChannelList, IsInvited
<1>7. ListenersFindIt'
  <2> SUFFICES ASSUME NEW d \in Channels, NEW u \in users'[d], <<d, u>> \notin uninvited'
               PROVE  u[1] \in present' /\ u = Me(u[1])' /\ d \in ChannelList(u[1])'
    BY DEF ListenersFindIt
  <2>1. CASE <<d, u>> \in uninvited
    <3>1. d = c /\ u = Me(q) /\ u[1] = q
      BY <1>1, <2>1 DEF Me
    <3> QED BY <1>2, <1>3, <1>6, <3>1
  <2>2. CASE <<d, u>> \notin uninvited
    <3>1. u[1] \in present /\ u = Me(u[1]) /\ d \in ChannelList(u[1])
      BY <1>2, <2>2 DEF ChatInv, ListenersFindIt
    <3> QED BY <1>2, <1>3, <1>5, <3>1
  <2> QED BY <2>1, <2>2
<1>8. OwnersListen' /\ SoleOwners'
  BY <1>2, <1>3 DEF ChatInv, OwnersListen, SoleOwners, Me
<1>9. \A d \in PrivateIds : owner'[d] = NoOwner => invites'[d] = {}
  BY <1>2, <1>3 DEF ChatInv, PrivateChannels
<1> QED BY <1>2, <1>4, <1>7, <1>8, <1>9 DEF ChatInv

LEMMA ExcludeKeeps ==
    ASSUME ChatInv, NEW p \in Chatters, NEW q \in Chatters, ExcludeFromChannel(p, q)
    PROVE  ChatInv'
<1>1. PICK c \in OwnedBy(p) :
         /\ invites' = [invites EXCEPT ![c] = @ \ {q}]
         /\ users' = [users EXCEPT ![c] = @ \ {Me(q)}]
  BY DEF ExcludeFromChannel
<1>2. /\ q \in present /\ p # q /\ c \in PrivateChannels /\ c \in PrivateIds /\ owner[c] = p
      /\ c \in Channels
      /\ UNCHANGED <<owner, guildChannels, visits, present, uninvited>>
  BY DEF ExcludeFromChannel, OwnedBy, PrivateChannels, Channels
<1>3. /\ invites'[c] = invites[c] \ {q}
      /\ \A d \in PrivateIds : d # c => invites'[d] = invites[d]
      /\ users'[c] = users[c] \ {Me(q)}
      /\ \A d \in Channels : d # c => users'[d] = users[d]
      /\ PrivateChannels' = PrivateChannels
      /\ \A r : Me(r)' = Me(r)
  BY <1>1, <1>2 DEF ChatInv, ChatTypeOK, PrivateChannels, Me
<1>4. ChatTypeOK'
  BY <1>1, <1>2 DEF ChatInv, ChatTypeOK
<1>5. \A d, r : d \in ChannelList(r) /\ ~(d = c /\ r = q) => d \in ChannelList(r)'
  BY <1>2, <1>3 DEF ChannelList, IsInvited, PrivateChannels
<1>6. ListenersFindIt'
  <2> SUFFICES ASSUME NEW d \in Channels, NEW u \in users'[d], <<d, u>> \notin uninvited'
               PROVE  u[1] \in present' /\ u = Me(u[1])' /\ d \in ChannelList(u[1])'
    BY DEF ListenersFindIt
  <2>1. u \in users[d] /\ (d = c => u # Me(q))
    BY <1>3
  <2>2. u[1] \in present /\ u = Me(u[1]) /\ d \in ChannelList(u[1])
    BY <1>2, <2>1 DEF ChatInv, ListenersFindIt
  <2>3. ~(d = c /\ u[1] = q)
    BY <2>1, <2>2
  <2> QED BY <1>2, <1>3, <1>5, <2>2, <2>3
<1>7. OwnersListen'
  <2>1. \A d \in PrivateChannels : d \in PrivateIds /\ d \in Channels
                                   /\ owner[d] \in present /\ Me(owner[d]) \in users[d]
    BY DEF ChatInv, OwnersListen, PrivateChannels, Channels
  <2>2. Me(p) # Me(q)
    BY <1>2 DEF Me
  <2>3. \A d \in PrivateChannels' :
           owner'[d] \in present' /\ <<owner'[d], visits'[owner'[d]]>> \in users'[d]
    BY <1>2, <1>3, <2>1, <2>2 DEF Me
  <2> QED BY <2>3 DEF OwnersListen, Me
<1>8. SoleOwners'
  BY <1>2, <1>3 DEF ChatInv, SoleOwners
<1>9. \A d \in PrivateIds : owner'[d] = NoOwner => invites'[d] = {}
  BY <1>2, <1>3 DEF ChatInv
<1> QED BY <1>2, <1>4, <1>6, <1>7, <1>8, <1>9 DEF ChatInv

LEMMA OpenKeeps ==
    ASSUME ChatInv, NEW p \in Chatters, NEW c \in Channels, OpenChannel(p, c)
    PROVE  ChatInv'
<1>1. /\ p \in present /\ c \in Reachable(p)
      /\ users' = [users EXCEPT ![c] = @ \cup {Me(p)}]
      /\ uninvited' = IF c \in PrivateIds /\ ~IsInvited(c, p)
                      THEN uninvited \cup {<<c, Me(p)>>} ELSE uninvited
      /\ UNCHANGED <<owner, invites, guildChannels, visits, present>>
  BY DEF OpenChannel
<1>2. Me(p) \in Visitors /\ Me(p)[1] = p
  BY <1>1, MeIsVisitor DEF ChatInv
<1>3. /\ users'[c] = users[c] \cup {Me(p)}
      /\ \A d \in Channels : d # c => users'[d] = users[d]
      /\ \A r : Me(r)' = Me(r) /\ ChannelList(r)' = ChannelList(r)
      /\ uninvited \subseteq uninvited'
  BY <1>1 DEF ChatInv, ChatTypeOK, Me, ChannelList, PrivateChannels, IsInvited
<1>4. ChatTypeOK'
  <2>1. uninvited' \subseteq PrivateIds \X Visitors
    BY <1>1, <1>2 DEF ChatInv, ChatTypeOK
  <2>2. users' \in [Channels -> SUBSET Visitors]
    BY <1>1, <1>2 DEF ChatInv, ChatTypeOK
  <2> QED BY <1>1, <2>1, <2>2 DEF ChatInv, ChatTypeOK
<1>5. <<c, Me(p)>> \in uninvited' \/ c \in ChannelList(p)
  <2>1. CASE c \in PrivateIds /\ ~IsInvited(c, p)
    BY <1>1, <2>1
  <2>2. CASE c \in PrivateIds /\ IsInvited(c, p)
    <3>1. c \in PrivateChannels
      BY <2>2, ChatAssumption DEF IsInvited, PrivateChannels, ChatInv, ChatAssumption
    <3> QED BY <2>2, <3>1 DEF ChannelList
  <2>3. CASE c \notin PrivateIds
    <3>1. guildChannels \subseteq Guilds /\ PrivateChannels \subseteq PrivateIds
      BY DEF ChatInv, ChatTypeOK, PrivateChannels
    <3> QED BY <1>1, <2>3, <3>1 DEF Reachable, ChannelList
  <2> QED BY <2>1, <2>2, <2>3
<1>6. ListenersFindIt'
  <2> SUFFICES ASSUME NEW d \in Channels, NEW u \in users'[d], <<d, u>> \notin uninvited'
               PROVE  u[1] \in present' /\ u = Me(u[1])' /\ d \in ChannelList(u[1])'
    BY DEF ListenersFindIt
  <2>1. CASE u \in users[d]
    <3>1. u[1] \in present /\ u = Me(u[1]) /\ d \in ChannelList(u[1])
      BY <1>3, <2>1 DEF ChatInv, ListenersFindIt
    <3> QED BY <1>1, <1>3, <3>1
  <2>2. CASE u \notin users[d]
    <3>1. d = c /\ u = Me(p)
      BY <1>3, <2>2
    <3> QED BY <1>1, <1>2, <1>3, <1>5, <3>1
  <2> QED BY <2>1, <2>2
<1>7. OwnersListen'
  <2>1. \A d \in PrivateChannels : d \in Channels /\ owner[d] \in present /\ Me(owner[d]) \in users[d]
    BY DEF ChatInv, OwnersListen, PrivateChannels, Channels
  <2> QED BY <1>1, <1>3, <2>1 DEF OwnersListen, PrivateChannels, Me
<1>8. SoleOwners' /\ (\A d \in PrivateIds : owner'[d] = NoOwner => invites'[d] = {})
  BY <1>1 DEF ChatInv, SoleOwners, PrivateChannels
<1> QED BY <1>1, <1>4, <1>6, <1>7, <1>8 DEF ChatInv

LEMMA RequestKeeps == ASSUME ChatInv, NEW p \in Chatters, RequestChannels(p) PROVE ChatInv'
<1>1. /\ guildChannels' \subseteq Guilds
      /\ UNCHANGED <<users, owner, invites, visits, present, uninvited>>
  BY DEF RequestChannels, ChatInv, ChatTypeOK
<1>2. \A r : Me(r)' = Me(r) /\ ChannelList(r)' = ChannelList(r)
  BY <1>1 DEF Me, ChannelList, PrivateChannels, IsInvited
<1>3. ChatTypeOK' /\ ListenersFindIt'
  BY <1>1, <1>2 DEF ChatInv, ChatTypeOK, ListenersFindIt
<1>4. OwnersListen' /\ SoleOwners'
  BY <1>1, <1>2 DEF ChatInv, OwnersListen, SoleOwners, PrivateChannels, Me
<1> QED BY <1>1, <1>3, <1>4 DEF ChatInv

\* The invariant behind ChatLinks: whoever listens is found when he leaves, but for those
\* who came in uninvited.
THEOREM ListenersInductive == ChatSpec => []ChatInv
<1>1. ChatInit => ChatInv
  <2> SUFFICES ASSUME ChatInit PROVE ChatInv
    OBVIOUS
  <2>1. ChatTypeOK
    BY ChatAssumption DEF ChatInit, ChatTypeOK, ChatAssumption
  <2>2. ListenersFindIt /\ OwnersListen /\ SoleOwners
    BY DEF ChatInit, ListenersFindIt, OwnersListen, SoleOwners, PrivateChannels
  <2> QED BY <2>1, <2>2 DEF ChatInit, ChatInv
<1>2. ChatInv /\ [ChatNext]_chatVars => ChatInv'
  <2> SUFFICES ASSUME ChatInv, [ChatNext]_chatVars PROVE ChatInv'
    OBVIOUS
  <2>1. ASSUME NEW p \in Chatters, EnterChat(p) \/ CreatePrivate(p) \/ RequestChannels(p) PROVE ChatInv'
    BY <2>1, EnterChatKeeps, CreatePrivateKeeps, RequestKeeps
  <2>2. ASSUME NEW p \in Chatters, TakenOverInChat(p) \/ LeaveChat(p) PROVE ChatInv'
    <3>1. /\ p \in present /\ LeaveThese(p, ChannelList(p)) /\ UNCHANGED visits
          /\ guildChannels' \subseteq Guilds
          /\ present' = present \/ present' = present \ {p}
      BY <2>2 DEF TakenOverInChat, LeaveChat, ChatInv, ChatTypeOK
    <3> QED BY <3>1, LeaveKeeps
  <2>3. ASSUME NEW p \in Chatters, NEW c \in Channels, OpenChannel(p, c) PROVE ChatInv'
    BY <2>3, OpenKeeps
  <2>4. ASSUME NEW p \in Chatters, NEW c \in Channels, CloseChannel(p, c) PROVE ChatInv'
    <3>1. /\ p \in present /\ LeaveThese(p, {c})
          /\ UNCHANGED <<guildChannels, visits, present>> /\ guildChannels' \subseteq Guilds
      BY <2>4 DEF CloseChannel, ChatInv, ChatTypeOK
    <3> QED BY <3>1, LeaveKeeps
  <2>5. ASSUME NEW p \in Chatters, NEW q \in Chatters,
               InviteToChannel(p, q) \/ ExcludeFromChannel(p, q)
        PROVE  ChatInv'
    BY <2>5, InviteKeeps, ExcludeKeeps
  <2>6. CASE UNCHANGED chatVars
    <3>1. UNCHANGED <<users, owner, invites, guildChannels, visits, present, uninvited>>
      BY <2>6 DEF chatVars
    <3> QED BY <3>1 DEF ChatInv, ChatTypeOK, ListenersFindIt, OwnersListen, SoleOwners,
                        PrivateChannels, ChannelList, IsInvited, Me
  <2> QED BY <2>1, <2>2, <2>3, <2>4, <2>5, <2>6 DEF ChatNext
<1> QED BY <1>1, <1>2, PTL DEF ChatSpec

\* talk and closeChannel follow only pointers of Players in the game, but for those who came
\* into a private channel uninvited (chat.cpp removeUserFromAllChannels); a private channel
\* has its owner, in the game and listening, and no owner has two.
THEOREM ChatLinked == ChatSpec => []ChatLinks
<1>1. ChatInv => ChatLinks
  <2> SUFFICES ASSUME ChatInv PROVE ChatLinks
    OBVIOUS
  <2>1. ChatTypeOK /\ OwnersListen
    BY DEF ChatInv
  <2>2. ListenersLive
    BY DEF ChatInv, ListenersFindIt, ListenersLive
  <2>3. ASSUME NEW p \in Chatters PROVE Cardinality(OwnedBy(p)) <= 1
    <3>1. CASE OwnedBy(p) = {}
      BY <3>1, FS_EmptySet
    <3>2. CASE OwnedBy(p) # {}
      <4>1. PICK c \in OwnedBy(p) : TRUE
        BY <3>2
      <4>2. OwnedBy(p) = {c}
        BY <4>1 DEF OwnedBy, ChatInv, SoleOwners
      <4> QED BY <4>2, FS_Singleton
    <3> QED BY <3>1, <3>2
  <2> QED BY <2>1, <2>2, <2>3 DEF ChatLinks, OneChannelEach
<1> QED BY <1>1, ListenersInductive, PTL

-----------------------------------------------------------------------------
(* Parties.                                                                *)

PartyData == [leader : PartyPlayers \cup {NoLeader}, memberList : Seq(PartyPlayers),
              inviteList : SUBSET PartyPlayers]
PointerStates == [ps : [Parties -> PartyData], of : [PartyPlayers -> Parties \cup {NoParty}],
                  inv : [PartyPlayers -> SUBSET Parties]]

\* A deleted party is an empty one; in the others nobody has two places.
Single(list) == \A i, j \in DOMAIN list : list[i] = list[j] => i = j
Sane(d) ==
    \/ d = NoObject
    \/ d.leader \in PartyPlayers \ ToSet(d.memberList) /\ Single(d.memberList)
Group(d) == {d.leader} \cup ToSet(d.memberList)

\* A player's party has him in its group, and each of the group the party.
GroupsAgree(s) ==
    /\ \A p \in PartyPlayers : s.of[p] # NoParty =>
          s.ps[s.of[p]].leader # NoLeader /\ p \in Group(s.ps[s.of[p]])
    /\ \A x \in Parties : s.ps[x].leader # NoLeader => \A p \in Group(s.ps[x]) : s.of[p] = x

\* The lists of invitations name each other, but for players who left while invited.
ListsAgree(s, lo) ==
    \A p \in PartyPlayers, x \in Parties :
        /\ p \in s.ps[x].inviteList => x \in s.inv[p]
        /\ x \in s.inv[p] => p \in s.ps[x].inviteList \/ p \in lo

\* Who is not in the game is in no party's lists, and has none himself.
OnlyThese(s, here, lo) ==
    /\ \A x \in Parties : s.ps[x].leader # NoLeader => Group(s.ps[x]) \subseteq here
    /\ \A p \in PartyPlayers \ here : s.inv[p] = {} /\ p \notin lo

\* What holds between the methods of Party: but for the party of maybe, none is empty.
Sound(s, here, lo, maybe) ==
    /\ s \in PointerStates
    /\ \A x \in Parties : Sane(s.ps[x])
    /\ GroupsAgree(s) /\ ListsAgree(s, lo) /\ OnlyThese(s, here, lo)
    /\ \A x \in Parties \ maybe : s.ps[x].leader # NoLeader => ~Empty(s.ps[x])

\* The inductive invariant behind PartyLinks.
PartyInv ==
    /\ inGame \subseteq PartyPlayers /\ leftInvited \subseteq PartyPlayers
    /\ Sound(Pointers, inGame, leftInvited, {})

-----------------------------------------------------------------------------
(* What the methods do to the pointers.                                    *)

LEMMA PointersAre ==
    ASSUME NEW s \in PointerStates, NEW x \in Parties
    PROVE  /\ s.ps \in [Parties -> PartyData] /\ s.ps[x] \in PartyData
           /\ s.of \in [PartyPlayers -> Parties \cup {NoParty}]
           /\ s.inv \in [PartyPlayers -> SUBSET Parties]
           /\ s.ps[x].leader \in PartyPlayers \cup {NoLeader}
           /\ s.ps[x].memberList \in Seq(PartyPlayers)
           /\ s.ps[x].inviteList \subseteq PartyPlayers
BY DEF PointerStates, PartyData

Relisted(s, x, p, L, V) == [s EXCEPT !.ps[x].inviteList = L, !.inv[p] = V]

LEMMA WithInvites ==
    ASSUME NEW s \in PointerStates, NEW x \in Parties, NEW p \in PartyPlayers,
           NEW L, NEW V, L \subseteq PartyPlayers, V \subseteq Parties, NEW t,
           t = Relisted(s, x, p, L, V)
    PROVE  /\ t \in PointerStates
           /\ t.of = s.of
           /\ t.inv[p] = V /\ \A q \in PartyPlayers : q # p => t.inv[q] = s.inv[q]
           /\ \A y \in Parties : y # x => t.ps[y] = s.ps[y]
           /\ t.ps[x].leader = s.ps[x].leader /\ t.ps[x].memberList = s.ps[x].memberList
           /\ t.ps[x].inviteList = L
<1> DEFINE d == [s.ps[x] EXCEPT !.inviteList = L]
           f == [s.ps EXCEPT ![x] = d]
           g == [s.inv EXCEPT ![p] = V]
<1>1. t = [s EXCEPT !.ps = f, !.inv = g]
  BY DEF Relisted
<1>2. d \in PartyData /\ d.leader = s.ps[x].leader /\ d.memberList = s.ps[x].memberList
      /\ d.inviteList = L
  BY PointersAre DEF PartyData
<1> HIDE DEF d
<1>3. f \in [Parties -> PartyData] /\ f[x] = d /\ \A y \in Parties : y # x => f[y] = s.ps[y]
  BY <1>2, PointersAre
<1>4. /\ g \in [PartyPlayers -> SUBSET Parties]
      /\ g[p] = V /\ \A q \in PartyPlayers : q # p => g[q] = s.inv[q]
  BY PointersAre
<1> HIDE DEF f, g
<1>5. t \in PointerStates /\ t.ps = f /\ t.of = s.of /\ t.inv = g
  BY <1>1, <1>3, <1>4 DEF PointerStates
<1> QED BY <1>2, <1>3, <1>4, <1>5

-----------------------------------------------------------------------------
(* Lists in which nobody has two places.                                   *)

LEMMA RemovedIs ==
    ASSUME NEW s \in Seq(PartyPlayers), NEW k \in 1 .. Len(s), Single(s)
    PROVE  /\ RemoveAt(s, k) \in Seq(PartyPlayers)
           /\ Single(RemoveAt(s, k))
           /\ ToSet(RemoveAt(s, k)) = ToSet(s) \ {s[k]}
<1> DEFINE r == RemoveAt(s, k)
           a == SubSeq(s, 1, k - 1)
           b == SubSeq(s, k + 1, Len(s))
           at(i) == IF i < k THEN i ELSE i + 1
<1>1. Len(s) \in Nat /\ k \in Nat /\ DOMAIN s = 1 .. Len(s)
  OBVIOUS
<1>2. /\ a \in Seq(PartyPlayers) /\ Len(a) = k - 1
      /\ \A i \in 1 .. k - 1 : a[i] = s[i]
  <2>1. \A i \in 1 .. k - 1 : s[i] \in PartyPlayers
    BY <1>1
  <2>2. a \in Seq(PartyPlayers)
    BY <2>1, <1>1, SubSeqProperties
  <2>3. Len(a) = k - 1
    BY <1>1, SubSeqProperties
  <2>4. \A i \in 1 .. k - 1 : a[i] = s[i]
    BY <1>1, <2>3, SubSeqProperties
  <2> QED BY <2>2, <2>3, <2>4
<1>3. /\ b \in Seq(PartyPlayers) /\ Len(b) = Len(s) - k
      /\ \A i \in 1 .. Len(s) - k : b[i] = s[i + k]
  <2>1. /\ k + 1 \in Int /\ Len(s) \in Int
        /\ \A i \in k + 1 .. Len(s) : s[i] \in PartyPlayers
    BY <1>1
  <2>2. /\ b \in Seq(PartyPlayers)
        /\ Len(b) = IF k + 1 <= Len(s) THEN Len(s) - (k + 1) + 1 ELSE 0
        /\ \A i \in 1 .. Len(s) - (k + 1) + 1 : b[i] = s[k + 1 + i - 1]
    BY <2>1, SubSeqProperties
  <2>3. Len(b) = Len(s) - k
    <3>1. Len(b) = IF k + 1 <= Len(s) THEN Len(s) - (k + 1) + 1 ELSE 0
      BY ONLY <2>2
    <3>2. Len(s) \in Nat /\ k \in Nat /\ k <= Len(s)
      BY <1>1
    <3> HIDE DEF b
    <3> QED BY ONLY <3>1, <3>2
  <2>4. ASSUME NEW i \in 1 .. Len(s) - k PROVE b[i] = s[i + k]
    <3>1. i \in 1 .. Len(s) - (k + 1) + 1 /\ k + 1 + i - 1 = i + k
      BY <1>1
    <3> QED BY <3>1, <2>2
  <2> QED BY <2>2, <2>3, <2>4
<1>4. r = a \o b
  BY DEF RemoveAt
<1> HIDE DEF r, a, b
<1>5. /\ r \in Seq(PartyPlayers) /\ Len(r) = Len(a) + Len(b)
      /\ \A i \in 1 .. Len(a) + Len(b) : r[i] = IF i <= Len(a) THEN a[i] ELSE b[i - Len(a)]
  BY <1>2, <1>3, <1>4, ConcatProperties
<1>6. Len(r) = Len(s) - 1 /\ DOMAIN r = 1 .. Len(s) - 1
  BY <1>1, <1>2, <1>3, <1>5
<1>7. ASSUME NEW i \in 1 .. Len(s) - 1
      PROVE  at(i) \in 1 .. Len(s) /\ at(i) # k /\ r[i] = s[at(i)]
  <2>a. Len(a) = k - 1 /\ Len(b) = Len(s) - k
    BY <1>2, <1>3
  <2>b. Len(a) + Len(b) = Len(s) - 1
    BY ONLY <2>a, <1>1
  <2>0. r[i] = IF i <= k - 1 THEN a[i] ELSE b[i - (k - 1)]
    BY ONLY <2>a, <2>b, <1>5, i \in 1 .. Len(s) - 1
  <2>1. CASE i < k
    <3>1. i \in 1 .. k - 1
      BY <2>1, <1>1
    <3> QED BY <2>0, <2>1, <3>1, <1>1, <1>2
  <2>2. CASE ~(i < k)
    <3>1. i - (k - 1) \in 1 .. Len(s) - k
      BY <2>2, <1>1
    <3>2. r[i] = b[i - (k - 1)]
      BY <2>0, <2>2, <1>1
    <3>3. i - (k - 1) + k = i + 1
      BY <1>1
    <3> QED BY <2>2, <3>1, <3>2, <3>3, <1>1, <1>3
  <2> QED BY <2>1, <2>2
<1>8. Single(r)
  <2>1. ASSUME NEW i \in DOMAIN r, NEW j \in DOMAIN r, r[i] = r[j] PROVE i = j
    <3>1. at(i) = at(j)
      BY <1>1, <1>6, <1>7, <2>1 DEF Single
    <3> QED BY <3>1, <1>1, <1>6
  <2> QED BY <2>1 DEF Single
<1>9. ToSet(r) \subseteq ToSet(s) \ {s[k]}
  <2>1. ASSUME NEW i \in 1 .. Len(s) - 1 PROVE r[i] \in ToSet(s) \ {s[k]}
    BY <1>1, <1>7 DEF Single, ToSet
  <2> QED BY <2>1, <1>6 DEF ToSet
<1>10. ToSet(s) \ {s[k]} \subseteq ToSet(r)
  <2>1. ASSUME NEW j \in 1 .. Len(s), j # k PROVE s[j] \in ToSet(r)
    <3>1. PICK i \in 1 .. Len(s) - 1 : at(i) = j
      <4>1. CASE j < k
        BY <4>1, <1>1
      <4>2. CASE ~(j < k)
        <5>1. j - 1 \in 1 .. Len(s) - 1 /\ at(j - 1) = j
          BY <2>1, <4>2, <1>1
        <5> QED BY <5>1
      <4> QED BY <4>1, <4>2
    <3>2. r[i] = s[j]
      BY <1>7, <3>1
    <3> QED BY <3>2, <1>6 DEF ToSet
  <2> QED BY <2>1, <1>1 DEF ToSet
<1> QED BY <1>5, <1>8, <1>9, <1>10 DEF r

LEMMA DroppedIs ==
    ASSUME NEW s \in Seq(PartyPlayers), NEW p, Single(s)
    PROVE  /\ Dropped(s, p) \in Seq(PartyPlayers) /\ Single(Dropped(s, p))
           /\ ToSet(Dropped(s, p)) = ToSet(s) \ {p}
<1>1. CASE p \in ToSet(s)
  <2> DEFINE k == CHOOSE i \in DOMAIN s : s[i] = p
  <2>1. k \in DOMAIN s /\ s[k] = p
    BY <1>1 DEF ToSet
  <2>2. Dropped(s, p) = RemoveAt(s, k)
    BY <1>1 DEF Dropped
  <2> HIDE DEF k
  <2> QED BY <2>1, <2>2, RemovedIs
<1>2. CASE p \notin ToSet(s)
  BY <1>2 DEF Dropped
<1> QED BY <1>1, <1>2

LEMMA AppendedIs ==
    ASSUME NEW s \in Seq(PartyPlayers), NEW p \in PartyPlayers, p \notin ToSet(s), Single(s)
    PROVE  /\ Append(s, p) \in Seq(PartyPlayers) /\ Single(Append(s, p))
           /\ ToSet(Append(s, p)) = ToSet(s) \cup {p}
<1> DEFINE r == Append(s, p)
<1>1. /\ r \in Seq(PartyPlayers) /\ Len(r) = Len(s) + 1 /\ r[Len(s) + 1] = p
      /\ \A i \in 1 .. Len(s) : r[i] = s[i]
  BY AppendProperties
<1>2. DOMAIN s = 1 .. Len(s) /\ DOMAIN r = 1 .. Len(s) + 1 /\ Len(s) \in Nat
  BY <1>1
<1> HIDE DEF r
<1>3. \A i \in DOMAIN r : i \in DOMAIN s \/ i = Len(s) + 1
  BY <1>2
<1>4. \A i \in DOMAIN s : s[i] # p
  BY DEF ToSet
<1>5. Single(r)
  BY <1>1, <1>2, <1>3, <1>4 DEF Single
<1>6. ToSet(r) = ToSet(s) \cup {p}
  BY <1>1, <1>2, <1>3 DEF ToSet
<1> QED BY <1>1, <1>5, <1>6 DEF r

LEMMA LedIs ==
    ASSUME NEW s \in Seq(PartyPlayers), NEW p \in PartyPlayers, p \notin ToSet(s), Single(s)
    PROVE  /\ <<p>> \o s \in Seq(PartyPlayers) /\ Single(<<p>> \o s)
           /\ ToSet(<<p>> \o s) = ToSet(s) \cup {p} /\ <<p>> \o s # <<>>
<1> DEFINE r == <<p>> \o s
<1>0. <<p>> \in Seq(PartyPlayers) /\ Len(<<p>>) = 1 /\ <<p>>[1] = p
  OBVIOUS
<1>1. /\ r \in Seq(PartyPlayers) /\ Len(r) = 1 + Len(s)
      /\ \A i \in 1 .. 1 + Len(s) : r[i] = IF i <= 1 THEN <<p>>[i] ELSE s[i - 1]
  BY <1>0, ConcatProperties
<1>2. DOMAIN s = 1 .. Len(s) /\ DOMAIN r = 1 .. Len(s) + 1 /\ Len(s) \in Nat
  BY <1>1
<1> HIDE DEF r
<1>p. PICK one : one = <<p>>[1]
  OBVIOUS
<1>q. one = p /\ \A i \in 1 .. 1 + Len(s) : r[i] = IF i <= 1 THEN one ELSE s[i - 1]
  <2>1. ASSUME NEW i \in 1 .. 1 + Len(s) PROVE r[i] = IF i <= 1 THEN one ELSE s[i - 1]
    <3>1. CASE i <= 1
      <4>1. i = 1
        BY <3>1, <1>2
      <4> QED BY <4>1, <1>1, <1>p, <1>2
    <3>2. CASE ~(i <= 1)
      BY <3>2, <1>1
    <3> QED BY <3>1, <3>2
  <2> QED BY <2>1, <1>p, <1>0
<1>3. \A i \in DOMAIN r : (i = 1 /\ r[i] = p) \/ (i - 1 \in DOMAIN s /\ r[i] = s[i - 1])
  BY <1>q, <1>2
<1>4. 1 \in DOMAIN r /\ r[1] = p /\ \A i \in DOMAIN s : i + 1 \in DOMAIN r /\ r[i + 1] = s[i]
  BY <1>q, <1>2
<1>5. \A i \in DOMAIN s : s[i] # p
  BY DEF ToSet
<1>6. ASSUME NEW i \in DOMAIN r, NEW j \in DOMAIN r, r[i] = r[j] PROVE i = j
  <2>1. \/ i = 1 /\ j = 1
        \/ i - 1 \in DOMAIN s /\ j - 1 \in DOMAIN s /\ s[i - 1] = s[j - 1]
    BY <1>3, <1>5, <1>6
  <2> QED BY <2>1, <1>2 DEF Single
<1>7. ToSet(r) = ToSet(s) \cup {p}
  <2>1. ToSet(r) \subseteq ToSet(s) \cup {p}
    BY <1>3 DEF ToSet
  <2>2. ToSet(s) \cup {p} \subseteq ToSet(r)
    BY <1>4 DEF ToSet
  <2> QED BY <2>1, <2>2
<1> QED BY <1>1, <1>2, <1>6, <1>7 DEF r, Single

LEMMA SingleLength ==
    ASSUME NEW s \in Seq(PartyPlayers), Single(s)
    PROVE  IsFiniteSet(ToSet(s)) /\ Cardinality(ToSet(s)) = Len(s)
<1>1. Len(s) \in Nat /\ DOMAIN s = 1 .. Len(s)
  OBVIOUS
<1>2. IsFiniteSet(1 .. Len(s)) /\ Cardinality(1 .. Len(s)) = Len(s)
  BY <1>1, FS_Interval
<1>3. s \in Bijection(1 .. Len(s), ToSet(s))
  BY <1>1 DEF Single, ToSet, Bijection, Injection, Surjection, IsInjective
<1>4. ExistsBijection(1 .. Len(s), ToSet(s))
  BY <1>3 DEF ExistsBijection
<1> QED BY <1>2, <1>4, FS_Bijection

-----------------------------------------------------------------------------
(* The methods of Party.                                                   *)

LEMMA GroupIs ==
    ASSUME NEW d \in PartyData
    PROVE  Group(d) \subseteq PartyPlayers \cup {NoLeader}
           /\ d.leader \in Group(d) /\ ToSet(d.memberList) \subseteq PartyPlayers
BY DEF Group, PartyData, ToSet

LEMMA NobodyLed == NoObject \in PartyData /\ NoObject.leader = NoLeader /\ NoObject.inviteList = {}
BY DEF NoObject, PartyData

\* A party whose inviteList alone changes, and with it the list of the player named.
LEMMA RelistKeeps ==
    ASSUME NEW here, NEW lo, NEW maybe, NEW s, Sound(s, here, lo, maybe),
           NEW x \in Parties, s.ps[x].leader # NoLeader, NEW p \in PartyPlayers,
           NEW t \in PointerStates, t.of = s.of,
           \A y \in Parties : y # x => t.ps[y] = s.ps[y],
           t.ps[x].leader = s.ps[x].leader, t.ps[x].memberList = s.ps[x].memberList,
           \A q \in PartyPlayers : q # p =>
               t.inv[q] = s.inv[q] /\ (q \in t.ps[x].inviteList <=> q \in s.ps[x].inviteList),
           t.inv[p] \ {x} = s.inv[p] \ {x},
           p \in t.ps[x].inviteList <=> x \in t.inv[p],
           p \in here \/ t.inv[p] = {},
           NEW now, x \in now \/ ~Empty(t.ps[x]), maybe \subseteq now \cup {x}
    PROVE  Sound(t, here, lo, now)
<1> USE DEF Sound
<1>1. s \in PointerStates /\ \A y \in Parties : s.ps[y] \in PartyData /\ t.ps[y] \in PartyData
  BY PointersAre
<1>2. \A y \in Parties : t.ps[y].leader = s.ps[y].leader /\ Group(t.ps[y]) = Group(s.ps[y])
  BY DEF Group
<1>3. \A y \in Parties : Sane(t.ps[y])
  BY NobodyLed DEF Sane
<1>4. GroupsAgree(t)
  <2>1. \A q \in PartyPlayers : s.of[q] # NoParty => s.of[q] \in Parties
    BY <1>1 DEF PointerStates
  <2> QED BY <2>1, <1>1, <1>2 DEF GroupsAgree
<1>5. ListsAgree(t, lo)
  <2>1. ASSUME NEW q \in PartyPlayers, NEW y \in Parties
        PROVE  /\ q \in t.ps[y].inviteList => y \in t.inv[q]
               /\ y \in t.inv[q] => q \in t.ps[y].inviteList \/ q \in lo
    <3>1. CASE y = x /\ q = p
      BY <3>1
    <3>2. CASE y # x /\ q = p
      BY <3>2 DEF ListsAgree
    <3>3. CASE q # p
      BY <3>3 DEF ListsAgree
    <3> QED BY <3>1, <3>2, <3>3
  <2> QED BY <2>1 DEF ListsAgree
<1>6. OnlyThese(t, here, lo)
  BY <1>2 DEF OnlyThese
<1>7. \A y \in Parties \ now : t.ps[y].leader # NoLeader => ~Empty(t.ps[y])
  BY <1>2
<1> QED BY <1>3, <1>4, <1>5, <1>6, <1>7

\* The deleted party is in no list, but of players who left while it invited them.
LEMMA DisbandedKeeps ==
    ASSUME NEW here, NEW lo, NEW lo2, NEW s, NEW x \in Parties, Sound(s, here, lo, {x}),
           s.ps[x].leader # NoLeader,
           lo \subseteq lo2, lo2 \subseteq here,
           NEW t \in PointerStates, t.ps[x] = NoObject,
           \A y \in Parties : y # x => t.ps[y] = s.ps[y],
           \A q \in PartyPlayers :
               /\ t.of[q] = IF q \in Group(s.ps[x]) THEN NoParty ELSE s.of[q]
               /\ t.inv[q] \subseteq s.inv[q] /\ s.inv[q] \ {x} \subseteq t.inv[q]
               /\ x \in t.inv[q] => q \in lo2
    PROVE  Sound(t, here, lo2, {})
<1> USE DEF Sound
<1>1. s \in PointerStates /\ \A y \in Parties : s.ps[y] \in PartyData /\ t.ps[y] \in PartyData
  BY PointersAre
<1>2. \A y \in Parties : y # x => t.ps[y].leader = s.ps[y].leader /\ Group(t.ps[y]) = Group(s.ps[y])
  OBVIOUS
<1>3. \A y \in Parties : Sane(t.ps[y])
  BY DEF Sane
<1>4. GroupsAgree(t)
  <2>1. \A q \in PartyPlayers : s.of[q] # NoParty => s.of[q] \in Parties
    BY <1>1 DEF PointerStates
  <2>2. \A q \in PartyPlayers : s.of[q] = x => q \in Group(s.ps[x])
    BY PartyAssumption DEF GroupsAgree, PartyAssumption
  <2>3. ASSUME NEW q \in PartyPlayers, t.of[q] # NoParty
        PROVE  t.ps[t.of[q]].leader # NoLeader /\ q \in Group(t.ps[t.of[q]])
    <3>1. t.of[q] = s.of[q] /\ s.of[q] # x /\ s.of[q] \in Parties
      BY <2>1, <2>2, <2>3
    <3> QED BY <3>1, <2>3 DEF GroupsAgree
  <2>4. ASSUME NEW y \in Parties, t.ps[y].leader # NoLeader, NEW q \in Group(t.ps[y])
        PROVE  t.of[q] = y
    <3>1. y # x
      BY <2>4, NobodyLed
    <3>2. q \in PartyPlayers
      <4>1. s.ps[y].leader \in PartyPlayers /\ ToSet(s.ps[y].memberList) \subseteq PartyPlayers
        BY <1>1, <2>4, <3>1, GroupIs DEF PartyData
      <4> QED BY <4>1, <3>1 DEF Group
    <3>3. s.of[q] = y
      BY <2>4, <3>1 DEF GroupsAgree
    <3>4. q \notin Group(s.ps[x])
      BY <3>1, <3>3 DEF GroupsAgree
    <3> QED BY <3>2, <3>3, <3>4
  <2> QED BY <2>3, <2>4 DEF GroupsAgree
<1>5. ListsAgree(t, lo2)
  BY NobodyLed DEF ListsAgree
<1>6. OnlyThese(t, here, lo2)
  BY <1>2, NobodyLed DEF OnlyThese
<1>7. \A y \in Parties : t.ps[y].leader # NoLeader => ~Empty(t.ps[y])
  BY NobodyLed
<1> QED BY <1>3, <1>4, <1>5, <1>6, <1>7

LEMMA DisbandIs ==
    ASSUME NEW s \in PointerStates, NEW x \in Parties
    PROVE  /\ Disband(s, x) \in PointerStates
           /\ Disband(s, x).ps = [s.ps EXCEPT ![x] = NoObject]
           /\ \A q \in PartyPlayers :
                 /\ Disband(s, x).of[q] = IF q \in Group(s.ps[x]) THEN NoParty ELSE s.of[q]
                 /\ Disband(s, x).inv[q] = IF q \in s.ps[x].inviteList THEN s.inv[q] \ {x}
                                           ELSE s.inv[q]
<1> DEFINE f == [s.ps EXCEPT ![x] = NoObject]
           g == [q \in PartyPlayers |-> IF q \in Group(s.ps[x]) THEN NoParty ELSE s.of[q]]
           h == [q \in PartyPlayers |-> IF q \in s.ps[x].inviteList THEN s.inv[q] \ {x}
                                        ELSE s.inv[q]]
<1>1. Disband(s, x) = [ps |-> f, of |-> g, inv |-> h]
  BY DEF Disband, Group
<1>2. f \in [Parties -> PartyData] /\ g \in [PartyPlayers -> Parties \cup {NoParty}]
      /\ h \in [PartyPlayers -> SUBSET Parties]
  BY NobodyLed DEF PointerStates
<1>3. /\ \A q \in PartyPlayers : g[q] = IF q \in Group(s.ps[x]) THEN NoParty ELSE s.of[q]
      /\ \A q \in PartyPlayers : h[q] = IF q \in s.ps[x].inviteList THEN s.inv[q] \ {x}
                                        ELSE s.inv[q]
      /\ f = [s.ps EXCEPT ![x] = NoObject]
  OBVIOUS
<1> HIDE DEF f, g, h
<1> QED BY <1>1, <1>2, <1>3 DEF PointerStates

LEMMA DisbandIfEmptyKeeps ==
    ASSUME NEW here, NEW lo \in SUBSET here, NEW s, NEW x \in Parties, Sound(s, here, lo, {x}),
           s.ps[x].leader # NoLeader
    PROVE  Sound(DisbandIfEmpty(s, x), here, lo, {})
<1>1. s \in PointerStates
  BY DEF Sound
<1>2. CASE Empty(s.ps[x])
  <2> DEFINE t == Disband(s, x)
  <2>2. /\ t \in PointerStates /\ t.ps = [s.ps EXCEPT ![x] = NoObject]
        /\ \A q \in PartyPlayers :
              /\ t.of[q] = IF q \in Group(s.ps[x]) THEN NoParty ELSE s.of[q]
              /\ t.inv[q] = IF q \in s.ps[x].inviteList THEN s.inv[q] \ {x} ELSE s.inv[q]
    BY <1>1, DisbandIs
  <2>1. t = Disband(s, x)
    OBVIOUS
  <2> HIDE DEF t
  <2>3. t.ps[x] = NoObject /\ \A y \in Parties : y # x => t.ps[y] = s.ps[y]
    BY <1>1, <2>2, PointersAre
  <2>4. \A q \in PartyPlayers : x \in t.inv[q] => q \in lo
    BY <2>2 DEF Sound, ListsAgree
  <2>5. \A q \in PartyPlayers :
            /\ t.of[q] = IF q \in Group(s.ps[x]) THEN NoParty ELSE s.of[q]
            /\ t.inv[q] \subseteq s.inv[q] /\ s.inv[q] \ {x} \subseteq t.inv[q]
            /\ x \in t.inv[q] => q \in lo
    BY <2>2, <2>4
  <2>6. Sound(t, here, lo, {})
    BY <2>2, <2>3, <2>5, DisbandedKeeps
  <2> QED BY <1>2, <2>1, <2>6 DEF DisbandIfEmpty
<1>3. CASE ~Empty(s.ps[x])
  BY <1>3 DEF DisbandIfEmpty, Sound
<1> QED BY <1>2, <1>3

LEMMA InvitedIs ==
    ASSUME NEW s \in PointerStates, NEW x \in Parties, NEW p \in PartyPlayers
    PROVE  Invited(s, x, p) = [s EXCEPT !.ps[x].inviteList = s.ps[x].inviteList \cup {p},
                                        !.inv[p] = s.inv[p] \cup {x}]
<1> DEFINE d == [s.ps[x] EXCEPT !.inviteList = s.ps[x].inviteList \cup {p}]
           f == [s.ps EXCEPT ![x] = d]
<1>1. [s EXCEPT !.ps = f].inv = s.inv
  BY DEF PointerStates
<1> QED BY <1>1 DEF Invited

LEMMA InvitedKeeps ==
    ASSUME NEW here \in SUBSET PartyPlayers, NEW lo, NEW maybe, NEW s, NEW x \in Parties,
           Sound(s, here, lo, maybe), maybe \subseteq {x}, s.ps[x].leader # NoLeader,
           NEW p \in here
    PROVE  Sound(Invited(s, x, p), here, lo, {})
<1> DEFINE L == s.ps[x].inviteList \cup {p}
           V == s.inv[p] \cup {x}
<1>1. s \in PointerStates /\ L \subseteq PartyPlayers /\ V \subseteq Parties
  BY PointersAre DEF Sound
<1>2. PICK t : t = Invited(s, x, p)
  OBVIOUS
<1>3. t = Relisted(s, x, p, L, V)
  BY <1>1, <1>2, InvitedIs DEF Relisted
<1>4. /\ t \in PointerStates
      /\ t.of = s.of
      /\ t.inv[p] = V /\ \A q \in PartyPlayers : q # p => t.inv[q] = s.inv[q]
      /\ \A y \in Parties : y # x => t.ps[y] = s.ps[y]
      /\ t.ps[x].leader = s.ps[x].leader /\ t.ps[x].memberList = s.ps[x].memberList
      /\ t.ps[x].inviteList = L
  <2>1. p \in PartyPlayers
    OBVIOUS
  <2> HIDE DEF L, V
  <2> QED BY ONLY <2>1, x \in Parties, <1>1, <1>3, WithInvites
<1>5. /\ t.inv[p] = V /\ \A q \in PartyPlayers : q # p => t.inv[q] = s.inv[q]
      /\ ~Empty(t.ps[x])
  BY <1>1, <1>4, PointersAre DEF Empty
<1>6. /\ \A q \in PartyPlayers : q # p =>
               t.inv[q] = s.inv[q] /\ (q \in t.ps[x].inviteList <=> q \in s.ps[x].inviteList)
      /\ t.inv[p] \ {x} = s.inv[p] \ {x}
      /\ p \in t.ps[x].inviteList <=> x \in t.inv[p]
      /\ maybe \subseteq {} \cup {x} /\ p \in PartyPlayers
  BY <1>4, <1>5
<1>7. Sound(t, here, lo, {})
  BY <1>4, <1>5, <1>6, RelistKeeps
<1> QED BY <1>2, <1>7

LEMMA RemoveInviteKeeps ==
    ASSUME NEW here \in SUBSET PartyPlayers, NEW lo \in SUBSET here, NEW s, NEW x \in Parties,
           Sound(s, here, lo, {}), s.ps[x].leader # NoLeader, NEW p \in here
    PROVE  Sound(RemoveInvite(s, x, p), here, lo, {})
<1>1. CASE p \notin s.ps[x].inviteList
  BY <1>1 DEF RemoveInvite
<1>2. CASE p \in s.ps[x].inviteList
  <2> DEFINE L == s.ps[x].inviteList \ {p}
             V == s.inv[p] \ {x}
             d == [s.ps[x] EXCEPT !.inviteList = L]
             f == [s.ps EXCEPT ![x] = d]
  <2>1. s \in PointerStates /\ L \subseteq PartyPlayers /\ V \subseteq Parties
    BY PointersAre DEF Sound
  <2>2. PICK t : t = [s EXCEPT !.ps[x].inviteList = @ \ {p}, !.inv[p] = @ \ {x}]
    OBVIOUS
  <2>3. t = Relisted(s, x, p, L, V)
    <3>1. [s EXCEPT !.ps = f].inv = s.inv
      BY <2>1 DEF PointerStates
    <3> QED BY <2>2, <3>1 DEF Relisted
  <2> HIDE DEF d, f
  <2>4. /\ t \in PointerStates
        /\ t.of = s.of
        /\ t.inv[p] = V /\ \A q \in PartyPlayers : q # p => t.inv[q] = s.inv[q]
        /\ \A y \in Parties : y # x => t.ps[y] = s.ps[y]
        /\ t.ps[x].leader = s.ps[x].leader /\ t.ps[x].memberList = s.ps[x].memberList
        /\ t.ps[x].inviteList = L
    <3>1. p \in PartyPlayers
      OBVIOUS
    <3> HIDE DEF L, V
    <3> QED BY ONLY <3>1, x \in Parties, <2>1, <2>3, WithInvites
  <2>5. t.inv[p] = V /\ \A q \in PartyPlayers : q # p => t.inv[q] = s.inv[q]
    BY <2>1, <2>4, PointersAre
  <2>6. Sound(t, here, lo, {x}) /\ t.ps[x].leader # NoLeader
    <3>1. /\ \A q \in PartyPlayers : q # p =>
                 t.inv[q] = s.inv[q] /\ (q \in t.ps[x].inviteList <=> q \in s.ps[x].inviteList)
          /\ t.inv[p] \ {x} = s.inv[p] \ {x}
          /\ p \in t.ps[x].inviteList <=> x \in t.inv[p]
          /\ {} \subseteq {x} \cup {x} /\ x \in {x} /\ p \in PartyPlayers
      BY <2>4, <2>5
    <3> QED BY <2>4, <3>1, RelistKeeps
  <2>7. Sound(DisbandIfEmpty(t, x), here, lo, {})
    BY <2>6, DisbandIfEmptyKeeps
  <2>8. RemoveInvite(s, x, p) = DisbandIfEmpty(t, x)
    BY <1>2, <2>2 DEF RemoveInvite
  <2> QED BY <2>7, <2>8
<1> QED BY <1>1, <1>2

\* One party changes in all it has, but not whom it has.
Replaced(s, x, d) == [s EXCEPT !.ps[x] = d]

LEMMA WithParty ==
    ASSUME NEW s \in PointerStates, NEW x \in Parties, NEW d \in PartyData, NEW t,
           t = Replaced(s, x, d)
    PROVE  /\ t \in PointerStates /\ t.of = s.of /\ t.inv = s.inv
           /\ t.ps[x] = d /\ \A y \in Parties : y # x => t.ps[y] = s.ps[y]
<1> DEFINE f == [s.ps EXCEPT ![x] = d]
<1>1. t = [s EXCEPT !.ps = f]
  BY DEF Replaced
<1>2. f \in [Parties -> PartyData] /\ f[x] = d /\ \A y \in Parties : y # x => f[y] = s.ps[y]
  BY PointersAre
<1> HIDE DEF f
<1>3. t \in PointerStates /\ t.ps = f /\ t.of = s.of /\ t.inv = s.inv
  BY <1>1, <1>2 DEF PointerStates
<1> QED BY <1>2, <1>3

\* A party whose group stays as it is.
LEMMA RegroupKeeps ==
    ASSUME NEW here, NEW lo, NEW maybe, NEW s, Sound(s, here, lo, maybe),
           NEW x \in Parties, s.ps[x].leader # NoLeader, NEW d \in PartyData,
           d.leader # NoLeader, Sane(d), Group(d) = Group(s.ps[x]),
           d.inviteList = s.ps[x].inviteList, ~Empty(d),
           NEW t \in PointerStates, t.of = s.of, t.inv = s.inv, t.ps[x] = d,
           \A y \in Parties : y # x => t.ps[y] = s.ps[y]
    PROVE  Sound(t, here, lo, maybe)
<1> USE DEF Sound
<1>1. \A y \in Parties : /\ Group(t.ps[y]) = Group(s.ps[y])
                         /\ t.ps[y].leader # NoLeader <=> s.ps[y].leader # NoLeader
                         /\ t.ps[y].inviteList = s.ps[y].inviteList
  OBVIOUS
<1>2. \A y \in Parties : Sane(t.ps[y])
  OBVIOUS
<1>3. GroupsAgree(t)
  <2>1. \A q \in PartyPlayers : s.of[q] # NoParty => s.of[q] \in Parties
    BY DEF PointerStates
  <2> QED BY <2>1, <1>1 DEF GroupsAgree
<1>4. ListsAgree(t, lo) /\ OnlyThese(t, here, lo)
  BY <1>1 DEF ListsAgree, OnlyThese
<1> QED BY <1>1, <1>2, <1>3, <1>4

LEMMA PassLeadershipKeeps ==
    ASSUME NEW here, NEW lo, NEW maybe, NEW s, Sound(s, here, lo, maybe),
           NEW x \in Parties, s.ps[x].leader # NoLeader, NEW p \in ToSet(s.ps[x].memberList)
    PROVE  /\ Sound(PassLeadership(s, x, p), here, lo, maybe)
           /\ PassLeadership(s, x, p).of = s.of /\ PassLeadership(s, x, p).inv = s.inv
           /\ PassLeadership(s, x, p).ps[x].leader = p
           /\ PassLeadership(s, x, p).ps[x].inviteList = s.ps[x].inviteList
           /\ PassLeadership(s, x, p).ps[x].memberList # <<>>
           /\ s.ps[x].leader \in ToSet(PassLeadership(s, x, p).ps[x].memberList)
<1> DEFINE old == s.ps[x].leader
           rest == Dropped(s.ps[x].memberList, p)
           list == <<old>> \o rest
           d == [leader |-> p, memberList |-> list, inviteList |-> s.ps[x].inviteList]
<1>1. /\ s \in PointerStates /\ old \in PartyPlayers /\ s.ps[x].memberList \in Seq(PartyPlayers)
      /\ s.ps[x].inviteList \subseteq PartyPlayers
  BY PointersAre DEF Sound
<1>2. old \notin ToSet(s.ps[x].memberList) /\ Single(s.ps[x].memberList) /\ p \in PartyPlayers
  <2>1. Sane(s.ps[x])
    BY DEF Sound
  <2>2. p \in PartyPlayers
    BY <1>1 DEF ToSet
  <2> QED BY <2>1, <2>2, NobodyLed DEF Sane
<1>3. rest \in Seq(PartyPlayers) /\ Single(rest) /\ ToSet(rest) = ToSet(s.ps[x].memberList) \ {p}
  BY <1>1, <1>2, DroppedIs
<1> HIDE DEF rest
<1>4. /\ list \in Seq(PartyPlayers) /\ Single(list) /\ ToSet(list) = ToSet(rest) \cup {old}
      /\ list # <<>>
  BY <1>1, <1>2, <1>3, LedIs
<1>5. PassLeadership(s, x, p) = [s EXCEPT !.ps[x] = d]
  BY DEF PassLeadership, rest
<1> HIDE DEF list
<1>6. d \in PartyData /\ d.leader = p /\ d.memberList = list /\ d.inviteList = s.ps[x].inviteList
  BY <1>1, <1>2, <1>4 DEF PartyData
<1> HIDE DEF d
<1>7. Group(d) = Group(s.ps[x]) /\ Sane(d) /\ ~Empty(d) /\ d.leader # NoLeader
  BY <1>2, <1>3, <1>4, <1>6, PartyAssumption DEF Group, Sane, Empty, PartyAssumption
<1>8. PICK t : t = Replaced(s, x, d)
  OBVIOUS
<1>9. /\ t \in PointerStates /\ t.of = s.of /\ t.inv = s.inv
      /\ t.ps[x] = d /\ \A y \in Parties : y # x => t.ps[y] = s.ps[y]
  BY <1>1, <1>6, <1>8, WithParty
<1>10. Sound(t, here, lo, maybe)
  BY <1>6, <1>7, <1>9, RegroupKeeps
<1>11. PassLeadership(s, x, p) = t
  BY <1>5, <1>8 DEF Replaced
<1> QED BY <1>4, <1>6, <1>9, <1>10, <1>11

Departed(s, x, d, p) == [s EXCEPT !.ps[x] = d, !.of[p] = NoParty]

LEMMA DepartedIs ==
    ASSUME NEW s \in PointerStates, NEW x \in Parties, NEW d \in PartyData,
           NEW p \in PartyPlayers, NEW t, t = Departed(s, x, d, p)
    PROVE  /\ t \in PointerStates /\ t.inv = s.inv
           /\ t.of[p] = NoParty /\ \A q \in PartyPlayers : q # p => t.of[q] = s.of[q]
           /\ t.ps[x] = d /\ \A y \in Parties : y # x => t.ps[y] = s.ps[y]
<1> DEFINE f == [s.ps EXCEPT ![x] = d]
           g == [s.of EXCEPT ![p] = NoParty]
<1>0. [s EXCEPT !.ps = f].of = s.of
  BY DEF PointerStates
<1>1. t = [s EXCEPT !.ps = f, !.of = g]
  BY <1>0 DEF Departed
<1>2. f \in [Parties -> PartyData] /\ f[x] = d /\ \A y \in Parties : y # x => f[y] = s.ps[y]
  BY PointersAre
<1>3. /\ g \in [PartyPlayers -> Parties \cup {NoParty}]
      /\ g[p] = NoParty /\ \A q \in PartyPlayers : q # p => g[q] = s.of[q]
  BY PointersAre
<1> HIDE DEF f, g
<1>4. t \in PointerStates /\ t.ps = f /\ t.inv = s.inv /\ t.of = g
  BY <1>1, <1>2, <1>3 DEF PointerStates
<1> QED BY <1>2, <1>3, <1>4

\* A member who leaves; his own list may go on naming the party.
LEMMA DepartedKeeps ==
    ASSUME NEW here \in SUBSET PartyPlayers, NEW lo, NEW lo2, NEW s, Sound(s, here, lo, {}),
           NEW x \in Parties, s.ps[x].leader # NoLeader,
           NEW p \in ToSet(s.ps[x].memberList),
           lo \subseteq lo2, lo2 \subseteq here, p \in s.ps[x].inviteList => p \in lo2,
           NEW t \in PointerStates, t.inv = s.inv, t.of[p] = NoParty,
           \A q \in PartyPlayers : q # p => t.of[q] = s.of[q],
           \A y \in Parties : y # x => t.ps[y] = s.ps[y],
           t.ps[x].leader = s.ps[x].leader, Single(t.ps[x].memberList),
           ToSet(t.ps[x].memberList) = ToSet(s.ps[x].memberList) \ {p},
           t.ps[x].inviteList = s.ps[x].inviteList \ {p}
    PROVE  Sound(t, here, lo2, {x})
<1> USE DEF Sound
<1>1. s \in PointerStates /\ \A y \in Parties : s.ps[y] \in PartyData /\ t.ps[y] \in PartyData
  BY PointersAre
<1>2. \A y \in Parties : /\ t.ps[y].leader = s.ps[y].leader
                         /\ y # x => Group(t.ps[y]) = Group(s.ps[y])
  OBVIOUS
<1>3. /\ s.ps[x].leader \in PartyPlayers \ ToSet(s.ps[x].memberList) /\ p \in PartyPlayers
      /\ Group(t.ps[x]) = Group(s.ps[x]) \ {p}
      /\ p \in Group(s.ps[x])
  <2>1. s.ps[x].leader \in PartyPlayers \ ToSet(s.ps[x].memberList)
    BY NobodyLed DEF Sane
  <2> QED BY <2>1, <1>1, GroupIs DEF Group
<1>4. \A y \in Parties : Sane(t.ps[y])
  BY <1>3 DEF Sane
<1>5. GroupsAgree(t)
  <2>1. \A q \in PartyPlayers : s.of[q] # NoParty => s.of[q] \in Parties
    BY <1>1 DEF PointerStates
  <2>2. ASSUME NEW q \in PartyPlayers, t.of[q] # NoParty
        PROVE  t.ps[t.of[q]].leader # NoLeader /\ q \in Group(t.ps[t.of[q]])
    <3>1. q # p /\ t.of[q] = s.of[q] /\ s.of[q] \in Parties
      BY <2>1, <2>2
    <3> QED BY <3>1, <2>2, <1>2, <1>3 DEF GroupsAgree
  <2>3. ASSUME NEW y \in Parties, t.ps[y].leader # NoLeader, NEW q \in Group(t.ps[y])
        PROVE  t.of[q] = y
    <3>1. q \in Group(s.ps[y]) /\ s.of[q] = y /\ (y = x => q # p) /\ s.of[p] = x
      BY <2>3, <1>2, <1>3 DEF GroupsAgree
    <3>2. q # p /\ q \in PartyPlayers
      <4>1. s.ps[y].leader \in PartyPlayers
        BY <1>1, <1>2, <2>3 DEF PartyData
      <4>2. Group(s.ps[y]) \subseteq PartyPlayers
        BY <4>1, <1>1, GroupIs DEF Group
      <4> QED BY <3>1, <4>2
    <3> QED BY <3>1, <3>2
  <2> QED BY <2>2, <2>3 DEF GroupsAgree
<1>6. ListsAgree(t, lo2)
  <2>1. ASSUME NEW q \in PartyPlayers, NEW y \in Parties
        PROVE  /\ q \in t.ps[y].inviteList => y \in t.inv[q]
               /\ y \in t.inv[q] => q \in t.ps[y].inviteList \/ q \in lo2
    BY DEF ListsAgree
  <2> QED BY <2>1 DEF ListsAgree
<1>7. OnlyThese(t, here, lo2)
  BY <1>2, <1>3 DEF OnlyThese
<1>8. \A y \in Parties \ {x} : t.ps[y].leader # NoLeader => ~Empty(t.ps[y])
  OBVIOUS
<1> QED BY <1>4, <1>5, <1>6, <1>7, <1>8

LEMMA DisbandIfEmptyOf ==
    ASSUME NEW s \in PointerStates, NEW x \in Parties, NEW p \in PartyPlayers,
           s.of[p] = NoParty
    PROVE  DisbandIfEmpty(s, x).of[p] = NoParty /\ DisbandIfEmpty(s, x).inv[p] \subseteq s.inv[p]
<1> DEFINE t == Disband(s, x)
<1>1. \A q \in PartyPlayers :
          /\ t.of[q] = IF q \in Group(s.ps[x]) THEN NoParty ELSE s.of[q]
          /\ t.inv[q] = IF q \in s.ps[x].inviteList THEN s.inv[q] \ {x} ELSE s.inv[q]
  BY DisbandIs
<1> HIDE DEF t
<1>2. t.of[p] = NoParty /\ t.inv[p] \subseteq s.inv[p]
  BY <1>1
<1>3. DisbandIfEmpty(s, x) \in {s, t}
  BY DEF DisbandIfEmpty, t
<1> QED BY <1>2, <1>3

\* A player leaves the party he is in; lo2 has him if it invites him as well.
MayLeave(s, here, lo, lo2, p, x) ==
    /\ here \subseteq PartyPlayers /\ Sound(s, here, lo, {})
    /\ p \in here /\ x \in Parties /\ s.of[p] = x
    /\ lo \subseteq lo2 /\ lo2 \subseteq here
    /\ p \in s.ps[x].inviteList => p \in lo2

LEMMA LeavePartyKeeps ==
    ASSUME NEW s, NEW here, NEW lo, NEW lo2, NEW p, NEW x, MayLeave(s, here, lo, lo2, p, x)
    PROVE  /\ Sound(Leave(s, x, p), here, lo2, {})
           /\ Leave(s, x, p).of[p] = NoParty /\ Leave(s, x, p).inv[p] \subseteq s.inv[p]
<1> /\ here \in SUBSET PartyPlayers /\ Sound(s, here, lo, {})
    /\ p \in here /\ x \in Parties /\ s.of[p] = x
    /\ lo \subseteq lo2 /\ lo2 \subseteq here
    /\ p \in s.ps[x].inviteList => p \in lo2
  BY DEF MayLeave
<1>0. s \in PointerStates /\ s.ps[x] \in PartyData /\ p \in PartyPlayers
  BY PointersAre DEF Sound
<1>1. s.ps[x].leader # NoLeader /\ p \in Group(s.ps[x])
  BY PartyAssumption DEF Sound, GroupsAgree, PartyAssumption
<1>2. PICK u : u = IF s.ps[x].leader = p /\ s.ps[x].memberList # <<>>
                   THEN PassLeadership(s, x, Head(s.ps[x].memberList))
                   ELSE s
  OBVIOUS
<1>3. /\ Sound(u, here, lo, {}) /\ u.of = s.of /\ u.inv = s.inv
      /\ u.ps[x].leader # NoLeader
      /\ u.ps[x].inviteList = s.ps[x].inviteList
      /\ \/ u.ps[x].leader = p /\ u.ps[x].memberList = <<>>
         \/ u.ps[x].leader # p /\ p \in ToSet(u.ps[x].memberList)
  <2>1. CASE s.ps[x].leader = p /\ s.ps[x].memberList # <<>>
    <3>1. PICK h : h = Head(s.ps[x].memberList)
      OBVIOUS
    <3>2. h \in ToSet(s.ps[x].memberList)
      <4>1. s.ps[x].memberList \in Seq(PartyPlayers) /\ s.ps[x].memberList # <<>>
        BY <1>0, <2>1, PointersAre
      <4>2. Head(s.ps[x].memberList) = s.ps[x].memberList[1] /\ 1 \in DOMAIN s.ps[x].memberList
        BY <4>1
      <4> QED BY <3>1, <4>2 DEF ToSet
    <3>3. u = PassLeadership(s, x, h)
      BY <1>2, <2>1, <3>1
    <3>4. h # p
      BY <2>1, <3>2, NobodyLed, <1>1 DEF Sound, Sane
    <3>5. h \in PartyPlayers
      BY <3>2, <1>0, GroupIs
    <3> QED BY <1>1, <2>1, <3>2, <3>3, <3>4, <3>5, PassLeadershipKeeps, PartyAssumption DEF PartyAssumption
  <2>2. CASE ~(s.ps[x].leader = p /\ s.ps[x].memberList # <<>>)
    BY <1>1, <1>2, <2>2 DEF Group
  <2> QED BY <2>1, <2>2
<1>4. /\ u \in PointerStates /\ u.ps[x].memberList \in Seq(PartyPlayers)
      /\ u.ps[x].leader \in PartyPlayers
      /\ Single(u.ps[x].memberList) /\ u.ps[x].inviteList \subseteq PartyPlayers
  BY <1>3, PointersAre, NobodyLed DEF Sound, Sane
<1> DEFINE list == Dropped(u.ps[x].memberList, p)
           d == [leader |-> u.ps[x].leader, memberList |-> list,
                 inviteList |-> u.ps[x].inviteList \ {p}]
<1>5. list \in Seq(PartyPlayers) /\ Single(list) /\ ToSet(list) = ToSet(u.ps[x].memberList) \ {p}
  BY <1>4, DroppedIs
<1>6. PICK g : g = Departed(u, x, d, p)
  OBVIOUS
<1>7. Leave(s, x, p) = IF g.ps[x].leader = p THEN Disband(g, x) ELSE DisbandIfEmpty(g, x)
  BY <1>2, <1>6 DEF Leave, Departed
<1>e. u.ps[x].memberList = <<>> => list = <<>>
  BY DEF Dropped, ToSet
<1> HIDE DEF list
<1>8. d \in PartyData /\ d.leader = u.ps[x].leader /\ d.memberList = list
      /\ d.inviteList = u.ps[x].inviteList \ {p}
  BY <1>4, <1>5 DEF PartyData
<1> HIDE DEF d
<1>9. /\ g \in PointerStates /\ g.inv = u.inv
      /\ g.of[p] = NoParty /\ \A q \in PartyPlayers : q # p => g.of[q] = u.of[q]
      /\ g.ps[x] = d /\ \A y \in Parties : y # x => g.ps[y] = u.ps[y]
  <2>1. u \in PointerStates /\ x \in Parties /\ d \in PartyData /\ p \in PartyPlayers
    BY <1>0, <1>4, <1>8
  <2> QED BY ONLY <2>1, <1>6, DepartedIs
<1>10. CASE u.ps[x].leader = p
  <2>1. list = <<>>
    BY <1>3, <1>10, <1>e DEF ToSet
  <2>2. Group(d) = {p} /\ Group(u.ps[x]) = {p}
    BY <1>3, <1>8, <1>10, <2>1 DEF Group, ToSet
  <2> DEFINE t == Disband(g, x)
  <2>3. g \in PointerStates /\ x \in Parties
    BY <1>9
  <2>4. /\ t \in PointerStates /\ t.ps = [g.ps EXCEPT ![x] = NoObject]
        /\ \A q \in PartyPlayers :
              /\ t.of[q] = IF q \in Group(g.ps[x]) THEN NoParty ELSE g.of[q]
              /\ t.inv[q] = IF q \in g.ps[x].inviteList THEN g.inv[q] \ {x} ELSE g.inv[q]
    BY ONLY <2>3, DisbandIs
  <2> HIDE DEF t
  <2>5. t.ps[x] = NoObject /\ \A y \in Parties : y # x => t.ps[y] = u.ps[y]
    BY <1>9, <2>4, PointersAre
  <2>6. \A q \in PartyPlayers :
            /\ t.of[q] = IF q \in Group(u.ps[x]) THEN NoParty ELSE u.of[q]
            /\ t.inv[q] \subseteq u.inv[q] /\ u.inv[q] \ {x} \subseteq t.inv[q]
            /\ x \in t.inv[q] => q \in lo2
    <3>1. \A q \in PartyPlayers : x \in u.inv[q] => q \in u.ps[x].inviteList \/ q \in lo
      BY <1>3 DEF Sound, ListsAgree
    <3>2. \A q \in PartyPlayers :
             /\ t.of[q] = IF q = p THEN NoParty ELSE u.of[q]
             /\ t.inv[q] = IF q \in u.ps[x].inviteList \ {p} THEN u.inv[q] \ {x} ELSE u.inv[q]
      BY <1>8, <1>9, <2>2, <2>4
    <3> QED BY ONLY <3>1, <3>2, <2>2, lo \subseteq lo2, <1>3,
                    p \in s.ps[x].inviteList => p \in lo2
  <2>7. Sound(u, here, lo, {x})
    BY <1>3 DEF Sound
  <2>8. Sound(t, here, lo2, {})
    <3>1. u.ps[x].leader # NoLeader /\ t \in PointerStates
      BY <1>3, <2>4
    <3> QED BY ONLY <3>1, <2>5, <2>6, <2>7, DisbandedKeeps, x \in Parties,
                    lo \subseteq lo2, lo2 \subseteq here
  <2>9. t.of[p] = NoParty /\ t.inv[p] \subseteq s.inv[p]
    BY <1>0, <1>3, <2>2, <2>6
  <2>10. Disband(g, x) = t
    BY DEF t
  <2> QED BY <1>7, <1>8, <1>9, <1>10, <2>8, <2>9, <2>10
<1>11. CASE u.ps[x].leader # p
  <2>1. p \in ToSet(u.ps[x].memberList)
    BY <1>3, <1>11
  <2>2. Sound(g, here, lo2, {x})
    <3>1. /\ g.ps[x].leader = u.ps[x].leader /\ Single(g.ps[x].memberList)
          /\ \A y \in Parties : y # x => g.ps[y] = u.ps[y]
          /\ ToSet(g.ps[x].memberList) = ToSet(u.ps[x].memberList) \ {p}
          /\ g.ps[x].inviteList = u.ps[x].inviteList \ {p}
          /\ p \in u.ps[x].inviteList => p \in lo2
      BY <1>3, <1>5, <1>8, <1>9
    <3>2. u.ps[x].leader # NoLeader /\ Sound(u, here, lo, {})
      BY <1>3
    <3> QED BY ONLY <3>2, <1>9, <2>1, <3>1, DepartedKeeps, x \in Parties, lo \subseteq lo2,
                    lo2 \subseteq here, here \in SUBSET PartyPlayers
  <2>3. Sound(DisbandIfEmpty(g, x), here, lo2, {})
    <3>1. g.ps[x].leader # NoLeader
      BY <1>3, <1>8, <1>9
    <3> QED BY <2>2, <3>1, DisbandIfEmptyKeeps
  <2>4. DisbandIfEmpty(g, x).of[p] = NoParty /\ DisbandIfEmpty(g, x).inv[p] \subseteq s.inv[p]
    BY <1>0, <1>3, <1>9, DisbandIfEmptyOf
  <2> QED BY <1>7, <1>8, <1>9, <1>11, <2>3, <2>4
<1> QED BY <1>10, <1>11

LEMMA ClearKeeps ==
    ASSUME NEW here \in SUBSET PartyPlayers, NEW lo \in SUBSET here, NEW s,
           Sound(s, here, lo, {}), NEW p \in here
    PROVE  Sound(ClearInvitations(s, p), here, lo \ {p}, {}) /\ ClearInvitations(s, p).inv[p] = {}
<1> DEFINE named == {x \in s.inv[p] : p \in s.ps[x].inviteList}
           left(x) == [s.ps[x] EXCEPT !.inviteList = @ \ {p}]
           over == {x \in named : Empty(left(x))}
           f == [x \in Parties |-> CASE x \in over -> NoObject
                                     [] x \in named \ over -> left(x)
                                     [] x \notin named -> s.ps[x]]
           g == [q \in PartyPlayers |->
                    IF q \in {s.ps[x].leader : x \in over} THEN NoParty ELSE s.of[q]]
           h == [s.inv EXCEPT ![p] = {}]
<1> USE DEF Sound
<1>0. s \in PointerStates /\ p \in PartyPlayers /\ \A x \in Parties : s.ps[x] \in PartyData
  BY PointersAre
<1>1. PICK t : t = ClearInvitations(s, p)
  OBVIOUS
<1>2. t = [ps |-> f, of |-> g, inv |-> h]
  BY <1>1 DEF ClearInvitations
<1>3. \A x \in Parties : /\ left(x) \in PartyData /\ left(x).leader = s.ps[x].leader
                         /\ left(x).memberList = s.ps[x].memberList
                         /\ left(x).inviteList = s.ps[x].inviteList \ {p}
  BY <1>0 DEF PartyData
<1>4. over \subseteq named /\ named \subseteq Parties
      /\ \A x \in Parties : x \in named <=> p \in s.ps[x].inviteList
  BY <1>0 DEF PointerStates, ListsAgree
<1>5. \A x \in named : s.ps[x].leader # NoLeader
  BY <1>4, NobodyLed, PartyAssumption DEF Sane, PartyAssumption
<1>6. \A x \in over : s.ps[x].memberList = <<>> /\ Group(s.ps[x]) = {s.ps[x].leader}
  BY <1>3, <1>4 DEF Empty, Group, ToSet
<1>7. \A x \in Parties \ over : s.ps[x].leader # NoLeader => ~Empty(f[x])
  <2>1. ASSUME NEW x \in Parties \ over, s.ps[x].leader # NoLeader PROVE ~Empty(f[x])
    <3>1. CASE x \in named
      BY <2>1, <3>1
    <3>2. CASE x \notin named
      BY <2>1, <3>2
    <3> QED BY <3>1, <3>2
  <2> QED BY <2>1
<1>8. \A x \in over : f[x] = NoObject
  BY <1>4
<1>9. \A x \in Parties \ over : /\ f[x] \in PartyData /\ f[x].leader = s.ps[x].leader
                               /\ f[x].memberList = s.ps[x].memberList
                               /\ f[x].inviteList = s.ps[x].inviteList \ {p}
  <2>1. ASSUME NEW x \in Parties \ over
        PROVE  /\ f[x] \in PartyData /\ f[x].leader = s.ps[x].leader
               /\ f[x].memberList = s.ps[x].memberList
               /\ f[x].inviteList = s.ps[x].inviteList \ {p}
    <3>1. CASE x \in named
      <4>1. f[x] = left(x)
        BY <2>1, <3>1
      <4> HIDE DEF f, left
      <4> QED BY <4>1, <1>3
    <3>2. CASE x \notin named
      <4>1. f[x] = s.ps[x]
        BY <2>1, <3>2
      <4>2. p \notin s.ps[x].inviteList
        BY <1>4, <3>2
      <4> HIDE DEF f, left, named, over
      <4> QED BY <4>1, <4>2, <1>0
    <3> QED BY <3>1, <3>2
  <2> QED BY <2>1
<1>10. f = [x \in Parties |-> f[x]] /\ \A x \in Parties \ named : f[x] = s.ps[x]
  OBVIOUS
<1>11. /\ h[p] = {} /\ \A q \in PartyPlayers : q # p => h[q] = s.inv[q]
       /\ h \in [PartyPlayers -> SUBSET Parties]
  BY <1>0 DEF PointerStates
<1>12. /\ g \in [PartyPlayers -> Parties \cup {NoParty}]
       /\ \A q \in PartyPlayers :
             g[q] = IF \E x \in over : q = s.ps[x].leader THEN NoParty ELSE s.of[q]
  BY <1>0 DEF PointerStates
<1> HIDE DEF f, g, h, over, named, left
<1>13. t \in PointerStates /\ t.ps = f /\ t.of = g /\ t.inv = h
  <2>1. f \in [Parties -> PartyData]
    BY <1>8, <1>9, <1>10, NobodyLed
  <2> QED BY <1>2, <1>11, <1>12, <2>1 DEF PointerStates
<1>14. \A x \in Parties : Sane(f[x])
  BY <1>5, <1>8, <1>9, <1>10, NobodyLed DEF Sane
<1>15. \A x \in Parties \ over : Group(f[x]) = Group(s.ps[x])
  BY <1>9 DEF Group
<1>16. GroupsAgree(t)
  <2>1. ASSUME NEW q \in PartyPlayers, t.of[q] # NoParty
        PROVE  t.ps[t.of[q]].leader # NoLeader /\ q \in Group(t.ps[t.of[q]])
    <3>1. g[q] = s.of[q] /\ \A x \in over : q # s.ps[x].leader
      BY <1>12, <1>13, <2>1
    <3>2. s.of[q] \in Parties /\ s.ps[s.of[q]].leader # NoLeader /\ q \in Group(s.ps[s.of[q]])
      BY <1>0, <1>13, <2>1, <3>1 DEF PointerStates, GroupsAgree
    <3>3. s.of[q] \notin over
      BY <1>6, <3>1, <3>2
    <3> QED BY <3>1, <3>2, <3>3, <1>9, <1>13, <1>15
  <2>2. ASSUME NEW x \in Parties, t.ps[x].leader # NoLeader, NEW q \in Group(t.ps[x])
        PROVE  t.of[q] = x
    <3>1. x \notin over
      BY <2>2, <1>8, <1>13, NobodyLed
    <3>2. s.ps[x].leader # NoLeader /\ q \in Group(s.ps[x]) /\ s.of[q] = x
      BY <2>2, <3>1, <1>9, <1>13, <1>15 DEF GroupsAgree
    <3>3. q \in PartyPlayers
      <4>1. s.ps[x].leader \in PartyPlayers
        BY <1>0, <3>2 DEF PartyData
      <4> QED BY <4>1, <1>0, <3>2, GroupIs DEF Group
    <3>4. ASSUME NEW y \in over, q = s.ps[y].leader PROVE FALSE
      <4>1. s.of[q] = y
        BY <1>4, <1>5, <1>6, <3>4 DEF GroupsAgree
      <4> QED BY <4>1, <3>1, <3>2
    <3> QED BY <3>2, <3>3, <3>4, <1>12, <1>13
  <2> QED BY <2>1, <2>2 DEF GroupsAgree
<1>17. ListsAgree(t, lo \ {p})
  <2>1. ASSUME NEW q \in PartyPlayers, NEW x \in Parties
        PROVE  /\ q \in f[x].inviteList => x \in h[q]
               /\ x \in h[q] => q \in f[x].inviteList \/ q \in lo \ {p}
    <3>1. CASE x \in over
      <4>1. f[x].inviteList = {} /\ s.ps[x].inviteList \subseteq {p}
        BY <3>1, <1>3, <1>4, <1>8, NobodyLed DEF over, Empty
      <4> QED BY <4>1, <1>11 DEF ListsAgree
    <3>2. CASE x \notin over
      BY <3>2, <1>9, <1>11 DEF ListsAgree
    <3> QED BY <3>1, <3>2
  <2> QED BY <2>1, <1>13 DEF ListsAgree
<1>18. OnlyThese(t, here, lo \ {p})
  BY <1>8, <1>9, <1>11, <1>13, <1>15, NobodyLed DEF OnlyThese
<1>19. \A x \in Parties : f[x].leader # NoLeader => ~Empty(f[x])
  BY <1>7, <1>8, <1>9, NobodyLed
<1> QED BY <1>1, <1>11, <1>13, <1>14, <1>16, <1>17, <1>18, <1>19

-----------------------------------------------------------------------------
(* The commands.                                                           *)

LEMMA PointersFields ==
    Pointers.ps = parties /\ Pointers.of = partyOf /\ Pointers.inv = invitations
BY DEF Pointers

LEMMA SoundBecomes ==
    ASSUME NEW t \in PointerStates, NEW here, NEW lo, Sound(t, here, lo, {}), Become(t)
    PROVE  Sound(Pointers', here, lo, {})
<1>1. t = [ps |-> t.ps, of |-> t.of, inv |-> t.inv]
  BY DEF PointerStates
<1>2. Pointers' = t
  BY <1>1 DEF Pointers, Become
<1> QED BY <1>2

LEMMA PartyLeaveGameKeeps == ASSUME PartyInv, NEW p \in PartyPlayers, LeaveGame(p) PROVE PartyInv'
<1>1. /\ inGame \subseteq PartyPlayers /\ leftInvited \subseteq PartyPlayers
      /\ Sound(Pointers, inGame, leftInvited, {}) /\ p \in inGame
      /\ inGame' = inGame \ {p} /\ leftInvited' = leftInvited \ {p}
  BY DEF PartyInv, LeaveGame
<1>2. leftInvited \subseteq inGame
  BY <1>1 DEF Sound, OnlyThese
<1>3. PICK s : s = ClearInvitations(Pointers, p)
  OBVIOUS
<1>4. Sound(s, inGame, leftInvited \ {p}, {}) /\ s.inv[p] = {}
  BY <1>1, <1>2, <1>3, ClearKeeps
<1>5. PICK t : t = IF s.of[p] = NoParty THEN s ELSE Leave(s, s.of[p], p)
  OBVIOUS
<1>6. Become(t)
  BY <1>3, <1>5 DEF LeaveGame
<1>7. Sound(t, inGame, leftInvited \ {p}, {}) /\ t.of[p] = NoParty /\ t.inv[p] = {}
  <2>1. CASE s.of[p] = NoParty
    BY <2>1, <1>4, <1>5
  <2>2. CASE s.of[p] # NoParty
    <3>1. PICK x : x = s.of[p]
      OBVIOUS
    <3>2. x \in Parties
      BY <1>4, <2>2, <3>1 DEF Sound, PointerStates
    <3>3. p \notin s.ps[x].inviteList
      BY <1>4, <3>2 DEF Sound, ListsAgree
    <3>4. leftInvited \ {p} \subseteq inGame /\ leftInvited \ {p} \subseteq leftInvited \ {p}
      BY <1>2
    <3>5. t = Leave(s, x, p)
      BY <1>5, <2>2, <3>1
    <3>6. /\ Sound(Leave(s, x, p), inGame, leftInvited \ {p}, {})
          /\ Leave(s, x, p).of[p] = NoParty /\ Leave(s, x, p).inv[p] \subseteq s.inv[p]
      <4>1. p \in inGame /\ s.of[p] = x /\ inGame \in SUBSET PartyPlayers
        BY <1>1, <3>1, <3>3
      <4>2. p \in s.ps[x].inviteList => p \in leftInvited \ {p}
        BY <3>3
      <4>3. MayLeave(s, inGame, leftInvited \ {p}, leftInvited \ {p}, p, x)
        BY <1>4, <3>2, <3>4, <4>1, <4>2 DEF MayLeave
      <4> QED BY ONLY <4>3, LeavePartyKeeps
    <3> QED BY <1>4, <3>5, <3>6
  <2> QED BY <2>1, <2>2
<1>8. OnlyThese(t, inGame \ {p}, leftInvited \ {p})
  <2>1. \A x \in Parties : t.ps[x].leader # NoLeader => p \notin Group(t.ps[x])
    BY <1>7, PartyAssumption DEF Sound, GroupsAgree, PartyAssumption
  <2> QED BY <1>7, <2>1 DEF Sound, OnlyThese
<1>9. Sound(t, inGame', leftInvited', {}) /\ t \in PointerStates
  BY <1>1, <1>7, <1>8 DEF Sound
<1>10. Sound(Pointers', inGame', leftInvited', {})
  BY <1>6, <1>9, SoundBecomes
<1> QED BY <1>1, <1>10 DEF PartyInv

Founded(s, x, p) == [s EXCEPT !.ps[x].leader = p, !.of[p] = x]

LEMMA FoundedIs ==
    ASSUME NEW s \in PointerStates, NEW x \in Parties, NEW p \in PartyPlayers,
           s.ps[x] = NoObject, NEW t, t = Founded(s, x, p)
    PROVE  /\ t \in PointerStates /\ t.inv = s.inv
           /\ t.of[p] = x /\ \A q \in PartyPlayers : q # p => t.of[q] = s.of[q]
           /\ \A y \in Parties : y # x => t.ps[y] = s.ps[y]
           /\ t.ps[x].leader = p /\ t.ps[x].memberList = <<>> /\ t.ps[x].inviteList = {}
<1> DEFINE d == [s.ps[x] EXCEPT !.leader = p]
           f == [s.ps EXCEPT ![x] = d]
           g == [s.of EXCEPT ![p] = x]
<1>0. [s EXCEPT !.ps = f].of = s.of
  BY DEF PointerStates
<1>1. t = [s EXCEPT !.ps = f, !.of = g]
  BY <1>0 DEF Founded
<1>2. d \in PartyData /\ d.leader = p /\ d.memberList = <<>> /\ d.inviteList = {}
  <2>1. d = [NoObject EXCEPT !.leader = p]
    OBVIOUS
  <2> HIDE DEF d
  <2>2. d = [leader |-> p, memberList |-> <<>>, inviteList |-> {}]
    BY <2>1 DEF NoObject
  <2> QED BY <2>2 DEF PartyData
<1> HIDE DEF d
<1>3. f \in [Parties -> PartyData] /\ f[x] = d /\ \A y \in Parties : y # x => f[y] = s.ps[y]
  BY <1>2, PointersAre
<1>4. /\ g \in [PartyPlayers -> Parties \cup {NoParty}]
      /\ g[p] = x /\ \A q \in PartyPlayers : q # p => g[q] = s.of[q]
  BY PointersAre
<1> HIDE DEF f, g
<1>5. t \in PointerStates /\ t.ps = f /\ t.inv = s.inv /\ t.of = g
  BY <1>1, <1>3, <1>4 DEF PointerStates
<1> QED BY <1>2, <1>3, <1>4, <1>5

LEMMA NewPartyKeeps ==
    ASSUME PartyInv, NEW p \in PartyPlayers, NEW q \in PartyPlayers, InviteToNewParty(p, q)
    PROVE  PartyInv'
<1>1. /\ inGame \subseteq PartyPlayers /\ leftInvited \subseteq PartyPlayers
      /\ Sound(Pointers, inGame, leftInvited, {}) /\ p \in inGame /\ q \in inGame
      /\ partyOf[p] = NoParty /\ UNCHANGED <<inGame, leftInvited>>
  BY DEF PartyInv, InviteToNewParty
<1>2. PICK s : s = Pointers
  OBVIOUS
<1>3. PICK x \in Parties :
         /\ ~Exists(x)
         /\ Become(Invited([Pointers EXCEPT !.ps[x].leader = p, !.of[p] = x], x, q))
  BY DEF InviteToNewParty
<1>4. PICK t : t = Founded(s, x, p)
  OBVIOUS
<1>5. /\ s \in PointerStates /\ Sound(s, inGame, leftInvited, {})
      /\ s.of[p] = NoParty /\ s.ps[x] = NoObject
  <2>1. s.ps[x].leader = NoLeader /\ s.of[p] = NoParty
    BY <1>1, <1>2, <1>3, PointersFields DEF Exists
  <2> QED BY <1>1, <1>2, <2>1, PartyAssumption DEF Sound, Sane, PartyAssumption
<1>6. /\ t \in PointerStates /\ t.inv = s.inv
      /\ t.of[p] = x /\ \A r \in PartyPlayers : r # p => t.of[r] = s.of[r]
      /\ \A y \in Parties : y # x => t.ps[y] = s.ps[y]
      /\ t.ps[x].leader = p /\ t.ps[x].memberList = <<>> /\ t.ps[x].inviteList = {}
  BY <1>4, <1>5, FoundedIs
<1>7. /\ \A y \in Parties : y # x => s.ps[y].leader = t.ps[y].leader /\ Group(t.ps[y]) = Group(s.ps[y])
      /\ Group(t.ps[x]) = {p} /\ ToSet(t.ps[x].memberList) = {} /\ p # NoLeader
  BY <1>6, PartyAssumption DEF Group, ToSet, PartyAssumption
<1>8. \A r \in PartyPlayers : s.of[r] # x
  BY <1>5, NobodyLed, PartyAssumption DEF Sound, GroupsAgree, PartyAssumption
<1>9. Sound(t, inGame, leftInvited, {x})
  <2> USE DEF Sound
  <2>1. \A y \in Parties : Sane(t.ps[y])
    BY <1>5, <1>6, <1>7 DEF Sane, Single
  <2>2. GroupsAgree(t)
    <3>1. ASSUME NEW r \in PartyPlayers, t.of[r] # NoParty
          PROVE  t.ps[t.of[r]].leader # NoLeader /\ r \in Group(t.ps[t.of[r]])
      <4>1. CASE r = p
        BY <4>1, <1>6, <1>7
      <4>2. CASE r # p
        <5>1. t.of[r] = s.of[r] /\ s.of[r] # x /\ s.of[r] \in Parties
          BY <4>2, <1>6, <1>8, <3>1, <1>5, PointersAre
        <5> QED BY <5>1, <3>1, <1>5, <1>6, <1>7 DEF GroupsAgree
      <4> QED BY <4>1, <4>2
    <3>2. ASSUME NEW y \in Parties, t.ps[y].leader # NoLeader, NEW r \in Group(t.ps[y])
          PROVE  t.of[r] = y
      <4>1. CASE y = x
        BY <4>1, <3>2, <1>6, <1>7
      <4>2. CASE y # x
        <5>1. s.of[r] = y
          BY <4>2, <3>2, <1>5, <1>7 DEF GroupsAgree
        <5>2. r # p
          BY <5>1, <1>5, PartyAssumption DEF PartyAssumption
        <5>3. r \in PartyPlayers
          <6>1. s.ps[y] \in PartyData /\ s.ps[y].leader # NoLeader /\ r \in Group(s.ps[y])
            BY <1>5, <1>7, <4>2, <3>2, PointersAre
          <6> QED BY <6>1, GroupIs DEF Group, PartyData
        <5> QED BY <5>1, <5>2, <5>3, <1>6
      <4> QED BY <4>1, <4>2
    <3> QED BY <3>1, <3>2 DEF GroupsAgree
  <2>3. ListsAgree(t, leftInvited)
    <3>1. \A y \in Parties : t.ps[y].inviteList = s.ps[y].inviteList
      BY <1>5, <1>6, NobodyLed
    <3> QED BY <3>1, <1>5, <1>6 DEF ListsAgree
  <2>4. OnlyThese(t, inGame, leftInvited)
    BY <1>1, <1>5, <1>6, <1>7 DEF OnlyThese
  <2>5. \A y \in Parties \ {x} : t.ps[y].leader # NoLeader => ~Empty(t.ps[y])
    BY <1>5, <1>6
  <2> QED BY <1>6, <2>1, <2>2, <2>3, <2>4, <2>5
<1>10. PICK u : u = Invited(t, x, q)
  OBVIOUS
<1>11. Sound(u, inGame, leftInvited, {})
  <2>1. inGame \in SUBSET PartyPlayers /\ {x} \subseteq {x} /\ t.ps[x].leader # NoLeader
    BY <1>1, <1>6, <1>7
  <2> QED BY <1>1, <1>9, <1>10, <2>1, InvitedKeeps
<1>12. Become(u)
  BY <1>2, <1>3, <1>4, <1>10 DEF Founded
<1>13. Sound(Pointers', inGame, leftInvited, {})
  BY <1>11, <1>12, SoundBecomes DEF Sound
<1> QED BY <1>1, <1>13 DEF PartyInv

Joined(s, x, p) == [s EXCEPT !.ps[x].memberList = Append(@, p),
                             !.ps[x].inviteList = @ \ {p},
                             !.of[p] = x,
                             !.inv[p] = @ \ {x}]

HasJoined(t, s, x, p) ==
    /\ t \in PointerStates
    /\ t.inv[p] = s.inv[p] \ {x} /\ \A q \in PartyPlayers : q # p => t.inv[q] = s.inv[q]
    /\ t.of[p] = x /\ \A q \in PartyPlayers : q # p => t.of[q] = s.of[q]
    /\ \A y \in Parties : y # x => t.ps[y] = s.ps[y]
    /\ t.ps[x].leader = s.ps[x].leader
    /\ t.ps[x].memberList = Append(s.ps[x].memberList, p)
    /\ t.ps[x].inviteList = s.ps[x].inviteList \ {p}

LEMMA JoinedIs ==
    ASSUME NEW s \in PointerStates, NEW x \in Parties, NEW p \in PartyPlayers, NEW t,
           t = Joined(s, x, p)
    PROVE  HasJoined(t, s, x, p)
<1> DEFINE c == [s.ps[x] EXCEPT !.memberList = Append(s.ps[x].memberList, p)]
           d == [c EXCEPT !.inviteList = s.ps[x].inviteList \ {p}]
           e == [s.ps EXCEPT ![x] = c]
           f == [s.ps EXCEPT ![x] = d]
           g == [s.of EXCEPT ![p] = x]
           h == [s.inv EXCEPT ![p] = s.inv[p] \ {x}]
<1>1. /\ s.ps \in [Parties -> PartyData] /\ s.ps[x] \in PartyData
      /\ s.ps[x].memberList \in Seq(PartyPlayers) /\ s.ps[x].inviteList \subseteq PartyPlayers
      /\ s.of \in [PartyPlayers -> Parties \cup {NoParty}]
      /\ s.inv \in [PartyPlayers -> SUBSET Parties]
  BY PointersAre
<1>2. Append(s.ps[x].memberList, p) \in Seq(PartyPlayers)
  BY <1>1
<1>3. c \in PartyData /\ c.leader = s.ps[x].leader /\ c.inviteList = s.ps[x].inviteList
      /\ c.memberList = Append(s.ps[x].memberList, p)
  BY <1>1, <1>2 DEF PartyData
<1>4. e \in [Parties -> PartyData] /\ e[x] = c /\ f = [e EXCEPT ![x] = d]
  BY <1>1, <1>3
<1>5. d = [e[x] EXCEPT !.inviteList = @ \ {p}]
  BY <1>3, <1>4
<1> HIDE DEF c
<1>6. d \in PartyData /\ d.leader = s.ps[x].leader /\ d.memberList = Append(s.ps[x].memberList, p)
      /\ d.inviteList = s.ps[x].inviteList \ {p}
  BY <1>1, <1>3 DEF PartyData
<1>7. /\ [s EXCEPT !.ps = e].ps = e /\ [s EXCEPT !.ps = f].of = s.of
      /\ [s EXCEPT !.ps = f, !.of = g].inv = s.inv
  BY DEF PointerStates
<1>8. [s EXCEPT !.ps = e, !.ps = f] = [s EXCEPT !.ps = f]
  BY DEF PointerStates
<1>9. t = [s EXCEPT !.ps = e, !.ps = f, !.of = g, !.inv = h]
  BY <1>4, <1>5, <1>7, <1>8, ZenonT(30) DEF c, Joined
<1> HIDE DEF d
<1>10. f \in [Parties -> PartyData] /\ f[x] = d /\ \A y \in Parties : y # x => f[y] = s.ps[y]
  BY <1>1, <1>6
<1>11. /\ g \in [PartyPlayers -> Parties \cup {NoParty}]
       /\ g[p] = x /\ \A q \in PartyPlayers : q # p => g[q] = s.of[q]
  BY <1>1
<1>12. /\ h \in [PartyPlayers -> SUBSET Parties]
       /\ h[p] = s.inv[p] \ {x} /\ \A q \in PartyPlayers : q # p => h[q] = s.inv[q]
  BY <1>1
<1> HIDE DEF e, f, g, h
<1>13. t \in PointerStates /\ t.ps = f /\ t.of = g /\ t.inv = h
  BY <1>9, <1>10, <1>11, <1>12 DEF PointerStates
<1> QED BY <1>6, <1>10, <1>11, <1>12, <1>13 DEF HasJoined

LEMMA JoinPartyKeeps ==
    ASSUME PartyInv, NEW p \in PartyPlayers, NEW q \in PartyPlayers, JoinParty(p, q)
    PROVE  PartyInv'
<1>1. /\ inGame \subseteq PartyPlayers /\ leftInvited \subseteq PartyPlayers
      /\ Sound(Pointers, inGame, leftInvited, {}) /\ p \in inGame /\ q \in inGame
      /\ partyOf[p] = NoParty /\ IsInviting(q, p) /\ UNCHANGED <<inGame, leftInvited>>
  BY DEF PartyInv, JoinParty, MayJoin
<1>2. PICK s : s = Pointers
  OBVIOUS
<1>3. PICK x : x = partyOf[q]
  OBVIOUS
<1>4. PICK t : t = Joined(s, x, p)
  OBVIOUS
<1>5. Become(t)
  BY <1>2, <1>3, <1>4 DEF JoinParty, Joined
<1>6. /\ s \in PointerStates /\ Sound(s, inGame, leftInvited, {})
      /\ s.of[p] = NoParty /\ s.of[q] = x /\ x \in Parties
      /\ s.ps[x].leader = q /\ p \in s.ps[x].inviteList
  <2>1. x # NoParty /\ parties[x].leader = q /\ p \in parties[x].inviteList
    BY <1>1, <1>3 DEF IsInviting
  <2>2. s \in PointerStates /\ s.ps = parties /\ s.of = partyOf
    BY <1>1, <1>2, PointersFields DEF Sound
  <2> QED BY <1>1, <1>2, <1>3, <2>1, <2>2 DEF PointerStates
<1>7. /\ t \in PointerStates
      /\ t.inv[p] = s.inv[p] \ {x} /\ \A r \in PartyPlayers : r # p => t.inv[r] = s.inv[r]
      /\ t.of[p] = x /\ \A r \in PartyPlayers : r # p => t.of[r] = s.of[r]
      /\ \A y \in Parties : y # x => t.ps[y] = s.ps[y]
      /\ t.ps[x].leader = s.ps[x].leader
      /\ t.ps[x].memberList = Append(s.ps[x].memberList, p)
      /\ t.ps[x].inviteList = s.ps[x].inviteList \ {p}
  <2>1. s \in PointerStates /\ x \in Parties /\ p \in PartyPlayers
    BY <1>6
  <2>2. HasJoined(t, s, x, p)
    BY ONLY <2>1, <1>4, JoinedIs
  <2> QED BY ONLY <2>2 DEF HasJoined
<1>8. /\ q \in PartyPlayers \ ToSet(s.ps[x].memberList) /\ Single(s.ps[x].memberList)
      /\ s.ps[x].memberList \in Seq(PartyPlayers) /\ s.ps[x].leader # NoLeader
  BY <1>6, PointersAre, NobodyLed, PartyAssumption DEF Sound, Sane, PartyAssumption
<1>9. p \notin Group(s.ps[x])
  BY <1>6, <1>8, PartyAssumption DEF Sound, GroupsAgree, PartyAssumption
<1>10. /\ Single(t.ps[x].memberList)
       /\ ToSet(t.ps[x].memberList) = ToSet(s.ps[x].memberList) \cup {p}
       /\ t.ps[x].memberList # <<>>
  <2>1. p \notin ToSet(s.ps[x].memberList)
    BY <1>9 DEF Group
  <2> QED BY <2>1, <1>7, <1>8, AppendedIs, AppendProperties
<1>11. /\ \A y \in Parties : y # x => s.ps[y].leader = t.ps[y].leader /\ Group(t.ps[y]) = Group(s.ps[y])
       /\ Group(t.ps[x]) = Group(s.ps[x]) \cup {p}
  BY <1>7, <1>10 DEF Group
<1>12. Sound(t, inGame, leftInvited, {})
  <2> USE DEF Sound
  <2>1. \A y \in Parties : Sane(t.ps[y])
    <3>1. Sane(t.ps[x])
      BY <1>6, <1>7, <1>8, <1>9, <1>10 DEF Sane, Group
    <3> QED BY <3>1, <1>6, <1>7
  <2>2. GroupsAgree(t)
    <3>1. ASSUME NEW r \in PartyPlayers, t.of[r] # NoParty
          PROVE  t.ps[t.of[r]].leader # NoLeader /\ r \in Group(t.ps[t.of[r]])
      <4>1. CASE r = p
        BY <4>1, <1>6, <1>7, <1>8, <1>11
      <4>2. CASE r # p
        <5>1. t.of[r] = s.of[r] /\ s.of[r] \in Parties
          BY <4>2, <1>6, <1>7, <3>1, PointersAre
        <5> QED BY <5>1, <3>1, <1>6, <1>7, <1>11 DEF GroupsAgree
      <4> QED BY <4>1, <4>2
    <3>2. ASSUME NEW y \in Parties, t.ps[y].leader # NoLeader, NEW r \in Group(t.ps[y])
          PROVE  t.of[r] = y
      <4>1. CASE r = p /\ y = x
        BY <4>1, <1>7
      <4>2. CASE ~(r = p /\ y = x)
        <5>1. s.ps[y].leader # NoLeader /\ r \in Group(s.ps[y]) /\ s.of[r] = y
          BY <4>2, <3>2, <1>6, <1>7, <1>11 DEF GroupsAgree
        <5>2. r # p
          BY <5>1, <1>6, PartyAssumption DEF PartyAssumption
        <5>3. r \in PartyPlayers
          <6>1. s.ps[y] \in PartyData
            BY <1>6, PointersAre
          <6> QED BY <6>1, <5>1, GroupIs DEF Group, PartyData
        <5> QED BY <5>1, <5>2, <5>3, <1>7
      <4> QED BY <4>1, <4>2
    <3> QED BY <3>1, <3>2 DEF GroupsAgree
  <2>3. ListsAgree(t, leftInvited)
    <3>1. ASSUME NEW r \in PartyPlayers, NEW y \in Parties
          PROVE  /\ r \in t.ps[y].inviteList => y \in t.inv[r]
                 /\ y \in t.inv[r] => r \in t.ps[y].inviteList \/ r \in leftInvited
      <4>1. CASE r = p
        BY <4>1, <1>6, <1>7 DEF ListsAgree
      <4>2. CASE r # p
        BY <4>2, <1>6, <1>7 DEF ListsAgree
      <4> QED BY <4>1, <4>2
    <3> QED BY <3>1 DEF ListsAgree
  <2>4. OnlyThese(t, inGame, leftInvited)
    BY <1>1, <1>6, <1>7, <1>11 DEF OnlyThese
  <2>5. \A y \in Parties : t.ps[y].leader # NoLeader => ~Empty(t.ps[y])
    BY <1>6, <1>7, <1>10 DEF Empty
  <2> QED BY <1>7, <2>1, <2>2, <2>3, <2>4, <2>5
<1>13. Sound(Pointers', inGame, leftInvited, {})
  BY <1>5, <1>7, <1>12, SoundBecomes
<1> QED BY <1>1, <1>13 DEF PartyInv

LEMMA LeavePartyCommandKeeps ==
    ASSUME PartyInv, NEW p \in PartyPlayers, LeaveParty(p) PROVE PartyInv'
<1>1. /\ inGame \in SUBSET PartyPlayers /\ leftInvited \subseteq PartyPlayers
      /\ Sound(Pointers, inGame, leftInvited, {}) /\ p \in inGame
      /\ partyOf[p] # NoParty /\ UNCHANGED inGame
  BY DEF PartyInv, LeaveParty
<1>2. PICK s : s = Pointers
  OBVIOUS
<1>3. PICK x : x = partyOf[p]
  OBVIOUS
<1>4. PICK t : t = Leave(s, x, p)
  OBVIOUS
<1>5. PICK lo2 : lo2 = leftInvited'
  OBVIOUS
<1>6. lo2 = IF p \in parties[x].inviteList THEN leftInvited \cup {p} ELSE leftInvited
  BY <1>3, <1>5 DEF LeaveParty
<1>7. Become(t)
  BY <1>2, <1>3, <1>4 DEF LeaveParty
<1>8. s.of[p] = x /\ x \in Parties /\ s.ps = parties
  BY <1>1, <1>2, <1>3, PointersFields DEF Sound, PointerStates
<1>9. leftInvited \subseteq inGame
  BY <1>1 DEF Sound, OnlyThese
<1>10. MayLeave(s, inGame, leftInvited, lo2, p, x)
  BY <1>1, <1>2, <1>6, <1>8, <1>9 DEF MayLeave
<1>11. Sound(t, inGame, lo2, {})
  BY <1>4, <1>10, LeavePartyKeeps
<1>12. Sound(Pointers', inGame, lo2, {})
  BY <1>7, <1>11, SoundBecomes DEF Sound
<1> QED BY <1>1, <1>5, <1>6, <1>12 DEF PartyInv

LEMMA InviteToPartyKeeps ==
    ASSUME PartyInv, NEW p \in PartyPlayers, NEW q \in PartyPlayers, InviteToParty(p, q)
    PROVE  PartyInv'
<1>1. /\ inGame \in SUBSET PartyPlayers /\ leftInvited \subseteq PartyPlayers
      /\ Sound(Pointers, inGame, leftInvited, {}) /\ p \in inGame /\ q \in inGame
      /\ Leads(p) /\ UNCHANGED <<inGame, leftInvited>>
  BY DEF PartyInv, InviteToParty
<1>2. PICK s : s = Pointers
  OBVIOUS
<1>3. PICK x : x = partyOf[p]
  OBVIOUS
<1>4. PICK t : t = Invited(s, x, q)
  OBVIOUS
<1>5. Become(t)
  BY <1>2, <1>3, <1>4 DEF InviteToParty
<1>6. x \in Parties /\ s.ps[x].leader # NoLeader /\ {} \subseteq {x} /\ Sound(s, inGame, leftInvited, {})
  BY <1>1, <1>2, <1>3, PointersFields, PartyAssumption
  DEF Sound, PointerStates, Leads, PartyAssumption
<1>7. Sound(t, inGame, leftInvited, {})
  BY <1>1, <1>4, <1>6, InvitedKeeps
<1>8. Sound(Pointers', inGame, leftInvited, {})
  BY <1>5, <1>7, SoundBecomes DEF Sound
<1> QED BY <1>1, <1>8 DEF PartyInv

LEMMA RevokeKeeps ==
    ASSUME PartyInv, NEW p \in PartyPlayers, NEW q \in PartyPlayers, RevokeInvitation(p, q)
    PROVE  PartyInv'
<1>1. /\ inGame \in SUBSET PartyPlayers /\ leftInvited \subseteq PartyPlayers
      /\ Sound(Pointers, inGame, leftInvited, {}) /\ p \in inGame /\ q \in inGame
      /\ IsInviting(p, q) /\ UNCHANGED <<inGame, leftInvited>>
  BY DEF PartyInv, RevokeInvitation
<1>2. PICK s : s = Pointers
  OBVIOUS
<1>3. PICK x : x = partyOf[p]
  OBVIOUS
<1>4. PICK t : t = RemoveInvite(s, x, q)
  OBVIOUS
<1>5. Become(t)
  BY <1>2, <1>3, <1>4 DEF RevokeInvitation
<1>6. x \in Parties /\ s.ps[x].leader # NoLeader /\ Sound(s, inGame, leftInvited, {})
  BY <1>1, <1>2, <1>3, PointersFields, PartyAssumption
  DEF Sound, PointerStates, IsInviting, PartyAssumption
<1>7. leftInvited \in SUBSET inGame
  BY <1>1 DEF Sound, OnlyThese
<1>8. Sound(t, inGame, leftInvited, {})
  BY <1>1, <1>4, <1>6, <1>7, RemoveInviteKeeps
<1>9. Sound(Pointers', inGame, leftInvited, {})
  BY <1>5, <1>8, SoundBecomes DEF Sound
<1> QED BY <1>1, <1>9 DEF PartyInv

LEMMA PassKeeps ==
    ASSUME PartyInv, NEW p \in PartyPlayers, NEW q \in PartyPlayers, PassPartyLeadership(p, q)
    PROVE  PartyInv'
<1>1. /\ inGame \in SUBSET PartyPlayers /\ leftInvited \subseteq PartyPlayers
      /\ Sound(Pointers, inGame, leftInvited, {}) /\ Leads(p)
      /\ UNCHANGED <<inGame, leftInvited>>
  BY DEF PartyInv, PassPartyLeadership
<1>2. PICK s : s = Pointers
  OBVIOUS
<1>3. PICK x : x = partyOf[p]
  OBVIOUS
<1>4. PICK t : t = PassLeadership(s, x, q)
  OBVIOUS
<1>5. Become(t) /\ q \in ToSet(parties[x].memberList)
  BY <1>2, <1>3, <1>4 DEF PassPartyLeadership, IsMember
<1>6. /\ x \in Parties /\ s.ps[x].leader # NoLeader /\ Sound(s, inGame, leftInvited, {})
      /\ q \in ToSet(s.ps[x].memberList)
  BY <1>1, <1>2, <1>3, <1>5, PointersFields, PartyAssumption
  DEF Sound, PointerStates, Leads, PartyAssumption
<1>7. Sound(t, inGame, leftInvited, {})
  BY <1>4, <1>6, PassLeadershipKeeps
<1>8. Sound(Pointers', inGame, leftInvited, {})
  BY <1>5, <1>7, SoundBecomes DEF Sound
<1> QED BY <1>1, <1>8 DEF PartyInv

-----------------------------------------------------------------------------
\* The invariant behind PartyLinks.
THEOREM PartyInductive == PartySpec => []PartyInv
<1>1. PartyInit => PartyInv
  <2> SUFFICES ASSUME PartyInit PROVE PartyInv
    OBVIOUS
  <2>1. /\ Pointers.ps = [x \in Parties |-> NoObject] /\ Pointers.inv = [p \in PartyPlayers |-> {}]
        /\ Pointers.of = [p \in PartyPlayers |-> NoParty]
    BY PointersFields DEF PartyInit
  <2>2. Pointers \in PointerStates
    BY <2>1, NobodyLed DEF Pointers, PointerStates, PartyInit
  <2>3. \A x \in Parties : Pointers.ps[x] = NoObject /\ Pointers.ps[x].leader = NoLeader
    BY <2>1, NobodyLed
  <2>4. GroupsAgree(Pointers) /\ ListsAgree(Pointers, leftInvited)
    BY <2>1, <2>3, NobodyLed DEF GroupsAgree, ListsAgree
  <2>5. OnlyThese(Pointers, inGame, leftInvited)
    BY <2>1, <2>3 DEF OnlyThese, PartyInit
  <2> QED BY <2>2, <2>3, <2>4, <2>5 DEF PartyInv, Sound, Sane, PartyInit
<1>2. PartyInv /\ [PartyNext]_partyVars => PartyInv'
  <2> SUFFICES ASSUME PartyInv, [PartyNext]_partyVars PROVE PartyInv'
    OBVIOUS
  <2>1. ASSUME NEW p \in PartyPlayers, NEW q \in PartyPlayers,
               \/ InviteToNewParty(p, q) \/ InviteToParty(p, q) \/ JoinParty(p, q)
               \/ RevokeInvitation(p, q) \/ PassPartyLeadership(p, q)
        PROVE  PartyInv'
    BY <2>1, NewPartyKeeps, InviteToPartyKeeps, JoinPartyKeeps, RevokeKeeps, PassKeeps
  <2>2. ASSUME NEW p \in PartyPlayers, LeaveParty(p) \/ LeaveGame(p) PROVE PartyInv'
    BY <2>2, LeavePartyCommandKeeps, PartyLeaveGameKeeps
  <2>3. ASSUME NEW p \in PartyPlayers, EnterGame(p) PROVE PartyInv'
    <3>1. Pointers' = Pointers /\ leftInvited' = leftInvited /\ inGame' = inGame \cup {p}
      BY <2>3 DEF EnterGame, Pointers
    <3> QED BY <3>1 DEF PartyInv, Sound, OnlyThese
  <2>4. CASE UNCHANGED partyVars
    <3>1. Pointers' = Pointers /\ leftInvited' = leftInvited /\ inGame' = inGame
      BY <2>4 DEF partyVars, Pointers
    <3> QED BY <3>1 DEF PartyInv
  <2> QED BY <2>1, <2>2, <2>3, <2>4 DEF PartyNext
<1> QED BY <1>1, <1>2, PTL DEF PartySpec

\* A player's party has him in one place and is deleted with its last member, the two lists
\* of invitations name each other, but for who left a party that invites him, and no party
\* keeps a player who left the game (party.cpp disband, leaveParty; player.cpp
\* clearPartyInvitations), for any players and parties.
THEOREM PartyLinked == PartySpec => []PartyLinks
<1>1. PartyInv => PartyLinks
  <2> SUFFICES ASSUME PartyInv PROVE PartyLinks
    OBVIOUS
  <2>0. /\ Pointers \in PointerStates /\ \A x \in Parties : Sane(parties[x])
        /\ GroupsAgree(Pointers) /\ ListsAgree(Pointers, leftInvited)
        /\ OnlyThese(Pointers, inGame, leftInvited)
        /\ \A x \in Parties : parties[x].leader # NoLeader => ~Empty(parties[x])
        /\ \A x \in Parties : parties[x] \in PartyData
    BY PointersFields DEF PartyInv, Sound, PointerStates
  <2> DEFINE group(x) == Group(parties[x])
  <2>1. \A x : Team(x) = group(x)
    BY DEF Team, Group
  <2> HIDE DEF group
  <2>2. PartyTypeOK
    BY <2>0, PointersFields DEF PartyTypeOK, PartyInv, PointerStates, PartyData
  <2>3. ASSUME NEW x \in Parties, Exists(x)
        PROVE  Cardinality(Team(x)) = Len(parties[x].memberList) + 1
    <3>1. PICK l : l = parties[x].memberList
      OBVIOUS
    <3>2. l \in Seq(PartyPlayers) /\ Single(l) /\ parties[x].leader \notin ToSet(l)
      BY <2>0, <2>3, <3>1, NobodyLed DEF Sane, Exists, PartyData
    <3>3. IsFiniteSet(ToSet(l)) /\ Cardinality(ToSet(l)) = Len(l)
      BY <3>2, SingleLength
    <3>4. Cardinality(ToSet(l) \cup {parties[x].leader}) = Len(l) + 1
      BY <3>2, <3>3, FS_AddElement
    <3>5. Team(x) = ToSet(l) \cup {parties[x].leader}
      BY <3>1 DEF Team
    <3> QED BY <3>1, <3>4, <3>5
  <2>4. TeamsAgree
    <3>1. \A p \in PartyPlayers : partyOf[p] # NoParty =>
             parties[partyOf[p]].leader # NoLeader /\ p \in group(partyOf[p])
      BY <2>0, PointersFields DEF GroupsAgree, group
    <3>2. \A x \in Parties : parties[x].leader # NoLeader => \A p \in group(x) : partyOf[p] = x
      BY <2>0, PointersFields DEF GroupsAgree, group
    <3> QED BY <2>1, <2>3, <3>1, <3>2 DEF TeamsAgree, Exists
  <2>5. InvitationsAgree
    BY <2>0, PointersFields DEF InvitationsAgree, ListsAgree
  <2>6. NoEmptyParty
    BY <2>0 DEF NoEmptyParty, Exists
  <2>7. OnlyPlayersInGame
    <3>1. ASSUME NEW x \in Parties, Exists(x) PROVE Team(x) \cup parties[x].inviteList \subseteq inGame
      <4>1. Team(x) \subseteq inGame
        BY <2>0, <2>1, <3>1, PointersFields DEF OnlyThese, Exists, group
      <4>2. parties[x].inviteList \subseteq PartyPlayers
        BY <2>0 DEF PartyData
      <4>3. \A p \in parties[x].inviteList : p \in inGame
        BY <2>0, <4>2, PointersFields DEF OnlyThese, ListsAgree
      <4> QED BY <4>1, <4>3
    <3> QED BY <3>1 DEF OnlyPlayersInGame
  <2> QED BY <2>2, <2>4, <2>5, <2>6, <2>7 DEF PartyLinks
<1> QED BY <1>1, PartyInductive, PTL

-----------------------------------------------------------------------------
(* What items are in.                                                      *)

Parents == [Goods -> Holders]

\* The item i is put into d.
Put(par, i, d) == [par EXCEPT ![i] = d]

LEMMA PutIs ==
    ASSUME NEW par \in Parents, NEW i \in Goods, NEW d \in Holders
    PROVE  /\ Put(par, i, d) \in Parents
           /\ \A x \in Goods : Put(par, i, d)[x] = IF x = i THEN d ELSE par[x]
BY DEF Parents, Put

\* The containers around an item: its parent is one, and so is the parent of each, and
\* there are no others.
LEMMA BoxesHas ==
    ASSUME NEW par, NEW i
    PROVE  /\ BoxesAround(par, i) \subseteq Boxes
           /\ par[i] \in Boxes => par[i] \in BoxesAround(par, i)
           /\ \A b \in BoxesAround(par, i) : par[b] \in Boxes => par[b] \in BoxesAround(par, i)
BY DEF BoxesAround

LEMMA BoxesLeast ==
    ASSUME NEW par, NEW i, NEW S \in SUBSET Boxes,
           par[i] \in Boxes => par[i] \in S,
           \A b \in S : par[b] \in Boxes => par[b] \in S
    PROVE  BoxesAround(par, i) \subseteq S
BY DEF BoxesAround

LEMMA BoxesNest ==
    ASSUME NEW par, NEW i, NEW b \in BoxesAround(par, i)
    PROVE  BoxesAround(par, b) \subseteq BoxesAround(par, i)
BY BoxesHas, BoxesLeast

LEMMA BoxesUnroll ==
    ASSUME NEW par, NEW i, NEW b
    PROVE  b \in BoxesAround(par, i) <=>
             par[i] \in Boxes /\ (b = par[i] \/ b \in BoxesAround(par, par[i]))
<1>1. CASE par[i] \in Boxes
  <2>1. PICK S : S = {par[i]} \cup BoxesAround(par, par[i])
    OBVIOUS
  <2>2. BoxesAround(par, i) \subseteq S
    <3>1. S \subseteq Boxes /\ par[i] \in S /\ \A c \in S : par[c] \in Boxes => par[c] \in S
      BY <1>1, <2>1, BoxesHas
    <3> QED BY <3>1, BoxesLeast
  <2>3. S \subseteq BoxesAround(par, i)
    BY <1>1, <2>1, BoxesHas, BoxesNest
  <2> QED BY <1>1, <2>1, <2>2, <2>3
<1>2. CASE par[i] \notin Boxes
  <2>1. PICK S : S = {}
    OBVIOUS
  <2>2. BoxesAround(par, i) \subseteq S
    <3>1. S \in SUBSET Boxes /\ (par[i] \in Boxes => par[i] \in S) /\ \A c \in S : par[c] \in Boxes => par[c] \in S
      BY <1>2, <2>1
    <3> QED BY <3>1, BoxesLeast
  <2> QED BY <1>2, <2>1, <2>2
<1> QED BY <1>1, <1>2

LEMMA AroundHas ==
    ASSUME NEW par, NEW i
    PROVE  /\ par[i] \in Around(par, i)
           /\ \A b \in BoxesAround(par, i) : par[b] \in Around(par, i)
           /\ BoxesAround(par, i) \subseteq Around(par, i)
           /\ \A h \in Around(par, i) : h = par[i] \/ \E b \in BoxesAround(par, i) : h = par[b]
           /\ \A h \in Around(par, i) \cap Boxes : h \in BoxesAround(par, i)
<1>1. BoxesAround(par, i) \subseteq {par[c] : c \in BoxesAround(par, i) \cup {i}}
  <2>1. PICK S : S = BoxesAround(par, i) \cap {par[c] : c \in BoxesAround(par, i) \cup {i}}
    OBVIOUS
  <2>2. S \subseteq Boxes /\ (par[i] \in Boxes => par[i] \in S) /\ \A b \in S : par[b] \in Boxes => par[b] \in S
    BY <2>1, BoxesHas
  <2>3. BoxesAround(par, i) \subseteq S
    BY <2>2, BoxesLeast
  <2> QED BY <2>1, <2>3
<1> QED BY <1>1, BoxesHas DEF Around

LEMMA AroundNest ==
    ASSUME NEW par, NEW i, NEW b \in BoxesAround(par, i)
    PROVE  Around(par, b) \subseteq Around(par, i)
BY AroundHas, BoxesNest

LEMMA AroundUnroll ==
    ASSUME NEW par, NEW i, NEW h
    PROVE  h \in Around(par, i) <=>
             h = par[i] \/ (par[i] \in Boxes /\ h \in Around(par, par[i]))
<1>1. ASSUME h \in Around(par, i), h # par[i]
      PROVE  par[i] \in Boxes /\ h \in Around(par, par[i])
  <2>1. PICK b \in BoxesAround(par, i) : h = par[b]
    BY <1>1, AroundHas
  <2>2. par[i] \in Boxes /\ (b = par[i] \/ b \in BoxesAround(par, par[i]))
    BY <2>1, BoxesUnroll
  <2> QED BY <2>1, <2>2, AroundHas
<1>2. ASSUME par[i] \in Boxes, h \in Around(par, par[i]) PROVE h \in Around(par, i)
  BY <1>2, AroundNest, BoxesHas
<1> QED BY <1>1, <1>2, AroundHas

\* Going up from an item ends in one place.
LEMMA OneRoot ==
    ASSUME NEW par, NEW i, NEW h \in Around(par, i), NEW k \in Around(par, i),
           h \notin Boxes, k \notin Boxes
    PROVE  h = k
<1>1. PICK S : S = {b \in BoxesAround(par, i) : h \in Around(par, b)}
  OBVIOUS
<1>2. par[i] \in Boxes => par[i] \in S
  BY <1>1, AroundUnroll, BoxesHas
<1>3. ASSUME NEW b \in S, par[b] \in Boxes PROVE par[b] \in S
  BY <1>1, <1>3, AroundUnroll, BoxesHas
<1>4. BoxesAround(par, i) \subseteq S
  BY <1>1, <1>2, <1>3, BoxesHas, BoxesLeast
<1>5. CASE k = par[i]
  BY <1>5, AroundUnroll
<1>6. ASSUME NEW b \in BoxesAround(par, i), k = par[b] PROVE h = k
  BY <1>1, <1>4, <1>6, AroundUnroll
<1> QED BY <1>5, <1>6, AroundHas

\* What an item is not in does not touch it.
LEMMA PutApart ==
    ASSUME NEW par \in Parents, NEW i \in Goods, NEW d \in Holders,
           NEW x \in Goods, x # i, i \notin BoxesAround(par, x)
    PROVE  /\ BoxesAround(Put(par, i, d), x) = BoxesAround(par, x)
           /\ Around(Put(par, i, d), x) = Around(par, x)
<1> USE TradeAssumption
<1>1. PICK q \in Parents : q = Put(par, i, d)
  BY PutIs
<1>2. \A y \in Goods : y # i => q[y] = par[y]
  BY <1>1, PutIs
<1>3. BoxesAround(par, x) \subseteq Boxes /\ BoxesAround(q, x) \subseteq Boxes
  BY BoxesHas
<1>4. BoxesAround(q, x) \subseteq BoxesAround(par, x)
  <2>1. /\ q[x] \in Boxes => q[x] \in BoxesAround(par, x)
        /\ \A b \in BoxesAround(par, x) : q[b] \in Boxes => q[b] \in BoxesAround(par, x)
    BY <1>2, <1>3, BoxesHas
  <2> QED BY <1>3, <2>1, BoxesLeast
<1>5. BoxesAround(par, x) \subseteq BoxesAround(q, x)
  <2>1. /\ par[x] \in Boxes => par[x] \in BoxesAround(q, x)
        /\ \A b \in BoxesAround(q, x) : par[b] \in Boxes => par[b] \in BoxesAround(q, x)
    BY <1>2, <1>3, <1>4, BoxesHas
  <2> QED BY <1>3, <2>1, BoxesLeast
<1>6. BoxesAround(q, x) = BoxesAround(par, x)
  BY <1>4, <1>5
<1>7. Around(q, x) = Around(par, x)
  BY <1>2, <1>3, <1>6 DEF Around
<1> QED BY <1>1, <1>6, <1>7

Acyclic(par) == \A x \in Goods : x \notin BoxesAround(par, x)

\* A place that does not lie in the item.
Outside(par, i, d) == d \in Boxes => d # i /\ i \notin BoxesAround(par, d)

LEMMA PutKeepsAcyclic ==
    ASSUME NEW par \in Parents, Acyclic(par), NEW i \in Goods, NEW d \in Holders,
           Outside(par, i, d)
    PROVE  Acyclic(Put(par, i, d))
<1> USE TradeAssumption
<1>1. PICK q \in Parents : q = Put(par, i, d)
  BY PutIs
<1>2. q[i] = d /\ par = Put(q, i, par[i]) /\ par[i] \in Holders
  BY <1>1, PutIs, ZenonT(30) DEF Put, Parents
<1>3. i \notin BoxesAround(q, i)
  <2>1. CASE d \in Boxes
    BY <1>1, <1>2, <2>1, BoxesUnroll, PutApart DEF Outside
  <2>2. CASE d \notin Boxes
    BY <1>2, <2>2, BoxesUnroll
  <2> QED BY <2>1, <2>2
<1>4. ASSUME NEW x \in Goods, x # i, x \in BoxesAround(q, x) PROVE FALSE
  <2>1. i \in BoxesAround(q, x)
    <3>1. ASSUME i \notin BoxesAround(q, x) PROVE FALSE
      <4>1. BoxesAround(Put(q, i, par[i]), x) = BoxesAround(q, x)
        BY <1>2, <1>4, <3>1, PutApart
      <4> QED BY <1>2, <1>4, <4>1 DEF Acyclic
    <3> QED BY <3>1
  <2>2. PICK T : T = {b \in BoxesAround(q, x) : b = x \/ x \in BoxesAround(q, b)}
    OBVIOUS
  <2>3. q[x] \in Boxes => q[x] \in T
    BY <1>4, <2>2, BoxesHas, BoxesUnroll
  <2>4. ASSUME NEW b \in T, q[b] \in Boxes PROVE q[b] \in T
    <3>1. CASE b = x
      BY <2>3, <2>4, <3>1
    <3>2. CASE x \in BoxesAround(q, b)
      BY <2>2, <2>4, <3>2, BoxesHas, BoxesUnroll
    <3> QED BY <2>2, <3>1, <3>2
  <2>5. BoxesAround(q, x) \subseteq T
    <3>1. T \subseteq Boxes
      BY <2>2, BoxesHas
    <3> QED BY <2>3, <2>4, <3>1, BoxesLeast
  <2>6. x \in BoxesAround(q, i)
    BY <1>4, <2>1, <2>2, <2>5
  <2>7. i \in BoxesAround(q, i)
    BY <2>1, <2>6, BoxesNest
  <2> QED BY <1>3, <2>7
<1> QED BY <1>1, <1>3, <1>4 DEF Acyclic

-----------------------------------------------------------------------------
(* Trades.                                                                 *)

\* Who has not offered anything holds no item for a trade.
NothingYet == \A p \in Traders : tradeState[p] \in {"NONE", "ACKNOWLEDGE"} => tradeItem[p] = NoGood

TradeInv ==
    /\ TradeTypeOK /\ PartnersAgree /\ RegisterAgrees /\ OffersStand /\ PlainExchangesSwap
    /\ NothingYet /\ Acyclic(parent)

\* All but what an exchange does.
Deals == PartnersAgree /\ RegisterAgrees /\ OffersStand /\ NothingYet

DealTypes ==
    /\ tradeState \in [Traders -> {"NONE", "ACKNOWLEDGE", "INITIATED", "ACCEPT"}]
    /\ tradePartner \in [Traders -> Traders \cup {NoTrader}]
    /\ tradeItem \in [Traders -> Goods \cup {NoGood}]
    /\ tradeItems \subseteq Goods \X Traders

LEMMA Registered ==
    ASSUME RegisterAgrees, NEW x
    PROVE  x \in tradeItems <=> \E p \in Traders : tradeItem[p] # NoGood /\ x = <<tradeItem[p], p>>
BY DEF RegisterAgrees

Closing(P) == P \cup {tradePartner[p] : p \in P}

\* Closing trades leaves the others as they are, as long as nothing happens to what they
\* are about.
LEMMA CloseKeeps ==
    ASSUME TradeInv, NEW P \in SUBSET Traders, Close(P),
           \A q \in Traders \ Closing(P) :
              tradeItem[q] # NoGood => Around(parent', tradeItem[q]) = Around(parent, tradeItem[q])
    PROVE  DealTypes' /\ Deals'
<1> USE TradeAssumption
<1> DEFINE C == Closing(P)
<1>0. /\ TradeTypeOK /\ PartnersAgree /\ RegisterAgrees /\ OffersStand /\ NothingYet
      /\ DealTypes /\ tradeState \in [Traders -> {"NONE", "ACKNOWLEDGE", "INITIATED", "ACCEPT"}]
      /\ tradePartner \in [Traders -> Traders \cup {NoTrader}]
      /\ tradeItem \in [Traders -> Goods \cup {NoGood}]
  BY DEF TradeInv, TradeTypeOK, DealTypes
<1>1. /\ tradeState' = [p \in Traders |-> IF p \in C THEN "NONE" ELSE tradeState[p]]
      /\ tradePartner' = [p \in Traders |-> IF p \in C THEN NoTrader ELSE tradePartner[p]]
      /\ tradeItem' = [p \in Traders |-> IF p \in C THEN NoGood ELSE tradeItem[p]]
      /\ tradeItems' = {x \in tradeItems : \A p \in C \cap Traders : x[1] # tradeItem[p]}
  BY DEF Close, Closing
<1>2. \A p \in Traders : /\ tradeState'[p] = IF p \in C THEN "NONE" ELSE tradeState[p]
                         /\ tradePartner'[p] = IF p \in C THEN NoTrader ELSE tradePartner[p]
                         /\ tradeItem'[p] = IF p \in C THEN NoGood ELSE tradeItem[p]
  BY <1>1
<1>3. ASSUME NEW q \in Traders \ C PROVE tradePartner[q] \in Traders => tradePartner[q] \notin C
  BY <1>0, <1>3 DEF Closing, PartnersAgree
<1> HIDE DEF C
<1>4. DealTypes'
  BY <1>0, <1>1 DEF DealTypes
<1>5. PartnersAgree'
  BY <1>0, <1>2, <1>3 DEF PartnersAgree
<1>6. NothingYet'
  BY <1>0, <1>2 DEF NothingYet
<1>7. RegisterAgrees'
  <2>1. ASSUME NEW x, x \in tradeItems'
        PROVE  \E p \in {q \in Traders : tradeItem'[q] # NoGood} : x = <<tradeItem'[p], p>>
    <3>1. PICK p \in Traders : tradeItem[p] # NoGood /\ x = <<tradeItem[p], p>>
      BY <1>0, <1>1, <2>1, Registered
    <3>2. p \notin C
      BY <1>1, <2>1, <3>1
    <3> QED BY <1>2, <3>1, <3>2
  <2>2. ASSUME NEW p \in {q \in Traders : tradeItem'[q] # NoGood} PROVE <<tradeItem'[p], p>> \in tradeItems'
    <3>1. p \notin C /\ tradeItem'[p] = tradeItem[p] /\ tradeItem[p] # NoGood
      BY <1>2, <2>2
    <3>2. <<tradeItem[p], p>> \in tradeItems
      BY <1>0, <3>1, Registered
    <3>3. ASSUME NEW q \in C \cap Traders PROVE tradeItem[p] # tradeItem[q]
      BY <1>0, <3>1, <3>3 DEF OffersStand
    <3> QED BY <1>1, <3>1, <3>2, <3>3
  <2> QED BY <2>1, <2>2 DEF RegisterAgrees
<1>8. OffersStand'
  <2>1. ASSUME NEW p \in Traders, tradeItem'[p] # NoGood
        PROVE  /\ p \notin C /\ tradeItem'[p] = tradeItem[p] /\ tradePartner'[p] = tradePartner[p]
               /\ Around(parent', tradeItem[p]) = Around(parent, tradeItem[p])
    BY <1>2, <2>1 DEF C
  <2> QED BY <1>0, <2>1 DEF OffersStand, InReach, IsHolding
<1> QED BY <1>4, <1>5, <1>6, <1>7, <1>8 DEF Deals

LEMMA TradeStarts == TradeInit => TradeInv
<1> SUFFICES ASSUME TradeInit PROVE TradeInv
  OBVIOUS
<1> USE TradeAssumption
<1>1. parent \in Parents /\ Acyclic(parent)
  <2>1. parent \in [Goods -> Holders] /\ \A i \in Goods : i \notin Around(parent, i)
    BY DEF TradeInit
  <2> QED BY <2>1, AroundHas DEF Acyclic, Parents
<1>2. TradeTypeOK
  BY <1>1 DEF TradeInit, TradeTypeOK, NoExchange, Parents
<1>3. PartnersAgree /\ RegisterAgrees /\ OffersStand /\ PlainExchangesSwap /\ NothingYet
  BY DEF TradeInit, PartnersAgree, RegisterAgrees, OffersStand, PlainExchangesSwap, NothingYet
<1> QED BY <1>1, <1>2, <1>3 DEF TradeInv

LEMMA NoExchangeTyped ==
    ASSUME exchange' = NoExchange
    PROVE  /\ exchange' \in [of : Traders \cup {NoTrader}, with : Traders \cup {NoTrader},
                             gave : Goods \cup {NoGood}, got : Goods \cup {NoGood},
                             nested : BOOLEAN]
           /\ PlainExchangesSwap'
BY DEF NoExchange, PlainExchangesSwap

\* A step without an exchange.
LEMMA PlainStep ==
    ASSUME exchange' = NoExchange, DealTypes', Deals', parent' \in Parents, Acyclic(parent')
    PROVE  TradeInv'
BY NoExchangeTyped DEF TradeInv, TradeTypeOK, DealTypes, Deals, Parents, Acyclic

LEMMA InvParents == TradeInv => parent \in Parents /\ Acyclic(parent)
BY DEF TradeInv, TradeTypeOK, Parents

LEMMA MoveKeeps == ASSUME TradeInv, NEW i \in Goods, NEW d \in Holders, Move(i, d) PROVE TradeInv'
<1> USE TradeAssumption
<1>0. parent \in Parents /\ Acyclic(parent) /\ parent' = Put(parent, i, d) /\ exchange' = NoExchange
  BY InvParents DEF Move, Put
<1>1. Outside(parent, i, d)
  <2>1. CASE d \in Boxes
    <3>1. d # i /\ ~IsHolding(parent, i, d)
      BY <2>1 DEF Move, Accepts
    <3> QED BY <3>1, AroundHas DEF Outside, IsHolding
  <2> QED BY <2>1 DEF Outside
<1>2. parent' \in Parents /\ Acyclic(parent')
  BY <1>0, <1>1, PutIs, PutKeepsAcyclic
<1>3. ASSUME NEW q \in Traders \ Closing(Concerned(i, d)), tradeItem[q] # NoGood
      PROVE  Around(parent', tradeItem[q]) = Around(parent, tradeItem[q])
  <2>1. tradeItem[q] \in Goods
    BY <1>3 DEF TradeInv, TradeTypeOK
  <2>2. ~RemovalTouches(q, i)
    BY <1>3 DEF Closing, Concerned
  <2>3. tradeItem[q] # i /\ ~IsHolding(parent, i, tradeItem[q])
    BY <2>2 DEF RemovalTouches, Touches
  <2>4. i \notin BoxesAround(parent, tradeItem[q])
    BY <2>3, AroundHas DEF IsHolding
  <2> QED BY <1>0, <2>1, <2>3, <2>4, PutApart
<1>4. Concerned(i, d) \in SUBSET Traders /\ Close(Concerned(i, d))
  BY DEF Concerned, Move
<1>5. DealTypes' /\ Deals'
  BY <1>3, <1>4, CloseKeeps
<1> QED BY <1>0, <1>2, <1>5, PlainStep

LEMMA CloseTradeKeeps == ASSUME TradeInv, NEW p \in Traders, CloseTrade(p) PROVE TradeInv'
<1>1. /\ Close({p}) /\ exchange' = NoExchange /\ parent' = parent
      /\ parent' \in Parents /\ Acyclic(parent')
  BY InvParents DEF CloseTrade
<1>2. {p} \in SUBSET Traders
  OBVIOUS
<1>3. DealTypes' /\ Deals'
  BY <1>1, <1>2, CloseKeeps
<1> QED BY <1>1, <1>3, PlainStep

LEMMA AcceptFirstKeeps == ASSUME TradeInv, NEW p \in Traders, AcceptFirst(p) PROVE TradeInv'
<1>0. /\ TradeTypeOK /\ PartnersAgree /\ RegisterAgrees /\ OffersStand /\ NothingYet
      /\ parent \in Parents /\ Acyclic(parent)
  BY InvParents DEF TradeInv
<1>1. /\ UNCHANGED <<tradePartner, tradeItem, tradeItems, parent>> /\ exchange' = NoExchange
      /\ tradeState' = [tradeState EXCEPT ![p] = "ACCEPT"]
      /\ tradeState[p] # "NONE"
  BY DEF AcceptFirst, MayAccept
<1>2. DealTypes'
  BY <1>0, <1>1 DEF TradeTypeOK, DealTypes
<1>3. \A q \in Traders : tradeState'[q] = IF q = p THEN "ACCEPT" ELSE tradeState[q]
  BY <1>0, <1>1 DEF TradeTypeOK
<1>4. PartnersAgree' /\ NothingYet'
  BY <1>0, <1>1, <1>3 DEF PartnersAgree, NothingYet
<1>5. RegisterAgrees' /\ OffersStand'
  BY <1>0, <1>1 DEF RegisterAgrees, OffersStand, InReach, IsHolding
<1> QED BY <1>0, <1>1, <1>2, <1>4, <1>5, PlainStep DEF Deals

LEMMA RequestKeepsTrades ==
    ASSUME TradeInv, NEW p \in Traders, NEW q \in Traders, NEW i \in Goods, RequestTrade(p, q, i)
    PROVE  TradeInv'
<1> USE TradeAssumption
<1>0. /\ TradeTypeOK /\ PartnersAgree /\ RegisterAgrees /\ OffersStand /\ NothingYet
      /\ parent \in Parents /\ Acyclic(parent) /\ parent' = parent /\ exchange' = NoExchange
      /\ p # q /\ InReach(p, i) /\ IsFree(i)
  BY InvParents DEF TradeInv, RequestTrade
<1>1. /\ tradeState[p] = "NONE" \/ (tradeState[p] = "ACKNOWLEDGE" /\ tradePartner[p] = q)
      /\ tradeState[q] = "NONE" \/ tradePartner[q] = p
  BY DEF RequestTrade
<1>2. /\ tradeItem[p] = NoGood
      /\ tradeState[p] = "NONE" <=> tradeState[q] = "NONE"
      /\ tradeState[p] = "NONE" => tradePartner[p] = NoTrader /\ tradePartner[q] = NoTrader
      /\ tradeState[p] # "NONE" => tradePartner[p] = q /\ tradePartner[q] = p
  BY <1>0, <1>1 DEF PartnersAgree, NothingYet
<1>3. \A r \in Traders :
        /\ tradeState'[r] = IF r = p THEN "INITIATED" ELSE
                            IF r = q /\ tradeState[q] = "NONE" THEN "ACKNOWLEDGE" ELSE tradeState[r]
        /\ tradePartner'[r] = IF r = p THEN q ELSE IF r = q THEN p ELSE tradePartner[r]
        /\ tradeItem'[r] = IF r = p THEN i ELSE tradeItem[r]
  BY <1>0, <1>1, <1>2 DEF RequestTrade, TradeTypeOK
<1>4. tradeItems' = tradeItems \cup {<<i, p>>}
  BY DEF RequestTrade
<1>5. DealTypes'
  BY <1>0 DEF RequestTrade, TradeTypeOK, DealTypes
<1>6. PartnersAgree'
  <2>1. ASSUME NEW r \in Traders \ {p, q} PROVE tradePartner[r] \notin {p, q}
    BY <1>0, <1>2, <2>1 DEF PartnersAgree
  <2>2. ASSUME NEW r \in Traders \ {p, q}
        PROVE  /\ tradeState'[r] = tradeState[r] /\ tradePartner'[r] = tradePartner[r]
               /\ tradePartner[r] \in Traders => tradePartner'[tradePartner[r]] = tradePartner[tradePartner[r]]
    BY <1>0, <1>3, <2>1, <2>2
  <2>3. /\ tradeState'[p] = "INITIATED" /\ tradeState'[q] # "NONE"
        /\ tradePartner'[p] = q /\ tradePartner'[q] = p
    BY <1>0, <1>3
  <2>4. tradePartner[p] \in Traders \cup {NoTrader} /\ \A r \in Traders : tradePartner[r] \in Traders \cup {NoTrader}
    BY <1>0 DEF TradeTypeOK
  <2> QED BY <1>0, <2>2, <2>3, <2>4 DEF PartnersAgree
<1>7. NothingYet'
  <2>1. tradeState[q] = "NONE" => tradeItem[q] = NoGood
    BY <1>0 DEF NothingYet
  <2> QED BY <1>0, <1>3, <2>1 DEF NothingYet
<1>8. RegisterAgrees'
  <2>1. ASSUME NEW x PROVE x \in tradeItems' <=>
            \E r \in {s \in Traders : tradeItem'[s] # NoGood} : x = <<tradeItem'[r], r>>
    BY <1>0, <1>2, <1>3, <1>4, Registered
  <2> QED BY <2>1 DEF RegisterAgrees
<1>9. OffersStand'
  <2>1. /\ Destroyed \notin Around(parent, i)
        /\ \A r \in Traders : tradeItem[r] # NoGood =>
              /\ tradeItem[r] # i /\ ~IsHolding(parent, i, tradeItem[r]) /\ ~IsHolding(parent, tradeItem[r], i)
    <3>1. ASSUME Destroyed \in Around(parent, i) PROVE FALSE
      <4>1. PICK h \in Around(parent, i) : h \in {p, Ground}
        BY <1>0 DEF InReach
      <4>2. h \notin Boxes /\ Destroyed \notin Boxes
        BY <4>1
      <4>3. h = Destroyed
        BY <3>1, <4>1, <4>2, OneRoot
      <4> QED BY <4>1, <4>3
    <3>2. ASSUME NEW r \in Traders, tradeItem[r] # NoGood
          PROVE  tradeItem[r] # i /\ ~IsHolding(parent, i, tradeItem[r]) /\ ~IsHolding(parent, tradeItem[r], i)
      <4>1. <<tradeItem[r], r>> \in tradeItems
        BY <1>0, <3>2, Registered
      <4>2. <<tradeItem[r], r>>[1] = tradeItem[r]
        OBVIOUS
      <4> QED BY <1>0, <4>1, <4>2 DEF IsFree
    <3> QED BY <3>1, <3>2
  <2>2. ASSUME NEW r \in Traders, tradeItem'[r] # NoGood
        PROVE  /\ tradePartner'[r] # NoTrader
               /\ Destroyed \notin Around(parent, tradeItem'[r])
               /\ Around(parent, tradeItem'[r]) \cap {r, Ground} # {}
    <3>1. CASE r = p
      BY <1>0, <1>3, <2>1, <3>1 DEF InReach
    <3>2. CASE r # p
      BY <1>0, <1>3, <2>2, <3>2 DEF OffersStand, InReach
    <3> QED BY <3>1, <3>2
  <2>3. ASSUME NEW r \in Traders, NEW s \in Traders \ {r}, tradeItem'[r] # NoGood
        PROVE  /\ tradeItem'[s] # tradeItem'[r]
               /\ tradeItem'[s] # NoGood => ~IsHolding(parent, tradeItem'[r], tradeItem'[s])
    <3>1. CASE r = p
      BY <1>3, <2>1, <2>3, <3>1
    <3>2. CASE s = p
      BY <1>3, <2>1, <2>3, <3>2
    <3>3. CASE r # p /\ s # p
      BY <1>0, <1>3, <2>3, <3>3 DEF OffersStand
    <3> QED BY <3>1, <3>2, <3>3
  <2> QED BY <1>0, <2>2, <2>3 DEF OffersStand, InReach, IsHolding
<1> QED BY <1>0, <1>5, <1>6, <1>7, <1>8, <1>9, PlainStep DEF Deals

-----------------------------------------------------------------------------
(* Exchanges.                                                              *)

LEMMA ContentFinite ==
    ASSUME NEW par, NEW h
    PROVE  IsFiniteSet(Content(par, h)) /\ Cardinality(Content(par, h)) \in Nat
BY TradeAssumption, FS_Subset, FS_CardinalityType DEF Content

\* Something more in d is nothing more in any other place.
LEMMA PutElsewhere ==
    ASSUME NEW par \in Parents, NEW i \in Goods, NEW d \in Holders, NEW h, h # d
    PROVE  Cardinality(Content(Put(par, i, d), h)) <= Cardinality(Content(par, h))
<1>1. Content(Put(par, i, d), h) \subseteq Content(par, h)
  BY PutIs DEF Content
<1> QED BY <1>1, ContentFinite, FS_Subset

\* A destination is the player, or lies in the player's own things, but not in what it
\* offers itself.
LEMMA DestinationIs ==
    ASSUME TradeInv, NEW par \in Parents, NEW p \in Traders, NEW i \in Goods,
           NEW d \in Destinations(par, p, i)
    PROVE  /\ d \in Holders /\ Outside(par, i, d) /\ Accepts(par, d, i)
           /\ d = p \/ (d \in Boxes /\ p \in Around(par, d) /\ d # tradeItem[p])
<1> USE TradeAssumption
<1>1. \/ d = p /\ Accepts(par, p, i)
      \/ d \in Boxes /\ par[d] = p /\ d # tradeItem[p] /\ Accepts(par, d, i)
      \/ /\ d \in Boxes /\ d # tradeItem[p] /\ Accepts(par, d, i)
         /\ \E s \in Boxes : par[s] = p /\ s # tradeItem[p] /\ IsHolding(par, s, d)
  BY DEF Destinations
<1>2. d = p \/ (d \in Boxes /\ p \in Around(par, d) /\ d # tradeItem[p])
  BY <1>1, AroundHas DEF IsHolding
<1>3. d \in Boxes => Outside(par, i, d)
  BY <1>1, AroundHas DEF Accepts, IsHolding, Outside
<1> QED BY <1>1, <1>2, <1>3 DEF Holders, Outside

\* What is put into a place is where the place is, and nothing else changes about it.
LEMMA PutAround ==
    ASSUME NEW par \in Parents, NEW i \in Goods, NEW d \in Holders, Outside(par, i, d), NEW h
    PROVE  h \in Around(Put(par, i, d), i) <=> h = d \/ (d \in Boxes /\ h \in Around(par, d))
<1>1. Put(par, i, d)[i] = d
  BY PutIs
<1>2. d \in Boxes => Around(Put(par, i, d), d) = Around(par, d)
  BY TradeAssumption, PutApart DEF Outside
<1> QED BY <1>1, <1>2, AroundUnroll

\* What p offers and is not in, still has a place with q when something else came to p's
\* partner.
LEMMA StillRoom ==
    ASSUME TradeInv, NEW p \in Traders, NEW q \in Traders, p # q,
           NEW mine \in Goods, NEW yours \in Goods, mine = tradeItem[p], yours # mine,
           NEW d \in Destinations(parent, q, mine), ~HasBox(mine),
           Destinations(parent, p, yours) # {}
    PROVE  Destinations(Put(parent, mine, d), p, yours) # {}
<1> USE TradeAssumption
<1>0. parent \in Parents
  BY InvParents
<1>1. d \in Holders /\ (d = q \/ (d \in Boxes /\ q \in Around(parent, d)))
  BY <1>0, DestinationIs
<1>2. PICK half \in Parents : half = Put(parent, mine, d)
  BY <1>0, <1>1, PutIs
<1>3. \A x \in Goods : half[x] = IF x = mine THEN d ELSE parent[x]
  BY <1>0, <1>1, <1>2, PutIs
<1>4. \A c \in Boxes : mine \notin BoxesAround(parent, c)
  BY AroundHas DEF HasBox, IsHolding
<1>5. \A c \in Boxes : c # mine => Around(half, c) = Around(parent, c)
  BY <1>0, <1>1, <1>2, <1>4, PutApart
<1>6. \A h : h # d => Cardinality(Content(half, h)) <= Cardinality(Content(parent, h))
  BY <1>0, <1>1, <1>2, PutElsewhere
<1>7. p # d /\ \A c \in Boxes : p \in Around(parent, c) => c # d
  <2>1. ASSUME NEW c \in Boxes, p \in Around(parent, c), c = d PROVE FALSE
    <3>1. q \in Around(parent, c)
      BY <1>1, <2>1
    <3> QED BY <2>1, <3>1, OneRoot
  <2> QED BY <1>1, <2>1
<1>8. Accepts(parent, p, yours) => Accepts(half, p, yours)
  BY <1>6, <1>7, ContentFinite DEF Accepts
<1>9. ASSUME NEW c \in Boxes, c # mine, p \in Around(parent, c), Accepts(parent, c, yours)
      PROVE  Accepts(half, c, yours)
  <2>1. c \notin Traders /\ c # d
    BY <1>7, <1>9
  <2>2. Cardinality(Content(half, c)) <= Cardinality(Content(parent, c))
    BY <1>6, <2>1
  <2> QED BY <1>5, <1>9, <2>1, <2>2, ContentFinite DEF Accepts, IsHolding
<1>10. CASE Accepts(parent, p, yours)
  BY <1>2, <1>8, <1>10 DEF Destinations
<1>11. ASSUME NEW c \in Boxes, parent[c] = p, c # mine, Accepts(parent, c, yours)
       PROVE  Destinations(half, p, yours) # {}
  <2>1. half[c] = p /\ Accepts(half, c, yours)
    BY <1>3, <1>9, <1>11, AroundHas
  <2> QED BY <1>11, <2>1 DEF Destinations
<1>12. ASSUME NEW c \in Boxes, c # mine, Accepts(parent, c, yours),
              NEW s \in Boxes, parent[s] = p, s # mine, IsHolding(parent, s, c)
       PROVE  Destinations(half, p, yours) # {}
  <2>1. p \in Around(parent, c)
    BY <1>12, AroundHas DEF IsHolding
  <2>2. Accepts(half, c, yours) /\ half[s] = p /\ IsHolding(half, s, c)
    BY <1>3, <1>5, <1>9, <1>12, <2>1 DEF IsHolding
  <2> QED BY <1>12, <2>2 DEF Destinations
<1> QED BY <1>2, <1>10, <1>11, <1>12 DEF Destinations

LEMMA AcceptSecondKeeps == ASSUME TradeInv, NEW p \in Traders, AcceptSecond(p) PROVE TradeInv'
<1> USE TradeAssumption
<1>0. /\ TradeTypeOK /\ PartnersAgree /\ RegisterAgrees /\ OffersStand
      /\ parent \in Parents /\ Acyclic(parent) /\ Close({p}) /\ {p} \in SUBSET Traders
  BY InvParents DEF TradeInv, AcceptSecond
<1>1. PICK q \in Traders : q = tradePartner[p] /\ q # p /\ tradePartner[q] = p
  BY <1>0 DEF AcceptSecond, MayAccept, PartnersAgree, TradeTypeOK
<1>2. PICK mine, yours : mine = tradeItem[p] /\ yours = tradeItem[q]
  OBVIOUS
<1>3. mine \in Goods /\ yours \in Goods /\ mine # yours
  BY <1>0, <1>1, <1>2 DEF AcceptSecond, TradeTypeOK, OffersStand
<1>4. \A r \in Traders : r \notin Closing({p}) => r # p /\ r # q
  BY <1>1 DEF Closing
<1>5. CASE exchange' = NoExchange /\ UNCHANGED parent
  BY <1>0, <1>5, CloseKeeps, PlainStep
<1>6. CASE ~(exchange' = NoExchange /\ UNCHANGED parent)
  <2>1. /\ Destinations(parent, q, mine) # {} /\ Destinations(parent, p, yours) # {}
        /\ \E half \in MovedTo(parent, q, mine) : parent' \in MovedTo(half, p, yours)
        /\ exchange' = [of |-> p, with |-> q, gave |-> mine, got |-> yours,
                        nested |-> HasBox(mine) \/ HasBox(yours)]
    BY <1>1, <1>2, <1>6 DEF AcceptSecond
  <2>2. PICK d, half :
            /\ d \in Destinations(parent, q, mine) /\ half = Put(parent, mine, d)
            /\ parent' \in MovedTo(half, p, yours)
    BY <2>1 DEF MovedTo, Put
  <2>3. /\ d \in Holders /\ Outside(parent, mine, d)
        /\ d = q \/ (d \in Boxes /\ q \in Around(parent, d) /\ d # yours)
    BY <1>0, <1>2, <1>3, <2>2, DestinationIs
  <2>4. half \in Parents /\ Acyclic(half)
    BY <1>0, <1>3, <2>2, <2>3, PutIs, PutKeepsAcyclic
  <2>5. \/ Destinations(half, p, yours) = {} /\ parent' = half
        \/ \E e \in Destinations(half, p, yours) : parent' = Put(half, yours, e)
    BY <2>2 DEF MovedTo, Put
  <2>6. ASSUME NEW e \in Destinations(half, p, yours)
        PROVE  /\ e \in Holders /\ Outside(half, yours, e)
               /\ e = p \/ (e \in Boxes /\ p \in Around(half, e))
    BY <1>3, <2>4, DestinationIs
  <2>7. parent' \in Parents /\ Acyclic(parent')
    BY <1>3, <2>4, <2>5, <2>6, PutIs, PutKeepsAcyclic
  <2>8. ASSUME NEW r \in Traders \ Closing({p}), tradeItem[r] # NoGood
        PROVE  Around(parent', tradeItem[r]) = Around(parent, tradeItem[r])
    <3>1. PICK x \in Goods : x = tradeItem[r]
      BY <1>0, <2>8 DEF TradeTypeOK
    <3>2. /\ x # mine /\ ~IsHolding(parent, mine, x)
          /\ x # yours /\ ~IsHolding(parent, yours, x)
      BY <1>0, <1>1, <1>2, <1>3, <1>4, <2>8, <3>1 DEF OffersStand
    <3>3. mine \notin BoxesAround(parent, x) /\ yours \notin BoxesAround(parent, x)
      BY <3>2, AroundHas DEF IsHolding
    <3>4. Around(half, x) = Around(parent, x) /\ BoxesAround(half, x) = BoxesAround(parent, x)
      BY <1>0, <1>3, <2>2, <2>3, <3>2, <3>3, PutApart
    <3>5. Around(parent', x) = Around(half, x)
      BY <1>3, <2>4, <2>5, <2>6, <3>2, <3>3, <3>4, PutApart
    <3> QED BY <3>1, <3>4, <3>5
  <2>9. DealTypes' /\ Deals'
    BY <1>0, <2>8, CloseKeeps
  <2>10. /\ exchange'.of = p /\ exchange'.with = q /\ exchange'.gave = mine /\ exchange'.got = yours
         /\ exchange'.nested = (HasBox(mine) \/ HasBox(yours))
         /\ exchange' \in [of : Traders \cup {NoTrader}, with : Traders \cup {NoTrader},
                           gave : Goods \cup {NoGood}, got : Goods \cup {NoGood}, nested : BOOLEAN]
    BY <1>3, <2>1
  <2>11. ASSUME ~HasBox(mine), ~HasBox(yours)
         PROVE  /\ p \in Around(parent', yours) /\ p \notin Around(parent', mine)
                /\ q \in Around(parent', mine) /\ q \notin Around(parent', yours)
    <3>1. Destinations(half, p, yours) # {}
      BY <1>1, <1>2, <1>3, <2>1, <2>2, <2>11, StillRoom
    <3>2. PICK e \in Destinations(half, p, yours) : parent' = Put(half, yours, e)
      BY <2>5, <3>1
    <3>3. p \in Around(parent', yours)
      BY <1>3, <2>4, <2>6, <3>2, PutAround
    <3>4. q \in Around(half, mine)
      BY <1>0, <1>3, <2>2, <2>3, PutAround
    <3>5. yours \notin BoxesAround(half, mine)
      <4>1. ASSUME yours \in BoxesAround(half, mine) PROVE FALSE
        <5>1. yours \in Around(half, mine) /\ yours \in Boxes
          BY <4>1, AroundHas, BoxesHas
        <5>2. yours = d \/ (d \in Boxes /\ yours \in Around(parent, d))
          BY <1>0, <1>3, <2>2, <2>3, <5>1, PutAround
        <5>3. yours # d
          BY <1>1, <1>3, <2>3
        <5> QED BY <2>11, <5>2, <5>3 DEF HasBox, IsHolding
      <4> QED BY <4>1
    <3>6. Around(parent', mine) = Around(half, mine)
      BY <1>3, <2>4, <2>6, <3>2, <3>5, PutApart
    <3>7. p \notin Boxes /\ q \notin Boxes
      OBVIOUS
    <3> QED BY <1>1, <3>3, <3>4, <3>6, <3>7, OneRoot
  <2>12. PlainExchangesSwap'
    BY <2>10, <2>11 DEF PlainExchangesSwap, Swapped, IsHolding
  <2> QED BY <2>7, <2>9, <2>10, <2>12 DEF TradeInv, TradeTypeOK, DealTypes, Deals, Parents, Acyclic
<1> QED BY <1>5, <1>6

LEMMA TradeKeeps == TradeInv /\ [TradeNext]_tradeVars => TradeInv'
<1> SUFFICES ASSUME TradeInv, [TradeNext]_tradeVars PROVE TradeInv'
  OBVIOUS
<1>1. ASSUME NEW p \in Traders, CloseTrade(p) \/ AcceptFirst(p) \/ AcceptSecond(p) PROVE TradeInv'
  BY <1>1, CloseTradeKeeps, AcceptFirstKeeps, AcceptSecondKeeps
<1>2. ASSUME NEW p \in Traders, NEW q \in Traders, NEW i \in Goods, RequestTrade(p, q, i) PROVE TradeInv'
  BY <1>2, RequestKeepsTrades
<1>3. ASSUME NEW i \in Goods, NEW d \in Holders, Move(i, d) PROVE TradeInv'
  BY <1>3, MoveKeeps
<1>4. CASE UNCHANGED tradeVars
  BY <1>4 DEF TradeInv, tradeVars, TradeTypeOK, PartnersAgree, RegisterAgrees, OffersStand, InReach,
              PlainExchangesSwap, Swapped, NothingYet, Acyclic
<1> QED BY <1>1, <1>2, <1>3, <1>4 DEF TradeNext

\* The invariant of trades is inductive: nothing lies in itself, and who has not offered
\* yet holds no item for a trade.
THEOREM TradeInductive == TradeSpec => []TradeInv
BY TradeStarts, TradeKeeps, PTL DEF TradeSpec

\* Partners are each other's, the register holds each offer once, what is offered exists, is
\* in reach and not in another offer, and an exchange of plain items swaps them.
THEOREM TradesKept == TradeSpec => []TradesHold
<1>1. TradeInv => TradesHold
  BY DEF TradeInv, TradesHold, TradeLinks
<1> QED BY <1>1, TradeInductive, PTL
-----------------------------------------------------------------------------
(* The orders of a player.                                                 *)

\* The state as one record, as the operators of the model take it.
Bodies ==
    [place : 0 .. LastPlace, dirs : Seq(Directions), walk : EventIds \cup {0},
     errand : EventIds \cup {0}, action : EventIds \cup {0}, step : EventIds \cup {0},
     task : Orders \cup {Nobody}, timers : SUBSET [id : EventIds, task : EventTasks],
     lane : Seq(LaneTasks), rested : BOOLEAN, ready : BOOLEAN,
     dropped : SUBSET Orders, ended : SUBSET Orders]

LEMMA TaskKinds ==
    /\ \A o \in Orders : Errand(o) \in EventTasks /\ Errand(o).what = "errand" /\ Errand(o).order = o
    /\ \A o, p \in Orders : Errand(o) = Errand(p) => o = p
    /\ \A d \in Directions : StepTask(d) \in EventTasks /\ StepTask(d).what = "step" /\ StepTask(d).dir = d
    /\ WalkTick \in EventTasks /\ WalkTick.what = "walk"
    /\ AttackTask \in EventTasks /\ AttackTask.what = "attack"
    /\ StopTaskWalk \in LaneTasks /\ StopTaskWalk.what = "stop"
    /\ \A l \in Paths : AutoWalk(l) \in LaneTasks /\ AutoWalk(l).what = "auto" /\ AutoWalk(l).path = l
    /\ EventTasks \subseteq LaneTasks
BY DEF Errand, StepTask, WalkTick, AttackTask, StopTaskWalk, AutoWalk, EventTasks, LaneTasks

LEMMA LaneKinds ==
    ASSUME NEW t \in LaneTasks
    PROVE  \/ t = WalkTick \/ t = AttackTask \/ t = StopTaskWalk
           \/ \E o \in Orders : t = Errand(o)
           \/ \E d \in Directions : t = StepTask(d)
           \/ \E l \in Paths : t = AutoWalk(l)
BY DEF EventTasks, LaneTasks

LEMMA ErrandTasks ==
    ASSUME NEW t \in LaneTasks, t.what = "errand"
    PROVE  \E o \in Orders : t = Errand(o)
BY LaneKinds, TaskKinds

\* Where orders are, with the one the running task is about in hand.
InTimers(w) == {o \in Orders : \E e \in w.timers : e.task = Errand(o)}
InLane(w) == {o \in Orders : \E k \in DOMAIN w.lane : w.lane[k] = Errand(o)}
Over(w) == w.dropped \cup w.ended

\* Each order given is in one place once.
InOnePlace(w, hand, all) ==
    /\ all = Over(w) \cup InLane(w) \cup InTimers(w) \cup (({w.task} \cup {hand}) \ {Nobody})
    /\ Over(w) \cap InLane(w) = {} /\ (Over(w) \cup InLane(w)) \cap InTimers(w) = {}
    /\ w.task \notin Over(w) \cup InLane(w) \cup InTimers(w)
    /\ hand \notin Over(w) \cup InLane(w) \cup InTimers(w)
    /\ hand = w.task => hand = Nobody
    /\ \A e, f \in w.timers : e.task.what = "errand" /\ e.task = f.task => e = f
    /\ \A k, n \in DOMAIN w.lane : w.lane[k].what = "errand" /\ w.lane[k] = w.lane[n] => k = n

Remembered(w) ==
    /\ \A e \in w.timers :
          /\ e.task.what = "errand" => e.id \in {w.errand, w.action}
          /\ e.task.what = "attack" => e.id = w.action
          /\ e.task.what = "step" => e.id = w.step
    /\ w.walk # 0 => w.walk \notin {w.errand, w.action, w.step}
    /\ w.task # Nobody => w.errand = 0

\* What holds within a task too, but for the two below.
Coherent(w, hand, all) == w \in Bodies /\ InOnePlace(w, hand, all) /\ Remembered(w)

Walking(w) == w.dirs # <<>> => w.walk # 0

\* The walk's event is there, or handed over.
Ticks(w) ==
    w.walk # 0 => \/ \E e \in w.timers : e.id = w.walk /\ e.task = WalkTick
                  \/ \E k \in DOMAIN w.lane : w.lane[k] = WalkTick

\* An order that waits for a walk has one to wait for.
Awaited(w) ==
    w.task # Nobody /\ w.dirs = <<>> => \E k \in DOMAIN w.lane : w.lane[k].what = "auto"

Whole(w, hand, all) == Coherent(w, hand, all) /\ Walking(w) /\ Ticks(w) /\ Awaited(w)

LEMMA FreeIdIs ==
    ASSUME NEW w \in Bodies, FreeIds(w) # {}
    PROVE  /\ FreeId(w) \in EventIds /\ FreeId(w) # 0
           /\ FreeId(w) \notin {w.walk, w.errand, w.action, w.step}
           /\ \A e \in w.timers : e.id # FreeId(w)
BY ErrandsAssumption DEF FreeId, FreeIds, ErrandsAssumption

\* All but the events and what is dropped with them.
KeepsAll(w, r) ==
    /\ r.place = w.place /\ r.dirs = w.dirs /\ r.walk = w.walk /\ r.errand = w.errand
    /\ r.action = w.action /\ r.step = w.step /\ r.task = w.task /\ r.lane = w.lane
    /\ r.rested = w.rested /\ r.ready = w.ready /\ r.ended = w.ended

\* Where the orders are depends on nothing else.
LEMMA InPlaceStill ==
    ASSUME NEW w, NEW r, NEW hand, NEW all, InOnePlace(w, hand, all),
           r.task = w.task, r.timers = w.timers, r.lane = w.lane,
           r.dropped = w.dropped, r.ended = w.ended
    PROVE  InOnePlace(r, hand, all)
<1>1. InLane(r) = InLane(w) /\ InTimers(r) = InTimers(w) /\ Over(r) = Over(w)
  BY DEF InLane, InTimers, Over
<1> QED BY <1>1 DEF InOnePlace

LEMMA UnbookedIs ==
    ASSUME NEW w \in Bodies, NEW id
    PROVE  /\ Unbooked(w, id) \in Bodies /\ KeepsAll(w, Unbooked(w, id))
           /\ Unbooked(w, id).timers = {e \in w.timers : e.id # id}
           /\ Unbooked(w, id).dropped =
                 w.dropped \cup {o \in Orders : \E e \in w.timers : e.id = id /\ e.task = Errand(o)}
<1> DEFINE gone == {e \in w.timers : e.id = id}
           lost == {e.task.order : e \in {x \in gone : x.task.what = "errand"}}
<1>1. Unbooked(w, id) = [w EXCEPT !.timers = @ \ gone, !.dropped = @ \cup lost]
  BY DEF Unbooked
<1>2. lost = {o \in Orders : \E e \in w.timers : e.id = id /\ e.task = Errand(o)}
  <2>1. ASSUME NEW e \in w.timers, e.task.what = "errand" PROVE \E o \in Orders : e.task = Errand(o)
    BY <2>1, ErrandTasks, TaskKinds DEF Bodies
  <2> QED BY <2>1, TaskKinds
<1>3. w.timers \ gone = {e \in w.timers : e.id # id}
  OBVIOUS
<1> HIDE DEF gone, lost
<1> QED BY <1>1, <1>2, <1>3, ZenonT(30) DEF Bodies, KeepsAll

LEMMA UnbookedSane ==
    ASSUME NEW w, NEW hand, NEW all, Coherent(w, hand, all), NEW id
    PROVE  Coherent(Unbooked(w, id), hand, all)
<1> PICK r : r = Unbooked(w, id)
  OBVIOUS
<1>0. w \in Bodies /\ InOnePlace(w, hand, all) /\ Remembered(w)
  BY DEF Coherent
<1>1. /\ r \in Bodies /\ KeepsAll(w, r)
      /\ r.timers = {e \in w.timers : e.id # id}
      /\ r.dropped = w.dropped \cup {o \in Orders : \E e \in w.timers : e.id = id /\ e.task = Errand(o)}
  BY <1>0, UnbookedIs
<1>2. Remembered(r)
  BY <1>0, <1>1 DEF Remembered, KeepsAll
<1>3. /\ InLane(r) = InLane(w)
      /\ \A o \in InTimers(w) : o \in InTimers(r) \cup r.dropped
      /\ InTimers(r) \subseteq InTimers(w)
      /\ \A o \in r.dropped : o \in w.dropped \/ o \in InTimers(w)
  BY <1>1 DEF InLane, InTimers, KeepsAll
<1>4. r.dropped \cap InTimers(r) = {}
  <2>1. ASSUME NEW o \in Orders, o \in r.dropped, NEW f \in r.timers, f.task = Errand(o) PROVE FALSE
    <3>1. o \notin w.dropped
      BY <1>0, <1>1, <2>1 DEF InOnePlace, Over, InTimers
    <3>2. PICK e \in w.timers : e.id = id /\ e.task = Errand(o)
      BY <1>1, <2>1, <3>1
    <3>3. e = f
      BY <1>0, <1>1, <2>1, <3>2, TaskKinds DEF InOnePlace
    <3> QED BY <1>1, <2>1, <3>2, <3>3
  <2> QED BY <2>1 DEF InTimers
<1>5. InOnePlace(r, hand, all)
  BY <1>0, <1>1, <1>3, <1>4 DEF InOnePlace, Over, KeepsAll
<1> QED BY <1>1, <1>2, <1>5 DEF Coherent

\* More ids are free, and the walk's event stays unless it is the one.
LEMMA UnbookedFrees ==
    ASSUME NEW w \in Bodies, NEW id
    PROVE  /\ FreeIds(w) \subseteq FreeIds(Unbooked(w, id))
           /\ (id # w.walk \/ w.walk = 0) /\ Ticks(w) => Ticks(Unbooked(w, id))
           /\ Awaited(w) => Awaited(Unbooked(w, id))
           /\ Walking(w) => Walking(Unbooked(w, id))
<1> PICK r : r = Unbooked(w, id)
  OBVIOUS
<1>1. /\ r \in Bodies /\ KeepsAll(w, r) /\ r.timers = {e \in w.timers : e.id # id}
  BY UnbookedIs
<1> QED BY <1>1 DEF FreeIds, Ticks, Awaited, Walking, KeepsAll

-----------------------------------------------------------------------------
(* What the player remembers.                                              *)

\* The ids of the kinds that can be forgotten; 0 is no event.
Forgets(w, r, id) ==
    /\ r \in Bodies /\ r.timers = {e \in w.timers : e.id # id}
    /\ r.place = w.place /\ r.dirs = w.dirs /\ r.walk = w.walk /\ r.lane = w.lane
    /\ r.rested = w.rested /\ r.ready = w.ready /\ r.ended = w.ended

LEMMA ForgetsKeeps ==
    ASSUME NEW w \in Bodies, NEW r, NEW id, Forgets(w, r, id), Remembered(w),
           id \in {w.errand, w.action, w.step},
           /\ r.errand \in {w.errand, 0} /\ r.action \in {w.action, 0} /\ r.step \in {w.step, 0}
    PROVE  /\ FreeIds(w) \subseteq FreeIds(r)
           /\ Ticks(w) => Ticks(r)
           /\ Walking(w) => Walking(r)
<1>1. 0 \notin EventIds
  BY ErrandsAssumption DEF ErrandsAssumption
<1>2. FreeIds(w) \subseteq FreeIds(r)
  BY <1>1 DEF Forgets, FreeIds
<1>3. Ticks(w) => Ticks(r)
  BY DEF Forgets, Ticks, Remembered
<1>4. Walking(w) => Walking(r)
  BY DEF Forgets, Walking
<1> QED BY <1>2, <1>3, <1>4

LEMMA NoNextActionKeeps ==
    ASSUME NEW w, NEW hand, NEW all, Coherent(w, hand, all)
    PROVE  /\ Coherent(NoNextAction(w), hand, all) /\ Forgets(w, NoNextAction(w), w.action)
           /\ NoNextAction(w).task = w.task /\ NoNextAction(w).action = 0
           /\ NoNextAction(w).step = w.step /\ NoNextAction(w).errand = w.errand
           /\ FreeIds(w) \subseteq FreeIds(NoNextAction(w))
           /\ Ticks(w) => Ticks(NoNextAction(w))
           /\ Walking(w) => Walking(NoNextAction(w))
           /\ Awaited(w) => Awaited(NoNextAction(w))
<1> PICK u, r : u = Unbooked(w, w.action) /\ r = NoNextAction(w)
  OBVIOUS
<1>0. w \in Bodies /\ Remembered(w) /\ Coherent(u, hand, all)
  BY UnbookedSane DEF Coherent
<1>1. /\ u \in Bodies /\ KeepsAll(w, u) /\ u.timers = {e \in w.timers : e.id # w.action}
  BY <1>0, UnbookedIs
<1>2. r = [u EXCEPT !.action = 0]
  BY DEF NoNextAction
<1>3. /\ r \in Bodies /\ r.place = u.place /\ r.dirs = u.dirs /\ r.walk = u.walk
      /\ r.errand = u.errand /\ r.step = u.step /\ r.task = u.task /\ r.lane = u.lane
      /\ r.timers = u.timers /\ r.rested = u.rested /\ r.ready = u.ready
      /\ r.dropped = u.dropped /\ r.ended = u.ended /\ r.action = 0
  BY <1>1, <1>2 DEF Bodies
<1>4. Forgets(w, r, w.action)
  BY <1>1, <1>3 DEF Forgets, KeepsAll
<1>5. InOnePlace(r, hand, all)
  BY <1>0, <1>3, InPlaceStill DEF Coherent
<1>6. Remembered(r)
  BY <1>0, <1>1, <1>3 DEF Remembered, KeepsAll
<1>7. Awaited(w) => Awaited(r)
  BY <1>1, <1>3 DEF Awaited, KeepsAll
<1>8. r.task = w.task /\ r.step = w.step /\ r.errand = w.errand
  BY <1>1, <1>3 DEF KeepsAll
<1> QED BY <1>0, <1>3, <1>4, <1>5, <1>6, <1>7, <1>8, ForgetsKeeps DEF Coherent

LEMMA NoNextStepKeeps ==
    ASSUME NEW w, NEW hand, NEW all, Coherent(w, hand, all)
    PROVE  /\ Coherent(NoNextStep(w), hand, all) /\ Forgets(w, NoNextStep(w), w.step)
           /\ NoNextStep(w).task = w.task /\ NoNextStep(w).step = 0
           /\ NoNextStep(w).action = w.action /\ NoNextStep(w).errand = w.errand
           /\ FreeIds(w) \subseteq FreeIds(NoNextStep(w))
           /\ Ticks(w) => Ticks(NoNextStep(w))
           /\ Walking(w) => Walking(NoNextStep(w))
           /\ Awaited(w) => Awaited(NoNextStep(w))
<1> PICK u, r : u = Unbooked(w, w.step) /\ r = NoNextStep(w)
  OBVIOUS
<1>0. w \in Bodies /\ Remembered(w) /\ Coherent(u, hand, all)
  BY UnbookedSane DEF Coherent
<1>1. /\ u \in Bodies /\ KeepsAll(w, u) /\ u.timers = {e \in w.timers : e.id # w.step}
  BY <1>0, UnbookedIs
<1>2. r = [u EXCEPT !.step = 0]
  BY DEF NoNextStep
<1>3. /\ r \in Bodies /\ r.place = u.place /\ r.dirs = u.dirs /\ r.walk = u.walk
      /\ r.errand = u.errand /\ r.action = u.action /\ r.task = u.task /\ r.lane = u.lane
      /\ r.timers = u.timers /\ r.rested = u.rested /\ r.ready = u.ready
      /\ r.dropped = u.dropped /\ r.ended = u.ended /\ r.step = 0
  BY <1>1, <1>2 DEF Bodies
<1>4. Forgets(w, r, w.step)
  BY <1>1, <1>3 DEF Forgets, KeepsAll
<1>5. InOnePlace(r, hand, all)
  BY <1>0, <1>3, InPlaceStill DEF Coherent
<1>6. Remembered(r)
  BY <1>0, <1>1, <1>3 DEF Remembered, KeepsAll
<1>7. Awaited(w) => Awaited(r)
  BY <1>1, <1>3 DEF Awaited, KeepsAll
<1>8. r.task = w.task /\ r.action = w.action /\ r.errand = w.errand
  BY <1>1, <1>3 DEF KeepsAll
<1> QED BY <1>0, <1>3, <1>4, <1>5, <1>6, <1>7, <1>8, ForgetsKeeps DEF Coherent

-----------------------------------------------------------------------------
(* Booking.                                                                *)

LEMMA BookOther ==
    ASSUME NEW w \in Bodies, NEW hand, NEW all, InOnePlace(w, hand, all), NEW r \in Bodies,
           NEW e, r.timers = w.timers \cup {e}, e.task \in EventTasks, e.task.what # "errand",
           r.lane = w.lane, r.task = w.task, r.dropped = w.dropped, r.ended = w.ended
    PROVE  InOnePlace(r, hand, all)
<1>1. InTimers(r) = InTimers(w)
  BY TaskKinds DEF InTimers
<1>2. InLane(r) = InLane(w) /\ Over(r) = Over(w)
  BY DEF InLane, Over
<1>3. \A f, g \in r.timers : f.task.what = "errand" /\ f.task = g.task => f = g
  BY DEF InOnePlace
<1> QED BY <1>1, <1>2, <1>3 DEF InOnePlace

LEMMA BookOrder ==
    ASSUME NEW w \in Bodies, NEW hand \in Orders, NEW all, InOnePlace(w, hand, all), NEW r \in Bodies,
           NEW e, r.timers = w.timers \cup {e}, e.task = Errand(hand),
           r.lane = w.lane, r.task = w.task, r.dropped = w.dropped, r.ended = w.ended
    PROVE  InOnePlace(r, Nobody, all)
<1> USE ErrandsAssumption DEF ErrandsAssumption
<1>1. InTimers(r) = InTimers(w) \cup {hand}
  BY TaskKinds DEF InTimers
<1>2. InLane(r) = InLane(w) /\ Over(r) = Over(w) /\ hand \notin InTimers(w) /\ hand # w.task
  BY DEF InLane, Over, InOnePlace
<1>3. \A f, g \in r.timers : f.task.what = "errand" /\ f.task = g.task => f = g
  BY <1>2 DEF InOnePlace, InTimers
<1>4. Nobody \notin Over(r) \cup InLane(r) \cup InTimers(r)
  BY DEF Over, InLane, InTimers, Bodies
<1>5. w.task \notin InTimers(r)
  BY <1>1, <1>2 DEF InOnePlace
<1> QED BY <1>1, <1>2, <1>3, <1>4, <1>5 DEF InOnePlace

LEMMA BookTask ==
    ASSUME NEW w \in Bodies, NEW hand, NEW all, InOnePlace(w, hand, all), NEW r \in Bodies,
           w.task # Nobody, NEW e, r.timers = w.timers \cup {e}, e.task = Errand(w.task),
           r.lane = w.lane, r.task = Nobody, r.dropped = w.dropped, r.ended = w.ended
    PROVE  InOnePlace(r, hand, all)
<1> USE ErrandsAssumption DEF ErrandsAssumption
<1>0. w.task \in Orders
  BY DEF Bodies
<1>1. InTimers(r) = InTimers(w) \cup {w.task}
  BY <1>0, TaskKinds DEF InTimers
<1>2. InLane(r) = InLane(w) /\ Over(r) = Over(w) /\ w.task \notin InTimers(w) /\ hand # w.task
  BY DEF InLane, Over, InOnePlace
<1>3. \A f, g \in r.timers : f.task.what = "errand" /\ f.task = g.task => f = g
  BY <1>0, <1>2 DEF InOnePlace, InTimers
<1>4. Nobody \notin Over(r) \cup InLane(r) \cup InTimers(r)
  BY DEF Over, InLane, InTimers, Bodies
<1> QED BY <1>1, <1>2, <1>3, <1>4 DEF InOnePlace

\* setNextActionTask with an order in hand, or the attack.
LEMMA SetNextActionKeeps ==
    ASSUME NEW w, NEW hand, NEW all, NEW left, Whole(w, hand, all), FreeIds(w) # {},
           NEW task, \/ task = AttackTask /\ left = hand
                     \/ hand \in Orders /\ task = Errand(hand) /\ left = Nobody
    PROVE  Whole(SetNextAction(w, task), left, all)
<1> USE ErrandsAssumption DEF ErrandsAssumption
<1> PICK v, i : v = NoNextAction(w) /\ i = FreeId(v)
  OBVIOUS
<1> PICK r, e : r = SetNextAction(w, task) /\ e = [id |-> i, task |-> task]
  OBVIOUS
<1>1. /\ Coherent(v, hand, all) /\ v \in Bodies /\ Walking(v) /\ Ticks(v) /\ Awaited(v)
      /\ FreeIds(v) # {} /\ v.action = 0
  BY NoNextActionKeeps DEF Whole, Coherent
<1>2. /\ i \in EventIds /\ i # 0 /\ i \notin {v.walk, v.errand, v.step} /\ \A f \in v.timers : f.id # i
  BY <1>1, FreeIdIs
<1> PICK T : T = v.timers \cup {e}
  OBVIOUS
<1>3. r = [v EXCEPT !.action = i, !.timers = T]
  BY DEF SetNextAction, Booked
<1>4. task \in EventTasks /\ task.what \in {"attack", "errand"} /\ e.id = i /\ e.task = task
      /\ e \in [id : EventIds, task : EventTasks]
  BY <1>2, TaskKinds
<1>5. /\ r \in Bodies /\ r.dirs = v.dirs /\ r.walk = v.walk /\ r.errand = v.errand /\ r.step = v.step
      /\ r.task = v.task /\ r.lane = v.lane /\ r.dropped = v.dropped /\ r.ended = v.ended
      /\ r.action = i /\ r.timers = v.timers \cup {e}
  <2>1. T \in SUBSET [id : EventIds, task : EventTasks]
    BY <1>1, <1>4 DEF Bodies
  <2> QED BY <1>1, <1>2, <1>3, <2>1, ZenonT(30) DEF Bodies
<1>6. InOnePlace(r, left, all)
  <2>1. CASE task = AttackTask /\ left = hand
    BY <1>1, <1>4, <1>5, <2>1, BookOther, TaskKinds DEF Coherent
  <2>2. CASE hand \in Orders /\ task = Errand(hand) /\ left = Nobody
    BY <1>1, <1>4, <1>5, <2>2, BookOrder DEF Coherent
  <2> QED BY <2>1, <2>2
<1>7. Remembered(r)
  <2>1. \A f \in v.timers : f.id # 0
    BY <1>1 DEF Bodies
  <2> QED BY <1>1, <1>2, <1>4, <1>5, <2>1 DEF Remembered, Coherent
<1>8. Walking(r) /\ Ticks(r) /\ Awaited(r)
  BY <1>1, <1>5 DEF Walking, Ticks, Awaited
<1> QED BY <1>5, <1>6, <1>7, <1>8 DEF Whole, Coherent

LEMMA SetNextStepKeeps ==
    ASSUME NEW w, NEW hand, NEW all, Whole(w, hand, all), FreeIds(w) # {}, NEW d \in Directions
    PROVE  Whole(SetNextStep(w, StepTask(d)), hand, all)
<1> USE ErrandsAssumption DEF ErrandsAssumption
<1> PICK v, i : v = NoNextStep(w) /\ i = FreeId(v)
  OBVIOUS
<1> PICK r, e : r = SetNextStep(w, StepTask(d)) /\ e = [id |-> i, task |-> StepTask(d)]
  OBVIOUS
<1>1. /\ Coherent(v, hand, all) /\ v \in Bodies /\ Walking(v) /\ Ticks(v) /\ Awaited(v)
      /\ FreeIds(v) # {} /\ v.step = 0
  BY NoNextStepKeeps DEF Whole, Coherent
<1>2. /\ i \in EventIds /\ i # 0 /\ i \notin {v.walk, v.errand, v.action} /\ \A f \in v.timers : f.id # i
  BY <1>1, FreeIdIs
<1> PICK T : T = v.timers \cup {e}
  OBVIOUS
<1>3. r = [v EXCEPT !.step = i, !.timers = T]
  BY DEF SetNextStep, Booked
<1>4. e.task \in EventTasks /\ e.task.what = "step" /\ e.id = i /\ e \in [id : EventIds, task : EventTasks]
  BY <1>2, TaskKinds
<1>5. /\ r \in Bodies /\ r.dirs = v.dirs /\ r.walk = v.walk /\ r.errand = v.errand /\ r.action = v.action
      /\ r.task = v.task /\ r.lane = v.lane /\ r.dropped = v.dropped /\ r.ended = v.ended
      /\ r.step = i /\ r.timers = v.timers \cup {e}
  <2>1. T \in SUBSET [id : EventIds, task : EventTasks]
    BY <1>1, <1>4 DEF Bodies
  <2> QED BY <1>1, <1>2, <1>3, <2>1, ZenonT(30) DEF Bodies
<1>6. InOnePlace(r, hand, all)
  BY <1>1, <1>4, <1>5, BookOther DEF Coherent
<1>7. Remembered(r)
  <2>1. \A f \in v.timers : f.id # 0
    BY <1>1 DEF Bodies
  <2> QED BY <1>1, <1>2, <1>4, <1>5, <2>1 DEF Remembered, Coherent
<1>8. Walking(r) /\ Ticks(r) /\ Awaited(r)
  BY <1>1, <1>5 DEF Walking, Ticks, Awaited
<1> QED BY <1>5, <1>6, <1>7, <1>8 DEF Whole, Coherent

LEMMA AddEventWalkKeeps ==
    ASSUME NEW w, NEW hand, NEW all, Coherent(w, hand, all), Ticks(w), Awaited(w), FreeIds(w) # {}
    PROVE  Whole(AddEventWalk(w), hand, all)
<1> USE ErrandsAssumption DEF ErrandsAssumption
<1>1. CASE w.walk # 0
  BY <1>1 DEF AddEventWalk, Whole, Walking
<1>2. CASE w.walk = 0
  <2> PICK i, r, e : i = FreeId(w) /\ r = AddEventWalk(w) /\ e = [id |-> i, task |-> WalkTick]
    OBVIOUS
  <2>1. w \in Bodies /\ InOnePlace(w, hand, all) /\ Remembered(w)
    BY DEF Coherent
  <2>2. i \in EventIds /\ i # 0 /\ i \notin {w.errand, w.action, w.step}
    BY <2>1, FreeIdIs
  <2> PICK T : T = w.timers \cup {e}
    OBVIOUS
  <2>3. r = [w EXCEPT !.walk = i, !.timers = T]
    BY <1>2 DEF AddEventWalk, Booked
  <2>4. e.task \in EventTasks /\ e.task.what = "walk" /\ e.id = i /\ e \in [id : EventIds, task : EventTasks]
        /\ e.task = WalkTick
    BY <2>2, TaskKinds
  <2>5. /\ r \in Bodies /\ r.dirs = w.dirs /\ r.walk = i /\ r.errand = w.errand /\ r.action = w.action
        /\ r.task = w.task /\ r.lane = w.lane /\ r.dropped = w.dropped /\ r.ended = w.ended
        /\ r.step = w.step /\ r.timers = w.timers \cup {e}
    <3>1. T \in SUBSET [id : EventIds, task : EventTasks]
      BY <2>1, <2>4 DEF Bodies
    <3> QED BY <2>1, <2>2, <2>3, <3>1 DEF Bodies
  <2>6. InOnePlace(r, hand, all)
    BY <2>1, <2>4, <2>5, BookOther
  <2>7. Remembered(r)
    BY <2>1, <2>2, <2>4, <2>5 DEF Remembered
  <2>8. Walking(r) /\ Ticks(r) /\ Awaited(r)
    BY <2>2, <2>4, <2>5 DEF Walking, Ticks, Awaited
  <2> QED BY <2>5, <2>6, <2>7, <2>8 DEF Whole, Coherent
<1> QED BY <1>1, <1>2

\* Of two free ids one is left.
TwoFree(w) == \E a, b \in FreeIds(w) : a # b

Completed(w, r, hand, all) ==
    /\ Coherent(r, hand, all) /\ r.task = Nobody
    /\ Walking(r) /\ r.walk = w.walk /\ r.dirs = w.dirs
    /\ FreeIds(r) # {}

LEMMA OnWalkCompleteKeeps ==
    ASSUME NEW w, NEW hand, NEW all, Coherent(w, hand, all), Walking(w), TwoFree(w)
    PROVE  Completed(w, OnWalkComplete(w), hand, all)
<1> USE ErrandsAssumption DEF ErrandsAssumption, Completed
<1>0. PICK a \in FreeIds(w), b \in FreeIds(w) : a # b
  BY DEF TwoFree
<1>1. CASE w.task = Nobody
  BY <1>0, <1>1 DEF OnWalkComplete
<1>2. CASE w.task # Nobody
  <2> PICK i, r, e : i = FreeId(w) /\ r = OnWalkComplete(w) /\ e = [id |-> i, task |-> Errand(w.task)]
    OBVIOUS
  <2>1. w \in Bodies /\ InOnePlace(w, hand, all) /\ Remembered(w) /\ w.task \in Orders
    BY <1>2 DEF Coherent, Bodies
  <2>2. i \in EventIds /\ i # 0 /\ i \notin {w.walk, w.action, w.step}
    BY <2>1, FreeIdIs
  <2> PICK T : T = w.timers \cup {e}
    OBVIOUS
  <2>3. r = [w EXCEPT !.errand = i, !.timers = T, !.task = Nobody]
    BY <1>2 DEF OnWalkComplete, Booked
  <2>4. e.task \in EventTasks /\ e.task.what = "errand" /\ e.id = i /\ e \in [id : EventIds, task : EventTasks]
        /\ e.task = Errand(w.task)
    BY <2>1, <2>2, TaskKinds
  <2>5. /\ r \in Bodies /\ r.dirs = w.dirs /\ r.walk = w.walk /\ r.errand = i /\ r.action = w.action
        /\ r.task = Nobody /\ r.lane = w.lane /\ r.dropped = w.dropped /\ r.ended = w.ended
        /\ r.step = w.step /\ r.timers = w.timers \cup {e}
    <3>1. T \in SUBSET [id : EventIds, task : EventTasks]
      BY <2>1, <2>4 DEF Bodies
    <3> QED BY <2>1, <2>2, <2>3, <3>1 DEF Bodies
  <2>6. InOnePlace(r, hand, all)
    BY <1>2, <2>1, <2>4, <2>5, BookTask
  <2>7. Remembered(r)
    <3>1. \A f \in w.timers : f.id # 0
      BY <2>1 DEF Bodies
    <3> QED BY <1>2, <2>1, <2>2, <2>4, <2>5, <3>1 DEF Remembered
  <2>8. Walking(r)
    BY <2>5 DEF Walking
  <2>9. a \in FreeIds(r) \/ b \in FreeIds(r)
    BY <1>0, <2>2, <2>4, <2>5 DEF FreeIds
  <2> QED BY <2>5, <2>6, <2>7, <2>8, <2>9 DEF Coherent
<1> QED BY <1>1, <1>2

-----------------------------------------------------------------------------
(* The walk and the order that waits for it.                               *)

\* What a change of the place and of the two durations leaves alone.
Alike(w, r) ==
    /\ r \in Bodies /\ r.dirs = w.dirs /\ r.walk = w.walk /\ r.errand = w.errand
    /\ r.action = w.action /\ r.step = w.step /\ r.task = w.task /\ r.timers = w.timers
    /\ r.lane = w.lane /\ r.dropped = w.dropped /\ r.ended = w.ended

LEMMA AlikeKeeps ==
    ASSUME NEW w, NEW r, Alike(w, r)
    PROVE  /\ \A hand, all : Coherent(w, hand, all) => Coherent(r, hand, all)
           /\ Walking(w) => Walking(r)
           /\ Ticks(w) => Ticks(r)
           /\ Awaited(w) => Awaited(r)
           /\ FreeIds(r) = FreeIds(w)
BY DEF Alike, Coherent, InOnePlace, Over, InLane, InTimers, Remembered, Walking, Ticks, Awaited, FreeIds

\* The task that waits for the walk is dropped, or replaced by the order in hand.
Replaces(w, r, left, all, o) ==
    /\ Coherent(r, left, all) /\ r.task = o
    /\ r.place = w.place /\ r.dirs = w.dirs /\ r.walk = w.walk /\ r.lane = w.lane
    /\ r.rested = w.rested /\ r.ready = w.ready
    /\ FreeIds(w) \subseteq FreeIds(r)
    /\ Walking(w) => Walking(r)
    /\ Ticks(w) => Ticks(r)

LEMMA SetNextWalkActionKeeps ==
    ASSUME NEW w, NEW hand, NEW all, NEW left, NEW o, Coherent(w, hand, all),
           \/ o = Nobody /\ left = hand
           \/ hand \in Orders /\ o = hand /\ left = Nobody
    PROVE  Replaces(w, SetNextWalkAction(w, o), left, all, o)
<1> USE ErrandsAssumption DEF ErrandsAssumption
<1> PICK u : u = Unbooked(w, w.errand)
  OBVIOUS
<1> PICK r : r = SetNextWalkAction(w, o)
  OBVIOUS
<1> PICK D : D = u.dropped \cup ({w.task} \ {Nobody})
  OBVIOUS
<1>0. w \in Bodies /\ InOnePlace(w, hand, all) /\ Remembered(w) /\ Coherent(u, hand, all)
  BY UnbookedSane DEF Coherent
<1>1. /\ u \in Bodies /\ KeepsAll(w, u) /\ u.timers = {e \in w.timers : e.id # w.errand}
      /\ InOnePlace(u, hand, all)
  BY <1>0, UnbookedIs DEF Coherent
<1>2. r = [u EXCEPT !.errand = 0, !.task = o, !.dropped = D]
  BY DEF SetNextWalkAction
<1>3. D \in SUBSET Orders /\ o \in Orders \cup {Nobody}
  BY <1>0, <1>1 DEF Bodies
<1>4. /\ r \in Bodies /\ r.place = u.place /\ r.dirs = u.dirs /\ r.walk = u.walk
      /\ r.errand = 0 /\ r.step = u.step /\ r.task = o /\ r.lane = u.lane
      /\ r.timers = u.timers /\ r.rested = u.rested /\ r.ready = u.ready
      /\ r.dropped = D /\ r.ended = u.ended /\ r.action = u.action
  BY <1>1, <1>2, <1>3, ZenonT(30) DEF Bodies
<1>5. Forgets(w, r, w.errand)
  BY <1>1, <1>4 DEF Forgets, KeepsAll
<1>6. u.task = w.task /\ u.errand = w.errand /\ u.action = w.action /\ u.step = w.step
  BY <1>1 DEF KeepsAll
<1>7. InOnePlace(r, left, all)
  <2>1. /\ InLane(r) = InLane(u) /\ InTimers(r) = InTimers(u)
        /\ Over(r) = Over(u) \cup ({u.task} \ {Nobody})
    BY <1>4, <1>6 DEF InLane, InTimers, Over
  <2>2. /\ \A e, f \in r.timers : e.task.what = "errand" /\ e.task = f.task => e = f
        /\ \A k, n \in DOMAIN r.lane : r.lane[k].what = "errand" /\ r.lane[k] = r.lane[n] => k = n
    BY <1>1, <1>4 DEF InOnePlace
  <2>3. Nobody \notin Over(u) \cup InLane(u) \cup InTimers(u)
    BY <1>1 DEF Over, InLane, InTimers, Bodies
  <2>4. /\ Over(u) \cap InLane(u) = {} /\ (Over(u) \cup InLane(u)) \cap InTimers(u) = {}
        /\ u.task \notin Over(u) \cup InLane(u) \cup InTimers(u)
        /\ hand \notin Over(u) \cup InLane(u) \cup InTimers(u)
        /\ hand = u.task => hand = Nobody
        /\ all = Over(u) \cup InLane(u) \cup InTimers(u) \cup (({u.task} \cup {hand}) \ {Nobody})
    BY <1>1 DEF InOnePlace
  <2> HIDE DEF ErrandsAssumption
  <2>5. /\ all = Over(r) \cup InLane(r) \cup InTimers(r) \cup (({o} \cup {left}) \ {Nobody})
        /\ Over(r) \cap InLane(r) = {} /\ (Over(r) \cup InLane(r)) \cap InTimers(r) = {}
        /\ o \notin Over(r) \cup InLane(r) \cup InTimers(r)
        /\ left \notin Over(r) \cup InLane(r) \cup InTimers(r)
        /\ left = o => left = Nobody
    BY <2>1, <2>3, <2>4, ErrandsAssumption DEF ErrandsAssumption
  <2> QED BY <1>4, <2>2, <2>5 DEF InOnePlace
<1>8. Remembered(r)
  BY <1>0, <1>1, <1>4, <1>6 DEF Remembered, KeepsAll
<1>9. FreeIds(w) \subseteq FreeIds(r) /\ (Ticks(w) => Ticks(r)) /\ (Walking(w) => Walking(r))
  BY <1>0, <1>4, <1>5, <1>6, ForgetsKeeps
<1> QED BY <1>1, <1>4, <1>7, <1>8, <1>9 DEF Replaces, Coherent, KeepsAll

\* The walk stops, and with it the order that waits for it.
LEMMA StopEventWalkKeeps ==
    ASSUME NEW w, NEW hand, NEW all, Coherent(w, hand, all), Walking(w)
    PROVE  LET r == StopEventWalk(w)
           IN  /\ Coherent(r, hand, all) /\ r.walk = 0 /\ r.dirs = <<>>
               /\ Walking(r) /\ Ticks(r) /\ (Awaited(w) => Awaited(r))
               /\ FreeIds(w) \subseteq FreeIds(r) /\ r.rested = w.rested
<1> USE ErrandsAssumption DEF ErrandsAssumption
<1>1. CASE w.walk = 0
  BY <1>1 DEF StopEventWalk, Walking, Ticks
<1>2. CASE w.walk # 0
  <2> PICK u : u = Unbooked(w, w.walk)
    OBVIOUS
  <2> PICK v, x : v = [u EXCEPT !.walk = 0] /\ x = [v EXCEPT !.dirs = <<>>]
    OBVIOUS
  <2>1. /\ Coherent(u, hand, all) /\ u \in Bodies /\ KeepsAll(w, u)
        /\ FreeIds(w) \subseteq FreeIds(u) /\ (Awaited(w) => Awaited(u))
    BY UnbookedSane, UnbookedIs, UnbookedFrees DEF Coherent
  <2>2. /\ v \in Bodies /\ v.walk = 0 /\ v.place = u.place /\ v.dirs = u.dirs /\ v.errand = u.errand
        /\ v.action = u.action /\ v.step = u.step /\ v.task = u.task /\ v.timers = u.timers
        /\ v.lane = u.lane /\ v.rested = u.rested /\ v.ready = u.ready
        /\ v.dropped = u.dropped /\ v.ended = u.ended
    BY <2>1 DEF Bodies
  <2>3. /\ x \in Bodies /\ x.walk = 0 /\ x.place = u.place /\ x.dirs = <<>> /\ x.errand = u.errand
        /\ x.action = u.action /\ x.step = u.step /\ x.task = u.task /\ x.timers = u.timers
        /\ x.lane = u.lane /\ x.rested = u.rested /\ x.ready = u.ready
        /\ x.dropped = u.dropped /\ x.ended = u.ended
    <3>1. <<>> \in Seq(Directions)
      OBVIOUS
    <3> QED BY <2>2, <3>1, ZenonT(30) DEF Bodies
  <2>a. InOnePlace(u, hand, all) /\ Remembered(u)
    BY <2>1 DEF Coherent
  <2>4. Coherent(v, hand, all) /\ Coherent(x, hand, all)
    <3>1. Coherent(v, hand, all)
      <4>1. InOnePlace(v, hand, all)
        BY ONLY <2>a, <2>2, InPlaceStill
      <4>2. Remembered(v)
        BY ONLY <2>a, <2>2 DEF Remembered
      <4> QED BY <2>2, <4>1, <4>2 DEF Coherent
    <3>2. Coherent(x, hand, all)
      <4>1. InOnePlace(x, hand, all)
        BY ONLY <2>a, <2>3, InPlaceStill
      <4>2. Remembered(x)
        BY ONLY <2>a, <2>3 DEF Remembered
      <4> QED BY <2>3, <4>1, <4>2 DEF Coherent
    <3> QED BY <3>1, <3>2
  <2>5. FreeIds(u) \subseteq FreeIds(v) /\ FreeIds(u) \subseteq FreeIds(x)
    BY <2>2, <2>3 DEF FreeIds
  <2>6. CASE w.dirs = <<>>
    <3>1. StopEventWalk(w) = v
      BY <1>2, <2>6 DEF StopEventWalk
    <3>2. Awaited(u) => Awaited(v)
      BY <2>2 DEF Awaited
    <3> QED BY <2>1, <2>2, <2>4, <2>5, <2>6, <3>1, <3>2 DEF Walking, Ticks, KeepsAll
  <2>7. CASE w.dirs # <<>>
    <3> PICK r : r = SetNextWalkAction(x, Nobody)
      OBVIOUS
    <3>1. StopEventWalk(w) = r
      BY <1>2, <2>7 DEF StopEventWalk
    <3>2. /\ Coherent(r, hand, all) /\ r.task = Nobody /\ r.dirs = x.dirs /\ r.walk = x.walk
          /\ r.rested = x.rested /\ FreeIds(x) \subseteq FreeIds(r)
      <4>1. Replaces(x, r, hand, all, Nobody)
        BY <2>4, SetNextWalkActionKeeps
      <4> QED BY <4>1 DEF Replaces
    <3> QED BY <2>1, <2>3, <2>5, <3>1, <3>2 DEF Walking, Ticks, Awaited, KeepsAll
  <2> QED BY <2>6, <2>7
<1> QED BY <1>1, <1>2

LEMMA StopWalkKeeps ==
    ASSUME NEW w, NEW hand, NEW all, Whole(w, hand, all)
    PROVE  Whole(StopWalk(w), hand, all) /\ FreeIds(w) \subseteq FreeIds(StopWalk(w))
BY StopEventWalkKeeps DEF StopWalk, Whole

\* What a step leaves as it was.
Carried(w, r) ==
    /\ Walking(w) => Walking(r)
    /\ Ticks(w) => Ticks(r)
    /\ Awaited(w) => Awaited(r)
    /\ FreeIds(w) \subseteq FreeIds(r)

LEMMA MovedKeeps ==
    ASSUME NEW w, NEW hand, NEW all, Coherent(w, hand, all), Walking(w),
           NEW d \in Directions, NEW outcome
    PROVE  Coherent(Moved(w, d, outcome), hand, all) /\ Carried(w, Moved(w, d, outcome))
<1> USE ErrandsAssumption DEF ErrandsAssumption
<1> PICK to : to = w.place + d
  OBVIOUS
<1> PICK x, y : x = [w EXCEPT !.place = to, !.rested = FALSE] /\ y = [w EXCEPT !.place = 0, !.rested = FALSE]
  OBVIOUS
<1>0. w \in Bodies
  BY DEF Coherent
<1>1. CASE outcome = "blocked" \/ to \notin 0 .. LastPlace
  BY <1>1 DEF Moved, Carried
<1>2. CASE ~(outcome = "blocked" \/ to \notin 0 .. LastPlace) /\ outcome = "moved"
  <2>1. Moved(w, d, outcome) = x
    BY <1>2 DEF Moved
  <2>2. Alike(w, x)
    BY <1>0, <1>2 DEF Alike, Bodies
  <2> QED BY <2>1, <2>2, AlikeKeeps DEF Carried
<1>3. CASE ~(outcome = "blocked" \/ to \notin 0 .. LastPlace) /\ outcome # "moved"
  <2>1. Moved(w, d, outcome) = StopEventWalk(y)
    BY <1>3 DEF Moved
  <2>0. 0 \in 0 .. LastPlace
    OBVIOUS
  <2>2. Alike(w, y)
    BY <1>0, <2>0 DEF Alike, Bodies
  <2>3. /\ Coherent(y, hand, all) /\ Walking(y) /\ (Awaited(w) => Awaited(y)) /\ FreeIds(y) = FreeIds(w)
    BY <2>2, AlikeKeeps
  <2> QED BY <2>1, <2>3, StopEventWalkKeeps DEF Carried
<1> QED BY <1>1, <1>2, <1>3

LEMMA SteppedKeeps ==
    ASSUME NEW w, NEW hand, NEW all, Coherent(w, hand, all), Walking(w),
           NEW d \in Directions, NEW outcome
    PROVE  Coherent(Stepped(w, d, outcome), hand, all) /\ Carried(w, Stepped(w, d, outcome))
<1> PICK v : v = NoNextAction(w)
  OBVIOUS
<1> PICK x : x = [v EXCEPT !.ready = FALSE]
  OBVIOUS
<1>1. Coherent(v, hand, all) /\ Carried(w, v) /\ v \in Bodies /\ Walking(v)
  BY NoNextActionKeeps DEF Carried, Coherent
<1>2. Alike(v, x)
  BY <1>1 DEF Alike, Bodies
<1>3. Coherent(x, hand, all) /\ Carried(v, x) /\ Walking(x)
  BY <1>1, <1>2, AlikeKeeps DEF Carried
<1>4. Stepped(w, d, outcome) = Moved(x, d, outcome)
  BY DEF Stepped
<1>5. Coherent(Moved(x, d, outcome), hand, all) /\ Carried(x, Moved(x, d, outcome))
  BY <1>3, MovedKeeps
<1> QED BY <1>1, <1>3, <1>4, <1>5 DEF Carried

-----------------------------------------------------------------------------
(* The tasks of the dispatcher.                                            *)

\* checkCreatureWalk, its event gone.
LEMMA OnWalkKeeps ==
    ASSUME NEW w, NEW hand, NEW all, Coherent(w, hand, all), Walking(w), Awaited(w),
           TwoFree(w), NEW outcome
    PROVE  Whole(OnWalk(w, outcome), hand, all)
<1> USE ErrandsAssumption DEF ErrandsAssumption
<1> PICK x : x = [w EXCEPT !.dirs = Tail(@)]
  OBVIOUS
<1> PICK s : s = IF ~w.rested \/ w.dirs = <<>> THEN w ELSE Stepped(x, Head(w.dirs), outcome)
  OBVIOUS
<1> PICK c : c = IF s.dirs = <<>> THEN OnWalkComplete(s) ELSE s
  OBVIOUS
<1> PICK z : z = [c EXCEPT !.walk = 0]
  OBVIOUS
<1>0. w \in Bodies
  BY DEF Coherent
<1>1. Coherent(s, hand, all) /\ Walking(s) /\ FreeIds(w) \subseteq FreeIds(s)
  <2>1. CASE ~w.rested \/ w.dirs = <<>>
    BY <2>1
  <2>2. CASE ~(~w.rested \/ w.dirs = <<>>)
    <3>1. w.dirs \in Seq(Directions) /\ w.dirs # <<>>
      BY <1>0, <2>2 DEF Bodies
    <3>2. Head(w.dirs) \in Directions /\ Tail(w.dirs) \in Seq(Directions)
      BY <3>1
    <3>3. /\ x \in Bodies /\ x.walk = w.walk /\ x.errand = w.errand
          /\ x.action = w.action /\ x.step = w.step /\ x.task = w.task /\ x.timers = w.timers
          /\ x.lane = w.lane /\ x.dropped = w.dropped /\ x.ended = w.ended
      BY <1>0, <3>2 DEF Bodies
    <3>4. Coherent(x, hand, all) /\ FreeIds(x) = FreeIds(w)
      BY <3>3, InPlaceStill DEF Coherent, Remembered, FreeIds
    <3>5. Walking(x)
      BY <3>1, <3>3 DEF Walking
    <3> QED BY <2>2, <3>2, <3>4, <3>5, SteppedKeeps DEF Carried
  <2> QED BY <2>1, <2>2
<1>c. s.dirs = <<>> => Completed(s, c, hand, all)
  <2>1. TwoFree(s)
    BY <1>1 DEF TwoFree
  <2>2. Completed(s, OnWalkComplete(s), hand, all)
    BY ONLY <1>1, <2>1, OnWalkCompleteKeeps
  <2> QED BY <2>2
<1>2. Coherent(c, hand, all) /\ Awaited(c) /\ FreeIds(c) # {}
  <2>1. CASE s.dirs = <<>>
    BY <1>c, <2>1 DEF Completed, Awaited
  <2>2. CASE s.dirs # <<>>
    BY <1>1, <2>2 DEF Awaited, TwoFree
  <2> QED BY <2>1, <2>2
<1>3. OnWalk(w, outcome) = IF c.walk = 0 THEN c ELSE AddEventWalk(z)
  BY DEF OnWalk
<1>4. CASE c.walk = 0
  <2>1. Walking(c)
    <3>1. CASE s.dirs = <<>>
      BY <1>c, <3>1 DEF Completed
    <3>2. CASE s.dirs # <<>>
      BY <1>1, <3>2
    <3> QED BY <3>1, <3>2
  <2> QED BY <1>2, <1>3, <1>4, <2>1 DEF Whole, Ticks
<1>5. CASE c.walk # 0
  <2>0. c \in Bodies /\ InOnePlace(c, hand, all) /\ Remembered(c)
    BY <1>2 DEF Coherent
  <2>1. /\ z \in Bodies /\ z.walk = 0 /\ z.dirs = c.dirs /\ z.errand = c.errand
        /\ z.action = c.action /\ z.step = c.step /\ z.task = c.task /\ z.timers = c.timers
        /\ z.lane = c.lane /\ z.dropped = c.dropped /\ z.ended = c.ended
    <3>1. z = [c EXCEPT !.walk = 0]
      OBVIOUS
    <3> QED BY ONLY <2>0, <3>1 DEF Bodies
  <2>2. Coherent(z, hand, all) /\ Awaited(z) /\ Ticks(z)
    <3>1. InOnePlace(z, hand, all) /\ Remembered(z)
      BY ONLY <2>0, <2>1, InPlaceStill DEF Remembered
    <3> QED BY <1>2, <2>1, <3>1, ZenonT(30) DEF Coherent, Awaited, Ticks
  <2>3. FreeIds(z) # {}
    BY ONLY <1>2, <2>1, ErrandsAssumption DEF FreeIds, ErrandsAssumption
  <2>4. Whole(AddEventWalk(z), hand, all)
    BY ONLY <2>2, <2>3, AddEventWalkKeeps
  <2> QED BY <1>3, <1>5, <2>4
<1> QED BY <1>4, <1>5

LEMMA PlayerMoveKeeps ==
    ASSUME NEW w, NEW hand, NEW all, Whole(w, hand, all), FreeIds(w) # {},
           NEW d \in Directions, NEW outcome
    PROVE  Whole(PlayerMove(w, d, outcome), hand, all)
<1> PICK v : v = StopWalk(w)
  OBVIOUS
<1> PICK x : x = [v EXCEPT !.ready = FALSE]
  OBVIOUS
<1>1. Whole(v, hand, all) /\ FreeIds(v) # {} /\ v \in Bodies
  BY StopWalkKeeps DEF Whole, Coherent
<1>2. Alike(v, x)
  BY <1>1 DEF Alike, Bodies
<1>3. Whole(x, hand, all) /\ FreeIds(x) # {}
  BY <1>1, <1>2, AlikeKeeps DEF Whole
<1>4. PlayerMove(w, d, outcome) = IF v.rested THEN Stepped(v, d, outcome) ELSE SetNextStep(x, StepTask(d))
  BY DEF PlayerMove
<1>5. CASE v.rested
  BY <1>1, <1>4, <1>5, SteppedKeeps DEF Whole, Carried
<1>6. CASE ~v.rested
  <2>1. PlayerMove(w, d, outcome) = SetNextStep(x, StepTask(d))
    BY <1>4, <1>6
  <2>2. Whole(SetNextStep(x, StepTask(d)), hand, all)
    BY ONLY <1>3, SetNextStepKeeps, d \in Directions
  <2> QED BY <2>1, <2>2
<1> QED BY <1>5, <1>6

LEMMA PathIs ==
    ASSUME NEW l \in Paths
    PROVE  l \in Seq(Directions) /\ l # <<>>
<1>1. PICK n \in 1 .. LastPlace, d \in Directions : l = [i \in 1 .. n |-> d]
  BY DEF Paths
<1>2. n \in Nat /\ n >= 1
  BY <1>1, ErrandsAssumption DEF ErrandsAssumption
<1>3. l \in Seq(Directions) /\ Len(l) = n
  BY <1>1, <1>2
<1> QED BY <1>2, <1>3

LEMMA PlayerAutoWalkKeeps ==
    ASSUME NEW w, NEW hand, NEW all, Coherent(w, hand, all), Ticks(w), FreeIds(w) # {},
           NEW l \in Paths
    PROVE  Whole(PlayerAutoWalk(w, l), hand, all)
<1> PICK v : v = NoNextStep(w)
  OBVIOUS
<1> PICK x : x = [v EXCEPT !.dirs = l]
  OBVIOUS
<1>1. Coherent(v, hand, all) /\ Ticks(v) /\ FreeIds(v) # {} /\ v \in Bodies
  BY NoNextStepKeeps DEF Coherent
<1>2. l \in Seq(Directions) /\ l # <<>>
  BY PathIs
<1>3. /\ x \in Bodies /\ x.dirs = l /\ x.walk = v.walk /\ x.errand = v.errand
      /\ x.action = v.action /\ x.step = v.step /\ x.task = v.task /\ x.timers = v.timers
      /\ x.lane = v.lane /\ x.dropped = v.dropped /\ x.ended = v.ended
  BY <1>1, <1>2 DEF Bodies
<1>4. Coherent(x, hand, all) /\ Ticks(x) /\ FreeIds(x) = FreeIds(v)
  <2>1. InOnePlace(v, hand, all) /\ Remembered(v)
    BY <1>1 DEF Coherent
  <2>2. InOnePlace(x, hand, all)
    BY ONLY <2>1, <1>3, InPlaceStill
  <2>3. Remembered(x)
    BY ONLY <2>1, <1>3 DEF Remembered
  <2>4. Ticks(x) /\ FreeIds(x) = FreeIds(v)
    BY ONLY <1>1, <1>3 DEF Ticks, FreeIds
  <2> QED BY <1>3, <2>2, <2>3, <2>4 DEF Coherent
<1>5. Awaited(x)
  BY <1>2, <1>3 DEF Awaited
<1>6. PlayerAutoWalk(w, l) = AddEventWalk(x)
  BY DEF PlayerAutoWalk
<1> QED BY <1>1, <1>4, <1>5, <1>6, AddEventWalkKeeps

\* The list with one more task.
LEMMA Appended ==
    ASSUME NEW S, NEW s \in Seq(S), NEW t \in S
    PROVE  /\ Append(s, t) \in Seq(S) /\ Len(Append(s, t)) = Len(s) + 1
           /\ DOMAIN s = 1 .. Len(s) /\ DOMAIN Append(s, t) = 1 .. (Len(s) + 1)
           /\ \A k \in DOMAIN s : k \in DOMAIN Append(s, t) /\ Append(s, t)[k] = s[k]
           /\ Append(s, t)[Len(s) + 1] = t
OBVIOUS

LEMMA PathToIsPath ==
    ASSUME NEW w \in Bodies, NEW o \in Orders, w.place # PlaceOf[o]
    PROVE  PathTo(w, o) \in Paths
<1> DEFINE way == PlaceOf[o] - w.place
           n == IF way < 0 THEN -way ELSE way
           d == IF way < 0 THEN -1 ELSE 1
<1>1. LastPlace \in Nat /\ PlaceOf[o] \in 0 .. LastPlace /\ w.place \in 0 .. LastPlace
  BY ErrandsAssumption DEF ErrandsAssumption, Bodies
<1>2. n \in 1 .. LastPlace /\ d \in Directions
  BY <1>1 DEF Directions
<1>3. PathTo(w, o) = [i \in 1 .. n |-> d]
  BY DEF PathTo
<1> HIDE DEF n, d
<1> QED BY <1>2, <1>3 DEF Paths

LEMMA WalkFirstKeeps ==
    ASSUME NEW w, NEW o \in Orders, NEW all, Whole(w, o, all), w.place # PlaceOf[o]
    PROVE  Whole(WalkFirst(w, o), Nobody, all)
<1> USE ErrandsAssumption DEF ErrandsAssumption
<1> PICK t : t = AutoWalk(PathTo(w, o))
  OBVIOUS
<1> PICK q : q = Append(w.lane, t)
  OBVIOUS
<1> PICK x : x = [w EXCEPT !.lane = q]
  OBVIOUS
<1> PICK r : r = SetNextWalkAction(x, o)
  OBVIOUS
<1>0. w \in Bodies /\ w.lane \in Seq(LaneTasks) /\ Coherent(w, o, all)
  BY DEF Whole, Coherent, Bodies
<1>1. t \in LaneTasks /\ t.what = "auto"
  BY <1>0, PathToIsPath, TaskKinds
<1>2. /\ q \in Seq(LaneTasks) /\ DOMAIN w.lane = 1 .. Len(w.lane)
      /\ DOMAIN q = DOMAIN w.lane \cup {Len(w.lane) + 1}
      /\ \A k \in DOMAIN w.lane : q[k] = w.lane[k]
      /\ q[Len(w.lane) + 1] = t
  BY <1>0, <1>1, Appended
<1>3. /\ x \in Bodies /\ x.dirs = w.dirs /\ x.walk = w.walk /\ x.errand = w.errand
      /\ x.action = w.action /\ x.step = w.step /\ x.task = w.task /\ x.timers = w.timers
      /\ x.lane = q /\ x.dropped = w.dropped /\ x.ended = w.ended
  BY <1>0, <1>2 DEF Bodies
<1>4. InLane(x) = InLane(w) /\ InTimers(x) = InTimers(w) /\ Over(x) = Over(w)
  BY <1>1, <1>2, <1>3, TaskKinds DEF InLane, InTimers, Over
<1>5. \A k, n \in DOMAIN x.lane : x.lane[k].what = "errand" /\ x.lane[k] = x.lane[n] => k = n
  BY <1>0, <1>1, <1>2, <1>3 DEF Coherent, InOnePlace
<1>6. InOnePlace(x, o, all)
  BY <1>0, <1>3, <1>4, <1>5 DEF Coherent, InOnePlace
<1>7. Coherent(x, o, all) /\ Walking(x) /\ Ticks(x)
  BY <1>0, <1>2, <1>3, <1>6 DEF Whole, Coherent, Remembered, Walking, Ticks
<1>8. Coherent(r, Nobody, all) /\ r.lane = q /\ Walking(r) /\ Ticks(r)
  <2>1. Replaces(x, r, Nobody, all, o)
    BY <1>7, SetNextWalkActionKeeps
  <2> QED BY <1>3, <1>7, <2>1 DEF Replaces
<1>9. Awaited(r)
  <2>1. Len(w.lane) + 1 \in DOMAIN q /\ q[Len(w.lane) + 1].what = "auto"
    BY <1>1, <1>2
  <2> QED BY <1>8, <2>1 DEF Awaited
<1> QED BY <1>8, <1>9 DEF WalkFirst, Whole

LEMMA EndedKeeps ==
    ASSUME NEW w, NEW o \in Orders, NEW all, Whole(w, o, all)
    PROVE  Whole(Ended(w, o), Nobody, all)
<1> USE ErrandsAssumption DEF ErrandsAssumption
<1> PICK r : r = Ended(w, o)
  OBVIOUS
<1>0. w \in Bodies /\ Coherent(w, o, all)
  BY DEF Whole, Coherent
<1>1. /\ r \in Bodies /\ r.dirs = w.dirs /\ r.walk = w.walk /\ r.errand = w.errand
      /\ r.action = w.action /\ r.step = w.step /\ r.task = w.task /\ r.timers = w.timers
      /\ r.lane = w.lane /\ r.dropped = w.dropped /\ r.ended = w.ended \cup {o}
  BY <1>0 DEF Ended, Bodies
<1>2. InLane(r) = InLane(w) /\ InTimers(r) = InTimers(w) /\ Over(r) = Over(w) \cup {o}
  BY <1>1 DEF InLane, InTimers, Over
<1>3. Nobody \notin Over(r) \cup InLane(r) \cup InTimers(r)
  BY <1>1 DEF Over, InLane, InTimers, Bodies
<1>4. InOnePlace(r, Nobody, all)
  BY <1>0, <1>1, <1>2, <1>3 DEF Coherent, InOnePlace
<1>5. Remembered(r) /\ Walking(r) /\ Ticks(r) /\ Awaited(r)
  BY <1>0, <1>1 DEF Whole, Coherent, Remembered, Walking, Ticks, Awaited
<1> QED BY <1>1, <1>4, <1>5 DEF Whole, Coherent

LEMMA CarryKeeps ==
    ASSUME NEW w, NEW o \in Orders, NEW all, Whole(w, o, all), FreeIds(w) # {}, NEW possible \in BOOLEAN
    PROVE  Whole(Carry(w, o, possible), Nobody, all)
<1> PICK v, y : v = NoNextAction(w) /\ y = StopWalk(v)
  OBVIOUS
<1> PICK x : x = [y EXCEPT !.ready = FALSE]
  OBVIOUS
<1>1. Whole(v, o, all)
  BY NoNextActionKeeps DEF Whole
<1>2. v.place = w.place
  BY NoNextActionKeeps DEF Forgets, Whole
<1>3. Whole(y, o, all) /\ y \in Bodies
  BY <1>1, StopWalkKeeps DEF Whole, Coherent
<1>4. Alike(y, x)
  BY <1>3 DEF Alike, Bodies
<1>5. Whole(x, o, all)
  BY <1>3, <1>4, AlikeKeeps DEF Whole
<1>6. Whole(SetNextAction(w, Errand(o)), Nobody, all)
  BY SetNextActionKeeps
<1>7. Whole(Ended(w, o), Nobody, all) /\ Whole(Ended(v, o), Nobody, all) /\ Whole(Ended(x, o), Nobody, all)
  BY <1>1, <1>5, EndedKeeps
<1>8. w.place # PlaceOf[o] => Whole(WalkFirst(w, o), Nobody, all) /\ Whole(WalkFirst(v, o), Nobody, all)
  BY <1>1, <1>2, WalkFirstKeeps
<1>9. Carry(w, o, possible) \in {SetNextAction(w, Errand(o)), Ended(w, o), Ended(v, o), Ended(x, o)}
         \/ (w.place # PlaceOf[o] /\ Carry(w, o, possible) \in {WalkFirst(w, o), WalkFirst(v, o)})
  <2>0. w.ready \in BOOLEAN
    BY DEF Whole, Coherent, Bodies
  <2>1. KindOf[o] \in {"move", "use", "plain"}
    BY ErrandsAssumption DEF ErrandsAssumption
  <2>2. CASE KindOf[o] = "move"
    BY <2>0, <2>2 DEF Carry, PlayerMoveItem
  <2>3. CASE KindOf[o] = "use"
    BY <2>0, <2>3 DEF Carry, PlayerUseItem
  <2>4. CASE KindOf[o] = "plain"
    BY <2>0, <2>4 DEF Carry, PlayerRotateItem
  <2> QED BY <2>1, <2>2, <2>3, <2>4
<1> QED BY <1>6, <1>7, <1>8, <1>9

LEMMA PlayerAttackKeeps ==
    ASSUME NEW w, NEW hand, NEW all, Whole(w, hand, all), FreeIds(w) # {}
    PROVE  Whole(PlayerAttack(w), hand, all)
BY SetNextActionKeeps DEF PlayerAttack

\* The task at the head of the list runs, with its order in hand.
LEMMA RunTaskKeeps ==
    ASSUME NEW w, NEW all, NEW t \in LaneTasks,
           NEW hand, hand = IF t.what = "errand" THEN t.order ELSE Nobody,
           Coherent(w, hand, all), Walking(w),
           t # WalkTick => Ticks(w), t.what # "auto" => Awaited(w),
           TwoFree(w), NEW outcome, NEW possible \in BOOLEAN
    PROVE  Whole(RunTask(w, t, outcome, possible), Nobody, all)
<1>0. FreeIds(w) # {}
  BY DEF TwoFree
<1>1. CASE t = WalkTick
  <2>1. t.what = "walk"
    BY <1>1, TaskKinds
  <2>2. RunTask(w, t, outcome, possible) = OnWalk(w, outcome)
    BY <2>1 DEF RunTask
  <2> QED BY <2>1, <2>2, OnWalkKeeps
<1>2. CASE t = AttackTask
  <2>1. t.what = "attack" /\ t # WalkTick
    BY <1>2, TaskKinds
  <2>2. RunTask(w, t, outcome, possible) = PlayerAttack(w)
    BY <2>1 DEF RunTask
  <2> QED BY <1>0, <2>1, <2>2, PlayerAttackKeeps DEF Whole
<1>3. CASE t = StopTaskWalk
  <2>1. t.what = "stop" /\ t # WalkTick
    BY <1>3, TaskKinds
  <2>2. RunTask(w, t, outcome, possible) = StopWalk(w)
    BY <2>1 DEF RunTask
  <2> QED BY <2>1, <2>2, StopWalkKeeps DEF Whole
<1>4. ASSUME NEW o \in Orders, t = Errand(o) PROVE Whole(RunTask(w, t, outcome, possible), Nobody, all)
  <2>1. t.what = "errand" /\ t.order = o /\ t # WalkTick
    BY <1>4, TaskKinds
  <2>2. RunTask(w, t, outcome, possible) = Carry(w, o, possible)
    BY <2>1 DEF RunTask
  <2>3. hand = o /\ Whole(w, o, all)
    BY <2>1 DEF Whole
  <2> QED BY <1>0, <2>2, <2>3, CarryKeeps
<1>5. ASSUME NEW d \in Directions, t = StepTask(d) PROVE Whole(RunTask(w, t, outcome, possible), Nobody, all)
  <2>1. t.what = "step" /\ t.dir = d /\ t # WalkTick
    BY <1>5, TaskKinds
  <2>2. RunTask(w, t, outcome, possible) = PlayerMove(w, d, outcome)
    BY <2>1 DEF RunTask
  <2> QED BY <1>0, <2>1, <2>2, PlayerMoveKeeps DEF Whole
<1>6. ASSUME NEW l \in Paths, t = AutoWalk(l) PROVE Whole(RunTask(w, t, outcome, possible), Nobody, all)
  <2>1. t.what = "auto" /\ t.path = l /\ t # WalkTick
    BY <1>6, TaskKinds
  <2>2. RunTask(w, t, outcome, possible) = PlayerAutoWalk(w, l)
    BY <2>1 DEF RunTask
  <2> QED BY <1>0, <2>1, <2>2, PlayerAutoWalkKeeps
<1> QED BY <1>1, <1>2, <1>3, <1>4, <1>5, <1>6, LaneKinds

-----------------------------------------------------------------------------
(* The steps.                                                              *)

ErrandsInv == Whole(Player, Nobody, given) /\ packets \in 0 .. MaxPackets

LEMMA PlayerFields ==
    /\ Player.place = place /\ Player.dirs = listWalkDir /\ Player.walk = eventWalk
    /\ Player.errand = walkTaskEvent /\ Player.action = actionTaskEvent
    /\ Player.step = nextStepEvent /\ Player.task = walkTask /\ Player.timers = timers
    /\ Player.lane = lane /\ Player.rested = rested /\ Player.ready = ready
    /\ Player.dropped = dropped /\ Player.ended = ended
BY DEF Player

LEMMA PlayerFieldsAfter ==
    /\ Player'.place = place' /\ Player'.dirs = listWalkDir' /\ Player'.walk = eventWalk'
    /\ Player'.errand = walkTaskEvent' /\ Player'.action = actionTaskEvent'
    /\ Player'.step = nextStepEvent' /\ Player'.task = walkTask' /\ Player'.timers = timers'
    /\ Player'.lane = lane' /\ Player'.rested = rested' /\ Player'.ready = ready'
    /\ Player'.dropped = dropped' /\ Player'.ended = ended'
BY DEF Player

LEMMA PlayerIsBody ==
    Player \in Bodies <=>
        /\ place \in 0 .. LastPlace /\ listWalkDir \in Seq(Directions)
        /\ eventWalk \in EventIds \cup {0} /\ walkTaskEvent \in EventIds \cup {0}
        /\ actionTaskEvent \in EventIds \cup {0} /\ nextStepEvent \in EventIds \cup {0}
        /\ walkTask \in Orders \cup {Nobody}
        /\ timers \in SUBSET [id : EventIds, task : EventTasks]
        /\ lane \in Seq(LaneTasks) /\ rested \in BOOLEAN /\ ready \in BOOLEAN
        /\ dropped \in SUBSET Orders /\ ended \in SUBSET Orders
BY DEF Player, Bodies

\* A task more at the end of the list.
LEMMA LaneLonger ==
    ASSUME NEW w, NEW hand, NEW all, Whole(w, hand, all), NEW t \in LaneTasks, t.what # "errand",
           NEW r \in Bodies, r.lane = Append(w.lane, t),
           r.dirs = w.dirs, r.walk = w.walk, r.errand = w.errand, r.action = w.action,
           r.step = w.step, r.task = w.task, r.timers = w.timers, r.dropped = w.dropped,
           r.ended = w.ended
    PROVE  Whole(r, hand, all)
<1> PICK q : q = Append(w.lane, t)
  OBVIOUS
<1>0. w \in Bodies /\ w.lane \in Seq(LaneTasks) /\ Coherent(w, hand, all)
  BY DEF Whole, Coherent, Bodies
<1>2. /\ DOMAIN w.lane = 1 .. Len(w.lane)
      /\ DOMAIN q = DOMAIN w.lane \cup {Len(w.lane) + 1}
      /\ \A k \in DOMAIN w.lane : q[k] = w.lane[k]
      /\ q[Len(w.lane) + 1] = t
  BY <1>0, Appended
<1>4. InLane(r) = InLane(w) /\ InTimers(r) = InTimers(w) /\ Over(r) = Over(w)
  BY <1>2, TaskKinds DEF InLane, InTimers, Over
<1>5. \A k, n \in DOMAIN r.lane : r.lane[k].what = "errand" /\ r.lane[k] = r.lane[n] => k = n
  BY <1>0, <1>2 DEF Coherent, InOnePlace
<1>6. InOnePlace(r, hand, all)
  BY <1>0, <1>4, <1>5 DEF Coherent, InOnePlace
<1> QED BY <1>0, <1>2, <1>6 DEF Whole, Coherent, Remembered, Walking, Ticks, Awaited

\* An order more at the end of the list, which was nowhere before.
LEMMA LaneOrder ==
    ASSUME NEW w, NEW all, Whole(w, Nobody, all), NEW o \in Orders \ all,
           NEW r \in Bodies, r.lane = Append(w.lane, Errand(o)),
           r.dirs = w.dirs, r.walk = w.walk, r.errand = w.errand, r.action = w.action,
           r.step = w.step, r.task = w.task, r.timers = w.timers, r.dropped = w.dropped,
           r.ended = w.ended
    PROVE  Whole(r, Nobody, all \cup {o})
<1> USE ErrandsAssumption DEF ErrandsAssumption
<1> PICK t : t = Errand(o)
  OBVIOUS
<1> PICK q : q = Append(w.lane, t)
  OBVIOUS
<1>0. /\ w \in Bodies /\ w.lane \in Seq(LaneTasks) /\ Coherent(w, Nobody, all) /\ t \in LaneTasks
      /\ t.what = "errand"
  BY TaskKinds DEF Whole, Coherent, Bodies
<1>2. /\ DOMAIN w.lane = 1 .. Len(w.lane)
      /\ DOMAIN q = DOMAIN w.lane \cup {Len(w.lane) + 1}
      /\ \A k \in DOMAIN w.lane : q[k] = w.lane[k]
      /\ q[Len(w.lane) + 1] = t
  BY <1>0, Appended
<1>3. o \notin Over(w) \cup InLane(w) \cup InTimers(w) /\ o # w.task
  BY <1>0 DEF Coherent, InOnePlace
<1>4. InLane(r) = InLane(w) \cup {o} /\ InTimers(r) = InTimers(w) /\ Over(r) = Over(w)
  BY <1>2, TaskKinds DEF InLane, InTimers, Over
<1>5. \A k, n \in DOMAIN r.lane : r.lane[k].what = "errand" /\ r.lane[k] = r.lane[n] => k = n
  <2>1. \A k \in DOMAIN w.lane : w.lane[k] # t
    BY <1>3 DEF InLane
  <2>2. \A k, n \in DOMAIN w.lane : w.lane[k].what = "errand" /\ w.lane[k] = w.lane[n] => k = n
    BY <1>0 DEF Coherent, InOnePlace
  <2> QED BY <1>2, <2>1, <2>2
<1>6. InOnePlace(r, Nobody, all \cup {o})
  BY <1>0, <1>3, <1>4, <1>5 DEF Coherent, InOnePlace
<1> QED BY <1>0, <1>2, <1>6 DEF Whole, Coherent, Remembered, Walking, Ticks, Awaited

\* An event goes to the end of the list.
LEMMA Fired ==
    ASSUME NEW w, NEW all, Whole(w, Nobody, all), NEW e \in w.timers,
           NEW r \in Bodies, r.lane = Append(w.lane, e.task), r.timers = w.timers \ {e},
           r.dirs = w.dirs, r.walk = w.walk, r.errand = w.errand, r.action = w.action,
           r.step = w.step, r.task = w.task, r.dropped = w.dropped,
           r.ended = w.ended
    PROVE  Whole(r, Nobody, all)
<1> PICK t : t = e.task
  OBVIOUS
<1> PICK q : q = Append(w.lane, t)
  OBVIOUS
<1>0. /\ w \in Bodies /\ w.lane \in Seq(LaneTasks) /\ Coherent(w, Nobody, all) /\ t \in LaneTasks
      /\ t \in EventTasks
  BY TaskKinds DEF Whole, Coherent, Bodies
<1>2. /\ DOMAIN w.lane = 1 .. Len(w.lane)
      /\ DOMAIN q = DOMAIN w.lane \cup {Len(w.lane) + 1}
      /\ \A k \in DOMAIN w.lane : q[k] = w.lane[k]
      /\ q[Len(w.lane) + 1] = t
  BY <1>0, Appended
<1>3. Over(r) = Over(w)
  BY DEF Over
<1>4. /\ InLane(w) \subseteq InLane(r) /\ InTimers(r) \subseteq InTimers(w)
      /\ \A o \in InLane(r) : o \in InLane(w) \/ o \in InTimers(w)
      /\ \A o \in InTimers(w) : o \in InTimers(r) \/ o \in InLane(r)
  BY <1>2 DEF InLane, InTimers
<1>5. \A f, g \in w.timers : f.task.what = "errand" /\ f.task = g.task => f = g
  BY <1>0 DEF Coherent, InOnePlace
<1>6. InLane(r) \cap InTimers(r) = {}
  <2>1. ASSUME NEW o \in Orders, o \in InLane(r), o \in InTimers(r) PROVE FALSE
    <3>1. PICK f \in w.timers : f # e /\ f.task = Errand(o)
      BY <2>1 DEF InTimers
    <3>2. f.task.what = "errand"
      BY <3>1, TaskKinds
    <3>3. o \notin InLane(w)
      BY <1>0, <1>4, <2>1 DEF Coherent, InOnePlace
    <3>4. t = Errand(o)
      BY <1>2, <2>1, <3>3 DEF InLane
    <3> QED BY <1>5, <3>1, <3>2, <3>4
  <2> QED BY <2>1 DEF InLane
<1>7. \A k, n \in DOMAIN r.lane : r.lane[k].what = "errand" /\ r.lane[k] = r.lane[n] => k = n
  <2>1. ASSUME NEW k \in DOMAIN w.lane, w.lane[k] = t, t.what = "errand" PROVE FALSE
    <3>1. PICK o \in Orders : t = Errand(o)
      BY <1>0, <2>1, ErrandTasks
    <3>2. o \in InLane(w) /\ o \in InTimers(w)
      BY <2>1, <3>1 DEF InLane, InTimers
    <3> QED BY <1>0, <3>2 DEF Coherent, InOnePlace
  <2>2. \A k, n \in DOMAIN w.lane : w.lane[k].what = "errand" /\ w.lane[k] = w.lane[n] => k = n
    BY <1>0 DEF Coherent, InOnePlace
  <2> QED BY <1>2, <2>1, <2>2
<1>8. InOnePlace(r, Nobody, all)
  <2>1. Over(w) \cap InLane(r) = {} /\ w.task \notin InLane(r) /\ Nobody \notin InLane(r)
    BY <1>0, <1>4 DEF Coherent, InOnePlace
  <2>2. Over(w) \cup InLane(w) \cup InTimers(w) = Over(r) \cup InLane(r) \cup InTimers(r)
    BY <1>3, <1>4
  <2>3. /\ all = Over(w) \cup InLane(w) \cup InTimers(w) \cup (({w.task} \cup {Nobody}) \ {Nobody})
        /\ (Over(w) \cup InLane(w)) \cap InTimers(w) = {}
        /\ w.task \notin Over(w) \cup InLane(w) \cup InTimers(w)
        /\ Nobody \notin Over(w) \cup InLane(w) \cup InTimers(w)
    BY <1>0 DEF Coherent, InOnePlace
  <2>4. \A f, g \in r.timers : f.task.what = "errand" /\ f.task = g.task => f = g
    BY <1>5
  <2> QED BY <1>3, <1>4, <1>6, <1>7, <2>1, <2>2, <2>3, <2>4 DEF InOnePlace
<1>9. Ticks(r)
  <2>1. CASE w.walk # 0 /\ \E f \in w.timers : f.id = w.walk /\ f.task = WalkTick
    BY <1>2, <2>1 DEF Ticks
  <2>2. CASE w.walk # 0 /\ \E k \in DOMAIN w.lane : w.lane[k] = WalkTick
    BY <1>2, <2>2 DEF Ticks
  <2> QED BY <2>1, <2>2 DEF Whole, Ticks
<1>10. Awaited(r)
  BY <1>2 DEF Whole, Awaited
<1> QED BY <1>0, <1>8, <1>9, <1>10 DEF Whole, Coherent, Remembered, Walking

\* The first task of the list is taken in hand.
LEMMA LaneTaken ==
    ASSUME NEW w, NEW all, Whole(w, Nobody, all), w.lane # <<>>,
           NEW r, r = [w EXCEPT !.lane = Tail(@)],
           NEW t, t = Head(w.lane),
           NEW hand, hand = IF t.what = "errand" THEN t.order ELSE Nobody
    PROVE  /\ t \in LaneTasks /\ Coherent(r, hand, all) /\ Walking(r)
           /\ t # WalkTick => Ticks(r)
           /\ t.what # "auto" => Awaited(r)
           /\ FreeIds(r) = FreeIds(w)
<1> USE ErrandsAssumption DEF ErrandsAssumption
<1> PICK q : q = Tail(w.lane)
  OBVIOUS
<1>0. w \in Bodies /\ w.lane \in Seq(LaneTasks) /\ Coherent(w, Nobody, all)
  BY DEF Whole, Coherent, Bodies
<1>1. /\ t \in LaneTasks /\ q \in Seq(LaneTasks) /\ t = w.lane[1] /\ 1 \in DOMAIN w.lane
      /\ \A k \in DOMAIN q : k + 1 \in DOMAIN w.lane /\ q[k] = w.lane[k + 1] /\ k + 1 # 1
      /\ \A k \in DOMAIN w.lane : k = 1 \/ (k - 1 \in DOMAIN q /\ w.lane[k] = q[k - 1])
      /\ \A k \in DOMAIN q : k \in Nat
  BY <1>0
<1>3. /\ r \in Bodies /\ r.dirs = w.dirs /\ r.walk = w.walk /\ r.errand = w.errand
      /\ r.action = w.action /\ r.step = w.step /\ r.task = w.task /\ r.timers = w.timers
      /\ r.lane = q /\ r.dropped = w.dropped /\ r.ended = w.ended
  BY <1>0, <1>1 DEF Bodies
<1>4. InTimers(r) = InTimers(w) /\ Over(r) = Over(w)
  BY <1>3 DEF InTimers, Over
<1>5. \A k, n \in DOMAIN w.lane : w.lane[k].what = "errand" /\ w.lane[k] = w.lane[n] => k = n
  BY <1>0 DEF Coherent, InOnePlace
<1>6. \A k, n \in DOMAIN q : q[k].what = "errand" /\ q[k] = q[n] => k = n
  BY <1>1, <1>5, SMTT(30)
<1>7. /\ InLane(r) \subseteq InLane(w) /\ \A o \in InLane(w) : o \in InLane(r) \/ t = Errand(o)
  BY ONLY <1>1, <1>3 DEF InLane
<1>8. Nobody \notin Over(r) \cup InLane(r) \cup InTimers(r)
  BY <1>3 DEF Over, InLane, InTimers, Bodies
<1>9. InOnePlace(r, hand, all)
  <2>1. CASE t.what = "errand"
    <3>1. PICK o \in Orders : t = Errand(o)
      BY <1>1, <2>1, ErrandTasks
    <3>2. hand = o /\ o \in InLane(w)
      BY <1>1, <2>1, <3>1, TaskKinds DEF InLane
    <3>3. o \notin InLane(r)
      <4>1. ASSUME NEW k \in DOMAIN q, q[k] = Errand(o) PROVE FALSE
        BY <1>1, <1>5, <2>1, <3>1, <4>1
      <4> QED BY <1>3, <4>1 DEF InLane
    <3>4. InLane(w) = InLane(r) \cup {o}
      BY <1>7, <3>1, <3>2, TaskKinds DEF InLane
    <3>5. /\ all = Over(w) \cup InLane(w) \cup InTimers(w) \cup (({w.task} \cup {Nobody}) \ {Nobody})
          /\ Over(w) \cap InLane(w) = {} /\ (Over(w) \cup InLane(w)) \cap InTimers(w) = {}
          /\ w.task \notin Over(w) \cup InLane(w) \cup InTimers(w)
          /\ \A e, f \in w.timers : e.task.what = "errand" /\ e.task = f.task => e = f
      BY <1>0 DEF Coherent, InOnePlace
    <3>6. Nobody \notin Orders
      BY ErrandsAssumption
    <3> QED BY ONLY <1>3, <1>4, <1>6, <1>8, <3>1, <3>2, <3>3, <3>4, <3>5, <3>6 DEF InOnePlace
  <2>2. CASE t.what # "errand"
    <3>1. InLane(r) = InLane(w)
      BY <1>7, <2>2, TaskKinds DEF InLane
    <3>2. hand = Nobody
      BY <2>2
    <3> QED BY ONLY <1>0, <1>3, <1>4, <1>6, <3>1, <3>2 DEF Coherent, InOnePlace
  <2> QED BY <2>1, <2>2
<1>10. t # WalkTick => Ticks(r)
  <2>1. Ticks(w)
    BY DEF Whole
  <2> QED BY ONLY <1>1, <1>3, <2>1 DEF Ticks
<1>11. t.what # "auto" => Awaited(r)
  <2>1. Awaited(w)
    BY DEF Whole
  <2> QED BY ONLY <1>1, <1>3, <2>1 DEF Awaited
<1>12. Walking(r) /\ Remembered(r) /\ FreeIds(r) = FreeIds(w)
  BY <1>0, <1>3 DEF Whole, Coherent, Walking, Remembered, FreeIds
<1> QED BY <1>1, <1>3, <1>9, <1>10, <1>11, <1>12 DEF Coherent

LEMMA RunKeeps ==
    ASSUME ErrandsInv, NEW outcome, NEW possible \in BOOLEAN, Run(outcome, possible)
    PROVE  ErrandsInv'
<1> PICK p, t : p = [Player EXCEPT !.lane = Tail(@)] /\ t = Head(lane)
  OBVIOUS
<1> PICK hand : hand = IF t.what = "errand" THEN t.order ELSE Nobody
  OBVIOUS
<1> PICK w : w = RunTask(p, t, outcome, possible)
  OBVIOUS
<1>1. Whole(Player, Nobody, given) /\ Player.lane = lane /\ lane # <<>>
  BY PlayerFields DEF ErrandsInv, Run
<1>2. /\ t \in LaneTasks /\ Coherent(p, hand, given) /\ Walking(p)
      /\ t # WalkTick => Ticks(p)
      /\ t.what # "auto" => Awaited(p)
      /\ FreeIds(p) = FreeIds(Player)
  BY <1>1, LaneTaken
<1>3. TwoFree(p)
  <2>1. IsFiniteSet(FreeIds(Player)) /\ Cardinality(FreeIds(Player)) > 1
    <3>1. FreeIds(Player) \subseteq EventIds /\ IsFiniteSet(EventIds)
      BY ErrandsAssumption DEF ErrandsAssumption, FreeIds
    <3> QED BY <3>1, FS_Subset DEF Run
  <2>2. FreeIds(Player) # {}
    BY <2>1, FS_EmptySet
  <2>3. PICK a : a \in FreeIds(Player)
    BY <2>2
  <2>4. FreeIds(Player) # {a}
    <3>1. Cardinality(FreeIds(Player)) # 1
      BY <2>1
    <3> QED BY <2>1, <3>1, FS_Singleton
  <2>5. PICK b \in FreeIds(Player) : b # a
    BY <2>3, <2>4
  <2> QED BY <1>2, <2>3, <2>5 DEF TwoFree
<1>4. Whole(w, Nobody, given)
  BY <1>2, <1>3, RunTaskKeeps
<1>5. SetPlayer(w) /\ given' = given
  BY DEF Run
<1>6. Player' = w
  BY <1>4, <1>5 DEF Player, SetPlayer, Whole, Coherent, Bodies
<1>7. packets' \in 0 .. MaxPackets
  BY ErrandsAssumption DEF ErrandsAssumption, ErrandsInv, Run
<1> QED BY <1>4, <1>5, <1>6, <1>7 DEF ErrandsInv

LEMMA ErrandsStep ==
    ASSUME ErrandsInv, [ErrandsNext]_errandVars
    PROVE  ErrandsInv'
<1> USE PlayerFields, PlayerFieldsAfter
<1>0. Whole(Player, Nobody, given) /\ Player \in Bodies /\ packets \in 0 .. MaxPackets /\ MaxPackets \in Nat
  BY ErrandsAssumption DEF ErrandsInv, Whole, Coherent, ErrandsAssumption
<1>1. ASSUME NEW o \in Orders, Give(o) PROVE ErrandsInv'
  <2>1. Errand(o) \in LaneTasks
    BY TaskKinds
  <2>2. Append(lane, Errand(o)) \in Seq(LaneTasks)
    BY <1>0, <2>1, PlayerIsBody, Appended
  <2>3. Player' \in Bodies
    BY <1>0, <1>1, <2>2, PlayerIsBody DEF Give, Player, Bodies
  <2>4. Whole(Player', Nobody, given \cup {o})
    BY <1>0, <1>1, <2>3, LaneOrder DEF Give
  <2> QED BY <1>0, <1>1, <2>4 DEF Give, ErrandsInv
<1>2. ASSUME NEW t \in LaneTasks, t.what # "errand", Packet(t) PROVE ErrandsInv'
  <2>2. Append(lane, t) \in Seq(LaneTasks)
    BY <1>0, PlayerIsBody, Appended
  <2>3. Player' \in Bodies
    BY <1>0, <1>2, <2>2, PlayerIsBody DEF Packet, Player, Bodies
  <2>4. Whole(Player', Nobody, given)
    BY <1>0, <1>2, <2>3, LaneLonger DEF Packet
  <2> QED BY <1>0, <1>2, <2>4 DEF Packet, ErrandsInv
<1>3. ASSUME NEW e \in timers, Fire(e) PROVE ErrandsInv'
  <2>1. e.task \in LaneTasks
    BY <1>0, PlayerIsBody, TaskKinds
  <2>2. Append(lane, e.task) \in Seq(LaneTasks)
    BY <1>0, <2>1, PlayerIsBody, Appended
  <2>3. Player' \in Bodies
    BY <1>0, <1>3, <2>2, PlayerIsBody DEF Fire, Player, Bodies
  <2>4. Whole(Player', Nobody, given)
    BY <1>0, <1>3, <2>3, Fired DEF Fire
  <2> QED BY <1>0, <1>3, <2>4 DEF Fire, ErrandsInv
<1>4. ASSUME Rest \/ BeReady PROVE ErrandsInv'
  <2>1. Player' \in Bodies
    BY <1>0, <1>4, PlayerIsBody, ZenonT(30) DEF Rest, BeReady, Player, Bodies
  <2>2. Alike(Player, Player')
    BY <1>4, <2>1 DEF Rest, BeReady, Alike
  <2>3. Whole(Player', Nobody, given)
    BY <1>0, <2>2, AlikeKeeps DEF Whole
  <2> QED BY <1>0, <1>4, <2>3 DEF Rest, BeReady, ErrandsInv
<1>5. ASSUME UNCHANGED errandVars PROVE ErrandsInv'
  <2>1. Player' = Player /\ given' = given /\ packets' = packets
    BY <1>5 DEF errandVars, Player
  <2> QED BY <1>0, <2>1 DEF ErrandsInv
<1>6. ASSUME NEW outcome \in Outcomes, NEW possible \in BOOLEAN, Run(outcome, possible) PROVE ErrandsInv'
  BY <1>6, RunKeeps
<1>7. /\ \A d \in Directions : StepTask(d) \in LaneTasks /\ StepTask(d).what # "errand"
      /\ \A l \in Paths : AutoWalk(l) \in LaneTasks /\ AutoWalk(l).what # "errand"
      /\ StopTaskWalk \in LaneTasks /\ StopTaskWalk.what # "errand"
      /\ AttackTask \in LaneTasks /\ AttackTask.what # "errand"
  BY TaskKinds
<1> QED BY <1>1, <1>2, <1>3, <1>4, <1>5, <1>6, <1>7 DEF ErrandsNext

LEMMA ErrandsStart == ErrandsInit => ErrandsInv
<1> SUFFICES ASSUME ErrandsInit PROVE ErrandsInv
  OBVIOUS
<1> USE ErrandsAssumption, PlayerFields DEF ErrandsAssumption
<1>1. Player \in Bodies
  BY PlayerIsBody DEF ErrandsInit
<1>2. Over(Player) = {} /\ InLane(Player) = {} /\ InTimers(Player) = {}
  BY DEF ErrandsInit, Over, InLane, InTimers
<1>3. InOnePlace(Player, Nobody, {}) /\ Remembered(Player)
  BY <1>2 DEF ErrandsInit, InOnePlace, Remembered
<1>4. Walking(Player) /\ Ticks(Player) /\ Awaited(Player)
  BY DEF ErrandsInit, Walking, Ticks, Awaited
<1> QED BY <1>1, <1>3, <1>4 DEF ErrandsInit, ErrandsInv, Whole, Coherent

LEMMA AtMostOne ==
    ASSUME NEW S, \A a, b \in S : a = b
    PROVE  S = {} \/ \E a : S = {a}
OBVIOUS

\* An order that waits in one place once has one copy.
LEMMA Copies ==
    ASSUME ErrandsInv PROVE OneCopy
<1> USE PlayerFields
<1> SUFFICES ASSUME NEW o \in given
             PROVE  CopiesOf(o) = IF o \in ended \cup dropped THEN 0 ELSE 1
  BY DEF OneCopy
<1> DEFINE inTimers == {e \in timers : e.task = Errand(o)}
           inLane == {k \in DOMAIN lane : lane[k] = Errand(o)}
<1>1. /\ InOnePlace(Player, Nobody, given) /\ Player \in Bodies
  BY DEF ErrandsInv, Whole, Coherent
<1>2. /\ given = Over(Player) \cup InLane(Player) \cup InTimers(Player) \cup ({walkTask} \ {Nobody})
      /\ Over(Player) \cap InLane(Player) = {}
      /\ (Over(Player) \cup InLane(Player)) \cap InTimers(Player) = {}
      /\ walkTask \notin Over(Player) \cup InLane(Player) \cup InTimers(Player)
      /\ Over(Player) = ended \cup dropped
  BY <1>1 DEF InOnePlace, Over
<1>3. o \in Orders
  BY <1>1, <1>2, PlayerIsBody DEF Over, InLane, InTimers
<1>4. Errand(o).what = "errand"
  BY <1>3, TaskKinds
<1>5. /\ inTimers = {} \/ \E e : inTimers = {e}
      /\ inLane = {} \/ \E k : inLane = {k}
      /\ inTimers # {} <=> o \in InTimers(Player)
      /\ inLane # {} <=> o \in InLane(Player)
  <2>1. \A e, f \in inTimers : e = f
    BY <1>1, <1>4 DEF InOnePlace
  <2>2. \A k, n \in inLane : k = n
    BY <1>1, <1>4 DEF InOnePlace
  <2>3. inTimers # {} <=> o \in InTimers(Player)
    BY <1>3 DEF InTimers
  <2>4. inLane # {} <=> o \in InLane(Player)
    BY <1>3 DEF InLane
  <2> HIDE DEF inTimers, inLane
  <2>5. inTimers = {} \/ \E e : inTimers = {e}
    BY <2>1, AtMostOne
  <2>6. inLane = {} \/ \E k : inLane = {k}
    BY <2>2, AtMostOne
  <2> QED BY <2>3, <2>4, <2>5, <2>6
<1>6. CopiesOf(o) = (IF walkTask = o THEN 1 ELSE 0) + Cardinality(inTimers) + Cardinality(inLane)
  BY DEF CopiesOf
<1> HIDE DEF inTimers, inLane
<1>7. /\ Cardinality(inTimers) = IF o \in InTimers(Player) THEN 1 ELSE 0
      /\ Cardinality(inLane) = IF o \in InLane(Player) THEN 1 ELSE 0
  BY <1>5, FS_EmptySet, FS_Singleton
<1> QED BY <1>2, <1>6, <1>7

LEMMA ErrandsHold ==
    ErrandsInv => ErrandsKept
<1> SUFFICES ASSUME ErrandsInv PROVE ErrandsKept
  OBVIOUS
<1> USE PlayerFields
<1>1. Whole(Player, Nobody, given) /\ Player \in Bodies /\ Remembered(Player)
  BY DEF ErrandsInv, Whole, Coherent
<1>2. ErrandsTypeOK
  <2>1. ended \cup dropped \subseteq given /\ given \subseteq Orders
    BY <1>1, PlayerIsBody DEF Whole, Coherent, InOnePlace, Over, InLane, InTimers
  <2> QED BY <1>1, <2>1, PlayerIsBody DEF ErrandsTypeOK, ErrandsInv
<1>3. EventsRemembered
  BY <1>1 DEF Remembered, EventsRemembered
<1>4. WalkGoesOn
  <2>1. \A k \in DOMAIN lane : lane[k] = WalkTick => lane[k].what = "walk"
    BY TaskKinds
  <2> QED BY <1>1, <2>1 DEF Whole, Walking, Ticks, Awaited, WalkGoesOn
<1> QED BY <1>2, <1>3, <1>4, Copies DEF ErrandsKept

\* The inductive invariant of a player's orders: each is in one place, what the player
\* remembers by id is what the scheduler holds, a walk has its event and an order its walk.
THEOREM ErrandsInductive == ErrandsSpec => []ErrandsInv
<1> QED BY ErrandsStart, ErrandsStep, PTL DEF ErrandsSpec

\* setNextActionTask, setNextWalkActionTask, onWalkComplete and onWalkAborted lose no order
\* and carry none out twice, whatever the player does meanwhile.
THEOREM OrdersKept == ErrandsSpec => []ErrandsKept
<1> QED BY ErrandsInductive, ErrandsHold, PTL

-----------------------------------------------------------------------------
(* The waiting list.  A list is part of another when it holds some of its  *)
(* entries in their order.                                                 *)

Entries == [client : Clients, left : Nat]

Once(s) == \A i, j \in DOMAIN s : s[i].client = s[j].client => i = j
Sorted(s) == \A i, j \in DOMAIN s : s[j].client \in Premium /\ i < j => s[i].client \in Premium

Queued(s) == s \in Seq(Entries) /\ Once(s) /\ Sorted(s)

PartOf(r, s, f) ==
    /\ r \in Seq(Entries) /\ f \in [DOMAIN r -> DOMAIN s]
    /\ \A n \in DOMAIN r : r[n] = s[f[n]]
    /\ \A n, m \in DOMAIN r : n < m => f[n] < f[m]

\* An entry of c that lasts at least for a time t.
Lasts(s, c, t) == \E i \in DOMAIN s : s[i].client = c /\ t <= s[i].left

\* Whoever was promised a place has an entry that lasts as long.
Assured(s, promise) == \A c \in Clients : promise[c] > 0 => Lasts(s, c, promise[c])

PlacesInv ==
    /\ online \subseteq Clients /\ promised \in [Clients -> Nat]
    /\ Queued(waitList) /\ Assured(waitList, promised)

LEMMA NthIs ==
    ASSUME NEW S \in SUBSET Nat, IsFiniteSet(S)
    PROVE  /\ Cardinality(S) \in Nat
           /\ \A n \in 1 .. Cardinality(S) : NthOf(S, n) \in S /\ PlaceIn(S, NthOf(S, n)) = n
           /\ \A i \in S : PlaceIn(S, i) \in 1 .. Cardinality(S) /\ NthOf(S, PlaceIn(S, i)) = i
           /\ \A i, j \in S : i < j => PlaceIn(S, i) < PlaceIn(S, j)
<1> DEFINE upTo(i) == {j \in S : j <= i}
           N == Cardinality(S)
           f == [i \in S |-> PlaceIn(S, i)]
<1>1. N \in Nat
  BY FS_CardinalityType
<1>2. ASSUME NEW i \in S PROVE PlaceIn(S, i) \in 1 .. N /\ IsFiniteSet(upTo(i))
  <2>1. upTo(i) \in SUBSET S /\ i \in upTo(i)
    OBVIOUS
  <2> HIDE DEF upTo
  <2>2. IsFiniteSet(upTo(i)) /\ Cardinality(upTo(i)) <= N
    BY <2>1, FS_Subset
  <2>3. Cardinality(upTo(i)) \in Nat /\ Cardinality(upTo(i)) # 0
    BY <2>1, <2>2, FS_CardinalityType, FS_EmptySet
  <2>4. PlaceIn(S, i) = Cardinality(upTo(i))
    BY DEF PlaceIn, upTo
  <2> QED BY <1>1, <2>2, <2>3, <2>4
<1>3. ASSUME NEW i \in S, NEW j \in S, i < j PROVE PlaceIn(S, i) < PlaceIn(S, j)
  <2>0. i \in Nat /\ j \in Nat /\ \A k \in S : k \in Nat
    OBVIOUS
  <2>1. upTo(i) \in SUBSET upTo(j) /\ j \in upTo(j) /\ j \notin upTo(i)
    <3>1. \A k \in Nat : k <= i => k <= j
      BY <1>3, <2>0
    <3>2. j <= j /\ ~(j <= i)
      BY <1>3, <2>0
    <3> QED BY <2>0, <3>1, <3>2
  <2>2. IsFiniteSet(upTo(j))
    BY <1>2
  <2>3. PlaceIn(S, i) = Cardinality(upTo(i)) /\ PlaceIn(S, j) = Cardinality(upTo(j))
    BY DEF PlaceIn
  <2> HIDE DEF upTo
  <2>4. Cardinality(upTo(i)) <= Cardinality(upTo(j)) /\ Cardinality(upTo(i)) # Cardinality(upTo(j))
    BY <2>1, <2>2, FS_Subset
  <2>5. PlaceIn(S, i) \in Nat /\ PlaceIn(S, j) \in Nat
    BY <1>1, <1>2
  <2> QED BY <2>3, <2>4, <2>5
<1>4. \A i, j \in S : PlaceIn(S, i) = PlaceIn(S, j) => i = j
  <2>1. \A i, j \in S : i = j \/ i < j \/ j < i
    OBVIOUS
  <2>2. ASSUME NEW i \in S PROVE PlaceIn(S, i) \in Nat
    <3>1. PlaceIn(S, i) \in 1 .. N
      BY <1>2
    <3> HIDE DEF N
    <3> QED BY <1>1, <3>1
  <2> QED BY <1>3, <2>1, <2>2
<1>5. f \in Injection(S, 1 .. N)
  <2>1. f \in [S -> 1 .. N]
    BY <1>2
  <2>2. IsInjective(f)
    BY <1>4 DEF IsInjective
  <2> QED BY <2>1, <2>2 DEF Injection
<1>6. IsFiniteSet(1 .. N) /\ Cardinality(1 .. N) = N
  BY <1>1, FS_Interval
<1>7. f \in Surjection(S, 1 .. N)
  <2> HIDE DEF f
  <2> QED BY <1>5, <1>6, FS_Injection
<1>8. \A n \in 1 .. N : \E i \in S : PlaceIn(S, i) = n
  BY <1>7 DEF Surjection
<1>9. \A n \in 1 .. N : NthOf(S, n) \in S /\ PlaceIn(S, NthOf(S, n)) = n
  BY <1>8 DEF NthOf
<1> QED BY <1>1, <1>2, <1>3, <1>4, <1>9

\* cleanUpList: what is left is part of the list, and holds all that is in time.
LEMMA CleanedIs ==
    ASSUME NEW s \in Seq(Entries)
    PROVE  \E f : /\ PartOf(CleanUpList(s), s, f)
                  /\ \A i \in InTime(s) : \E n \in DOMAIN CleanUpList(s) : f[n] = i
<1> DEFINE S == InTime(s)
           N == Cardinality(S)
           f == [n \in 1 .. N |-> NthOf(S, n)]
           r == CleanUpList(s)
<1>1. Len(s) \in Nat /\ DOMAIN s = 1 .. Len(s) /\ \A i \in DOMAIN s : s[i] \in Entries
  OBVIOUS
<1>2. S \in SUBSET DOMAIN s
  BY DEF InTime
<1>3. S \in SUBSET Nat /\ IsFiniteSet(S)
  <2>1. IsFiniteSet(DOMAIN s)
    BY <1>1, FS_Interval
  <2> HIDE DEF S
  <2>2. IsFiniteSet(S)
    BY <1>2, <2>1, FS_Subset
  <2> QED BY <1>1, <1>2, <2>2
<1>4. r = [n \in 1 .. N |-> s[NthOf(S, n)]]
  BY DEF CleanUpList
<1> HIDE DEF S, r
<1>5. /\ N \in Nat
      /\ \A n \in 1 .. N : NthOf(S, n) \in S /\ PlaceIn(S, NthOf(S, n)) = n
      /\ \A i \in S : PlaceIn(S, i) \in 1 .. N /\ NthOf(S, PlaceIn(S, i)) = i
      /\ \A i, j \in S : i < j => PlaceIn(S, i) < PlaceIn(S, j)
  BY <1>3, NthIs
<1> HIDE DEF N
<1>6. \A n \in 1 .. N : s[NthOf(S, n)] \in Entries
  BY <1>1, <1>2, <1>5
<1>7. r \in [1 .. N -> Entries]
  BY <1>4, <1>6
<1>8. r \in Seq(Entries) /\ DOMAIN r = 1 .. N
  BY <1>5, <1>7
<1>9. f \in [DOMAIN r -> DOMAIN s] /\ \A n \in DOMAIN r : f[n] = NthOf(S, n) /\ r[n] = s[f[n]]
  BY <1>2, <1>4, <1>5, <1>8
<1>10. ASSUME NEW n \in DOMAIN r, NEW m \in DOMAIN r, n < m PROVE f[n] < f[m]
  <2>1. f[n] \in S /\ f[m] \in S /\ PlaceIn(S, f[n]) = n /\ PlaceIn(S, f[m]) = m
    BY <1>5, <1>8, <1>9
  <2>2. f[n] \in Nat /\ f[m] \in Nat /\ n \in Nat /\ m \in Nat
    <3>1. n \in 1 .. N /\ m \in 1 .. N
      BY <1>8
    <3>2. n \in Nat /\ m \in Nat
      BY <3>1
    <3> HIDE DEF f
    <3>3. f[n] \in Nat /\ f[m] \in Nat
      BY <1>3, <2>1
    <3> QED BY <3>2, <3>3
  <2>3. ~(f[m] < f[n]) /\ f[m] # f[n]
    BY <1>5, <1>10, <2>1, <2>2
  <2> QED BY <2>2, <2>3
<1>11. \A i \in S : \E n \in DOMAIN r : f[n] = i
  BY <1>5, <1>8, <1>9
<1>12. PartOf(r, s, f)
  BY <1>8, <1>9, <1>10 DEF PartOf
<1> QED BY <1>11, <1>12 DEF r, S

LEMMA PartIsQueued ==
    ASSUME NEW s, NEW r, NEW f, Queued(s), PartOf(r, s, f) PROVE Queued(r)
<1>1. \A n, m \in DOMAIN r : n # m => f[n] # f[m]
  <2>1. DOMAIN r = 1 .. Len(r) /\ Len(r) \in Nat /\ DOMAIN s = 1 .. Len(s) /\ Len(s) \in Nat
    BY DEF PartOf, Queued
  <2>2. \A n, m \in DOMAIN r : n = m \/ n < m \/ m < n
    BY <2>1
  <2>3. \A n \in DOMAIN r : f[n] \in Nat
    BY <2>1 DEF PartOf
  <2> QED BY <2>2, <2>3 DEF PartOf
<1>2. Once(r)
  BY <1>1 DEF Queued, Once, PartOf
<1>3. Sorted(r)
  BY DEF Queued, Sorted, PartOf
<1> QED BY <1>2, <1>3 DEF Queued, PartOf

\* What is left in a part keeps its order.
LEMMA PartKeepsOrder ==
    ASSUME NEW s, NEW r, NEW f, Queued(s), PartOf(r, s, f), NEW c, NEW d,
           Before(s, DOMAIN s, c, d), {c, d} \subseteq Listed(r)
    PROVE  Before(r, DOMAIN r, c, d)
<1>1. PICK i, j \in DOMAIN s : i < j /\ s[i].client = c /\ s[j].client = d
  BY DEF Before
<1>2. PICK n, m \in DOMAIN r : r[n].client = c /\ r[m].client = d
  BY DEF Listed
<1>3. f[n] = i /\ f[m] = j
  BY <1>1, <1>2 DEF Queued, Once, PartOf
<1>4. n \in Nat /\ m \in Nat /\ i \in Nat /\ j \in Nat
  BY DEF Queued, PartOf
<1>5. n < m
  BY <1>1, <1>3, <1>4 DEF PartOf
<1> QED BY <1>2, <1>5 DEF Before

LEMMA WholeKeepsOrder ==
    ASSUME NEW s, NEW r, NEW f, PartOf(r, s, f), NEW c, NEW d, Before(r, DOMAIN r, c, d)
    PROVE  Before(s, DOMAIN s, c, d)
BY DEF Before, PartOf

\* The order and the promises that cleanUpList keeps.
LEMMA CleaningKeeps ==
    ASSUME NEW s, Queued(s)
    PROVE  /\ Queued(CleanUpList(s))
           /\ \A c, d : Before(s, InTime(s), c, d) => Before(CleanUpList(s), DOMAIN CleanUpList(s), c, d)
           /\ \A c : \A t \in Nat : t > 0 /\ Lasts(s, c, t) => Lasts(CleanUpList(s), c, t)
<1> PICK r : r = CleanUpList(s)
  OBVIOUS
<1>1. PICK f : PartOf(r, s, f) /\ \A i \in InTime(s) : \E n \in DOMAIN r : f[n] = i
  BY CleanedIs DEF Queued
<1>2. Queued(r)
  BY <1>1, PartIsQueued
<1>3. ASSUME NEW c, NEW d, Before(s, InTime(s), c, d) PROVE Before(r, DOMAIN r, c, d)
  <2>1. PICK i, j \in InTime(s) : i < j /\ s[i].client = c /\ s[j].client = d
    BY <1>3 DEF Before
  <2>2. PICK n, m \in DOMAIN r : f[n] = i /\ f[m] = j
    BY <1>1
  <2>3. n \in Nat /\ m \in Nat /\ i \in Nat /\ j \in Nat
    BY <1>2 DEF Queued, InTime
  <2>4. n < m
    BY <1>1, <2>1, <2>2, <2>3 DEF PartOf
  <2> QED BY <1>1, <2>1, <2>2, <2>4 DEF Before, PartOf
<1>4. ASSUME NEW c, NEW t \in Nat, t > 0, Lasts(s, c, t) PROVE Lasts(r, c, t)
  <2>1. PICK i \in DOMAIN s : s[i].client = c /\ t <= s[i].left
    BY <1>4 DEF Lasts
  <2>2. s[i].left \in Nat
    <3>1. s[i] \in Entries
      BY DEF Queued
    <3> QED BY <3>1 DEF Entries
  <2>3. i \in InTime(s)
    BY <1>4, <2>1, <2>2 DEF InTime
  <2> QED BY <1>1, <2>1, <2>3 DEF Lasts, PartOf
<1> QED BY <1>2, <1>3, <1>4

LEMMA FoundIs ==
    ASSUME NEW s \in Seq(Entries), NEW c
    PROVE  /\ FindClient(s, c) = 0 => c \notin Listed(s)
           /\ FindClient(s, c) # 0 => FindClient(s, c) \in DOMAIN s /\ s[FindClient(s, c)].client = c
<1> DEFINE I == {i \in 1 .. Len(s) : s[i].client = c}
<1>1. FindClient(s, c) = IF I # {} THEN Min(I) ELSE 0
  BY DEF FindClient, SelectInSeq
<1>2. I \in SUBSET Nat /\ DOMAIN s = 1 .. Len(s)
  OBVIOUS
<1>3. CASE I = {}
  BY <1>1, <1>2, <1>3 DEF Listed
<1>4. CASE I # {}
  <2>1. Min(I) \in I
    <3> HIDE DEF I
    <3> QED BY <1>2, <1>4, LeastIs
  <2>2. Min(I) \in 1 .. Len(s) /\ s[Min(I)].client = c
    BY <2>1
  <2> HIDE DEF I
  <2>3. FindClient(s, c) = Min(I)
    BY <1>1, <1>4
  <2>4. FindClient(s, c) \in DOMAIN s /\ s[FindClient(s, c)].client = c
    BY <1>2, <2>2, <2>3
  <2>5. FindClient(s, c) # 0
    BY <2>2, <2>3
  <2> QED BY <2>4, <2>5
<1> QED BY <1>3, <1>4

LEMMA PremiumSlotIs ==
    ASSUME NEW s \in Seq(Entries), NEW k, k = PremiumSlot(s)
    PROVE  /\ k = 0 => \A i \in DOMAIN s : s[i].client \in Premium
           /\ k # 0 => /\ k \in DOMAIN s /\ s[k].client \notin Premium
                       /\ \A i \in DOMAIN s : i < k => s[i].client \in Premium
<1> DEFINE I == {i \in 1 .. Len(s) : s[i].client \notin Premium}
<1>1. k = IF I # {} THEN Min(I) ELSE 0
  BY DEF PremiumSlot, SelectInSeq
<1>2. I \in SUBSET Nat /\ DOMAIN s = 1 .. Len(s) /\ Len(s) \in Nat
  OBVIOUS
<1>3. CASE I = {}
  <2>1. \A i \in DOMAIN s : s[i].client \in Premium
    BY <1>2, <1>3
  <2>2. k = 0
    BY <1>1, <1>3
  <2> QED BY <2>1, <2>2
<1>4. CASE I # {}
  <2>1. Min(I) \in I /\ \A m \in I : Min(I) <= m
    <3> HIDE DEF I
    <3> QED BY <1>2, <1>4, LeastIs
  <2>2. k \in I /\ \A m \in I : k <= m
    <3> HIDE DEF I
    <3> QED BY <1>1, <1>4, <2>1
  <2>3. k \in 1 .. Len(s) /\ s[k].client \notin Premium
    BY <2>2
  <2>4. ASSUME NEW i \in DOMAIN s, i < k PROVE s[i].client \in Premium
    <3>1. i \in 1 .. Len(s) /\ ~(k <= i)
      BY <1>2, <2>3, <2>4
    <3> QED BY <2>2, <3>1
  <2>5. k # 0
    BY <2>3
  <2> QED BY <1>2, <2>3, <2>4, <2>5
<1> QED BY <1>3, <1>4

\* removing an entry, and inserting one.
LEMMA TakenOutIs ==
    ASSUME NEW s \in Seq(Entries), NEW k \in 1 .. Len(s)
    PROVE  /\ RemoveAt(s, k) \in Seq(Entries) /\ Len(RemoveAt(s, k)) = Len(s) - 1
           /\ \A n \in 1 .. Len(s) - 1 : RemoveAt(s, k)[n] = IF n < k THEN s[n] ELSE s[n + 1]
<1> DEFINE a == SubSeq(s, 1, k - 1)
           b == SubSeq(s, k + 1, Len(s))
<1>1. /\ Len(s) \in Nat /\ k \in Nat /\ k <= Len(s) /\ 1 <= k
      /\ \A i \in 1 .. Len(s) : s[i] \in Entries
  OBVIOUS
<1>2. a \in Seq(Entries) /\ Len(a) = k - 1 /\ \A i \in 1 .. k - 1 : a[i] = s[i]
  <2>1. \A i \in 1 .. k - 1 : s[i] \in Entries
    BY <1>1
  <2>2. /\ a \in Seq(Entries)
        /\ Len(a) = IF 1 <= k - 1 THEN k - 1 - 1 + 1 ELSE 0
        /\ \A i \in 1 .. k - 1 - 1 + 1 : a[i] = s[1 + i - 1]
    BY <1>1, <2>1, SubSeqProperties
  <2> HIDE DEF a
  <2>3. Len(a) = k - 1
    <3>1. Len(a) = IF 1 <= k - 1 THEN k - 1 - 1 + 1 ELSE 0
      BY ONLY <2>2
    <3> QED BY ONLY <1>1, <3>1
  <2>4. ASSUME NEW i \in 1 .. k - 1 PROVE a[i] = s[i]
    <3>1. i \in 1 .. k - 1 - 1 + 1 /\ 1 + i - 1 = i
      BY <1>1
    <3> QED BY <2>2, <3>1
  <2> QED BY <2>2, <2>3, <2>4
<1>3. /\ b \in Seq(Entries) /\ Len(b) = Len(s) - k
      /\ \A i \in 1 .. Len(s) - k : b[i] = s[i + k]
  <2>1. \A i \in k + 1 .. Len(s) : s[i] \in Entries
    BY <1>1
  <2>2. /\ b \in Seq(Entries)
        /\ Len(b) = IF k + 1 <= Len(s) THEN Len(s) - (k + 1) + 1 ELSE 0
        /\ \A i \in 1 .. Len(s) - (k + 1) + 1 : b[i] = s[k + 1 + i - 1]
    BY <1>1, <2>1, SubSeqProperties
  <2> HIDE DEF b
  <2>3. Len(b) = Len(s) - k
    <3>1. Len(b) = IF k + 1 <= Len(s) THEN Len(s) - (k + 1) + 1 ELSE 0
      BY ONLY <2>2
    <3> QED BY ONLY <1>1, <3>1
  <2>4. ASSUME NEW i \in 1 .. Len(s) - k PROVE b[i] = s[i + k]
    <3>1. i \in 1 .. Len(s) - (k + 1) + 1 /\ k + 1 + i - 1 = i + k
      BY <1>1
    <3> QED BY <2>2, <3>1
  <2> QED BY <2>2, <2>3, <2>4
<1> PICK r : r = RemoveAt(s, k)
  OBVIOUS
<1>4. r = a \o b
  BY DEF RemoveAt
<1> HIDE DEF a, b
<1>5. /\ r \in Seq(Entries) /\ Len(r) = Len(a) + Len(b)
      /\ \A i \in 1 .. Len(a) + Len(b) : r[i] = IF i <= Len(a) THEN a[i] ELSE b[i - Len(a)]
  <2>1. a \in Seq(Entries) /\ b \in Seq(Entries)
    BY ONLY <1>2, <1>3
  <2> QED BY ONLY <1>4, <2>1, ConcatProperties
<1>6. Len(a) = k - 1 /\ Len(a) + Len(b) = Len(s) - 1
  <2>1. Len(a) = k - 1 /\ Len(b) = Len(s) - k
    BY ONLY <1>2, <1>3
  <2> QED BY ONLY <1>1, <2>1
<1>7. ASSUME NEW n \in 1 .. Len(s) - 1 PROVE r[n] = IF n < k THEN s[n] ELSE s[n + 1]
  <2>1. r[n] = IF n <= k - 1 THEN a[n] ELSE b[n - (k - 1)]
    BY <1>5, <1>6
  <2>2. CASE n < k
    <3>1. n \in 1 .. k - 1 /\ n <= k - 1
      BY <1>1, <2>2
    <3> QED BY <1>2, <2>1, <2>2, <3>1
  <2>3. CASE ~(n < k)
    <3>1. n - (k - 1) \in 1 .. Len(s) - k /\ n - (k - 1) + k = n + 1 /\ ~(n <= k - 1)
      BY <1>1, <2>3
    <3>2. r[n] = b[n - (k - 1)]
      BY <2>1, <3>1
    <3>3. b[n - (k - 1)] = s[n - (k - 1) + k]
      BY <1>3, <3>1
    <3> QED BY <2>3, <3>1, <3>2, <3>3
  <2> QED BY <2>2, <2>3
<1> QED BY <1>5, <1>6, <1>7

LEMMA PutInIs ==
    ASSUME NEW s \in Seq(Entries), NEW k \in 1 .. Len(s), NEW e \in Entries
    PROVE  /\ InsertAt(s, k, e) \in Seq(Entries) /\ Len(InsertAt(s, k, e)) = Len(s) + 1
           /\ InsertAt(s, k, e)[k] = e
           /\ \A n \in 1 .. Len(s) : InsertAt(s, k, e)[IF n < k THEN n ELSE n + 1] = s[n]
<1> DEFINE a == SubSeq(s, 1, k - 1)
           b == SubSeq(s, k, Len(s))
           m == a \o <<e>>
<1>1. /\ Len(s) \in Nat /\ k \in Nat /\ k <= Len(s) /\ 1 <= k
      /\ \A i \in 1 .. Len(s) : s[i] \in Entries
  OBVIOUS
<1>2. a \in Seq(Entries) /\ Len(a) = k - 1 /\ \A i \in 1 .. k - 1 : a[i] = s[i]
  <2>1. \A i \in 1 .. k - 1 : s[i] \in Entries
    BY <1>1
  <2>2. /\ a \in Seq(Entries)
        /\ Len(a) = IF 1 <= k - 1 THEN k - 1 - 1 + 1 ELSE 0
        /\ \A i \in 1 .. k - 1 - 1 + 1 : a[i] = s[1 + i - 1]
    BY <1>1, <2>1, SubSeqProperties
  <2> HIDE DEF a
  <2>3. Len(a) = k - 1
    <3>1. Len(a) = IF 1 <= k - 1 THEN k - 1 - 1 + 1 ELSE 0
      BY ONLY <2>2
    <3> QED BY ONLY <1>1, <3>1
  <2>4. ASSUME NEW i \in 1 .. k - 1 PROVE a[i] = s[i]
    <3>1. i \in 1 .. k - 1 - 1 + 1 /\ 1 + i - 1 = i
      BY <1>1
    <3> QED BY <2>2, <3>1
  <2> QED BY <2>2, <2>3, <2>4
<1>3. /\ b \in Seq(Entries) /\ Len(b) = Len(s) - k + 1
      /\ \A i \in 1 .. Len(s) - k + 1 : b[i] = s[k + i - 1]
  <2>1. \A i \in k .. Len(s) : s[i] \in Entries
    BY <1>1
  <2>2. /\ b \in Seq(Entries)
        /\ Len(b) = IF k <= Len(s) THEN Len(s) - k + 1 ELSE 0
        /\ \A i \in 1 .. Len(s) - k + 1 : b[i] = s[k + i - 1]
    BY <1>1, <2>1, SubSeqProperties
  <2> HIDE DEF b
  <2>3. Len(b) = IF k <= Len(s) THEN Len(s) - k + 1 ELSE 0
    BY ONLY <2>2
  <2>4. Len(b) = Len(s) - k + 1
    BY ONLY <1>1, <2>3
  <2> QED BY <2>2, <2>4
<1> PICK r : r = InsertAt(s, k, e)
  OBVIOUS
<1>4. r = m \o b
  BY DEF InsertAt
<1>5. /\ m \in Seq(Entries) /\ Len(m) = k /\ m[k] = e /\ \A i \in 1 .. k - 1 : m[i] = s[i]
  <2>1. <<e>> \in Seq(Entries) /\ Len(<<e>>) = 1 /\ <<e>>[1] = e
    OBVIOUS
  <2> HIDE DEF a
  <2>2. /\ m \in Seq(Entries) /\ Len(m) = Len(a) + 1
        /\ \A i \in 1 .. Len(a) + 1 : m[i] = IF i <= Len(a) THEN a[i] ELSE <<e>>[i - Len(a)]
    BY <1>2, <2>1, ConcatProperties
  <2> HIDE DEF m
  <2>3. Len(a) = k - 1 /\ Len(m) = Len(a) + 1
    BY ONLY <1>2, <2>2
  <2>4. Len(m) = k /\ Len(a) + 1 = k
    BY ONLY <1>1, <2>3
  <2>5. \A i \in 1 .. k : m[i] = IF i <= k - 1 THEN a[i] ELSE <<e>>[i - (k - 1)]
    BY ONLY <2>2, <2>3, <2>4
  <2>6. k \in 1 .. k /\ ~(k <= k - 1) /\ k - (k - 1) = 1
    BY <1>1
  <2>7. m[k] = e
    BY <2>1, <2>5, <2>6
  <2>8. ASSUME NEW i \in 1 .. k - 1 PROVE m[i] = s[i]
    <3>1. i \in 1 .. k /\ i <= k - 1
      BY <1>1
    <3> QED BY <1>2, <2>5, <3>1
  <2> QED BY <2>2, <2>4, <2>7, <2>8
<1> HIDE DEF a, b, m
<1>6. /\ r \in Seq(Entries) /\ Len(r) = Len(m) + Len(b)
      /\ \A i \in 1 .. Len(m) + Len(b) : r[i] = IF i <= Len(m) THEN m[i] ELSE b[i - Len(m)]
  BY <1>3, <1>4, <1>5, ConcatProperties
<1>7. Len(m) = k /\ Len(m) + Len(b) = Len(s) + 1
  <2>1. Len(m) = k /\ Len(b) = Len(s) - k + 1
    BY ONLY <1>3, <1>5
  <2> QED BY ONLY <1>1, <2>1
<1>8. \A i \in 1 .. Len(s) + 1 : r[i] = IF i <= k THEN m[i] ELSE b[i - k]
  BY ONLY <1>6, <1>7
<1>9. r[k] = e
  <2>1. k \in 1 .. Len(s) + 1 /\ k <= k
    BY <1>1
  <2> QED BY <1>5, <1>8, <2>1
<1>10. ASSUME NEW n \in 1 .. Len(s) PROVE r[IF n < k THEN n ELSE n + 1] = s[n]
  <2>1. CASE n < k
    <3>1. n \in 1 .. k - 1 /\ n \in 1 .. Len(s) + 1 /\ n <= k
      BY <1>1, <2>1
    <3>2. r[n] = s[n]
      BY <1>5, <1>8, <3>1
    <3> QED BY <2>1, <3>2
  <2>2. CASE ~(n < k)
    <3>1. /\ n + 1 \in 1 .. Len(s) + 1 /\ ~(n + 1 <= k)
          /\ n + 1 - k \in 1 .. Len(s) - k + 1 /\ k + (n + 1 - k) - 1 = n
      BY <1>1, <2>2
    <3>2. r[n + 1] = b[n + 1 - k]
      BY <1>8, <3>1
    <3>3. b[n + 1 - k] = s[k + (n + 1 - k) - 1]
      BY <1>3, <3>1
    <3>4. r[n + 1] = s[n]
      BY <3>1, <3>2, <3>3
    <3> QED BY <2>2, <3>4
  <2> QED BY <2>1, <2>2
<1>11. Len(r) = Len(s) + 1
  BY ONLY <1>6, <1>7
<1> QED BY <1>6, <1>9, <1>10, <1>11

LEMMA LengthIs == ASSUME NEW s, Queued(s) PROVE Len(s) <= Cardinality(Clients) /\ Cardinality(Clients) \in Nat
<1> DEFINE f == [i \in 1 .. Len(s) |-> s[i].client]
<1>1. /\ Len(s) \in Nat /\ DOMAIN s = 1 .. Len(s)
      /\ \A i \in DOMAIN s : s[i].client \in Clients
  <2>1. s \in Seq(Entries)
    BY DEF Queued
  <2>2. \A i \in DOMAIN s : s[i] \in Entries
    BY <2>1
  <2> QED BY <2>1, <2>2 DEF Entries
<1>2. f \in [1 .. Len(s) -> Clients] /\ \A i \in 1 .. Len(s) : f[i] = s[i].client
  BY <1>1
<1>3. IsInjective(f)
  BY <1>1, <1>2 DEF IsInjective, Queued, Once
<1>4. f \in Injection(1 .. Len(s), Clients)
  BY <1>2, <1>3 DEF Injection
<1>5. IsFiniteSet(Clients)
  BY ConstantsAssumption DEF ConstantsAssumption
<1> HIDE DEF f
<1>6. Cardinality(1 .. Len(s)) <= Cardinality(Clients)
  BY <1>4, <1>5, FS_Injection
<1>7. Cardinality(1 .. Len(s)) = Len(s)
  <2>1. PICK n \in Nat : n = Len(s)
    BY <1>1
  <2>2. Cardinality(1 .. n) = IF 1 > n THEN 0 ELSE n - 1 + 1
    BY FS_Interval
  <2>3. Cardinality(1 .. n) = n
    BY ONLY <2>1, <2>2
  <2> QED BY <2>1, <2>3
<1> QED BY <1>5, <1>6, <1>7, FS_CardinalityType

LEMMA TimeOutIs == ASSUME NEW k \in 1 .. Cardinality(Clients) + 1 PROVE GetTimeOut(k) \in Nat
<1>1. RetryTime[k] \in Nat /\ Grace \in Nat
  BY ConstantsAssumption DEF ConstantsAssumption
<1> QED BY <1>1 DEF GetTimeOut

LEMMA RemovedKeeps ==
    ASSUME NEW s, Queued(s), NEW k \in DOMAIN s, NEW r, r = RemoveAt(s, k)
    PROVE  /\ \E f : PartOf(r, s, f)
           /\ \A d \in Clients : \A t \in Nat : d # s[k].client /\ Lasts(s, d, t) => Lasts(r, d, t)
<1> DEFINE at(n) == IF n < k THEN n ELSE n + 1
           f == [n \in 1 .. Len(s) - 1 |-> at(n)]
<1>1. s \in Seq(Entries) /\ Len(s) \in Nat /\ DOMAIN s = 1 .. Len(s) /\ k \in 1 .. Len(s)
  BY DEF Queued
<1>2. /\ r \in Seq(Entries) /\ Len(r) = Len(s) - 1
      /\ \A n \in 1 .. Len(s) - 1 : r[n] = IF n < k THEN s[n] ELSE s[n + 1]
  BY <1>1, TakenOutIs
<1>3. DOMAIN r = 1 .. Len(s) - 1
  BY <1>1, <1>2
<1>4. \A n \in 1 .. Len(s) - 1 : at(n) \in 1 .. Len(s) /\ r[n] = s[at(n)]
  BY <1>1, <1>2
<1>5. \A n, m \in 1 .. Len(s) - 1 : n < m => at(n) < at(m)
  BY <1>1
<1>6. PartOf(r, s, f)
  BY <1>1, <1>2, <1>3, <1>4, <1>5 DEF PartOf
<1>7. ASSUME NEW d \in Clients, NEW t \in Nat, d # s[k].client, Lasts(s, d, t) PROVE Lasts(r, d, t)
  <2>1. PICK i \in 1 .. Len(s) : s[i].client = d /\ t <= s[i].left
    BY <1>1, <1>7 DEF Lasts
  <2>2. i # k
    BY <1>7, <2>1
  <2>3. PICK n \in 1 .. Len(s) - 1 : at(n) = i
    <3>1. CASE i < k
      <4>1. i \in 1 .. Len(s) - 1 /\ at(i) = i
        BY <1>1, <3>1
      <4> QED BY <4>1
    <3>2. CASE ~(i < k)
      <4>1. i - 1 \in 1 .. Len(s) - 1 /\ at(i - 1) = i
        BY <1>1, <2>2, <3>2
      <4> QED BY <4>1
    <3> QED BY <3>1, <3>2
  <2>4. r[n] = s[i]
    BY <1>4, <2>3
  <2> QED BY <1>3, <2>1, <2>4 DEF Lasts
<1> QED BY <1>6, <1>7

\* Whatever was in the list stays in it, in its order; the new entry lasts as its
\* slot has it.
LEMMA EnteredKeeps ==
    ASSUME NEW s, Queued(s), NEW c \in Clients, c \notin Listed(s), NEW r, r = Entered(s, c)
    PROVE  /\ Queued(r)
           /\ \E f : PartOf(s, r, f)
           /\ \A i \in DOMAIN r : r[i].client = c => r[i].left = GetTimeOut(i)
<1>1. s \in Seq(Entries) /\ Len(s) \in Nat /\ DOMAIN s = 1 .. Len(s)
  BY DEF Queued
<1>2. \A i \in DOMAIN s : s[i].client # c
  BY DEF Listed
<1>3. Len(s) + 1 \in 1 .. Cardinality(Clients) + 1 /\ \A k \in 1 .. Len(s) : k \in 1 .. Cardinality(Clients) + 1
  BY <1>1, LengthIs
<1>4. ASSUME NEW k \in 1 .. Len(s) + 1,
             r \in Seq(Entries), Len(r) = Len(s) + 1, r[k] = Entry(c, GetTimeOut(k)),
             \A n \in 1 .. Len(s) : r[IF n < k THEN n ELSE n + 1] = s[n],
             c \in Premium => \A i \in 1 .. Len(s) : i < k => s[i].client \in Premium,
             c \notin Premium => k = Len(s) + 1
      PROVE  /\ Queued(r) /\ \E f : PartOf(s, r, f)
             /\ \A i \in DOMAIN r : r[i].client = c => r[i].left = GetTimeOut(i)
  <2> DEFINE at(n) == IF n < k THEN n ELSE n + 1
             f == [n \in 1 .. Len(s) |-> at(n)]
  <2>1. DOMAIN r = 1 .. Len(s) + 1
    BY <1>1, <1>4
  <2>2. \A n \in 1 .. Len(s) : at(n) \in 1 .. Len(s) + 1 /\ r[at(n)] = s[n] /\ at(n) # k
    BY <1>1, <1>4
  <2>3. \A n, m \in 1 .. Len(s) : n < m => at(n) < at(m)
    BY <1>1
  <2>4. PartOf(s, r, f)
    BY <1>1, <2>1, <2>2, <2>3 DEF PartOf
  <2>5. ASSUME NEW i \in DOMAIN r, i # k PROVE \E n \in 1 .. Len(s) : at(n) = i
    <3>1. i \in 1 .. Len(s) + 1
      BY <2>1
    <3>2. CASE i < k
      <4>1. i \in 1 .. Len(s) /\ at(i) = i
        BY <1>1, <3>1, <3>2
      <4> QED BY <4>1
    <3>3. CASE ~(i < k)
      <4>1. i - 1 \in 1 .. Len(s) /\ at(i - 1) = i
        BY <1>1, <2>5, <3>1, <3>3
      <4> QED BY <4>1
    <3> QED BY <3>2, <3>3
  <2>6. r[k].client = c /\ r[k].left = GetTimeOut(k)
    BY <1>4 DEF Entry
  <2> HIDE DEF at
  <2>7. ASSUME NEW i \in DOMAIN r, i # k PROVE r[i].client # c
    BY <1>1, <1>2, <2>2, <2>5, <2>7
  <2>8. Once(r)
    <3> SUFFICES ASSUME NEW i \in DOMAIN r, NEW j \in DOMAIN r, r[i].client = r[j].client PROVE i = j
      BY DEF Once
    <3>1. CASE i = k \/ j = k
      BY <2>6, <2>7, <3>1
    <3>2. CASE i # k /\ j # k
      <4>1. PICK n \in 1 .. Len(s) : at(n) = i
        BY <2>5, <3>2
      <4>2. PICK m \in 1 .. Len(s) : at(m) = j
        BY <2>5, <3>2
      <4>3. s[n].client = s[m].client
        BY <2>2, <4>1, <4>2
      <4> QED BY <1>1, <4>1, <4>2, <4>3 DEF Queued, Once
    <3> QED BY <3>1, <3>2
  <2>9. Sorted(r)
    <3> SUFFICES ASSUME NEW i \in DOMAIN r, NEW j \in DOMAIN r, r[j].client \in Premium, i < j
                 PROVE  r[i].client \in Premium
      BY DEF Sorted
    <3>0. i \in 1 .. Len(s) + 1 /\ j \in 1 .. Len(s) + 1
      BY <2>1
    <3>1. CASE i = k
      <4>1. k # Len(s) + 1
        BY <1>1, <3>0, <3>1
      <4> QED BY <1>4, <2>6, <3>1, <4>1
    <3>2. CASE j = k
      <4>1. i # k /\ c \in Premium
        BY <2>6, <3>0, <3>2
      <4>2. PICK n \in 1 .. Len(s) : at(n) = i
        BY <2>5, <4>1
      <4>3. n < k
        BY <1>1, <3>0, <3>2, <4>2 DEF at
      <4> QED BY <1>4, <2>2, <4>1, <4>2, <4>3
    <3>3. CASE i # k /\ j # k
      <4>1. PICK n \in 1 .. Len(s) : at(n) = i
        BY <2>5, <3>3
      <4>2. PICK m \in 1 .. Len(s) : at(m) = j
        BY <2>5, <3>3
      <4>3. n < m
        BY <1>1, <3>0, <4>1, <4>2 DEF at
      <4>4. s[m].client \in Premium
        BY <2>2, <4>2
      <4>5. s[n].client \in Premium
        BY <1>1, <4>3, <4>4 DEF Queued, Sorted
      <4> QED BY <2>2, <4>1, <4>5
    <3> QED BY <3>1, <3>2, <3>3
  <2>10. \A i \in DOMAIN r : r[i].client = c => r[i].left = GetTimeOut(i)
    BY <2>6, <2>7
  <2> QED BY <1>4, <2>4, <2>8, <2>9, <2>10 DEF Queued
<1>5. CASE c \notin Premium
  <2> DEFINE k == Len(s) + 1
  <2>1. r = Append(s, Entry(c, GetTimeOut(k)))
    BY <1>5 DEF Entered
  <2>2. Entry(c, GetTimeOut(k)) \in Entries
    BY <1>3, TimeOutIs DEF Entry, Entries
  <2>3. k \in 1 .. Len(s) + 1
    BY <1>1
  <2>4. r \in Seq(Entries) /\ Len(r) = Len(s) + 1 /\ r[k] = Entry(c, GetTimeOut(k))
    BY <1>1, <2>1, <2>2
  <2>5. \A n \in 1 .. Len(s) : r[IF n < k THEN n ELSE n + 1] = s[n]
    BY <1>1, <2>1, <2>2
  <2> QED BY <1>4, <1>5, <2>3, <2>4, <2>5
<1>6. CASE c \in Premium /\ PremiumSlot(s) = 0
  <2>1. r = s
    BY <1>6 DEF Entered
  <2> DEFINE f == [i \in DOMAIN s |-> i]
  <2>2. PartOf(s, s, f)
    BY <1>1 DEF PartOf
  <2> QED BY <1>2, <2>1, <2>2
<1>7. CASE c \in Premium /\ PremiumSlot(s) # 0
  <2>1. PICK k : k = PremiumSlot(s)
    OBVIOUS
  <2>2. /\ k \in DOMAIN s /\ s[k].client \notin Premium
        /\ \A i \in DOMAIN s : i < k => s[i].client \in Premium
    BY <1>1, <1>7, <2>1, PremiumSlotIs
  <2>3. PICK e : e = Entry(c, GetTimeOut(k))
    OBVIOUS
  <2>4. k \in 1 .. Len(s) /\ e \in Entries
    BY <1>1, <1>3, <2>2, <2>3, TimeOutIs DEF Entry, Entries
  <2>5. /\ r \in Seq(Entries) /\ Len(r) = Len(s) + 1 /\ r[k] = Entry(c, GetTimeOut(k))
        /\ \A n \in 1 .. Len(s) : r[IF n < k THEN n ELSE n + 1] = s[n]
    <3>1. r = InsertAt(s, k, e)
      BY <1>7, <2>1, <2>3 DEF Entered
    <3>2. /\ InsertAt(s, k, e) \in Seq(Entries) /\ Len(InsertAt(s, k, e)) = Len(s) + 1
          /\ InsertAt(s, k, e)[k] = e
          /\ \A n \in 1 .. Len(s) : InsertAt(s, k, e)[IF n < k THEN n ELSE n + 1] = s[n]
      BY <1>1, <2>4, PutInIs
    <3> QED BY ONLY <2>3, <3>1, <3>2
  <2>6. k \in 1 .. Len(s) + 1
    BY <1>1, <2>2
  <2> QED BY <1>1, <1>4, <1>7, <2>2, <2>5, <2>6
<1> QED BY <1>5, <1>6, <1>7

LEMMA RenewedKeeps ==
    ASSUME NEW s, Queued(s), NEW k \in DOMAIN s, NEW r, r = Renewed(s, k)
    PROVE  /\ Queued(r) /\ DOMAIN r = DOMAIN s
           /\ \A i \in DOMAIN s : r[i].client = s[i].client /\ (i # k => r[i] = s[i])
           /\ r[k].left = GetTimeOut(k)
<1>1. s \in Seq(Entries) /\ Len(s) \in Nat /\ DOMAIN s = 1 .. Len(s)
  BY DEF Queued
<1>2. PICK e : e = [s[k] EXCEPT !.left = GetTimeOut(k)]
  OBVIOUS
<1>3. r = [s EXCEPT ![k] = e]
  BY <1>2 DEF Renewed
<1>4. s[k] \in Entries /\ GetTimeOut(k) \in Nat
  <2>1. k \in 1 .. Cardinality(Clients) + 1
    BY <1>1, LengthIs
  <2> QED BY <1>1, <2>1, TimeOutIs
<1>5. e \in Entries /\ e.client = s[k].client /\ e.left = GetTimeOut(k)
  BY <1>2, <1>4 DEF Entries
<1>6. DOMAIN r = DOMAIN s /\ r[k] = e /\ \A i \in DOMAIN s : i # k => r[i] = s[i]
  BY <1>1, <1>3
<1>7. r \in Seq(Entries)
  BY <1>1, <1>3, <1>5
<1>8. \A i \in DOMAIN s : r[i].client = s[i].client
  BY <1>5, <1>6
<1>9. Once(r) /\ Sorted(r)
  BY <1>6, <1>8 DEF Queued, Once, Sorted
<1> QED BY <1>5, <1>6, <1>7, <1>8, <1>9 DEF Queued

\* What a step may do to the order.
Ordered ==
    \A c, d \in Clients :
        Before(waitList, InTime(waitList), c, d) /\ {c, d} \subseteq Listed(waitList')
            => Before(waitList', DOMAIN waitList', c, d)

LEMMA RefuseKeeps ==
    ASSUME PlacesInv, NEW c \in Clients, Refuse(c), Queued(waitList'),
           \A d \in Clients : d # c /\ promised[d] > 0 => Lasts(waitList', d, promised[d]),
           \A i \in DOMAIN waitList' : waitList'[i].client = c => waitList'[i].left = GetTimeOut(i)
    PROVE  PlacesInv'
<1> PICK r, k, t :
        r = waitList' /\ k = FindClient(r, c) /\ t = IF k = 0 THEN 0 ELSE RetryTime[k] + Grace
  OBVIOUS
<1>1. promised' = [promised EXCEPT ![c] = t] /\ online' = online
  BY DEF Refuse
<1>2. k # 0 => k \in DOMAIN r /\ r[k].client = c
  BY FoundIs DEF Queued
<1>3. k # 0 => t = GetTimeOut(k) /\ t \in Nat /\ r[k].left = t
  <2>1. k # 0 => k \in 1 .. Cardinality(Clients) + 1
    <3>1. DOMAIN r = 1 .. Len(r) /\ Len(r) \in Nat
      BY DEF Queued
    <3>2. Len(r) <= Cardinality(Clients) /\ Cardinality(Clients) \in Nat
      BY LengthIs
    <3> QED BY <1>2, <3>1, <3>2
  <2>2. k # 0 => t = GetTimeOut(k)
    BY DEF GetTimeOut
  <2> QED BY <1>2, <2>1, <2>2, TimeOutIs
<1>4. t \in Nat
  BY <1>3
<1>5. /\ promised' \in [Clients -> Nat] /\ promised'[c] = t
      /\ \A d \in Clients : d # c => promised'[d] = promised[d]
  BY <1>1, <1>4 DEF PlacesInv
<1>6. t > 0 => Lasts(r, c, t)
  BY <1>2, <1>3, <1>4 DEF Lasts
<1>7. Assured(r, promised')
  BY <1>5, <1>6 DEF Assured
<1> QED BY <1>1, <1>5, <1>7 DEF PlacesInv

LEMMA MayEnterKeeps ==
    ASSUME PlacesInv, NEW c \in Clients, MayEnter(c), Queued(waitList'),
           \A d \in Clients : d # c /\ promised[d] > 0 => Lasts(waitList', d, promised[d])
    PROVE  PlacesInv'
<1>1. /\ promised' \in [Clients -> Nat] /\ promised'[c] = 0
      /\ \A d \in Clients : d # c => promised'[d] = promised[d]
  BY DEF MayEnter, PlacesInv
<1>2. online' \subseteq Clients
  BY DEF MayEnter, PlacesInv
<1>3. Assured(waitList', promised')
  BY <1>1 DEF Assured
<1> QED BY <1>1, <1>2, <1>3 DEF PlacesInv

LEMMA SameListKeepsOrder == ASSUME PlacesInv, waitList' = waitList PROVE Queued(waitList') /\ Ordered
BY DEF PlacesInv, Ordered, Before, InTime

LEMMA ClientLoginKeeps == ASSUME PlacesInv, NEW c \in Clients, ClientLogin(c) PROVE PlacesInv' /\ Ordered
<1> PICK s : s = CleanUpList(waitList)
  OBVIOUS
<1>1. /\ Queued(s)
      /\ \A a, b : Before(waitList, InTime(waitList), a, b) => Before(s, DOMAIN s, a, b)
      /\ \A d : \A t \in Nat : t > 0 /\ Lasts(waitList, d, t) => Lasts(s, d, t)
  BY CleaningKeeps DEF PlacesInv
<1>2. \A d \in Clients : promised[d] > 0 => promised[d] \in Nat /\ Lasts(s, d, promised[d])
  BY <1>1 DEF PlacesInv, Assured
<1>3. s \in Seq(Entries)
  BY <1>1 DEF Queued
<1>4. CASE EnterAtOnce(c)
  <2>1. waitList' = waitList /\ MayEnter(c)
    BY <1>4 DEF EnterAtOnce
  <2>2. \A d \in Clients : d # c /\ promised[d] > 0 => Lasts(waitList', d, promised[d])
    BY <2>1 DEF PlacesInv, Assured
  <2> QED BY <2>1, <2>2, SameListKeepsOrder, MayEnterKeeps
<1>5. CASE EnterFromList(c)
  <2>1. PICK k : k = FindClient(s, c)
    OBVIOUS
  <2>2. k # 0 /\ waitList' = RemoveAt(s, k) /\ MayEnter(c)
    BY <1>5, <2>1 DEF EnterFromList
  <2>3. k \in DOMAIN s /\ s[k].client = c
    BY <1>3, <2>1, <2>2, FoundIs
  <2>4. /\ \E f : PartOf(waitList', s, f)
        /\ \A d \in Clients : \A t \in Nat : d # c /\ Lasts(s, d, t) => Lasts(waitList', d, t)
    BY <1>1, <2>2, <2>3, RemovedKeeps
  <2>5. Queued(waitList')
    BY <1>1, <2>4, PartIsQueued
  <2>6. \A d \in Clients : d # c /\ promised[d] > 0 => Lasts(waitList', d, promised[d])
    BY <1>2, <2>4
  <2>7. Ordered
    BY <1>1, <2>4, PartKeepsOrder DEF Ordered
  <2> QED BY <2>2, <2>5, <2>6, <2>7, MayEnterKeeps
<1>6. CASE WaitLonger(c)
  <2>1. PICK k : k = FindClient(s, c)
    OBVIOUS
  <2>2. k # 0 /\ waitList' = Renewed(s, k) /\ Refuse(c)
    BY <1>6, <2>1 DEF WaitLonger
  <2>3. k \in DOMAIN s /\ s[k].client = c
    BY <1>3, <2>1, <2>2, FoundIs
  <2>4. /\ Queued(waitList') /\ DOMAIN waitList' = DOMAIN s
        /\ \A i \in DOMAIN s : waitList'[i].client = s[i].client /\ (i # k => waitList'[i] = s[i])
        /\ waitList'[k].left = GetTimeOut(k)
    BY ONLY <1>1, <2>2, <2>3, RenewedKeeps
  <2>5. \A d \in Clients : d # c /\ promised[d] > 0 => Lasts(waitList', d, promised[d])
    BY <1>2, <2>3, <2>4 DEF Lasts
  <2>6. \A i \in DOMAIN waitList' : waitList'[i].client = c => waitList'[i].left = GetTimeOut(i)
    BY <1>1, <2>3, <2>4 DEF Queued, Once
  <2>7. \A a, b : Before(s, DOMAIN s, a, b) => Before(waitList', DOMAIN waitList', a, b)
    BY <2>4 DEF Before
  <2>8. Ordered
    BY <1>1, <2>7 DEF Ordered
  <2> QED BY <2>2, <2>4, <2>5, <2>6, <2>8, RefuseKeeps
<1>7. CASE EnterList(c)
  <2>1. FindClient(s, c) = 0 /\ waitList' = Entered(s, c) /\ Refuse(c)
    BY <1>7 DEF EnterList
  <2>2. c \notin Listed(s)
    BY <1>3, <2>1, FoundIs
  <2>3. /\ Queued(waitList')
        /\ \E f : PartOf(s, waitList', f)
        /\ \A i \in DOMAIN waitList' : waitList'[i].client = c => waitList'[i].left = GetTimeOut(i)
    BY <1>1, <2>1, <2>2, EnteredKeeps
  <2>4. PICK f : PartOf(s, waitList', f)
    BY <2>3
  <2>5. \A d \in Clients : promised[d] > 0 => Lasts(waitList', d, promised[d])
    BY <1>2, <2>4 DEF Lasts, PartOf
  <2>6. \A a, b : Before(s, DOMAIN s, a, b) => Before(waitList', DOMAIN waitList', a, b)
    BY <2>4, WholeKeepsOrder
  <2>7. Ordered
    BY <1>1, <2>6 DEF Ordered
  <2> QED BY <2>1, <2>3, <2>5, <2>7, RefuseKeeps
<1> QED BY <1>4, <1>5, <1>6, <1>7 DEF ClientLogin

LEMMA TickKeeps == ASSUME PlacesInv, Tick PROVE PlacesInv' /\ Ordered
<1>1. waitList \in Seq(Entries) /\ DOMAIN waitList = 1 .. Len(waitList) /\ Len(waitList) \in Nat
  BY DEF PlacesInv, Queued
<1>2. \A i \in DOMAIN waitList : waitList[i].client \in Clients /\ waitList[i].left \in Nat
  <2>1. \A i \in DOMAIN waitList : waitList[i] \in Entries
    BY <1>1
  <2> QED BY <2>1 DEF Entries
<1>3. DOMAIN waitList' = DOMAIN waitList
  BY DEF Tick
<1>4. ASSUME NEW i \in DOMAIN waitList
      PROVE  /\ waitList'[i] \in Entries /\ waitList'[i].client = waitList[i].client
             /\ waitList'[i].left = Decrement(waitList[i].left)
  <2>1. waitList[i] \in Entries
    BY <1>1
  <2>2. waitList'[i] = [waitList[i] EXCEPT !.left = Decrement(waitList[i].left)]
    BY <1>1 DEF Tick
  <2>3. Decrement(waitList[i].left) \in Nat
    BY <1>2 DEF Decrement
  <2> QED BY <2>1, <2>2, <2>3 DEF Entries
<1>5. waitList' \in Seq(Entries)
  <2>1. waitList' = [i \in 1 .. Len(waitList) |-> waitList'[i]]
    BY <1>1 DEF Tick
  <2> QED BY <1>1, <1>4, <2>1
<1>6. Queued(waitList')
  BY <1>3, <1>4, <1>5 DEF PlacesInv, Queued, Once, Sorted
<1>7. /\ promised' \in [Clients -> Nat]
      /\ \A d \in Clients : promised[d] \in Nat /\ promised'[d] = Decrement(promised[d])
  BY DEF Tick, PlacesInv, Decrement
<1>8. Assured(waitList', promised')
  <2> SUFFICES ASSUME NEW d \in Clients, promised'[d] > 0 PROVE Lasts(waitList', d, promised'[d])
    BY DEF Assured
  <2>1. promised[d] > 0 /\ promised'[d] = promised[d] - 1
    BY <1>7 DEF Decrement
  <2>2. PICK i \in DOMAIN waitList : waitList[i].client = d /\ promised[d] <= waitList[i].left
    BY <2>1 DEF PlacesInv, Assured, Lasts
  <2>3. promised'[d] <= waitList'[i].left
    <3>1. waitList'[i].left = waitList[i].left - 1
      BY <1>2, <1>4, <1>7, <2>1, <2>2 DEF Decrement
    <3> QED BY <1>2, <1>7, <2>1, <2>2, <3>1
  <2> QED BY <1>3, <1>4, <2>2, <2>3 DEF Lasts
<1>9. Ordered
  BY <1>3, <1>4 DEF Ordered, Before, InTime
<1> QED BY <1>6, <1>7, <1>8, <1>9 DEF PlacesInv, Tick

LEMMA PlacesStep == ASSUME PlacesInv, [Next]_vars PROVE PlacesInv' /\ Ordered
<1>1. ASSUME NEW c \in Clients, ClientLogin(c) PROVE PlacesInv' /\ Ordered
  BY <1>1, ClientLoginKeeps
<1>2. ASSUME NEW c \in Clients, Logout(c) PROVE PlacesInv' /\ Ordered
  <2>1. waitList' = waitList /\ promised' = promised /\ online' = online \ {c}
    BY <1>2 DEF Logout
  <2>2. PlacesInv'
    BY <2>1 DEF PlacesInv, Assured
  <2> QED BY <2>1, <2>2, SameListKeepsOrder
<1>3. CASE Tick
  BY <1>3, TickKeeps
<1>4. CASE UNCHANGED vars
  <2>1. PlacesInv'
    BY <1>4 DEF PlacesInv, Assured, vars
  <2> QED BY <1>4, <2>1, SameListKeepsOrder DEF vars
<1> QED BY <1>1, <1>2, <1>3, <1>4 DEF Next

LEMMA PlacesBegin == Init => PlacesInv
<1> SUFFICES ASSUME Init PROVE PlacesInv
  OBVIOUS
<1>1. waitList = <<>> /\ online = {} /\ promised = [c \in Clients |-> 0]
  BY DEF Init
<1>2. Queued(waitList)
  BY <1>1 DEF Queued, Once, Sorted
<1>3. Assured(waitList, promised)
  BY <1>1 DEF Assured
<1> QED BY <1>1, <1>2, <1>3 DEF PlacesInv

LEMMA PlacesInvGivesHold == PlacesInv => PlacesHold
<1> SUFFICES ASSUME PlacesInv PROVE PlacesHold
  OBVIOUS
<1>1. TypeOK
  BY LengthIs DEF PlacesInv, TypeOK, Queued, Entries
<1>2. OnePlaceEach
  BY DEF PlacesInv, Queued, Once, OnePlaceEach, IsInjective
<1>3. PremiumFirst
  BY DEF PlacesInv, Queued, Sorted, PremiumFirst
<1>4. PlaceIsKept
  BY DEF PlacesInv, Assured, Lasts, PlaceIsKept, Listed
<1> QED BY <1>1, <1>2, <1>3, <1>4 DEF PlacesHold

\* What PlacesHold needs to be kept by every step: a promise is an entry that lasts.
THEOREM PlacesInductive == Spec => []PlacesInv
<1>1. PlacesInv /\ [Next]_vars => PlacesInv'
  BY PlacesStep
<1> QED BY <1>1, PlacesBegin, PTL DEF Spec

\* PlacesHold for any clients: one place each, premium first, and whoever was told to come
\* back finds its place (clientLogin, cleanUpList).
THEOREM PlacesKept == Spec => []PlacesHold
BY PlacesInductive, PlacesInvGivesHold, PTL

\* NoOvertaking: asking again, timeouts and arrivals change nobody's place relative to
\* another's.
THEOREM NobodyOvertakes == Spec => NoOvertaking
<1>1. PlacesInv /\ [Next]_vars => Ordered
  BY PlacesStep
<1> QED BY <1>1, PlacesInductive, PTL DEF Spec, NoOvertaking, Ordered
=============================================================================
