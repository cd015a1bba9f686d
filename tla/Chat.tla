-------------------------------- MODULE Chat --------------------------------
(***************************************************************************)
(* Chat channels (font/chat.cpp) and the channel commands of game.cpp.     *)
(*                                                                         *)
(* A channel keeps pointers to the Players that listen, by creature id,    *)
(* and talk and closeChannel follow every one of them: who leaves the game *)
(* must be in no channel.  A private channel belongs to a character (GUID) *)
(* and dies with its owner's visit.  A character that comes back is a new  *)
(* Player with a new creature id, here <<character, visit>>.               *)
(*                                                                         *)
(* Rule violation reports are commented out in the source                  *)
(* (playerReportRuleViolation), so the list of reports is always empty.    *)
(***************************************************************************)
EXTENDS Naturals, FiniteSets, FiniteSetsExt

CONSTANTS
    Chatters,       \* characters
    Staff,          \* those with PlayerFlag_CanAnswerRuleViolations
    Guilds,         \* guild ids, not 0
    GuildOf,        \* the guild of a character, NoGuild when it has none
    NoGuild,
    OpenChannels,   \* m_normalChannels other than the rule violations
    RuleChannel,    \* CHANNEL_RULE_REP
    PrivateIds,     \* ids of private channels (100 to 9999 in the code)
    NoOwner,        \* no channel has this id
    MaxVisits       \* bound: how often a character logs in

ASSUME ChatAssumption ==
    /\ Staff \subseteq Chatters
    /\ GuildOf \in [Chatters -> Guilds \cup {NoGuild}] /\ NoGuild \notin Guilds
    /\ PrivateIds \subseteq Nat /\ NoOwner \notin Chatters /\ MaxVisits \in Nat

Normal == OpenChannels \cup {RuleChannel}
Channels == Normal \cup Guilds \cup PrivateIds

Visitors == Chatters \X (1 .. MaxVisits)

VARIABLES
    users,          \* m_users of every channel
    owner,          \* the private channels' owners; NoOwner: no such channel
    invites,        \* the private channels' m_invites, characters
    guildChannels,  \* m_guildChannels: guilds whose channel was created
    visits,         \* how often a character has logged in
    present,        \* characters in the game
    uninvited       \* history: who came into a private channel without being
                    \* invited to it, as <<channel, visitor>>

chatVars == <<users, owner, invites, guildChannels, visits, present, uninvited>>

ChatTypeOK ==
    /\ users \in [Channels -> SUBSET Visitors]
    /\ owner \in [PrivateIds -> Chatters \cup {NoOwner}]
    /\ invites \in [PrivateIds -> SUBSET Chatters]
    /\ guildChannels \subseteq Guilds
    /\ visits \in [Chatters -> 0 .. MaxVisits]
    /\ present \subseteq Chatters
    /\ uninvited \subseteq PrivateIds \X Visitors

ChatInit ==
    /\ users = [c \in Channels |-> {}]
    /\ owner = [c \in PrivateIds |-> NoOwner]
    /\ invites = [c \in PrivateIds |-> {}]
    /\ guildChannels = {}
    /\ visits = [p \in Chatters |-> 0]
    /\ present = {}
    /\ uninvited = {}

-----------------------------------------------------------------------------
Me(p) == <<p, visits[p]>>

PrivateChannels == {c \in PrivateIds : owner[c] # NoOwner}

OwnedBy(p) == {c \in PrivateChannels : owner[c] = p}

IsInvited(c, p) == owner[c] = p \/ p \in invites[c]

\* getChannel: the channels a player reaches with an id.  A private channel is
\* found whoever asks.
Reachable(p) ==
    {c \in Normal : c = RuleChannel => p \in Staff}
        \cup (guildChannels \cap {GuildOf[p]})
        \cup PrivateChannels

\* mutant: only the channels the player was invited to, not his own.
ListForGuests(p) ==
    {c \in Normal : c = RuleChannel => p \in Staff}
        \cup (Guilds \cap {GuildOf[p]})
        \cup {c \in PrivateChannels : p \in invites[c]}

\* getChannelList, which creates the channel of the player's guild; the dummy
\* private channel has neither users nor an owner.
ChannelList(p) ==
    {c \in Normal : c = RuleChannel => p \in Staff}
        \cup (Guilds \cap {GuildOf[p]})
        \cup {c \in PrivateChannels : IsInvited(c, p)}

\* Leave the channels cs: who owns one of them takes it along (deleteChannel).
LeaveThese(p, cs) ==
    LET closed == cs \cap OwnedBy(p)
    IN /\ users' = [c \in Channels |-> IF c \in closed THEN {}
                                       ELSE IF c \in cs THEN users[c] \ {Me(p)}
                                       ELSE users[c]]
       /\ owner' = [c \in PrivateIds |-> IF c \in closed THEN NoOwner ELSE owner[c]]
       /\ invites' = [c \in PrivateIds |-> IF c \in closed THEN {} ELSE invites[c]]
       /\ uninvited' = {u \in uninvited : u[1] \notin closed /\ (u[1] \in cs => u[2] # Me(p))}

-----------------------------------------------------------------------------
EnterChat(p) ==
    /\ p \notin present /\ visits[p] < MaxVisits
    /\ present' = present \cup {p}
    /\ visits' = [visits EXCEPT ![p] = @ + 1]
    /\ UNCHANGED <<users, owner, invites, guildChannels, uninvited>>

\* playerCreatePrivateChannel: the first free id, when the player owns none.
CreatePrivate(p) ==
    /\ p \in present
    /\ OwnedBy(p) = {}
    /\ PrivateChannels # PrivateIds
    /\ LET c == Min(PrivateIds \ PrivateChannels)
       IN /\ owner' = [owner EXCEPT ![c] = p]
          /\ users' = [users EXCEPT ![c] = {Me(p)}]
    /\ UNCHANGED <<invites, guildChannels, visits, present, uninvited>>

\* playerChannelInvite.
InviteToChannel(p, q) ==
    /\ {p, q} \subseteq present /\ p # q
    /\ \E c \in OwnedBy(p) :
          /\ q \notin invites[c]
          /\ invites' = [invites EXCEPT ![c] = @ \cup {q}]
          /\ uninvited' = uninvited \ {<<c, Me(q)>>}
    /\ UNCHANGED <<users, owner, guildChannels, visits, present>>

\* playerChannelExclude.
ExcludeFromChannel(p, q) ==
    /\ {p, q} \subseteq present /\ p # q
    /\ \E c \in OwnedBy(p) :
          /\ q \in invites[c]
          /\ invites' = [invites EXCEPT ![c] = @ \ {q}]
          /\ users' = [users EXCEPT ![c] = @ \ {Me(q)}]
    /\ UNCHANGED <<owner, guildChannels, visits, present, uninvited>>

\* playerRequestChannels: the dialog lists, and so creates, the guild's channel.
RequestChannels(p) ==
    /\ p \in present
    /\ guildChannels' = guildChannels \cup (Guilds \cap {GuildOf[p]})
    /\ UNCHANGED <<users, owner, invites, visits, present, uninvited>>

\* playerOpenChannel.
OpenChannel(p, c) ==
    /\ p \in present
    /\ c \in Reachable(p)
    /\ Me(p) \notin users[c]
    /\ users' = [users EXCEPT ![c] = @ \cup {Me(p)}]
    /\ uninvited' = IF c \in PrivateIds /\ ~IsInvited(c, p)
                    THEN uninvited \cup {<<c, Me(p)>>} ELSE uninvited
    /\ UNCHANGED <<owner, invites, guildChannels, visits, present>>

\* playerCloseChannel.
CloseChannel(p, c) ==
    /\ p \in present
    /\ c \in Reachable(p)
    /\ Me(p) \in users[c]
    /\ LeaveThese(p, {c})
    /\ UNCHANGED <<guildChannels, visits, present>>

\* removeUserFromAllChannels when the player stays: another connection takes
\* him over (ProtocolGame::login).
TakenOverInChat(p) ==
    /\ p \in present
    /\ LeaveThese(p, ChannelList(p))
    /\ guildChannels' = guildChannels \cup (Guilds \cap {GuildOf[p]})
    /\ UNCHANGED <<visits, present>>

\* Player::onCreatureDisappear.
LeaveChat(p) ==
    /\ p \in present
    /\ LeaveThese(p, ChannelList(p))
    /\ guildChannels' = guildChannels \cup (Guilds \cap {GuildOf[p]})
    /\ present' = present \ {p}
    /\ UNCHANGED visits

ChatNext ==
    \/ \E p \in Chatters :
          \/ EnterChat(p) \/ CreatePrivate(p) \/ RequestChannels(p)
          \/ TakenOverInChat(p) \/ LeaveChat(p)
          \/ \E c \in Channels : OpenChannel(p, c) \/ CloseChannel(p, c)
          \/ \E q \in Chatters : InviteToChannel(p, q) \/ ExcludeFromChannel(p, q)

ChatSpec == ChatInit /\ [][ChatNext]_chatVars

-----------------------------------------------------------------------------
\* The pointers talk and closeChannel follow are of Players in the game, those
\* apart that came into a private channel without being invited:
\* removeUserFromAllChannels does not look there.
ListenersLive ==
    \A c \in Channels : \A u \in users[c] :
        \/ u[1] \in present /\ u = Me(u[1])
        \/ <<c, u>> \in uninvited

\* A private channel lasts as long as its owner listens to it.
OwnersListen ==
    \A c \in PrivateChannels :
        owner[c] \in present /\ Me(owner[c]) \in users[c]

\* Nobody owns two private channels: getPrivateChannel would reach the first
\* only.
OneChannelEach == \A p \in Chatters : Cardinality(OwnedBy(p)) <= 1

\* What the channels, their owners and the game owe each other, at every step
\* of any players' commands, visits and take-overs.
ChatLinks == ChatTypeOK /\ ListenersLive /\ OwnersListen /\ OneChannelEach
=============================================================================
