------------------------------- MODULE Party -------------------------------
(***************************************************************************)
(* Parties (font/party.cpp): a leader, members in the order they joined,   *)
(* and invited players, with the pointers back from the players            *)
(* (Player::party, Player::invitePartyList) and the commands of game.cpp.  *)
(*                                                                         *)
(* A Party object deletes itself within the calls that empty it, so every  *)
(* pointer to it must be gone by then.  Everything here runs on the        *)
(* dispatcher thread, one command a step; the memory of a deleted party    *)
(* may serve the next one.                                                 *)
(***************************************************************************)
EXTENDS Naturals, Sequences, FiniteSets, SequencesExt

CONSTANTS
    PartyPlayers,   \* players
    Parties,        \* memory for Party objects
    NoParty,        \* NULL, for a party
    NoLeader        \* NULL, for a player

ASSUME PartyAssumption ==
    /\ NoParty \notin Parties
    /\ NoLeader \notin PartyPlayers

VARIABLES
    parties,        \* the objects: leader (NoLeader when deleted), memberList,
                    \* inviteList (as a set: it is only searched)
    partyOf,        \* Player::party
    invitations,    \* Player::invitePartyList
    inGame,         \* players in the game, not removed
    leftInvited     \* history: players that left a party whose inviteList named
                    \* them, and have not left the game since

partyVars == <<parties, partyOf, invitations, inGame, leftInvited>>

NoObject == [leader |-> NoLeader, memberList |-> <<>>, inviteList |-> {}]

Exists(x) == parties[x].leader # NoLeader

PartyTypeOK ==
    /\ parties \in [Parties -> [leader : PartyPlayers \cup {NoLeader},
                                memberList : Seq(PartyPlayers),
                                inviteList : SUBSET PartyPlayers]]
    /\ partyOf \in [PartyPlayers -> Parties \cup {NoParty}]
    /\ invitations \in [PartyPlayers -> SUBSET Parties]
    /\ inGame \subseteq PartyPlayers
    /\ leftInvited \subseteq PartyPlayers

PartyInit ==
    /\ parties = [x \in Parties |-> NoObject]
    /\ partyOf = [p \in PartyPlayers |-> NoParty]
    /\ invitations = [p \in PartyPlayers |-> {}]
    /\ inGame = {}
    /\ leftInvited = {}

-----------------------------------------------------------------------------
(* The methods of Party, from a state of the pointers to the next.         *)

Pointers == [ps |-> parties, of |-> partyOf, inv |-> invitations]

Become(s) == parties' = s.ps /\ partyOf' = s.of /\ invitations' = s.inv

IsMember(party, p) == p \in ToSet(party.memberList)

\* mutant: the invited players keep their pointers.
DisbandQuietly(s, x) ==
    LET left == {s.ps[x].leader} \cup ToSet(s.ps[x].memberList)
    IN [s EXCEPT !.ps[x] = NoObject,
                 !.of = [p \in PartyPlayers |-> IF p \in left THEN NoParty ELSE @[p]]]

\* disband, which ends with delete this.
Disband(s, x) ==
    LET left == {s.ps[x].leader} \cup ToSet(s.ps[x].memberList)
    IN [ps |-> [s.ps EXCEPT ![x] = NoObject],
        of |-> [p \in PartyPlayers |-> IF p \in left THEN NoParty ELSE s.of[p]],
        inv |-> [p \in PartyPlayers |->
                    IF p \in s.ps[x].inviteList THEN s.inv[p] \ {x} ELSE s.inv[p]]]

\* disbandParty: is nobody left to be led?
Empty(party) == party.memberList = <<>> /\ party.inviteList = {}

DisbandIfEmpty(s, x) == IF Empty(s.ps[x]) THEN Disband(s, x) ELSE s

RemoveInvite(s, x, p) ==
    IF p \notin s.ps[x].inviteList THEN s
    ELSE DisbandIfEmpty([s EXCEPT !.ps[x].inviteList = @ \ {p}, !.inv[p] = @ \ {x}], x)

\* memberList.erase of what std::find finds; nobody is in a list twice.
Dropped(list, p) ==
    IF p \in ToSet(list) THEN RemoveAt(list, CHOOSE i \in DOMAIN list : list[i] = p) ELSE list

\* passPartyLeadership: the old leader becomes the first member.
PassLeadership(s, x, p) ==
    [s EXCEPT !.ps[x] = [leader |-> p,
                         memberList |-> <<@.leader>> \o Dropped(@.memberList, p),
                         inviteList |-> @.inviteList]]

\* leaveParty.  The leader passes the leadership first, when there is somebody;
\* the player is taken out of both lists, his invitePartyList is not touched.
Leave(s, x, p) ==
    LET party == s.ps[x]
        passed == IF party.leader = p /\ party.memberList # <<>>
                  THEN PassLeadership(s, x, Head(party.memberList))
                  ELSE s
        gone == [passed EXCEPT !.ps[x] = [leader |-> @.leader,
                                          memberList |-> Dropped(@.memberList, p),
                                          inviteList |-> @.inviteList \ {p}],
                               !.of[p] = NoParty]
    IN IF gone.ps[x].leader = p THEN Disband(gone, x) ELSE DisbandIfEmpty(gone, x)

-----------------------------------------------------------------------------
(* The commands: Game::playerInviteToParty and those after it.             *)

\* Player::isInviting.
IsInviting(p, q) ==
    /\ partyOf[p] # NoParty
    /\ parties[partyOf[p]].leader = p
    /\ q \in parties[partyOf[p]].inviteList

Leads(p) == partyOf[p] # NoParty /\ parties[partyOf[p]].leader = p

Invited(s, x, q) == [s EXCEPT !.ps[x].inviteList = @ \cup {q}, !.inv[q] = @ \cup {x}]

\* The party is made after the test that the invited player has none: a player
\* may invite himself.
InviteToNewParty(p, q) ==
    /\ {p, q} \subseteq inGame
    /\ ~IsInviting(q, p)
    /\ partyOf[q] = NoParty
    /\ partyOf[p] = NoParty
    /\ \E x \in Parties :
          /\ ~Exists(x)
          /\ LET made == [Pointers EXCEPT !.ps[x].leader = p, !.of[p] = x]
             IN Become(Invited(made, x, q))
    /\ UNCHANGED <<inGame, leftInvited>>

InviteToParty(p, q) ==
    /\ {p, q} \subseteq inGame
    /\ ~IsInviting(q, p)
    /\ partyOf[q] = NoParty
    /\ Leads(p)
    /\ q \notin parties[partyOf[p]].inviteList
    /\ Become(Invited(Pointers, partyOf[p], q))
    /\ UNCHANGED <<inGame, leftInvited>>

MayJoin(p, leader) == IsInviting(leader, p) /\ partyOf[p] = NoParty

JoinParty(p, leader) ==
    LET x == partyOf[leader]
    IN /\ {p, leader} \subseteq inGame
       /\ MayJoin(p, leader)
       /\ Become([Pointers EXCEPT !.ps[x].memberList = Append(@, p),
                                  !.ps[x].inviteList = @ \ {p},
                                  !.of[p] = x,
                                  !.inv[p] = @ \ {x}])
       /\ UNCHANGED <<inGame, leftInvited>>

RevokeInvitation(p, q) ==
    /\ {p, q} \subseteq inGame
    /\ IsInviting(p, q)
    /\ Become(RemoveInvite(Pointers, partyOf[p], q))
    /\ UNCHANGED <<inGame, leftInvited>>

PassPartyLeadership(p, q) ==
    /\ {p, q} \subseteq inGame
    /\ Leads(p)
    /\ partyOf[q] = partyOf[p]
    /\ IsMember(parties[partyOf[p]], q)
    /\ Become(PassLeadership(Pointers, partyOf[p], q))
    /\ UNCHANGED <<inGame, leftInvited>>

\* A player that fights may not leave; it tries again later.
LeaveParty(p) ==
    /\ p \in inGame
    /\ partyOf[p] # NoParty
    /\ Become(Leave(Pointers, partyOf[p], p))
    /\ leftInvited' = IF p \in parties[partyOf[p]].inviteList
                      THEN leftInvited \cup {p} ELSE leftInvited
    /\ UNCHANGED inGame

\* clearPartyInvitations: removeInvite of each party of the list, none of which is
\* another's concern: one that is disbanded has nobody left but its leader.
\* removeInvite of a deleted party reads freed memory; it ends the process, or
\* finds no invitation there.
ClearInvitations(s, p) ==
    LET named == {x \in s.inv[p] : p \in s.ps[x].inviteList}
        left(x) == [s.ps[x] EXCEPT !.inviteList = @ \ {p}]
        over == {x \in named : Empty(left(x))}
    IN [ps |-> [x \in Parties |-> CASE x \in over -> NoObject
                                    [] x \in named \ over -> left(x)
                                    [] x \notin named -> s.ps[x]],
        of |-> [q \in PartyPlayers |->
                   IF q \in {s.ps[x].leader : x \in over} THEN NoParty ELSE s.of[q]],
        inv |-> [s.inv EXCEPT ![p] = {}]]

\* Player::onCreatureDisappear, of the player itself; the object is then
\* deleted.
LeaveGame(p) ==
    LET s == ClearInvitations(Pointers, p)
    IN /\ p \in inGame
       /\ inGame' = inGame \ {p}
       /\ leftInvited' = leftInvited \ {p}
       /\ Become(IF s.of[p] = NoParty THEN s ELSE Leave(s, s.of[p], p))

EnterGame(p) ==
    /\ p \notin inGame
    /\ inGame' = inGame \cup {p}
    /\ UNCHANGED <<parties, partyOf, invitations, leftInvited>>

PartyNext ==
    \/ \E p, q \in PartyPlayers :
          \/ InviteToNewParty(p, q) \/ InviteToParty(p, q) \/ JoinParty(p, q)
          \/ RevokeInvitation(p, q) \/ PassPartyLeadership(p, q)
    \/ \E p \in PartyPlayers : LeaveParty(p) \/ LeaveGame(p) \/ EnterGame(p)

PartySpec == PartyInit /\ [][PartyNext]_partyVars

-----------------------------------------------------------------------------
(* Properties.                                                             *)

\* The players a party leads, its leader included.
Team(x) == {parties[x].leader} \cup ToSet(parties[x].memberList)

\* A player's party exists and counts him among its own, and each of a party's
\* own has it as his party, in one place: after any joins, leaders passing the
\* lead, and parties that delete themselves under their callers (disband).
TeamsAgree ==
    /\ \A p \in PartyPlayers :
          partyOf[p] # NoParty => Exists(partyOf[p]) /\ p \in Team(partyOf[p])
    /\ \A x \in Parties : Exists(x) =>
          /\ \A p \in Team(x) : partyOf[p] = x
          /\ Cardinality(Team(x)) = Len(parties[x].memberList) + 1

\* The two lists of invitations name each other.  The exception is a player
\* who left a party while it was still inviting him (he invited himself):
\* leaveParty forgets his own list, which may then name a deleted party.
InvitationsAgree ==
    \A p \in PartyPlayers, x \in Parties :
        /\ p \in parties[x].inviteList => x \in invitations[p]
        /\ x \in invitations[p] =>
              p \in parties[x].inviteList \/ p \in leftInvited

\* No party leads nobody and invites nobody, or it would never be deleted.
NoEmptyParty == \A x \in Parties : Exists(x) => ~Empty(parties[x])

\* A party and its lists name players in the game only: whoever left it has
\* been taken out of every party (onCreatureDisappear).
OnlyPlayersInGame ==
    \A x \in Parties : Exists(x) => Team(x) \cup parties[x].inviteList \subseteq inGame

PartyLinks == PartyTypeOK /\ TeamsAgree /\ InvitationsAgree /\ NoEmptyParty /\ OnlyPlayersInGame
=============================================================================
