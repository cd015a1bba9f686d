------------------------------ MODULE Session ------------------------------
(***************************************************************************)
(* Characters in the game and the protocols that play them: login,         *)
(* connect, logout, releaseProtocol and deleteProtocolTask of              *)
(* font/protocolgame.cpp, placing and removing a player (game.cpp,         *)
(* player.cpp) and the use counts that decide when a Player is deleted     *)
(* (thing.h, Game::FreeThing, Game::cleanup).                              *)
(*                                                                         *)
(* Everything here runs on the dispatcher thread, one task a step.  What   *)
(* keeps a connection's objects alive is module Connection; here a         *)
(* protocol that has been asked to close is released some time after its   *)
(* login, and deleted when nothing refers to it.  A deleted protocol or    *)
(* Player may be created anew.                                             *)
(***************************************************************************)
EXTENDS Naturals, FiniteSets

CONSTANTS
    Names,          \* characters
    Protocols,      \* ProtocolGame objects
    Objects,        \* Player objects
    Nobody,         \* NULL, and an id that nobody has any more
    KickOnLogin,    \* the values KICK_ON_LOGIN has while the server runs: the
                    \* configuration can be reloaded
    MaxPending      \* bound on the releases of a Player that wait for cleanup
                    \* when a client comes

ASSUME ConstantsAssumption ==
    /\ Nobody \notin Names \cup Protocols \cup Objects
    /\ IsFiniteSet(Protocols)
    /\ KickOnLogin \subseteq BOOLEAN
    /\ MaxPending \in Nat

VARIABLES
    prot,       \* the protocols: st (none, queued, open), name asked for,
                \* player, closing, event: is a connect task scheduled, and id,
                \* the player it was scheduled for
    obj,        \* the Player objects: live, name, client, useCount, connecting,
                \* removed
    online,     \* Player::listPlayer
    pending     \* ToReleaseThings, how many times each object is in it

vars == <<prot, obj, online, pending>>

NoProtocol == [st |-> "none", name |-> Nobody, player |-> Nobody, closing |-> FALSE,
               event |-> FALSE, id |-> Nobody]

NoObject == [live |-> FALSE, name |-> Nobody, client |-> Nobody, useCount |-> 0,
             connecting |-> FALSE, removed |-> FALSE]

TypeOK ==
    /\ prot \in [Protocols -> [st : {"none", "queued", "open"},
                               name : Names \cup {Nobody},
                               player : Objects \cup {Nobody}, closing : BOOLEAN,
                               event : BOOLEAN, id : Objects \cup {Nobody}]]
    /\ obj \in [Objects -> [live : BOOLEAN, name : Names \cup {Nobody},
                            client : Protocols \cup {Nobody}, useCount : Nat,
                            connecting : BOOLEAN, removed : BOOLEAN]]
    /\ online \subseteq Objects
    /\ pending \in [Objects -> Nat]
    /\ \A p \in Objects : pending[p] <= obj[p].useCount

Init ==
    /\ prot = [g \in Protocols |-> NoProtocol]
    /\ obj = [p \in Objects |-> NoObject]
    /\ online = {}
    /\ pending = [p \in Objects |-> 0]

-----------------------------------------------------------------------------
\* ProtocolGame::parseFirstPacket queues the login.
FirstPacket(g, n) ==
    /\ prot[g].st = "none"
    /\ \A p \in Objects : pending[p] <= MaxPending
    /\ prot' = [prot EXCEPT ![g].st = "queued", ![g].name = n]
    /\ UNCHANGED <<obj, online, pending>>

\* The client closes the connection, or it fails.
ClientCloses(g) ==
    /\ prot[g].st # "none"
    /\ ~prot[g].closing
    /\ prot' = [prot EXCEPT ![g].closing = TRUE]
    /\ UNCHANGED <<obj, online, pending>>

\* mutant: a character that has just been placed is not looked for.
PlayingElsewhere(n) == {p \in online : obj[p].name = n /\ obj[p].client = Nobody}

\* getPlayerByName.
Playing(n) == {p \in online : obj[p].name = n /\ ~obj[p].removed}

\* new Player(name, this).
NewPlayer(g, uses) == [NoObject EXCEPT !.live = TRUE, !.name = prot[g].name,
                                       !.client = g, !.useCount = uses]

\* login of a character that is not in the game, refused: by a ban, the state
\* of the game, the waiting list, or because it cannot be loaded or placed.
\* The Player stays with the protocol until that is deleted.
LoginRefused(g, p) ==
    /\ prot[g].st = "queued"
    /\ Playing(prot[g].name) = {}
    /\ ~obj[p].live
    /\ obj' = [obj EXCEPT ![p] = NewPlayer(g, 1)]
    /\ prot' = [prot EXCEPT ![g].st = "open", ![g].player = p, ![g].closing = TRUE]
    /\ UNCHANGED <<online, pending>>

\* mutant: the protocol's own use is not counted.
UsesWhenPlaced == 1

\* mutant: the game counts its use twice.
UsesTwice == 3

\* The protocol and the game each count a use (login, internalPlaceCreature).
UsesOnPlace == 2

LoginPlaced(g, p) ==
    /\ prot[g].st = "queued"
    /\ Playing(prot[g].name) = {}
    /\ ~obj[p].live
    /\ obj' = [obj EXCEPT ![p] = NewPlayer(g, UsesOnPlace)]
    /\ prot' = [prot EXCEPT ![g].st = "open", ![g].player = p]
    /\ online' = online \cup {p}
    /\ UNCHANGED pending

\* The onLogin script refuses: onPlacedCreature kicks the player within
\* placeCreature, and login goes on to its end.
LoginKicked(g, p) ==
    /\ prot[g].st = "queued"
    /\ Playing(prot[g].name) = {}
    /\ ~obj[p].live
    /\ obj' = [obj EXCEPT ![p] = [NewPlayer(g, UsesOnPlace) EXCEPT !.removed = TRUE]]
    /\ prot' = [prot EXCEPT ![g].st = "open", ![g].player = p, ![g].closing = TRUE]
    /\ pending' = [pending EXCEPT ![p] = @ + 1]
    /\ UNCHANGED online

LoginTwice(g) ==
    /\ prot[g].st = "queued"
    /\ Playing(prot[g].name) # {}
    /\ TRUE \in KickOnLogin
    /\ prot' = [prot EXCEPT ![g].st = "open", ![g].closing = TRUE]
    /\ UNCHANGED <<obj, online, pending>>

\* Player::disconnect.
Disconnected(g) == [prot EXCEPT ![g].closing = TRUE]

\* login of a character that another protocol plays: that one is disconnected
\* and connect is tried in a second.
LoginTakesOver(g) ==
    /\ prot[g].st = "queued"
    /\ FALSE \in KickOnLogin
    /\ \E p \in Playing(prot[g].name) :
          /\ obj[p].client # Nobody
          /\ obj' = [obj EXCEPT ![p].connecting = TRUE]
          /\ prot' = [Disconnected(obj[p].client)
                        EXCEPT ![g].st = "open", ![g].event = TRUE, ![g].id = p]
    /\ UNCHANGED <<online, pending>>

\* connect: the protocol takes the player over.
TakeOver(g, p) ==
    /\ obj' = [obj EXCEPT ![p].useCount = @ + 1, ![p].connecting = FALSE,
                          ![p].client = g]
    /\ prot' = [prot EXCEPT ![g].st = "open", ![g].event = FALSE, ![g].id = Nobody,
                            ![g].player = p]
    /\ UNCHANGED <<online, pending>>

\* login of a character in the game that no protocol plays.
LoginReconnects(g) ==
    /\ prot[g].st = "queued"
    /\ FALSE \in KickOnLogin
    /\ \E p \in Playing(prot[g].name) : obj[p].client = Nobody /\ TakeOver(g, p)

\* mutant: whoever plays the character is replaced.
TakesAnyway(p) == p \in online /\ ~obj[p].removed

\* May connect take the player of this id?
MayConnect(p) == p \in online /\ ~obj[p].removed /\ obj[p].client = Nobody

\* The scheduled connect.
Connect(g) ==
    /\ prot[g].event
    /\ MayConnect(prot[g].id)
    /\ TakeOver(g, prot[g].id)

ConnectFails(g) ==
    /\ prot[g].event
    /\ ~MayConnect(prot[g].id)
    /\ prot' = [prot EXCEPT ![g].event = FALSE, ![g].id = Nobody, ![g].closing = TRUE]
    /\ UNCHANGED <<obj, online, pending>>

-----------------------------------------------------------------------------
\* removeCreature: the player leaves the game and its use of it is released.
Remove(p) ==
    /\ online' = online \ {p}
    /\ obj' = [obj EXCEPT ![p].removed = TRUE]
    /\ pending' = [pending EXCEPT ![p] = @ + 1]

\* ProtocolGame::logout, by a packet, by a kick or after 24 pings without an
\* answer.
Logout(g) ==
    LET p == prot[g].player
    IN /\ p # Nobody
       /\ prot' = Disconnected(g)
       /\ IF p \in online /\ ~obj[p].removed
          THEN Remove(p)
          ELSE UNCHANGED <<obj, online, pending>>

\* Player::kickPlayer of a player without a client.
KickUnplayed(p) ==
    /\ p \in online
    /\ obj[p].client = Nobody
    /\ Remove(p)
    /\ UNCHANGED prot

\* Player::sendPing: a player whose client is gone leaves when it may.
XLog(p) ==
    /\ p \in online
    /\ obj[p].client = Nobody
    /\ ~obj[p].connecting
    /\ Remove(p)
    /\ UNCHANGED prot

\* Game::doDeathDelay: the player is removed, the client stays connected.
Die(p) ==
    /\ p \in online
    /\ Remove(p)
    /\ UNCHANGED prot

\* mutant: the player keeps the pointer.
KeepsClient(g, o) == o

\* ProtocolGame::releaseProtocol.
ClientReleased(g, o) ==
    LET p == prot[g].player
    IN IF p # Nobody /\ o[p].client = g THEN [o EXCEPT ![p].client = Nobody] ELSE o

\* The references of connect (messages are counted in module Connection).
Unreferenced(g) == ~prot[g].event

\* releaseProtocol while something refers to the protocol: tried again later.
ReleaseLater(g) ==
    /\ prot[g].st = "open"
    /\ prot[g].closing
    /\ obj' = ClientReleased(g, obj)
    /\ UNCHANGED <<prot, online, pending>>

\* releaseProtocol and deleteProtocolTask.
Release(g) ==
    LET p == prot[g].player
    IN /\ prot[g].st = "open"
       /\ prot[g].closing
       /\ Unreferenced(g)
       /\ obj' = ClientReleased(g, obj)
       /\ pending' = IF p = Nobody THEN pending ELSE [pending EXCEPT ![p] = @ + 1]
       /\ prot' = [prot EXCEPT ![g] = NoProtocol]
       /\ UNCHANGED online

\* Game::cleanup: releaseThing2 for everything in ToReleaseThings.  The id of a
\* deleted Player is nobody's.
Cleanup ==
    LET left(p) == obj[p].useCount - pending[p]
        Deleted == {p \in Objects : pending[p] > 0 /\ left(p) <= 0}
    IN /\ \E p \in Objects : pending[p] > 0
       /\ obj' = [p \in Objects |-> IF p \in Deleted THEN NoObject
                                    ELSE [obj[p] EXCEPT !.useCount = left(p)]]
       /\ prot' = [g \in Protocols |-> IF prot[g].id \in Deleted
                                       THEN [prot[g] EXCEPT !.id = Nobody]
                                       ELSE prot[g]]
       /\ pending' = [p \in Objects |-> 0]
       /\ UNCHANGED online

Login(g) ==
    \/ \E p \in Objects : LoginRefused(g, p) \/ LoginPlaced(g, p) \/ LoginKicked(g, p)
    \/ LoginTwice(g)
    \/ LoginTakesOver(g)
    \/ LoginReconnects(g)

ProtocolNext(g) ==
    \/ \E n \in Names : FirstPacket(g, n)
    \/ ClientCloses(g) \/ Login(g) \/ Connect(g) \/ ConnectFails(g)
    \/ Logout(g) \/ ReleaseLater(g) \/ Release(g)

Next ==
    \/ \E g \in Protocols : ProtocolNext(g)
    \/ \E p \in Objects : KickUnplayed(p) \/ XLog(p) \/ Die(p)
    \/ Cleanup

Spec == Init /\ [][Next]_vars

\* Queued tasks and due events run, creatures think and cleanup follows them.
\* Clients, kicks and deaths may never come.
FairSpec ==
    /\ Spec
    /\ \A g \in Protocols : /\ WF_vars(Login(g))
                            /\ WF_vars(Connect(g) \/ ConnectFails(g))
                            /\ WF_vars(Release(g))
    /\ \A p \in Objects : WF_vars(XLog(p))
    /\ WF_vars(Cleanup)

-----------------------------------------------------------------------------
(* Properties.                                                             *)

\* A player's client is a protocol that exists and plays this very player:
\* Player::client never dangles, whatever takeovers, releases and late connects
\* came in between (releaseProtocol clears it only when it is this).
ClientPlaysPlayer ==
    \A p \in Objects :
        obj[p].client # Nobody =>
            prot[obj[p].client].st = "open" /\ prot[obj[p].client].player = p

\* The use count is the number of its users: the protocols that hold the
\* player, the game, and the releases that wait for cleanup.  A count
\* that is too low deletes a Player still pointed at, one too high keeps it
\* for ever.
UsesBalance ==
    \A p \in Objects :
        obj[p].useCount = Cardinality({g \in Protocols : prot[g].player = p})
                          + pending[p] + (IF p \in online THEN 1 ELSE 0)

\* No character is in the game twice, with logins of several connections and
\* takeovers in any order (ALLOW_CLONES off).
CharacterOnce ==
    \A p, q \in online : obj[p].name = obj[q].name => p = q

\* At most one protocol that is not closing plays a player.
OneSessionEach ==
    \A g, h \in Protocols :
        (/\ prot[g].player # Nobody
         /\ prot[g].player = prot[h].player
         /\ ~prot[g].closing
         /\ ~prot[h].closing)
            => g = h

\* One character, one player, one client: what login's take-over is for.
NoSecondSession == CharacterOnce /\ OneSessionEach

\* Has p left the game, and does nothing but closing protocols hold it?
Leaving(p) ==
    /\ obj[p].removed
    /\ \A g \in Protocols : prot[g].player = p => prot[g].closing

\* A player that has left and whose protocols are closing is deleted.
LeftIsDeleted == \A p \in Objects : Leaving(p) ~> ~obj[p].live

\* "Occurs when the player closes the game without logging out" (player.cpp,
\* sendPing): a player without a client leaves the game, unless a client comes
\* back for it.
XLogLeaves ==
    \A p \in Objects :
        (p \in online /\ obj[p].client = Nobody)
            ~> (p \notin online \/ obj[p].client # Nobody)
=============================================================================
