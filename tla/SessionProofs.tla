--------------------------- MODULE SessionProofs ---------------------------
(* Proofs about the player sessions, for any set of characters, protocols   *)
(* and Player objects.                                                      *)
EXTENDS Session, FiniteSetTheorems, TLAPS

ProtocolState == [st : {"none", "queued", "open"}, name : Names \cup {Nobody},
                  player : Objects \cup {Nobody}, closing : BOOLEAN,
                  event : BOOLEAN, id : Objects \cup {Nobody}]

PlayerState == [live : BOOLEAN, name : Names \cup {Nobody},
                client : Protocols \cup {Nobody}, useCount : Nat,
                connecting : BOOLEAN, removed : BOOLEAN]

\* TypeOK without its last conjunct, which follows from the balance of uses.
Types ==
    /\ prot \in [Protocols -> ProtocolState]
    /\ obj \in [Objects -> PlayerState]
    /\ online \subseteq Objects
    /\ pending \in [Objects -> Nat]

\* A protocol that has not run its login, or waits for a connect, holds no
\* player; one that has received its first packet knows the character.
ProtocolShape ==
    \A g \in Protocols :
        /\ (prot[g].st # "open" \/ prot[g].event) => prot[g].player = Nobody
        /\ prot[g].event => prot[g].st = "open"
        /\ prot[g].st # "none" => prot[g].name \in Names

\* A protocol that plays and is not closing is the client of its player.
HolderIsClient ==
    \A g \in Protocols :
        (prot[g].player # Nobody /\ ~prot[g].closing)
            => obj[prot[g].player].client = g

\* A deleted Player has no client and no uses.
DeadIsReset ==
    \A p \in Objects : ~obj[p].live => obj[p].client = Nobody /\ obj[p].useCount = 0

\* A player in the game has not been removed and has a character's name.
OnlineIsIn == \A p \in online : ~obj[p].removed /\ obj[p].name \in Names

\* The inductive invariant.
IInv ==
    /\ Types
    /\ ProtocolShape
    /\ ClientPlaysPlayer
    /\ HolderIsClient
    /\ DeadIsReset
    /\ OnlineIsIn
    /\ CharacterOnce
    /\ UsesBalance

-----------------------------------------------------------------------------
\* The protocols that hold a player, and how many they are.
Holders(p) == {g \in Protocols : prot[g].player = p}

Uses(p) == Cardinality(Holders(p))

\* The number of holders is a number, and none when there is no holder.
LEMMA UsesIsNat ==
    ASSUME NEW p
    PROVE  /\ Uses(p) \in Nat /\ Uses(p)' \in Nat
           /\ Uses(p) = 0 <=> Holders(p) = {}
<1>1. Holders(p) \in SUBSET Protocols /\ Holders(p)' \in SUBSET Protocols
  BY DEF Holders
<1>2. IsFiniteSet(Holders(p)) /\ IsFiniteSet(Holders(p)')
  BY <1>1, FS_Subset, ConstantsAssumption
<1> QED BY <1>2, FS_CardinalityType, FS_EmptySet DEF Uses

\* A protocol without a player that takes one adds a holder to that player and
\* to no other.
LEMMA HolderJoins ==
    ASSUME NEW g \in Protocols, NEW p \in Objects,
           prot[g].player = Nobody, prot'[g].player = p,
           \A h \in Protocols \ {g} : prot'[h].player = prot[h].player
    PROVE  /\ Uses(p)' = Uses(p) + 1
           /\ \A q \in Objects \ {p} : Uses(q)' = Uses(q)
<1>1. Nobody \notin Objects
  BY ConstantsAssumption
<1>2. Holders(p)' = Holders(p) \cup {g} /\ g \notin Holders(p)
  BY <1>1 DEF Holders
<1>3. IsFiniteSet(Holders(p))
  BY FS_Subset, ConstantsAssumption DEF Holders
<1>4. Uses(p)' = Uses(p) + 1
  BY <1>2, <1>3, FS_AddElement DEF Uses
<1>5. ASSUME NEW q \in Objects \ {p}
      PROVE  Holders(q)' = Holders(q)
  BY <1>1 DEF Holders
<1> QED BY <1>4, <1>5 DEF Uses

\* A protocol that lets go of its player takes a holder from that player and
\* from no other.
LEMMA HolderLeaves ==
    ASSUME NEW g \in Protocols, NEW p \in Objects,
           prot[g].player = p, prot'[g].player = Nobody,
           \A h \in Protocols \ {g} : prot'[h].player = prot[h].player
    PROVE  /\ Uses(p) = Uses(p)' + 1
           /\ \A q \in Objects \ {p} : Uses(q)' = Uses(q)
<1>1. Nobody \notin Objects
  BY ConstantsAssumption
<1>2. Holders(p) = Holders(p)' \cup {g} /\ g \notin Holders(p)'
  BY <1>1 DEF Holders
<1>3. IsFiniteSet(Holders(p)')
  BY FS_Subset, ConstantsAssumption DEF Holders
<1>4. Uses(p) = Uses(p)' + 1
  BY <1>2, <1>3, FS_AddElement DEF Uses
<1>5. ASSUME NEW q \in Objects \ {p}
      PROVE  Holders(q)' = Holders(q)
  BY <1>1 DEF Holders
<1> QED BY <1>4, <1>5 DEF Uses

\* Steps that change no protocol's player leave the holders alone.
LEMMA HoldersStay ==
    ASSUME \A h \in Protocols : prot'[h].player = prot[h].player
    PROVE  \A p : Uses(p)' = Uses(p)
<1>1. ASSUME NEW p
      PROVE  Holders(p)' = Holders(p)
  BY DEF Holders
<1> QED BY <1>1 DEF Uses

\* The balance in terms of Uses.
LEMMA BalanceOfUses ==
    UsesBalance <=> \A p \in Objects :
        obj[p].useCount = Uses(p) + pending[p] + (IF p \in online THEN 1 ELSE 0)
BY DEF UsesBalance, Uses, Holders

\* A Player that is not live has no holder, no pending release and is not in
\* the game: its memory may be given to another.
LEMMA DeadIsUnused ==
    ASSUME IInv, NEW p \in Objects, ~obj[p].live
    PROVE  /\ Uses(p) = 0
           /\ \A g \in Protocols : prot[g].player # p
           /\ pending[p] = 0
           /\ p \notin online
           /\ obj[p].client = Nobody
<1>1. obj[p].client = Nobody /\ obj[p].useCount = 0
  BY DEF IInv, DeadIsReset
<1>2. 0 = Uses(p) + pending[p] + (IF p \in online THEN 1 ELSE 0)
  BY <1>1, BalanceOfUses DEF IInv
<1>3. Uses(p) \in Nat /\ pending[p] \in Nat
  BY UsesIsNat DEF IInv, Types
<1>4. Uses(p) = 0 /\ pending[p] = 0 /\ p \notin online
  BY <1>2, <1>3
<1>5. Holders(p) = {}
  BY <1>4, UsesIsNat
<1> QED BY <1>1, <1>4, <1>5 DEF Holders

-----------------------------------------------------------------------------
\* A protocol changes, but neither lets go of its player nor takes one.
LEMMA ProtocolOnly ==
    ASSUME IInv, UNCHANGED <<obj, online, pending>>,
           NEW g \in Protocols, NEW r \in ProtocolState,
           prot' = [prot EXCEPT ![g] = r],
           r.player = prot[g].player,
           (r.st # "open" \/ r.event) => r.player = Nobody,
           r.event => r.st = "open",
           r.st # "none", r.name \in Names,
           prot[g].st = "open" => r.st = "open",
           prot[g].closing => r.closing
    PROVE  IInv'
<1>1. Types' /\ ProtocolShape'
  BY DEF IInv, Types, ProtocolShape
<1>2. \A h \in Protocols : /\ prot'[h].player = prot[h].player
                           /\ prot[h].st = "open" => prot'[h].st = "open"
                           /\ prot[h].closing => prot'[h].closing
  BY DEF IInv, Types
<1>3. ClientPlaysPlayer'
  <2>1. \A p \in Objects : obj[p].client # Nobody => obj[p].client \in Protocols
    BY DEF IInv, Types, PlayerState
  <2> QED BY <1>2, <2>1 DEF IInv, ClientPlaysPlayer
<1>4. HolderIsClient'
  BY <1>2 DEF IInv, HolderIsClient
<1>5. UsesBalance'
  <2>1. \A p : Uses(p)' = Uses(p)
    BY <1>2, HoldersStay
  <2>2. \A p \in Objects :
           obj'[p].useCount = Uses(p)' + pending'[p] + (IF p \in online' THEN 1 ELSE 0)
    BY <2>1, BalanceOfUses DEF IInv
  <2> QED BY <2>2 DEF UsesBalance, Uses, Holders
<1>6. DeadIsReset' /\ OnlineIsIn' /\ CharacterOnce'
  BY DEF IInv, DeadIsReset, OnlineIsIn, CharacterOnce
<1> QED BY <1>1, <1>3, <1>4, <1>5, <1>6 DEF IInv

\* What the invariant says of one protocol.
LEMMA OneProtocol ==
    ASSUME IInv, NEW g \in Protocols
    PROVE  /\ prot[g] \in ProtocolState
           /\ (prot[g].st # "open" \/ prot[g].event) => prot[g].player = Nobody
           /\ prot[g].event => prot[g].st = "open"
           /\ prot[g].st # "none" => prot[g].name \in Names
BY DEF IInv, Types, ProtocolShape

LEMMA FirstPacketStep ==
    ASSUME IInv, NEW g \in Protocols, NEW n \in Names, FirstPacket(g, n)
    PROVE  IInv'
<1> DEFINE r == [prot[g] EXCEPT !.st = "queued", !.name = n]
<1>1. prot' = [prot EXCEPT ![g] = r]
  BY DEF FirstPacket
<1>2. r \in ProtocolState /\ r.player = prot[g].player /\ r.player = Nobody
      /\ r.st = "queued" /\ r.name = n /\ (prot[g].closing => r.closing) /\ ~r.event
  BY OneProtocol DEF ProtocolState, FirstPacket
<1> HIDE DEF r
<1> QED BY <1>1, <1>2, ProtocolOnly DEF FirstPacket

LEMMA ClosingStep ==
    ASSUME IInv, NEW g \in Protocols,
           ClientCloses(g) \/ LoginTwice(g) \/ ConnectFails(g)
    PROVE  IInv'
<1>1. CASE ClientCloses(g)
  <2> DEFINE r == [prot[g] EXCEPT !.closing = TRUE]
  <2>1. prot' = [prot EXCEPT ![g] = r]
    BY <1>1 DEF ClientCloses
  <2>2. r \in ProtocolState /\ r.player = prot[g].player /\ r.st = prot[g].st
        /\ r.name = prot[g].name /\ r.event = prot[g].event /\ r.closing
    BY OneProtocol DEF ProtocolState
  <2>3. /\ (r.st # "open" \/ r.event) => r.player = Nobody
        /\ r.event => r.st = "open"
        /\ r.st # "none" /\ r.name \in Names
        /\ prot[g].st = "open" => r.st = "open"
    BY <1>1, <2>2, OneProtocol DEF ClientCloses
  <2>4. UNCHANGED <<obj, online, pending>>
    BY <1>1 DEF ClientCloses
  <2> HIDE DEF r
  <2> QED BY <2>1, <2>2, <2>3, <2>4, ProtocolOnly
<1>2. CASE LoginTwice(g)
  <2> DEFINE r == [prot[g] EXCEPT !.st = "open", !.closing = TRUE]
  <2>1. prot' = [prot EXCEPT ![g] = r]
    BY <1>2 DEF LoginTwice
  <2>2. r \in ProtocolState /\ r.player = prot[g].player /\ r.st = "open"
        /\ r.name = prot[g].name /\ r.closing /\ r.event = prot[g].event
    BY OneProtocol DEF ProtocolState
  <2>3. /\ (r.st # "open" \/ r.event) => r.player = Nobody
        /\ r.event => r.st = "open"
        /\ r.st # "none" /\ r.name \in Names
        /\ prot[g].st = "open" => r.st = "open"
    BY <1>2, <2>2, OneProtocol DEF LoginTwice
  <2>4. UNCHANGED <<obj, online, pending>>
    BY <1>2 DEF LoginTwice
  <2> HIDE DEF r
  <2> QED BY <2>1, <2>2, <2>3, <2>4, ProtocolOnly
<1>3. CASE ConnectFails(g)
  <2> DEFINE r == [prot[g] EXCEPT !.event = FALSE, !.id = Nobody, !.closing = TRUE]
  <2>1. prot' = [prot EXCEPT ![g] = r]
    BY <1>3 DEF ConnectFails
  <2>2. r \in ProtocolState /\ r.player = prot[g].player /\ r.st = prot[g].st
        /\ r.name = prot[g].name /\ r.closing /\ ~r.event
    BY OneProtocol DEF ProtocolState
  <2>3. /\ (r.st # "open" \/ r.event) => r.player = Nobody
        /\ r.event => r.st = "open"
        /\ r.st # "none" /\ r.name \in Names
        /\ prot[g].st = "open" => r.st = "open"
    BY <1>3, <2>2, OneProtocol DEF ConnectFails
  <2>4. UNCHANGED <<obj, online, pending>>
    BY <1>3 DEF ConnectFails
  <2> HIDE DEF r
  <2> QED BY <2>1, <2>2, <2>3, <2>4, ProtocolOnly
<1> QED BY <1>1, <1>2, <1>3

\* A login that makes a new Player: the object was free, the protocol held
\* none, and the uses of the object count the protocol, the game if the player
\* is in it, and a pending release.
LEMMA PlayerMade ==
    ASSUME IInv, NEW g \in Protocols, NEW p \in Objects,
           prot[g].st = "queued", Playing(prot[g].name) = {}, ~obj[p].live,
           NEW r \in ProtocolState, prot' = [prot EXCEPT ![g] = r],
           r.player = p, r.st = "open", r.name = prot[g].name, ~r.event,
           NEW o \in PlayerState, obj' = [obj EXCEPT ![p] = o],
           o.live, o.name = prot[g].name, o.client = g,
           pending' \in [Objects -> Nat],
           \A q \in Objects \ {p} : pending'[q] = pending[q],
           online' \in {online, online \cup {p}},
           p \in online' => ~o.removed,
           o.useCount = 1 + pending'[p] + (IF p \in online' THEN 1 ELSE 0)
    PROVE  IInv'
<1>1. prot[g].player = Nobody /\ prot[g].name \in Names
  BY OneProtocol
<1>2. /\ Uses(p) = 0 /\ p \notin online
      /\ \A h \in Protocols : prot[h].player # p
  BY DeadIsUnused
<1>3. /\ prot'[g] = r /\ \A h \in Protocols \ {g} : prot'[h] = prot[h]
      /\ obj'[p] = o /\ \A q \in Objects \ {p} : obj'[q] = obj[q]
  BY DEF IInv, Types
<1>4. Types' /\ ProtocolShape'
  BY <1>1 DEF IInv, Types, ProtocolShape
<1>5. ClientPlaysPlayer'
  <2>1. \A q \in Objects \ {p} : obj[q].client # Nobody => obj[q].client # g
    BY <1>1, ConstantsAssumption DEF IInv, ClientPlaysPlayer
  <2>2. \A q \in Objects : obj[q].client \in Protocols \cup {Nobody}
    BY DEF IInv, Types, PlayerState
  <2> QED BY <1>3, <2>1, <2>2 DEF IInv, ClientPlaysPlayer
<1>6. HolderIsClient'
  <2>1. \A h \in Protocols : prot[h].player \in Objects \cup {Nobody}
    BY DEF IInv, Types, ProtocolState
  <2> QED BY <1>2, <1>3, <2>1 DEF IInv, HolderIsClient
<1>7. DeadIsReset'
  BY <1>3 DEF IInv, DeadIsReset
<1>8. OnlineIsIn'
  BY <1>1, <1>3 DEF IInv, Types, OnlineIsIn
<1>9. CharacterOnce'
  <2>1. \A q \in online : obj[q].name # prot[g].name
    BY DEF IInv, OnlineIsIn, Playing
  <2> QED BY <1>2, <1>3, <2>1 DEF IInv, Types, CharacterOnce
<1>10. UsesBalance'
  <2>1. Uses(p)' = 1 /\ \A q \in Objects \ {p} : Uses(q)' = Uses(q)
    BY <1>1, <1>2, <1>3, HolderJoins
  <2>2. ASSUME NEW q \in Objects
        PROVE  obj'[q].useCount
                   = Uses(q)' + pending'[q] + (IF q \in online' THEN 1 ELSE 0)
    <3>1. CASE q = p
      BY <1>3, <2>1, <3>1
    <3>2. CASE q # p
      <4>1. obj[q].useCount = Uses(q) + pending[q] + (IF q \in online THEN 1 ELSE 0)
        BY BalanceOfUses DEF IInv
      <4>2. q \in online' <=> q \in online
        BY <3>2
      <4> QED BY <1>3, <2>1, <3>2, <4>1, <4>2
    <3> QED BY <3>1, <3>2
  <2> QED BY <2>2 DEF UsesBalance, Uses, Holders
<1> QED BY <1>4, <1>5, <1>6, <1>7, <1>8, <1>9, <1>10 DEF IInv

LEMMA LoginRefusedStep ==
    ASSUME IInv, NEW g \in Protocols, NEW p \in Objects, LoginRefused(g, p)
    PROVE  IInv'
<1> DEFINE r == [prot[g] EXCEPT !.st = "open", !.player = p, !.closing = TRUE]
           o == NewPlayer(g, 1)
<1>1. prot' = [prot EXCEPT ![g] = r] /\ obj' = [obj EXCEPT ![p] = o]
  BY DEF LoginRefused
<1>2. r \in ProtocolState /\ r.player = p /\ r.st = "open" /\ r.name = prot[g].name
      /\ ~r.event
  BY OneProtocol DEF ProtocolState, LoginRefused
<1>3. o \in PlayerState /\ o.live /\ o.name = prot[g].name /\ o.client = g
      /\ o.useCount = 1
  BY OneProtocol DEF NewPlayer, NoObject, PlayerState, ProtocolState, UsesOnPlace
<1>4. pending[p] = 0 /\ p \notin online /\ pending \in [Objects -> Nat]
  BY DeadIsUnused DEF LoginRefused, IInv, Types
<1>5. /\ pending' \in [Objects -> Nat] /\ pending'[p] = 0
      /\ \A q \in Objects \ {p} : pending'[q] = pending[q]
      /\ online' \in {online, online \cup {p}} /\ p \notin online'
  BY <1>4 DEF LoginRefused
<1>6. /\ p \in online' => ~o.removed
      /\ o.useCount = 1 + pending'[p] + (IF p \in online' THEN 1 ELSE 0)
  BY <1>3, <1>5
<1>7. prot[g].st = "queued" /\ Playing(prot[g].name) = {} /\ ~obj[p].live
  BY DEF LoginRefused
<1> HIDE DEF r, o
<1> QED BY <1>1, <1>2, <1>3, <1>5, <1>6, <1>7, PlayerMade

LEMMA LoginPlacedStep ==
    ASSUME IInv, NEW g \in Protocols, NEW p \in Objects, LoginPlaced(g, p)
    PROVE  IInv'
<1> DEFINE r == [prot[g] EXCEPT !.st = "open", !.player = p]
           o == NewPlayer(g, UsesOnPlace)
<1>1. prot' = [prot EXCEPT ![g] = r] /\ obj' = [obj EXCEPT ![p] = o]
  BY DEF LoginPlaced
<1>2. r \in ProtocolState /\ r.player = p /\ r.st = "open" /\ r.name = prot[g].name
      /\ ~r.event
  BY OneProtocol DEF ProtocolState, LoginPlaced
<1>3. o \in PlayerState /\ o.live /\ o.name = prot[g].name /\ o.client = g
      /\ o.useCount = 2 /\ ~o.removed
  BY OneProtocol DEF NewPlayer, NoObject, PlayerState, ProtocolState, UsesOnPlace
<1>4. pending[p] = 0 /\ p \notin online /\ pending \in [Objects -> Nat]
  BY DeadIsUnused DEF LoginPlaced, IInv, Types
<1>5. /\ pending' \in [Objects -> Nat] /\ pending'[p] = 0
      /\ \A q \in Objects \ {p} : pending'[q] = pending[q]
      /\ online' \in {online, online \cup {p}} /\ p \in online'
  BY <1>4 DEF LoginPlaced
<1>6. /\ p \in online' => ~o.removed
      /\ o.useCount = 1 + pending'[p] + (IF p \in online' THEN 1 ELSE 0)
  BY <1>3, <1>5
<1>7. prot[g].st = "queued" /\ Playing(prot[g].name) = {} /\ ~obj[p].live
  BY DEF LoginPlaced
<1> HIDE DEF r, o
<1> QED BY <1>1, <1>2, <1>3, <1>5, <1>6, <1>7, PlayerMade

LEMMA LoginKickedStep ==
    ASSUME IInv, NEW g \in Protocols, NEW p \in Objects, LoginKicked(g, p)
    PROVE  IInv'
<1> DEFINE r == [prot[g] EXCEPT !.st = "open", !.player = p, !.closing = TRUE]
           o == [NewPlayer(g, UsesOnPlace) EXCEPT !.removed = TRUE]
<1>1. prot' = [prot EXCEPT ![g] = r] /\ obj' = [obj EXCEPT ![p] = o]
  BY DEF LoginKicked
<1>2. r \in ProtocolState /\ r.player = p /\ r.st = "open" /\ r.name = prot[g].name
      /\ ~r.event
  BY OneProtocol DEF ProtocolState, LoginKicked
<1>3. o \in PlayerState /\ o.live /\ o.name = prot[g].name /\ o.client = g
      /\ o.useCount = 2
  BY OneProtocol DEF NewPlayer, NoObject, PlayerState, ProtocolState, UsesOnPlace
<1>4. pending[p] = 0 /\ p \notin online /\ pending \in [Objects -> Nat]
  BY DeadIsUnused DEF LoginKicked, IInv, Types
<1>5. /\ pending' \in [Objects -> Nat] /\ pending'[p] = 1
      /\ \A q \in Objects \ {p} : pending'[q] = pending[q]
      /\ online' \in {online, online \cup {p}} /\ p \notin online'
  BY <1>4 DEF LoginKicked
<1>6. /\ p \in online' => ~o.removed
      /\ o.useCount = 1 + pending'[p] + (IF p \in online' THEN 1 ELSE 0)
  BY <1>3, <1>5
<1>7. prot[g].st = "queued" /\ Playing(prot[g].name) = {} /\ ~obj[p].live
  BY DEF LoginKicked
<1> HIDE DEF r, o
<1> QED BY <1>1, <1>2, <1>3, <1>5, <1>6, <1>7, PlayerMade

-----------------------------------------------------------------------------
\* A player that leaves the game: the game's use of it becomes a release that
\* waits for cleanup.  The protocols change by no more than closing.
LEMMA PlayerRemoved ==
    ASSUME IInv, NEW p \in online, Remove(p), Types', ProtocolShape',
           \A h \in Protocols : /\ prot'[h].player = prot[h].player
                                /\ prot'[h].st = prot[h].st
                                /\ prot[h].closing => prot'[h].closing
    PROVE  IInv'
<1> DEFINE o == [obj[p] EXCEPT !.removed = TRUE]
<1>1. p \in Objects /\ obj[p] \in PlayerState /\ obj' = [obj EXCEPT ![p] = o]
  BY DEF IInv, Types, Remove
<1>2. /\ obj'[p].live = obj[p].live /\ obj'[p].name = obj[p].name
      /\ obj'[p].client = obj[p].client /\ obj'[p].useCount = obj[p].useCount
      /\ \A q \in Objects \ {p} : obj'[q] = obj[q]
  BY <1>1 DEF IInv, Types, PlayerState
<1>3. /\ pending'[p] = pending[p] + 1 /\ p \notin online' /\ online' \subseteq online
      /\ \A q \in Objects \ {p} : pending'[q] = pending[q]
      /\ \A q \in Objects \ {p} : q \in online' <=> q \in online
  BY <1>1 DEF IInv, Types, Remove
<1>4. ClientPlaysPlayer'
  <2>1. \A q \in Objects : obj[q].client # Nobody => obj[q].client \in Protocols
    BY DEF IInv, Types, PlayerState
  <2>2. \A q \in Objects : obj'[q].client = obj[q].client
    BY <1>2
  <2> QED BY <2>1, <2>2 DEF IInv, ClientPlaysPlayer
<1>5. HolderIsClient'
  <2>1. \A h \in Protocols : prot[h].player # Nobody => prot[h].player \in Objects
    BY DEF IInv, Types, ProtocolState
  <2>2. \A q \in Objects : obj'[q].client = obj[q].client
    BY <1>2
  <2> QED BY <2>1, <2>2 DEF IInv, HolderIsClient
<1>6. obj[p].live
  BY <1>1, DeadIsUnused
<1>7. DeadIsReset'
  BY <1>2, <1>6 DEF IInv, DeadIsReset
<1>8. OnlineIsIn' /\ CharacterOnce'
  BY <1>2, <1>3 DEF IInv, Types, OnlineIsIn, CharacterOnce
<1>9. UsesBalance'
  <2>1. \A q : Uses(q)' = Uses(q)
    BY HoldersStay
  <2>2. ASSUME NEW q \in Objects
        PROVE  obj'[q].useCount
                   = Uses(q)' + pending'[q] + (IF q \in online' THEN 1 ELSE 0)
    <3>1. obj[q].useCount = Uses(q) + pending[q] + (IF q \in online THEN 1 ELSE 0)
      BY BalanceOfUses DEF IInv
    <3>2. Uses(q) \in Nat /\ pending[q] \in Nat
      BY UsesIsNat DEF IInv, Types
    <3>3. CASE q = p
      BY <1>2, <1>3, <2>1, <3>1, <3>2, <3>3
    <3>4. CASE q # p
      <4>0. q \in Objects \ {p}
        BY <3>4
      <4>1. obj'[q] = obj[q]
        BY <1>2, <4>0
      <4>2. pending'[q] = pending[q]
        BY <1>3, <4>0
      <4>3. q \in online' <=> q \in online
        BY <1>3, <4>0
      <4> QED BY <2>1, <3>1, <4>1, <4>2, <4>3
    <3> QED BY <3>3, <3>4
  <2> QED BY <2>2 DEF UsesBalance, Uses, Holders
<1> QED BY <1>4, <1>5, <1>7, <1>8, <1>9 DEF IInv

\* Types of the step that removes a player.
LEMMA RemoveTypes ==
    ASSUME Types, NEW p \in Objects, Remove(p)
    PROVE  /\ obj' \in [Objects -> PlayerState]
           /\ online' \subseteq Objects
           /\ pending' \in [Objects -> Nat]
<1> DEFINE o == [obj[p] EXCEPT !.removed = TRUE]
<1>1. obj' = [obj EXCEPT ![p] = o] /\ o \in PlayerState
  BY DEF Types, Remove, PlayerState
<1>2. obj' \in [Objects -> PlayerState]
  BY <1>1 DEF Types
<1> QED BY <1>2 DEF Types, Remove

LEMMA LeaveStep ==
    ASSUME IInv, NEW p \in Objects, KickUnplayed(p) \/ XLog(p) \/ Die(p)
    PROVE  IInv'
<1>1. Remove(p) /\ p \in online /\ UNCHANGED prot
  BY DEF KickUnplayed, XLog, Die
<1>2. Types' /\ ProtocolShape'
  BY <1>1, RemoveTypes DEF IInv, Types, ProtocolShape
<1> QED BY <1>1, <1>2, PlayerRemoved

LEMMA LogoutStep ==
    ASSUME IInv, NEW g \in Protocols, Logout(g)
    PROVE  IInv'
<1> DEFINE p == prot[g].player
           r == [prot[g] EXCEPT !.closing = TRUE]
<1>1. prot' = [prot EXCEPT ![g] = r] /\ p \in Objects
  BY OneProtocol DEF Logout, Disconnected, ProtocolState
<1>2. r \in ProtocolState /\ r.player = prot[g].player /\ r.st = prot[g].st
      /\ r.name = prot[g].name /\ r.event = prot[g].event /\ r.closing
  BY OneProtocol DEF ProtocolState
<1>3. /\ (r.st # "open" \/ r.event) => r.player = Nobody
      /\ r.event => r.st = "open"
      /\ r.st # "none" /\ r.name \in Names
  BY <1>2, OneProtocol DEF Logout
<1>4. CASE p \in online /\ ~obj[p].removed
  <2>1. Remove(p)
    BY <1>4 DEF Logout
  <2> HIDE DEF p, r
  <2>2. Types' /\ ProtocolShape'
    BY <1>1, <1>2, <1>3, <2>1, RemoveTypes DEF IInv, Types, ProtocolShape
  <2>3. \A h \in Protocols : /\ prot'[h].player = prot[h].player
                             /\ prot'[h].st = prot[h].st
                             /\ prot[h].closing => prot'[h].closing
    BY <1>1, <1>2 DEF IInv, Types
  <2> QED BY <1>4, <2>1, <2>2, <2>3, PlayerRemoved
<1>5. CASE ~(p \in online /\ ~obj[p].removed)
  <2>1. UNCHANGED <<obj, online, pending>>
    BY <1>5 DEF Logout
  <2> HIDE DEF p, r
  <2> QED BY <1>1, <1>2, <1>3, <2>1, ProtocolOnly
<1> QED BY <1>4, <1>5

-----------------------------------------------------------------------------
\* A protocol without a player takes over one that has no client: the holders
\* that the player still has are closing.
LEMMA TakeOverStep ==
    ASSUME IInv, NEW g \in Protocols, NEW p \in Objects,
           p \in online, obj[p].client = Nobody,
           prot[g].player = Nobody, prot[g].st # "none", TakeOver(g, p)
    PROVE  IInv'
<1> DEFINE r == [prot[g] EXCEPT !.st = "open", !.event = FALSE, !.id = Nobody,
                                !.player = p]
           u == obj[p].useCount + 1
           o == [obj[p] EXCEPT !.useCount = u, !.connecting = FALSE, !.client = g]
<1>1. prot' = [prot EXCEPT ![g] = r] /\ obj' = [obj EXCEPT ![p] = o]
      /\ UNCHANGED <<online, pending>>
  BY DEF TakeOver
<1>2. r \in ProtocolState /\ r.player = p /\ r.st = "open" /\ r.name = prot[g].name
      /\ ~r.event
  BY OneProtocol DEF ProtocolState
<1>3. o \in PlayerState /\ o.live = obj[p].live /\ o.name = obj[p].name
      /\ o.client = g /\ o.removed = obj[p].removed
      /\ o.useCount = obj[p].useCount + 1
  <2>1. obj[p] \in PlayerState /\ obj[p].useCount \in Nat
    BY DEF IInv, Types, PlayerState
  <2>2. u \in Nat
    BY <2>1
  <2> HIDE DEF u
  <2>3. o \in PlayerState /\ o.live = obj[p].live /\ o.name = obj[p].name
        /\ o.client = g /\ o.removed = obj[p].removed /\ o.useCount = u
    BY <2>1, <2>2 DEF PlayerState
  <2> QED BY <2>3 DEF u
<1> HIDE DEF r, u, o
<1>4. /\ prot'[g] = r /\ \A h \in Protocols \ {g} : prot'[h] = prot[h]
      /\ obj'[p] = o /\ \A q \in Objects \ {p} : obj'[q] = obj[q]
  BY <1>1 DEF IInv, Types
<1>5. Types' /\ ProtocolShape'
  BY <1>1, <1>2, <1>3, OneProtocol DEF IInv, Types, ProtocolShape
<1>6. ClientPlaysPlayer'
  <2>1. \A q \in Objects \ {p} : obj[q].client # Nobody => obj[q].client # g
    BY ConstantsAssumption DEF IInv, ClientPlaysPlayer
  <2>2. \A q \in Objects : obj[q].client \in Protocols \cup {Nobody}
    BY DEF IInv, Types, PlayerState
  <2> QED BY <1>2, <1>3, <1>4, <2>1, <2>2 DEF IInv, ClientPlaysPlayer
<1>7. HolderIsClient'
  <2>1. \A h \in Protocols : prot[h].player # Nobody => prot[h].player \in Objects
    BY DEF IInv, Types, ProtocolState
  <2>2. \A h \in Protocols : prot[h].player = p => prot[h].closing
    BY ConstantsAssumption DEF IInv, HolderIsClient
  <2> QED BY <1>2, <1>3, <1>4, <2>1, <2>2 DEF IInv, HolderIsClient
<1>8. obj[p].live
  BY DeadIsUnused
<1>9. DeadIsReset' /\ OnlineIsIn' /\ CharacterOnce'
  <2>1. \A q \in Objects : /\ obj'[q].name = obj[q].name
                           /\ obj'[q].removed = obj[q].removed
    BY <1>3, <1>4
  <2>2. OnlineIsIn' /\ CharacterOnce'
    BY <1>1, <2>1 DEF IInv, Types, OnlineIsIn, CharacterOnce
  <2>3. DeadIsReset'
    BY <1>3, <1>4, <1>8 DEF IInv, DeadIsReset
  <2> QED BY <2>2, <2>3
<1>10. UsesBalance'
  <2>1. Uses(p)' = Uses(p) + 1 /\ \A q \in Objects \ {p} : Uses(q)' = Uses(q)
    BY <1>2, <1>4, HolderJoins
  <2>2. ASSUME NEW q \in Objects
        PROVE  obj'[q].useCount
                   = Uses(q)' + pending'[q] + (IF q \in online' THEN 1 ELSE 0)
    <3>1. obj[q].useCount = Uses(q) + pending[q] + (IF q \in online THEN 1 ELSE 0)
      BY BalanceOfUses DEF IInv
    <3>2. Uses(q) \in Nat /\ pending[q] \in Nat
      BY UsesIsNat DEF IInv, Types
    <3>3. CASE q = p
      BY <1>1, <1>3, <1>4, <2>1, <3>1, <3>2, <3>3
    <3>4. CASE q # p
      BY <1>1, <1>4, <2>1, <3>1, <3>4
    <3> QED BY <3>3, <3>4
  <2> QED BY <2>2 DEF UsesBalance, Uses, Holders
<1> QED BY <1>5, <1>6, <1>7, <1>9, <1>10 DEF IInv

LEMMA ReconnectStep ==
    ASSUME IInv, NEW g \in Protocols, LoginReconnects(g)
    PROVE  IInv'
<1>1. PICK p \in Playing(prot[g].name) : obj[p].client = Nobody /\ TakeOver(g, p)
  BY DEF LoginReconnects
<1>2. p \in online /\ p \in Objects
  BY DEF Playing, IInv, Types
<1>3. prot[g].player = Nobody /\ prot[g].st # "none"
  BY OneProtocol DEF LoginReconnects
<1> QED BY <1>1, <1>2, <1>3, TakeOverStep

LEMMA ConnectStep ==
    ASSUME IInv, NEW g \in Protocols, Connect(g)
    PROVE  IInv'
<1> DEFINE p == prot[g].id
<1>1. p \in online /\ p \in Objects /\ obj[p].client = Nobody
  BY DEF Connect, MayConnect, IInv, Types
<1>2. prot[g].player = Nobody /\ prot[g].st # "none"
  BY OneProtocol DEF Connect
<1>3. TakeOver(g, p)
  BY DEF Connect
<1> QED BY <1>1, <1>2, <1>3, TakeOverStep

-----------------------------------------------------------------------------
LEMMA TakesOverStep ==
    ASSUME IInv, NEW g \in Protocols, LoginTakesOver(g)
    PROVE  IInv'
<1>1. PICK p \in Playing(prot[g].name) :
         /\ obj[p].client # Nobody
         /\ obj' = [obj EXCEPT ![p].connecting = TRUE]
         /\ prot' = [Disconnected(obj[p].client)
                       EXCEPT ![g].st = "open", ![g].event = TRUE, ![g].id = p]
  BY DEF LoginTakesOver
<1> DEFINE c == obj[p].client
           r == [prot[g] EXCEPT !.st = "open", !.event = TRUE, !.id = p]
           d == [prot[c] EXCEPT !.closing = TRUE]
           o == [obj[p] EXCEPT !.connecting = TRUE]
<1>2. p \in Objects /\ c \in Protocols /\ c # g
  <2>1. p \in Objects /\ obj[p] \in PlayerState
    BY DEF Playing, IInv, Types
  <2>2. c \in Protocols /\ prot[c].st = "open"
    BY <1>1, <2>1 DEF IInv, ClientPlaysPlayer, PlayerState
  <2> QED BY <2>1, <2>2 DEF LoginTakesOver
<1>3. /\ prot' = [[prot EXCEPT ![c] = d] EXCEPT ![g] = r]
      /\ obj' = [obj EXCEPT ![p] = o]
  BY <1>1, <1>2 DEF Disconnected, IInv, Types
<1>4. /\ prot[g].st = "queued" /\ prot[g].player = Nobody /\ prot[g].name \in Names
      /\ prot[g] \in ProtocolState /\ prot[c] \in ProtocolState
  BY <1>2, OneProtocol DEF LoginTakesOver
<1>5. /\ r \in ProtocolState /\ r.player = prot[g].player /\ r.st = "open"
      /\ r.name = prot[g].name /\ r.closing = prot[g].closing
  BY <1>2, <1>4 DEF ProtocolState
<1>6. /\ d \in ProtocolState /\ d.player = prot[c].player /\ d.st = prot[c].st
      /\ d.name = prot[c].name /\ d.event = prot[c].event /\ d.closing
  BY <1>4 DEF ProtocolState
<1>7. /\ o \in PlayerState /\ o.live = obj[p].live /\ o.name = obj[p].name
      /\ o.client = obj[p].client /\ o.useCount = obj[p].useCount
      /\ o.removed = obj[p].removed
  <2>1. obj[p] \in PlayerState
    BY <1>2 DEF IInv, Types
  <2> QED BY <2>1 DEF PlayerState
<1>8. UNCHANGED <<online, pending>>
  BY DEF LoginTakesOver
<1> HIDE DEF c, r, d, o
<1>9. /\ prot'[g] = r /\ prot'[c] = d
      /\ \A h \in Protocols \ {g, c} : prot'[h] = prot[h]
      /\ obj'[p] = o /\ \A q \in Objects \ {p} : obj'[q] = obj[q]
  BY <1>2, <1>3 DEF IInv, Types
<1>10. /\ \A h \in Protocols : /\ prot'[h].player = prot[h].player
                               /\ prot[h].st = "open" => prot'[h].st = "open"
                               /\ prot[h].closing => prot'[h].closing
       /\ \A q \in Objects : /\ obj'[q].live = obj[q].live
                             /\ obj'[q].name = obj[q].name
                             /\ obj'[q].client = obj[q].client
                             /\ obj'[q].useCount = obj[q].useCount
                             /\ obj'[q].removed = obj[q].removed
  BY <1>4, <1>5, <1>6, <1>7, <1>9
<1>11. Types'
  BY <1>2, <1>3, <1>5, <1>6, <1>7, <1>8 DEF IInv, Types
<1>12. ProtocolShape'
  <2>1. ASSUME NEW h \in Protocols
        PROVE  /\ (prot'[h].st # "open" \/ prot'[h].event) => prot'[h].player = Nobody
               /\ prot'[h].event => prot'[h].st = "open"
               /\ prot'[h].st # "none" => prot'[h].name \in Names
    BY <1>4, <1>5, <1>6, <1>9, OneProtocol
  <2> QED BY <2>1 DEF ProtocolShape
<1>13. ClientPlaysPlayer'
  <2>1. \A q \in Objects : obj[q].client # Nobody => obj[q].client \in Protocols
    BY DEF IInv, Types, PlayerState
  <2> QED BY <1>10, <2>1 DEF IInv, ClientPlaysPlayer
<1>14. HolderIsClient'
  <2>1. \A h \in Protocols : prot[h].player # Nobody => prot[h].player \in Objects
    BY DEF IInv, Types, ProtocolState
  <2> QED BY <1>10, <2>1 DEF IInv, HolderIsClient
<1>15. obj[p].live
  BY <1>1, <1>2, DeadIsUnused DEF Playing
<1>16. DeadIsReset'
  BY <1>7, <1>9, <1>15 DEF IInv, DeadIsReset
<1>17. OnlineIsIn' /\ CharacterOnce'
  BY <1>8, <1>10 DEF IInv, Types, OnlineIsIn, CharacterOnce
<1>18. UsesBalance'
  <2>1. \A q : Uses(q)' = Uses(q)
    BY <1>10, HoldersStay
  <2>2. \A q \in Objects :
           obj'[q].useCount = Uses(q)' + pending'[q] + (IF q \in online' THEN 1 ELSE 0)
    BY <1>8, <1>10, <2>1, BalanceOfUses DEF IInv
  <2> QED BY <2>2 DEF UsesBalance, Uses, Holders
<1> QED BY <1>11, <1>12, <1>13, <1>14, <1>16, <1>17, <1>18 DEF IInv

\* releaseProtocol clears the client of a closing protocol's player, if it is
\* that protocol, and nothing else of any Player.
LEMMA ReleasedClient ==
    ASSUME IInv, NEW g \in Protocols
    PROVE  /\ ClientReleased(g, obj) \in [Objects -> PlayerState]
           /\ \A q \in Objects :
                 LET o == ClientReleased(g, obj)[q]
                 IN /\ o.live = obj[q].live /\ o.name = obj[q].name
                    /\ o.useCount = obj[q].useCount /\ o.removed = obj[q].removed
                    /\ o.client = IF obj[q].client = g THEN Nobody ELSE obj[q].client
                    /\ ~obj[q].live => o = obj[q]
<1> DEFINE p == prot[g].player
           o == [obj[p] EXCEPT !.client = Nobody]
<1>1. obj \in [Objects -> PlayerState] /\ p \in Objects \cup {Nobody}
      /\ Nobody \notin Objects /\ Nobody \notin Protocols
  BY ConstantsAssumption DEF IInv, Types, ProtocolState
<1>2. \A q \in Objects : obj[q].client = g => p = q
  BY <1>1 DEF IInv, ClientPlaysPlayer
<1>3. CASE p # Nobody /\ obj[p].client = g
  <2>1. p \in Objects /\ obj[p] \in PlayerState
    BY <1>1, <1>3
  <2>2. ClientReleased(g, obj) = [obj EXCEPT ![p] = o]
    BY <1>3 DEF ClientReleased
  <2>3. /\ o \in PlayerState /\ o.live = obj[p].live /\ o.name = obj[p].name
        /\ o.useCount = obj[p].useCount /\ o.removed = obj[p].removed
        /\ o.client = Nobody
    BY <2>1 DEF PlayerState
  <2>4. obj[p].live
    BY <1>3, <2>1, <1>1, DeadIsUnused DEF NoObject
  <2> HIDE DEF p, o
  <2> QED BY <1>1, <1>2, <1>3, <2>1, <2>2, <2>3, <2>4
<1>4. CASE ~(p # Nobody /\ obj[p].client = g)
  <2>1. ClientReleased(g, obj) = obj
    BY <1>4 DEF ClientReleased
  <2> QED BY <1>1, <1>2, <1>4, <2>1
<1> QED BY <1>3, <1>4

LEMMA ReleaseLaterStep ==
    ASSUME IInv, NEW g \in Protocols, ReleaseLater(g)
    PROVE  IInv'
<1>1. obj' = ClientReleased(g, obj) /\ UNCHANGED <<prot, online, pending>>
      /\ prot[g].closing
  BY DEF ReleaseLater
<1>2. \A q \in Objects : /\ obj'[q].live = obj[q].live /\ obj'[q].name = obj[q].name
                         /\ obj'[q].useCount = obj[q].useCount
                         /\ obj'[q].removed = obj[q].removed
                         /\ obj'[q].client = IF obj[q].client = g THEN Nobody
                                             ELSE obj[q].client
                         /\ ~obj[q].live => obj'[q] = obj[q]
  BY <1>1, ReleasedClient
<1>3. Types' /\ ProtocolShape'
  BY <1>1, ReleasedClient DEF IInv, Types, ProtocolShape
<1>4. ClientPlaysPlayer'
  BY <1>1, <1>2 DEF IInv, ClientPlaysPlayer
<1>5. HolderIsClient'
  <2>1. \A h \in Protocols : prot[h].player # Nobody => prot[h].player \in Objects
    BY DEF IInv, Types, ProtocolState
  <2> QED BY <1>1, <1>2, <2>1 DEF IInv, HolderIsClient
<1>6. DeadIsReset'
  BY <1>1, <1>2 DEF IInv, DeadIsReset
<1>7. OnlineIsIn' /\ CharacterOnce'
  BY <1>1, <1>2 DEF IInv, Types, OnlineIsIn, CharacterOnce
<1>8. UsesBalance'
  <2>1. \A q : Uses(q)' = Uses(q)
    BY <1>1, HoldersStay
  <2>2. \A q \in Objects :
           obj'[q].useCount = Uses(q)' + pending'[q] + (IF q \in online' THEN 1 ELSE 0)
    BY <1>1, <1>2, <2>1, BalanceOfUses DEF IInv
  <2> QED BY <2>2 DEF UsesBalance, Uses, Holders
<1> QED BY <1>3, <1>4, <1>5, <1>6, <1>7, <1>8 DEF IInv

\* The protocol is deleted: its use of the player becomes a pending release.
LEMMA ReleaseStep ==
    ASSUME IInv, NEW g \in Protocols, Release(g)
    PROVE  IInv'
<1> DEFINE p == prot[g].player
<1>1. /\ obj' = ClientReleased(g, obj) /\ prot' = [prot EXCEPT ![g] = NoProtocol]
      /\ online' = online /\ prot[g].closing
      /\ pending' = IF p = Nobody THEN pending ELSE [pending EXCEPT ![p] = @ + 1]
  BY DEF Release
<1>2. \A q \in Objects : /\ obj'[q].live = obj[q].live /\ obj'[q].name = obj[q].name
                         /\ obj'[q].useCount = obj[q].useCount
                         /\ obj'[q].removed = obj[q].removed
                         /\ obj'[q].client = IF obj[q].client = g THEN Nobody
                                             ELSE obj[q].client
                         /\ ~obj[q].live => obj'[q] = obj[q]
  BY <1>1, ReleasedClient
<1>3. p \in Objects \cup {Nobody} /\ Nobody \notin Objects
  BY OneProtocol, ConstantsAssumption DEF ProtocolState
<1>4. prot'[g] = NoProtocol /\ \A h \in Protocols \ {g} : prot'[h] = prot[h]
  BY <1>1 DEF IInv, Types
<1>5. Types' /\ ProtocolShape'
  <2>1. NoProtocol \in ProtocolState /\ NoProtocol.st = "none"
        /\ NoProtocol.player = Nobody /\ ~NoProtocol.event
    BY DEF NoProtocol, ProtocolState
  <2>2. pending' \in [Objects -> Nat]
    BY <1>1, <1>3 DEF IInv, Types
  <2>3. obj' \in [Objects -> PlayerState]
    BY <1>1, ReleasedClient
  <2> HIDE DEF p
  <2>4. prot' \in [Protocols -> ProtocolState]
    BY <1>1, <2>1 DEF IInv, Types
  <2>5. ProtocolShape'
    BY <1>4, <2>1 DEF IInv, ProtocolShape
  <2> QED BY <1>1, <2>2, <2>3, <2>4, <2>5 DEF IInv, Types
<1>6. ClientPlaysPlayer'
  <2>1. \A q \in Objects : obj[q].client \in Protocols \cup {Nobody}
    BY DEF IInv, Types, PlayerState
  <2> QED BY <1>2, <1>4, <2>1 DEF IInv, ClientPlaysPlayer
<1>7. HolderIsClient'
  <2>1. \A h \in Protocols : prot[h].player # Nobody => prot[h].player \in Objects
    BY DEF IInv, Types, ProtocolState
  <2> QED BY <1>2, <1>4, <2>1 DEF IInv, HolderIsClient, NoProtocol
<1>8. DeadIsReset'
  BY <1>2 DEF IInv, DeadIsReset
<1>9. OnlineIsIn' /\ CharacterOnce'
  BY <1>1, <1>2 DEF IInv, Types, OnlineIsIn, CharacterOnce
<1>10. \A q \in Objects : Uses(q)' + pending'[q] = Uses(q) + pending[q]
  <2>1. CASE p = Nobody
    <3>1. \A h \in Protocols : prot'[h].player = prot[h].player
      BY <1>4, <2>1 DEF NoProtocol
    <3>2. \A q : Uses(q)' = Uses(q)
      BY <3>1, HoldersStay
    <3> QED BY <1>1, <2>1, <3>2
  <2>2. CASE p # Nobody
    <3>1. PICK x \in Objects : prot[g].player = x
      BY <1>3, <2>2
    <3>2. /\ Uses(x) = Uses(x)' + 1
          /\ \A q \in Objects \ {x} : Uses(q)' = Uses(q)
      BY <1>4, <3>1, HolderLeaves DEF NoProtocol
    <3>3. /\ pending'[x] = pending[x] + 1
          /\ \A q \in Objects \ {x} : pending'[q] = pending[q]
      BY <1>1, <2>2, <3>1 DEF IInv, Types
    <3>4. /\ Uses(x) \in Nat /\ pending[x] \in Nat
      BY UsesIsNat DEF IInv, Types
    <3>5. Uses(x)' \in Nat
      BY UsesIsNat
    <3>6. Uses(x)' + pending'[x] = Uses(x) + pending[x]
      BY <3>2, <3>3, <3>4, <3>5
    <3>7. ASSUME NEW q \in Objects, q # x
          PROVE  Uses(q)' + pending'[q] = Uses(q) + pending[q]
      BY <3>2, <3>3, <3>7
    <3> QED BY <3>6, <3>7
  <2> QED BY <2>1, <2>2
<1>11. UsesBalance'
  <2>1. ASSUME NEW q \in Objects
        PROVE  obj'[q].useCount
                   = Uses(q)' + pending'[q] + (IF q \in online' THEN 1 ELSE 0)
    <3>1. obj[q].useCount = Uses(q) + pending[q] + (IF q \in online THEN 1 ELSE 0)
      BY BalanceOfUses DEF IInv
    <3> QED BY <1>1, <1>2, <1>10, <3>1
  <2> QED BY <2>1 DEF UsesBalance, Uses, Holders
<1> QED BY <1>5, <1>6, <1>7, <1>8, <1>9, <1>11 DEF IInv

\* Objects whose last use is released have no holder and are not in the game.
LEMMA CleanupStep ==
    ASSUME IInv, Cleanup
    PROVE  IInv'
<1> DEFINE left(p) == obj[p].useCount - pending[p]
           Deleted == {p \in Objects : pending[p] > 0 /\ left(p) <= 0}
<1>1. /\ obj' = [p \in Objects |-> IF p \in Deleted THEN NoObject
                                   ELSE [obj[p] EXCEPT !.useCount = left(p)]]
      /\ prot' = [g \in Protocols |-> IF prot[g].id \in Deleted
                                      THEN [prot[g] EXCEPT !.id = Nobody]
                                      ELSE prot[g]]
      /\ pending' = [p \in Objects |-> 0]
      /\ online' = online
  BY DEF Cleanup
<1>2. ASSUME NEW p \in Objects
      PROVE  /\ left(p) = Uses(p) + (IF p \in online THEN 1 ELSE 0)
             /\ left(p) \in Nat
  <2>1. obj[p].useCount = Uses(p) + pending[p] + (IF p \in online THEN 1 ELSE 0)
    BY BalanceOfUses DEF IInv
  <2>2. Uses(p) \in Nat /\ pending[p] \in Nat
    BY UsesIsNat DEF IInv, Types
  <2> QED BY <2>1, <2>2
<1>3. ASSUME NEW p \in Deleted
      PROVE  p \in Objects /\ Uses(p) = 0 /\ p \notin online
  <2>1. p \in Objects /\ left(p) <= 0
    OBVIOUS
  <2>2. Uses(p) \in Nat
    BY UsesIsNat
  <2> HIDE DEF left
  <2> QED BY <1>2, <2>1, <2>2
<1>4. ASSUME NEW p \in Deleted, NEW g \in Protocols
      PROVE  prot[g].player # p
  BY <1>3, UsesIsNat DEF Holders
<1> HIDE DEF Deleted, left
<1>5. ASSUME NEW g \in Protocols
      PROVE  /\ prot'[g] \in ProtocolState
             /\ prot'[g].player = prot[g].player /\ prot'[g].st = prot[g].st
             /\ prot'[g].name = prot[g].name /\ prot'[g].event = prot[g].event
             /\ prot'[g].closing = prot[g].closing
  <2>1. prot[g] \in ProtocolState
    BY DEF IInv, Types
  <2> DEFINE r == [prot[g] EXCEPT !.id = Nobody]
  <2>2. /\ r \in ProtocolState /\ r.player = prot[g].player /\ r.st = prot[g].st
        /\ r.name = prot[g].name /\ r.event = prot[g].event
        /\ r.closing = prot[g].closing
    BY <2>1 DEF ProtocolState
  <2>3. prot'[g] = r \/ prot'[g] = prot[g]
    BY <1>1
  <2> HIDE DEF r
  <2> QED BY <2>1, <2>2, <2>3
<1>6. ASSUME NEW p \in Objects, p \notin Deleted
      PROVE  /\ obj'[p] \in PlayerState
             /\ obj'[p].live = obj[p].live /\ obj'[p].name = obj[p].name
             /\ obj'[p].client = obj[p].client /\ obj'[p].removed = obj[p].removed
             /\ obj'[p].useCount = left(p)
  <2>1. obj[p] \in PlayerState
    BY DEF IInv, Types
  <2>2. obj'[p] = [obj[p] EXCEPT !.useCount = left(p)]
    BY <1>1, <1>6
  <2>3. left(p) \in Nat
    BY <1>2
  <2> QED BY <2>1, <2>2, <2>3 DEF PlayerState
<1>7. ASSUME NEW p \in Deleted
      PROVE  obj'[p] = NoObject
  BY <1>1, <1>3
<1>8. NoObject \in PlayerState /\ NoObject.client = Nobody /\ ~NoObject.live
      /\ NoObject.useCount = 0
  BY DEF NoObject, PlayerState
<1>9. Types'
  <2>1. obj' \in [Objects -> PlayerState]
    <3>1. \A p \in Objects : obj'[p] \in PlayerState
      BY <1>6, <1>7, <1>8
    <3> QED BY <1>1, <3>1
  <2>2. prot' \in [Protocols -> ProtocolState]
    BY <1>1, <1>5
  <2> QED BY <1>1, <2>1, <2>2 DEF IInv, Types
<1>10. ProtocolShape'
  BY <1>5 DEF IInv, ProtocolShape
<1>11. ClientPlaysPlayer'
  <2>1. ASSUME NEW p \in Objects, obj'[p].client # Nobody
        PROVE  prot'[obj'[p].client].st = "open" /\ prot'[obj'[p].client].player = p
    <3>1. obj'[p].client = obj[p].client
      BY <1>6, <1>7, <1>8, <2>1
    <3>2. obj[p].client \in Protocols
      BY <2>1, <3>1 DEF IInv, Types, PlayerState
    <3> QED BY <1>5, <2>1, <3>1, <3>2 DEF IInv, ClientPlaysPlayer
  <2> QED BY <2>1 DEF ClientPlaysPlayer
<1>12. HolderIsClient'
  <2>1. ASSUME NEW g \in Protocols, prot'[g].player # Nobody, ~prot'[g].closing
        PROVE  obj'[prot'[g].player].client = g
    <3>1. prot'[g].player = prot[g].player /\ prot[g].player # Nobody /\ ~prot[g].closing
      BY <1>5, <2>1
    <3>2. prot[g].player \in Objects
      BY <3>1 DEF IInv, Types, ProtocolState
    <3>3. prot[g].player \notin Deleted
      BY <1>4
    <3> QED BY <1>6, <3>1, <3>2, <3>3 DEF IInv, HolderIsClient
  <2> QED BY <2>1 DEF HolderIsClient
<1>13. DeadIsReset'
  <2>1. ASSUME NEW p \in Objects, ~obj'[p].live
        PROVE  obj'[p].client = Nobody /\ obj'[p].useCount = 0
    <3>1. CASE p \in Deleted
      BY <1>7, <1>8, <3>1
    <3>2. CASE p \notin Deleted
      <4>1. ~obj[p].live /\ obj'[p].client = obj[p].client /\ obj'[p].useCount = left(p)
        BY <1>6, <2>1, <3>2
      <4>2. left(p) = 0 /\ obj[p].client = Nobody
        BY <1>2, <4>1, DeadIsUnused
      <4> QED BY <4>1, <4>2
    <3> QED BY <3>1, <3>2
  <2> QED BY <2>1 DEF DeadIsReset
<1>14. OnlineIsIn' /\ CharacterOnce'
  <2>1. \A p \in online : p \in Objects /\ p \notin Deleted
    BY <1>3 DEF IInv, Types
  <2>2. \A p \in online : obj'[p].name = obj[p].name /\ obj'[p].removed = obj[p].removed
    BY <1>6, <2>1
  <2>3. online' = online /\ OnlineIsIn /\ CharacterOnce
    BY <1>1 DEF IInv
  <2>4. OnlineIsIn'
    BY <2>2, <2>3 DEF OnlineIsIn
  <2>5. CharacterOnce'
    BY <2>2, <2>3 DEF CharacterOnce
  <2> QED BY <2>4, <2>5
<1>15. UsesBalance'
  <2>1. \A q : Uses(q)' = Uses(q)
    BY <1>5, HoldersStay
  <2>2. ASSUME NEW q \in Objects
        PROVE  obj'[q].useCount
                   = Uses(q)' + pending'[q] + (IF q \in online' THEN 1 ELSE 0)
    <3>1. pending'[q] = 0 /\ online' = online /\ Uses(q)' = Uses(q) /\ Uses(q) \in Nat
      BY <1>1, <2>1, UsesIsNat
    <3>2. CASE q \in Deleted
      BY <1>3, <1>7, <1>8, <3>1, <3>2
    <3>3. CASE q \notin Deleted
      BY <1>2, <1>6, <3>1, <3>3
    <3> QED BY <3>2, <3>3
  <2> QED BY <2>2 DEF UsesBalance, Uses, Holders
<1> QED BY <1>9, <1>10, <1>11, <1>12, <1>13, <1>14, <1>15 DEF IInv

-----------------------------------------------------------------------------
\* The invariant holds in every reachable state, whatever the protocols,
\* objects, characters and the values of KICK_ON_LOGIN.
LEMMA Inductive == Spec => []IInv
<1>1. Init => IInv
  <2> SUFFICES ASSUME Init PROVE IInv
    OBVIOUS
  <2>1. NoProtocol \in ProtocolState /\ NoObject \in PlayerState
    BY DEF NoProtocol, NoObject, ProtocolState, PlayerState
  <2>2. Types
    BY <2>1 DEF Init, Types
  <2>3. ProtocolShape /\ ClientPlaysPlayer /\ HolderIsClient /\ DeadIsReset
        /\ OnlineIsIn /\ CharacterOnce
    BY DEF Init, NoProtocol, NoObject, ProtocolShape, ClientPlaysPlayer,
           HolderIsClient, DeadIsReset, OnlineIsIn, CharacterOnce
  <2>4. \A p \in Objects : Uses(p) = 0
    <3>1. \A p \in Objects : Holders(p) = {}
      BY ConstantsAssumption DEF Init, NoProtocol, Holders
    <3> QED BY <3>1, UsesIsNat
  <2>5. UsesBalance
    BY <2>4, BalanceOfUses DEF Init, NoObject
  <2> QED BY <2>2, <2>3, <2>5 DEF IInv
<1>2. IInv /\ [Next]_vars => IInv'
  <2> SUFFICES ASSUME IInv, [Next]_vars PROVE IInv'
    OBVIOUS
  <2>1. ASSUME NEW g \in Protocols, ProtocolNext(g) PROVE IInv'
    <3>1. ASSUME Login(g) PROVE IInv'
      BY <3>1, LoginRefusedStep, LoginPlacedStep, LoginKickedStep, ClosingStep,
         TakesOverStep, ReconnectStep DEF Login
    <3> QED BY <2>1, <3>1, FirstPacketStep, ClosingStep, ConnectStep, LogoutStep,
               ReleaseLaterStep, ReleaseStep DEF ProtocolNext
  <2>2. ASSUME NEW p \in Objects, KickUnplayed(p) \/ XLog(p) \/ Die(p) PROVE IInv'
    BY <2>2, LeaveStep
  <2>3. CASE UNCHANGED vars
    <3>1. \A q : Uses(q)' = Uses(q)
      BY <2>3, HoldersStay DEF vars
    <3>2. UsesBalance'
      BY <2>3 DEF vars, UsesBalance, IInv
    <3> QED BY <2>3, <3>2 DEF vars, IInv, Types, ProtocolShape, ClientPlaysPlayer,
               HolderIsClient, DeadIsReset, OnlineIsIn, CharacterOnce
  <2> QED BY <2>1, <2>2, <2>3, CleanupStep DEF Next
<1> QED BY <1>1, <1>2, PTL DEF Spec

\* Type correctness: releases that wait for cleanup never exceed the uses.
THEOREM TypeCorrect == Spec => []TypeOK
<1>1. IInv => TypeOK
  <2> SUFFICES ASSUME IInv, NEW p \in Objects PROVE pending[p] <= obj[p].useCount
    BY DEF IInv, Types, ProtocolState, PlayerState, TypeOK
  <2>1. obj[p].useCount = Uses(p) + pending[p] + (IF p \in online THEN 1 ELSE 0)
    BY BalanceOfUses DEF IInv
  <2>2. Uses(p) \in Nat /\ pending[p] \in Nat
    BY UsesIsNat DEF IInv, Types
  <2> QED BY <2>1, <2>2
<1> QED BY <1>1, Inductive, PTL

\* Player::client never dangles: it is a protocol that exists and plays this
\* very player.
THEOREM ClientsLive == Spec => []ClientPlaysPlayer
BY Inductive, PTL DEF IInv

\* The use count of a Player is the number of its users.
THEOREM UsesCounted == Spec => []UsesBalance
BY Inductive, PTL DEF IInv

\* No character is in the game twice.
THEOREM OneOfEach == Spec => []CharacterOnce
BY Inductive, PTL DEF IInv

\* At most one protocol that is not closing plays a player: it is the client.
THEOREM OneSession == Spec => []OneSessionEach
<1>1. IInv => OneSessionEach
  <2> SUFFICES ASSUME IInv, NEW g \in Protocols, NEW h \in Protocols,
                      prot[g].player # Nobody, prot[g].player = prot[h].player,
                      ~prot[g].closing, ~prot[h].closing
               PROVE  g = h
    BY DEF OneSessionEach
  <2> QED BY DEF IInv, HolderIsClient
<1> QED BY <1>1, Inductive, PTL

\* No character is in the game twice, and none is played by two clients.
THEOREM OneSessionOnly == Spec => []NoSecondSession
<1>1. CharacterOnce /\ OneSessionEach => NoSecondSession
  BY DEF NoSecondSession
<1> QED BY <1>1, OneOfEach, OneSession, PTL
=============================================================================
