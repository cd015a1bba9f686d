---------------------------- MODULE WaitingList ----------------------------
(***************************************************************************)
(* The waiting list of a full server (font/waitlist.cpp) and the part of   *)
(* ProtocolGame::login that asks it and tells a refused client when to try *)
(* again.                                                                  *)
(*                                                                         *)
(* The code compares timeouts with the clock and nothing else, so an entry *)
(* keeps the time left, in steps of one unit (5 seconds).  A client is an  *)
(* account, address and name together, the code's identity of an entry.    *)
(* Everything here runs on the dispatcher thread.                          *)
(***************************************************************************)
EXTENDS Naturals, Sequences, FiniteSets, SequencesExt

CONSTANTS
    Clients,
    Premium,        \* clients with a premium account
    Always,         \* clients with PlayerFlag_CanAlwaysLogin
    MaxPlayers,     \* Status::getMaxPlayersOnline
    RetryTime,      \* getTime: slot -> units until the client should retry
    Grace           \* the seconds getTimeOut adds, in units

ASSUME ConstantsAssumption ==
    /\ Premium \subseteq Clients
    /\ Always \subseteq Clients
    /\ IsFiniteSet(Clients)
    /\ MaxPlayers \in Nat
    /\ \A s \in 1 .. Cardinality(Clients) + 1 : RetryTime[s] \in Nat \ {0}
    /\ Grace \in Nat \ {0}

VARIABLES
    online,         \* Status: the players online
    waitList,       \* WaitingList::waitList
    promised        \* history: the time for which the last answer to a client
                    \* kept its place, the grace included; 0 when it has run out

vars == <<online, waitList, promised>>

Entry(c, t) == [client |-> c, left |-> t]

TypeOK ==
    /\ online \subseteq Clients
    /\ waitList \in Seq([client : Clients, left : Nat])
    /\ promised \in [Clients -> Nat]
    /\ Len(waitList) <= Cardinality(Clients)

Init ==
    /\ online = {}
    /\ waitList = <<>>
    /\ promised = [c \in Clients |-> 0]

-----------------------------------------------------------------------------
\* The n-th of a set of slots.
PlaceIn(S, i) == Cardinality({j \in S : j <= i})
NthOf(S, n) == CHOOSE i \in S : PlaceIn(S, i) = n

\* cleanUpList: entries whose timeout has passed are removed.
InTime(list) == {i \in DOMAIN list : list[i].left > 0}
CleanUpList(list) == [n \in 1 .. Cardinality(InTime(list)) |-> list[NthOf(InTime(list), n)]]

\* findClient: the slot of c, 0 when it is not listed.
FindClient(list, c) == SelectInSeq(list, LAMBDA e : e.client = c)

\* mutant: no grace.
TimeOutNow(slot) == RetryTime[slot]

GetTimeOut(slot) == RetryTime[slot] + Grace

\* mutant: behind the first client that is not premium.
SlotBehind(list) == SelectInSeq(list, LAMBDA e : e.client \notin Premium) + 1

\* Where a premium client goes: in front of the first client that is not; 0
\* when there is none.
PremiumSlot(list) == SelectInSeq(list, LAMBDA e : e.client \notin Premium)

\* Is there room for the client at slot and for those before it?
Room(slot) == Cardinality(online) + slot <= MaxPlayers

\* The list with c entered.  The entry of a premium client goes before the
\* others; with no others in the list the loop finds no place and it is not
\* entered at all.
Entered(list, c) ==
    IF c \in Premium
    THEN LET s == PremiumSlot(list)
         IN IF s = 0 THEN list ELSE InsertAt(list, s, Entry(c, GetTimeOut(s)))
    ELSE Append(list, Entry(c, GetTimeOut(Len(list) + 1)))

\* mutant: a client without premium that asks again goes to the end of the list.
RenewedLast(list, s) ==
    LET c == list[s].client
    IN IF c \in Premium THEN [list EXCEPT ![s].left = GetTimeOut(s)]
       ELSE Append(RemoveAt(list, s), Entry(c, GetTimeOut(Len(list))))

Renewed(list, s) == [list EXCEPT ![s].left = GetTimeOut(s)]

\* A client let in by the list is then loaded and placed, which may fail.
MayEnter(c) ==
    /\ promised' = [promised EXCEPT ![c] = 0]
    /\ online' \in {online, online \cup {c}}

\* The answer to a refused client: the slot it is at and when to retry.
Refuse(c) ==
    LET s == FindClient(waitList', c)
    IN /\ promised' = [promised EXCEPT ![c] = IF s = 0 THEN 0 ELSE RetryTime[s] + Grace]
       /\ UNCHANGED online

\* login, clientLogin: the flag, and no list and room enough.
EnterAtOnce(c) ==
    /\ c \notin online
    /\ c \in Always \/ (waitList = <<>> /\ Cardinality(online) < MaxPlayers)
    /\ MayEnter(c)
    /\ UNCHANGED waitList

\* The same test for a client that must ask the list.
MustWait(c) ==
    /\ c \notin online
    /\ c \notin Always
    /\ waitList # <<>> \/ Cardinality(online) >= MaxPlayers

\* clientLogin of a client whose turn has come.
EnterFromList(c) ==
    LET list == CleanUpList(waitList)
        slot == FindClient(list, c)
    IN /\ MustWait(c)
       /\ slot # 0
       /\ Room(slot)
       /\ waitList' = RemoveAt(list, slot)
       /\ MayEnter(c)

\* clientLogin of a listed client that must wait a bit longer.
WaitLonger(c) ==
    LET list == CleanUpList(waitList)
        slot == FindClient(list, c)
    IN /\ MustWait(c)
       /\ slot # 0
       /\ ~Room(slot)
       /\ waitList' = Renewed(list, slot)
       /\ Refuse(c)

\* clientLogin of a client that is not listed, or no longer.
EnterList(c) ==
    LET list == CleanUpList(waitList)
    IN /\ MustWait(c)
       /\ FindClient(list, c) = 0
       /\ waitList' = Entered(list, c)
       /\ Refuse(c)

Logout(c) ==
    /\ c \in online
    /\ online' = online \ {c}
    /\ UNCHANGED <<waitList, promised>>

Decrement(n) == IF n = 0 THEN 0 ELSE n - 1

\* Time passes.
Tick ==
    /\ waitList' = [i \in DOMAIN waitList |->
                       [waitList[i] EXCEPT !.left = Decrement(@)]]
    /\ promised' = [c \in Clients |-> Decrement(promised[c])]
    /\ UNCHANGED online

ClientLogin(c) == EnterAtOnce(c) \/ EnterFromList(c) \/ WaitLonger(c) \/ EnterList(c)

Next == (\E c \in Clients : ClientLogin(c) \/ Logout(c)) \/ Tick

Spec == Init /\ [][Next]_vars

\* Clients may stay away and players stay online; time passes.
FairSpec == Spec /\ WF_vars(Tick)

-----------------------------------------------------------------------------
(* Properties.                                                             *)

Listed(list) == {list[i].client : i \in DOMAIN list}

\* Is c before d among these slots of the list?
Before(list, S, c, d) ==
    \E i, j \in S : i < j /\ list[i].client = c /\ list[j].client = d

\* No client has two places, whether its entry was renewed, timed out or left
\* (findClient and the two insertions).
OnePlaceEach == IsInjective([i \in DOMAIN waitList |-> waitList[i].client])

\* Premium clients wait before all others, whatever the order of arrivals,
\* timeouts and retries.
PremiumFirst ==
    \A i, j \in DOMAIN waitList :
        waitList[j].client \in Premium /\ i < j => waitList[i].client \in Premium

\* "timeout is set to 15 seconds longer than expected retry attempt"
\* (waitlist.cpp): a client that comes back within 15 seconds of the time it
\* was told is still listed.
PlaceIsKept == \A c \in Clients : promised[c] > 0 => c \in Listed(waitList)

\* The list is in the order getClientSlot's answers rely on, and who was told to
\* come back is in it.
PlacesHold == TypeOK /\ OnePlaceEach /\ PremiumFirst /\ PlaceIsKept

\* Two clients that stay in the list, their time not up, keep their order:
\* asking again neither gains nor costs a place.
NoOvertaking ==
    [][\A c, d \in Clients :
          Before(waitList, InTime(waitList), c, d) /\ {c, d} \subseteq Listed(waitList')
              => Before(waitList', DOMAIN waitList', c, d)]_vars
=============================================================================
