-------------------------------- MODULE Coins --------------------------------
(***************************************************************************)
(* Stacks of items and money: Game::internalMoveItem, internalAddItem,     *)
(* internalRemoveItem, removeItemOfType, removeMoney and addMoney, with    *)
(* the queries Container and Tile answer them.                             *)
(*                                                                         *)
(* A container has room for some items and answers how many more it takes; *)
(* the ground takes everything.  Both are sequences with the newest (the   *)
(* top) first: Container::__addThing and Tile::__addThing put a new item   *)
(* in front whatever the index says.  A moved stack is a new Item of the   *)
(* same kind, so items are values here.  Exchanges, nested containers and  *)
(* who may touch what are in Trade.                                        *)
(*                                                                         *)
(* 100 is both the size of a full stack and the worth of a coin in coins   *)
(* of the next lower kind; Stack stands for both.                          *)
(***************************************************************************)
EXTENDS Integers, Sequences, SequencesExt, FiniteSets, FiniteSetsExt, Functions

CONSTANTS
    Stack,          \* 100
    PurseRoom,      \* Container::capacity, in items
    MaxWorth        \* bound: what all coins together are worth

ASSUME CoinsAssumption ==
    Stack \in Nat \ {0, 1} /\ PurseRoom \in Nat \ {0} /\ MaxWorth \in Nat

VARIABLES
    contents,       \* what the container and the ground hold
    ledger          \* history: the worth that was made and not paid

coinVars == <<contents, ledger>>

Kinds == {"gold", "platinum", "crystal"}
CoinHolders == {"purse", "ground"}

Worth(k) == IF k = "gold" THEN 1 ELSE IF k = "platinum" THEN Stack ELSE Stack * Stack

\* Item::getWorth of a stack.
StackWorth(x) == x.count * Worth(x.kind)

SumWorth(s) == SumFunctionOnSet([i \in DOMAIN s |-> StackWorth(s[i])], DOMAIN s)

CoinsTypeOK ==
    /\ contents \in [CoinHolders -> Seq([kind : Kinds, count : 1 .. Stack])]
    /\ ledger \in 0 .. MaxWorth

CoinsInit == contents = [h \in CoinHolders |-> <<>>] /\ ledger = 0

-----------------------------------------------------------------------------
(* Queries.  An index is a position in the holder, or 0: wherever.         *)

Item(kind, count) == [kind |-> kind, count |-> count]

\* __queryDestination's destItem: the item at the index, and on the ground the top
\* one, whatever the index; 0 when there is none.
DestIndex(c, h, index) ==
    IF h = "ground" THEN (IF c[h] = <<>> THEN 0 ELSE 1)
    ELSE IF index \in DOMAIN c[h] THEN index ELSE 0

FreeSlots(c) == IF Len(c["purse"]) >= PurseRoom THEN 0 ELSE PurseRoom - Len(c["purse"])

\* __queryAdd: the ground takes everything, a full container is refused wherever.
AcceptsItem(c, h, index) == h = "purse" /\ index = 0 => FreeSlots(c) > 0

\* __queryMaxCount: how many of a stack still go into the holder.
MaxCount(c, h, index, x, count) ==
    IF h = "ground" THEN Max({1, count})
    ELSE FreeSlots(c) * Stack
           + (IF index \in DOMAIN c[h] /\ c[h][index].kind = x.kind
              THEN Stack - c[h][index].count ELSE 0)

\* __removeThing: part of a stack, or all of it.
Taken(s, i, count) ==
    IF count = s[i].count THEN RemoveAt(s, i) ELSE [s EXCEPT ![i].count = @ - count]

\* n of the m coins join the stack at d, when it is of their kind.
Joined(c, h, d, x, m) ==
    LET n == IF d # 0 /\ c[h][d].kind = x.kind THEN Min({Stack - c[h][d].count, m}) ELSE 0
    IN [rest |-> m - n, c |-> IF n = 0 THEN c ELSE [c EXCEPT ![h][d].count = @ + n]]

\* What joins no stack is a new item in front.
Added(c, h, d, x, m) ==
    LET j == Joined(c, h, d, x, m)
    IN IF j.rest = 0 THEN j.c ELSE [j.c EXCEPT ![h] = <<Item(x.kind, j.rest)>> \o @]

-----------------------------------------------------------------------------
\* internalMoveItem of count coins.  The stack moved onto and the stack moved from
\* may be in the same holder, whose positions shift when the latter goes.
MoveCoins(from, i, to, index, count) ==
    LET x == contents[from][i]
        d == DestIndex(contents, to, index)
        m == Min({count, MaxCount(contents, to, index, x, count)})
        shifted == IF from = to /\ d > i /\ m = x.count THEN d - 1 ELSE d
    IN /\ i \in DOMAIN contents[from] /\ count \in 1 .. x.count
       /\ ~(from = to /\ d = i)
       /\ AcceptsItem(contents, to, index)
       /\ m > 0
       /\ contents' = Added([contents EXCEPT ![from] = Taken(@, i, m)], to, shifted, x, m)
       /\ UNCHANGED ledger

\* internalAddItem with INDEX_WHEREEVER: fits is the answer of the top cylinder (a
\* player's capacity); nothing is added when not everything is.
InternalAddItem(c, h, x, fits) ==
    LET d == DestIndex(c, h, 0)
        ok == h = "ground" \/ (fits /\ FreeSlots(c) > 0)
    IN [ok |-> ok, c |-> IF ok THEN Added(c, h, d, x, x.count) ELSE c]

\* One coin stack of addMoney: what the holder refuses falls to the ground.
AddOrDrop(c, h, x, fits) ==
    LET r == InternalAddItem(c, h, x, fits)
    IN IF r.ok THEN r.c ELSE InternalAddItem(c, "ground", x, TRUE).c

\* The stacks of addMoney: crystal in full stacks and the rest, platinum, gold.
CoinsFor(money) ==
    LET crystals == money \div (Stack * Stack)
        platinum == (money % (Stack * Stack)) \div Stack
        gold == money % Stack
        Rest(kind, count) == IF count > 0 THEN <<Item(kind, count)>> ELSE <<>>
    IN [k \in 1 .. crystals \div Stack |-> Item("crystal", Stack)]
         \o Rest("crystal", crystals % Stack) \o Rest("platinum", platinum) \o Rest("gold", gold)

AddMoney(c, h, money, fits) ==
    FoldLeft(LAMBDA v, x : AddOrDrop(v, h, x, x.kind \in fits), c, CoinsFor(money))

\* moneyMap, of the positions S: by worth, the cheapest first, equals as they were found.
Cheapest(s, S) ==
    CHOOSE i \in S : \A j \in S : \/ StackWorth(s[i]) < StackWorth(s[j])
                                  \/ StackWorth(s[i]) = StackWorth(s[j]) /\ i <= j

\* mutant: the change is what was still to pay.
ChangeSwapped(worth, left) == left

\* What is given back of a stack that is worth more than what is left to pay.
Change(worth, left) == worth - left

\* The stack at i is removed whole; what it is worth beyond what is left to pay is
\* given back.
PayWith(s, r, i) ==
    LET w == StackWorth(s[i])
    IN IF w <= r.left
       THEN [r EXCEPT !.kept = @ \ {i}, !.left = @ - w]
       ELSE [kept |-> r.kept \ {i}, left |-> 0, change |-> Change(w, r.left)]

\* removeMoney's loop: until the sum is paid.  The positions keep their numbers until
\* the end.
Pay(s, money) ==
    LET loop[n \in 0 .. Len(s)] ==
            IF n = 0 THEN [kept |-> DOMAIN s, left |-> money, change |-> 0]
            ELSE LET r == loop[n - 1]
                 IN IF r.left = 0 THEN r ELSE PayWith(s, r, Cheapest(s, r.kept))
    IN loop[Len(s)]

\* The stacks at the positions S.
StacksAt(s, S) ==
    FoldLeftDomain(LAMBDA t, i : IF i \in S THEN Append(t, s[i]) ELSE t, <<>>, s)

\* removeMoney from the container: FALSE and nothing done when it holds too little.
RemoveMoney(money, fits) ==
    /\ SumWorth(contents["purse"]) >= money
    /\ LET r == Pay(contents["purse"], money)
           paid == [contents EXCEPT !["purse"] = StacksAt(@, r.kept)]
       IN contents' = AddMoney(paid, "purse", r.change, fits)
    /\ ledger' = ledger - money

\* addMoney: a withdrawal, a sale.
EarnMoney(money, fits) ==
    /\ ledger + money <= MaxWorth
    /\ contents' = AddMoney(contents, "purse", money, fits)
    /\ ledger' = ledger + money

\* __getItemTypeCount.
CountOf(s, kind) ==
    SumFunctionOnSet([i \in DOMAIN s |-> IF s[i].kind = kind THEN s[i].count ELSE 0], DOMAIN s)

TakeOfType(v, x, kind) ==
    IF x.kind # kind \/ v.left = 0 THEN [v EXCEPT !.s = Append(@, x)]
    ELSE IF x.count > v.left
    THEN [s |-> Append(v.s, Item(kind, x.count - v.left)), left |-> 0]
    ELSE [v EXCEPT !.left = @ - x.count]

\* removeItemOfType, from front to back.
RemoveItemOfType(kind, count) ==
    LET s == contents["purse"]
        r == FoldLeft(LAMBDA v, x : TakeOfType(v, x, kind), [s |-> <<>>, left |-> count], s)
    IN /\ CountOf(s, kind) >= count
       /\ contents' = [contents EXCEPT !["purse"] = r.s]
       /\ ledger' = ledger - count * Worth(kind)

\* internalRemoveItem of part of a stack or all of it: dropped into the sea, used up.
InternalRemoveItem(h, i, count) ==
    /\ i \in DOMAIN contents[h] /\ count \in 1 .. contents[h][i].count
    /\ contents' = [contents EXCEPT ![h] = Taken(@, i, count)]
    /\ ledger' = ledger - count * Worth(contents[h][i].kind)

CoinsNext ==
    \/ \E from, to \in CoinHolders, i \in 1 .. MaxWorth, index \in 0 .. PurseRoom, count \in 1 .. Stack :
          MoveCoins(from, i, to, index, count)
    \/ \E money \in 1 .. MaxWorth, fits \in SUBSET Kinds :
          RemoveMoney(money, fits) \/ EarnMoney(money, fits)
    \/ \E kind \in Kinds, count \in 1 .. Stack : RemoveItemOfType(kind, count)
    \/ \E h \in CoinHolders, i \in 1 .. MaxWorth, count \in 1 .. Stack : InternalRemoveItem(h, i, count)

CoinsSpec == CoinsInit /\ [][CoinsNext]_coinVars

-----------------------------------------------------------------------------
\* No coin is lost or made by a move, a split or a join, by paying with stacks
\* that are worth more than the sum, or by change that finds no room.
NothingLost == SumWorth(contents["purse"]) + SumWorth(contents["ground"]) = ledger

\* Splitting and joining keep stacks between one and a full stack, and the container
\* within its room.
StacksFit ==
    /\ \A h \in CoinHolders : \A i \in DOMAIN contents[h] : contents[h][i].count \in 1 .. Stack
    /\ Len(contents["purse"]) <= PurseRoom

MoneyKept == CoinsTypeOK /\ NothingLost /\ StacksFit
=============================================================================
