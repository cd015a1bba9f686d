------------------------------ MODULE MCPlayers ------------------------------
(***************************************************************************)
(* What players share: parties, trades, chat channels and the waiting      *)
(* list; and the orders of one player.                                     *)
(* The components have no variable in common and none calls another, so a  *)
(* state of the server is a state of each, and what can be said of one is  *)
(* checked while the others stand still: `subject' names which one moves.  *)
(***************************************************************************)
EXTENDS Party, Trade, Chat, WaitingList, Errands

CONSTANTS ann, bob, pam, pia, gm, ada, ben, cid, pack, bag, pouch, coin, guild, push, eat

MCClients == {ann, bob, pam, pia, gm}
MCPremium == {pam, pia}
MCAlways == {gm}
\* The retry time grows at the second slot, as getTime's does at the fifth.
MCRetryTime == <<1, 2, 2, 2, 2, 2>>

\* Ada carries a pack in the only slot, with a bag in it; the pouch is in the bag.
MCParents == {(pack :> ada) @@ (bag :> pack) @@ (pouch :> bag) @@ (coin :> ben)}

MCGuildOf == (ada :> guild) @@ (ben :> NoGuild)

\* Ada pushes something two steps away and eats something on the way.
MCKindOf == (push :> "move") @@ (eat :> "use")
MCPlaceOf == (push :> 2) @@ (eat :> 1)

VARIABLE subject

PlayersInit ==
    /\ PartyInit /\ TradeInit /\ ChatInit /\ Init /\ ErrandsInit
    /\ subject \in {"party", "trade", "chat", "waitlist", "errands"}

PlayersNext ==
    /\ \/ /\ subject = "party" /\ PartyNext
          /\ UNCHANGED <<tradeVars, chatVars, vars, errandVars>>
       \/ /\ subject = "trade" /\ TradeNext
          /\ UNCHANGED <<partyVars, chatVars, vars, errandVars>>
       \/ /\ subject = "chat" /\ ChatNext
          /\ UNCHANGED <<partyVars, tradeVars, vars, errandVars>>
       \/ /\ subject = "waitlist" /\ Next
          /\ UNCHANGED <<partyVars, tradeVars, chatVars, errandVars>>
       \/ /\ subject = "errands" /\ ErrandsNext
          /\ UNCHANGED <<partyVars, tradeVars, chatVars, vars>>
    /\ UNCHANGED subject

PlayersSpec ==
    /\ PlayersInit
    /\ [][PlayersNext]_<<partyVars, tradeVars, chatVars, vars, errandVars, subject>>
=============================================================================
