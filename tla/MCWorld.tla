------------------------------- MODULE MCWorld -------------------------------
(***************************************************************************)
(* What lives and lies in the world: creatures and the spawn they come     *)
(* from, items that decay, stacks and money, and what a client sees.  As   *)
(* in MCPlayers, the components share no variable and `subject' names the  *)
(* one that moves.                                                         *)
(***************************************************************************)
EXTENDS Creatures, Decay, Coins, Sight, TLC

Decays(to, time, stop, combat, group) ==
    [decayTo |-> to, decayTime |-> time, stopTime |-> stop, combat |-> combat, group |-> group]

\* A torch that burns to a stub, its unlit form, the stub, a field of magic.
MCTypeData ==
    "lit" :> Decays("stub", 3, FALSE, FALSE, 1)
    @@ "out" :> Decays(Never, 0, FALSE, FALSE, 1)
    @@ "stub" :> Decays(Vanish, 2, FALSE, FALSE, 1)
    @@ "field" :> Decays(Vanish, 2, FALSE, TRUE, 3)

VARIABLE subject

WorldInit ==
    /\ CreaturesInit /\ DecayInit /\ CoinsInit /\ SightInit
    /\ subject \in {"creatures", "decay", "coins", "sight"}
    /\ spawned # {} => subject = "creatures"    \* one initial state of the others

WorldNext ==
    /\ \/ subject = "creatures" /\ CreaturesNext /\ UNCHANGED <<decayVars, coinVars, sightVars>>
       \/ subject = "decay" /\ DecayNext /\ UNCHANGED <<creatureVars, coinVars, sightVars>>
       \/ subject = "coins" /\ CoinsNext /\ UNCHANGED <<creatureVars, decayVars, sightVars>>
       \/ subject = "sight" /\ SightNext /\ UNCHANGED <<creatureVars, decayVars, coinVars>>
    /\ UNCHANGED subject

WorldSpec ==
    WorldInit /\ [][WorldNext]_<<creatureVars, decayVars, coinVars, sightVars, subject>>
=============================================================================
