------------------------------ MODULE MCCombat ------------------------------
(***************************************************************************)
(* Creatures against each other: whom they pursue, what a monster takes    *)
(* the map around it to be, and what fights between players leave behind.  *)
(* As in MCPlayers the components have no variable in common, and          *)
(* `subject' names the one that moves.                                     *)
(***************************************************************************)
EXTENDS Pursuit, WalkMap, Skulls, TLC

CONSTANTS hero, orc, rat, pit, stair, door, crate, fire

\* Those in sight are told in either order.
MCRolls == {<<hero, orc, rat>>, <<rat, orc, hero>>}

\* A pit that opens where stairs may stand, a door and a crate on one tile,
\* and a field, on the edges of a map of three by three.
MCKindFlags ==
    LET wall == {"blockSolid", "immovableBlockSolid", "noFieldBlockPath", "immovableNoFieldBlockPath"}
    IN  "floor" :> {} @@ "hole" :> {"floorChange"} @@ "stairs" :> {"floorChange"}
        @@ "open" :> {} @@ "closed" :> wall @@ "box" :> {"blockSolid", "noFieldBlockPath"}
        @@ "field" :> {"magicField"}
MCTurns == {<<"floor", "hole">>, <<"hole", "floor">>, <<"open", "closed">>, <<"closed", "open">>}
MCFirstKind == (pit :> "floor") @@ (stair :> "stairs") @@ (door :> "open") @@ (crate :> "box")
               @@ (fire :> "field")
MCBeds == (pit :> {<<1, 1>>}) @@ (stair :> {<<1, 1>>}) @@ (door :> {<<3, 2>>})
          @@ (crate :> {<<3, 2>>}) @@ (fire :> {<<2, 3>>})
MCWalks == {<<1, 1>>, <<3, 3>>}

VARIABLE subject

CombatInit ==
    /\ PursuitInit /\ WalkInit /\ SkullsInit
    /\ subject \in {"pursuit", "walkmap", "skulls"}
    /\ subject # "walkmap" => place = <<2, 2>>

CombatNext ==
    /\ \/ subject = "pursuit" /\ PursuitNext /\ UNCHANGED <<walkVars, skullVars>>
       \/ subject = "walkmap" /\ WalkNext /\ UNCHANGED <<pursuitVars, skullVars>>
       \/ subject = "skulls" /\ SkullsNext /\ UNCHANGED <<pursuitVars, walkVars>>
    /\ UNCHANGED subject

CombatSpec == CombatInit /\ [][CombatNext]_<<pursuitVars, walkVars, skullVars, subject>>
=============================================================================
