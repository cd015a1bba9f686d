-------------------------- MODULE MCGameLifecycle --------------------------
(***************************************************************************)
(* The life of the server with two characters, one of them allowed to log  *)
(* in at any time; what a player on its way to do something goes through;  *)
(* what conditions and items do to him; houses with their lists and        *)
(* sales; their rent and the bank.  The five share no variable: `subject'  *)
(* names the one that moves.                                               *)
(***************************************************************************)
EXTENDS GameLifecycle, Errands, Effects, Houses, Estates, TLC

CONSTANTS anna, gm, none, eat, ann, bob, sofa

MCPlayers == {anna, gm}
MCAlways == {gm}

MCKindOf == eat :> "use"
MCPlaceOf == eat :> 2

Abilities(speed, invisible, percent, suppresses, required, worn, off) ==
    [speed |-> speed, invisible |-> invisible, percent |-> percent, suppresses |-> suppresses,
     required |-> required, worn |-> worn, off |-> off]

\* A ring that hides who wears it, and boots for a higher level.
MCGearData ==
    "ring" :> Abilities(0, FALSE, FALSE, FALSE, 1, "active", Bare)
    @@ "active" :> Abilities(0, TRUE, FALSE, FALSE, 1, Bare, "ring")
    @@ "boots" :> Abilities(1, FALSE, TRUE, TRUE, 2, Bare, Bare)

Spell(kind, delta, left) == [kind |-> kind, id |-> Combat, left |-> left, delta |-> delta]
MCSpells ==
    {Spell("haste", 1, 1), Spell("haste", 2, 1), Spell("paralyze", -1, 1),
     Spell("invisible", 0, 1), Spell("invisible", 0, Forever), Spell("attributes", 1, 1)}

\* Two houses that cost one, and tenants who have one.
MCTexts == {{}, {bob}}
MCRent == [h \in {1, 2} |-> 1]
MCWealth == [p \in {ann, bob} |-> 1]
MCHome == sofa :> ann

VARIABLE subject

LifeInit ==
    /\ Init /\ ErrandsInit /\ EffectsInit /\ HousesInit /\ EstatesInit
    /\ subject \in {"server", "errands", "effects", "houses", "estates"}

LifeNext ==
    /\ \/ subject = "server" /\ Next /\ UNCHANGED <<errandVars, effectVars, houseVars, estateVars>>
       \/ subject = "errands" /\ ErrandsNext /\ UNCHANGED <<vars, effectVars, houseVars, estateVars>>
       \/ subject = "effects" /\ EffectsNext /\ UNCHANGED <<vars, errandVars, houseVars, estateVars>>
       \/ subject = "houses" /\ HousesNext /\ UNCHANGED <<vars, errandVars, effectVars, estateVars>>
       \/ subject = "estates" /\ EstatesNext /\ UNCHANGED <<vars, errandVars, effectVars, houseVars>>
    /\ UNCHANGED subject

\* The fairness of FairSpec, when it is the server's turn, and of ErrandsSpec.
LifeSpec ==
    /\ LifeInit /\ [][LifeNext]_<<vars, errandVars, effectVars, houseVars, estateVars, subject>>
    /\ WF_vars(subject = "server" /\ DispatcherNext)
    /\ WF_vars(subject = "server" /\ (Start \/ Wait \/ Serve))
    /\ ErrandsFairness
=============================================================================
