------------------------------ MODULE MCRules ------------------------------
EXTENDS Scripts, Deaths, TLC

VARIABLE subject

RulesInit ==
    /\ ScriptsInit /\ DeathsInit /\ subject \in {"scripts", "deaths"}
    /\ subject = "scripts" => \A f \in Foes : master[f] = NoOne

RulesNext ==
    /\ \/ subject = "scripts" /\ ScriptsNext /\ UNCHANGED deathVars
       \/ subject = "deaths" /\ DeathsNext /\ UNCHANGED scriptVars
    /\ UNCHANGED subject

RulesSpec == RulesInit /\ [][RulesNext]_<<scriptVars, deathVars, subject>>
=============================================================================
