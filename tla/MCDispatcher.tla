---------------------------- MODULE MCDispatcher ----------------------------
(***************************************************************************)
(* The dispatcher with two other threads (network, scheduler), the task    *)
(* that shuts the server down and the one it enqueues, two packets and one *)
(* task a packet's task adds; and the two periodic tasks that promise an   *)
(* end, checkCreatures and checkDecay.  The components share no variable:  *)
(* `subject' names the one that moves.                                     *)
(***************************************************************************)
EXTENDS Dispatcher, Creatures, Decay, TLC

CONSTANTS net, sch, disp, free, stopT, downT, t1, t2, t3, null

MCThreads == {net, sch}
MCTasks == {stopT, downT, t1, t2, t3}
MCSpawn == (stopT :> {downT}) @@ (downT :> {}) @@ (t1 :> {t3})
           @@ (t2 :> {}) @@ (t3 :> {})

Decays(to, time, combat, group) ==
    [decayTo |-> to, decayTime |-> time, stopTime |-> FALSE, combat |-> combat, group |-> group]

\* A torch that burns to a stub, its unlit form, the stub, a field of magic.
MCTypeData ==
    "lit" :> Decays("stub", 3, FALSE, 1) @@ "out" :> Decays(Never, 0, FALSE, 1)
    @@ "stub" :> Decays(Vanish, 2, FALSE, 1) @@ "field" :> Decays(Vanish, 2, TRUE, 3)

VARIABLE subject

TasksInit ==
    /\ Init /\ CreaturesInit /\ DecayInit
    /\ subject \in {"dispatcher", "creatures", "decay"}
    /\ spawned # {} => subject = "creatures"    \* one initial state of the others

TasksNext ==
    /\ \/ subject = "dispatcher" /\ Next /\ UNCHANGED <<creatureVars, decayVars>>
       \/ subject = "creatures" /\ CreaturesNext /\ UNCHANGED <<vars, decayVars>>
       \/ subject = "decay" /\ DecayNext /\ UNCHANGED <<vars, creatureVars>>
    /\ UNCHANGED subject

\* Each component is as fair as its own specification says: the conjuncts of
\* FairSpec, CreaturesFairness and DecayFairness.
TasksSpec ==
    /\ TasksInit /\ [][TasksNext]_<<vars, creatureVars, decayVars, subject>>
    /\ WF_vars(subject = "dispatcher" /\ DispatcherStep)
    /\ \A self \in AllThreads : WF_vars(Notify(self))
    /\ []<>(subject = "creatures") => []<><<CheckCreatures>>_creatureVars
    /\ \A c \in Creatures :
          []<>(Idle /\ c \in deaths) => []<><<DeathDelay(c)>>_creatureVars
    /\ []<>DecayDue => []<><<CheckDecay>>_decayVars
=============================================================================
