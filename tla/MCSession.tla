----------------------------- MODULE MCSession -----------------------------
(***************************************************************************)
(* Two protocols for one character, with memory for as many Player objects *)
(* as can be alive; and what two players have open of two containers,      *)
(* which also hold a coin.  The two components share no variable:          *)
(* `subject' names the one that moves.                                     *)
(***************************************************************************)
EXTENDS Session, Windows, TLC

CONSTANTS g1, g2, p1, p2, p3, p4, anna, none, ada, ben, chest, bag, coin

\* All start on one tile.  Ada's client opens two windows, Ben's one.
MCStart == [x \in Watchers \union Stuff |-> 1]
MCNamed == [p \in Watchers |-> IF p = ada THEN Cids ELSE {0}]

VARIABLE subject

ClientInit == Init /\ WindowsInit /\ subject \in {"session", "windows"}

ClientNext ==
    /\ \/ subject = "session" /\ Next /\ UNCHANGED windowVars
       \/ subject = "windows" /\ WindowsNext /\ UNCHANGED vars
    /\ UNCHANGED subject

\* The fairness of FairSpec, when it is the turn of the sessions.
ClientSpec ==
    /\ ClientInit /\ [][ClientNext]_<<vars, windowVars, subject>>
    /\ \A g \in Protocols :
          /\ WF_vars(subject = "session" /\ Login(g))
          /\ WF_vars(subject = "session" /\ (Connect(g) \/ ConnectFails(g)))
          /\ WF_vars(subject = "session" /\ Release(g))
    /\ \A p \in Objects : WF_vars(subject = "session" /\ XLog(p))
    /\ WF_vars(subject = "session" /\ Cleanup)
=============================================================================
