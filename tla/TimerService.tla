---------------------------- MODULE TimerService ----------------------------
(***************************************************************************)
(* What the users of font/scheduler.h rely on: addEvent books a call,      *)
(* stopEvent answers whether it could still prevent it, a booked call is   *)
(* given to the dispatcher at most once, never before its time, and never  *)
(* after a stopEvent that answered true.                                   *)
(***************************************************************************)
EXTENDS Naturals

CONSTANT Events

VARIABLES
    status,     \* what became of each booking
    due,        \* the time before which it must not be given out
    clock

tvars == <<status, due, clock>>

Status == {"none", "booked", "stopped", "given", "dropped"}

TInit ==
    /\ status = [e \in Events |-> "none"]
    /\ due = [e \in Events |-> 0]
    /\ clock = 0

Book(e) ==
    /\ status[e] = "none"
    /\ status' = [status EXCEPT ![e] = "booked"]
    /\ due' = [due EXCEPT ![e] = due'[e]]
    /\ due'[e] > clock
    /\ UNCHANGED clock

\* Nothing is booked while the server shuts down.
Refuse(e) ==
    /\ status[e] = "none"
    /\ status' = [status EXCEPT ![e] = "dropped"]
    /\ due' = [due EXCEPT ![e] = due'[e]]
    /\ UNCHANGED clock

StopBooked(e) ==
    /\ status[e] = "booked"
    /\ status' = [status EXCEPT ![e] = "stopped"]
    /\ UNCHANGED <<due, clock>>

Give(e) ==
    /\ status[e] = "booked"
    /\ clock >= due[e]
    /\ status' = [status EXCEPT ![e] = "given"]
    /\ UNCHANGED <<due, clock>>

\* Shutting down drops every call still booked, in one step.
DropAll ==
    /\ status' = [e \in Events |-> IF status[e] = "booked" THEN "dropped"
                                                           ELSE status[e]]
    /\ UNCHANGED <<due, clock>>

Advance ==
    /\ clock' > clock
    /\ UNCHANGED <<status, due>>

TNext ==
    \/ \E e \in Events : Book(e) \/ Refuse(e) \/ StopBooked(e) \/ Give(e)
    \/ DropAll
    \/ Advance

TSpec == TInit /\ [][TNext]_tvars
=============================================================================
