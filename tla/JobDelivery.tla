----------------------------- MODULE JobDelivery -----------------------------
(***************************************************************************)
(* What a job queue promises its callers (the QueueDriver contract): an    *)
(* armed job is delivered to handlers, at most MaxAttempts times, until    *)
(* one delivery of THIS arming has succeeded; it is given up only when the *)
(* deliveries are used up; afterwards it may be armed again.               *)
(***************************************************************************)
EXTENDS Naturals

CONSTANTS Jobs, MaxAttempts

VARIABLES
    state,      \* per job: absent, pending, done or dead
    tries,      \* per job: deliveries of the current arming
    succeeded   \* per job: has a delivery of the current arming succeeded

deliveryVars == <<state, tries, succeeded>>

DeliveryInit ==
    /\ state = [j \in Jobs |-> "absent"]
    /\ tries = [j \in Jobs |-> 0]
    /\ succeeded = [j \in Jobs |-> FALSE]

Arm(j) ==
    /\ state[j] # "pending"
    /\ state' = [state EXCEPT ![j] = "pending"]
    /\ tries' = [tries EXCEPT ![j] = 0]
    /\ succeeded' = [succeeded EXCEPT ![j] = FALSE]

Deliver(j) ==
    /\ state[j] = "pending"
    /\ tries[j] < MaxAttempts
    /\ tries' = [tries EXCEPT ![j] = @ + 1]
    /\ UNCHANGED <<state, succeeded>>

Succeed(j) ==
    /\ tries[j] > 0
    /\ succeeded' = [succeeded EXCEPT ![j] = TRUE]
    /\ UNCHANGED <<state, tries>>

Finish(j) ==
    /\ state[j] = "pending"
    /\ succeeded[j]
    /\ state' = [state EXCEPT ![j] = "done"]
    /\ UNCHANGED <<tries, succeeded>>

\* Several jobs may be given up at once.
GiveUp(S) ==
    /\ \A j \in S : state[j] = "pending" /\ tries[j] = MaxAttempts
    /\ state' = [j \in Jobs |-> IF j \in S THEN "dead" ELSE state[j]]
    /\ UNCHANGED <<tries, succeeded>>

DeliveryNext ==
    \/ \E j \in Jobs : Arm(j) \/ Deliver(j) \/ Succeed(j) \/ Finish(j)
    \/ \E S \in SUBSET Jobs : GiveUp(S)

DeliverySpec == DeliveryInit /\ [][DeliveryNext]_deliveryVars

=============================================================================
