----------------------------- MODULE MCProcesses ----------------------------
(***************************************************************************)
(* Four components that share no state: the Nav2 adapter's transport, the  *)
(* lifecycle of the example's project, the owner of the runtime and the    *)
(* operator's challenge. A behaviour is one of one of them while the three *)
(* others stay in their initial states.                                    *)
(***************************************************************************)
EXTENDS Nav2Transport, ProjectLifecycle, RuntimeOwner, OperatorChallenge

VARIABLE component

all == <<component, nav2, vars, owner, challenge>>

AllInit == /\ component \in {"nav2", "project", "owner", "challenge"}
           /\ Nav2Init /\ Init /\ OwnerInit /\ ChallengeInit

\* The bounds of the behaviours. Of the operator's stop and a cancel_task one
\* comes into a navigation; of three calls upon the runtime's owner no more
\* than two are under way at once.
OneIntruder == where["stopper"] = "idle" \/ \A t \in Cancellers : where[t] = "idle"
TwoCalls == \E t \in Threads : at[t] \in {"idle", "closed"}

Only(name, action, others) == component = name /\ action /\ UNCHANGED <<component, others>>

AllNext == \/ Only("nav2", Nav2Next /\ OneIntruder', <<vars, owner, challenge>>)
           \/ Only("project", Next, <<nav2, owner, challenge>>)
           \/ Only("owner", OwnerNext /\ TwoCalls', <<nav2, vars, challenge>>)
           \/ Only("challenge", ChallengeNext, <<nav2, vars, owner>>)

AllSpec == AllInit /\ [][AllNext]_all

\* Two tool calls are alike.
Symmetry == Permutations(Callers)
=============================================================================
