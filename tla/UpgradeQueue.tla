---------------------------- MODULE UpgradeQueue ----------------------------
(***************************************************************************)
(* What the OdooUpgrade controller promises, with no caches, no messages   *)
(* and no faults: the upgrades of an instance form a queue in the order of *)
(* their creation; the oldest starts when none is running, ends once, and  *)
(* keeps its outcome.                                                      *)
(***************************************************************************)
EXTENDS Naturals

CONSTANTS Names, Instances, InstanceOf

VARIABLES
    state,   \* where each upgrade is
    ticket,  \* its place in the order of creation
    next     \* the last ticket given out

vars == <<state, ticket, next>>

State == {"absent", "waiting", "running", "succeeded", "failed"}

Rivals(n) == {m \in Names \ {n} : InstanceOf[m] = InstanceOf[n]}

\* n is at the head of its instance's queue and nothing runs there.
MayStart(n) ==
    \A m \in Rivals(n) :
        /\ state[m] # "running"
        /\ state[m] = "waiting" => ticket[n] < ticket[m]

Submit(n) ==
    /\ state[n] = "absent"
    /\ state' = [state EXCEPT ![n] = "waiting"]
    /\ ticket' = [ticket EXCEPT ![n] = next + 1]
    /\ next' = next + 1

Start(n) ==
    /\ state[n] = "waiting" /\ MayStart(n)
    /\ state' = [state EXCEPT ![n] = "running"]
    /\ UNCHANGED <<ticket, next>>

\* A waiting upgrade is rejected, a running one ends either way.
End(n, outcome) ==
    /\ \/ state[n] = "running" /\ outcome \in {"succeeded", "failed"}
       \/ state[n] = "waiting" /\ outcome = "failed"
    /\ state' = [state EXCEPT ![n] = outcome]
    /\ UNCHANGED <<ticket, next>>

Withdraw(n) ==
    /\ state[n] # "absent"
    /\ state' = [state EXCEPT ![n] = "absent"]
    /\ ticket' = [ticket EXCEPT ![n] = 0]
    /\ UNCHANGED next

\* The cluster is empty or holds one upgrade.
Init ==
    /\ next = 0 /\ ticket = [n \in Names |-> 0]
    /\ state \in [Names -> State]
    /\ \A n, m \in Names : state[n] # "absent" /\ state[m] # "absent" => n = m

Next ==
    \E n \in Names :
        \/ Submit(n) \/ Start(n) \/ Withdraw(n)
        \/ \E outcome \in {"succeeded", "failed"} : End(n, outcome)

Spec == Init /\ [][Next]_vars
=============================================================================
