---------------------------- MODULE SandboxLifecycle ----------------------------
(***************************************************************************)
(* What the orchestrator promises about one container ("Sandbox = one      *)
(* command", orchestrator/sandbox.js:6): it is made for the pool or for a  *)
(* command, leased to one command, used at most once, and never spare      *)
(* again.  What the code can lose track of becomes an orphan: it exists    *)
(* and nothing will ever use or remove it.                                 *)
(***************************************************************************)
CONSTANTS Commands, Containers, Nobody

VARIABLES state, user

lifecycleVars == <<state, user>>

LifecycleInit ==
  /\ state = [k \in Containers |-> "absent"]
  /\ user = [k \in Containers |-> Nobody]

Make(k, for) ==
  /\ state[k] = "absent"
  /\ state' = [state EXCEPT ![k] = "making"]
  /\ user' = [user EXCEPT ![k] = for]

(* Made for the pool it becomes spare; made for a command it is leased to it. *)
Finish(k) ==
  /\ state[k] = "making"
  /\ state' = [state EXCEPT ![k] = IF user[k] = Nobody THEN "spare" ELSE "leased"]
  /\ UNCHANGED user

Lease(k, c) ==
  /\ state[k] = "spare"
  /\ c \notin {user[j] : j \in Containers}
  /\ state' = [state EXCEPT ![k] = "leased"]
  /\ user' = [user EXCEPT ![k] = c]

Use(k) ==
  /\ state[k] = "leased"
  /\ state' = [state EXCEPT ![k] = "used"]
  /\ UNCHANGED user

GiveUp(k) ==
  /\ state[k] \in {"leased", "used"}
  /\ state' = [state EXCEPT ![k] = "doomed"]
  /\ UNCHANGED user

Remove(k) ==
  /\ state[k] = "doomed"
  /\ state' = [state EXCEPT ![k] = "absent"]
  /\ user' = [user EXCEPT ![k] = Nobody]

(* A shutdown gives up every spare container at once. *)
Retire ==
  /\ state' = [k \in Containers |-> IF state[k] = "spare" THEN "doomed" ELSE state[k]]
  /\ UNCHANGED user

(* One container is lost by a failed call, or all by the end of the process. *)
Abandon(lost) ==
  /\ state' = [k \in Containers |->
                 IF k \in lost /\ state[k] # "absent" THEN "orphan" ELSE state[k]]
  /\ user' = [k \in Containers |-> IF k \in lost THEN Nobody ELSE user[k]]

LifecycleNext ==
  \/ \E k \in Containers :
       \/ \E for \in Commands \cup {Nobody} : Make(k, for)
       \/ \E c \in Commands : Lease(k, c)
       \/ Finish(k) \/ Use(k) \/ GiveUp(k) \/ Remove(k)
       \/ state[k] \in {"making", "doomed"} /\ Abandon({k})
  \/ Retire
  \/ Abandon(Containers)

Spec == LifecycleInit /\ [][LifecycleNext]_lifecycleVars
=============================================================================
