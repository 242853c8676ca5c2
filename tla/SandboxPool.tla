------------------------------ MODULE SandboxPool ------------------------------
(***************************************************************************)
(* The pre-warmed pool of one-shot containers: SandboxPool in              *)
(* orchestrator/pool.js, the part of runCommand that borrows a container   *)
(* and gives it up (orchestrator/sandbox.js), and the start and shutdown   *)
(* of the process that owns the pool (index.js).                           *)
(*                                                                         *)
(* Node runs one turn at a time; a turn ends where the code awaits the     *)
(* Docker daemon.  An action below is one turn: it begins with the answer  *)
(* of the daemon (or with a request, a signal) and ends at the next await. *)
(* In destroy() the two awaits are one step: the answer to kill() is       *)
(* ignored whatever it is and remove() always follows, so nothing can be   *)
(* told apart between them.                                                *)
(***************************************************************************)
EXTENDS Integers, FiniteSets, SequencesExt

CONSTANTS
  Commands,       \* the invocations of runCommand that may be in flight at once
  Containers,     \* the containers the host can hold at once
  NoBox,          \* "this command holds no container"
  MinSize,        \* SANDBOX_POOL_MIN
  LowWatermark,   \* SANDBOX_POOL_LOW_WATERMARK
  MaxConcurrent,  \* SANDBOX_MAX_CONCURRENT
  Faults          \* what may go wrong: a subset of FaultKinds

FaultKinds == {"create", "start", "remove", "crash", "restart"}

ASSUME PoolAssumption ==
  /\ IsFiniteSet(Commands)
  /\ IsFiniteSet(Containers)
  /\ NoBox \notin Containers \cup Commands
  /\ MinSize \in Nat
  /\ LowWatermark \in Nat
  /\ MaxConcurrent \in Nat
  /\ Faults \subseteq FaultKinds

VARIABLES
  phase,           \* the process: "down", "boot", "up", "draining" or "stopped"
  docker,          \* what the daemon knows of each container
  idle,            \* SandboxPool.idle, a stack
  liveCount,       \* SandboxPool.liveCount
  refilling,       \* SandboxPool.refilling
  refillCreating,  \* how many _refillTo loops await createContainer()
  refillStarting,  \* the containers whose start() a _refillTo loop awaits
  pc,              \* where each runCommand invocation is
  box,             \* the container each invocation has created or was given
  draining,        \* the containers drain() is destroying
  stuck            \* the containers whose remove() failed: still counted, owned by nobody

poolVars == <<idle, liveCount, refilling, refillCreating, refillStarting>>
cmdVars  == <<pc, box>>
vars     == <<phase, docker, poolVars, cmdVars, draining, stuck>>

-----------------------------------------------------------------------------
(* A settled invocation may be issued again: the identities in Commands are *)
(* slots, as many as there are connections with a command in flight.        *)
Settled  == {"ready", "refused", "failed"}
Creating == {"creating", "starting"}     \* inside _createOne, on behalf of acquire
Holding  == {"holding", "destroying"}    \* between acquire and the end of destroy

Absent   == {k \in Containers : docker[k] = "absent"}
Pending  == {c \in Commands : pc[c] \in Creating}
Held     == {box[c] : c \in {d \in Commands : pc[d] \in Holding}}
BeingMade == {box[c] : c \in {d \in Commands : pc[d] = "starting"}} \cup refillStarting
RefillLoops == refillCreating + Cardinality(refillStarting)

(* The containers that liveCount is meant to count: started by this process *)
(* and not removed.                                                         *)
Counted == Range(idle) \cup Held \cup draining \cup stuck

TypeOK ==
  /\ phase \in {"down", "boot", "up", "draining", "stopped"}
  /\ docker \in [Containers -> {"absent", "created", "running", "used"}]
  /\ idle \in Seq(Containers)
  /\ liveCount \in Nat
  /\ refilling \in BOOLEAN
  /\ refillCreating \in Nat
  /\ refillStarting \subseteq Containers
  /\ pc \in [Commands -> Settled \cup Creating \cup Holding]
  /\ box \in [Commands -> Containers \cup {NoBox}]
  /\ draining \subseteq Containers
  /\ stuck \subseteq Containers

Init ==
  /\ phase = "down"
  /\ docker = [k \in Containers |-> "absent"]
  /\ idle = <<>>
  /\ liveCount = 0
  /\ refilling = FALSE
  /\ refillCreating = 0
  /\ refillStarting = {}
  /\ pc = [c \in Commands |-> "ready"]
  /\ box = [c \in Commands |-> NoBox]
  /\ draining = {}
  /\ stuck = {}

(* The process is gone and so is its memory; the daemon keeps every         *)
(* container, and nothing in the code looks for them at the next start.     *)
ProcessEnds(newPhase) ==
  /\ phase' = newPhase
  /\ idle' = <<>>
  /\ liveCount' = 0
  /\ refilling' = FALSE
  /\ refillCreating' = 0
  /\ refillStarting' = {}
  /\ pc' = [c \in Commands |-> "ready"]
  /\ box' = [c \in Commands |-> NoBox]
  /\ draining' = {}
  /\ stuck' = {}
  /\ UNCHANGED docker

-----------------------------------------------------------------------------
(* _refillTo(minSize) *)

(* The condition of its loop, given the idle stack and the counter. *)
WantsMore(spare, live) == Len(spare) < MinSize /\ live < MaxConcurrent

(* (mutated form of CallRefill: a second loop may start) *)
CallRefillUnguarded(spare, live) ==
  IF WantsMore(spare, live)
    THEN /\ refilling' = TRUE
         /\ refillCreating' = refillCreating + 1
    ELSE UNCHANGED <<refilling, refillCreating>>

(* The call, up to its first await: nothing when a loop is running already  *)
(* or when there is nothing to add.                                         *)
CallRefill(spare, live) ==
  IF ~refilling /\ WantsMore(spare, live)
    THEN /\ refilling' = TRUE
         /\ refillCreating' = refillCreating + 1
    ELSE UNCHANGED <<refilling, refillCreating>>

(* The loop's next turn once it has pushed a container. *)
ContinueRefill(spare, live) ==
  IF WantsMore(spare, live)
    THEN refillCreating' = refillCreating + 1 /\ UNCHANGED refilling
    ELSE refilling' = FALSE /\ UNCHANGED refillCreating

(* acquire() starts a refill in the background once it has its container.   *)
TopUp(spare, live) ==
  IF Len(spare) < LowWatermark
    THEN CallRefill(spare, live)
    ELSE UNCHANGED <<refilling, refillCreating>>

RefillCreated(k) ==
  /\ refillCreating > 0
  /\ k \in Absent
  /\ docker' = [docker EXCEPT ![k] = "created"]
  /\ refillCreating' = refillCreating - 1
  /\ refillStarting' = refillStarting \cup {k}
  /\ UNCHANGED <<phase, idle, liveCount, refilling, cmdVars, draining, stuck>>

(* A host that is full refuses too. *)
CreateMayFail == "create" \in Faults \/ Absent = {}

(* (mutated form of RefillFails: no finally, the flag stays) *)
RefillFailsKeepingFlag ==
  IF phase = "boot"
    THEN ProcessEnds("down")
    ELSE UNCHANGED <<phase, docker, idle, liveCount, refilling, cmdVars, draining, stuck>>

(* A failing loop resets the flag in its finally.  While the process boots, *)
(* the failure reaches main(), which exits; later it is only logged.        *)
RefillFails ==
  IF phase = "boot"
    THEN ProcessEnds("down")
    ELSE /\ refilling' = FALSE
         /\ UNCHANGED <<phase, docker, idle, liveCount, cmdVars, draining, stuck>>

RefillCreateFails ==
  /\ CreateMayFail
  /\ refillCreating > 0
  /\ refillCreating' = IF phase = "boot" THEN 0 ELSE refillCreating - 1
  /\ refillStarting' = IF phase = "boot" THEN {} ELSE refillStarting
  /\ RefillFails

RefillStarted(k) ==
  LET spare == Append(idle, k)
      live  == liveCount + 1
  IN
  /\ k \in refillStarting
  /\ docker' = [docker EXCEPT ![k] = "running"]
  /\ refillStarting' = refillStarting \ {k}
  /\ liveCount' = live
  /\ idle' = spare
  /\ ContinueRefill(spare, live)
  /\ phase' = IF phase = "boot" /\ ~WantsMore(spare, live) THEN "up" ELSE phase
  /\ UNCHANGED <<cmdVars, draining, stuck>>

(* start() fails: the container stays created, uncounted and unreferenced.  *)
RefillStartFails(k) ==
  /\ "start" \in Faults
  /\ k \in refillStarting
  /\ refillStarting' = IF phase = "boot" THEN {} ELSE refillStarting \ {k}
  /\ refillCreating' = IF phase = "boot" THEN 0 ELSE refillCreating
  /\ RefillFails

-----------------------------------------------------------------------------
(* acquire() on behalf of runCommand c *)

Serving == phase \in {"up", "draining"}   \* server.close() keeps open sockets

AcquireRefused(c) ==
  /\ Serving
  /\ pc[c] \in Settled
  /\ idle = <<>>
  /\ liveCount >= MaxConcurrent
  /\ pc' = [pc EXCEPT ![c] = "refused"]
  /\ UNCHANGED <<phase, docker, poolVars, box, draining, stuck>>

(* (mutated form of AcquireIdle: the stack is read and not popped) *)
AcquireIdlePeek(c) ==
  /\ Serving
  /\ pc[c] \in Settled
  /\ idle # <<>>
  /\ pc' = [pc EXCEPT ![c] = "holding"]
  /\ box' = [box EXCEPT ![c] = Last(idle)]
  /\ TopUp(Front(idle), liveCount)
  /\ UNCHANGED <<phase, docker, idle, liveCount, refillStarting, draining, stuck>>

AcquireIdle(c) ==
  /\ Serving
  /\ pc[c] \in Settled
  /\ idle # <<>>
  /\ idle' = Front(idle)
  /\ pc' = [pc EXCEPT ![c] = "holding"]
  /\ box' = [box EXCEPT ![c] = Last(idle)]
  /\ TopUp(Front(idle), liveCount)
  /\ UNCHANGED <<phase, docker, liveCount, refillStarting, draining, stuck>>

(* (mutated form of AcquireNew: the ceiling is not looked at) *)
AcquireNewUnchecked(c) ==
  /\ Serving
  /\ pc[c] \in Settled
  /\ idle = <<>>
  /\ pc' = [pc EXCEPT ![c] = "creating"]
  /\ UNCHANGED <<phase, docker, poolVars, box, draining, stuck>>

(* The ceiling is checked here, before the await; liveCount moves only when *)
(* the container has started.                                               *)
AcquireNew(c) ==
  /\ Serving
  /\ pc[c] \in Settled
  /\ idle = <<>>
  /\ liveCount < MaxConcurrent
  /\ pc' = [pc EXCEPT ![c] = "creating"]
  /\ UNCHANGED <<phase, docker, poolVars, box, draining, stuck>>

Created(c, k) ==
  /\ pc[c] = "creating"
  /\ k \in Absent
  /\ docker' = [docker EXCEPT ![k] = "created"]
  /\ pc' = [pc EXCEPT ![c] = "starting"]
  /\ box' = [box EXCEPT ![c] = k]
  /\ UNCHANGED <<phase, poolVars, draining, stuck>>

CreateFails(c) ==
  /\ CreateMayFail
  /\ pc[c] = "creating"
  /\ pc' = [pc EXCEPT ![c] = "failed"]
  /\ UNCHANGED <<phase, docker, poolVars, box, draining, stuck>>

Started(c) ==
  /\ pc[c] = "starting"
  /\ docker' = [docker EXCEPT ![box[c]] = "running"]
  /\ liveCount' = liveCount + 1
  /\ pc' = [pc EXCEPT ![c] = "holding"]
  /\ TopUp(idle, liveCount + 1)
  /\ UNCHANGED <<phase, idle, refillStarting, box, draining, stuck>>

StartFails(c) ==
  /\ "start" \in Faults
  /\ pc[c] = "starting"
  /\ pc' = [pc EXCEPT ![c] = "failed"]
  /\ box' = [box EXCEPT ![c] = NoBox]
  /\ UNCHANGED <<phase, docker, poolVars, draining, stuck>>

-----------------------------------------------------------------------------
(* runCommand c with its container, then destroy() *)

Exec(c) ==
  /\ pc[c] = "holding"
  /\ docker[box[c]] = "running"
  /\ docker' = [docker EXCEPT ![box[c]] = "used"]
  /\ UNCHANGED <<phase, poolVars, cmdVars, draining, stuck>>

(* The finally of runCommand, also when exec() itself failed. *)
BeginDestroy(c) ==
  /\ pc[c] = "holding"
  /\ pc' = [pc EXCEPT ![c] = "destroying"]
  /\ UNCHANGED <<phase, docker, poolVars, box, draining, stuck>>

(* (mutated form of Removed: the container is given back to the pool) *)
RemovedIntoPool(c) ==
  /\ pc[c] = "destroying"
  /\ idle' = Append(idle, box[c])
  /\ pc' = [pc EXCEPT ![c] = "ready"]
  /\ box' = [box EXCEPT ![c] = NoBox]
  /\ UNCHANGED <<phase, docker, liveCount, refilling, refillCreating, refillStarting,
                 draining, stuck>>

(* (mutated form of Removed: counted down in destroy() and in its caller) *)
RemovedTwiceCounted(c) ==
  /\ pc[c] = "destroying"
  /\ docker' = [docker EXCEPT ![box[c]] = "absent"]
  /\ liveCount' = liveCount - 2
  /\ pc' = [pc EXCEPT ![c] = "ready"]
  /\ box' = [box EXCEPT ![c] = NoBox]
  /\ UNCHANGED <<phase, idle, refilling, refillCreating, refillStarting, draining, stuck>>

Removed(c) ==
  /\ pc[c] = "destroying"
  /\ docker' = [docker EXCEPT ![box[c]] = "absent"]
  /\ liveCount' = liveCount - 1
  /\ pc' = [pc EXCEPT ![c] = "ready"]
  /\ box' = [box EXCEPT ![c] = NoBox]
  /\ UNCHANGED <<phase, idle, refilling, refillCreating, refillStarting, draining, stuck>>

(* (mutated form of RemoveFails: destroy() is called again until it succeeds) *)
RemoveFailsRetried(c) ==
  /\ "remove" \in Faults
  /\ pc[c] = "destroying"
  /\ pc' = [pc EXCEPT ![c] = "holding"]
  /\ UNCHANGED <<phase, docker, poolVars, box, draining, stuck>>

(* (mutated form of RemoveFails: the counter goes down before remove()) *)
RemoveFailsUncounted(c) ==
  /\ "remove" \in Faults
  /\ pc[c] = "destroying"
  /\ stuck' = stuck \cup {box[c]}
  /\ liveCount' = liveCount - 1
  /\ pc' = [pc EXCEPT ![c] = "failed"]
  /\ box' = [box EXCEPT ![c] = NoBox]
  /\ UNCHANGED <<phase, docker, idle, refilling, refillCreating, refillStarting, draining>>

(* remove() fails: destroy() throws before it decrements, so does runCommand. *)
RemoveFails(c) ==
  /\ "remove" \in Faults
  /\ pc[c] = "destroying"
  /\ stuck' = stuck \cup {box[c]}
  /\ pc' = [pc EXCEPT ![c] = "failed"]
  /\ box' = [box EXCEPT ![c] = NoBox]
  /\ UNCHANGED <<phase, docker, poolVars, draining>>

-----------------------------------------------------------------------------
(* main() and shutdown() *)

(* pool.start(): the server listens once the pool is warm.  systemd starts  *)
(* a failed process again; a stopped one starts when somebody deploys.      *)
Start ==
  /\ \/ phase = "down"
     \/ phase = "stopped" /\ "restart" \in Faults
  /\ phase' = IF WantsMore(idle, liveCount) THEN "boot" ELSE "up"
  /\ CallRefill(idle, liveCount)
  /\ UNCHANGED <<docker, idle, liveCount, refillStarting, cmdVars, draining, stuck>>

(* SIGTERM or SIGINT: drain() takes the idle containers of this instant.    *)
Shutdown ==
  /\ phase = "up"
  /\ phase' = "draining"
  /\ draining' = Range(idle)
  /\ idle' = <<>>
  /\ UNCHANGED <<docker, liveCount, refilling, refillCreating, refillStarting, cmdVars, stuck>>

DrainRemoved(k) ==
  /\ k \in draining
  /\ docker' = [docker EXCEPT ![k] = "absent"]
  /\ liveCount' = liveCount - 1
  /\ draining' = draining \ {k}
  /\ UNCHANGED <<phase, idle, refilling, refillCreating, refillStarting, cmdVars, stuck>>

(* Promise.all rejects, nobody handles it: Node ends the process. *)
DrainRemoveFails(k) ==
  /\ "remove" \in Faults
  /\ k \in draining
  /\ ProcessEnds("down")

(* (mutated form of Exit: shutdown waits until nothing is alive) *)
ExitWaitsForAll ==
  /\ phase = "draining"
  /\ draining = {}
  /\ liveCount = 0
  /\ ProcessEnds("stopped")

(* drain() returned: process.exit(0), whatever else is going on. *)
Exit ==
  /\ phase = "draining"
  /\ draining = {}
  /\ ProcessEnds("stopped")

Crash ==
  /\ "crash" \in Faults
  /\ phase \in {"boot", "up", "draining"}
  /\ ProcessEnds("down")

-----------------------------------------------------------------------------
Refill ==
  \/ \E k \in Containers :
       RefillCreated(k) \/ RefillStarted(k) \/ RefillStartFails(k)
  \/ RefillCreateFails

Acquire(c) == AcquireRefused(c) \/ AcquireIdle(c) \/ AcquireNew(c)

CreateOne(c) ==
  \/ \E k \in Containers : Created(c, k)
  \/ CreateFails(c)
  \/ Started(c)
  \/ StartFails(c)

Destroy(c) == BeginDestroy(c) \/ Removed(c) \/ RemoveFails(c)

Drain == \E k \in Containers : DrainRemoved(k) \/ DrainRemoveFails(k)

Next ==
  \/ \E c \in Commands : Acquire(c) \/ CreateOne(c) \/ Exec(c) \/ Destroy(c)
  \/ Refill
  \/ Start \/ Shutdown \/ Drain \/ Exit \/ Crash

Spec == Init /\ [][Next]_vars

(* The daemon answers every call, a command ends (its timeout sees to it)   *)
(* and a drained process exits.  Nobody has to issue a command, start the   *)
(* process or stop it.                                                      *)
Fairness ==
  /\ \A c \in Commands : WF_vars(CreateOne(c)) /\ WF_vars(Destroy(c))
  /\ WF_vars(Refill)
  /\ WF_vars(Drain)
  /\ WF_vars(Exit)

FairSpec == Spec /\ Fairness
-----------------------------------------------------------------------------
(* What must hold.  These are about acquire, destroy, _refillTo and drain   *)
(* interleaving at their awaits.                                            *)

(* No container has two owners: it is never twice in idle, never given to   *)
(* two commands, and never both in idle and with a command, a refill loop,  *)
(* drain() or among the stuck ones.                                         *)
OneOwner ==
  /\ \A i, j \in 1..Len(idle) : idle[i] = idle[j] => i = j
  /\ \A c, d \in Commands : box[c] = box[d] /\ box[c] # NoBox => c = d
  /\ \A c \in Commands : box[c] \notin Range(idle) \cup refillStarting \cup draining \cup stuck
  /\ Range(idle) \cap (refillStarting \cup draining \cup stuck) = {}
  /\ refillStarting \cap (draining \cup stuck) = {}
  /\ draining \cap stuck = {}

(* liveCount counts exactly the containers this process started and has not *)
(* removed, through every failure of create, start and remove.              *)
CountMatchesOwners == liveCount = Cardinality(Counted)

(* Every container with an owner exists, and what is spare has never run a  *)
(* command: a container is for one command, whatever happened to the last.  *)
OnlyFreshHandedOut ==
  /\ \A k \in Range(idle) : docker[k] = "running"
  /\ \A k \in BeingMade : docker[k] = "created"
  /\ \A k \in Held : docker[k] \in {"running", "used"}
  /\ \A k \in draining : docker[k] = "running"

(* The refilling flag is set exactly while one loop runs, also after a      *)
(* failed create or start: never two loops, never a flag left behind that   *)
(* would end all refilling.                                                 *)
RefillFlagMatchesLoop == RefillLoops = IF refilling THEN 1 ELSE 0

(* Refilling does not overfill: the spare containers and the one being made *)
(* for the pool never exceed minSize.                                       *)
IdleWithinTarget == Len(idle) + RefillLoops <= MinSize

(* acquire() and _refillTo() read liveCount before createContainer() and    *)
(* raise it after start(), so the ceiling can be passed; but never by more  *)
(* than the number of commands that may be in flight, refill included.      *)
OverrunBound ==
  liveCount + Cardinality(Pending) + RefillLoops <= MaxConcurrent + Cardinality(Commands)

(* A command that took a container, or asked for one to be made, settles.   *)
CommandsSettle == \A c \in Commands : pc[c] \notin Settled ~> pc[c] \in Settled

(* A process told to stop stops, whatever is still running.                 *)
ShutdownEnds == phase = "draining" ~> phase \in {"stopped", "down"}

-----------------------------------------------------------------------------
(* The pool implements the lifecycle of one-shot containers. *)

Owner(k) ==
  IF \E c \in Commands : box[c] = k THEN CHOOSE c \in Commands : box[c] = k ELSE NoBox

(* Held by a command whose destroy() has begun. *)
BeingDestroyed == {box[c] : c \in {d \in Commands : pc[d] = "destroying"}}

LifecycleState(k) ==
  CASE docker[k] = "absent"             -> "absent"
    [] k \in Range(idle)                -> "spare"
    [] k \in BeingMade                  -> "making"
    [] k \in draining \cup BeingDestroyed -> "doomed"
    [] k \in Held \ BeingDestroyed      -> IF docker[k] = "used" THEN "used" ELSE "leased"
    [] OTHER                            -> "orphan"

Lifecycle == INSTANCE SandboxLifecycle
  WITH Nobody <- NoBox,
       state  <- [k \in Containers |-> LifecycleState(k)],
       user   <- [k \in Containers |-> Owner(k)]

(* Every step of the pool is a step of that lifecycle: a container is leased *)
(* once, to the command it was made for or to one that found it spare, runs  *)
(* at most one command, and then is removed or left behind for good.         *)
LifecycleSpec == Lifecycle!Spec
=============================================================================
