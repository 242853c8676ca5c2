--------------------------- MODULE SandboxPoolProofs ---------------------------
(***************************************************************************)
(* Proofs about SandboxPool for every pool size, every ceiling, every      *)
(* number of concurrent commands and every combination of faults.          *)
(***************************************************************************)
EXTENDS SandboxPool, SequenceTheorems, FiniteSetTheorems, TLAPS

-----------------------------------------------------------------------------
(* The stack: what pop and push do to the set of spare containers. *)

LEMMA PopLemma ==
  ASSUME NEW s \in Seq(Containers), s # <<>>,
         \A i, j \in 1..Len(s) : s[i] = s[j] => i = j
  PROVE  /\ Front(s) \in Seq(Containers)
         /\ Len(Front(s)) = Len(s) - 1
         /\ \A i \in 1..Len(Front(s)) : Front(s)[i] = s[i]
         /\ Last(s) \in Range(s)
         /\ Last(s) \in Containers
         /\ Range(Front(s)) = Range(s) \ {Last(s)}
<1>1. Len(s) \in Nat \ {0} /\ DOMAIN s = 1..Len(s)
  BY LenProperties, EmptySeq
<1>2. \A i \in 1..Len(s) - 1 : s[i] \in Containers
  BY <1>1, ElementOfSeq
<1>3. /\ Front(s) \in Seq(Containers)
      /\ Len(Front(s)) = Len(s) - 1
      /\ \A i \in 1..Len(Front(s)) : Front(s)[i] = s[i]
  BY <1>1, <1>2, SubSeqProperties DEF Front
<1>4. Last(s) \in Range(s) /\ Last(s) \in Containers
  BY <1>1, ElementOfSeq DEF Last, Range
<1>5. DOMAIN Front(s) = 1..Len(s) - 1
  BY <1>3, LenProperties
<1>6. Range(Front(s)) = Range(s) \ {Last(s)}
  BY <1>1, <1>3, <1>5 DEF Range, Last
<1> QED  BY <1>3, <1>4, <1>6

LEMMA PushLemma ==
  ASSUME NEW s \in Seq(Containers), NEW k \in Containers
  PROVE  /\ Append(s, k) \in Seq(Containers)
         /\ Len(Append(s, k)) = Len(s) + 1
         /\ \A i \in 1..Len(s) : Append(s, k)[i] = s[i]
         /\ Append(s, k)[Len(s) + 1] = k
         /\ Range(Append(s, k)) = Range(s) \cup {k}
<1>1. Len(s) \in Nat /\ DOMAIN s = 1..Len(s)
  BY LenProperties
<1>2. /\ Append(s, k) \in Seq(Containers)
      /\ Len(Append(s, k)) = Len(s) + 1
      /\ \A i \in 1..Len(s) : Append(s, k)[i] = s[i]
      /\ Append(s, k)[Len(s) + 1] = k
  BY AppendProperties
<1>3. DOMAIN Append(s, k) = 1..Len(s) + 1
  BY <1>2, LenProperties
<1>4. Range(Append(s, k)) = Range(s) \cup {k}
  BY <1>1, <1>2, <1>3 DEF Range
<1> QED  BY <1>2, <1>4

LEMMA EmptyStack == Range(<<>>) = {} /\ <<>> \in Seq(Containers) /\ Len(<<>>) = 0
  BY EmptySeq DEF Range

LEMMA RangeInContainers == ASSUME NEW s \in Seq(Containers) PROVE Range(s) \subseteq Containers
  BY RangeOfSeq

-----------------------------------------------------------------------------
(* The inductive invariant.  The properties the runs check are not           *)
(* inductive by themselves: liveCount stays a natural number only because it *)
(* is the number of counted containers, it moves in step with them only      *)
(* because no container has two owners, and a fresh container is owned by    *)
(* nobody only because every owned one exists.                               *)

(* A command knows a container from createContainer() or pop to remove(). *)
BoxMatchesPc ==
  \A c \in Commands : box[c] = NoBox <=> pc[c] \in Settled \cup {"creating"}

StuckExist == \A k \in stuck : docker[k] \in {"running", "used"}

IInv ==
  /\ TypeOK
  /\ BoxMatchesPc
  /\ OneOwner
  /\ OnlyFreshHandedOut
  /\ StuckExist
  /\ CountMatchesOwners
  /\ RefillFlagMatchesLoop
  /\ OverrunBound

LEMMA CountedFinite ==
  ASSUME TypeOK, BoxMatchesPc
  PROVE  /\ Counted \subseteq Containers
         /\ IsFiniteSet(Counted)
         /\ Cardinality(Counted) \in Nat
<1>1. Range(idle) \subseteq Containers
  BY RangeInContainers DEF TypeOK
<1>2. \A c \in Commands : pc[c] \in Holding => box[c] \in Containers
  BY DEF TypeOK, BoxMatchesPc, Holding, Settled
<1>3. Counted \subseteq Containers
  BY <1>1, <1>2 DEF TypeOK, Counted, Held
<1> QED  BY <1>3, PoolAssumption, FS_Subset, FS_CardinalityType

LEMMA PendingFinite ==
  /\ IsFiniteSet(Pending)
  /\ Cardinality(Pending) \in Nat
  /\ Cardinality(Commands) \in Nat
  /\ Cardinality(Pending) <= Cardinality(Commands)
<1>1. Pending \in SUBSET Commands
  BY DEF Pending
<1> QED  BY <1>1, PoolAssumption, FS_Subset, FS_CardinalityType

LEMMA StartingFinite ==
  ASSUME TypeOK
  PROVE  IsFiniteSet(refillStarting) /\ Cardinality(refillStarting) \in Nat
<1>1. refillStarting \in SUBSET Containers
  BY DEF TypeOK
<1> QED  BY <1>1, PoolAssumption, FS_Subset, FS_CardinalityType

(* What the background refill of acquire() may do in the turn that calls it. *)
LEMMA TopUpLemma ==
  ASSUME TypeOK, NEW spare \in Seq(Containers), NEW live \in Nat, TopUp(spare, live)
  PROVE  /\ refilling' \in BOOLEAN
         /\ refillCreating' \in Nat
         /\ \/ UNCHANGED <<refilling, refillCreating>>
            \/ /\ ~refilling /\ refilling'
               /\ refillCreating' = refillCreating + 1
               /\ live < MaxConcurrent
<1>1. CASE Len(spare) < LowWatermark /\ ~refilling /\ WantsMore(spare, live)
  <2>1. refilling' = TRUE /\ refillCreating' = refillCreating + 1
    BY <1>1 DEF TopUp, CallRefill
  <2>2. live < MaxConcurrent
    BY <1>1 DEF WantsMore
  <2>3. refillCreating' \in Nat
    BY <2>1 DEF TypeOK
  <2> QED  BY <1>1, <2>1, <2>2, <2>3, Zenon
<1>2. CASE ~(Len(spare) < LowWatermark /\ ~refilling /\ WantsMore(spare, live))
  <2>1. UNCHANGED <<refilling, refillCreating>>
    BY <1>2 DEF TopUp, CallRefill
  <2> QED  BY <2>1 DEF TypeOK
<1> QED  BY <1>1, <1>2

-----------------------------------------------------------------------------
(* A process that has not started owns no container, counts none, and        *)
(* satisfies the invariant.                                                  *)
THEOREM InitEstablishes == Init => IInv
<1> SUFFICES ASSUME Init PROVE IInv
  OBVIOUS
<1> USE PoolAssumption, EmptyStack
<1>1. TypeOK
  BY DEF Init, TypeOK, Settled
<1>2. BoxMatchesPc /\ StuckExist
  BY DEF Init, BoxMatchesPc, StuckExist, Settled
<1>3. OneOwner
  BY DEF Init, OneOwner
<1>4. Held = {} /\ BeingMade = {} /\ Pending = {}
  BY DEF Init, Held, BeingMade, Pending, Holding, Creating, Settled
<1>5. OnlyFreshHandedOut
  BY <1>4 DEF Init, OnlyFreshHandedOut
<1>6. CountMatchesOwners
  BY <1>4, FS_EmptySet DEF Init, CountMatchesOwners, Counted
<1>7. RefillFlagMatchesLoop
  BY FS_EmptySet DEF Init, RefillFlagMatchesLoop, RefillLoops
<1>8. OverrunBound
  BY <1>4, FS_EmptySet, PendingFinite DEF Init, OverrunBound, RefillLoops
<1> QED  BY <1>1, <1>2, <1>3, <1>5, <1>6, <1>7, <1>8 DEF IInv

(* The end of the process forgets everything: like Init, but for docker. *)
LEMMA ProcessEndsPreserves ==
  ASSUME IInv, NEW p \in {"down", "stopped"}, ProcessEnds(p)
  PROVE  IInv'
<1> USE PoolAssumption, EmptyStack DEF ProcessEnds
<1>1. TypeOK'
  BY DEF IInv, TypeOK, Settled
<1>2. BoxMatchesPc' /\ StuckExist'
  BY DEF BoxMatchesPc, StuckExist, Settled
<1>3. OneOwner'
  BY DEF OneOwner
<1>4. Held' = {} /\ BeingMade' = {} /\ Pending' = {}
  BY DEF Held, BeingMade, Pending, Holding, Creating, Settled
<1>5. OnlyFreshHandedOut'
  BY <1>4 DEF OnlyFreshHandedOut
<1>6. CountMatchesOwners'
  BY <1>4, FS_EmptySet DEF CountMatchesOwners, Counted
<1>7. RefillFlagMatchesLoop'
  BY FS_EmptySet DEF RefillFlagMatchesLoop, RefillLoops
<1>8. OverrunBound'
  BY <1>4, FS_EmptySet, PendingFinite DEF OverrunBound, RefillLoops
<1> QED  BY <1>1, <1>2, <1>3, <1>5, <1>6, <1>7, <1>8 DEF IInv

-----------------------------------------------------------------------------
(* acquire() *)

LEMMA AcquireRefusedPreserves ==
  ASSUME IInv, NEW c \in Commands, AcquireRefused(c)
  PROVE  IInv'
<1> USE DEF IInv, AcquireRefused, poolVars
<1>1. TypeOK'
  BY DEF TypeOK, Settled
<1>2. BoxMatchesPc' /\ StuckExist' /\ OneOwner' /\ RefillFlagMatchesLoop'
  BY DEF TypeOK, BoxMatchesPc, StuckExist, OneOwner, RefillFlagMatchesLoop, RefillLoops, Settled
<1>3. Held' = Held /\ BeingMade' = BeingMade /\ Pending' = Pending
  BY DEF TypeOK, Held, BeingMade, Pending, Holding, Creating, Settled
<1>4. OnlyFreshHandedOut' /\ CountMatchesOwners' /\ OverrunBound'
  BY <1>3 DEF OnlyFreshHandedOut, CountMatchesOwners, OverrunBound, Counted, RefillLoops
<1> QED  BY <1>1, <1>2, <1>4

LEMMA AcquireIdlePreserves ==
  ASSUME IInv, NEW c \in Commands, AcquireIdle(c)
  PROVE  IInv'
<1> USE DEF IInv, AcquireIdle
<1>1. /\ idle' \in Seq(Containers)
      /\ Len(idle') = Len(idle) - 1
      /\ \A i \in 1..Len(idle') : idle'[i] = idle[i]
      /\ Last(idle) \in Range(idle)
      /\ Last(idle) \in Containers
      /\ Range(idle') = Range(idle) \ {Last(idle)}
  BY PopLemma DEF TypeOK, OneOwner
<1>2. /\ refilling' \in BOOLEAN
      /\ refillCreating' \in Nat
      /\ \/ UNCHANGED <<refilling, refillCreating>>
         \/ /\ ~refilling /\ refilling'
            /\ refillCreating' = refillCreating + 1
            /\ liveCount < MaxConcurrent
  BY <1>1, TopUpLemma DEF TypeOK
<1>3. TypeOK'
  BY <1>1, <1>2 DEF TypeOK, Holding
<1>4. BoxMatchesPc' /\ StuckExist'
  BY <1>1, PoolAssumption DEF TypeOK, BoxMatchesPc, StuckExist, Settled
<1>5. OneOwner'
  <2>1. \A d \in Commands \ {c} : box'[d] = box[d]
    BY DEF TypeOK
  <2>2. box'[c] = Last(idle)
    BY DEF TypeOK
  <2>3. Len(idle) \in Nat
    BY LenProperties DEF TypeOK
  <2>4. \A i, j \in 1..Len(idle') : idle'[i] = idle'[j] => i = j
    BY <1>1, <2>3 DEF OneOwner
  <2>5. \A d, e \in Commands : box'[d] = box'[e] /\ box'[d] # NoBox => d = e
    BY <1>1, <2>1, <2>2 DEF OneOwner
  <2>6. \A d \in Commands : box'[d] \notin Range(idle') \cup refillStarting' \cup draining' \cup stuck'
    BY <1>1, <2>1, <2>2 DEF OneOwner
  <2> QED  BY <1>1, <2>4, <2>5, <2>6 DEF OneOwner
<1>6. /\ Held' = Held \cup {Last(idle)}
      /\ BeingMade' = BeingMade /\ Pending' = Pending
  BY <1>1 DEF TypeOK, Held, BeingMade, Pending, Holding, Creating, Settled
<1>7. OnlyFreshHandedOut'
  BY <1>1, <1>6 DEF OnlyFreshHandedOut
<1>8. CountMatchesOwners'
  <2>1. Counted' = Counted
    BY <1>1, <1>6 DEF Counted
  <2> QED  BY <2>1 DEF CountMatchesOwners
<1>9. RefillFlagMatchesLoop'
  BY <1>2, StartingFinite DEF TypeOK, RefillFlagMatchesLoop, RefillLoops
<1>10. OverrunBound'
  BY <1>2, <1>6, PendingFinite, StartingFinite, PoolAssumption
     DEF TypeOK, OverrunBound, RefillFlagMatchesLoop, RefillLoops
<1> QED  BY <1>3, <1>4, <1>5, <1>7, <1>8, <1>9, <1>10

LEMMA AcquireNewPreserves ==
  ASSUME IInv, NEW c \in Commands, AcquireNew(c)
  PROVE  IInv'
<1> USE DEF IInv, AcquireNew, poolVars
<1>1. TypeOK'
  BY DEF TypeOK, Creating
<1>2. BoxMatchesPc' /\ StuckExist' /\ OneOwner' /\ RefillFlagMatchesLoop'
  BY DEF TypeOK, BoxMatchesPc, StuckExist, OneOwner, RefillFlagMatchesLoop, RefillLoops, Settled
<1>3. Held' = Held /\ BeingMade' = BeingMade
  BY DEF TypeOK, Held, BeingMade, Holding, Settled
<1>4. OnlyFreshHandedOut' /\ CountMatchesOwners'
  BY <1>3 DEF OnlyFreshHandedOut, CountMatchesOwners, Counted
<1>5. OverrunBound'
  <2>1. IsFiniteSet(Pending') /\ Cardinality(Pending') <= Cardinality(Commands)
        /\ Cardinality(Pending') \in Nat /\ Cardinality(Commands) \in Nat
    <3>1. Pending' \in SUBSET Commands
      BY DEF Pending
    <3> QED  BY <3>1, PoolAssumption, FS_Subset, FS_CardinalityType
  <2>2. RefillLoops' = RefillLoops /\ RefillLoops <= 1 /\ RefillLoops \in Nat
    BY DEF RefillFlagMatchesLoop, RefillLoops
  <2> QED  BY <2>1, <2>2, PoolAssumption DEF TypeOK, OverrunBound
<1> QED  BY <1>1, <1>2, <1>4, <1>5

-----------------------------------------------------------------------------
(* _createOne() on behalf of a command *)

LEMMA CreatedPreserves ==
  ASSUME IInv, NEW c \in Commands, NEW k \in Containers, Created(c, k)
  PROVE  IInv'
<1> USE DEF IInv, Created, poolVars
<1>1. TypeOK'
  BY DEF TypeOK, Creating
<1>2. BoxMatchesPc'
  BY PoolAssumption DEF TypeOK, BoxMatchesPc, Settled
<1>3. k \notin Range(idle) /\ k \notin BeingMade /\ k \notin Held /\ k \notin draining
      /\ k \notin stuck /\ docker[k] = "absent"
  BY DEF OnlyFreshHandedOut, StuckExist, Absent
<1>4. /\ box' = [box EXCEPT ![c] = k]
      /\ \A d \in Commands : box[d] # k
  BY <1>3, PoolAssumption DEF TypeOK, BoxMatchesPc, BeingMade, Held, Settled, Creating, Holding
<1>5. OneOwner'
  BY <1>3, <1>4 DEF TypeOK, OneOwner, BeingMade
<1>6. Held' = Held /\ BeingMade' = BeingMade \cup {k} /\ Pending' = Pending
  BY <1>4 DEF TypeOK, Held, BeingMade, Pending, Holding, Creating
<1>7. OnlyFreshHandedOut' /\ StuckExist'
  <2>1. \A j \in Containers \ {k} : docker'[j] = docker[j]
    BY DEF TypeOK
  <2>2. docker'[k] = "created"
    BY DEF TypeOK
  <2>3. Held \subseteq Containers /\ Range(idle) \subseteq Containers
        /\ BeingMade \subseteq Containers
    BY RangeInContainers, PoolAssumption
       DEF TypeOK, Held, BeingMade, BoxMatchesPc, Settled, Holding
  <2> QED  BY <1>3, <1>6, <2>1, <2>2, <2>3 DEF OnlyFreshHandedOut, StuckExist, TypeOK
<1>8. CountMatchesOwners' /\ RefillFlagMatchesLoop' /\ OverrunBound'
  BY <1>6 DEF CountMatchesOwners, Counted, RefillFlagMatchesLoop, RefillLoops, OverrunBound
<1> QED  BY <1>1, <1>2, <1>5, <1>7, <1>8

(* A command that gives up before it was given a container. *)
LEMMA GivesUpPreserves ==
  ASSUME IInv, NEW c \in Commands, pc[c] \in Creating,
         pc' = [pc EXCEPT ![c] = "failed"], box' = [box EXCEPT ![c] = NoBox],
         UNCHANGED <<phase, docker, poolVars, draining, stuck>>
  PROVE  IInv'
<1> USE DEF IInv, poolVars
<1>1. TypeOK'
  BY DEF TypeOK, Settled
<1>2. BoxMatchesPc' /\ StuckExist' /\ OneOwner' /\ RefillFlagMatchesLoop'
  BY PoolAssumption, RangeInContainers
     DEF TypeOK, BoxMatchesPc, StuckExist, OneOwner, RefillFlagMatchesLoop, RefillLoops, Settled
<1>3. Held' = Held /\ BeingMade' \subseteq BeingMade /\ Pending' = Pending \ {c}
  BY DEF TypeOK, Held, BeingMade, Pending, Holding, Creating, Settled
<1>4. OnlyFreshHandedOut' /\ CountMatchesOwners'
  BY <1>3 DEF OnlyFreshHandedOut, CountMatchesOwners, Counted
<1>5. OverrunBound'
  <2>1. /\ Cardinality(Pending \ {c}) <= Cardinality(Pending)
        /\ Cardinality(Pending \ {c}) \in Nat
    <3>1. Pending \ {c} \in SUBSET Pending
      OBVIOUS
    <3> QED  BY <3>1, PendingFinite, FS_Subset, FS_CardinalityType
  <2> QED  BY <1>3, <2>1, PendingFinite, StartingFinite, PoolAssumption
           DEF TypeOK, OverrunBound, RefillLoops
<1> QED  BY <1>1, <1>2, <1>4, <1>5

LEMMA CreateFailsPreserves ==
  ASSUME IInv, NEW c \in Commands, CreateFails(c)
  PROVE  IInv'
<1>1. box' = [box EXCEPT ![c] = NoBox]
  BY DEF IInv, TypeOK, BoxMatchesPc, CreateFails
<1> QED  BY <1>1, GivesUpPreserves DEF CreateFails, Creating

LEMMA StartFailsPreserves ==
  ASSUME IInv, NEW c \in Commands, StartFails(c)
  PROVE  IInv'
  BY GivesUpPreserves DEF StartFails, Creating

LEMMA StartedPreserves ==
  ASSUME IInv, NEW c \in Commands, Started(c)
  PROVE  IInv'
<1> USE DEF IInv, Started
<1> DEFINE k == box[c]
<1>1. k \in Containers /\ k \in BeingMade /\ c \in Pending
  BY DEF TypeOK, BoxMatchesPc, BeingMade, Pending, Settled, Creating
<1>2. /\ refilling' \in BOOLEAN
      /\ refillCreating' \in Nat
      /\ \/ UNCHANGED <<refilling, refillCreating>>
         \/ /\ ~refilling /\ refilling'
            /\ refillCreating' = refillCreating + 1
            /\ liveCount + 1 < MaxConcurrent
  <2>1. liveCount + 1 \in Nat /\ idle \in Seq(Containers)
    BY DEF TypeOK
  <2>2. TopUp(idle, liveCount + 1)
    OBVIOUS
  <2> QED  BY <2>1, <2>2, TopUpLemma
<1>3. TypeOK'
  <2>1. /\ docker' \in [Containers -> {"absent", "created", "running", "used"}]
        /\ liveCount' \in Nat
    BY <1>1 DEF TypeOK
  <2>2. pc' \in [Commands -> Settled \cup Creating \cup Holding]
    BY DEF TypeOK, Holding
  <2> QED  BY <1>2, <2>1, <2>2 DEF TypeOK
<1>4. BoxMatchesPc' /\ OneOwner'
  BY DEF TypeOK, BoxMatchesPc, OneOwner, Settled
<1>5. /\ k \notin Range(idle) /\ k \notin Held /\ k \notin draining /\ k \notin stuck
      /\ k \notin refillStarting
  <2>1. \A d \in Commands \ {c} : box[d] # k
    BY <1>1, PoolAssumption DEF OneOwner
  <2>2. k \notin Held
    BY <2>1 DEF Held, Holding
  <2> QED  BY <2>2 DEF OneOwner
<1>6. /\ Held' = Held \cup {k} /\ Pending' = Pending \ {c}
      /\ BeingMade' = BeingMade \ {k}
  <2>1. \A d \in Commands \ {c} : pc'[d] = pc[d] /\ box[d] # k
    BY <1>1, PoolAssumption DEF TypeOK, OneOwner
  <2>2. pc'[c] = "holding"
    BY DEF TypeOK
  <2>3. Held' = Held \cup {k}
    BY <2>1, <2>2 DEF Held, Holding
  <2>4. Pending' = Pending \ {c}
    BY <2>1, <2>2 DEF Pending, Creating
  <2>5. BeingMade' = BeingMade \ {k}
    BY <1>5, <2>1, <2>2 DEF BeingMade
  <2> QED  BY <2>3, <2>4, <2>5
<1>7. OnlyFreshHandedOut' /\ StuckExist'
  <2>1. \A j \in Containers \ {k} : docker'[j] = docker[j]
    BY DEF TypeOK
  <2>2. docker'[k] = "running"
    BY <1>1 DEF TypeOK
  <2>3. Held \subseteq Containers /\ Range(idle) \subseteq Containers
        /\ BeingMade \subseteq Containers
    BY RangeInContainers, PoolAssumption, SMTT(30)
       DEF TypeOK, Held, BeingMade, BoxMatchesPc, Settled, Holding
  <2> QED  BY <1>5, <1>6, <2>1, <2>2, <2>3 DEF OnlyFreshHandedOut, StuckExist, TypeOK
<1>8. CountMatchesOwners'
  <2>1. Counted' = Counted \cup {k} /\ k \notin Counted
    BY <1>5, <1>6 DEF Counted
  <2> QED  BY <2>1, CountedFinite, FS_AddElement DEF CountMatchesOwners, TypeOK
<1>9. RefillFlagMatchesLoop'
  BY <1>2, StartingFinite DEF TypeOK, RefillFlagMatchesLoop, RefillLoops
<1>10. OverrunBound'
  <2>1. Cardinality(Pending') = Cardinality(Pending) - 1
    BY <1>1, <1>6, PendingFinite, FS_RemoveElement
  <2>2. Cardinality(Pending') <= Cardinality(Commands)
    BY <2>1, PendingFinite
  <2> QED  BY <1>2, <2>1, <2>2, PendingFinite, StartingFinite, PoolAssumption, SMTT(30)
           DEF TypeOK, OverrunBound, RefillFlagMatchesLoop, RefillLoops
<1> QED  BY <1>3, <1>4, <1>7, <1>8, <1>9, <1>10

-----------------------------------------------------------------------------
(* runCommand with its container, and destroy() *)

LEMMA ExecPreserves ==
  ASSUME IInv, NEW c \in Commands, Exec(c)
  PROVE  IInv'
<1> USE DEF IInv, Exec, poolVars, cmdVars
<1> DEFINE k == box[c]
<1>1. k \in Containers /\ k \in Held
  BY DEF TypeOK, BoxMatchesPc, Held, Settled, Holding
<1>2. TypeOK'
  BY DEF TypeOK
<1>3. BoxMatchesPc' /\ OneOwner' /\ RefillFlagMatchesLoop'
  BY DEF BoxMatchesPc, OneOwner, RefillFlagMatchesLoop, RefillLoops
<1>4. Held' = Held /\ BeingMade' = BeingMade /\ Pending' = Pending
  BY DEF Held, BeingMade, Pending
<1>5. /\ \A j \in Containers \ {k} : docker'[j] = docker[j]
      /\ docker'[k] = "used"
  BY <1>1 DEF TypeOK
<1>6. k \notin Range(idle) /\ k \notin BeingMade /\ k \notin draining
  <2>1. \A d \in Commands : box[d] = k => d = c
    BY <1>1, PoolAssumption DEF OneOwner
  <2> QED  BY <2>1 DEF OneOwner, BeingMade
<1>7. OnlyFreshHandedOut' /\ StuckExist'
  <2>1. Held \subseteq Containers /\ Range(idle) \subseteq Containers
        /\ BeingMade \subseteq Containers
    BY RangeInContainers, PoolAssumption
       DEF TypeOK, Held, BeingMade, BoxMatchesPc, Settled, Holding
  <2> QED  BY <1>4, <1>5, <1>6, <2>1 DEF OnlyFreshHandedOut, StuckExist, TypeOK
<1>8. CountMatchesOwners' /\ OverrunBound'
  BY <1>4 DEF CountMatchesOwners, Counted, OverrunBound, RefillLoops
<1> QED  BY <1>2, <1>3, <1>7, <1>8

LEMMA BeginDestroyPreserves ==
  ASSUME IInv, NEW c \in Commands, BeginDestroy(c)
  PROVE  IInv'
<1> USE DEF IInv, BeginDestroy, poolVars
<1>1. TypeOK'
  BY DEF TypeOK, Holding
<1>2. BoxMatchesPc' /\ StuckExist' /\ OneOwner' /\ RefillFlagMatchesLoop'
  BY DEF TypeOK, BoxMatchesPc, StuckExist, OneOwner, RefillFlagMatchesLoop, RefillLoops, Settled
<1>3. Held' = Held /\ BeingMade' = BeingMade /\ Pending' = Pending
  BY DEF TypeOK, Held, BeingMade, Pending, Holding, Creating
<1>4. OnlyFreshHandedOut' /\ CountMatchesOwners' /\ OverrunBound'
  BY <1>3 DEF OnlyFreshHandedOut, CountMatchesOwners, OverrunBound, Counted, RefillLoops
<1> QED  BY <1>1, <1>2, <1>4

(* A command in destroy() owns a container that is counted. *)
LEMMA DestroyedIsCounted ==
  ASSUME IInv, NEW c \in Commands, pc[c] = "destroying"
  PROVE  /\ box[c] \in Containers /\ box[c] \in Held /\ box[c] \in Counted
         /\ \A d \in Commands \ {c} : box[d] # box[c]
         /\ box[c] \notin Range(idle) \cup BeingMade \cup draining \cup stuck
         /\ liveCount - 1 \in Nat
<1> USE DEF IInv
<1>1. box[c] \in Containers
  BY DEF TypeOK, BoxMatchesPc, Settled
<1>2. box[c] \in Held /\ box[c] \in Counted
  BY DEF Held, Holding, Counted
<1>3. \A d \in Commands \ {c} : box[d] # box[c]
  BY <1>1, PoolAssumption DEF OneOwner
<1>4. box[c] \notin Range(idle) \cup BeingMade \cup draining \cup stuck
  BY <1>3 DEF OneOwner, BeingMade
<1>5. liveCount - 1 \in Nat
  <2>1. Cardinality(Counted) # 0
    BY <1>2, CountedFinite, FS_EmptySet
  <2> QED  BY <2>1 DEF CountMatchesOwners, TypeOK
<1> QED  BY <1>1, <1>2, <1>3, <1>4, <1>5

LEMMA RemovedPreserves ==
  ASSUME IInv, NEW c \in Commands, Removed(c)
  PROVE  IInv'
<1> USE DEF IInv, Removed
<1> DEFINE k == box[c]
<1>1. /\ k \in Containers /\ k \in Held /\ k \in Counted
      /\ \A d \in Commands \ {c} : box[d] # k
      /\ k \notin Range(idle) \cup BeingMade \cup draining \cup stuck
      /\ liveCount - 1 \in Nat
  BY DestroyedIsCounted
<1>2. TypeOK'
  <2>1. docker' \in [Containers -> {"absent", "created", "running", "used"}]
    BY DEF TypeOK
  <2>2. /\ pc' \in [Commands -> Settled \cup Creating \cup Holding]
        /\ box' \in [Commands -> Containers \cup {NoBox}]
    BY DEF TypeOK, Settled
  <2>3. liveCount' \in Nat
    BY <1>1
  <2> QED  BY <2>1, <2>2, <2>3 DEF TypeOK
<1>3. /\ \A d \in Commands \ {c} : pc'[d] = pc[d] /\ box'[d] = box[d]
      /\ pc'[c] = "ready" /\ box'[c] = NoBox
  BY DEF TypeOK
<1>4. BoxMatchesPc'
  BY <1>3 DEF BoxMatchesPc, Settled
<1>5. OneOwner'
  <2>1. Range(idle) \subseteq Containers /\ refillStarting \subseteq Containers
        /\ draining \subseteq Containers /\ stuck \subseteq Containers
    BY RangeInContainers DEF TypeOK
  <2> QED  BY <1>3, <2>1, PoolAssumption DEF OneOwner
<1>6. Held' = Held \ {k} /\ BeingMade' = BeingMade /\ Pending' = Pending
  BY <1>1, <1>3 DEF Held, BeingMade, Pending, Holding, Creating
<1>7. /\ \A j \in Containers \ {k} : docker'[j] = docker[j]
  BY DEF TypeOK
<1>8. OnlyFreshHandedOut' /\ StuckExist'
  <2>1. Held \subseteq Containers /\ Range(idle) \subseteq Containers
        /\ BeingMade \subseteq Containers
    BY RangeInContainers, PoolAssumption
       DEF TypeOK, Held, BeingMade, BoxMatchesPc, Settled, Holding
  <2> QED  BY <1>1, <1>6, <1>7, <2>1 DEF OnlyFreshHandedOut, StuckExist, TypeOK
<1>9. CountMatchesOwners'
  <2>1. Counted' = Counted \ {k}
    BY <1>1, <1>6 DEF Counted
  <2>2. Cardinality(Counted \ {k}) = Cardinality(Counted) - 1
    BY <1>1, CountedFinite, FS_RemoveElement
  <2> QED  BY <2>1, <2>2 DEF CountMatchesOwners
<1>10. RefillFlagMatchesLoop'
  BY DEF RefillFlagMatchesLoop, RefillLoops
<1>11. OverrunBound'
  BY <1>6, PendingFinite, StartingFinite, PoolAssumption DEF TypeOK, OverrunBound, RefillLoops
<1> QED  BY <1>2, <1>4, <1>5, <1>8, <1>9, <1>10, <1>11

LEMMA RemoveFailsPreserves ==
  ASSUME IInv, NEW c \in Commands, RemoveFails(c)
  PROVE  IInv'
<1> USE DEF IInv, RemoveFails, poolVars
<1> DEFINE k == box[c]
<1>1. /\ k \in Containers /\ k \in Held /\ k \in Counted
      /\ \A d \in Commands \ {c} : box[d] # k
      /\ k \notin Range(idle) \cup BeingMade \cup draining \cup stuck
  BY DestroyedIsCounted
<1>2. TypeOK'
  BY <1>1 DEF TypeOK, Settled
<1>3. /\ \A d \in Commands \ {c} : pc'[d] = pc[d] /\ box'[d] = box[d]
      /\ pc'[c] = "failed" /\ box'[c] = NoBox
  BY DEF TypeOK
<1>4. BoxMatchesPc'
  BY <1>3 DEF BoxMatchesPc, Settled
<1>5. OneOwner'
  <2>1. Range(idle) \subseteq Containers /\ refillStarting \subseteq Containers
        /\ draining \subseteq Containers /\ stuck' \subseteq Containers
    BY <1>2, RangeInContainers DEF TypeOK
  <2>2. k \notin refillStarting
    BY <1>1 DEF BeingMade
  <2> QED  BY <1>1, <1>3, <2>1, <2>2, PoolAssumption DEF OneOwner
<1>6. Held' = Held \ {k} /\ BeingMade' = BeingMade /\ Pending' = Pending
  BY <1>1, <1>3 DEF Held, BeingMade, Pending, Holding, Creating
<1>7. OnlyFreshHandedOut' /\ StuckExist'
  BY <1>1, <1>6 DEF OnlyFreshHandedOut, StuckExist
<1>8. CountMatchesOwners'
  <2>1. Counted' = Counted
    BY <1>1, <1>6 DEF Counted
  <2> QED  BY <2>1 DEF CountMatchesOwners
<1>9. RefillFlagMatchesLoop' /\ OverrunBound'
  BY <1>6 DEF RefillFlagMatchesLoop, RefillLoops, OverrunBound
<1> QED  BY <1>2, <1>4, <1>5, <1>7, <1>8, <1>9

-----------------------------------------------------------------------------
(* _refillTo() *)

LEMMA RefillCreatedPreserves ==
  ASSUME IInv, NEW k \in Containers, RefillCreated(k)
  PROVE  IInv'
<1> USE DEF IInv, RefillCreated, cmdVars
<1>1. TypeOK'
  <2>1. docker' \in [Containers -> {"absent", "created", "running", "used"}]
    BY DEF TypeOK
  <2>2. refillCreating' \in Nat /\ refillStarting' \subseteq Containers
    BY DEF TypeOK
  <2> QED  BY <2>1, <2>2 DEF TypeOK
<1>2. BoxMatchesPc'
  BY DEF BoxMatchesPc
<1>3. k \notin Range(idle) /\ k \notin BeingMade /\ k \notin Held /\ k \notin draining
      /\ k \notin stuck
  BY DEF OnlyFreshHandedOut, StuckExist, Absent
<1>4. \A d \in Commands : box[d] # k
  BY <1>3, PoolAssumption DEF TypeOK, BoxMatchesPc, BeingMade, Held, Settled, Creating, Holding
<1>5. OneOwner'
  BY <1>3, <1>4 DEF OneOwner
<1>6. Held' = Held /\ BeingMade' = BeingMade \cup {k} /\ Pending' = Pending
  BY DEF Held, BeingMade, Pending
<1>7. OnlyFreshHandedOut' /\ StuckExist'
  <2>1. \A j \in Containers \ {k} : docker'[j] = docker[j]
    BY DEF TypeOK
  <2>2. docker'[k] = "created"
    BY DEF TypeOK
  <2>3. Held \subseteq Containers /\ Range(idle) \subseteq Containers
        /\ BeingMade \subseteq Containers
    BY RangeInContainers, PoolAssumption
       DEF TypeOK, Held, BeingMade, BoxMatchesPc, Settled, Holding
  <2> QED  BY <1>3, <1>6, <2>1, <2>2, <2>3 DEF OnlyFreshHandedOut, StuckExist, TypeOK
<1>8. CountMatchesOwners'
  BY <1>6 DEF CountMatchesOwners, Counted
<1>9. RefillLoops' = RefillLoops
  <2>1. k \notin refillStarting
    BY <1>3 DEF BeingMade
  <2>2. Cardinality(refillStarting \cup {k}) = Cardinality(refillStarting) + 1
    BY <2>1, StartingFinite, FS_AddElement
  <2> QED  BY <2>2, StartingFinite DEF TypeOK, RefillLoops
<1>10. RefillFlagMatchesLoop' /\ OverrunBound'
  BY <1>6, <1>9 DEF RefillFlagMatchesLoop, OverrunBound
<1> QED  BY <1>1, <1>2, <1>5, <1>7, <1>8, <1>10

LEMMA RefillCreateFailsPreserves ==
  ASSUME IInv, RefillCreateFails
  PROVE  IInv'
<1>1. CASE phase = "boot"
  <2>1. ProcessEnds("down")
    BY <1>1 DEF RefillCreateFails, RefillFails
  <2> QED  BY <2>1, ProcessEndsPreserves
<1>2. CASE phase # "boot"
  <2> USE <1>2 DEF IInv, RefillCreateFails, RefillFails, cmdVars
  <2>1. TypeOK'
    <3>1. refillCreating' \in Nat /\ refillStarting' = refillStarting
      BY DEF TypeOK
    <3>2. refilling' \in BOOLEAN
      OBVIOUS
    <3> QED  BY <3>1, <3>2 DEF TypeOK
  <2>2. BoxMatchesPc' /\ StuckExist' /\ OneOwner'
    BY DEF BoxMatchesPc, StuckExist, OneOwner
  <2>3. Held' = Held /\ BeingMade' = BeingMade /\ Pending' = Pending
    BY DEF Held, BeingMade, Pending
  <2>4. OnlyFreshHandedOut' /\ CountMatchesOwners'
    BY <2>3 DEF OnlyFreshHandedOut, CountMatchesOwners, Counted
  <2>5. RefillLoops' = RefillLoops - 1 /\ RefillLoops \in Nat /\ RefillLoops > 0
    BY StartingFinite DEF TypeOK, RefillLoops
  <2>6. RefillFlagMatchesLoop'
    BY <2>5 DEF RefillFlagMatchesLoop
  <2>7. OverrunBound'
    BY <2>3, <2>5, PendingFinite, PoolAssumption DEF TypeOK, OverrunBound
  <2> QED  BY <2>1, <2>2, <2>4, <2>6, <2>7
<1> QED  BY <1>1, <1>2

LEMMA RefillStartFailsPreserves ==
  ASSUME IInv, NEW k \in Containers, RefillStartFails(k)
  PROVE  IInv'
<1>1. CASE phase = "boot"
  <2>1. ProcessEnds("down")
    BY <1>1 DEF RefillStartFails, RefillFails
  <2> QED  BY <2>1, ProcessEndsPreserves
<1>2. CASE phase # "boot"
  <2> USE <1>2 DEF IInv, RefillStartFails, RefillFails, cmdVars
  <2>1. TypeOK'
    BY DEF TypeOK
  <2>2. BoxMatchesPc' /\ StuckExist' /\ OneOwner'
    BY DEF BoxMatchesPc, StuckExist, OneOwner
  <2>3. Held' = Held /\ BeingMade' \subseteq BeingMade /\ Pending' = Pending
    BY DEF Held, BeingMade, Pending
  <2>4. OnlyFreshHandedOut' /\ CountMatchesOwners'
    BY <2>3 DEF OnlyFreshHandedOut, CountMatchesOwners, Counted
  <2>5. RefillLoops' = RefillLoops - 1 /\ RefillLoops \in Nat /\ RefillLoops > 0
    <3>1. Cardinality(refillStarting \ {k}) = Cardinality(refillStarting) - 1
      BY StartingFinite, FS_RemoveElement
    <3>2. Cardinality(refillStarting) # 0
      BY StartingFinite, FS_EmptySet
    <3> QED  BY <3>1, <3>2, StartingFinite DEF TypeOK, RefillLoops
  <2>6. RefillFlagMatchesLoop'
    BY <2>5 DEF RefillFlagMatchesLoop
  <2>7. OverrunBound'
    BY <2>3, <2>5, PendingFinite, PoolAssumption DEF TypeOK, OverrunBound
  <2> QED  BY <2>1, <2>2, <2>4, <2>6, <2>7
<1> QED  BY <1>1, <1>2

LEMMA RefillStartedPreserves ==
  ASSUME IInv, NEW k \in Containers, RefillStarted(k)
  PROVE  IInv'
<1> USE DEF IInv, RefillStarted, cmdVars
<1>1. /\ idle' \in Seq(Containers)
      /\ Len(idle') = Len(idle) + 1
      /\ \A i \in 1..Len(idle) : idle'[i] = idle[i]
      /\ idle'[Len(idle) + 1] = k
      /\ Range(idle') = Range(idle) \cup {k}
  BY PushLemma DEF TypeOK
<1>2. /\ k \in BeingMade /\ k \notin Range(idle)
      /\ k \notin draining /\ k \notin stuck
      /\ \A d \in Commands : box[d] # k
  BY DEF OneOwner, BeingMade
<1>3. \/ /\ refillCreating' = refillCreating + 1 /\ refilling' = refilling
         /\ liveCount + 1 < MaxConcurrent
      \/ refilling' = FALSE /\ refillCreating' = refillCreating
  BY DEF ContinueRefill, WantsMore
<1>4. TypeOK'
  <2>1. docker' \in [Containers -> {"absent", "created", "running", "used"}]
    BY DEF TypeOK
  <2>2. refillCreating' \in Nat /\ refillStarting' \subseteq Containers /\ liveCount' \in Nat
    BY <1>3 DEF TypeOK
  <2>3. phase' \in {"down", "boot", "up", "draining", "stopped"}
    BY DEF TypeOK
  <2>4. refilling' \in BOOLEAN
    BY <1>3, Zenon DEF TypeOK
  <2> QED  BY <1>1, <2>1, <2>2, <2>3, <2>4 DEF TypeOK
<1>5. BoxMatchesPc'
  BY DEF BoxMatchesPc
<1>6. OneOwner'
  <2>1. Len(idle) \in Nat /\ DOMAIN idle = 1..Len(idle)
    BY LenProperties DEF TypeOK
  <2>2. \A i \in 1..Len(idle) : idle[i] # k
    BY <1>2, <2>1 DEF Range
  <2>3. \A i, j \in 1..Len(idle') : idle'[i] = idle'[j] => i = j
    BY <1>1, <2>1, <2>2 DEF OneOwner
  <2> QED  BY <1>1, <1>2, <2>3 DEF OneOwner
<1>7. Held' = Held /\ BeingMade' = BeingMade \ {k} /\ Pending' = Pending
  BY <1>2 DEF Held, BeingMade, Pending
<1>8. k \notin Held
  BY <1>2 DEF Held
<1>9. OnlyFreshHandedOut' /\ StuckExist'
  <2>1. \A j \in Containers \ {k} : docker'[j] = docker[j]
    BY DEF TypeOK
  <2>2. docker'[k] = "running"
    BY DEF TypeOK
  <2>3. Held \subseteq Containers /\ Range(idle) \subseteq Containers
        /\ BeingMade \subseteq Containers
    BY RangeInContainers, PoolAssumption
       DEF TypeOK, Held, BeingMade, BoxMatchesPc, Settled, Holding
  <2> QED  BY <1>1, <1>2, <1>7, <1>8, <2>1, <2>2, <2>3
           DEF OnlyFreshHandedOut, StuckExist, TypeOK
<1>10. CountMatchesOwners'
  <2>1. Counted' = Counted \cup {k} /\ k \notin Counted
    BY <1>1, <1>2, <1>7, <1>8 DEF Counted
  <2>2. Cardinality(Counted \cup {k}) = Cardinality(Counted) + 1
    BY <2>1, CountedFinite, FS_AddElement
  <2> QED  BY <2>1, <2>2 DEF CountMatchesOwners
<1>11. /\ Cardinality(refillStarting') = Cardinality(refillStarting) - 1
       /\ Cardinality(refillStarting) # 0
  BY StartingFinite, FS_RemoveElement, FS_EmptySet
<1>12. refillCreating = 0 /\ Cardinality(refillStarting) = 1 /\ refilling
  <2>1. refillCreating \in Nat /\ Cardinality(refillStarting) \in Nat
    BY StartingFinite DEF TypeOK
  <2>2. refillCreating + Cardinality(refillStarting) = IF refilling THEN 1 ELSE 0
    BY DEF RefillFlagMatchesLoop, RefillLoops
  <2>3. CASE refilling
    BY <1>11, <2>1, <2>2, <2>3
  <2>4. CASE ~refilling
    BY <1>11, <2>1, <2>2, <2>4
  <2> QED  BY <2>3, <2>4
<1>13. RefillFlagMatchesLoop' /\ OverrunBound'
  <2> USE DEF RefillFlagMatchesLoop, OverrunBound, RefillLoops
  <2>1. CASE /\ refillCreating' = refillCreating + 1 /\ refilling' = refilling
             /\ liveCount + 1 < MaxConcurrent
    <3>1. refilling'
      BY <1>12, <2>1, Zenon
    <3>2. RefillLoops' = 1
      BY <1>11, <1>12, <2>1
    <3>3. liveCount' + Cardinality(Pending') + RefillLoops' <= MaxConcurrent + Cardinality(Commands)
      BY <1>7, <2>1, <3>2, PendingFinite, PoolAssumption DEF TypeOK
    <3> QED  BY <3>1, <3>2, <3>3
  <2>2. CASE refilling' = FALSE /\ refillCreating' = refillCreating
    <3>1. RefillLoops' = 0 /\ RefillLoops = 1
      BY <1>11, <1>12, <2>2
    <3>2. liveCount' + Cardinality(Pending') + RefillLoops' <= MaxConcurrent + Cardinality(Commands)
      BY <1>7, <3>1, PendingFinite, PoolAssumption DEF TypeOK
    <3> QED  BY <2>2, <3>1, <3>2
  <2> QED  BY <1>3, <2>1, <2>2
<1> QED  BY <1>4, <1>5, <1>6, <1>9, <1>10, <1>13

-----------------------------------------------------------------------------
(* main(), shutdown() and drain() *)

LEMMA StartPreserves ==
  ASSUME IInv, Start
  PROVE  IInv'
<1> USE DEF IInv, Start, cmdVars
<1>1. \/ UNCHANGED <<refilling, refillCreating>>
      \/ /\ ~refilling /\ refilling' = TRUE
         /\ refillCreating' = refillCreating + 1
         /\ liveCount < MaxConcurrent
  BY DEF CallRefill, WantsMore
<1>2. TypeOK'
  <2>1. refilling' \in BOOLEAN
    BY <1>1, Zenon DEF TypeOK
  <2>2. refillCreating' \in Nat
    BY <1>1 DEF TypeOK
  <2> QED  BY <2>1, <2>2 DEF TypeOK
<1>3. BoxMatchesPc' /\ StuckExist' /\ OneOwner'
  BY DEF BoxMatchesPc, StuckExist, OneOwner
<1>4. Held' = Held /\ BeingMade' = BeingMade /\ Pending' = Pending
  BY DEF Held, BeingMade, Pending
<1>5. OnlyFreshHandedOut' /\ CountMatchesOwners'
  BY <1>4 DEF OnlyFreshHandedOut, CountMatchesOwners, Counted
<1>6. RefillFlagMatchesLoop' /\ OverrunBound'
  <2> USE DEF RefillFlagMatchesLoop, OverrunBound, RefillLoops
  <2>1. CASE UNCHANGED <<refilling, refillCreating>>
    BY <1>4, <2>1
  <2>2. CASE /\ ~refilling /\ refilling' = TRUE
             /\ refillCreating' = refillCreating + 1
             /\ liveCount < MaxConcurrent
    <3>1. RefillLoops = 0 /\ RefillLoops' = 1
      BY <2>2, StartingFinite DEF TypeOK
    <3> QED  BY <1>4, <2>2, <3>1, PendingFinite, PoolAssumption DEF TypeOK
  <2> QED  BY <1>1, <2>1, <2>2
<1> QED  BY <1>2, <1>3, <1>5, <1>6

(* Only a shutdown hands containers to drain(). *)
DrainQuiet == phase # "draining" => draining = {}

LEMMA DrainQuietInductive == DrainQuiet /\ [Next]_vars => DrainQuiet'
<1> SUFFICES ASSUME DrainQuiet, [Next]_vars PROVE DrainQuiet'
  OBVIOUS
<1> USE DEF DrainQuiet, poolVars, cmdVars
<1>1. CASE UNCHANGED vars
  BY <1>1 DEF vars
<1>2. ASSUME NEW c \in Commands, Acquire(c) \/ CreateOne(c) \/ Exec(c) \/ Destroy(c)
      PROVE  DrainQuiet'
  BY <1>2 DEF Acquire, AcquireRefused, AcquireIdle, AcquireNew, CreateOne, Created, CreateFails,
              Started, StartFails, Exec, Destroy, BeginDestroy, Removed, RemoveFails
<1>3. CASE Refill
  BY <1>3 DEF Refill, RefillCreated, RefillStarted, RefillStartFails, RefillCreateFails,
              RefillFails, ProcessEnds
<1>4. CASE Start \/ Shutdown
  BY <1>4 DEF Start, Shutdown
<1>5. CASE Drain \/ Exit \/ Crash
  BY <1>5 DEF Drain, DrainRemoved, DrainRemoveFails, Exit, Crash, ProcessEnds
<1> QED  BY <1>1, <1>2, <1>3, <1>4, <1>5 DEF Next

LEMMA ShutdownPreserves ==
  ASSUME IInv, DrainQuiet, Shutdown
  PROVE  IInv'
<1> USE DEF IInv, Shutdown, cmdVars
<1>1. Range(idle) \subseteq Containers
  BY RangeInContainers DEF TypeOK
<1>2. /\ Range(idle') = {} /\ idle' \in Seq(Containers) /\ Len(idle') = 0
  BY EmptyStack
<1>3. TypeOK'
  BY <1>1, <1>2 DEF TypeOK
<1>4. BoxMatchesPc' /\ StuckExist'
  BY DEF BoxMatchesPc, StuckExist
<1>5. OneOwner'
  BY <1>2 DEF OneOwner
<1>6. Held' = Held /\ BeingMade' = BeingMade /\ Pending' = Pending
  BY DEF Held, BeingMade, Pending
<1>7. OnlyFreshHandedOut'
  BY <1>2, <1>6 DEF OnlyFreshHandedOut
<1>8. CountMatchesOwners'
  <2>1. Counted' = Counted
    BY <1>2, <1>6 DEF Counted, DrainQuiet
  <2> QED  BY <2>1 DEF CountMatchesOwners
<1>9. RefillFlagMatchesLoop' /\ OverrunBound'
  BY <1>6 DEF RefillFlagMatchesLoop, OverrunBound, RefillLoops
<1> QED  BY <1>3, <1>4, <1>5, <1>7, <1>8, <1>9

LEMMA DrainRemovedPreserves ==
  ASSUME IInv, NEW k \in Containers, DrainRemoved(k)
  PROVE  IInv'
<1> USE DEF IInv, DrainRemoved, cmdVars
<1>1. k \in Counted /\ k \notin Range(idle) /\ k \notin stuck
      /\ \A d \in Commands : box[d] # k
  BY DEF OneOwner, Counted
<1>2. k \notin Held /\ k \notin BeingMade
  BY <1>1 DEF OneOwner, Held, BeingMade
<1>3. Cardinality(Counted) # 0
  BY <1>1, CountedFinite, FS_EmptySet
<1>4. TypeOK'
  <2>1. docker' \in [Containers -> {"absent", "created", "running", "used"}]
    BY DEF TypeOK
  <2>2. liveCount' \in Nat
    BY <1>3 DEF CountMatchesOwners, TypeOK
  <2> QED  BY <2>1, <2>2 DEF TypeOK
<1>5. BoxMatchesPc' /\ OneOwner'
  BY DEF BoxMatchesPc, OneOwner
<1>6. Held' = Held /\ BeingMade' = BeingMade /\ Pending' = Pending
  BY DEF Held, BeingMade, Pending
<1>7. OnlyFreshHandedOut' /\ StuckExist'
  <2>1. \A j \in Containers \ {k} : docker'[j] = docker[j]
    BY DEF TypeOK
  <2>2. Held \subseteq Containers /\ Range(idle) \subseteq Containers
        /\ BeingMade \subseteq Containers
    BY RangeInContainers, PoolAssumption
       DEF TypeOK, Held, BeingMade, BoxMatchesPc, Settled, Holding
  <2> QED  BY <1>1, <1>2, <1>6, <2>1, <2>2 DEF OnlyFreshHandedOut, StuckExist, TypeOK
<1>8. CountMatchesOwners'
  <2>1. Counted' = Counted \ {k}
    BY <1>1, <1>2, <1>6 DEF Counted
  <2>2. Cardinality(Counted \ {k}) = Cardinality(Counted) - 1
    BY <1>1, CountedFinite, FS_RemoveElement
  <2> QED  BY <2>1, <2>2 DEF CountMatchesOwners
<1>9. RefillFlagMatchesLoop'
  BY DEF RefillFlagMatchesLoop, RefillLoops
<1>10. OverrunBound'
  BY <1>6, PendingFinite, StartingFinite, PoolAssumption DEF TypeOK, OverrunBound, RefillLoops
<1> QED  BY <1>4, <1>5, <1>7, <1>8, <1>9, <1>10

-----------------------------------------------------------------------------
LEMMA NextPreserves == IInv /\ DrainQuiet /\ [Next]_vars => IInv'
<1> SUFFICES ASSUME IInv, DrainQuiet, [Next]_vars PROVE IInv'
  OBVIOUS
<1>1. CASE UNCHANGED vars
  <2> USE <1>1 DEF vars, poolVars, cmdVars
  <2>1. Held' = Held /\ BeingMade' = BeingMade /\ Pending' = Pending
    BY DEF Held, BeingMade, Pending
  <2> QED  BY <2>1 DEF IInv, TypeOK, BoxMatchesPc, OneOwner, OnlyFreshHandedOut, StuckExist,
              CountMatchesOwners, Counted, RefillFlagMatchesLoop, RefillLoops, OverrunBound
<1>2. ASSUME NEW c \in Commands, Acquire(c) PROVE IInv'
  BY <1>2, AcquireRefusedPreserves, AcquireIdlePreserves, AcquireNewPreserves DEF Acquire
<1>3. ASSUME NEW c \in Commands, CreateOne(c) PROVE IInv'
  BY <1>3, CreatedPreserves, CreateFailsPreserves, StartedPreserves, StartFailsPreserves
     DEF CreateOne
<1>4. ASSUME NEW c \in Commands, Exec(c) PROVE IInv'
  BY <1>4, ExecPreserves
<1>5. ASSUME NEW c \in Commands, Destroy(c) PROVE IInv'
  BY <1>5, BeginDestroyPreserves, RemovedPreserves, RemoveFailsPreserves DEF Destroy
<1>6. CASE Refill
  BY <1>6, RefillCreatedPreserves, RefillCreateFailsPreserves, RefillStartedPreserves,
     RefillStartFailsPreserves DEF Refill
<1>7. CASE Start
  BY <1>7, StartPreserves
<1>8. CASE Shutdown
  BY <1>8, ShutdownPreserves
<1>9. CASE Drain
  BY <1>9, DrainRemovedPreserves, ProcessEndsPreserves DEF Drain, DrainRemoveFails
<1>10. CASE Exit
  BY <1>10, ProcessEndsPreserves DEF Exit
<1>11. CASE Crash
  BY <1>11, ProcessEndsPreserves DEF Crash
<1> QED
  BY <1>1, <1>2, <1>3, <1>4, <1>5, <1>6, <1>7, <1>8, <1>9, <1>10, <1>11 DEF Next

(* The strengthened invariant holds in every reachable state. *)
THEOREM PoolInvariant == Spec => [](IInv /\ DrainQuiet)
<1>1. Init => IInv /\ DrainQuiet
  BY InitEstablishes DEF Init, DrainQuiet
<1>2. IInv /\ DrainQuiet /\ [Next]_vars => (IInv /\ DrainQuiet)'
  BY NextPreserves, DrainQuietInductive
<1> QED  BY <1>1, <1>2, PTL DEF Spec

(* The pool's variables keep their types; in particular liveCount, which   *)
(* destroy() decrements without looking, is never negative.                *)
THEOREM PoolTypeCorrect == Spec => []TypeOK
<1>1. IInv /\ DrainQuiet => TypeOK
  BY DEF IInv
<1> QED  BY <1>1, PoolInvariant, PTL

(* No container is ever owned twice, whatever acquire(), destroy(), a      *)
(* refill and a shutdown do at the same time.                              *)
THEOREM PoolOneOwner == Spec => []OneOwner
<1>1. IInv /\ DrainQuiet => OneOwner
  BY DEF IInv
<1> QED  BY <1>1, PoolInvariant, PTL

(* A container handed out by the pool has never run a command.             *)
THEOREM PoolHandsOutFresh == Spec => []OnlyFreshHandedOut
<1>1. IInv /\ DrainQuiet => OnlyFreshHandedOut
  BY DEF IInv
<1> QED  BY <1>1, PoolInvariant, PTL

(* liveCount is the number of started and not yet removed containers,      *)
(* through every failure of the Docker daemon.                             *)
THEOREM PoolCountExact == Spec => []CountMatchesOwners
<1>1. IInv /\ DrainQuiet => CountMatchesOwners
  BY DEF IInv
<1> QED  BY <1>1, PoolInvariant, PTL

(* At most one refill loop runs, and the flag says whether one does.       *)
THEOREM PoolOneRefill == Spec => []RefillFlagMatchesLoop
<1>1. IInv /\ DrainQuiet => RefillFlagMatchesLoop
  BY DEF IInv
<1> QED  BY <1>1, PoolInvariant, PTL

(* The ceiling is passed by no more than the number of commands that may   *)
(* be in flight, for every pool size and every ceiling.                    *)
THEOREM PoolOverrunBounded == Spec => []OverrunBound
<1>1. IInv /\ DrainQuiet => OverrunBound
  BY DEF IInv
<1> QED  BY <1>1, PoolInvariant, PTL
-----------------------------------------------------------------------------
(* The pool never overfills.  Each turn of the loop checks idle before it    *)
(* asks for one more container; what it checked may be stale when the        *)
(* container arrives, but only the one loop ever pushes.                     *)

LEMMA IdleWithinTargetInductive ==
  IInv /\ IdleWithinTarget /\ [Next]_vars => IdleWithinTarget'
<1> SUFFICES ASSUME IInv, IdleWithinTarget, [Next]_vars PROVE IdleWithinTarget'
  OBVIOUS
<1> USE PoolAssumption DEF IdleWithinTarget, RefillLoops
<1>0. /\ Len(idle) \in Nat /\ refillCreating \in Nat
      /\ IsFiniteSet(refillStarting) /\ Cardinality(refillStarting) \in Nat
      /\ idle \in Seq(Containers)
  BY LenProperties, StartingFinite DEF IInv, TypeOK
<1>1. CASE UNCHANGED vars
  BY <1>1 DEF vars, poolVars
<1>2. ASSUME NEW p, ProcessEnds(p) PROVE IdleWithinTarget'
  BY <1>2, EmptyStack, FS_EmptySet DEF ProcessEnds
<1>3. ASSUME NEW c \in Commands, AcquireIdle(c) PROVE IdleWithinTarget'
  <2>1. Len(Front(idle)) = Len(idle) - 1
    BY <1>3, PopLemma DEF AcquireIdle, IInv, TypeOK, OneOwner
  <2>2. CASE UNCHANGED <<refilling, refillCreating>>
    BY <1>0, <1>3, <2>1, <2>2 DEF AcquireIdle
  <2>3. CASE refillCreating' = refillCreating + 1
    BY <1>0, <1>3, <2>1, <2>3 DEF AcquireIdle
  <2> QED  BY <1>3, <2>2, <2>3 DEF AcquireIdle, TopUp, CallRefill
<1>4. ASSUME NEW c \in Commands, Started(c) PROVE IdleWithinTarget'
  <2>1. CASE UNCHANGED <<refilling, refillCreating>>
    BY <1>0, <1>4, <2>1 DEF Started
  <2>2. CASE ~refilling /\ WantsMore(idle, liveCount + 1) /\ refillCreating' = refillCreating + 1
    <3>1. refillCreating + Cardinality(refillStarting) = 0
      BY <2>2 DEF IInv, RefillFlagMatchesLoop
    <3>2. Len(idle) < MinSize
      BY <2>2 DEF WantsMore
    <3> QED  BY <1>0, <1>4, <2>2, <3>1, <3>2 DEF Started
  <2> QED  BY <1>4, <2>1, <2>2 DEF Started, TopUp, CallRefill
<1>5. ASSUME NEW k \in Containers, RefillCreated(k) PROVE IdleWithinTarget'
  <2>1. Cardinality(refillStarting \cup {k}) <= Cardinality(refillStarting) + 1
        /\ Cardinality(refillStarting \cup {k}) \in Nat
    <3>1. IsFiniteSet(refillStarting \cup {k})
      BY <1>0, FS_AddElement
    <3>2. Cardinality(refillStarting \cup {k}) =
            IF k \in refillStarting THEN Cardinality(refillStarting)
                                    ELSE Cardinality(refillStarting) + 1
      BY <1>0, FS_AddElement
    <3> QED  BY <1>0, <3>1, <3>2, FS_CardinalityType
  <2> QED  BY <1>0, <1>5, <2>1 DEF RefillCreated
<1>6. ASSUME NEW k \in Containers, RefillStarted(k) PROVE IdleWithinTarget'
  <2>1. Len(Append(idle, k)) = Len(idle) + 1
    BY <1>0, PushLemma
  <2>2. Cardinality(refillStarting \ {k}) = Cardinality(refillStarting) - 1
        /\ Cardinality(refillStarting) # 0
    BY <1>0, <1>6, FS_RemoveElement, FS_EmptySet DEF RefillStarted
  <2>3. refillCreating = 0 /\ Cardinality(refillStarting) = 1
    BY <1>0, <2>2 DEF IInv, RefillFlagMatchesLoop
  <2>4. CASE WantsMore(Append(idle, k), liveCount + 1)
    <3>1. Len(Append(idle, k)) < MinSize /\ refillCreating' = refillCreating + 1
      BY <1>6, <2>4 DEF RefillStarted, ContinueRefill, WantsMore
    <3> QED  BY <1>0, <1>6, <2>1, <2>2, <2>3, <3>1 DEF RefillStarted
  <2>5. CASE ~WantsMore(Append(idle, k), liveCount + 1)
    <3>1. refillCreating' = refillCreating
      BY <1>6, <2>5 DEF RefillStarted, ContinueRefill
    <3> QED  BY <1>0, <1>6, <2>1, <2>2, <2>3, <3>1 DEF RefillStarted
  <2> QED  BY <2>4, <2>5
<1>7. CASE RefillCreateFails
  <2>1. CASE phase = "boot"
    BY <1>2, <1>7, <2>1 DEF RefillCreateFails, RefillFails
  <2>2. CASE phase # "boot"
    BY <1>0, <1>7, <2>2 DEF RefillCreateFails, RefillFails
  <2> QED  BY <2>1, <2>2
<1>8. ASSUME NEW k \in Containers, RefillStartFails(k) PROVE IdleWithinTarget'
  <2>1. CASE phase = "boot"
    BY <1>2, <1>8, <2>1 DEF RefillStartFails, RefillFails
  <2>2. CASE phase # "boot"
    <3>1. Cardinality(refillStarting \ {k}) = Cardinality(refillStarting) - 1
      BY <1>0, <1>8, FS_RemoveElement DEF RefillStartFails
    <3> QED  BY <1>0, <1>8, <2>2, <3>1 DEF RefillStartFails, RefillFails
  <2> QED  BY <2>1, <2>2
<1>9. CASE Start
  <2>1. CASE UNCHANGED <<refilling, refillCreating>>
    BY <1>0, <1>9, <2>1 DEF Start
  <2>2. CASE ~refilling /\ WantsMore(idle, liveCount) /\ refillCreating' = refillCreating + 1
    <3>1. refillCreating + Cardinality(refillStarting) = 0
      BY <2>2 DEF IInv, RefillFlagMatchesLoop
    <3>2. Len(idle) < MinSize
      BY <2>2 DEF WantsMore
    <3> QED  BY <1>0, <1>9, <2>2, <3>1, <3>2 DEF Start
  <2> QED  BY <1>9, <2>1, <2>2 DEF Start, CallRefill
<1>10. CASE Shutdown
  BY <1>0, <1>10, EmptyStack DEF Shutdown
<1>11. ASSUME NEW c \in Commands,
              \/ AcquireRefused(c) \/ AcquireNew(c)
              \/ \E k \in Containers : Created(c, k)
              \/ CreateFails(c) \/ StartFails(c) \/ Exec(c) \/ Destroy(c)
       PROVE  IdleWithinTarget'
  BY <1>11 DEF AcquireRefused, AcquireNew, Created, CreateFails, StartFails, Exec, Destroy,
               BeginDestroy, Removed, RemoveFails, poolVars
<1>12. ASSUME NEW k \in Containers, DrainRemoved(k) PROVE IdleWithinTarget'
  BY <1>12 DEF DrainRemoved
<1>13. CASE Drain \/ Exit \/ Crash
  BY <1>2, <1>12, <1>13 DEF Drain, DrainRemoveFails, Exit, Crash
<1>14. CASE Refill
  BY <1>5, <1>6, <1>7, <1>8, <1>14 DEF Refill
<1>15. ASSUME NEW c \in Commands, Acquire(c) \/ CreateOne(c) \/ Exec(c) \/ Destroy(c)
       PROVE  IdleWithinTarget'
  BY <1>3, <1>4, <1>11, <1>15 DEF Acquire, CreateOne
<1> QED  BY <1>1, <1>9, <1>10, <1>13, <1>14, <1>15 DEF Next

(* Spare containers never exceed minSize, even counting the one on its way. *)
THEOREM PoolNeverOverfills == Spec => []IdleWithinTarget
<1>1. Init => IdleWithinTarget
  BY EmptyStack, FS_EmptySet, PoolAssumption DEF Init, IdleWithinTarget, RefillLoops
<1>2. (IInv /\ DrainQuiet) /\ IdleWithinTarget /\ [Next]_vars => IdleWithinTarget'
  BY IdleWithinTargetInductive
<1> QED  BY <1>1, <1>2, PoolInvariant, PTL DEF Spec
-----------------------------------------------------------------------------
(* The pool implements the lifecycle of one-shot containers.  What a         *)
(* container is in the lifecycle follows from who owns it; by OneOwner the   *)
(* roles below exclude each other, so that a step on one container is a step *)
(* of the lifecycle of that container and of no other.                       *)

States == [k \in Containers |-> LifecycleState(k)]
Users  == [k \in Containers |-> Owner(k)]

Unowned(k) ==
  /\ k \notin Range(idle) \cup refillStarting \cup draining
  /\ \A c \in Commands : box[c] # k

OwnerFacts ==
  \A k \in Containers :
    /\ \A c \in Commands : box[c] = k => Owner(k) = c
    /\ (\A c \in Commands : box[c] # k) => Owner(k) = NoBox

RoleFacts ==
  \A k \in Containers :
    /\ docker[k] = "absent" => LifecycleState(k) = "absent" /\ Unowned(k)
    /\ k \in Range(idle) => LifecycleState(k) = "spare" /\ Owner(k) = NoBox
    /\ k \in refillStarting => LifecycleState(k) = "making" /\ Owner(k) = NoBox
    /\ k \in draining => LifecycleState(k) = "doomed" /\ Owner(k) = NoBox
    /\ docker[k] # "absent" /\ Unowned(k) => LifecycleState(k) = "orphan"
    /\ \A c \in Commands : box[c] = k =>
         /\ pc[c] \in {"starting", "holding", "destroying"}
         /\ pc[c] = "starting" => LifecycleState(k) = "making"
         /\ pc[c] = "destroying" => LifecycleState(k) = "doomed"
         /\ pc[c] = "holding" =>
              LifecycleState(k) = IF docker[k] = "used" THEN "used" ELSE "leased"

LEMMA OwnerLemma == IInv => OwnerFacts
<1> SUFFICES ASSUME IInv, NEW k \in Containers
             PROVE  /\ \A c \in Commands : box[c] = k => Owner(k) = c
                    /\ (\A c \in Commands : box[c] # k) => Owner(k) = NoBox
  BY DEF OwnerFacts
<1>1. \A c, d \in Commands : box[c] = k /\ box[d] = k => c = d
  BY PoolAssumption DEF IInv, OneOwner
<1>2. ASSUME NEW c \in Commands, box[c] = k PROVE Owner(k) = c
  <2>1. Owner(k) \in Commands /\ box[Owner(k)] = k
    BY <1>2, Zenon DEF Owner
  <2> QED  BY <1>1, <1>2, <2>1
<1>3. (\A c \in Commands : box[c] # k) => Owner(k) = NoBox
  BY Zenon DEF Owner
<1> QED  BY <1>2, <1>3, Zenon

LEMMA RoleLemma == IInv => RoleFacts
<1> SUFFICES ASSUME IInv, NEW k \in Containers
    PROVE
    /\ docker[k] = "absent" => LifecycleState(k) = "absent" /\ Unowned(k)
    /\ k \in Range(idle) => LifecycleState(k) = "spare" /\ Owner(k) = NoBox
    /\ k \in refillStarting => LifecycleState(k) = "making" /\ Owner(k) = NoBox
    /\ k \in draining => LifecycleState(k) = "doomed" /\ Owner(k) = NoBox
    /\ docker[k] # "absent" /\ Unowned(k) => LifecycleState(k) = "orphan"
    /\ \A c \in Commands : box[c] = k =>
         /\ pc[c] \in {"starting", "holding", "destroying"}
         /\ pc[c] = "starting" => LifecycleState(k) = "making"
         /\ pc[c] = "destroying" => LifecycleState(k) = "doomed"
         /\ pc[c] = "holding" =>
              LifecycleState(k) = IF docker[k] = "used" THEN "used" ELSE "leased"
  BY DEF RoleFacts
<1> USE DEF IInv
<1>1. \A c \in Commands : box[c] = k => pc[c] \in {"starting", "holding", "destroying"}
  BY PoolAssumption DEF TypeOK, BoxMatchesPc, Settled, Creating, Holding
<1>2. /\ k \in BeingMade <=>
           k \in refillStarting \/ \E c \in Commands : box[c] = k /\ pc[c] = "starting"
      /\ k \in BeingDestroyed <=> \E c \in Commands : box[c] = k /\ pc[c] = "destroying"
      /\ k \in Held <=> \E c \in Commands : box[c] = k /\ pc[c] \in {"holding", "destroying"}
  BY DEF BeingMade, BeingDestroyed, Held, Holding
<1>3. ASSUME k \in Range(idle) \cup refillStarting \cup draining
      PROVE  \A c \in Commands : box[c] # k
  BY <1>3 DEF OneOwner
<1>4. ASSUME \A c \in Commands : box[c] # k PROVE Owner(k) = NoBox
  BY <1>4, OwnerLemma DEF OwnerFacts
<1>5. ASSUME docker[k] = "absent" PROVE LifecycleState(k) = "absent" /\ Unowned(k)
  <2>1. k \notin BeingMade /\ k \notin Held /\ k \notin Range(idle) /\ k \notin draining
        /\ k \notin BeingDestroyed
    BY <1>2, <1>5 DEF OnlyFreshHandedOut
  <2>2. LifecycleState(k) = "absent"
    BY <1>5, <2>1 DEF LifecycleState
  <2> QED  BY <1>1, <1>2, <2>1, <2>2 DEF Unowned
<1>6. ASSUME k \in Range(idle) PROVE LifecycleState(k) = "spare"
  <2>1. docker[k] # "absent" /\ k \notin BeingMade /\ k \notin draining
        /\ k \notin Held /\ k \notin BeingDestroyed
    BY <1>2, <1>3, <1>6 DEF OnlyFreshHandedOut, OneOwner
  <2> QED  BY <1>6, <2>1 DEF LifecycleState
<1>7. ASSUME k \in refillStarting PROVE LifecycleState(k) = "making"
  <2>1. docker[k] # "absent" /\ k \in BeingMade /\ k \notin draining
        /\ k \notin Held /\ k \notin BeingDestroyed /\ k \notin Range(idle)
    BY <1>2, <1>3, <1>7 DEF OnlyFreshHandedOut, OneOwner
  <2> QED  BY <2>1 DEF LifecycleState
<1>8. ASSUME k \in draining PROVE LifecycleState(k) = "doomed"
  <2>1. docker[k] # "absent" /\ k \notin BeingMade
        /\ k \notin Held /\ k \notin BeingDestroyed /\ k \notin Range(idle)
    BY <1>2, <1>3, <1>8 DEF OnlyFreshHandedOut, OneOwner
  <2> QED  BY <1>8, <2>1 DEF LifecycleState
<1>9. ASSUME docker[k] # "absent", Unowned(k) PROVE LifecycleState(k) = "orphan"
  <2>1. k \notin Range(idle) /\ k \notin BeingMade /\ k \notin draining
        /\ k \notin Held /\ k \notin BeingDestroyed
    BY <1>2, <1>9 DEF Unowned
  <2> QED  BY <1>9, <2>1 DEF LifecycleState
<1>10. ASSUME NEW c \in Commands, box[c] = k
       PROVE  /\ pc[c] = "starting" => LifecycleState(k) = "making"
              /\ pc[c] = "destroying" => LifecycleState(k) = "doomed"
              /\ pc[c] = "holding" =>
                   LifecycleState(k) = IF docker[k] = "used" THEN "used" ELSE "leased"
  <2>1. \A d \in Commands : box[d] = k => d = c
    BY <1>10, PoolAssumption DEF OneOwner
  <2>2. k \notin Range(idle) /\ k \notin refillStarting /\ k \notin draining
    BY <1>10 DEF OneOwner
  <2>3. /\ k \in BeingMade <=> pc[c] = "starting"
        /\ k \in BeingDestroyed <=> pc[c] = "destroying"
        /\ k \in Held <=> pc[c] \in {"holding", "destroying"}
    BY <1>2, <1>10, <2>1, <2>2
  <2>4. k \in BeingMade \cup Held => docker[k] # "absent"
    BY DEF OnlyFreshHandedOut
  <2>5. CASE pc[c] = "starting"
    BY <2>2, <2>3, <2>4, <2>5 DEF LifecycleState
  <2>6. CASE pc[c] = "destroying"
    BY <2>2, <2>3, <2>4, <2>6 DEF LifecycleState
  <2>7. CASE pc[c] = "holding"
    BY <2>2, <2>3, <2>4, <2>7 DEF LifecycleState
  <2> QED  BY <1>1, <1>10, <2>5, <2>6, <2>7
<1> QED  BY <1>1, <1>3, <1>4, <1>5, <1>6, <1>7, <1>8, <1>9, <1>10

(* Both hold after a step too, whatever the step. *)
LEMMA OwnerLemmaPrimed == (IInv => OwnerFacts)'
  BY OwnerLemma, PTL

LEMMA RoleLemmaPrimed == (IInv => RoleFacts)'
  BY RoleLemma, PTL

-----------------------------------------------------------------------------
(* A step of the pool, seen from one container. *)

(* Nothing that the lifecycle of container j depends on is changed. *)
Untouched(j) ==
  /\ docker'[j] = docker[j]
  /\ j \in Range(idle') <=> j \in Range(idle)
  /\ j \in refillStarting' <=> j \in refillStarting
  /\ j \in draining' <=> j \in draining
  /\ \A c \in Commands : /\ box'[c] = j <=> box[c] = j
                         /\ box[c] = j => pc'[c] = pc[c]

LEMMA UntouchedLemma ==
  ASSUME IInv, IInv', NEW j \in Containers, Untouched(j)
  PROVE  LifecycleState(j)' = LifecycleState(j) /\ Owner(j)' = Owner(j)
<1>1. OwnerFacts /\ OwnerFacts' /\ RoleFacts /\ RoleFacts'
  BY OwnerLemma, OwnerLemmaPrimed, RoleLemma, RoleLemmaPrimed
<1>2. Owner(j)' = Owner(j)
  <2>1. CASE \E c \in Commands : box[c] = j
    BY <1>1, <2>1 DEF OwnerFacts, Untouched
  <2>2. CASE \A c \in Commands : box[c] # j
    BY <1>1, <2>2 DEF OwnerFacts, Untouched
  <2> QED  BY <2>1, <2>2
<1>3. CASE docker[j] = "absent" \/ j \in Range(idle) \cup refillStarting \cup draining
  BY <1>1, <1>2, <1>3 DEF RoleFacts, Untouched
<1>4. ASSUME NEW c \in Commands, box[c] = j PROVE LifecycleState(j)' = LifecycleState(j)
  BY <1>1, <1>4 DEF RoleFacts, Untouched
<1>5. CASE docker[j] # "absent" /\ Unowned(j)
  BY <1>1, <1>2, <1>5 DEF RoleFacts, Untouched, Unowned
<1> QED  BY <1>2, <1>3, <1>4, <1>5 DEF Unowned

(* Nothing that any lifecycle depends on is changed: the abstract stutters. *)
LEMMA StutterLemma ==
  ASSUME IInv, IInv', \A j \in Containers : Untouched(j)
  PROVE  States' = States /\ Users' = Users
<1>1. \A j \in Containers : LifecycleState(j)' = LifecycleState(j) /\ Owner(j)' = Owner(j)
  BY UntouchedLemma
<1> QED  BY <1>1, Zenon DEF States, Users

(* One container goes to the lifecycle state v and the user u. *)
LEMMA TouchLemma ==
  ASSUME IInv, IInv', NEW k \in Containers, \A j \in Containers \ {k} : Untouched(j)
  PROVE  /\ States' = [States EXCEPT ![k] = LifecycleState(k)']
         /\ Users' = [Users EXCEPT ![k] = Owner(k)']
         /\ Owner(k)' = Owner(k) => Users' = Users
         /\ States[k] = LifecycleState(k)
         /\ Users[k] = Owner(k)
<1>1. \A j \in Containers \ {k} :
        LifecycleState(j)' = LifecycleState(j) /\ Owner(j)' = Owner(j)
  BY UntouchedLemma
<1>2. States' = [j \in Containers |-> LifecycleState(j)']
      /\ Users' = [j \in Containers |-> Owner(j)']
  BY DEF States, Users
<1>3. States' = [States EXCEPT ![k] = LifecycleState(k)']
  BY <1>1, <1>2 DEF States
<1>4. Users' = [Users EXCEPT ![k] = Owner(k)']
  BY <1>1, <1>2 DEF Users
<1>5. Owner(k)' = Owner(k) => Users' = Users
  BY <1>1, <1>2 DEF Users
<1> QED  BY <1>3, <1>4, <1>5 DEF States, Users

LStep == Lifecycle!LifecycleNext \/ (States' = States /\ Users' = Users)

-----------------------------------------------------------------------------
(* acquire() *)

LEMMA AcquireImplements ==
  ASSUME IInv, IInv', NEW c \in Commands, Acquire(c)
  PROVE  LStep
<1>1. TypeOK /\ BoxMatchesPc /\ OneOwner
  BY DEF IInv
<1>2. ASSUME pc[c] \in Settled PROVE box[c] = NoBox
  BY <1>1, <1>2 DEF BoxMatchesPc
<1>3. CASE AcquireRefused(c) \/ AcquireNew(c)
  <2>1. \A j \in Containers : Untouched(j)
    BY <1>1, <1>2, <1>3, PoolAssumption
       DEF AcquireRefused, AcquireNew, poolVars, Untouched, TypeOK
  <2> QED  BY <2>1, StutterLemma DEF LStep
<1>4. CASE AcquireIdle(c)
  <2>1. PICK k \in Containers : /\ k = Last(idle) /\ k \in Range(idle)
                                /\ Range(idle') = Range(idle) \ {k}
    BY <1>1, <1>4, PopLemma DEF AcquireIdle, TypeOK, OneOwner
  <2>2. /\ box'[c] = k /\ pc'[c] = "holding" /\ box[c] = NoBox
        /\ \A d \in Commands \ {c} : box'[d] = box[d] /\ pc'[d] = pc[d]
        /\ docker' = docker /\ refillStarting' = refillStarting /\ draining' = draining
    BY <1>1, <1>2, <1>4, <2>1 DEF AcquireIdle, TypeOK
  <2>3. \A j \in Containers \ {k} : Untouched(j)
    BY <2>1, <2>2, PoolAssumption DEF Untouched
  <2>4. docker[k] = "running" /\ LifecycleState(k) = "spare" /\ Owner(k) = NoBox
    BY <2>1, RoleLemma DEF RoleFacts, IInv, OnlyFreshHandedOut
  <2>5. LifecycleState(k)' = "leased" /\ Owner(k)' = c
    <3>1. docker'[k] # "used"
      BY <2>2, <2>4
    <3> QED  BY <2>1, <2>2, <3>1, RoleLemmaPrimed, OwnerLemmaPrimed DEF RoleFacts, OwnerFacts
  <2>6. c \notin {Users[j] : j \in Containers}
    <3>1. ASSUME NEW j \in Containers, Owner(j) = c PROVE FALSE
      <4>1. CASE \E d \in Commands : box[d] = j
        BY <2>2, <3>1, <4>1, OwnerLemma, PoolAssumption DEF OwnerFacts
      <4>2. CASE \A d \in Commands : box[d] # j
        BY <3>1, <4>2, OwnerLemma, PoolAssumption DEF OwnerFacts
      <4> QED  BY <4>1, <4>2
    <3> QED  BY <3>1 DEF Users
  <2>7. Lifecycle!Lease(k, c)
    BY <2>1, <2>3, <2>4, <2>5, <2>6, TouchLemma DEF Lifecycle!Lease, States, Users
  <2> QED  BY <2>1, <2>7 DEF LStep, Lifecycle!LifecycleNext
<1> QED  BY <1>3, <1>4 DEF Acquire

-----------------------------------------------------------------------------
(* _createOne(), exec() and destroy() on behalf of a command *)

(* A call that fails loses the container it was about. *)
LEMMA AbandonOne ==
  ASSUME IInv, IInv', NEW k \in Containers, \A j \in Containers \ {k} : Untouched(j),
         LifecycleState(k) \in {"making", "doomed"}, docker'[k] # "absent", Unowned(k)'
  PROVE  LStep
<1>1. LifecycleState(k)' = "orphan" /\ Owner(k)' = NoBox
  BY RoleLemmaPrimed, OwnerLemmaPrimed DEF RoleFacts, OwnerFacts, Unowned
<1>2. /\ States' = [States EXCEPT ![k] = "orphan"]
      /\ Users' = [Users EXCEPT ![k] = NoBox]
      /\ States[k] \in {"making", "doomed"}
  BY <1>1, TouchLemma
<1>3. /\ States' = [j \in Containers |->
                      IF j \in {k} /\ States[j] # "absent" THEN "orphan" ELSE States[j]]
      /\ Users' = [j \in Containers |-> IF j \in {k} THEN NoBox ELSE Users[j]]
  BY <1>2 DEF States, Users
<1>4. Lifecycle!Abandon({k})
  BY <1>3 DEF Lifecycle!Abandon, States, Users
<1> QED  BY <1>2, <1>4 DEF LStep, Lifecycle!LifecycleNext, States

LEMMA CreatedImplements ==
  ASSUME IInv, IInv', NEW c \in Commands, NEW k \in Containers, Created(c, k)
  PROVE  LStep
<1>1. TypeOK /\ BoxMatchesPc
  BY DEF IInv
<1>2. /\ docker[k] = "absent" /\ docker'[k] = "created"
      /\ \A j \in Containers \ {k} : docker'[j] = docker[j]
      /\ box[c] = NoBox /\ box'[c] = k /\ pc'[c] = "starting"
      /\ \A d \in Commands \ {c} : box'[d] = box[d] /\ pc'[d] = pc[d]
      /\ idle' = idle /\ refillStarting' = refillStarting /\ draining' = draining
  BY <1>1 DEF Created, Absent, TypeOK, BoxMatchesPc, poolVars
<1>3. \A j \in Containers \ {k} : Untouched(j)
  BY <1>2, PoolAssumption DEF Untouched
<1>4. LifecycleState(k) = "absent"
  BY <1>2, RoleLemma DEF RoleFacts
<1>5. LifecycleState(k)' = "making" /\ Owner(k)' = c
  BY <1>2, RoleLemmaPrimed, OwnerLemmaPrimed DEF RoleFacts, OwnerFacts
<1>6. Lifecycle!Make(k, c)
  BY <1>3, <1>4, <1>5, TouchLemma DEF Lifecycle!Make, States, Users
<1> QED  BY <1>6 DEF LStep, Lifecycle!LifecycleNext

LEMMA StartedImplements ==
  ASSUME IInv, IInv', NEW c \in Commands, Started(c)
  PROVE  LStep
<1>1. TypeOK /\ BoxMatchesPc /\ OneOwner
  BY DEF IInv
<1>2. PICK k \in Containers : k = box[c]
  BY <1>1 DEF Started, TypeOK, BoxMatchesPc, Settled
<1>3. /\ pc[c] = "starting" /\ docker'[k] = "running"
      /\ \A j \in Containers \ {k} : docker'[j] = docker[j]
      /\ box' = box /\ pc'[c] = "holding"
      /\ \A d \in Commands \ {c} : pc'[d] = pc[d]
      /\ idle' = idle /\ refillStarting' = refillStarting /\ draining' = draining
  BY <1>1, <1>2 DEF Started, TypeOK
<1>4. \A j \in Containers \ {k} : Untouched(j)
  BY <1>2, <1>3 DEF Untouched
<1>5. LifecycleState(k) = "making" /\ Owner(k) = c
  BY <1>2, <1>3, RoleLemma, OwnerLemma DEF RoleFacts, OwnerFacts
<1>6. LifecycleState(k)' = "leased" /\ Owner(k)' = c
  <2>1. docker'[k] # "used" /\ box'[c] = k
    BY <1>2, <1>3
  <2> QED  BY <1>3, <2>1, RoleLemmaPrimed, OwnerLemmaPrimed DEF RoleFacts, OwnerFacts
<1>7. c # NoBox
  BY PoolAssumption
<1>8. Lifecycle!Finish(k)
  BY <1>4, <1>5, <1>6, <1>7, TouchLemma DEF Lifecycle!Finish, States, Users
<1> QED  BY <1>8 DEF LStep, Lifecycle!LifecycleNext

(* A command that never had a container, or whose container never started. *)
LEMMA CreationFailsImplements ==
  ASSUME IInv, IInv', NEW c \in Commands, CreateFails(c) \/ StartFails(c)
  PROVE  LStep
<1>1. TypeOK /\ BoxMatchesPc /\ OneOwner
  BY DEF IInv
<1>2. CASE CreateFails(c)
  <2>1. \A j \in Containers : Untouched(j)
    <3>1. box[c] = NoBox
      BY <1>1, <1>2 DEF CreateFails, BoxMatchesPc
    <3> QED  BY <1>1, <1>2, <3>1, PoolAssumption DEF CreateFails, poolVars, Untouched, TypeOK
  <2> QED  BY <2>1, StutterLemma DEF LStep
<1>3. CASE StartFails(c)
  <2>1. PICK k \in Containers : k = box[c]
    BY <1>1, <1>3 DEF StartFails, TypeOK, BoxMatchesPc, Settled
  <2>2. /\ pc[c] = "starting" /\ box'[c] = NoBox
        /\ \A d \in Commands \ {c} : box'[d] = box[d] /\ pc'[d] = pc[d] /\ box[d] # k
        /\ docker' = docker /\ idle' = idle
        /\ refillStarting' = refillStarting /\ draining' = draining
    BY <1>1, <1>3, <2>1, PoolAssumption DEF StartFails, TypeOK, OneOwner, poolVars
  <2>3. \A j \in Containers \ {k} : Untouched(j)
    BY <2>1, <2>2, PoolAssumption DEF Untouched
  <2>4. LifecycleState(k) = "making"
    BY <2>1, <2>2, RoleLemma DEF RoleFacts
  <2>5. docker'[k] # "absent"
    BY <2>1, <2>2, <2>4, RoleLemma DEF RoleFacts
  <2>6. k \notin Range(idle) /\ k \notin refillStarting /\ k \notin draining
    BY <1>1, <2>1 DEF OneOwner
  <2>7. Unowned(k)'
    BY <2>2, <2>6, PoolAssumption DEF Unowned
  <2> QED  BY <2>3, <2>4, <2>5, <2>7, AbandonOne
<1> QED  BY <1>2, <1>3

LEMMA ExecImplements ==
  ASSUME IInv, IInv', NEW c \in Commands, Exec(c)
  PROVE  LStep
<1>1. TypeOK /\ BoxMatchesPc /\ OneOwner
  BY DEF IInv
<1>2. PICK k \in Containers : k = box[c]
  BY <1>1 DEF Exec, TypeOK, BoxMatchesPc, Settled
<1>3. /\ pc[c] = "holding" /\ docker[k] = "running" /\ docker'[k] = "used"
      /\ \A j \in Containers \ {k} : docker'[j] = docker[j]
      /\ box' = box /\ pc' = pc
      /\ idle' = idle /\ refillStarting' = refillStarting /\ draining' = draining
  BY <1>1, <1>2 DEF Exec, TypeOK, poolVars, cmdVars
<1>4. \A j \in Containers \ {k} : Untouched(j)
  BY <1>2, <1>3 DEF Untouched
<1>5. LifecycleState(k) = "leased" /\ Owner(k) = c
  BY <1>2, <1>3, RoleLemma, OwnerLemma DEF RoleFacts, OwnerFacts
<1>6. LifecycleState(k)' = "used" /\ Owner(k)' = c
  BY <1>2, <1>3, RoleLemmaPrimed, OwnerLemmaPrimed DEF RoleFacts, OwnerFacts
<1>7. Lifecycle!Use(k)
  BY <1>4, <1>5, <1>6, TouchLemma DEF Lifecycle!Use, States, Users
<1> QED  BY <1>7 DEF LStep, Lifecycle!LifecycleNext

LEMMA BeginDestroyImplements ==
  ASSUME IInv, IInv', NEW c \in Commands, BeginDestroy(c)
  PROVE  LStep
<1>1. TypeOK /\ BoxMatchesPc /\ OneOwner
  BY DEF IInv
<1>2. PICK k \in Containers : k = box[c]
  BY <1>1 DEF BeginDestroy, TypeOK, BoxMatchesPc, Settled
<1>3. /\ pc[c] = "holding" /\ pc'[c] = "destroying"
      /\ \A d \in Commands \ {c} : pc'[d] = pc[d]
      /\ box' = box /\ docker' = docker
      /\ idle' = idle /\ refillStarting' = refillStarting /\ draining' = draining
  BY <1>1, <1>2 DEF BeginDestroy, TypeOK, poolVars
<1>4. \A j \in Containers \ {k} : Untouched(j)
  BY <1>2, <1>3 DEF Untouched
<1>5. LifecycleState(k) \in {"leased", "used"} /\ Owner(k) = c
  BY <1>2, <1>3, RoleLemma, OwnerLemma DEF RoleFacts, OwnerFacts
<1>6. LifecycleState(k)' = "doomed" /\ Owner(k)' = c
  BY <1>2, <1>3, RoleLemmaPrimed, OwnerLemmaPrimed DEF RoleFacts, OwnerFacts
<1>7. Lifecycle!GiveUp(k)
  BY <1>4, <1>5, <1>6, TouchLemma DEF Lifecycle!GiveUp, States, Users
<1> QED  BY <1>7 DEF LStep, Lifecycle!LifecycleNext

(* destroy() ends: the container is removed, or lost when remove() failed. *)
LEMMA DestroyEndsImplements ==
  ASSUME IInv, IInv', NEW c \in Commands, Removed(c) \/ RemoveFails(c)
  PROVE  LStep
<1>1. TypeOK /\ BoxMatchesPc /\ OneOwner
  BY DEF IInv
<1>2. PICK k \in Containers : k = box[c]
  BY <1>1 DEF Removed, RemoveFails, TypeOK, BoxMatchesPc, Settled
<1>3. /\ pc[c] = "destroying" /\ box'[c] = NoBox
      /\ \A d \in Commands \ {c} : box'[d] = box[d] /\ pc'[d] = pc[d] /\ box[d] # k
      /\ idle' = idle /\ refillStarting' = refillStarting /\ draining' = draining
      /\ \A j \in Containers \ {k} : docker'[j] = docker[j]
      /\ Removed(c) => docker'[k] = "absent"
      /\ RemoveFails(c) => docker'[k] = docker[k]
  BY <1>1, <1>2, PoolAssumption DEF Removed, RemoveFails, TypeOK, OneOwner, poolVars
<1>4. \A j \in Containers \ {k} : Untouched(j)
  BY <1>2, <1>3, PoolAssumption DEF Untouched
<1>5. LifecycleState(k) = "doomed"
  BY <1>2, <1>3, RoleLemma DEF RoleFacts
<1>6. k \notin Range(idle) /\ k \notin refillStarting /\ k \notin draining
  BY <1>1, <1>2 DEF OneOwner
<1>7. Unowned(k)'
  BY <1>3, <1>6, PoolAssumption DEF Unowned
<1>8. CASE RemoveFails(c)
  <2>1. docker'[k] # "absent"
    BY <1>3, <1>5, <1>8, RoleLemma DEF RoleFacts
  <2> QED  BY <1>4, <1>5, <1>7, <2>1, AbandonOne
<1>9. CASE Removed(c)
  <2>1. LifecycleState(k)' = "absent" /\ Owner(k)' = NoBox
    BY <1>3, <1>7, <1>9, RoleLemmaPrimed, OwnerLemmaPrimed DEF RoleFacts, OwnerFacts, Unowned
  <2>2. Lifecycle!Remove(k)
    BY <1>4, <1>5, <2>1, TouchLemma DEF Lifecycle!Remove, States, Users
  <2> QED  BY <2>2 DEF LStep, Lifecycle!LifecycleNext
<1> QED  BY <1>8, <1>9

-----------------------------------------------------------------------------
(* _refillTo(), start, shutdown, drain and the end of the process *)

LEMMA ProcessEndsImplements ==
  ASSUME IInv, IInv', NEW p, ProcessEnds(p)
  PROVE  LStep
<1>1. /\ Range(idle') = {} /\ refillStarting' = {} /\ draining' = {} /\ docker' = docker
      /\ \A c \in Commands : box'[c] = NoBox
  BY EmptyStack DEF ProcessEnds
<1>2. \A j \in Containers : Unowned(j)'
  BY <1>1, PoolAssumption DEF Unowned
<1>3. ASSUME NEW j \in Containers
      PROVE  /\ Owner(j)' = NoBox
             /\ LifecycleState(j)' = IF LifecycleState(j) # "absent" THEN "orphan" ELSE LifecycleState(j)
  <2>1. Owner(j)' = NoBox
    BY <1>2, OwnerLemmaPrimed DEF OwnerFacts, Unowned
  <2>2. docker[j] = "absent" <=> LifecycleState(j) = "absent"
    BY RoleLemma DEF RoleFacts, Unowned
  <2>3. CASE docker[j] = "absent"
    BY <1>1, <2>1, <2>2, <2>3, RoleLemmaPrimed DEF RoleFacts
  <2>4. CASE docker[j] # "absent"
    BY <1>1, <1>2, <2>1, <2>2, <2>4, RoleLemmaPrimed DEF RoleFacts
  <2> QED  BY <2>3, <2>4
<1>4. /\ States' = [j \in Containers |->
                      IF j \in Containers /\ States[j] # "absent" THEN "orphan" ELSE States[j]]
      /\ Users' = [j \in Containers |-> IF j \in Containers THEN NoBox ELSE Users[j]]
  BY <1>3 DEF States, Users
<1>5. Lifecycle!Abandon(Containers)
  BY <1>4 DEF Lifecycle!Abandon, States, Users
<1> QED  BY <1>5 DEF LStep, Lifecycle!LifecycleNext

LEMMA RefillCreatedImplements ==
  ASSUME IInv, IInv', NEW k \in Containers, RefillCreated(k)
  PROVE  LStep
<1>1. /\ docker[k] = "absent" /\ docker'[k] = "created"
      /\ \A j \in Containers \ {k} : docker'[j] = docker[j]
      /\ idle' = idle /\ refillStarting' = refillStarting \cup {k} /\ draining' = draining
      /\ pc' = pc /\ box' = box
  BY DEF RefillCreated, Absent, IInv, TypeOK, cmdVars
<1>2. \A j \in Containers \ {k} : Untouched(j)
  BY <1>1 DEF Untouched
<1>3. LifecycleState(k) = "absent"
  BY <1>1, RoleLemma DEF RoleFacts
<1>4. LifecycleState(k)' = "making" /\ Owner(k)' = NoBox
  BY <1>1, RoleLemmaPrimed DEF RoleFacts
<1>5. Lifecycle!Make(k, NoBox)
  BY <1>2, <1>3, <1>4, TouchLemma DEF Lifecycle!Make, States, Users
<1> QED  BY <1>5 DEF LStep, Lifecycle!LifecycleNext

LEMMA RefillStartedImplements ==
  ASSUME IInv, IInv', NEW k \in Containers, RefillStarted(k)
  PROVE  LStep
<1>1. Range(idle') = Range(idle) \cup {k}
  BY PushLemma DEF RefillStarted, IInv, TypeOK
<1>2. /\ k \in refillStarting /\ refillStarting' = refillStarting \ {k}
      /\ \A j \in Containers \ {k} : docker'[j] = docker[j]
      /\ draining' = draining /\ pc' = pc /\ box' = box
  BY DEF RefillStarted, IInv, TypeOK, cmdVars
<1>3. \A j \in Containers \ {k} : Untouched(j)
  BY <1>1, <1>2 DEF Untouched
<1>4. LifecycleState(k) = "making" /\ Owner(k) = NoBox
  BY <1>2, RoleLemma DEF RoleFacts
<1>5. LifecycleState(k)' = "spare" /\ Owner(k)' = NoBox
  BY <1>1, RoleLemmaPrimed DEF RoleFacts
<1>6. Lifecycle!Finish(k)
  BY <1>3, <1>4, <1>5, TouchLemma DEF Lifecycle!Finish, States, Users
<1> QED  BY <1>6 DEF LStep, Lifecycle!LifecycleNext

LEMMA RefillFailsImplements ==
  ASSUME IInv, IInv', RefillCreateFails \/ \E k \in Containers : RefillStartFails(k)
  PROVE  LStep
<1>1. CASE phase = "boot"
  <2>1. ProcessEnds("down")
    BY <1>1 DEF RefillCreateFails, RefillStartFails, RefillFails
  <2> QED  BY <2>1, ProcessEndsImplements
<1>2. CASE phase # "boot" /\ RefillCreateFails
  <2>1. \A j \in Containers : Untouched(j)
    BY <1>2 DEF RefillCreateFails, RefillFails, Untouched, cmdVars
  <2> QED  BY <2>1, StutterLemma DEF LStep
<1>3. ASSUME phase # "boot", NEW k \in Containers, RefillStartFails(k) PROVE LStep
  <2>1. /\ k \in refillStarting /\ refillStarting' = refillStarting \ {k}
        /\ docker' = docker /\ idle' = idle /\ draining' = draining
        /\ pc' = pc /\ box' = box
    BY <1>3 DEF RefillStartFails, RefillFails, cmdVars
  <2>2. \A j \in Containers \ {k} : Untouched(j)
    BY <2>1 DEF Untouched
  <2>3. LifecycleState(k) = "making" /\ docker[k] # "absent"
    BY <2>1, RoleLemma DEF RoleFacts
  <2>4. k \notin Range(idle) /\ k \notin draining /\ \A d \in Commands : box[d] # k
    BY <2>1 DEF IInv, OneOwner
  <2>5. Unowned(k)'
    BY <2>1, <2>4 DEF Unowned
  <2> QED  BY <2>1, <2>2, <2>3, <2>5, AbandonOne
<1> QED  BY <1>1, <1>2, <1>3

LEMMA StartImplements ==
  ASSUME IInv, IInv', Start
  PROVE  LStep
<1>1. \A j \in Containers : Untouched(j)
  BY DEF Start, Untouched, cmdVars
<1> QED  BY <1>1, StutterLemma DEF LStep

LEMMA ShutdownImplements ==
  ASSUME IInv, IInv', DrainQuiet, Shutdown
  PROVE  LStep
<1>1. /\ Range(idle') = {} /\ draining = {} /\ draining' = Range(idle)
      /\ docker' = docker /\ refillStarting' = refillStarting /\ pc' = pc /\ box' = box
  BY EmptyStack DEF Shutdown, DrainQuiet, cmdVars
<1>2. ASSUME NEW j \in Containers
      PROVE  /\ Owner(j)' = Owner(j)
             /\ LifecycleState(j)' = IF LifecycleState(j) = "spare" THEN "doomed" ELSE LifecycleState(j)
  <2>1. CASE j \in Range(idle)
    BY <1>1, <2>1, RoleLemma, RoleLemmaPrimed DEF RoleFacts
  <2>2. CASE j \notin Range(idle)
    <3>1. Untouched(j)
      BY <1>1, <2>2 DEF Untouched
    <3>2. LifecycleState(j) # "spare"
      <4>1. CASE docker[j] = "absent" \/ j \in refillStarting \/ Unowned(j)
        BY <4>1, RoleLemma DEF RoleFacts
      <4>2. CASE \E c \in Commands : box[c] = j
        BY <4>2, RoleLemma DEF RoleFacts
      <4> QED  BY <1>1, <2>2, <4>1, <4>2 DEF Unowned
    <3> QED  BY <3>1, <3>2, UntouchedLemma
  <2> QED  BY <2>1, <2>2
<1>3. /\ States' = [j \in Containers |-> IF States[j] = "spare" THEN "doomed" ELSE States[j]]
      /\ Users' = Users
  BY <1>2 DEF States, Users
<1>4. Lifecycle!Retire
  BY <1>3 DEF Lifecycle!Retire, States, Users
<1> QED  BY <1>4 DEF LStep, Lifecycle!LifecycleNext

LEMMA DrainRemovedImplements ==
  ASSUME IInv, IInv', NEW k \in Containers, DrainRemoved(k)
  PROVE  LStep
<1>1. /\ k \in draining /\ draining' = draining \ {k} /\ docker'[k] = "absent"
      /\ \A j \in Containers \ {k} : docker'[j] = docker[j]
      /\ idle' = idle /\ refillStarting' = refillStarting /\ pc' = pc /\ box' = box
  BY DEF DrainRemoved, IInv, TypeOK, cmdVars
<1>2. \A j \in Containers \ {k} : Untouched(j)
  BY <1>1 DEF Untouched
<1>3. LifecycleState(k) = "doomed"
  BY <1>1, RoleLemma DEF RoleFacts
<1>4. LifecycleState(k)' = "absent" /\ Owner(k)' = NoBox
  BY <1>1, RoleLemmaPrimed, OwnerLemmaPrimed DEF RoleFacts, OwnerFacts, Unowned
<1>5. Lifecycle!Remove(k)
  BY <1>2, <1>3, <1>4, TouchLemma DEF Lifecycle!Remove, States, Users
<1> QED  BY <1>5 DEF LStep, Lifecycle!LifecycleNext

-----------------------------------------------------------------------------
LEMMA NextImplements ==
  ASSUME IInv, IInv', DrainQuiet, [Next]_vars
  PROVE  [Lifecycle!LifecycleNext]_(Lifecycle!lifecycleVars)
<1>1. CASE UNCHANGED vars
  <2>1. \A j \in Containers : Untouched(j)
    BY <1>1 DEF vars, poolVars, cmdVars, Untouched
  <2> QED  BY <2>1, StutterLemma DEF Lifecycle!lifecycleVars, States, Users
<1>2. ASSUME NEW c \in Commands, Acquire(c) \/ CreateOne(c) \/ Exec(c) \/ Destroy(c)
      PROVE  LStep
  BY <1>2, AcquireImplements, CreatedImplements, StartedImplements, CreationFailsImplements,
     ExecImplements, BeginDestroyImplements, DestroyEndsImplements DEF CreateOne, Destroy
<1>3. ASSUME Refill PROVE LStep
  BY <1>3, RefillCreatedImplements, RefillStartedImplements, RefillFailsImplements DEF Refill
<1>4. ASSUME Start \/ Shutdown PROVE LStep
  BY <1>4, StartImplements, ShutdownImplements
<1>5. ASSUME Drain \/ Exit \/ Crash PROVE LStep
  BY <1>5, DrainRemovedImplements, ProcessEndsImplements
     DEF Drain, DrainRemoveFails, Exit, Crash
<1>6. CASE LStep
  BY <1>6 DEF LStep, Lifecycle!lifecycleVars, States, Users
<1> QED  BY <1>1, <1>2, <1>3, <1>4, <1>5, <1>6 DEF Next

LEMMA InitImplements == Init => Lifecycle!LifecycleInit
<1> SUFFICES ASSUME Init PROVE Lifecycle!LifecycleInit
  OBVIOUS
<1>1. ASSUME NEW k \in Containers PROVE LifecycleState(k) = "absent" /\ Owner(k) = NoBox
  <2>1. docker[k] = "absent" /\ \A c \in Commands : box[c] # k
    BY PoolAssumption DEF Init
  <2> QED  BY <2>1, InitEstablishes, RoleLemma, OwnerLemma DEF RoleFacts, OwnerFacts
<1> QED  BY <1>1 DEF Lifecycle!LifecycleInit

(* Every run of the pool is a run of the lifecycle of one-shot containers,  *)
(* for any sizes and any faults: no container is leased twice, used twice   *)
(* or spare again after it was leased, whatever interleaves or fails.       *)
THEOREM PoolImplementsLifecycle == Spec => LifecycleSpec
<1>1. (IInv /\ DrainQuiet) /\ (IInv /\ DrainQuiet)' /\ [Next]_vars
        => [Lifecycle!LifecycleNext]_(Lifecycle!lifecycleVars)
  BY NextImplements
<1> QED  BY <1>1, InitImplements, PoolInvariant, PTL DEF Spec, LifecycleSpec, Lifecycle!Spec
=============================================================================
