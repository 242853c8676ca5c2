---------------------------- MODULE RunCommandProofs ----------------------------
(***************************************************************************)
(* Proofs about RunCommand for every output limit and every size of chunk. *)
(***************************************************************************)
EXTENDS RunCommand, TLAPS

-----------------------------------------------------------------------------
(* The inductive invariant: what each await of the call says of the rest of  *)
(* its state.  The properties do not carry themselves: that a result says    *)
(* what happened depends on what may still change while the call is at       *)
(* "kill" and "inspect", and who holds the sandbox on where the try block is. *)

InTry == {"exec", "execStart", "race", "kill", "inspect"}

(* The sandbox is held from acquire() to the answer of destroy().            *)
SandboxMatchesPc ==
  /\ sandbox = "none" => pc \in {"uncalled", "acquire", "refused", "threw"}
  /\ sandbox = "held" <=> pc \in InTry \cup {"destroy"}
  /\ sandbox \in {"gone", "stuck"} => pc \in Settled
  /\ pc = "returned" => sandbox = "gone"

OutcomeMatchesPc == outcome # "none" <=> pc = "destroy" \/ sandbox \in {"gone", "stuck"}

StreamMatchesPc == pc \in {"uncalled", "acquire", "exec", "execStart"} => stream = "none"

(* The timer is armed during the race only, and so is the listener, but for  *)
(* a race that an error of the stream ended: it leaves the listener on.      *)
ArmedInRace ==
  /\ timer <=> pc = "race"
  /\ listening => pc \in {"race", "destroy"} \cup Settled

(* Nothing has stopped the command as long as the race is on, nor when the   *)
(* end of the stream has won it: only then is an exit code asked for.        *)
Undisturbed == ~timedOut /\ ~aborted /\ outputBytes <= OutputLimit

RaceUndisturbed ==
  /\ pc \notin {"kill", "destroy"} \cup Settled => Undisturbed
  /\ pc = "inspect" => stream = "ended"
  /\ pc = "kill" => ~Undisturbed

(* The limit is passed for good; up to there everything was forwarded.       *)
LimitIsFinal ==
  /\ outputLimitExceeded <=> outputBytes > OutputLimit
  /\ outputBytes <= OutputLimit => forwarded = outputBytes
  /\ forwarded <= OutputLimit

IInv ==
  /\ TypeOK
  /\ SandboxMatchesPc
  /\ OutcomeMatchesPc
  /\ StreamMatchesPc
  /\ ArmedInRace
  /\ RaceUndisturbed
  /\ LimitIsFinal
  /\ ExitCodeMeansUndisturbed

-----------------------------------------------------------------------------
(* The type invariant in parts: the places, the flags, the counters and the  *)
(* record that is returned.                                                  *)
PlacesTyped ==
  /\ pc \in {"uncalled"} \cup Awaits \cup Settled
  /\ sandbox \in {"none", "held", "gone", "stuck"}
  /\ outcome \in {"none", "return", "throw"}
  /\ stream \in {"none", "open", "ended", "errored"}

FlagsTyped ==
  /\ timer \in BOOLEAN /\ listening \in BOOLEAN /\ signal \in BOOLEAN
  /\ timedOut \in BOOLEAN /\ aborted \in BOOLEAN /\ outputLimitExceeded \in BOOLEAN

CountersTyped == outputBytes \in 0..OutputBound /\ forwarded \in 0..OutputBound

Results == [exitCode: {"none", "null", "code"}, timedOut: BOOLEAN, aborted: BOOLEAN,
            outputTruncated: BOOLEAN, output: 0..OutputBound]

LEMMA TypeParts ==
  TypeOK <=> PlacesTyped /\ FlagsTyped /\ CountersTyped /\ result \in Results
  BY Zenon DEF TypeOK, PlacesTyped, FlagsTyped, CountersTyped, Results

LEMMA NextTypeParts ==
  TypeOK' <=> PlacesTyped' /\ FlagsTyped' /\ CountersTyped' /\ result' \in Results
  BY Zenon DEF TypeOK, PlacesTyped, FlagsTyped, CountersTyped, Results

LEMMA InitEstablishes == Init => IInv
<1> SUFFICES ASSUME Init PROVE IInv
  OBVIOUS
<1> USE RunCommandAssumption DEF Init
<1>1. TypeOK
  <2>1. result \in Results
    BY DEF NoResult, Results
  <2>2. PlacesTyped
    BY DEF PlacesTyped
  <2>3. FlagsTyped
    BY DEF FlagsTyped
  <2>4. CountersTyped
    BY DEF CountersTyped
  <2> QED  BY <2>1, <2>2, <2>3, <2>4, TypeParts, Zenon
<1>2. SandboxMatchesPc /\ OutcomeMatchesPc /\ StreamMatchesPc /\ ArmedInRace
  BY DEF SandboxMatchesPc, OutcomeMatchesPc, StreamMatchesPc, ArmedInRace, InTry, Settled
<1>3. RaceUndisturbed /\ LimitIsFinal /\ ExitCodeMeansUndisturbed
  BY DEF RaceUndisturbed, Undisturbed, LimitIsFinal, ExitCodeMeansUndisturbed
<1> QED  BY <1>1, <1>2, <1>3 DEF IInv

LEMMA ResultTyped == IInv /\ [Next]_vars => result' \in Results
<1> SUFFICES ASSUME IInv, [Next]_vars PROVE result' \in Results
  OBVIOUS
<1>1. result \in Results
  BY DEF IInv, TypeOK, Results
<1>2. ASSUME NEW code \in {"null", "code"}, Return(code) PROVE result' \in Results
  <2>1. (outputBytes > OutputLimit) \in BOOLEAN
    OBVIOUS
  <2> QED  BY <1>2, <2>1 DEF IInv, TypeOK, Return, Results
<1>3. CASE Killed \/ Inspected
  BY <1>2, <1>3 DEF Killed, Inspected
<1>4. CASE result' = result
  BY <1>1, <1>4
<1>5. CASE UNCHANGED vars
  BY <1>4, <1>5 DEF vars
<1>6. CASE Call \/ Before
  BY <1>4, <1>6 DEF Call, Before, Acquired, AcquireFails, ExecCreated, ExecFails, Throw, ExecStarted
<1>7. CASE Output \/ TheEnd \/ TimerFires \/ Abort
  BY <1>4, <1>7 DEF Output, Chunk, TheEnd, StreamEnds, StreamFails, Throw, TimerFires, Abort
<1>8. CASE InspectFails \/ Destroyed \/ DestroyFails
  BY <1>4, <1>8 DEF InspectFails, Destroyed, DestroyFails, Throw
<1> QED  BY <1>3, <1>5, <1>6, <1>7, <1>8 DEF Next, After

LEMMA PlacesPreserved == IInv /\ [Next]_vars => PlacesTyped'
<1> SUFFICES ASSUME IInv, [Next]_vars PROVE PlacesTyped'
  OBVIOUS
<1>0. PlacesTyped
  BY TypeParts DEF IInv
<1> USE <1>0 DEF PlacesTyped, Awaits, Settled
<1>1. ASSUME UNCHANGED vars PROVE PlacesTyped'
  BY <1>1 DEF vars, flags
<1>2. ASSUME Call \/ Before PROVE PlacesTyped'
  BY <1>2 DEF Call, Before, Acquired, AcquireFails, ExecCreated, ExecFails, Throw, ExecStarted,
              Stop, flags
<1>3. ASSUME NEW n \in ChunkSizes, Chunk(n) PROVE PlacesTyped'
  BY <1>3 DEF Chunk, Stop
<1>4. ASSUME TheEnd \/ TimerFires \/ Abort PROVE PlacesTyped'
  BY <1>4 DEF TheEnd, StreamEnds, StreamFails, Throw, TimerFires, Abort, Stop, flags
<1>5. ASSUME After PROVE PlacesTyped'
  BY <1>5 DEF After, Killed, Inspected, InspectFails, Destroyed, DestroyFails, Return, Throw, flags
<1> QED  BY <1>1, <1>2, <1>3, <1>4, <1>5 DEF Next, Output

LEMMA FlagsPreserved == IInv /\ [Next]_vars => FlagsTyped'
<1> SUFFICES ASSUME IInv, [Next]_vars PROVE FlagsTyped'
  OBVIOUS
<1>0. FlagsTyped
  BY TypeParts DEF IInv
<1> USE <1>0 DEF FlagsTyped
<1>1. ASSUME UNCHANGED vars PROVE FlagsTyped'
  BY <1>1 DEF vars, flags
<1>2. ASSUME Call \/ Before PROVE FlagsTyped'
  BY <1>2 DEF Call, Before, Acquired, AcquireFails, ExecCreated, ExecFails, Throw, ExecStarted,
              Stop, flags
<1>3. ASSUME NEW n \in ChunkSizes, Chunk(n) PROVE FlagsTyped'
  BY <1>3 DEF Chunk, Stop
<1>4. ASSUME TheEnd \/ TimerFires \/ Abort PROVE FlagsTyped'
  BY <1>4 DEF TheEnd, StreamEnds, StreamFails, Throw, TimerFires, Abort, Stop, flags
<1>5. ASSUME After PROVE FlagsTyped'
  BY <1>5 DEF After, Killed, Inspected, InspectFails, Destroyed, DestroyFails, Return, Throw, flags
<1> QED  BY <1>1, <1>2, <1>3, <1>4, <1>5 DEF Next, Output

LEMMA CountersPreserved == IInv /\ [Next]_vars => CountersTyped'
<1> SUFFICES ASSUME IInv, [Next]_vars PROVE CountersTyped'
  OBVIOUS
<1>0. CountersTyped
  BY TypeParts DEF IInv
<1> USE <1>0 DEF CountersTyped
<1>1. ASSUME UNCHANGED vars PROVE CountersTyped'
  BY <1>1 DEF vars, flags
<1>2. ASSUME Call \/ Before PROVE CountersTyped'
  BY <1>2 DEF Call, Before, Acquired, AcquireFails, ExecCreated, ExecFails, Throw, ExecStarted,
              Stop, flags
<1>3. ASSUME NEW n \in ChunkSizes, Chunk(n) PROVE CountersTyped'
  <2>1. outputBytes + n \in 0..OutputBound /\ n \in Nat
    BY <1>3, RunCommandAssumption DEF Chunk
  <2>2. forwarded' = forwarded \/ (forwarded = outputBytes /\ forwarded' = forwarded + n)
    BY <1>3, <2>1, RunCommandAssumption DEF Chunk, IInv, LimitIsFinal
  <2> QED  BY <1>3, <2>1, <2>2 DEF Chunk
<1>4. ASSUME TheEnd \/ TimerFires \/ Abort PROVE CountersTyped'
  BY <1>4 DEF TheEnd, StreamEnds, StreamFails, Throw, TimerFires, Abort, Stop, flags
<1>5. ASSUME After PROVE CountersTyped'
  BY <1>5 DEF After, Killed, Inspected, InspectFails, Destroyed, DestroyFails, Return, Throw, flags
<1> QED  BY <1>1, <1>2, <1>3, <1>4, <1>5 DEF Next, Output

(* Where the call is decides who holds the sandbox and what is armed.        *)
LEMMA HandsPreserved ==
  IInv /\ [Next]_vars => (SandboxMatchesPc /\ OutcomeMatchesPc /\ StreamMatchesPc /\ ArmedInRace)'
<1> SUFFICES ASSUME IInv, [Next]_vars
             PROVE  (SandboxMatchesPc /\ OutcomeMatchesPc /\ StreamMatchesPc /\ ArmedInRace)'
  OBVIOUS
<1> USE DEF IInv, TypeOK, SandboxMatchesPc, OutcomeMatchesPc, StreamMatchesPc, ArmedInRace,
            InTry, Awaits, Settled
<1>1. CASE UNCHANGED vars
  BY <1>1 DEF vars, flags
<1>2. CASE Call \/ Before
  BY <1>2 DEF Call, Before, Acquired, AcquireFails, ExecCreated, ExecFails, Throw, ExecStarted,
              Stop, flags
<1>3. ASSUME NEW n \in ChunkSizes, Chunk(n)
      PROVE  (SandboxMatchesPc /\ OutcomeMatchesPc /\ StreamMatchesPc /\ ArmedInRace)'
  BY <1>3 DEF Chunk, Stop
<1>4. CASE TheEnd \/ TimerFires \/ Abort
  BY <1>4 DEF TheEnd, StreamEnds, StreamFails, Throw, TimerFires, Abort, Stop, flags
<1>5. CASE After
  BY <1>5 DEF After, Killed, Inspected, InspectFails, Destroyed, DestroyFails, Return, Throw, flags
<1> QED  BY <1>1, <1>2, <1>3, <1>4, <1>5 DEF Next, Output

(* What stops the command ends the race in the same turn.                    *)
LEMMA RacePreserved == IInv /\ [Next]_vars => (RaceUndisturbed /\ LimitIsFinal)'
<1> SUFFICES ASSUME IInv, [Next]_vars PROVE (RaceUndisturbed /\ LimitIsFinal)'
  OBVIOUS
<1> USE RunCommandAssumption
    DEF IInv, TypeOK, StreamMatchesPc, ArmedInRace, RaceUndisturbed, Undisturbed, LimitIsFinal,
        Awaits, Settled
<1>1. CASE UNCHANGED vars
  BY <1>1 DEF vars, flags
<1>2. CASE Call \/ Before
  BY <1>2 DEF Call, Before, Acquired, AcquireFails, ExecCreated, ExecFails, Throw, ExecStarted,
              Stop, flags
<1>3. ASSUME NEW n \in ChunkSizes, Chunk(n) PROVE (RaceUndisturbed /\ LimitIsFinal)'
  BY <1>3 DEF Chunk, Stop
<1>4. CASE TheEnd \/ TimerFires \/ Abort
  BY <1>4 DEF TheEnd, StreamEnds, StreamFails, Throw, TimerFires, Abort, Stop, flags
<1>5. CASE After
  BY <1>5 DEF After, Killed, Inspected, InspectFails, Destroyed, DestroyFails, Return, Throw, flags
<1> QED  BY <1>1, <1>2, <1>3, <1>4, <1>5 DEF Next, Output

(* The result is made once, of the flags of that moment.                     *)
LEMMA ResultPreserved == IInv /\ [Next]_vars => ExitCodeMeansUndisturbed'
<1> SUFFICES ASSUME IInv, [Next]_vars PROVE ExitCodeMeansUndisturbed'
  OBVIOUS
<1> USE DEF IInv, ExitCodeMeansUndisturbed
<1>1. CASE Killed \/ Inspected
  <2>1. /\ result'.timedOut = timedOut /\ result'.aborted = aborted
        /\ result'.outputTruncated = (outputBytes > OutputLimit)
        /\ pc = "kill" => result'.exitCode = "null"
        /\ pc = "inspect" => result'.exitCode = "code"
    BY <1>1 DEF Killed, Inspected, Return
  <2>2. pc = "kill" => ~Undisturbed
    BY DEF RaceUndisturbed
  <2>3. pc = "inspect" => Undisturbed
    BY DEF RaceUndisturbed, Settled
  <2>4. pc \in {"kill", "inspect"}
    BY <1>1 DEF Killed, Inspected
  <2>5. Undisturbed <=> ~timedOut /\ ~aborted /\ ~(outputBytes > OutputLimit)
    BY RunCommandAssumption DEF Undisturbed, TypeOK
  <2> QED  BY <2>1, <2>2, <2>3, <2>4, <2>5
<1>2. ASSUME result' = result, outcome' = "return" => outcome = "return"
      PROVE  ExitCodeMeansUndisturbed'
  BY <1>2
<1>3. CASE UNCHANGED vars
  BY <1>2, <1>3 DEF vars
<1>4. CASE Call \/ Before
  BY <1>2, <1>4 DEF Call, Before, Acquired, AcquireFails, ExecCreated, ExecFails, Throw, ExecStarted
<1>5. CASE Output
  BY <1>2, <1>5 DEF Output, Chunk
<1>6. CASE TheEnd \/ TimerFires \/ Abort
  BY <1>2, <1>6 DEF TheEnd, StreamEnds, StreamFails, Throw, TimerFires, Abort
<1>7. CASE InspectFails \/ Destroyed \/ DestroyFails
  BY <1>2, <1>7 DEF InspectFails, Destroyed, DestroyFails, Throw
<1> QED  BY <1>1, <1>3, <1>4, <1>5, <1>6, <1>7 DEF Next, After

(* The strengthened invariant holds in every reachable state. *)
THEOREM RunCommandInvariant == Spec => []IInv
<1>1. IInv /\ [Next]_vars => IInv'
  <2> SUFFICES ASSUME IInv, [Next]_vars PROVE IInv'
    OBVIOUS
  <2>1. TypeOK'
    BY PlacesPreserved, FlagsPreserved, CountersPreserved, ResultTyped, NextTypeParts, Zenon
  <2> QED  BY <2>1, HandsPreserved, RacePreserved, ResultPreserved DEF IInv
<1> QED  BY <1>1, InitEstablishes, PTL DEF Spec

(* However many of the Docker calls fail, a settled call has given up its    *)
(* sandbox, and a result is delivered for a removed sandbox only.            *)
THEOREM SandboxAlwaysGivenUp == Spec => []SandboxGivenUp
<1>1. IInv => (pc \in Settled => sandbox # "held")
  BY DEF IInv, SandboxMatchesPc, InTry, Settled
<1>2. IInv => SandboxGivenUp
  BY <1>1 DEF IInv, SandboxGivenUp, SandboxMatchesPc
<1> QED  BY <1>2, RunCommandInvariant, PTL

(* An exit code is reported exactly for a command that neither the timeout,  *)
(* nor the abort, nor the output limit has stopped.                          *)
THEOREM ExitCodeAlwaysTrue == Spec => []ExitCodeMeansUndisturbed
<1>1. IInv => ExitCodeMeansUndisturbed
  BY DEF IInv
<1> QED  BY <1>1, RunCommandInvariant, PTL

(* No chunk is forwarded once one was dropped, whatever the sizes of the     *)
(* chunks, also while the container is being killed and removed.             *)
THEOREM ForwardedAlwaysPrefix == Spec => ForwardedIsPrefix
<1>1. IInv => forwarded <= OutputLimit
  BY DEF IInv, LimitIsFinal
<1>2. IInv /\ [Next]_vars => (outputLimitExceeded => forwarded' = forwarded)
  <2> SUFFICES ASSUME IInv, [Next]_vars, outputLimitExceeded PROVE forwarded' = forwarded
    OBVIOUS
  <2>1. ASSUME NEW n \in ChunkSizes, Chunk(n) PROVE forwarded' = forwarded
    <3>1. outputBytes > OutputLimit /\ outputBytes \in Nat /\ n \in Nat
      BY RunCommandAssumption DEF IInv, TypeOK, LimitIsFinal
    <3>2. ~(outputBytes' <= OutputLimit)
      BY <2>1, <3>1, RunCommandAssumption DEF Chunk
    <3> QED  BY <2>1, <3>2 DEF Chunk
  <2>2. CASE UNCHANGED vars
    BY <2>2 DEF vars
  <2>3. CASE Call \/ Before \/ TheEnd \/ TimerFires \/ Abort \/ After
    BY <2>3 DEF Call, Before, Acquired, AcquireFails, ExecCreated, ExecFails, ExecStarted, TheEnd,
                StreamEnds, StreamFails, TimerFires, Abort, After, Killed, Inspected, InspectFails,
                Destroyed, DestroyFails
  <2> QED  BY <2>1, <2>2, <2>3 DEF Next, Output
<1> QED  BY <1>1, <1>2, RunCommandInvariant, PTL DEF Spec, ForwardedIsPrefix

(* The safety that EveryCallSettles and AbortSettles rest on.  While a call  *)
(* waits for its command, everything that can stop it is in place and        *)
(* nothing that should have stopped it was missed: the timer is armed, the   *)
(* abort has not come yet and will be heard, and neither the end of the      *)
(* stream nor the output limit has passed unnoticed.                         *)
RaceCanEnd ==
  pc = "race" =>
    timer /\ listening /\ ~signal /\ stream = "open" /\ outputBytes <= OutputLimit

(* A call that waits for its command can always be stopped: nothing that     *)
(* should end the race comes before it, unheard, or leaves it on.            *)
THEOREM RaceCanAlwaysEnd == Spec => []RaceCanEnd
<1> DEFINE Inv == IInv /\ RaceCanEnd
<1>1. Init => RaceCanEnd
  BY DEF Init, RaceCanEnd
<1>2. Inv /\ IInv' /\ [Next]_vars => RaceCanEnd'
  <2> SUFFICES ASSUME Inv, IInv', [Next]_vars, pc' = "race" PROVE RaceCanEnd'
    BY DEF RaceCanEnd
  <2>1. timer' /\ outputBytes' <= OutputLimit
    BY DEF IInv, ArmedInRace, RaceUndisturbed, Undisturbed, Settled
  <2> USE DEF RaceCanEnd
  <2>2. CASE UNCHANGED vars
    BY <2>1, <2>2 DEF vars
  <2>3. CASE ExecStarted
    BY <2>1, <2>3 DEF ExecStarted, Stop
  <2>4. ASSUME NEW n \in ChunkSizes, Chunk(n) PROVE RaceCanEnd'
    BY <2>1, <2>4 DEF Chunk, Stop
  <2>5. CASE Abort
    BY <2>1, <2>5 DEF Abort, Stop
  <2>6. CASE Call \/ Acquired \/ AcquireFails \/ ExecCreated \/ ExecFails \/ After
    BY <2>6 DEF Call, Acquired, AcquireFails, ExecCreated, ExecFails, Throw, After, Killed, Inspected,
                InspectFails, Destroyed, DestroyFails, Return
  <2>7. CASE TheEnd \/ TimerFires
    BY <2>7 DEF TheEnd, StreamEnds, StreamFails, Throw, TimerFires, Stop
  <2> QED  BY <2>2, <2>3, <2>4, <2>5, <2>6, <2>7 DEF Next, Before, Output
<1> QED  BY <1>1, <1>2, RunCommandInvariant, PTL DEF Spec
=============================================================================
