------------------------------- MODULE RunCommand -------------------------------
(***************************************************************************)
(* One call of runCommand (orchestrator/sandbox.js): a sandbox is acquired *)
(* from the pool, the command is started in it, and its end, the timeout,  *)
(* the abort of the connection and the output limit race; whatever wins,   *)
(* the sandbox is destroyed in the finally.                                *)
(*                                                                         *)
(* An action is one turn of the event loop: an answer of the daemon or the *)
(* pool, a chunk or the end of the stream, the timer, the abort.  When     *)
(* such an event settles the race, the code after the race runs in the     *)
(* same turn, up to its next await.  The four Docker calls and the pool's  *)
(* acquire() and destroy() may fail.                                       *)
(***************************************************************************)
EXTENDS Integers

CONSTANTS
  OutputLimit,   \* MAX_OUTPUT_BYTES, in units of output
  OutputBound,   \* how much a command may write: bounds the model
  ChunkSizes     \* the sizes of the chunks the stream delivers

ASSUME RunCommandAssumption ==
  /\ OutputLimit \in Nat
  /\ OutputBound \in Nat
  /\ ChunkSizes \subseteq Nat \ {0}

VARIABLES
  pc,             \* the await the call is at, or how it settled
  sandbox,        \* "none", "held", "gone" or "stuck" (remove() failed)
  outcome,        \* what the try block leaves for the finally: "return" or "throw"
  stream,         \* the hijacked exec stream: "none", "open", "ended", "errored"
  timer,          \* the timeout is armed
  listening,      \* onAbort is registered on the signal
  signal,         \* the AbortSignal has fired
  timedOut, aborted, outputLimitExceeded,
  outputBytes,    \* bytes received
  forwarded,      \* bytes given to onChunk, and kept for the result
  result          \* what is returned, or NoResult

flags == <<timedOut, aborted, outputLimitExceeded>>
vars  == <<pc, sandbox, outcome, stream, timer, listening, signal, flags,
           outputBytes, forwarded, result>>

NoResult == [exitCode |-> "none", timedOut |-> FALSE, aborted |-> FALSE,
             outputTruncated |-> FALSE, output |-> 0]

Awaits  == {"acquire", "exec", "execStart", "race", "kill", "inspect", "destroy"}
Settled == {"returned", "threw", "refused"}

TypeOK ==
  /\ pc \in {"uncalled"} \cup Awaits \cup Settled
  /\ sandbox \in {"none", "held", "gone", "stuck"}
  /\ outcome \in {"none", "return", "throw"}
  /\ stream \in {"none", "open", "ended", "errored"}
  /\ timer \in BOOLEAN /\ listening \in BOOLEAN /\ signal \in BOOLEAN
  /\ timedOut \in BOOLEAN /\ aborted \in BOOLEAN /\ outputLimitExceeded \in BOOLEAN
  /\ outputBytes \in 0..OutputBound
  /\ forwarded \in 0..OutputBound
  /\ result \in [exitCode: {"none", "null", "code"}, timedOut: BOOLEAN, aborted: BOOLEAN,
                 outputTruncated: BOOLEAN, output: 0..OutputBound]

Init ==
  /\ pc = "uncalled"
  /\ sandbox = "none"
  /\ outcome = "none"
  /\ stream = "none"
  /\ timer = FALSE
  /\ listening = FALSE
  /\ signal = FALSE
  /\ timedOut = FALSE /\ aborted = FALSE /\ outputLimitExceeded = FALSE
  /\ outputBytes = 0
  /\ forwarded = 0
  /\ result = NoResult

-----------------------------------------------------------------------------
(* Before the race *)

Call ==
  /\ pc = "uncalled"
  /\ pc' = "acquire"
  /\ UNCHANGED <<sandbox, outcome, stream, timer, listening, signal, flags,
                 outputBytes, forwarded, result>>

(* acquire() is outside the try: when it throws, nothing is destroyed. *)
Acquired ==
  /\ pc = "acquire"
  /\ pc' = "exec"
  /\ sandbox' = "held"
  /\ UNCHANGED <<outcome, stream, timer, listening, signal, flags,
                 outputBytes, forwarded, result>>

AcquireFails ==
  /\ pc = "acquire"
  /\ pc' \in {"refused", "threw"}     \* PoolExhaustedError, or Docker's error
  /\ UNCHANGED <<sandbox, outcome, stream, timer, listening, signal, flags,
                 outputBytes, forwarded, result>>

ExecCreated ==
  /\ pc = "exec"
  /\ pc' = "execStart"
  /\ UNCHANGED <<sandbox, outcome, stream, timer, listening, signal, flags,
                 outputBytes, forwarded, result>>

(* Leaving the try block with an error: the finally clears the timer and     *)
(* calls destroy().  Only a race that was left normally drops the listener.  *)
Throw ==
  /\ pc' = "destroy"
  /\ outcome' = "throw"
  /\ timer' = FALSE
  /\ UNCHANGED <<sandbox, listening, signal, timedOut, aborted, result>>

(* (mutated form of ExecFails: container.exec() before the try block) *)
ExecFailsOutsideTry ==
  /\ pc \in {"exec", "execStart"}
  /\ pc' = "threw"
  /\ UNCHANGED <<sandbox, outcome, stream, timer, listening, signal, flags,
                 outputBytes, forwarded, result>>

ExecFails ==
  /\ pc \in {"exec", "execStart"}
  /\ Throw
  /\ UNCHANGED <<stream, outputLimitExceeded, outputBytes, forwarded>>

-----------------------------------------------------------------------------
(* The race *)

(* stopEarly won: the timer and the listener go, the container is killed. *)
Stop ==
  /\ pc' = "kill"
  /\ timer' = FALSE
  /\ listening' = FALSE

(* (mutated form of ExecStarted: signal.aborted is not looked at) *)
ExecStartedIgnoringSignal ==
  /\ pc = "execStart"
  /\ stream' = "open"
  /\ pc' = "race" /\ timer' = TRUE /\ listening' = TRUE /\ UNCHANGED aborted
  /\ UNCHANGED <<sandbox, outcome, signal, timedOut, outputLimitExceeded,
                 outputBytes, forwarded, result>>

(* (mutated form of ExecStarted: the timeout is not armed) *)
ExecStartedWithoutTimer ==
  /\ pc = "execStart"
  /\ stream' = "open"
  /\ IF signal
       THEN Stop /\ aborted' = TRUE
       ELSE pc' = "race" /\ timer' = FALSE /\ listening' = TRUE /\ UNCHANGED aborted
  /\ UNCHANGED <<sandbox, outcome, signal, timedOut, outputLimitExceeded,
                 outputBytes, forwarded, result>>

(* exec.start() answers: the stream is wired up, the timer armed, and the    *)
(* signal looked at; an abort that came before is honoured here at once.     *)
ExecStarted ==
  /\ pc = "execStart"
  /\ stream' = "open"
  /\ IF signal
       THEN Stop /\ aborted' = TRUE
       ELSE pc' = "race" /\ timer' = TRUE /\ listening' = TRUE /\ UNCHANGED aborted
  /\ UNCHANGED <<sandbox, outcome, signal, timedOut, outputLimitExceeded,
                 outputBytes, forwarded, result>>

(* (mutated form of Chunk: only what is kept is counted) *)
ChunkDroppedUncounted(n) ==
  /\ stream = "open"
  /\ outputBytes + n <= OutputBound
  /\ IF outputBytes + n <= OutputLimit
       THEN /\ outputBytes' = outputBytes + n
            /\ forwarded' = forwarded + n
            /\ UNCHANGED <<pc, timer, listening, outputLimitExceeded>>
       ELSE /\ outputLimitExceeded' = TRUE
            /\ IF pc = "race" THEN Stop ELSE UNCHANGED <<pc, timer, listening>>
            /\ UNCHANGED <<outputBytes, forwarded>>
  /\ UNCHANGED <<sandbox, outcome, stream, signal, timedOut, aborted, result>>

(* A chunk of either stream: below the limit it is kept and forwarded; the   *)
(* first one above it stops the command, and none is forwarded any more.     *)
(* The stream stays open, and chunks may come, while the container is being  *)
(* killed and removed.                                                       *)
Chunk(n) ==
  /\ stream = "open"
  /\ outputBytes + n <= OutputBound
  /\ outputBytes' = outputBytes + n
  /\ IF outputBytes' <= OutputLimit
       THEN forwarded' = forwarded + n /\ UNCHANGED <<pc, timer, listening, outputLimitExceeded>>
       ELSE /\ outputLimitExceeded' = TRUE
            /\ IF pc = "race" THEN Stop ELSE UNCHANGED <<pc, timer, listening>>
            /\ UNCHANGED forwarded
  /\ UNCHANGED <<sandbox, outcome, stream, signal, timedOut, aborted, result>>

TimerFires ==
  /\ timer
  /\ timedOut' = TRUE
  /\ Stop
  /\ UNCHANGED <<sandbox, outcome, stream, signal, aborted, outputLimitExceeded,
                 outputBytes, forwarded, result>>

(* The connection closes (wsHandler.js); the listener runs if it is there.   *)
Abort ==
  /\ ~signal
  /\ pc \notin {"uncalled"} \cup Settled
  /\ signal' = TRUE
  /\ aborted' = (aborted \/ listening)
  /\ IF pc = "race" /\ listening
       THEN Stop
       ELSE listening' = FALSE /\ UNCHANGED <<pc, timer>>
  /\ UNCHANGED <<sandbox, outcome, stream, timedOut, outputLimitExceeded,
                 outputBytes, forwarded, result>>

(* The command ended by itself: no flag is set, the exit code is asked for.  *)
StreamEnds ==
  /\ stream = "open"
  /\ stream' = "ended"
  /\ IF pc = "race"
       THEN pc' = "inspect" /\ timer' = FALSE /\ listening' = FALSE
       ELSE UNCHANGED <<pc, timer, listening>>
  /\ UNCHANGED <<sandbox, outcome, signal, flags, outputBytes, forwarded, result>>

(* Once the race is over nobody waits for the stream: its error is ignored.  *)
StreamFails ==
  /\ stream = "open"
  /\ stream' = "errored"
  /\ IF pc = "race"
       THEN Throw
       ELSE UNCHANGED <<pc, outcome, timer, sandbox, listening, signal, timedOut, aborted, result>>
  /\ UNCHANGED <<outputLimitExceeded, outputBytes, forwarded>>

-----------------------------------------------------------------------------
(* After the race *)

(* The value of the return statement; the finally runs before it is delivered. *)
Return(code) ==
  /\ result' = [exitCode |-> code, timedOut |-> timedOut, aborted |-> aborted,
                outputTruncated |-> outputBytes > OutputLimit, output |-> forwarded]
  /\ outcome' = "return"
  /\ pc' = "destroy"

(* (mutated form of Killed: a killed command is inspected too) *)
KilledAndInspected ==
  /\ pc = "kill"
  /\ Return("code")
  /\ UNCHANGED <<sandbox, stream, timer, listening, signal, flags, outputBytes, forwarded>>

(* kill() answered or failed, which is the same: no exit code is asked for.  *)
Killed ==
  /\ pc = "kill"
  /\ Return("null")
  /\ UNCHANGED <<sandbox, stream, timer, listening, signal, flags, outputBytes, forwarded>>

Inspected ==
  /\ pc = "inspect"
  /\ Return("code")
  /\ UNCHANGED <<sandbox, stream, timer, listening, signal, flags, outputBytes, forwarded>>

InspectFails ==
  /\ pc = "inspect"
  /\ Throw
  /\ UNCHANGED <<stream, outputLimitExceeded, outputBytes, forwarded>>

(* destroy() succeeded: what the try block left is delivered. *)
Destroyed ==
  /\ pc = "destroy"
  /\ sandbox' = "gone"
  /\ pc' = IF outcome = "return" THEN "returned" ELSE "threw"
  /\ UNCHANGED <<outcome, stream, timer, listening, signal, flags,
                 outputBytes, forwarded, result>>

(* destroy() threw out of the finally: the result is lost. *)
DestroyFails ==
  /\ pc = "destroy"
  /\ sandbox' = "stuck"
  /\ pc' = "threw"
  /\ UNCHANGED <<outcome, stream, timer, listening, signal, flags,
                 outputBytes, forwarded, result>>

-----------------------------------------------------------------------------
Before  == Acquired \/ AcquireFails \/ ExecCreated \/ ExecFails \/ ExecStarted
Output  == \E n \in ChunkSizes : Chunk(n)
TheEnd  == StreamEnds \/ StreamFails
After   == Killed \/ Inspected \/ InspectFails \/ Destroyed \/ DestroyFails

Next == Call \/ Before \/ Output \/ TheEnd \/ TimerFires \/ Abort \/ After

Spec == Init /\ [][Next]_vars

(* The pool and the daemon answer; the command itself may run for ever.  The *)
(* timer is left out here: what only it can do is said in EveryCallSettles.  *)
FairSpec == Spec /\ WF_vars(Before) /\ WF_vars(After)

-----------------------------------------------------------------------------
(* The finally of runCommand: when the call settles, the sandbox it acquired *)
(* is not in its hands any more, however many of the Docker calls failed;    *)
(* and a result is only delivered for a sandbox that has been removed.       *)
SandboxGivenUp ==
  /\ pc \in Settled => sandbox # "held"
  /\ pc = "returned" => sandbox = "gone"

(* An exit code is reported exactly when nothing stopped the command: not    *)
(* the timeout, not the abort, not the output limit, whichever of them came  *)
(* while another was already being dealt with.                               *)
ExitCodeMeansUndisturbed ==
  outcome = "return" =>
    (result.exitCode = "code" <=>
       ~result.timedOut /\ ~result.aborted /\ ~result.outputTruncated)

(* What is forwarded is a prefix of the output that fits the limit: after    *)
(* one chunk was dropped no later, smaller one slips through.                *)
ForwardedIsPrefix ==
  /\ [](forwarded <= OutputLimit)
  /\ [][outputLimitExceeded => forwarded' = forwarded]_vars

(* If an armed timer fires, every call settles, also of a command that never *)
(* ends.                                                                     *)
EveryCallSettles == WF_vars(TimerFires) => (pc = "acquire" ~> pc \in Settled)

(* An abort is never lost: wherever the call was when the connection closed, *)
(* it settles without waiting for the command or for the timeout.            *)
AbortSettles == signal ~> pc \in Settled
=============================================================================
