------------------------------- MODULE WsSession -------------------------------
(***************************************************************************)
(* One WebSocket connection as the gateway serves it: handleConnection in  *)
(* gateway/wsHandler.js.  Every message runs its own invocation of the     *)
(* async 'message' handler; the closure variables running, activeAbort,    *)
(* turnstilePassedAt and commandsSinceChallenge are all they share.        *)
(*                                                                         *)
(* An action is one turn: a frame, the close of the socket, or the answer  *)
(* of what an invocation awaits (Turnstile, Redis, the pool and Docker,    *)
(* MongoDB), with the code up to its next await.  What runCommand does     *)
(* with the sandbox and the signal is RunCommand's subject; here it is the *)
(* two awaits "acquire" (no sandbox yet) and "sandbox".                    *)
(***************************************************************************)
EXTENDS Integers, SequencesExt, FiniteSets

CONSTANTS
  Frames,          \* the messages the client may send on this connection
  NoFrame,         \* activeAbort is null
  ChallengeEvery,  \* TURNSTILE_REQUIRED_EVERY_N_COMMANDS
  Faults           \* which calls may throw: a subset of FaultKinds

FaultKinds == {"lookup", "turnstile", "redis", "sandbox", "audit"}

ASSUME WsSessionAssumption ==
  /\ NoFrame \notin Frames
  /\ ChallengeEvery \in Nat \ {0}
  /\ Faults \subseteq FaultKinds

VARIABLES
  conn,            \* "opening" (lookupApiKey), "open" (listeners on) or "closed"
  running,         \* the running-guard
  activeAbort,     \* whose AbortController activeAbort is
  fresh,           \* turnstilePassedAt is within the period
  sinceChallenge,  \* commandsSinceChallenge
  pc,              \* the await each frame's invocation is at; "lost": none has it
  signal,          \* the frames whose controller has been aborted
  answers,         \* the frames other than chunks sent back for each frame
  ran,             \* the frames whose command got a sandbox
  audit,           \* the audit record written for each frame
  logged,          \* the frames whose invocation ended in "unexpected error"
  credit           \* history: commands the last passed challenge still covers

gateVars == <<fresh, sinceChallenge, credit>>
vars == <<conn, running, activeAbort, gateVars, pc, signal, answers, ran, audit, logged>>

Awaits == {"challenge", "rateLimit", "auditInvalid", "acquire", "sandbox",
           "auditRefused", "auditDone"}
InRunCommand == {"acquire", "sandbox"}
Busy(f) == pc[f] \in Awaits

TypeOK ==
  /\ conn \in {"opening", "open", "closed"}
  /\ running \in BOOLEAN
  /\ activeAbort \in Frames \cup {NoFrame}
  /\ fresh \in BOOLEAN
  /\ sinceChallenge \in 0..ChallengeEvery
  /\ pc \in [Frames -> {"unsent", "lost", "finished"} \cup Awaits]
  /\ signal \subseteq Frames
  /\ answers \in [Frames -> Seq({"error", "busy", "challenge-required", "done"})]
  /\ ran \subseteq Frames
  /\ audit \in [Frames -> {"none", "rejected", "executed"}]
  /\ logged \subseteq Frames
  /\ credit \in Int

Init ==
  /\ conn = "opening"
  /\ running = FALSE
  /\ activeAbort = NoFrame
  /\ fresh = FALSE
  /\ sinceChallenge = 0
  /\ pc = [f \in Frames |-> "unsent"]
  /\ signal = {}
  /\ answers = [f \in Frames |-> <<>>]
  /\ ran = {}
  /\ audit = [f \in Frames |-> "none"]
  /\ logged = {}
  /\ credit = 0

-----------------------------------------------------------------------------
(* The connection *)

(* lookupApiKey answered: only now are the listeners registered. *)
Opened ==
  /\ conn = "opening"
  /\ conn' = "open"
  /\ UNCHANGED <<running, activeAbort, gateVars, pc, signal, answers, ran, audit, logged>>

(* It threw: server.js closes the socket. *)
LookupFails ==
  /\ "lookup" \in Faults
  /\ conn = "opening"
  /\ conn' = "closed"
  /\ UNCHANGED <<running, activeAbort, gateVars, pc, signal, answers, ran, audit, logged>>

(* The browser goes away.  Before the listeners are on, nobody hears it.     *)
Close ==
  /\ conn # "closed"
  /\ conn' = "closed"
  /\ signal' = IF conn = "open" THEN signal \cup ({activeAbort} \ {NoFrame}) ELSE signal
  /\ UNCHANGED <<running, activeAbort, gateVars, pc, answers, ran, audit, logged>>

(* The challenge's period runs out. *)
ChallengeExpires ==
  /\ fresh
  /\ fresh' = FALSE
  /\ UNCHANGED <<conn, running, activeAbort, sinceChallenge, credit, pc, signal, answers, ran,
                 audit, logged>>

-----------------------------------------------------------------------------
(* send() drops what a socket that is not open cannot take. *)
Send(f, kind) ==
  answers' = IF conn = "closed" THEN answers ELSE [answers EXCEPT ![f] = Append(@, kind)]

(* (mutated form of Finish: no finally, the guard stays up) *)
FinishStillRunning(f) ==
  /\ pc' = [pc EXCEPT ![f] = "finished"]
  /\ UNCHANGED running

(* The finally of the message handler. *)
Finish(f) ==
  /\ pc' = [pc EXCEPT ![f] = "finished"]
  /\ running' = FALSE

(* (mutated form of Throw: the error is answered and not logged) *)
ThrowUnlogged(f) ==
  /\ Send(f, "error")
  /\ Finish(f)
  /\ UNCHANGED logged

(* Its catch: whatever execCommand threw is logged and answered. *)
Throw(f) ==
  /\ Send(f, "error")
  /\ logged' = logged \cup {f}
  /\ Finish(f)

Goto(f, label) == pc' = [pc EXCEPT ![f] = label] /\ UNCHANGED running

(* A frame before the listeners are registered is emitted to nobody. *)
FrameLost(f) ==
  /\ conn = "opening"
  /\ pc[f] = "unsent"
  /\ pc' = [pc EXCEPT ![f] = "lost"]
  /\ UNCHANGED <<conn, running, activeAbort, gateVars, signal, answers, ran, audit, logged>>

(* Not JSON, or JSON that is neither null nor an exec frame. *)
FrameMalformed(f) ==
  /\ conn = "open"
  /\ pc[f] = "unsent"
  /\ Send(f, "error")
  /\ pc' = [pc EXCEPT ![f] = "finished"]
  /\ UNCHANGED <<conn, running, activeAbort, gateVars, signal, ran, audit, logged>>

(* JSON, but null: reading its type throws before the listener's try, and    *)
(* nobody handles the rejection of an async listener.  The process ends, all *)
(* its invocations with it; the client sees its socket closed.               *)
FrameNull(f) ==
  /\ conn = "open"
  /\ pc[f] = "unsent"
  /\ conn' = "closed"
  /\ running' = FALSE /\ activeAbort' = NoFrame
  /\ pc' = [g \in Frames |-> IF g = f \/ Busy(g) THEN "lost" ELSE pc[g]]
  /\ UNCHANGED <<gateVars, signal, answers, ran, audit, logged>>

(* (mutated form of FrameBusy: the frame is dropped without an answer) *)
FrameBusyUnanswered(f) ==
  /\ conn = "open"
  /\ pc[f] = "unsent"
  /\ running
  /\ pc' = [pc EXCEPT ![f] = "finished"]
  /\ UNCHANGED <<conn, running, activeAbort, gateVars, signal, answers, ran, audit, logged>>

(* "a command is already running on this connection" *)
FrameBusy(f) ==
  /\ conn = "open"
  /\ pc[f] = "unsent"
  /\ running
  /\ Send(f, "busy")
  /\ pc' = [pc EXCEPT ![f] = "finished"]
  /\ UNCHANGED <<conn, running, activeAbort, gateVars, signal, ran, audit, logged>>

(* (mutated form of Stale: commandsSinceChallenge is not looked at) *)
StaleByTimeOnly == ~fresh

(* ensureChallenge asks Turnstile only when the last challenge is stale.     *)
Stale == ~fresh \/ sinceChallenge >= ChallengeEvery

(* (mutated form of FrameAccepted: the guard is not looked at) *)
FrameAcceptedUnguarded(f) ==
  /\ conn = "open"
  /\ pc[f] = "unsent"
  /\ running' = TRUE
  /\ pc' = [pc EXCEPT ![f] = IF Stale THEN "challenge" ELSE "rateLimit"]
  /\ UNCHANGED <<conn, activeAbort, gateVars, signal, answers, ran, audit, logged>>

FrameAccepted(f) ==
  /\ conn = "open"
  /\ pc[f] = "unsent"
  /\ ~running
  /\ running' = TRUE
  /\ pc' = [pc EXCEPT ![f] = IF Stale THEN "challenge" ELSE "rateLimit"]
  /\ UNCHANGED <<conn, activeAbort, gateVars, signal, answers, ran, audit, logged>>

-----------------------------------------------------------------------------
(* execCommand, await by await *)

ChallengePassed(f) ==
  /\ pc[f] = "challenge"
  /\ fresh' = TRUE
  /\ sinceChallenge' = 0
  /\ credit' = ChallengeEvery
  /\ Goto(f, "rateLimit")
  /\ UNCHANGED <<conn, activeAbort, signal, answers, ran, audit, logged>>

ChallengeFailed(f) ==
  /\ pc[f] = "challenge"
  /\ Send(f, "challenge-required")
  /\ Finish(f)
  /\ UNCHANGED <<conn, activeAbort, gateVars, signal, ran, audit, logged>>

RateLimited(f) ==
  /\ pc[f] = "rateLimit"
  /\ Send(f, "error")
  /\ Finish(f)
  /\ UNCHANGED <<conn, activeAbort, gateVars, signal, ran, audit, logged>>

(* Within the limit, but validateCommand refuses: answered, then audited.    *)
Invalid(f) ==
  /\ pc[f] = "rateLimit"
  /\ Send(f, "error")
  /\ Goto(f, "auditInvalid")
  /\ UNCHANGED <<conn, activeAbort, gateVars, signal, ran, audit, logged>>

(* Within the limit and valid: the controller exists from here on.           *)
CommandStarts(f) ==
  /\ pc[f] = "rateLimit"
  /\ sinceChallenge' = sinceChallenge + 1
  /\ credit' = credit - 1
  /\ activeAbort' = f
  /\ Goto(f, "acquire")
  /\ UNCHANGED <<conn, fresh, signal, answers, ran, audit, logged>>

SandboxAcquired(f) ==
  /\ pc[f] = "acquire"
  /\ ran' = ran \cup {f}
  /\ Goto(f, "sandbox")
  /\ UNCHANGED <<conn, activeAbort, gateVars, signal, answers, audit, logged>>

(* (mutated form of PoolExhausted: activeAbort is reset for a result only) *)
PoolExhaustedKeepsController(f) ==
  /\ pc[f] = "acquire"
  /\ Send(f, "error")
  /\ Goto(f, "auditRefused")
  /\ UNCHANGED <<conn, activeAbort, gateVars, signal, ran, audit, logged>>

(* PoolExhaustedError *)
PoolExhausted(f) ==
  /\ pc[f] = "acquire"
  /\ activeAbort' = NoFrame
  /\ Send(f, "error")
  /\ Goto(f, "auditRefused")
  /\ UNCHANGED <<conn, gateVars, signal, ran, audit, logged>>

(* runCommand returned: its sandbox is already removed. *)
CommandDone(f) ==
  /\ pc[f] = "sandbox"
  /\ activeAbort' = NoFrame
  /\ Send(f, "done")
  /\ Goto(f, "auditDone")
  /\ UNCHANGED <<conn, gateVars, signal, ran, audit, logged>>

(* (mutated form of Audited: the entry does not say that it was rejected) *)
AuditedAsExecuted(f) ==
  /\ pc[f] \in {"auditInvalid", "auditRefused", "auditDone"}
  /\ audit' = [audit EXCEPT ![f] = "executed"]
  /\ Finish(f)
  /\ UNCHANGED <<conn, activeAbort, gateVars, signal, answers, ran, logged>>

(* logCommand, whose entry says rejected or not. *)
Audited(f) ==
  /\ pc[f] \in {"auditInvalid", "auditRefused", "auditDone"}
  /\ audit' = [audit EXCEPT ![f] = IF pc[f] = "auditDone" THEN "executed" ELSE "rejected"]
  /\ Finish(f)
  /\ UNCHANGED <<conn, activeAbort, gateVars, signal, answers, ran, logged>>

(* What an invocation awaits throws: Turnstile's body, Redis, MongoDB, or    *)
(* runCommand (a Docker error, or the destroy() of its finally).             *)
Blame ==
  [label \in Awaits |->
     CASE label = "challenge" -> "turnstile"
       [] label = "rateLimit" -> "redis"
       [] label \in InRunCommand -> "sandbox"
       [] OTHER -> "audit"]

AwaitThrows(f) ==
  /\ Busy(f)
  /\ Blame[pc[f]] \in Faults
  /\ activeAbort' = IF pc[f] \in InRunCommand THEN NoFrame ELSE activeAbort
  /\ Throw(f)
  /\ UNCHANGED <<conn, gateVars, signal, ran, audit>>

-----------------------------------------------------------------------------
Frame(f) == FrameLost(f) \/ FrameMalformed(f) \/ FrameBusy(f) \/ FrameAccepted(f)

(* The invocation for f gets the answer it awaits. *)
Answered(f) ==
  \/ ChallengePassed(f) \/ ChallengeFailed(f)
  \/ RateLimited(f) \/ Invalid(f) \/ CommandStarts(f)
  \/ SandboxAcquired(f) \/ PoolExhausted(f) \/ CommandDone(f)
  \/ Audited(f) \/ AwaitThrows(f)

Next ==
  \/ Opened \/ LookupFails \/ Close \/ ChallengeExpires
  \/ \E f \in Frames : Frame(f) \/ FrameNull(f) \/ Answered(f)

Spec == Init /\ [][Next]_vars

(* Turnstile answers or times out, Redis and MongoDB answer, and runCommand  *)
(* settles (EveryCallSettles of RunCommand).  The client owes nothing.       *)
FairSpec == Spec /\ \A f \in Frames : WF_vars(Answered(f))

-----------------------------------------------------------------------------
(* One command at a time on a connection, and the guard is up exactly while  *)
(* one is in execCommand: it is neither passed by a second frame nor left up *)
(* by any error path.                                                        *)
OneAtATime ==
  /\ Cardinality({f \in Frames : Busy(f)}) <= 1
  /\ running <=> \E f \in Frames : Busy(f)

(* activeAbort is the controller of the command that is inside runCommand,   *)
(* and null when none is: a close never aborts the wrong command.            *)
ControllerIsCurrent ==
  \A f \in Frames : activeAbort = f <=> pc[f] \in InRunCommand

(* No command runs on a challenge that was not passed, or that has served    *)
(* ChallengeEvery commands: the check of ensureChallenge and the += after    *)
(* two awaits count together although other frames come in between.          *)
ChallengeBudget == credit >= 0

(* A frame is answered once while the socket is open: the one that ends the  *)
(* process (FrameNull) is not, and closes it.  A second answer means that    *)
(* its invocation failed after it had answered, and that this is logged.     *)
AnsweredOnce ==
  \A f \in Frames :
    pc[f] = "finished" /\ conn = "open" =>
      \/ Len(answers[f]) = 1
      \/ Len(answers[f]) = 2 /\ answers[f][2] = "error" /\ f \in logged

(* No command that had a sandbox ends without a trace, unless the process    *)
(* ends under it: it leaves an audit record or an error in the log.  And no  *)
(* record says that a command was executed that never had a sandbox.         *)
TraceIsTrue ==
  /\ \A f \in ran : pc[f] = "finished" => audit[f] = "executed" \/ f \in logged
  /\ \A f \in Frames : audit[f] = "executed" => f \in ran

(* The guard never stays up: a connection that is busy becomes free again.   *)
GuardComesDown == running ~> ~running

-----------------------------------------------------------------------------
(* What the code's comments and documents promise and the code does not keep. *)

(* wsHandler.js:187, gateway.md:183: a closed connection leaves no sandbox   *)
(* running on unattended; its command has been told to stop.                 *)
NoneRunsUnattended ==
  \A f \in Frames : conn = "closed" /\ pc[f] = "sandbox" => f \in signal
=============================================================================
