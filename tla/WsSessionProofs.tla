---------------------------- MODULE WsSessionProofs ----------------------------
(***************************************************************************)
(* Proofs about WsSession for any number of frames on the connection, any  *)
(* number of commands to a challenge and every combination of faults.      *)
(***************************************************************************)
EXTENDS WsSession, SequenceTheorems, FiniteSetTheorems, TLAPS

-----------------------------------------------------------------------------
(* The inductive invariant *)

(* The guard, frame by frame: one invocation at most is in execCommand.      *)
GuardTrue ==
  /\ \A f, g \in Frames : Busy(f) /\ Busy(g) => f = g
  /\ running <=> \E f \in Frames : Busy(f)

(* Before the listeners are registered no frame is handled.                  *)
NoneBeforeListening == conn = "opening" => \A f \in Frames : pc[f] \in {"unsent", "lost"}

(* credit and commandsSinceChallenge count the same commands.  Whoever has   *)
(* passed ensureChallenge and has not started yet is covered, also when the  *)
(* challenge's period ends in between.                                       *)
CreditCounts ==
  /\ credit = ChallengeEvery - sinceChallenge \/ (credit = 0 /\ sinceChallenge = 0 /\ ~fresh)
  /\ credit >= 0
  /\ \A f \in Frames : pc[f] = "rateLimit" => credit > 0

(* What has been sent for a frame when its invocation is at each await.      *)
AnswersMatchPc ==
  conn # "closed" =>
    \A f \in Frames :
      /\ pc[f] \in {"unsent", "lost", "challenge", "rateLimit", "acquire", "sandbox"} =>
           answers[f] = <<>>
      /\ pc[f] \in {"auditInvalid", "auditRefused", "auditDone"} => Len(answers[f]) = 1
      /\ pc[f] = "finished" =>
           \/ Len(answers[f]) = 1
           \/ Len(answers[f]) = 2 /\ answers[f][2] = "error" /\ f \in logged

(* A command that got a sandbox reaches the audit or the log, or ends with   *)
(* the process; only it is recorded as executed.                             *)
TraceMatchesPc ==
  \A f \in Frames :
    /\ pc[f] \in {"sandbox", "auditDone"} => f \in ran
    /\ f \in ran => pc[f] \in {"sandbox", "auditDone", "finished", "lost"}
    /\ audit[f] # "none" => pc[f] = "finished"

(* What is inductive without the rest, and also for a page that replaces its *)
(* socket: see TerminalSessionProofs.                                        *)
Core ==
  /\ TypeOK
  /\ GuardTrue
  /\ CreditCounts

IInv ==
  /\ Core
  /\ NoneBeforeListening
  /\ ControllerIsCurrent
  /\ AnswersMatchPc
  /\ TraceMatchesPc
  /\ TraceIsTrue

-----------------------------------------------------------------------------
(* The answers *)

Kinds == {"error", "busy", "challenge-required", "done"}

LEMMA SendLemma ==
  ASSUME TypeOK, NEW f \in Frames, NEW kind \in Kinds, Send(f, kind)
  PROVE  /\ answers' \in [Frames -> Seq(Kinds)]
         /\ \A g \in Frames \ {f} : answers'[g] = answers[g]
         /\ conn # "closed" =>
              /\ Len(answers'[f]) = Len(answers[f]) + 1
              /\ answers'[f][Len(answers[f]) + 1] = kind
              /\ answers[f] = <<>> => Len(answers'[f]) = 1
<1>1. answers \in [Frames -> Seq(Kinds)]
  BY DEF TypeOK, Kinds
<1>2. answers[f] \in Seq(Kinds)
  BY <1>1
<1>3. /\ Append(answers[f], kind) \in Seq(Kinds)
      /\ Len(Append(answers[f], kind)) = Len(answers[f]) + 1
      /\ Append(answers[f], kind)[Len(answers[f]) + 1] = kind
  BY <1>2, AppendProperties
<1>4. answers[f] = <<>> => Len(answers[f]) = 0
  BY EmptySeq
<1> QED  BY <1>1, <1>3, <1>4 DEF Send

-----------------------------------------------------------------------------
LEMMA InitEstablishes == Init => IInv
<1> SUFFICES ASSUME Init PROVE IInv
  OBVIOUS
<1> USE WsSessionAssumption DEF Init
<1>1. TypeOK
  <2>1. <<>> \in Seq({"error", "busy", "challenge-required", "done"})
    BY EmptySeq
  <2>2. answers \in [Frames -> Seq({"error", "busy", "challenge-required", "done"})]
    BY <2>1
  <2>3. sinceChallenge \in 0..ChallengeEvery /\ credit \in Int
    OBVIOUS
  <2> QED  BY <2>2, <2>3 DEF TypeOK
<1>2. GuardTrue /\ NoneBeforeListening /\ ControllerIsCurrent
  BY DEF GuardTrue, NoneBeforeListening, ControllerIsCurrent, Busy, Awaits, InRunCommand
<1>3. CreditCounts
  BY DEF CreditCounts
<1>4. AnswersMatchPc
  BY DEF AnswersMatchPc
<1>5. TraceMatchesPc /\ TraceIsTrue
  BY DEF TraceMatchesPc, TraceIsTrue
<1> QED  BY <1>1, <1>2, <1>3, <1>4, <1>5 DEF IInv, Core

(* The steps of the connection itself touch no invocation. *)
Quiet == Opened \/ LookupFails \/ Close \/ ChallengeExpires

LEMMA QuietPreservesCore == Core /\ Quiet => Core'
<1> SUFFICES ASSUME Core, Quiet PROVE Core'
  OBVIOUS
<1> USE DEF Core, Quiet, Opened, LookupFails, Close, ChallengeExpires, gateVars
<1>1. TypeOK'
  <2>1. activeAbort \in Frames \cup {NoFrame} /\ signal \subseteq Frames
    BY DEF TypeOK
  <2>2. signal' \subseteq Frames
    BY <2>1
  <2> QED  BY <2>2 DEF TypeOK
<1>2. GuardTrue'
  BY DEF GuardTrue, Busy
<1>3. CreditCounts'
  BY DEF CreditCounts, TypeOK
<1> QED  BY <1>1, <1>2, <1>3

LEMMA QuietPreserves == IInv /\ Quiet => IInv'
<1> SUFFICES ASSUME IInv, Quiet PROVE IInv'
  OBVIOUS
<1> USE DEF IInv, Quiet, Opened, LookupFails, Close, ChallengeExpires, gateVars
<1>1. Core'
  BY QuietPreservesCore
<1>2. NoneBeforeListening' /\ ControllerIsCurrent'
  BY DEF NoneBeforeListening, ControllerIsCurrent
<1>3. AnswersMatchPc'
  BY DEF AnswersMatchPc
<1>4. TraceMatchesPc' /\ TraceIsTrue'
  BY DEF TraceMatchesPc, TraceIsTrue
<1> QED  BY <1>1, <1>2, <1>3, <1>4

-----------------------------------------------------------------------------
(* The end of the process takes every invocation with it. *)

LEMMA NoneSurvives ==
  ASSUME TypeOK, NEW f \in Frames, FrameNull(f)
  PROVE  /\ pc' \in [Frames -> {"unsent", "lost", "finished"}]
         /\ \A g \in Frames : pc'[g] = pc[g] \/ pc'[g] = "lost"
         /\ \A g \in Frames : pc[g] = "finished" => pc'[g] = "finished"
<1>1. /\ pc' = [g \in Frames |-> IF g = f \/ Busy(g) THEN "lost" ELSE pc[g]]
      /\ pc[f] = "unsent"
  BY DEF FrameNull
<1>2. \A g \in Frames : ~Busy(g) => pc[g] \in {"unsent", "lost", "finished"}
  BY DEF TypeOK, Busy
<1> QED  BY <1>1, <1>2 DEF Busy, Awaits

LEMMA NullPreservesCore == Core /\ (\E f \in Frames : FrameNull(f)) => Core'
<1> SUFFICES ASSUME Core, NEW f \in Frames, FrameNull(f) PROVE Core'
  OBVIOUS
<1> USE DEF Core, gateVars
<1>1. pc' \in [Frames -> {"unsent", "lost", "finished"}]
  BY NoneSurvives
<1>2. TypeOK'
  BY <1>1 DEF TypeOK, FrameNull
<1>3. GuardTrue'
  BY <1>1 DEF GuardTrue, FrameNull, Busy, Awaits
<1>4. CreditCounts'
  BY <1>1 DEF CreditCounts, FrameNull
<1> QED  BY <1>2, <1>3, <1>4

LEMMA NullPreserves == IInv /\ (\E f \in Frames : FrameNull(f)) => IInv'
<1> SUFFICES ASSUME IInv, NEW f \in Frames, FrameNull(f) PROVE IInv'
  OBVIOUS
<1> USE WsSessionAssumption DEF IInv
<1>1. Core'
  BY NullPreservesCore
<1>2. /\ pc' \in [Frames -> {"unsent", "lost", "finished"}]
      /\ \A g \in Frames : pc'[g] = pc[g] \/ pc'[g] = "lost"
      /\ \A g \in Frames : pc[g] = "finished" => pc'[g] = "finished"
  BY NoneSurvives DEF Core
<1>3. NoneBeforeListening' /\ ControllerIsCurrent' /\ AnswersMatchPc'
  BY <1>2 DEF NoneBeforeListening, ControllerIsCurrent, AnswersMatchPc, InRunCommand, FrameNull
<1>4. UNCHANGED <<ran, audit, logged>> /\ ran \subseteq Frames
  BY DEF FrameNull, Core, TypeOK
<1>5. TraceMatchesPc' /\ TraceIsTrue'
  BY <1>2, <1>4 DEF TraceMatchesPc, TraceIsTrue
<1> QED  BY <1>1, <1>3, <1>5

-----------------------------------------------------------------------------
(* The steps of an invocation, conjunct by conjunct *)

LEMMA FrameTyped == Core /\ (\E f \in Frames : Frame(f)) => TypeOK'
<1> SUFFICES ASSUME Core, NEW f \in Frames, Frame(f) PROVE TypeOK'
  OBVIOUS
<1> USE WsSessionAssumption DEF Core, TypeOK, gateVars, Awaits
<1>1. CASE FrameLost(f)
  BY <1>1 DEF FrameLost
<1>2. CASE FrameMalformed(f)
  <2>1. answers' \in [Frames -> Seq(Kinds)]
    BY <1>2, SendLemma DEF FrameMalformed, Kinds
  <2> QED  BY <1>2, <2>1 DEF FrameMalformed, Kinds
<1>3. CASE FrameBusy(f)
  <2>1. answers' \in [Frames -> Seq(Kinds)]
    BY <1>3, SendLemma DEF FrameBusy, Kinds
  <2> QED  BY <1>3, <2>1 DEF FrameBusy, Kinds
<1>4. CASE FrameAccepted(f)
  BY <1>4 DEF FrameAccepted
<1> QED  BY <1>1, <1>2, <1>3, <1>4 DEF Frame

LEMMA AnsweredTyped == Core /\ (\E f \in Frames : Answered(f)) => TypeOK'
<1> SUFFICES ASSUME Core, NEW f \in Frames, Answered(f) PROVE TypeOK'
  OBVIOUS
<1> USE WsSessionAssumption DEF Core, TypeOK, gateVars, Goto, Finish
<1>0. answers' = answers \/ answers' \in [Frames -> Seq(Kinds)]
  <2>1. ASSUME NEW kind \in Kinds, Send(f, kind) PROVE answers' \in [Frames -> Seq(Kinds)]
    BY <2>1, SendLemma
  <2> QED  BY <2>1 DEF Kinds, Answered, ChallengePassed, ChallengeFailed, RateLimited, Invalid,
               CommandStarts, SandboxAcquired, PoolExhausted, CommandDone, Audited, AwaitThrows, Throw
<1>1. answers' \in [Frames -> Seq({"error", "busy", "challenge-required", "done"})]
  BY <1>0 DEF Kinds
<1>2. pc' \in [Frames -> {"unsent", "lost", "finished"} \cup Awaits] /\ running' \in BOOLEAN
  BY DEF Awaits, Answered, ChallengePassed, ChallengeFailed, RateLimited, Invalid, CommandStarts,
         SandboxAcquired, PoolExhausted, CommandDone, Audited, AwaitThrows, Throw
<1>3. fresh' \in BOOLEAN /\ sinceChallenge' \in 0..ChallengeEvery /\ credit' \in Int
  <2>1. CASE CommandStarts(f)
    BY <2>1 DEF CommandStarts, CreditCounts
  <2>2. CASE ChallengePassed(f)
    BY <2>2 DEF ChallengePassed
  <2> QED  BY <2>1, <2>2 DEF Answered, ChallengeFailed, RateLimited, Invalid,
               SandboxAcquired, PoolExhausted, CommandDone, Audited, AwaitThrows
<1>4. activeAbort' \in Frames \cup {NoFrame} /\ ran' \subseteq Frames /\ logged' \subseteq Frames
  BY DEF Answered, ChallengePassed, ChallengeFailed, RateLimited, Invalid, CommandStarts,
         SandboxAcquired, PoolExhausted, CommandDone, Audited, AwaitThrows, Throw
<1>5. audit' \in [Frames -> {"none", "rejected", "executed"}]
  BY DEF Answered, ChallengePassed, ChallengeFailed, RateLimited, Invalid, CommandStarts,
         SandboxAcquired, PoolExhausted, CommandDone, Audited, AwaitThrows
<1>6. conn' = conn /\ signal' = signal
  BY DEF Answered, ChallengePassed, ChallengeFailed, RateLimited, Invalid, CommandStarts,
         SandboxAcquired, PoolExhausted, CommandDone, Audited, AwaitThrows
<1> QED  BY <1>1, <1>2, <1>3, <1>4, <1>5, <1>6

(* What any step of an invocation does to where it is: it goes from one      *)
(* await to another, or it finishes and brings the guard down.               *)
LEMMA AnsweredMoves ==
  ASSUME TypeOK, NEW f \in Frames, Answered(f)
  PROVE  /\ Busy(f)
         /\ conn' = conn
         /\ \E label \in Awaits \cup {"finished"} :
              /\ pc' = [pc EXCEPT ![f] = label]
              /\ IF label = "finished" THEN running' = FALSE ELSE running' = running
<1> USE DEF Goto, Finish, Busy, Awaits
<1>1. CASE ChallengePassed(f) \/ ChallengeFailed(f) \/ RateLimited(f) \/ Invalid(f)
  BY <1>1 DEF ChallengePassed, ChallengeFailed, RateLimited, Invalid
<1>2. CASE CommandStarts(f) \/ SandboxAcquired(f) \/ PoolExhausted(f) \/ CommandDone(f)
  BY <1>2 DEF CommandStarts, SandboxAcquired, PoolExhausted, CommandDone
<1>3. CASE Audited(f) \/ AwaitThrows(f)
  BY <1>3 DEF Audited, AwaitThrows, Throw
<1> QED  BY <1>1, <1>2, <1>3 DEF Answered

LEMMA GuardPreserved == Core /\ (\E f \in Frames : Frame(f) \/ Answered(f)) => GuardTrue'
<1> SUFFICES ASSUME Core, NEW f \in Frames, Frame(f) \/ Answered(f) PROVE GuardTrue'
  OBVIOUS
<1> USE DEF Core, GuardTrue, Busy
<1>0. pc \in [Frames -> {"unsent", "lost", "finished"} \cup Awaits] /\ running \in BOOLEAN
  BY DEF TypeOK
<1>1. CASE Answered(f)
  <2>1. PICK label \in Awaits \cup {"finished"} :
          /\ pc' = [pc EXCEPT ![f] = label]
          /\ IF label = "finished" THEN running' = FALSE ELSE running' = running
    BY <1>1, AnsweredMoves
  <2>2. Busy(f)
    BY <1>1, AnsweredMoves
  <2> QED  BY <1>0, <2>1, <2>2 DEF Awaits
<1>2. CASE FrameLost(f) \/ FrameMalformed(f) \/ FrameBusy(f)
  BY <1>0, <1>2 DEF FrameLost, FrameMalformed, FrameBusy, Awaits
<1>3. CASE FrameAccepted(f)
  BY <1>0, <1>3 DEF FrameAccepted, Awaits
<1> QED  BY <1>1, <1>2, <1>3 DEF Frame

LEMMA ListeningPreserved ==
  IInv /\ (\E f \in Frames : Frame(f) \/ Answered(f)) => NoneBeforeListening'
<1> SUFFICES ASSUME IInv, NEW f \in Frames, Frame(f) \/ Answered(f) PROVE NoneBeforeListening'
  OBVIOUS
<1> USE DEF IInv, Core, NoneBeforeListening, TypeOK
<1>1. CASE Answered(f)
  <2>1. Busy(f) /\ conn' = conn
    BY <1>1, AnsweredMoves
  <2> QED  BY <2>1 DEF Busy, Awaits
<1>2. CASE Frame(f)
  BY <1>2 DEF Frame, FrameLost, FrameMalformed, FrameBusy, FrameAccepted
<1> QED  BY <1>1, <1>2

LEMMA ControllerPreserved ==
  IInv /\ (\E f \in Frames : Frame(f) \/ Answered(f)) => ControllerIsCurrent'
<1> SUFFICES ASSUME IInv, NEW f \in Frames, Frame(f) \/ Answered(f) PROVE ControllerIsCurrent'
  OBVIOUS
<1> USE WsSessionAssumption DEF IInv, Core, ControllerIsCurrent, InRunCommand, Goto, Finish
<1>0. /\ pc \in [Frames -> {"unsent", "lost", "finished"} \cup Awaits]
      /\ activeAbort \in Frames \cup {NoFrame}
      /\ \A g \in Frames : Busy(f) /\ Busy(g) => f = g
  BY DEF TypeOK, GuardTrue
<1>1. CASE Frame(f)
  BY <1>0, <1>1 DEF Frame, FrameLost, FrameMalformed, FrameBusy, FrameAccepted
<1>2. CASE ChallengePassed(f) \/ ChallengeFailed(f) \/ RateLimited(f) \/ Invalid(f) \/ Audited(f)
  BY <1>0, <1>2 DEF ChallengePassed, ChallengeFailed, RateLimited, Invalid, Audited
<1>3. CASE CommandStarts(f)
  BY <1>0, <1>3 DEF CommandStarts, Busy, Awaits
<1>4. CASE SandboxAcquired(f) \/ PoolExhausted(f) \/ CommandDone(f)
  BY <1>0, <1>4 DEF SandboxAcquired, PoolExhausted, CommandDone
<1>5. CASE AwaitThrows(f)
  BY <1>0, <1>5 DEF AwaitThrows, Throw
<1> QED  BY <1>1, <1>2, <1>3, <1>4, <1>5 DEF Answered

(* A command that starts takes one of the credit that its own passage of     *)
(* ensureChallenge has shown to be there; no other is past it meanwhile.     *)
LEMMA CreditPreserved ==
  Core /\ (\E f \in Frames : Frame(f) \/ Answered(f)) => CreditCounts'
<1> SUFFICES ASSUME Core, NEW f \in Frames, Frame(f) \/ Answered(f) PROVE CreditCounts'
  OBVIOUS
<1> USE WsSessionAssumption DEF Core, CreditCounts, Goto, Finish, gateVars
<1>0. /\ pc \in [Frames -> {"unsent", "lost", "finished"} \cup Awaits]
      /\ credit \in Int /\ sinceChallenge \in 0..ChallengeEvery /\ fresh \in BOOLEAN
      /\ \A g \in Frames : Busy(f) /\ Busy(g) => f = g
  BY DEF TypeOK, GuardTrue
<1>1. CASE FrameLost(f) \/ FrameMalformed(f) \/ FrameBusy(f)
  BY <1>0, <1>1 DEF FrameLost, FrameMalformed, FrameBusy
<1>2. CASE FrameAccepted(f)
  BY <1>0, <1>2 DEF FrameAccepted, Stale
<1>3. CASE ChallengePassed(f)
  BY <1>0, <1>3 DEF ChallengePassed
<1>4. CASE CommandStarts(f)
  <2>1. \A g \in Frames : pc'[g] # "rateLimit"
    BY <1>0, <1>4 DEF CommandStarts, Busy, Awaits
  <2> QED  BY <1>0, <1>4, <2>1 DEF CommandStarts
<1>5. CASE ChallengeFailed(f) \/ RateLimited(f) \/ Invalid(f) \/ SandboxAcquired(f)
           \/ PoolExhausted(f) \/ CommandDone(f) \/ Audited(f) \/ AwaitThrows(f)
  BY <1>0, <1>5 DEF ChallengeFailed, RateLimited, Invalid, SandboxAcquired, PoolExhausted,
                    CommandDone, Audited, AwaitThrows, Throw
<1> QED  BY <1>1, <1>2, <1>3, <1>4, <1>5 DEF Frame, Answered

LEMMA AnswersPreserved ==
  IInv /\ (\E f \in Frames : Frame(f) \/ Answered(f)) => AnswersMatchPc'
<1> SUFFICES ASSUME IInv, NEW f \in Frames, Frame(f) \/ Answered(f), conn # "closed",
                    NEW g \in Frames
             PROVE  (/\ pc[g] \in {"unsent", "lost", "challenge", "rateLimit", "acquire", "sandbox"}
                          => answers[g] = <<>>
                     /\ pc[g] \in {"auditInvalid", "auditRefused", "auditDone"} => Len(answers[g]) = 1
                     /\ pc[g] = "finished" =>
                          \/ Len(answers[g]) = 1
                          \/ Len(answers[g]) = 2 /\ answers[g][2] = "error" /\ g \in logged)'
  <2>1. ASSUME IInv, NEW f \in Frames, Frame(f) \/ Answered(f) PROVE conn' = conn
    <3>1. CASE Answered(f)
      BY <2>1, <3>1, AnsweredMoves DEF IInv, Core
    <3>2. CASE Frame(f)
      BY <3>2 DEF Frame, FrameLost, FrameMalformed, FrameBusy, FrameAccepted
    <3> QED  BY <2>1, <3>1, <3>2
  <2> QED  BY <2>1 DEF AnswersMatchPc
<1> USE DEF IInv, Core, AnswersMatchPc, Goto, Finish
<1>0. pc \in [Frames -> {"unsent", "lost", "finished"} \cup Awaits]
  BY DEF TypeOK
<1>1. ASSUME NEW kind \in Kinds, Send(f, kind)
      PROVE  /\ g # f => answers'[g] = answers[g]
             /\ Len(answers'[f]) = Len(answers[f]) + 1
             /\ answers'[f][Len(answers[f]) + 1] = kind
             /\ answers[f] = <<>> => Len(answers'[f]) = 1
  BY <1>1, SendLemma
<1>2. CASE FrameLost(f) \/ FrameAccepted(f) \/ ChallengePassed(f) \/ CommandStarts(f)
           \/ SandboxAcquired(f)
  BY <1>0, <1>2 DEF FrameLost, FrameAccepted, ChallengePassed, CommandStarts, SandboxAcquired
<1>3. CASE FrameMalformed(f) \/ RateLimited(f) \/ Invalid(f) \/ PoolExhausted(f)
  <2>1. Send(f, "error") /\ "error" \in Kinds /\ logged' = logged
    BY <1>3 DEF FrameMalformed, RateLimited, Invalid, PoolExhausted, Kinds
  <2> QED  BY <1>0, <1>1, <1>3, <2>1 DEF FrameMalformed, RateLimited, Invalid, PoolExhausted
<1>4. CASE FrameBusy(f)
  <2>1. Send(f, "busy") /\ "busy" \in Kinds
    BY <1>4 DEF FrameBusy, Kinds
  <2> QED  BY <1>0, <1>1, <1>4, <2>1 DEF FrameBusy
<1>5. CASE ChallengeFailed(f)
  <2>1. Send(f, "challenge-required") /\ "challenge-required" \in Kinds
    BY <1>5 DEF ChallengeFailed, Kinds
  <2> QED  BY <1>0, <1>1, <1>5, <2>1 DEF ChallengeFailed
<1>6. CASE CommandDone(f)
  <2>1. Send(f, "done") /\ "done" \in Kinds
    BY <1>6 DEF CommandDone, Kinds
  <2> QED  BY <1>0, <1>1, <1>6, <2>1 DEF CommandDone
<1>7. CASE Audited(f)
  BY <1>0, <1>7 DEF Audited
<1>8. CASE AwaitThrows(f)
  <2>1. Send(f, "error") /\ "error" \in Kinds
    BY <1>8 DEF AwaitThrows, Throw, Kinds
  <2>2. pc' = [pc EXCEPT ![f] = "finished"] /\ logged' = logged \cup {f} /\ pc[f] \in Awaits
    BY <1>8 DEF AwaitThrows, Throw, Busy
  <2>3. CASE pc[f] \in {"challenge", "rateLimit", "acquire", "sandbox"}
    BY <1>0, <1>1, <2>1, <2>2, <2>3
  <2>4. CASE pc[f] \in {"auditInvalid", "auditRefused", "auditDone"}
    <3>1. Len(answers[f]) = 1
      BY <2>4
    <3> QED  BY <1>0, <1>1, <2>1, <2>2, <3>1
  <2> QED  BY <2>2, <2>3, <2>4 DEF Awaits
<1> QED  BY <1>2, <1>3, <1>4, <1>5, <1>6, <1>7, <1>8 DEF Frame, Answered

LEMMA TracePreserved ==
  IInv /\ (\E f \in Frames : Frame(f) \/ Answered(f)) => (TraceMatchesPc /\ TraceIsTrue)'
<1> SUFFICES ASSUME IInv, NEW f \in Frames, Frame(f) \/ Answered(f)
             PROVE  (TraceMatchesPc /\ TraceIsTrue)'
  OBVIOUS
<1> USE DEF IInv, Core, TraceMatchesPc, TraceIsTrue, Goto, Finish
<1>0. /\ pc \in [Frames -> {"unsent", "lost", "finished"} \cup Awaits]
      /\ audit \in [Frames -> {"none", "rejected", "executed"}]
      /\ ran \subseteq Frames
  BY DEF TypeOK
<1>1. CASE Frame(f)
  BY <1>0, <1>1 DEF Frame, FrameLost, FrameMalformed, FrameBusy, FrameAccepted, Awaits
<1>2. CASE ChallengePassed(f) \/ ChallengeFailed(f) \/ RateLimited(f) \/ Invalid(f)
  BY <1>0, <1>2 DEF ChallengePassed, ChallengeFailed, RateLimited, Invalid
<1>3. CASE CommandStarts(f) \/ SandboxAcquired(f) \/ PoolExhausted(f) \/ CommandDone(f)
  BY <1>0, <1>3 DEF CommandStarts, SandboxAcquired, PoolExhausted, CommandDone
<1>4. CASE Audited(f)
  BY <1>0, <1>4 DEF Audited
<1>5. CASE AwaitThrows(f)
  BY <1>0, <1>5 DEF AwaitThrows, Throw, Busy, Awaits
<1> QED  BY <1>1, <1>2, <1>3, <1>4, <1>5 DEF Answered

-----------------------------------------------------------------------------
LEMMA CorePreserved == Core /\ [Next]_vars => Core'
<1>1. ASSUME Core, UNCHANGED vars PROVE Core'
  BY <1>1 DEF vars, gateVars, Core, TypeOK, GuardTrue, CreditCounts, Busy
<1>2. ASSUME Core, \E f \in Frames : Frame(f) \/ Answered(f) PROVE Core'
  BY <1>2, FrameTyped, AnsweredTyped, GuardPreserved, CreditPreserved DEF Core
<1> QED  BY <1>1, <1>2, NullPreservesCore, QuietPreservesCore DEF Next, Quiet

LEMMA NextPreserves == IInv /\ [Next]_vars => IInv'
<1>1. ASSUME IInv, UNCHANGED vars PROVE IInv'
  <2>1. Core'
    BY <1>1, CorePreserved DEF IInv
  <2> QED  BY <1>1, <2>1 DEF vars, gateVars, IInv, NoneBeforeListening, ControllerIsCurrent,
              AnswersMatchPc, TraceMatchesPc, TraceIsTrue
<1>2. ASSUME IInv, \E f \in Frames : Frame(f) \/ Answered(f) PROVE IInv'
  <2>1. Core'
    BY <1>2, CorePreserved DEF IInv, Next
  <2> QED  BY <1>2, <2>1, ListeningPreserved, ControllerPreserved, AnswersPreserved, TracePreserved
           DEF IInv
<1> QED  BY <1>1, <1>2, NullPreserves, QuietPreserves DEF Next, Quiet

(* The strengthened invariant holds in every reachable state. *)
THEOREM SessionInvariant == Spec => []IInv
  BY InitEstablishes, NextPreserves, PTL DEF Spec

(* Two commands of a connection never overlap, and the guard is neither      *)
(* passed nor left up, however the frames and the failures interleave.       *)
THEOREM AlwaysOneAtATime == Spec => []OneAtATime
<1>1. IInv => OneAtATime
  <2> SUFFICES ASSUME IInv PROVE OneAtATime
    OBVIOUS
  <2>1. \A f, g \in Frames : Busy(f) /\ Busy(g) => f = g
    BY DEF IInv, Core, GuardTrue
  <2>2. CASE {f \in Frames : Busy(f)} = {}
    BY <2>2, FS_EmptySet DEF OneAtATime, IInv, Core, GuardTrue
  <2>3. ASSUME NEW f \in Frames, Busy(f) PROVE OneAtATime
    <3>1. {g \in Frames : Busy(g)} = {f}
      BY <2>1, <2>3
    <3>2. Cardinality({f}) = 1
      BY FS_Singleton
    <3> QED  BY <3>1, <3>2 DEF OneAtATime, IInv, Core, GuardTrue
  <2> QED  BY <2>2, <2>3
<1> QED  BY <1>1, SessionInvariant, PTL

(* A close always reaches the controller of the command inside runCommand,   *)
(* and never one of another.                                                 *)
THEOREM ControllerAlwaysCurrent == Spec => []ControllerIsCurrent
<1>1. IInv => ControllerIsCurrent
  BY DEF IInv, Core
<1> QED  BY <1>1, SessionInvariant, PTL

(* However many frames come between the check of ensureChallenge and the     *)
(* count, a passed challenge covers no more than ChallengeEvery commands.    *)
THEOREM ChallengeBudgetKept == Spec => []ChallengeBudget
<1>1. IInv => ChallengeBudget
  BY DEF IInv, Core, CreditCounts, ChallengeBudget
<1> QED  BY <1>1, SessionInvariant, PTL

(* A frame is answered once, or twice with the failure in the log, and the   *)
(* one that ends the process leaves no open socket behind.                   *)
THEOREM AlwaysAnsweredOnce == Spec => []AnsweredOnce
<1>1. IInv => AnsweredOnce
  BY DEF IInv, Core, AnswersMatchPc, AnsweredOnce
<1> QED  BY <1>1, SessionInvariant, PTL

(* Every command that had a sandbox leaves a trace, unless the process ends  *)
(* under it, and no other is recorded as executed, whichever service fails.  *)
THEOREM TraceAlwaysTrue == Spec => []TraceIsTrue
<1>1. IInv => TraceIsTrue
  BY DEF IInv, Core
<1> QED  BY <1>1, SessionInvariant, PTL
=============================================================================
