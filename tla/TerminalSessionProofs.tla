------------------------- MODULE TerminalSessionProofs -------------------------
(***************************************************************************)
(* Proofs about TerminalSession for any number of frames, sockets, tokens, *)
(* key changes and commands to a challenge, and every fault of the gateway. *)
(* What the gateway does on a socket is taken from WsSessionProofs.        *)
(***************************************************************************)
EXTENDS TerminalSession, WsSessionProofs

-----------------------------------------------------------------------------
(* The inductive invariant *)

(* TerminalTypeOK but for the gateway's part, in pieces.                     *)
SocketTyped ==
  /\ ws \in {"connecting", "open", "closed"}
  /\ storedKey \in 0..KeyChanges /\ socketKey \in 0..storedKey
  /\ sockets \in 1..Sockets

StatusTyped ==
  /\ status \in {"connecting", "open", "running", "closed"}
  /\ seenStatus \in {"connecting", "open", "running", "closed"}
  /\ script \in {"loading", "loaded", "failed"}

FlagsTyped == locked \in BOOLEAN /\ executing \in BOOLEAN /\ unlockedEarly \in BOOLEAN

TokensTyped ==
  /\ issued \in 0..Tokens /\ cachedToken \in 0..issued
  /\ token \in [Frames -> 0..issued]
  /\ refused \subseteq 0..issued

Answer == [frame : Frames, kind : Kinds]

QueuesTyped ==
  /\ inFlight \subseteq Frames
  /\ wire \in Seq(inFlight)
  /\ \A i, j \in 1..Len(wire) : wire[i] = wire[j] => i = j
  /\ inbox \in Seq(Answer)

WaitingTyped == waiting \in 0..Cardinality(Unsent)

(* Where a frame is: on the wire it has not been handled; being handled and  *)
(* unanswered, it is in flight; what is in the inbox answers it, and if it   *)
(* is no longer in flight, or there twice, then it was answered twice.       *)
WireUnhandled == \A i \in 1..Len(wire) : pc[wire[i]] = "unsent"

UnsentUnanswered == \A f \in Frames : pc[f] = "unsent" => answers[f] = <<>>

BusyInFlight == \A f \in Frames : Busy(f) /\ answers[f] = <<>> => f \in inFlight

InboxTrue ==
  /\ \A i \in 1..Len(inbox) :
       /\ pc[inbox[i].frame] # "unsent"
       /\ answers[inbox[i].frame] # <<>>
       /\ inbox[i].frame \in inFlight \/ inbox[i].frame \in AnsweredTwice
  /\ \A i, j \in 1..Len(inbox) :
       inbox[i].frame = inbox[j].frame => i = j \/ inbox[i].frame \in AnsweredTwice

QueuesTrue == WireUnhandled /\ UnsentUnanswered /\ BusyInFlight /\ InboxTrue

(* One submission at most awaits its token, behind a locked input and with   *)
(* nothing in flight, while the lock has not been lost.                      *)
WaitingLocks ==
  waiting > 0 /\ ~unlockedEarly =>
    /\ locked /\ waiting = 1
    /\ ws = "open" /\ AnsweredTwice = {} => inFlight = {}

QuietUntilOpen == ws = "connecting" => inFlight = {}

LockInv == RunningIsTrue /\ LockHolds /\ WaitingLocks /\ QuietUntilOpen

(* What getToken() may answer from its cache has not been refused: a token   *)
(* comes from a loaded widget, whose refresh() drops the refused one.        *)
NeverRefusedCached ==
  /\ script # "loaded" => ~executing /\ cachedToken = NullToken
  /\ NullToken \notin refused /\ cachedToken \notin refused

TypesInv ==
  Core /\ SocketTyped /\ StatusTyped /\ FlagsTyped /\ TokensTyped /\ QueuesTyped /\ WaitingTyped

TInv == TypesInv /\ QueuesTrue /\ LockInv /\ NeverRefusedCached

-----------------------------------------------------------------------------
(* The frames that are still to be sent *)

LEMMA UnsentFinite == IsFiniteSet(Unsent) /\ Cardinality(Unsent) \in Nat
<1>1. Unsent \in SUBSET Frames
  BY DEF Unsent
<1> QED  BY <1>1, TerminalSessionAssumption, FS_Subset, FS_CardinalityType

LEMMA UnsentFinitePrimed == (IsFiniteSet(Unsent) /\ Cardinality(Unsent) \in Nat)'
  BY UnsentFinite, PTL

(* Any number of them up to all can be sent in a row, each once.             *)
LEMMA SomeToSend ==
  ASSUME NEW n \in 0..Cardinality(Unsent)
  PROVE  \E s \in [1..n -> Unsent] : IsInjective(s)
<1>1. PICK b : b \in Bijection(1..Cardinality(Unsent), Unsent)
  BY UnsentFinite, FS_CardinalityType DEF ExistsBijection
<1>2. /\ b \in [1..Cardinality(Unsent) -> Unsent]
      /\ \A i, j \in 1..Cardinality(Unsent) : b[i] = b[j] => i = j
  BY <1>1 DEF Bijection, Injection, IsInjective
<1> DEFINE s == [i \in 1..n |-> b[i]]
<1>3. 1..n \subseteq 1..Cardinality(Unsent)
  BY UnsentFinite
<1>4. s \in [1..n -> Unsent]
  BY <1>2, <1>3
<1>5. IsInjective(s)
  BY <1>2, <1>3, <1>4 DEF IsInjective
<1> QED  BY <1>4, <1>5

(* What n submissions do, when they are sent.                                *)
Sends(sent, n, tok, held) ==
  /\ Len(sent) = n /\ Range(sent) \subseteq Unsent /\ sent[1] \in Range(sent)
  /\ Range(sent) = {sent[i] : i \in 1..n}
  /\ status' = "running" /\ locked' = held
  /\ wire' \in Seq(inFlight')
  /\ \A i, j \in 1..Len(wire') : wire'[i] = wire'[j] => i = j
  /\ \A i \in 1..Len(wire') :
       \/ \E j \in 1..Len(wire) : wire'[i] = wire[j]
       \/ wire'[i] \in Range(sent)
  /\ Range(wire) \cup Range(sent) \subseteq Range(wire')
  /\ inFlight' = inFlight \cup Range(sent)
  /\ token' = [f \in Frames |-> IF f \in Range(sent) THEN tok ELSE token[f]]

LEMMA SubmitLemma ==
  ASSUME QueuesTyped, NEW n \in 1..Cardinality(Unsent), ws = "open",
         NEW tok, NEW held, Submit(n, tok, held)
  PROVE  \E sent \in Seq(Unsent) : Sends(sent, n, tok, held)
<1> DEFINE sent == CHOOSE s \in [1..n -> Unsent] : IsInjective(s)
<1>1. n \in Nat /\ n > 0 /\ n \in 0..Cardinality(Unsent)
  BY UnsentFinite
<1>2. sent \in [1..n -> Unsent] /\ IsInjective(sent)
  BY <1>1, SomeToSend, Zenon
<1>3. /\ status' = "running" /\ locked' = held
      /\ wire' = wire \o sent
      /\ inFlight' = inFlight \cup Range(sent)
      /\ token' = [f \in Frames |-> IF f \in Range(sent) THEN tok ELSE token[f]]
  BY <1>1 DEF Submit
<1> HIDE DEF sent
<1>4. /\ sent \in Seq(Unsent) /\ Len(sent) = n
      /\ \A i, j \in 1..n : sent[i] = sent[j] => i = j
  BY <1>1, <1>2 DEF IsInjective
<1>5. /\ Range(sent) = {sent[i] : i \in 1..n}
      /\ Range(sent) \subseteq Unsent
      /\ sent[1] \in Range(sent)
  BY <1>1, <1>4, RangeEquality, RangeOfSeq
<1>6. inFlight \cap Unsent = {}
  BY DEF Unsent
<1>7. wire \in Seq(inFlight \cup Range(sent)) /\ sent \in Seq(inFlight \cup Range(sent))
  <2>1. wire \in Seq(inFlight) /\ sent \in Seq(Range(sent))
    BY <1>4, SeqOfRange DEF QueuesTyped
  <2> QED  BY <2>1, SeqMonotonic
<1>8. /\ wire \o sent \in Seq(inFlight \cup Range(sent))
      /\ Len(wire \o sent) = Len(wire) + n
      /\ \A i \in 1..Len(wire) + n :
           (wire \o sent)[i] = IF i <= Len(wire) THEN wire[i] ELSE sent[i - Len(wire)]
  BY <1>4, <1>7, ConcatProperties, SMTT(30)
<1>9. Len(wire) \in Nat /\ \A i \in 1..Len(wire) : wire[i] \in inFlight
  BY LenProperties, ElementOfSeq DEF QueuesTyped
<1>10. \A i, j \in 1..Len(wire') : wire'[i] = wire'[j] => i = j
  BY <1>1, <1>3, <1>4, <1>5, <1>6, <1>8, <1>9 DEF QueuesTyped
<1>11. \A i \in 1..Len(wire') :
         \/ \E j \in 1..Len(wire) : wire'[i] = wire[j]
         \/ wire'[i] \in Range(sent)
  BY <1>1, <1>3, <1>5, <1>8, <1>9
<1>12. Range(wire) \cup Range(sent) \subseteq Range(wire')
  <2>1. Range(wire) = {wire[i] : i \in 1..Len(wire)}
    BY RangeEquality DEF QueuesTyped
  <2>2. Range(wire \o sent) = {(wire \o sent)[i] : i \in 1..Len(wire \o sent)}
    BY <1>8, RangeEquality
  <2>3. \A i \in 1..Len(wire) :
          i \in 1..Len(wire \o sent) /\ (wire \o sent)[i] = wire[i]
    BY <1>1, <1>8, <1>9
  <2>4. \A i \in 1..n :
          /\ Len(wire) + i \in 1..Len(wire \o sent)
          /\ (wire \o sent)[Len(wire) + i] = sent[i]
    BY <1>1, <1>8, <1>9
  <2> QED  BY <1>3, <1>5, <2>1, <2>2, <2>3, <2>4
<1> QED  BY <1>3, <1>4, <1>5, <1>8, <1>10, <1>11, <1>12 DEF Sends

-----------------------------------------------------------------------------
LEMMA TerminalInitEstablishes == TerminalInit => TInv
<1> SUFFICES ASSUME TerminalInit PROVE TInv
  OBVIOUS
<1> USE TerminalSessionAssumption DEF TerminalInit
<1>1. Core
  BY InitEstablishes DEF IInv
<1>2. SocketTyped /\ StatusTyped /\ FlagsTyped
  <2>1. SocketTyped
    BY DEF SocketTyped
  <2>2. StatusTyped /\ FlagsTyped
    BY Zenon DEF StatusTyped, FlagsTyped
  <2> QED  BY <2>1, <2>2
<1>3. TokensTyped
  BY DEF TokensTyped, NullToken
<1>4. QueuesTyped
  BY EmptySeq DEF QueuesTyped
<1>5. WaitingTyped
  BY UnsentFinite DEF WaitingTyped
<1>6. Len(wire) = 0 /\ Len(inbox) = 0
  BY EmptySeq
<1>7. \A f \in Frames : pc[f] = "unsent" /\ answers[f] = <<>>
  BY DEF Init
<1>8. QueuesTrue
  BY <1>6, <1>7
     DEF QueuesTrue, WireUnhandled, UnsentUnanswered, BusyInFlight, InboxTrue, Busy, Awaits
<1>9. LockInv
  BY DEF LockInv, RunningIsTrue, LockHolds, WaitingLocks, QuietUntilOpen
<1>10. NeverRefusedCached
  BY DEF NeverRefusedCached, NullToken
<1> QED  BY <1>1, <1>2, <1>3, <1>4, <1>5, <1>8, <1>9, <1>10 DEF TInv, TypesInv

-----------------------------------------------------------------------------
(* The gateway's end *)

(* What any turn of the gateway for a frame does to it.                      *)
LEMMA GateStep ==
  ASSUME Core, NEW f \in Frames, Frame(f) \/ Answered(f)
  PROVE  /\ \E label \in {"lost", "finished"} \cup Awaits : pc' = [pc EXCEPT ![f] = label]
         /\ \/ answers' = answers
            \/ \E kind \in Kinds : answers' = [answers EXCEPT ![f] = Append(answers[f], kind)]
         /\ Frame(f) => pc[f] = "unsent"
         /\ Answered(f) => Busy(f)
<1> USE DEF Kinds, Send
<1>1. CASE Answered(f)
  <2>1. /\ Busy(f)
        /\ \E label \in Awaits \cup {"finished"} : pc' = [pc EXCEPT ![f] = label]
    BY <1>1, AnsweredMoves DEF Core
  <2>2. \/ answers' = answers
        \/ \E kind \in Kinds : answers' = [answers EXCEPT ![f] = Append(answers[f], kind)]
    BY <1>1 DEF Answered, ChallengePassed, ChallengeFailed, RateLimited, Invalid, CommandStarts,
                SandboxAcquired, PoolExhausted, CommandDone, Audited, AwaitThrows, Throw
  <2>3. Frame(f) => pc[f] = "unsent"
    BY DEF Frame, FrameLost, FrameMalformed, FrameBusy, FrameAccepted
  <2> QED  BY <2>1, <2>2, <2>3, Zenon
<1>2. CASE Frame(f)
  <2>1. /\ pc[f] = "unsent"
        /\ \E label \in {"lost", "finished"} \cup Awaits : pc' = [pc EXCEPT ![f] = label]
    BY <1>2 DEF Frame, FrameLost, FrameMalformed, FrameBusy, FrameAccepted, Awaits
  <2>2. \/ answers' = answers
        \/ \E kind \in Kinds : answers' = [answers EXCEPT ![f] = Append(answers[f], kind)]
    BY <1>2 DEF Frame, FrameLost, FrameMalformed, FrameBusy, FrameAccepted
  <2>3. Answered(f) => Busy(f)
    BY AnsweredMoves DEF Core
  <2> QED  BY <2>1, <2>2, <2>3, Zenon
<1> QED  BY <1>1, <1>2

(* An answer makes the frame's answers longer and puts one into the inbox;   *)
(* no other frame is touched.                                                *)
LEMMA AnswersLemma ==
  ASSUME Core, QueuesTyped, NEW f \in Frames, Frame(f) \/ Answered(f), Answers(f)
  PROVE  /\ pc'[f] # "unsent"
         /\ \A g \in Frames \ {f} : pc'[g] = pc[g] /\ answers'[g] = answers[g]
         /\ AnsweredTwice \subseteq AnsweredTwice'
         /\ inbox' \in Seq(Answer)
         /\ \/ inbox' = inbox /\ answers' = answers
            \/ /\ answers'[f] # <<>>
               /\ answers[f] # <<>> => f \in AnsweredTwice'
               /\ Len(inbox') = Len(inbox) + 1
               /\ inbox'[Len(inbox) + 1].frame = f
               /\ \A i \in 1..Len(inbox) : inbox'[i] = inbox[i]
<1>1. /\ pc \in [Frames -> {"unsent", "lost", "finished"} \cup Awaits]
      /\ answers \in [Frames -> Seq(Kinds)]
  BY DEF Core, TypeOK, Kinds
<1>2. pc'[f] # "unsent" /\ \A g \in Frames \ {f} : pc'[g] = pc[g]
  BY <1>1, GateStep DEF Awaits
<1>3. CASE answers' = answers
  <2>1. inbox' = inbox /\ AnsweredTwice' = AnsweredTwice
    BY <1>3 DEF Answers, AnsweredTwice
  <2> QED  BY <1>2, <1>3, <2>1 DEF QueuesTyped
<1>4. ASSUME NEW kind \in Kinds, answers' = [answers EXCEPT ![f] = Append(answers[f], kind)]
      PROVE  /\ \A g \in Frames \ {f} : answers'[g] = answers[g]
             /\ AnsweredTwice \subseteq AnsweredTwice'
             /\ inbox' \in Seq(Answer)
             /\ answers'[f] # <<>>
             /\ answers[f] # <<>> => f \in AnsweredTwice'
             /\ Len(inbox') = Len(inbox) + 1
             /\ inbox'[Len(inbox) + 1].frame = f
             /\ \A i \in 1..Len(inbox) : inbox'[i] = inbox[i]
  <2>1. answers[f] \in Seq(Kinds) /\ answers'[f] = Append(answers[f], kind)
    BY <1>1, <1>4
  <2>2. /\ answers'[f] \in Seq(Kinds) /\ answers'[f] # <<>>
        /\ Len(answers'[f]) = Len(answers[f]) + 1
        /\ answers'[f][Len(answers[f]) + 1] = kind
    BY <2>1, AppendProperties
  <2>3. Len(answers[f]) \in Nat /\ (answers[f] # <<>> => Len(answers[f]) > 0)
    BY <2>1, EmptySeq, LenProperties
  <2>4. Last(answers'[f]) = kind /\ answers'[f] # answers[f]
    BY <2>2, <2>3 DEF Last
  <2>5. inbox' = Append(inbox, [frame |-> f, kind |-> kind])
    BY <2>4 DEF Answers
  <2>6. [frame |-> f, kind |-> kind] \in Answer /\ inbox \in Seq(Answer)
    BY DEF Answer, QueuesTyped
  <2>7. /\ inbox' \in Seq(Answer)
        /\ Len(inbox') = Len(inbox) + 1
        /\ \A i \in 1..Len(inbox) : inbox'[i] = inbox[i]
        /\ inbox'[Len(inbox) + 1] = [frame |-> f, kind |-> kind]
    BY <2>5, <2>6, AppendProperties
  <2>8. \A g \in Frames \ {f} : answers'[g] = answers[g]
    BY <1>1, <1>4
  <2>9. AnsweredTwice \subseteq AnsweredTwice' /\ (answers[f] # <<>> => f \in AnsweredTwice')
    BY <2>2, <2>3, <2>8 DEF AnsweredTwice
  <2> QED  BY <2>2, <2>7, <2>8, <2>9
<1>5. answers' = answers
      \/ \E kind \in Kinds : answers' = [answers EXCEPT ![f] = Append(answers[f], kind)]
  BY GateStep
<1> QED  BY <1>2, <1>3, <1>4, <1>5

LEMMA InboxFrames ==
  ASSUME QueuesTyped
  PROVE  Len(inbox) \in Nat /\ \A i \in 1..Len(inbox) : inbox[i].frame \in Frames
<1>1. inbox \in Seq(Answer)
  BY DEF QueuesTyped
<1>2. Len(inbox) \in Nat /\ \A i \in 1..Len(inbox) : inbox[i] \in Answer
  BY <1>1, LenProperties, ElementOfSeq
<1> QED  BY <1>2 DEF Answer

(* The gateway takes frames from the wire and answers them; this is all it   *)
(* can do to the browser.                                                    *)
LEMMA GateLemma ==
  ASSUME TInv, NEW f \in Frames, Frame(f) \/ Answered(f), Answers(f),
         f \in inFlight \/ answers[f] # <<>>,
         wire' \in Seq(inFlight),
         \A i, j \in 1..Len(wire') : wire'[i] = wire'[j] => i = j,
         \A i \in 1..Len(wire') : wire'[i] # f /\ \E j \in 1..Len(wire) : wire'[i] = wire[j]
  PROVE  TInv'
<1> USE DEF TInv, TypesInv
<1>1. /\ UNCHANGED <<socketVars, lockVars, widgetVars, token, inFlight, refused>>
      /\ Core'
  BY CorePreserved DEF Answers, Next
<1>2. /\ pc'[f] # "unsent"
      /\ \A g \in Frames \ {f} : pc'[g] = pc[g] /\ answers'[g] = answers[g]
      /\ AnsweredTwice \subseteq AnsweredTwice'
      /\ inbox' \in Seq(Answer)
  BY AnswersLemma
<1>3. \/ inbox' = inbox /\ answers' = answers
      \/ /\ answers'[f] # <<>>
         /\ answers[f] # <<>> => f \in AnsweredTwice'
         /\ Len(inbox') = Len(inbox) + 1
         /\ inbox'[Len(inbox) + 1].frame = f
         /\ \A i \in 1..Len(inbox) : inbox'[i] = inbox[i]
  BY AnswersLemma
<1>4. SocketTyped' /\ StatusTyped' /\ FlagsTyped' /\ TokensTyped' /\ NeverRefusedCached'
  BY <1>1 DEF socketVars, lockVars, widgetVars, SocketTyped, StatusTyped, FlagsTyped,
              TokensTyped, NeverRefusedCached
<1>5. QueuesTyped'
  BY <1>1, <1>2 DEF QueuesTyped
<1>6. WaitingTyped'
  <2>1. pc[f] = "unsent" => f \in inFlight
    BY DEF QueuesTrue, UnsentUnanswered
  <2>2. Unsent' = Unsent
    BY <1>1, <1>2, <2>1 DEF Unsent
  <2> QED  BY <1>1, <2>2 DEF WaitingTyped, widgetVars
<1>7. \A i \in 1..Len(wire) : wire[i] \in Frames
  BY ElementOfSeq DEF QueuesTyped
<1>8. Len(inbox) \in Nat /\ \A i \in 1..Len(inbox) : inbox[i].frame \in Frames
  BY InboxFrames
<1>9. WireUnhandled' /\ UnsentUnanswered'
  <2>1. WireUnhandled'
    BY <1>2, <1>7 DEF QueuesTrue, WireUnhandled
  <2>2. UnsentUnanswered'
    BY <1>2 DEF QueuesTrue, UnsentUnanswered
  <2> QED  BY <2>1, <2>2
<1>10. BusyInFlight'
  <2>1. ASSUME NEW g \in Frames, Busy(g)', answers'[g] = <<>> PROVE g \in inFlight
    <3>1. CASE g = f
      BY <1>3, <2>1, <3>1
    <3>2. CASE g # f
      BY <1>2, <2>1, <3>2 DEF QueuesTrue, BusyInFlight, Busy
    <3> QED  BY <3>1, <3>2
  <2> QED  BY <1>1, <2>1 DEF BusyInFlight
<1>11. InboxTrue'
  <2>1. \A i \in 1..Len(inbox) :
          /\ pc'[inbox[i].frame] # "unsent"
          /\ answers'[inbox[i].frame] # <<>>
          /\ inbox[i].frame \in inFlight \/ inbox[i].frame \in AnsweredTwice'
    BY <1>2, <1>3, <1>8 DEF QueuesTrue, InboxTrue
  <2>2. \A i, j \in 1..Len(inbox) :
          inbox[i].frame = inbox[j].frame => i = j \/ inbox[i].frame \in AnsweredTwice'
    BY <1>2 DEF QueuesTrue, InboxTrue
  <2>3. CASE inbox' = inbox
    BY <1>1, <2>1, <2>2, <2>3 DEF InboxTrue
  <2>4. CASE /\ answers'[f] # <<>>
             /\ answers[f] # <<>> => f \in AnsweredTwice'
             /\ Len(inbox') = Len(inbox) + 1
             /\ inbox'[Len(inbox) + 1].frame = f
             /\ \A i \in 1..Len(inbox) : inbox'[i] = inbox[i]
    <3>1. \A i \in 1..Len(inbox) : inbox[i].frame = f => f \in AnsweredTwice'
      BY <2>4 DEF QueuesTrue, InboxTrue
    <3>2. f \in inFlight \/ f \in AnsweredTwice'
      BY <2>4
    <3>3. \A i \in 1..Len(inbox') : i \in 1..Len(inbox) \/ i = Len(inbox) + 1
      BY <1>8, <2>4
    <3> QED  BY <1>1, <1>2, <2>1, <2>2, <2>4, <3>1, <3>2, <3>3, SMTT(30) DEF InboxTrue
  <2> QED  BY <1>3, <2>3, <2>4
<1>12. LockInv'
  BY <1>1, <1>2 DEF LockInv, RunningIsTrue, LockHolds, WaitingLocks, QuietUntilOpen,
                    socketVars, lockVars, widgetVars
<1> QED  BY <1>1, <1>4, <1>5, <1>6, <1>9, <1>10, <1>11, <1>12 DEF QueuesTrue

LEMMA GateReceivesPreserves == TInv /\ GateReceives => TInv'
<1> SUFFICES ASSUME TInv, GateReceives PROVE TInv'
  OBVIOUS
<1> USE DEF TInv, TypesInv, QueuesTyped
<1>1. PICK f : f = Head(wire) /\ Frame(f) /\ Answers(f) /\ wire' = Tail(wire)
  BY DEF GateReceives, Frame
<1>2. /\ Tail(wire) \in Seq(inFlight) /\ Len(Tail(wire)) = Len(wire) - 1
      /\ \A i \in 1..Len(Tail(wire)) : Tail(wire)[i] = wire[i + 1]
      /\ f \in inFlight /\ f = wire[1] /\ Len(wire) \in Nat
  BY <1>1, HeadTailProperties, LenProperties DEF GateReceives
<1>3. \A i \in 1..Len(wire') : wire'[i] # f /\ \E j \in 1..Len(wire) : wire'[i] = wire[j]
  <2> SUFFICES ASSUME NEW i \in 1..Len(wire')
               PROVE  wire'[i] # f /\ \E j \in 1..Len(wire) : wire'[i] = wire[j]
    OBVIOUS
  <2>1. i + 1 \in 1..Len(wire) /\ 1 \in 1..Len(wire) /\ i + 1 # 1 /\ wire'[i] = wire[i + 1]
    BY <1>1, <1>2
  <2> QED  BY <1>2, <2>1
<1>4. \A i, j \in 1..Len(wire') : wire'[i] = wire'[j] => i = j
  BY <1>1, <1>2
<1>5. wire' \in Seq(inFlight)
  BY <1>1, <1>2
<1> QED  BY <1>1, <1>2, <1>3, <1>4, <1>5, GateLemma

LEMMA GateAnswersPreserves == TInv /\ (\E f \in Frames : GateAnswers(f)) => TInv'
<1> SUFFICES ASSUME TInv, NEW f \in Frames, GateAnswers(f) PROVE TInv'
  OBVIOUS
<1> USE DEF TInv, TypesInv, QueuesTrue
<1>1. Answered(f) /\ Answers(f) /\ wire' = wire /\ Busy(f)
  BY AnsweredMoves DEF GateAnswers, Core
<1>2. f \in inFlight \/ answers[f] # <<>>
  BY <1>1 DEF BusyInFlight
<1>3. \A i \in 1..Len(wire') : wire'[i] # f
  BY <1>1 DEF WireUnhandled, Busy, Awaits
<1> QED  BY <1>1, <1>2, <1>3, GateLemma DEF QueuesTyped

LEMMA GateTurnPreserves == TInv /\ GateTurn => TInv'
<1> SUFFICES ASSUME TInv, GateTurn PROVE TInv'
  OBVIOUS
<1> USE DEF TInv, TypesInv, GateTurn, browserVars, socketVars, lockVars, widgetVars, frameVars
<1>1. Core'
  BY CorePreserved DEF Next
<1>2. pc' = pc /\ answers' = answers
  BY DEF Opened, LookupFails, ChallengeExpires
<1>3. SocketTyped' /\ StatusTyped' /\ FlagsTyped' /\ TokensTyped' /\ NeverRefusedCached'
  BY DEF SocketTyped, StatusTyped, FlagsTyped, TokensTyped, NeverRefusedCached
<1>4. QueuesTyped' /\ WaitingTyped'
  BY <1>2 DEF QueuesTyped, WaitingTyped, Unsent
<1>5. QueuesTrue'
  BY <1>2 DEF QueuesTrue, WireUnhandled, UnsentUnanswered, BusyInFlight, InboxTrue,
              AnsweredTwice, Busy
<1>6. LockInv'
  BY <1>2 DEF LockInv, RunningIsTrue, LockHolds, WaitingLocks, QuietUntilOpen, AnsweredTwice
<1> QED  BY <1>1, <1>3, <1>4, <1>5, <1>6

-----------------------------------------------------------------------------
(* The socket *)

(* A new socket starts with empty queues and nothing in flight, and takes    *)
(* none of the frames that are still to be sent.                             *)
LEMMA ConnectLemma ==
  ASSUME TInv, Connect
  PROVE  /\ Core' /\ QueuesTyped' /\ QueuesTrue'
         /\ Unsent' = Unsent
         /\ inFlight' = {} /\ ws' = "connecting" /\ status' = "connecting"
         /\ sockets' \in 1..Sockets
         /\ token' = [f \in Frames |-> NullToken] /\ refused' = refused
<1> USE WsSessionAssumption, TerminalSessionAssumption DEF Connect, TInv, TypesInv
<1>1. \A f \in Frames : pc'[f] \in {"unsent", "finished"}
  OBVIOUS
<1>2. TypeOK'
  <2>1. answers' \in [Frames -> Seq(Kinds)]
    BY EmptySeq
  <2>2. audit' \in [Frames -> {"none", "rejected", "executed"}]
    OBVIOUS
  <2>3. pc' \in [Frames -> {"unsent", "lost", "finished"} \cup Awaits]
    OBVIOUS
  <2>4. sinceChallenge' \in 0..ChallengeEvery /\ credit' \in Int
    OBVIOUS
  <2> QED  BY <2>1, <2>2, <2>3, <2>4 DEF TypeOK, Kinds
<1>3. GuardTrue'
  BY <1>1 DEF GuardTrue, Busy, Awaits
<1>4. CreditCounts'
  BY <1>1 DEF CreditCounts
<1>5. Len(wire') = 0 /\ Len(inbox') = 0 /\ inbox' \in Seq(Answer) /\ wire' \in Seq(inFlight')
  BY EmptySeq
<1>6. QueuesTyped'
  BY <1>5 DEF QueuesTyped
<1>7. QueuesTrue'
  BY <1>1, <1>5
     DEF QueuesTrue, WireUnhandled, UnsentUnanswered, BusyInFlight, InboxTrue, Busy, Awaits
<1>8. Unsent' = Unsent
  BY <1>1 DEF Unsent
<1>9. sockets' \in 1..Sockets
  BY DEF SocketTyped
<1> QED  BY <1>2, <1>3, <1>4, <1>6, <1>7, <1>8, <1>9 DEF Core

LEMMA ReconnectPreserves == TInv /\ Reconnect => TInv'
<1> SUFFICES ASSUME TInv, Reconnect PROVE TInv'
  OBVIOUS
<1> USE DEF TInv, TypesInv, Reconnect, widgetVars
<1>1. /\ Core' /\ QueuesTyped' /\ QueuesTrue'
      /\ Unsent' = Unsent
      /\ inFlight' = {} /\ ws' = "connecting" /\ status' = "connecting"
      /\ sockets' \in 1..Sockets
      /\ token' = [f \in Frames |-> NullToken] /\ refused' = refused
  BY ConnectLemma
<1>2. SocketTyped'
  BY <1>1 DEF SocketTyped
<1>3. StatusTyped' /\ FlagsTyped'
  BY <1>1 DEF StatusTyped, FlagsTyped
<1>4. TokensTyped' /\ WaitingTyped' /\ NeverRefusedCached'
  BY <1>1, TerminalSessionAssumption
     DEF TokensTyped, WaitingTyped, NeverRefusedCached, NullToken
<1>5. LockInv'
  BY <1>1 DEF LockInv, RunningIsTrue, LockHolds, WaitingLocks, QuietUntilOpen
<1> QED  BY <1>1, <1>2, <1>3, <1>4, <1>5

LEMMA CommitNewKeyPreserves == TInv /\ CommitNewKey => TInv'
<1> SUFFICES ASSUME TInv, CommitNewKey PROVE TInv'
  OBVIOUS
<1> USE DEF TInv, TypesInv, CommitNewKey, widgetVars
<1>1. /\ Core' /\ QueuesTyped' /\ QueuesTrue'
      /\ Unsent' = Unsent
      /\ inFlight' = {} /\ ws' = "connecting" /\ status' = "connecting"
      /\ sockets' \in 1..Sockets
      /\ token' = [f \in Frames |-> NullToken] /\ refused' = refused
  BY ConnectLemma
<1>2. SocketTyped'
  BY <1>1 DEF SocketTyped
<1>3. StatusTyped' /\ FlagsTyped'
  BY <1>1 DEF StatusTyped, FlagsTyped, StatusEffect
<1>4. TokensTyped' /\ WaitingTyped' /\ NeverRefusedCached'
  BY <1>1, TerminalSessionAssumption
     DEF TokensTyped, WaitingTyped, NeverRefusedCached, NullToken
<1>5. LockInv'
  BY <1>1 DEF LockInv, RunningIsTrue, LockHolds, WaitingLocks, QuietUntilOpen, StatusEffect
<1> QED  BY <1>1, <1>2, <1>3, <1>4, <1>5

(* The turns of the browser that leave the gateway and the queues alone, but *)
(* for the loss of what is on the way when the socket closes.                *)
LEMMA SocketClosesPreserves == TInv /\ SocketCloses => TInv'
<1> SUFFICES ASSUME TInv, SocketCloses PROVE TInv'
  OBVIOUS
<1> USE DEF TInv, TypesInv, SocketCloses, widgetVars
<1>1. Core'
  BY CorePreserved DEF Next
<1>2. pc' = pc /\ answers' = answers
  BY DEF Close, vars
<1>3. Len(wire') = 0 /\ Len(inbox') = 0 /\ inbox' \in Seq(Answer) /\ wire' \in Seq(inFlight')
  BY EmptySeq
<1>4. SocketTyped' /\ StatusTyped' /\ FlagsTyped' /\ TokensTyped' /\ NeverRefusedCached'
  BY DEF SocketTyped, StatusTyped, FlagsTyped, TokensTyped, NeverRefusedCached
<1>5. QueuesTyped' /\ WaitingTyped'
  BY <1>2, <1>3 DEF QueuesTyped, WaitingTyped, Unsent
<1>6. QueuesTrue'
  BY <1>2, <1>3 DEF QueuesTrue, WireUnhandled, UnsentUnanswered, BusyInFlight, InboxTrue, Busy
<1>7. LockInv'
  BY <1>2 DEF LockInv, RunningIsTrue, LockHolds, WaitingLocks, QuietUntilOpen, AnsweredTwice
<1> QED  BY <1>1, <1>4, <1>5, <1>6, <1>7

(* What depends on the gateway and the queues, when a turn leaves them alone. *)
LEMMA QueuesUntouched ==
  ASSUME TInv, UNCHANGED <<vars, wire, inbox, inFlight>>
  PROVE  /\ Core' /\ QueuesTyped' /\ QueuesTrue'
         /\ Unsent' = Unsent /\ AnsweredTwice' = AnsweredTwice
<1> USE DEF TInv, TypesInv
<1>1. pc' = pc /\ answers' = answers
  BY DEF vars
<1>2. Core'
  BY CorePreserved
<1>3. QueuesTyped' /\ Unsent' = Unsent /\ AnsweredTwice' = AnsweredTwice
  BY <1>1 DEF QueuesTyped, Unsent, AnsweredTwice
<1>4. QueuesTrue'
  BY <1>1 DEF QueuesTrue, WireUnhandled, UnsentUnanswered, BusyInFlight, InboxTrue,
              Busy, AnsweredTwice
<1> QED  BY <1>2, <1>3, <1>4

LEMMA QuietBrowserPreserves ==
  TInv /\ (SocketOpens \/ KeyChanged \/ Commit \/ ScriptLoads \/ TokenAges) => TInv'
<1> SUFFICES ASSUME TInv, SocketOpens \/ KeyChanged \/ Commit \/ ScriptLoads \/ TokenAges
             PROVE  TInv'
  OBVIOUS
<1> USE DEF TInv, TypesInv, SocketOpens, KeyChanged, Commit, ScriptLoads, TokenAges,
            widgetVars, socketVars, lockVars, frameVars, StatusEffect
<1>1. /\ Core' /\ QueuesTyped' /\ QueuesTrue'
      /\ Unsent' = Unsent /\ AnsweredTwice' = AnsweredTwice
      /\ waiting' = waiting /\ inFlight' = inFlight
  BY QueuesUntouched
<1>2. SocketTyped'
  BY TerminalSessionAssumption DEF SocketTyped
<1>3. StatusTyped' /\ FlagsTyped'
  BY DEF StatusTyped, FlagsTyped
<1>4. WaitingTyped'
  BY <1>1 DEF WaitingTyped
<1>5. TokensTyped' /\ NeverRefusedCached'
  <2>1. /\ cachedToken' = cachedToken \/ cachedToken' = NullToken
        /\ UNCHANGED <<issued, token, refused>>
    OBVIOUS
  <2>2. TokensTyped'
    BY <2>1, TerminalSessionAssumption DEF TokensTyped, NullToken
  <2>3. NeverRefusedCached'
    BY DEF NeverRefusedCached
  <2> QED  BY <2>2, <2>3
<1>6. LockInv'
  <2>1. RunningIsTrue' /\ QuietUntilOpen'
    BY <1>1 DEF LockInv, RunningIsTrue, QuietUntilOpen
  <2>2. LockHolds'
    BY <1>1 DEF LockInv, LockHolds, QuietUntilOpen
  <2>3. WaitingLocks'
    BY <1>1 DEF LockInv, WaitingLocks, QuietUntilOpen
  <2> QED  BY <2>1, <2>2, <2>3 DEF LockInv
<1> QED  BY <1>1, <1>2, <1>3, <1>4, <1>5, <1>6

-----------------------------------------------------------------------------
(* Commands and tokens *)

(* Frames that are submitted go onto the wire as they are, unhandled.        *)
LEMMA SubmitQueues ==
  ASSUME TInv, NEW n \in 1..Cardinality(Unsent), ws = "open",
         NEW tok, NEW held, Submit(n, tok, held),
         UNCHANGED <<vars, inbox>>
  PROVE  /\ Core' /\ QueuesTyped' /\ QueuesTrue'
         /\ AnsweredTwice' = AnsweredTwice
         /\ status' = "running" /\ locked' = held /\ inFlight' # {}
         /\ token' \in [Frames -> {tok} \cup {token[f] : f \in Frames}]
         /\ \A f \in Frames : token'[f] = tok \/ token'[f] = token[f]
         /\ n = 1 => \E f \in Unsent : Unsent' = Unsent \ {f} /\ inFlight' = inFlight \cup {f}
<1>0. QueuesTyped
  BY DEF TInv, TypesInv
<1>1. PICK sent \in Seq(Unsent) : Sends(sent, n, tok, held)
  BY <1>0, SubmitLemma, Zenon
<1> USE DEF TInv, TypesInv, Sends
<1>2. pc' = pc /\ answers' = answers /\ Core'
  BY CorePreserved DEF vars
<1>3. QueuesTyped'
  BY <1>1 DEF QueuesTyped, Unsent
<1>4. WireUnhandled' /\ UnsentUnanswered'
  <2>1. WireUnhandled'
    BY <1>1, <1>2 DEF QueuesTrue, WireUnhandled, Unsent
  <2>2. UnsentUnanswered'
    BY <1>2 DEF QueuesTrue, UnsentUnanswered
  <2> QED  BY <2>1, <2>2
<1>5. BusyInFlight' /\ AnsweredTwice' = AnsweredTwice
  BY <1>1, <1>2 DEF QueuesTrue, BusyInFlight, AnsweredTwice, Busy
<1>6. InboxTrue'
  BY <1>1, <1>2, <1>5 DEF QueuesTrue, InboxTrue
<1>7. /\ token' \in [Frames -> {tok} \cup {token[f] : f \in Frames}]
      /\ \A f \in Frames : token'[f] = tok \/ token'[f] = token[f]
  BY <1>1
<1>8. ASSUME n = 1
      PROVE  \E f \in Unsent : Unsent' = Unsent \ {f} /\ inFlight' = inFlight \cup {f}
  <2>1. Range(sent) = {sent[1]}
    BY <1>1, <1>8
  <2> QED  BY <1>1, <1>2, <2>1 DEF Unsent
<1> QED  BY <1>1, <1>2, <1>3, <1>4, <1>5, <1>6, <1>7, <1>8 DEF QueuesTrue

LEMMA EnterPreserves == TInv /\ Enter => TInv'
<1> SUFFICES ASSUME TInv, Enter PROVE TInv'
  OBVIOUS
<1> USE DEF TInv, TypesInv, socketVars
<1>1. /\ ~locked /\ waiting < Cardinality(Unsent) /\ waiting \in Nat
      /\ Cardinality(Unsent) \in Nat
      /\ UNCHANGED <<vars, socketVars, seenStatus, unlockedEarly, script, cachedToken, issued,
                     inbox, refused>>
  BY UnsentFinite DEF Enter, WaitingTyped
<1>2. SocketTyped'
  BY <1>1 DEF SocketTyped
<1>3. CASE Submit(1, cachedToken, TRUE) /\ UNCHANGED <<waiting, executing>> /\ ws = "open"
  <2>1. /\ Core' /\ QueuesTyped' /\ QueuesTrue'
        /\ AnsweredTwice' = AnsweredTwice
        /\ status' = "running" /\ locked' = TRUE /\ inFlight' # {}
        /\ token' \in [Frames -> {cachedToken} \cup {token[f] : f \in Frames}]
        /\ \E f \in Unsent : Unsent' = Unsent \ {f} /\ inFlight' = inFlight \cup {f}
    <3>1. 1 \in 1..Cardinality(Unsent)
      BY <1>1
    <3>2. UNCHANGED <<vars, inbox>> /\ Submit(1, cachedToken, TRUE) /\ ws = "open"
      BY <1>1, <1>3, Zenon
    <3> QED  BY <3>1, <3>2, SubmitQueues, Zenon
  <2>2. PICK f \in Unsent : Unsent' = Unsent \ {f} /\ inFlight' = inFlight \cup {f}
    BY <2>1
  <2>3. WaitingTyped'
    <3>1. Cardinality(Unsent \ {f}) = Cardinality(Unsent) - 1
      BY <2>2, UnsentFinite, FS_RemoveElement
    <3> QED  BY <1>1, <1>3, <2>2, <3>1 DEF WaitingTyped
  <2>4. StatusTyped' /\ FlagsTyped'
    BY <1>1, <1>3, <2>1 DEF StatusTyped, FlagsTyped
  <2>5. TokensTyped'
    BY <1>1, <2>1 DEF TokensTyped
  <2>6. NeverRefusedCached'
    BY <1>1, <1>3 DEF NeverRefusedCached
  <2>7. LockInv'
    <3>1. ~unlockedEarly /\ AnsweredTwice = {} => inFlight' = {f}
      BY <1>1, <1>3, <2>2 DEF LockInv, LockHolds
    <3>2. Cardinality({f}) = 1
      BY FS_Singleton
    <3>3. waiting > 0 => unlockedEarly
      BY <1>1 DEF LockInv, WaitingLocks
    <3> QED  BY <1>1, <1>3, <2>1, <3>1, <3>2, <3>3
             DEF LockInv, RunningIsTrue, LockHolds, WaitingLocks, QuietUntilOpen
  <2> QED  BY <1>2, <2>1, <2>3, <2>4, <2>5, <2>6, <2>7
<1>4. CASE Submit(1, cachedToken, TRUE) /\ UNCHANGED <<waiting, executing>> /\ ws # "open"
  <2>1. locked' = FALSE /\ UNCHANGED <<status, wire, inFlight, token>>
    <3>1. 1 # 0
      OBVIOUS
    <3> QED  BY <1>4, <3>1, Zenon DEF Submit
  <2>2. /\ Core' /\ QueuesTyped' /\ QueuesTrue'
        /\ Unsent' = Unsent /\ AnsweredTwice' = AnsweredTwice
    BY <1>1, <2>1, QueuesUntouched
  <2>3. StatusTyped' /\ FlagsTyped' /\ TokensTyped' /\ WaitingTyped' /\ NeverRefusedCached'
    BY <1>1, <1>4, <2>1, <2>2
       DEF StatusTyped, FlagsTyped, TokensTyped, WaitingTyped, NeverRefusedCached
  <2>4. LockInv'
    BY <1>1, <1>4, <2>1, <2>2
       DEF LockInv, RunningIsTrue, LockHolds, WaitingLocks, QuietUntilOpen
  <2> QED  BY <1>2, <2>2, <2>3, <2>4
<1>5. CASE /\ waiting' = waiting + 1
           /\ executing' = (script = "loaded")
           /\ locked' = TRUE
           /\ UNCHANGED <<status, wire, inFlight, token>>
  <2>2. /\ Core' /\ QueuesTyped' /\ QueuesTrue'
        /\ Unsent' = Unsent /\ AnsweredTwice' = AnsweredTwice
    BY <1>1, <1>5, QueuesUntouched
  <2>3. StatusTyped' /\ FlagsTyped' /\ TokensTyped'
    BY <1>1, <1>5 DEF StatusTyped, FlagsTyped, TokensTyped
  <2>4. WaitingTyped'
    BY <1>1, <1>5, <2>2 DEF WaitingTyped
  <2>5. NeverRefusedCached'
    BY <1>1, <1>5 DEF NeverRefusedCached
  <2>6. LockInv'
    <3>1. ~unlockedEarly => waiting = 0
      BY <1>1 DEF LockInv, WaitingLocks
    <3>2. ws = "open" /\ ~unlockedEarly /\ AnsweredTwice = {} => inFlight = {}
      BY <1>1 DEF LockInv, LockHolds
    <3> QED  BY <1>1, <1>5, <2>2, <3>1, <3>2
             DEF LockInv, RunningIsTrue, LockHolds, WaitingLocks, QuietUntilOpen
  <2> QED  BY <1>2, <2>2, <2>3, <2>4, <2>5, <2>6
<1> QED  BY <1>3, <1>4, <1>5 DEF Enter

(* The submissions that await getToken() go on together.                     *)
LEMMA ResolveLemma ==
  ASSUME TInv, NEW tok, tok \in 0..issued', issued' \in 0..Tokens, issued <= issued',
         waiting' = 0, Submit(waiting, tok, locked),
         UNCHANGED <<vars, socketVars, seenStatus, unlockedEarly, inbox, refused>>,
         cachedToken' \in 0..issued'
  PROVE  /\ Core' /\ QueuesTyped' /\ QueuesTrue' /\ SocketTyped' /\ WaitingTyped'
         /\ TokensTyped' /\ LockInv'
         /\ status' \in {status, "running"} /\ locked' \in {locked, FALSE}
         /\ \A f \in Frames : token'[f] = tok \/ token'[f] = token[f]
<1> USE DEF TInv, TypesInv, socketVars
<1>1. SocketTyped'
  BY DEF SocketTyped
<1>2. /\ waiting \in 0..Cardinality(Unsent) /\ waiting \in Nat
      /\ Cardinality(Unsent) \in Nat /\ Cardinality(Unsent)' \in Nat
  <2>1. Cardinality(Unsent) \in Nat /\ Cardinality(Unsent)' \in Nat
    BY UnsentFinite, UnsentFinitePrimed
  <2> QED  BY <2>1 DEF WaitingTyped
<1>3. WaitingTyped'
  BY <1>2 DEF WaitingTyped
<1>4. CASE waiting > 0 /\ ws = "open"
  <2>1. /\ Core' /\ QueuesTyped' /\ QueuesTrue'
        /\ AnsweredTwice' = AnsweredTwice
        /\ status' = "running" /\ locked' = locked /\ inFlight' # {}
        /\ token' \in [Frames -> {tok} \cup {token[f] : f \in Frames}]
        /\ \A f \in Frames : token'[f] = tok \/ token'[f] = token[f]
        /\ waiting = 1 =>
             \E f \in Unsent : Unsent' = Unsent \ {f} /\ inFlight' = inFlight \cup {f}
    BY <1>2, <1>4, SubmitQueues
  <2>2. TokensTyped'
    <3>1. \A f \in Frames : token'[f] \in 0..issued'
      BY <2>1 DEF TokensTyped
    <3> QED  BY <2>1, <3>1 DEF TokensTyped
  <2>3. LockInv'
    <3>1. ASSUME ~unlockedEarly, AnsweredTwice = {} PROVE locked /\ Cardinality(inFlight') = 1
      <4>1. locked /\ waiting = 1 /\ inFlight = {}
        BY <1>4, <3>1 DEF LockInv, WaitingLocks
      <4>2. PICK f \in Unsent : inFlight' = {f}
        BY <2>1, <4>1
      <4> QED  BY <4>1, <4>2, FS_Singleton
    <3> QED  BY <1>4, <2>1, <3>1
             DEF LockInv, RunningIsTrue, LockHolds, WaitingLocks, QuietUntilOpen
  <2> QED  BY <1>1, <1>3, <2>1, <2>2, <2>3
<1>5. CASE ~(waiting > 0 /\ ws = "open")
  <2>1. /\ locked' = (locked /\ waiting = 0)
        /\ UNCHANGED <<status, wire, inFlight, token>>
    BY <1>5 DEF Submit
  <2>2. Core' /\ QueuesTyped' /\ QueuesTrue' /\ AnsweredTwice' = AnsweredTwice
    BY <2>1, QueuesUntouched
  <2>3. TokensTyped'
    BY <2>1 DEF TokensTyped
  <2>4. locked' \in {locked, FALSE} /\ (waiting = 0 => locked' = locked)
    BY <2>1 DEF FlagsTyped
  <2>5. LockInv'
    BY <1>2, <1>5, <2>1, <2>2, <2>4
       DEF LockInv, RunningIsTrue, LockHolds, WaitingLocks, QuietUntilOpen
  <2> QED  BY <1>1, <1>3, <2>1, <2>2, <2>3, <2>4, <2>5
<1> QED  BY <1>4, <1>5

LEMMA ScriptFailsPreserves == TInv /\ ScriptFails => TInv'
<1> SUFFICES ASSUME TInv, ScriptFails PROVE TInv'
  OBVIOUS
<1> USE DEF TInv, TypesInv
<1>1. /\ NullToken \in 0..issued' /\ issued' \in 0..Tokens /\ issued <= issued'
      /\ cachedToken' \in 0..issued'
  BY DEF ScriptFails, TokensTyped, NullToken
<1>2. /\ Core' /\ QueuesTyped' /\ QueuesTrue' /\ SocketTyped' /\ WaitingTyped'
      /\ TokensTyped' /\ LockInv'
      /\ status' \in {status, "running"} /\ locked' \in {locked, FALSE}
  BY <1>1, ResolveLemma DEF ScriptFails
<1>3. StatusTyped' /\ FlagsTyped'
  BY <1>2 DEF ScriptFails, StatusTyped, FlagsTyped
<1>4. NeverRefusedCached'
  BY DEF ScriptFails, NeverRefusedCached
<1> QED  BY <1>2, <1>3, <1>4

LEMMA TokenIssuedPreserves == TInv /\ TokenIssued => TInv'
<1> SUFFICES ASSUME TInv, TokenIssued PROVE TInv'
  OBVIOUS
<1> USE DEF TInv, TypesInv
<1>1. /\ issued + 1 \in 0..issued' /\ issued' \in 0..Tokens /\ issued <= issued'
      /\ cachedToken' \in 0..issued' /\ cachedToken' = issued + 1
  BY TerminalSessionAssumption DEF TokenIssued, TokensTyped
<1>2. /\ Core' /\ QueuesTyped' /\ QueuesTrue' /\ SocketTyped' /\ WaitingTyped'
      /\ TokensTyped' /\ LockInv'
      /\ status' \in {status, "running"} /\ locked' \in {locked, FALSE}
  BY <1>1, ResolveLemma DEF TokenIssued
<1>3. StatusTyped' /\ FlagsTyped'
  BY <1>2 DEF TokenIssued, StatusTyped, FlagsTyped
<1>4. NeverRefusedCached'
  <2>1. issued + 1 \notin refused
    BY DEF TokensTyped
  <2>2. executing /\ script' = script /\ refused' = refused
    BY DEF TokenIssued
  <2> QED  BY <1>1, <2>1, <2>2 DEF NeverRefusedCached
<1> QED  BY <1>2, <1>3, <1>4

-----------------------------------------------------------------------------
(* Answers *)

(* Every answer the gateway sends settles the command that is running.       *)
LEMMA ReceiveLemma ==
  ASSUME QueuesTyped, Receive
  PROVE  /\ inbox # <<>> /\ inbox \in Seq(Answer) /\ inbox' = Tail(inbox)
         /\ inFlight' = inFlight \ {inbox[1].frame}
         /\ status' = "open" /\ locked' = FALSE
<1>1. /\ inbox # <<>> /\ inbox \in Seq(Answer) /\ inbox' = Tail(inbox)
      /\ inFlight' = inFlight \ {Head(inbox).frame}
      /\ IF Settles(Head(inbox).kind)
         THEN status' = "open" /\ locked' = FALSE
         ELSE UNCHANGED <<status, locked>>
  BY Zenon DEF Receive, QueuesTyped
<1>2. Head(inbox) \in Answer /\ Head(inbox) = inbox[1]
  BY <1>1, HeadTailProperties
<1> QED  BY <1>1, <1>2 DEF Answer, Settles, Kinds

LEMMA ReceivePreserves == TInv /\ Receive => TInv'
<1> SUFFICES ASSUME TInv, Receive PROVE TInv'
  OBVIOUS
<1> USE DEF TInv, TypesInv
<1>1. PICK f, kind :
        /\ f = Head(inbox).frame /\ kind = Head(inbox).kind
        /\ inbox' = Tail(inbox)
        /\ inFlight' = inFlight \ {f}
        /\ token' = [token EXCEPT ![f] = NullToken]
        /\ IF Settles(kind)
           THEN status' = "open" /\ locked' = FALSE
           ELSE UNCHANGED <<status, locked>>
        /\ unlockedEarly' = (unlockedEarly \/ (waiting > 0 /\ ~locked'))
        /\ IF kind = "challenge-required"
           THEN Refresh /\ refused' = refused \cup ({token[f]} \ {NullToken})
           ELSE UNCHANGED <<cachedToken, executing, refused>>
  BY Zenon DEF Receive
<1>2. /\ UNCHANGED <<vars, socketVars, seenStatus, script, issued, waiting, wire>>
      /\ inbox # <<>>
  BY DEF Receive
<1>3. pc' = pc /\ answers' = answers
  BY <1>2 DEF vars
<1>4. /\ Head(inbox) \in Answer /\ Tail(inbox) \in Seq(Answer)
      /\ Len(Tail(inbox)) = Len(inbox) - 1
      /\ \A i \in 1..Len(Tail(inbox)) : Tail(inbox)[i] = inbox[i + 1]
      /\ Len(inbox) \in Nat \ {0} /\ Head(inbox) = inbox[1]
  BY <1>2, HeadTailProperties, EmptySeq DEF QueuesTyped
<1>5. f \in Frames /\ kind \in Kinds /\ f = inbox[1].frame
  BY <1>1, <1>4 DEF Answer
<1>6. status' = "open" /\ locked' = FALSE
  BY <1>1, <1>5 DEF Settles, Kinds
<1>7. /\ pc[f] # "unsent" /\ answers[f] # <<>>
      /\ f \in inFlight \/ f \in AnsweredTwice
      /\ \A i \in 2..Len(inbox) : inbox[i].frame = f => f \in AnsweredTwice
  BY <1>4, <1>5 DEF QueuesTrue, InboxTrue
<1>8. Core' /\ AnsweredTwice' = AnsweredTwice
  BY <1>2, <1>3, CorePreserved DEF AnsweredTwice
<1>9. SocketTyped' /\ StatusTyped'
  BY <1>2, <1>6 DEF SocketTyped, StatusTyped, socketVars
<1>10. FlagsTyped'
  BY <1>1, <1>6 DEF FlagsTyped, Refresh
<1>11. TokensTyped' /\ NeverRefusedCached'
  <2>1. token[f] \in 0..issued /\ NullToken \in 0..issued /\ issued \in Nat
    BY <1>5, TerminalSessionAssumption DEF TokensTyped, NullToken
  <2>2. token' \in [Frames -> 0..issued']
    BY <1>1, <1>2, <2>1 DEF TokensTyped
  <2>3. CASE kind = "challenge-required"
    <3>1. /\ cachedToken' = IF script = "loaded" THEN NullToken ELSE cachedToken
          /\ executing' = (executing \/ script = "loaded")
          /\ refused' = refused \cup ({token[f]} \ {NullToken})
      BY <1>1, <2>3 DEF Refresh
    <3>2. TokensTyped'
      BY <1>2, <2>1, <2>2, <3>1 DEF TokensTyped
    <3>3. cachedToken' = NullToken /\ (script # "loaded" => ~executing')
      BY <3>1 DEF NeverRefusedCached
    <3>4. NeverRefusedCached'
      BY <1>2, <3>1, <3>3 DEF NeverRefusedCached
    <3> QED  BY <3>2, <3>4
  <2>4. CASE kind # "challenge-required"
    <3>1. UNCHANGED <<cachedToken, executing, refused>>
      BY <1>1, <2>4
    <3> QED  BY <1>2, <2>2, <3>1 DEF TokensTyped, NeverRefusedCached
  <2> QED  BY <2>3, <2>4
<1>12. QueuesTyped'
  <2>1. \A i \in 1..Len(wire) : wire[i] # f /\ wire[i] \in inFlight
    BY <1>7, ElementOfSeq DEF QueuesTyped, QueuesTrue, WireUnhandled
  <2>2. Range(wire) \subseteq inFlight \ {f}
    BY <2>1, RangeEquality DEF QueuesTyped
  <2>3. wire \in Seq(inFlight \ {f})
    BY <2>2, SeqOfRange, SeqMonotonic DEF QueuesTyped
  <2> QED  BY <1>1, <1>2, <1>4, <2>3 DEF QueuesTyped
<1>13. WaitingTyped'
  <2>1. Unsent' = Unsent
    BY <1>1, <1>3, <1>7 DEF Unsent
  <2> QED  BY <1>2, <2>1 DEF WaitingTyped
<1>14. WireUnhandled' /\ UnsentUnanswered' /\ BusyInFlight'
  <2>1. WireUnhandled' /\ UnsentUnanswered'
    BY <1>2, <1>3 DEF QueuesTrue, WireUnhandled, UnsentUnanswered
  <2>2. BusyInFlight'
    BY <1>1, <1>3, <1>7 DEF QueuesTrue, BusyInFlight, Busy
  <2> QED  BY <2>1, <2>2
<1>15. InboxTrue'
  <2>1. \A i \in 1..Len(inbox') : i + 1 \in 2..Len(inbox) /\ inbox'[i] = inbox[i + 1]
    BY <1>1, <1>4
  <2>2. \A i \in 2..Len(inbox) :
          /\ pc[inbox[i].frame] # "unsent"
          /\ answers[inbox[i].frame] # <<>>
          /\ inbox[i].frame \in inFlight \ {f} \/ inbox[i].frame \in AnsweredTwice
    BY <1>4, <1>7 DEF QueuesTrue, InboxTrue
  <2>3. \A i, j \in 2..Len(inbox) :
          inbox[i].frame = inbox[j].frame => i = j \/ inbox[i].frame \in AnsweredTwice
    BY <1>4 DEF QueuesTrue, InboxTrue
  <2>4. \A i, j \in 1..Len(inbox') :
          inbox'[i].frame = inbox'[j].frame => i = j \/ inbox'[i].frame \in AnsweredTwice
    <3> SUFFICES ASSUME NEW i \in 1..Len(inbox'), NEW j \in 1..Len(inbox'),
                        inbox'[i].frame = inbox'[j].frame, inbox'[i].frame \notin AnsweredTwice
                 PROVE  i = j
      OBVIOUS
    <3>1. i + 1 = j + 1
      BY <2>1, <2>3
    <3> QED  BY <3>1
  <2>5. \A i \in 1..Len(inbox') :
          /\ pc[inbox'[i].frame] # "unsent"
          /\ answers[inbox'[i].frame] # <<>>
          /\ inbox'[i].frame \in inFlight' \/ inbox'[i].frame \in AnsweredTwice
    BY <1>1, <2>1, <2>2
  <2> QED  BY <1>3, <1>8, <2>4, <2>5 DEF InboxTrue
<1>16. LockInv'
  <2>1. ws' = ws /\ waiting' = waiting
    BY <1>2 DEF socketVars
  <2>2. waiting > 0 => unlockedEarly'
    BY <1>1, <1>6
  <2>3. unlockedEarly => unlockedEarly'
    BY <1>1
  <2>4. RunningIsTrue' /\ QuietUntilOpen'
    BY <1>1, <1>6, <2>1 DEF LockInv, RunningIsTrue, QuietUntilOpen
  <2>5. WaitingLocks'
    BY <2>1, <2>2 DEF WaitingLocks
  <2>6. LockHolds'
    <3>1. ASSUME ws = "open", inFlight' # {}, ~unlockedEarly', AnsweredTwice = {} PROVE FALSE
      <4>1. f \in inFlight /\ Cardinality(inFlight) = 1
        BY <1>1, <1>7, <2>3, <3>1 DEF LockInv, LockHolds
      <4>2. IsFiniteSet(inFlight)
        <5>1. inFlight \in SUBSET Frames
          BY DEF QueuesTyped
        <5> QED  BY <5>1, TerminalSessionAssumption, FS_Subset
      <4>3. IsFiniteSet(inFlight \ {f}) /\ Cardinality(inFlight \ {f}) = 0
        BY <4>1, <4>2, FS_RemoveElement
      <4>4. inFlight' = {}
        BY <1>1, <4>3, FS_EmptySet
      <4> QED  BY <3>1, <4>4
    <3> QED  BY <1>8, <2>1, <3>1 DEF LockHolds
  <2> QED  BY <2>4, <2>5, <2>6 DEF LockInv
<1> QED  BY <1>8, <1>9, <1>10, <1>11, <1>12, <1>13, <1>14, <1>15, <1>16 DEF QueuesTrue

-----------------------------------------------------------------------------
LEMMA TerminalNextPreserves == TInv /\ [TerminalNext]_allVars => TInv'
<1>1. ASSUME TInv, UNCHANGED allVars PROVE TInv'
  <2> USE <1>1 DEF allVars, browserVars, socketVars, lockVars, widgetVars, frameVars,
                   TInv, TypesInv
  <2>1. /\ Core' /\ QueuesTyped' /\ QueuesTrue'
        /\ Unsent' = Unsent /\ AnsweredTwice' = AnsweredTwice
    BY QueuesUntouched
  <2>2. SocketTyped' /\ StatusTyped' /\ FlagsTyped' /\ TokensTyped' /\ WaitingTyped'
    BY <2>1 DEF SocketTyped, StatusTyped, FlagsTyped, TokensTyped, WaitingTyped
  <2>3. LockInv' /\ NeverRefusedCached'
    BY <2>1 DEF LockInv, RunningIsTrue, LockHolds, WaitingLocks, QuietUntilOpen,
                NeverRefusedCached
  <2> QED  BY <2>1, <2>2, <2>3
<1> QED  BY <1>1, ReconnectPreserves, CommitNewKeyPreserves, SocketClosesPreserves,
            QuietBrowserPreserves, EnterPreserves, ScriptFailsPreserves, TokenIssuedPreserves,
            ReceivePreserves, GateReceivesPreserves, GateAnswersPreserves, GateTurnPreserves
         DEF TerminalNext

(* The strengthened invariant holds in every reachable state. *)
THEOREM TerminalInvariant == TerminalSpec => []TInv
  BY TerminalInitEstablishes, TerminalNextPreserves, PTL DEF TerminalSpec

(* The page's and the gateway's variables keep their types; in particular    *)
(* no more submissions await a token than there are commands to send.        *)
THEOREM TerminalTypeCorrect == TerminalSpec => []TerminalTypeOK
<1>1. TInv => TerminalTypeOK
  <2> SUFFICES ASSUME TInv PROVE TerminalTypeOK
    OBVIOUS
  <2>1. TypeOK /\ SocketTyped /\ StatusTyped /\ FlagsTyped /\ TokensTyped /\ QueuesTyped
        /\ WaitingTyped
    BY DEF TInv, TypesInv, Core
  <2>2. IsInjective(wire)
    <3>1. DOMAIN wire = 1..Len(wire)
      BY <2>1, LenProperties DEF QueuesTyped
    <3> QED  BY <2>1, <3>1 DEF QueuesTyped, IsInjective
  <2>3. {status, seenStatus} \subseteq {"connecting", "open", "running", "closed"}
    BY <2>1 DEF StatusTyped
  <2>4. {locked, executing, unlockedEarly} \subseteq BOOLEAN
    BY <2>1, Zenon DEF FlagsTyped
  <2>5. waiting \in 0..Cardinality({f \in Frames : pc[f] = "unsent"} \ inFlight)
    BY <2>1 DEF WaitingTyped, Unsent
  <2>6. inbox \in Seq([frame : Frames, kind : {"error", "busy", "challenge-required", "done"}])
    BY <2>1, Zenon DEF QueuesTyped, Answer, Kinds
  <2> QED  BY <2>1, <2>2, <2>3, <2>4, <2>5, <2>6
           DEF TerminalTypeOK, SocketTyped, StatusTyped, TokensTyped, QueuesTyped
<1> QED  BY <1>1, TerminalInvariant, PTL

(* One frame is in flight, behind a locked input and a running status,       *)
(* unless the lock was lost in one of the two ways LockHolds names: there is *)
(* no third way, whatever React, the widget, the network and the gateway do. *)
THEOREM LockAlwaysHolds == TerminalSpec => []LockHolds
<1>1. TInv => LockHolds
  BY DEF TInv, LockInv
<1> QED  BY <1>1, TerminalInvariant, PTL

(* The status never says running with nothing in flight on an open socket.   *)
THEOREM RunningAlwaysTrue == TerminalSpec => []RunningIsTrue
<1>1. TInv => RunningIsTrue
  BY DEF TInv, LockInv
<1> QED  BY <1>1, TerminalInvariant, PTL

-----------------------------------------------------------------------------
(* What a locked input waits for *)

(* A locked input has been seen open; nothing awaited, it was submitted, and *)
(* the status says so before React looks at it again.                        *)
LockSeen == locked => seenStatus \in {"open", "running"}

LockBeforeOpen == ws = "connecting" /\ locked /\ waiting = 0 => seenStatus = "running"

LockRuns == locked /\ waiting = 0 /\ status = seenStatus => status = "running"

RunningOpen == status = "running" => ws = "open"

StatusOwed == LockSeen /\ LockBeforeOpen /\ LockRuns /\ RunningOpen

(* What is in flight is somewhere, while the gateway has the connection; an  *)
(* invocation that has only its audit left to await has answered.            *)
AuditsAnswered ==
  \A f \in Frames : pc[f] \in {"auditInvalid", "auditRefused", "auditDone"} => answers[f] # <<>>

NoneAstray == conn # "closed" => \A f \in inFlight \ LostFrames : OnItsWay(f)

FramesOwed == AuditsAnswered /\ NoneAstray

LEMMA OwedImplies == TInv /\ StatusOwed /\ FramesOwed => LockIsOwed
  BY DEF TInv, LockInv, RunningIsTrue, StatusOwed, LockRuns, RunningOpen, FramesOwed,
         NoneAstray, LockIsOwed

LEMMA OwedInitially == TerminalInit => StatusOwed /\ FramesOwed
<1> SUFFICES ASSUME TerminalInit PROVE StatusOwed /\ FramesOwed
  OBVIOUS
<1>1. StatusOwed
  BY DEF TerminalInit, StatusOwed, LockSeen, LockBeforeOpen, LockRuns, RunningOpen
<1>2. FramesOwed
  BY DEF TerminalInit, Init, FramesOwed, AuditsAnswered, NoneAstray
<1> QED  BY <1>1, <1>2

(* The status and the lock *)

LEMMA SubmitStatus ==
  ASSUME NEW n \in Nat, NEW tok, NEW held \in BOOLEAN, Submit(n, tok, held)
  PROVE  \/ n > 0 /\ ws = "open" /\ status' = "running" /\ locked' = held
         \/ n > 0 /\ ws # "open" /\ status' = status /\ locked' = FALSE
         \/ n = 0 /\ status' = status /\ locked' = held
<1>1. \/ n > 0 /\ ws = "open" /\ status' = "running" /\ locked' = held
      \/ ~(n > 0 /\ ws = "open") /\ status' = status /\ locked' = (held /\ n = 0)
  BY Zenon DEF Submit
<1>2. n > 0 \/ n = 0
  OBVIOUS
<1>3. (n = 0 => (held /\ n = 0) = held) /\ (n # 0 => (held /\ n = 0) = FALSE)
  OBVIOUS
<1>4. n > 0 <=> n # 0
  OBVIOUS
<1> QED  BY <1>1, <1>2, <1>3, <1>4, Zenon

LEMMA StatusStaysOwed ==
  ASSUME TInv, TInv', StatusOwed, [TerminalNext]_allVars
  PROVE  StatusOwed'
<1> USE DEF StatusOwed, LockSeen, LockBeforeOpen, LockRuns, RunningOpen
<1>1. /\ locked \in BOOLEAN /\ locked' \in BOOLEAN /\ waiting \in Nat
      /\ ws \in {"connecting", "open", "closed"}
  <2>1. waiting \in 0..Cardinality(Unsent)
    BY DEF TInv, TypesInv, WaitingTyped
  <2>2. waiting \in Nat
    BY <2>1, UnsentFinite
  <2> QED  BY <2>2 DEF TInv, TypesInv, FlagsTyped, SocketTyped
<1>2. CASE UNCHANGED allVars
  BY <1>2 DEF allVars, browserVars, socketVars, lockVars, widgetVars
<1>3. CASE Reconnect
  BY <1>3 DEF Reconnect, Connect, widgetVars
<1>4. CASE CommitNewKey
  BY <1>1, <1>4 DEF CommitNewKey, Connect, StatusEffect, widgetVars
<1>5. CASE SocketOpens
  BY <1>5 DEF SocketOpens, widgetVars
<1>6. CASE SocketCloses
  BY <1>6 DEF SocketCloses, widgetVars
<1>7. CASE Commit
  BY <1>1, <1>7 DEF Commit, StatusEffect, widgetVars, socketVars
<1>8. CASE Enter
  <2>1. ws' = ws /\ seenStatus' = seenStatus /\ seenStatus = "open" /\ ~locked
    BY <1>8 DEF Enter, socketVars
  <2>2. CASE Submit(1, cachedToken, TRUE) /\ UNCHANGED <<waiting, executing>>
    <3>1. \/ ws = "open" /\ status' = "running" /\ locked' = TRUE
          \/ ws # "open" /\ status' = status /\ locked' = FALSE
      <4>1. 1 \in Nat /\ 1 # 0 /\ TRUE \in BOOLEAN
        OBVIOUS
      <4> QED  BY <2>2, <4>1, SubmitStatus, Zenon
    <3> QED  BY <2>1, <3>1
  <2>3. CASE waiting' = waiting + 1 /\ locked' = TRUE /\ status' = status
    BY <1>1, <2>1, <2>3
  <2> QED  BY <1>8, <2>2, <2>3 DEF Enter
<1>9. CASE ScriptFails \/ TokenIssued
  <2>1. /\ UNCHANGED <<ws, seenStatus>> /\ waiting' = 0
        /\ \E tok : Submit(waiting, tok, locked)
    BY <1>9 DEF ScriptFails, TokenIssued, socketVars
  <2>2. \/ waiting > 0 /\ ws = "open" /\ status' = "running" /\ locked' = locked
        \/ waiting > 0 /\ ws # "open" /\ status' = status /\ locked' = FALSE
        \/ waiting = 0 /\ status' = status /\ locked' = locked
    BY <1>1, <2>1, SubmitStatus
  <2> QED  BY <1>1, <2>1, <2>2
<1>10. CASE Receive
  <2>1. locked' = FALSE /\ status' = "open" /\ ws' = ws /\ seenStatus' = seenStatus
    BY <1>10, ReceiveLemma DEF Receive, socketVars, TInv, TypesInv
  <2> QED  BY <2>1
<1>11. CASE KeyChanged \/ ScriptLoads \/ TokenAges
  BY <1>11 DEF KeyChanged, ScriptLoads, TokenAges, lockVars, socketVars, widgetVars
<1>12. CASE GateReceives \/ GateTurn \/ \E f \in Frames : GateAnswers(f)
  <2>1. UNCHANGED <<socketVars, lockVars, widgetVars>>
    <3>1. \A f : Answers(f) => UNCHANGED <<socketVars, lockVars, widgetVars>>
      BY DEF Answers
    <3> QED  BY <1>12, <3>1, Zenon DEF GateReceives, GateTurn, GateAnswers, browserVars
  <2> QED  BY <2>1 DEF lockVars, socketVars, widgetVars
<1> HIDE DEF StatusOwed
<1> QED
  BY <1>2, <1>3, <1>4, <1>5, <1>6, <1>7, <1>8, <1>9, <1>10, <1>11, <1>12, Zenon DEF TerminalNext

(* The frames on their way *)

(* A turn of the gateway for f moves no other frame, and what it answers to  *)
(* f is on its way.                                                          *)
LEMMA GateKeepsWays ==
  ASSUME TInv, NEW f \in Frames, Frame(f) \/ Answered(f), Answers(f),
         Range(wire) \ {f} \subseteq Range(wire')
  PROVE  /\ \A g \in Frames \ {f} : OnItsWay(g) => OnItsWay(g)'
         /\ \A g \in Frames \ {f} : pc'[g] = pc[g] /\ answers'[g] = answers[g]
         /\ (\E i \in 1..Len(inbox) : inbox[i].frame = f) => OnItsWay(f)'
         /\ answers' # answers => OnItsWay(f)'
<1>1. /\ \A g \in Frames \ {f} : pc'[g] = pc[g] /\ answers'[g] = answers[g]
      /\ \/ inbox' = inbox /\ answers' = answers
         \/ /\ Len(inbox') = Len(inbox) + 1
            /\ inbox'[Len(inbox) + 1].frame = f
            /\ \A i \in 1..Len(inbox) : inbox'[i] = inbox[i]
  BY AnswersLemma DEF TInv, TypesInv
<1>2. Len(inbox) \in Nat
  BY InboxFrames DEF TInv, TypesInv
<1>3. \A g : (\E i \in 1..Len(inbox) : inbox[i].frame = g)
               => \E i \in 1..Len(inbox') : inbox'[i].frame = g
  <2> SUFFICES ASSUME NEW g, NEW i \in 1..Len(inbox), inbox[i].frame = g
               PROVE  i \in 1..Len(inbox') /\ inbox'[i].frame = g
    OBVIOUS
  <2> QED  BY <1>1, <1>2
<1>4. answers' # answers => \E i \in 1..Len(inbox') : inbox'[i].frame = f
  <2> SUFFICES ASSUME answers' # answers
               PROVE  Len(inbox) + 1 \in 1..Len(inbox') /\ inbox'[Len(inbox) + 1].frame = f
    OBVIOUS
  <2> QED  BY <1>1, <1>2
<1>5. \A g \in Frames \ {f} : OnItsWay(g) => OnItsWay(g)'
  BY <1>1, <1>3 DEF OnItsWay, Busy
<1> QED  BY <1>1, <1>3, <1>4, <1>5 DEF OnItsWay

(* The gateway answers a frame it takes from the wire, or has it in hand.    *)
LEMMA GateReceivesOwed ==
  ASSUME TInv, FramesOwed, GateReceives
  PROVE  FramesOwed'
<1> USE DEF TInv, TypesInv
<1>1. PICK f : /\ f = Head(wire) /\ (FrameLost(f) \/ FrameBusy(f) \/ FrameAccepted(f))
               /\ Answers(f) /\ wire' = Tail(wire)
  BY DEF GateReceives
<1>2. wire # <<>> /\ wire \in Seq(inFlight) /\ inFlight \subseteq Frames
  BY DEF GateReceives, QueuesTyped
<1>3. /\ f \in Frames /\ f \in inFlight /\ pc[f] = "unsent" /\ answers[f] = <<>>
  <2>1. f = wire[1] /\ f \in inFlight /\ Len(wire) \in Nat \ {0}
    BY <1>1, <1>2, HeadTailProperties, EmptySeq
  <2> QED  BY <1>2, <2>1 DEF QueuesTrue, WireUnhandled, UnsentUnanswered
<1>4. Range(wire) \ {f} \subseteq Range(wire')
  <2>1. /\ Tail(wire) \in Seq(inFlight) /\ Len(Tail(wire)) = Len(wire) - 1
        /\ \A i \in 1..Len(Tail(wire)) : Tail(wire)[i] = wire[i + 1]
        /\ f = wire[1] /\ Len(wire) \in Nat
    BY <1>1, <1>2, HeadTailProperties, LenProperties
  <2>2. /\ Range(wire) = {wire[i] : i \in 1..Len(wire)}
        /\ Range(Tail(wire)) = {Tail(wire)[i] : i \in 1..Len(Tail(wire))}
    BY <1>2, <2>1, RangeEquality
  <2> SUFFICES ASSUME NEW g \in Range(wire), g # f PROVE g \in Range(Tail(wire))
    BY <1>1
  <2>3. PICK i \in 1..Len(wire) : g = wire[i]
    BY <2>2
  <2>4. i - 1 \in 1..Len(Tail(wire)) /\ Tail(wire)[i - 1] = g
    BY <2>1, <2>3
  <2> QED  BY <2>2, <2>4
<1>5. Frame(f)
  BY <1>1 DEF Frame
<1>6. /\ \A g \in Frames \ {f} : OnItsWay(g) => OnItsWay(g)'
      /\ \A g \in Frames \ {f} : pc'[g] = pc[g] /\ answers'[g] = answers[g]
      /\ answers' # answers => OnItsWay(f)'
  BY <1>1, <1>3, <1>4, <1>5, GateKeepsWays, Zenon
<1>7. inFlight' = inFlight /\ conn' = conn
  BY <1>1 DEF Answers, FrameLost, FrameBusy, FrameAccepted
<1>8. /\ pc \in [Frames -> {"unsent", "lost", "finished"} \cup Awaits]
      /\ answers \in [Frames -> Seq(Kinds)]
  BY DEF Core, TypeOK, Kinds
<1>9. pc'[f] \notin {"auditInvalid", "auditRefused", "auditDone"}
  BY <1>1, <1>3, <1>8 DEF FrameLost, FrameBusy, FrameAccepted
<1>10. AuditsAnswered'
  BY <1>6, <1>9 DEF FramesOwed, AuditsAnswered
<1>11. ASSUME conn' # "closed", pc'[f] # "lost" PROVE OnItsWay(f)'
  <2>1. CASE FrameLost(f)
    BY <1>3, <1>8, <1>11, <2>1 DEF FrameLost
  <2>2. CASE FrameBusy(f)
    <3>1. answers'[f] = Append(answers[f], "busy")
      BY <1>3, <1>8, <2>2 DEF FrameBusy, Send
    <3>2. "busy" \in Kinds /\ <<>> \in Seq(Kinds)
      BY EmptySeq DEF Kinds
    <3>3. Len(Append(<<>>, "busy")) = Len(<<>>) + 1
      BY <3>2, AppendProperties
    <3>4. Len(<<>>) = 0
      BY EmptySeq
    <3>5. answers'[f] # answers[f]
      BY <1>3, <3>1, <3>3, <3>4
    <3> QED  BY <1>6, <3>5
  <2>3. CASE FrameAccepted(f)
    <3>1. Busy(f)' /\ answers' = answers
      BY <1>3, <1>8, <2>3 DEF FrameAccepted, Busy, Awaits
    <3> QED  BY <1>3, <3>1 DEF OnItsWay
  <2> QED  BY <1>1, <2>1, <2>2, <2>3
<1>12. NoneAstray'
  <2> SUFFICES ASSUME conn' # "closed", NEW g \in inFlight, pc'[g] # "lost"
               PROVE  OnItsWay(g)'
    BY <1>7 DEF NoneAstray, LostFrames
  <2>1. CASE g = f
    BY <1>11, <2>1
  <2>2. CASE g # f
    BY <1>2, <1>6, <1>7, <2>2 DEF FramesOwed, NoneAstray, LostFrames
  <2> QED  BY <2>1, <2>2
<1> QED  BY <1>10, <1>12 DEF FramesOwed

(* An invocation that goes on without an answer is still in hand; only the   *)
(* audit lets it end without one, and then it has answered before.           *)
LEMMA GateAnswersOwed ==
  ASSUME TInv, FramesOwed, NEW f \in Frames, GateAnswers(f)
  PROVE  FramesOwed'
<1> USE DEF TInv, TypesInv
<1>1. /\ Answered(f) /\ Answers(f) /\ wire' = wire /\ conn = "open" /\ Busy(f)
      /\ pc' \in [Frames -> {"unsent", "lost", "finished"} \cup Awaits]
  BY AnsweredMoves, CorePreserved DEF GateAnswers, Core, Next, TypeOK
<1>2. /\ \A g \in Frames \ {f} : OnItsWay(g) => OnItsWay(g)'
      /\ \A g \in Frames \ {f} : pc'[g] = pc[g] /\ answers'[g] = answers[g]
      /\ (\E i \in 1..Len(inbox) : inbox[i].frame = f) => OnItsWay(f)'
      /\ answers' # answers => OnItsWay(f)'
  BY <1>1, GateKeepsWays, Zenon
<1>3. inFlight' = inFlight
  BY <1>1 DEF Answers
<1>4. /\ pc \in [Frames -> {"unsent", "lost", "finished"} \cup Awaits]
      /\ answers \in [Frames -> Seq(Kinds)]
  BY DEF Core, TypeOK, Kinds
<1>5. \A kind \in Kinds : Send(f, kind) => answers'[f] # <<>> /\ answers' # answers
  <2> SUFFICES ASSUME NEW kind \in Kinds, Send(f, kind)
               PROVE  answers'[f] # <<>> /\ answers' # answers
    OBVIOUS
  <2>1. answers[f] \in Seq(Kinds) /\ answers'[f] = Append(answers[f], kind)
    BY <1>1, <1>4 DEF Send
  <2>2. answers'[f] # <<>> /\ Len(answers'[f]) = Len(answers[f]) + 1 /\ Len(answers[f]) \in Nat
    BY <2>1, AppendProperties, LenProperties
  <2> QED  BY <2>2
<1>6. \/ answers'[f] # <<>> /\ answers' # answers
      \/ answers' = answers /\ pc'[f] \in {"rateLimit", "acquire", "sandbox"}
      \/ answers' = answers /\ pc'[f] = "finished"
         /\ pc[f] \in {"auditInvalid", "auditRefused", "auditDone"}
  <2> USE <1>4, <1>5 DEF Kinds
  <2>1. CASE ChallengePassed(f) \/ CommandStarts(f) \/ SandboxAcquired(f)
    BY <2>1 DEF ChallengePassed, CommandStarts, SandboxAcquired, Goto
  <2>2. CASE \/ ChallengeFailed(f) \/ RateLimited(f) \/ Invalid(f) \/ PoolExhausted(f)
             \/ CommandDone(f) \/ AwaitThrows(f)
    BY <2>2 DEF ChallengeFailed, RateLimited, Invalid, PoolExhausted, CommandDone, AwaitThrows,
                Throw
  <2>3. CASE Audited(f)
    BY <2>3 DEF Audited, Finish
  <2> QED  BY <1>1, <2>1, <2>2, <2>3 DEF Answered
<1>7. AuditsAnswered'
  BY <1>2, <1>6 DEF FramesOwed, AuditsAnswered
<1>8. ASSUME f \in inFlight PROVE OnItsWay(f)'
  <2>1. OnItsWay(f)
    BY <1>1, <1>8 DEF FramesOwed, NoneAstray, LostFrames, Busy, Awaits
  <2>2. f \notin Range(wire)
    <3>1. Range(wire) = {wire[i] : i \in 1..Len(wire)}
      BY RangeEquality DEF QueuesTyped
    <3> QED  BY <1>1, <3>1 DEF QueuesTrue, WireUnhandled, Busy, Awaits
  <2>3. CASE \E i \in 1..Len(inbox) : inbox[i].frame = f
    BY <1>2, <2>3
  <2>4. CASE answers[f] = <<>>
    <3>1. \/ answers' # answers
          \/ answers' = answers /\ pc'[f] \in {"rateLimit", "acquire", "sandbox"}
      BY <1>6, <2>4 DEF FramesOwed, AuditsAnswered
    <3>2. answers' = answers /\ pc'[f] \in {"rateLimit", "acquire", "sandbox"} => OnItsWay(f)'
      BY <2>4 DEF OnItsWay, Busy, Awaits
    <3> QED  BY <1>2, <3>1, <3>2
  <2> QED  BY <2>1, <2>2, <2>3, <2>4 DEF OnItsWay
<1>9. NoneAstray'
  <2> SUFFICES ASSUME NEW g \in inFlight, pc'[g] # "lost" PROVE OnItsWay(g)'
    BY <1>3 DEF NoneAstray, LostFrames
  <2>1. CASE g = f
    BY <1>8, <2>1
  <2>2. CASE g # f
    BY <1>1, <1>2, <2>2 DEF FramesOwed, NoneAstray, LostFrames, QueuesTyped
  <2> QED  BY <2>1, <2>2
<1> QED  BY <1>7, <1>9 DEF FramesOwed

(* What is submitted goes onto the wire behind what is there.                *)
LEMMA SubmitOwed ==
  ASSUME TInv, FramesOwed, NEW n, n \in 0..Cardinality(Unsent), NEW tok, NEW held,
         Submit(n, tok, held), UNCHANGED <<vars, inbox>>
  PROVE  FramesOwed'
<1> USE DEF TInv, TypesInv
<1>1. pc' = pc /\ answers' = answers /\ conn' = conn
  BY DEF vars
<1>2. AuditsAnswered'
  BY <1>1 DEF FramesOwed, AuditsAnswered
<1>3. CASE n > 0 /\ ws = "open"
  <2>1. n \in 1..Cardinality(Unsent)
    BY <1>3, UnsentFinite
  <2>2. PICK sent \in Seq(Unsent) : Sends(sent, n, tok, held)
    BY <1>3, <2>1, SubmitLemma, Zenon
  <2>3. Range(wire) \cup Range(sent) \subseteq Range(wire') /\ inFlight' = inFlight \cup Range(sent)
    BY <2>2 DEF Sends
  <2>4. \A f \in inFlight : OnItsWay(f) => OnItsWay(f)'
    BY <1>1, <2>3 DEF OnItsWay, Busy
  <2>5. \A f \in Range(sent) : OnItsWay(f)'
    BY <2>3 DEF OnItsWay
  <2>6. NoneAstray'
    BY <1>1, <2>3, <2>4, <2>5 DEF FramesOwed, NoneAstray, LostFrames
  <2> QED  BY <1>2, <2>6 DEF FramesOwed
<1>4. CASE ~(n > 0 /\ ws = "open")
  <2>1. UNCHANGED <<wire, inFlight>>
    BY <1>4, Zenon DEF Submit
  <2>2. NoneAstray'
    BY <1>1, <2>1 DEF FramesOwed, NoneAstray, LostFrames, OnItsWay, Busy
  <2> QED  BY <1>2, <2>2 DEF FramesOwed
<1> QED  BY <1>3, <1>4

(* An answer that is received takes its frame out of those in flight.        *)
LEMMA ReceiveOwed ==
  ASSUME TInv, FramesOwed, Receive
  PROVE  FramesOwed'
<1> USE DEF TInv, TypesInv
<1>1. /\ pc' = pc /\ answers' = answers /\ conn' = conn /\ wire' = wire
      /\ inbox # <<>> /\ inbox \in Seq(Answer) /\ inbox' = Tail(inbox)
      /\ inFlight' = inFlight \ {inbox[1].frame}
  BY ReceiveLemma DEF Receive, vars
<1>2. /\ Len(inbox) \in Nat /\ Len(inbox') = Len(inbox) - 1
      /\ \A i \in 1..Len(inbox') : inbox'[i] = inbox[i + 1]
  BY <1>1, HeadTailProperties, LenProperties
<1>3. \A f \in inFlight' : OnItsWay(f) => OnItsWay(f)'
  <2> SUFFICES ASSUME NEW f, f # inbox[1].frame, NEW i \in 1..Len(inbox), inbox[i].frame = f
               PROVE  \E j \in 1..Len(inbox') : inbox'[j].frame = f
    BY <1>1 DEF OnItsWay, Busy
  <2>1. i - 1 \in 1..Len(inbox') /\ inbox'[i - 1] = inbox[i]
    BY <1>2
  <2> QED  BY <2>1
<1>4. NoneAstray'
  BY <1>1, <1>3 DEF FramesOwed, NoneAstray, LostFrames
<1>5. AuditsAnswered'
  BY <1>1 DEF FramesOwed, AuditsAnswered
<1> QED  BY <1>4, <1>5 DEF FramesOwed

LEMMA FramesStayOwed ==
  ASSUME TInv, FramesOwed, [TerminalNext]_allVars
  PROVE  FramesOwed'
<1> USE DEF TInv, TypesInv
<1>1. ASSUME UNCHANGED <<vars, wire, inbox, inFlight>> PROVE FramesOwed'
  <2>1. pc' = pc /\ answers' = answers /\ conn' = conn
    BY <1>1 DEF vars
  <2> QED  BY <1>1, <2>1
           DEF FramesOwed, AuditsAnswered, NoneAstray, LostFrames, OnItsWay, Busy
<1>2. CASE UNCHANGED allVars \/ SocketOpens \/ KeyChanged \/ Commit \/ ScriptLoads \/ TokenAges
  <2>1. UNCHANGED <<vars, wire, inbox, inFlight>>
    BY <1>2 DEF allVars, browserVars, frameVars, SocketOpens, KeyChanged, Commit, ScriptLoads,
                TokenAges
  <2> QED  BY <1>1, <2>1
<1>3. CASE Reconnect \/ CommitNewKey
  <2>1. inFlight' = {} /\ \A f \in Frames : pc'[f] \in {"unsent", "finished"}
    BY <1>3 DEF Reconnect, CommitNewKey, Connect
  <2> QED  BY <2>1 DEF FramesOwed, AuditsAnswered, NoneAstray
<1>4. CASE SocketCloses
  <2>1. conn' = "closed" /\ pc' = pc /\ answers' = answers
    BY <1>4 DEF SocketCloses, Close, vars
  <2> QED  BY <2>1 DEF FramesOwed, AuditsAnswered, NoneAstray
<1>5. CASE Enter
  <2>1. /\ UNCHANGED <<vars, inbox>> /\ 1 \in 0..Cardinality(Unsent)
        /\ \/ Submit(1, cachedToken, TRUE)
           \/ UNCHANGED <<wire, inFlight>>
    <3>1. Cardinality(Unsent) > waiting /\ waiting \in Nat /\ Cardinality(Unsent) \in Nat
      <4>1. waiting \in 0..Cardinality(Unsent)
        BY DEF WaitingTyped
      <4> QED  BY <1>5, <4>1, UnsentFinite DEF Enter
    <3>2. 1 \in 0..Cardinality(Unsent)
      BY <3>1
    <3> QED  BY <1>5, <3>2, Zenon DEF Enter
  <2>2. CASE Submit(1, cachedToken, TRUE)
    BY <2>1, <2>2, SubmitOwed, Zenon
  <2> QED  BY <1>1, <2>1, <2>2
<1>6. CASE ScriptFails \/ TokenIssued
  <2>1. /\ UNCHANGED <<vars, inbox>> /\ waiting \in 0..Cardinality(Unsent)
        /\ \E tok : Submit(waiting, tok, locked)
    BY <1>6 DEF ScriptFails, TokenIssued, WaitingTyped
  <2> QED  BY <2>1, SubmitOwed, Zenon
<1>7. CASE Receive
  BY <1>7, ReceiveOwed
<1>8. CASE GateReceives
  BY <1>8, GateReceivesOwed
<1>9. CASE \E f \in Frames : GateAnswers(f)
  BY <1>9, GateAnswersOwed
<1>10. CASE GateTurn
  <2>1. /\ UNCHANGED <<wire, inbox, inFlight>>
        /\ pc' = pc /\ answers' = answers
        /\ conn' # "closed" => conn # "closed"
    BY <1>10 DEF GateTurn, Opened, LookupFails, ChallengeExpires, browserVars, frameVars
  <2> QED  BY <2>1 DEF FramesOwed, AuditsAnswered, NoneAstray, LostFrames, OnItsWay, Busy
<1> QED
  BY <1>2, <1>3, <1>4, <1>5, <1>6, <1>7, <1>8, <1>9, <1>10, Zenon DEF TerminalNext

(* No wake-up of a locked input is lost: whenever it waits for no token, and *)
(* React has nothing to commit, each frame in flight that the gateway has    *)
(* not lost is on the wire, in the gateway's hand or answered.  With the     *)
(* fairness of TerminalFairSpec this is what LockReleased rests on.          *)
THEOREM LockIsAlwaysOwed == TerminalSpec => []LockIsOwed
<1> DEFINE Owed == TInv /\ StatusOwed /\ FramesOwed
<1>1. TerminalInit => Owed
  BY TerminalInitEstablishes, OwedInitially
<1>2. Owed /\ [TerminalNext]_allVars => Owed'
  <2> SUFFICES ASSUME Owed, [TerminalNext]_allVars PROVE Owed'
    OBVIOUS
  <2>1. TInv'
    BY TerminalNextPreserves
  <2>2. StatusOwed'
    BY <2>1, StatusStaysOwed
  <2>3. FramesOwed'
    BY FramesStayOwed
  <2> QED  BY <2>1, <2>2, <2>3
<1>3. Owed => LockIsOwed
  BY OwedImplies
<1> QED  BY <1>1, <1>2, <1>3, PTL DEF TerminalSpec

-----------------------------------------------------------------------------
(* The tokens of the frames change when frames are submitted, answered or    *)
(* given up with their socket.                                               *)
LEMMA SubmitTokens ==
  ASSUME NEW n, NEW tok, NEW held, Submit(n, tok, held)
  PROVE  \A f \in Frames : token'[f] = tok \/ token'[f] = token[f]
  BY Zenon DEF Submit

(* A token whose refusal has reached the page is not sent again: refresh()   *)
(* has dropped it from the cache before the next command can take it.        *)
THEOREM RefusedNeverReused == TerminalSpec => RefusedTokenNotReused
<1>1. ASSUME TInv, [TerminalNext]_allVars
      PROVE  [\A f \in Frames : token'[f] # token[f] => token'[f] \notin refused]_allVars
  <2> SUFFICES ASSUME TerminalNext, NEW f \in Frames, token'[f] # token[f]
               PROVE  token'[f] \notin refused
    BY <1>1
  <2>1. NullToken \notin refused /\ cachedToken \notin refused /\ issued + 1 \notin refused
    BY <1>1 DEF TInv, TypesInv, NeverRefusedCached, TokensTyped
  <2>2. CASE Reconnect \/ CommitNewKey
    BY <2>1, <2>2 DEF Reconnect, CommitNewKey, Connect
  <2>3. CASE Enter
    BY <2>1, <2>3, SubmitTokens DEF Enter
  <2>4. CASE ScriptFails
    BY <2>1, <2>4, SubmitTokens DEF ScriptFails
  <2>5. CASE TokenIssued
    BY <2>1, <2>5, SubmitTokens DEF TokenIssued
  <2>6. CASE Receive
    <3>1. token'[f] = NullToken \/ token'[f] = token[f]
      <4>1. PICK g : token' = [token EXCEPT ![g] = NullToken]
        BY <2>6 DEF Receive
      <4>2. token \in [Frames -> 0..issued]
        BY <1>1 DEF TInv, TypesInv, TokensTyped
      <4> QED  BY <4>1, <4>2
    <3> QED  BY <2>1, <3>1
  <2>7. CASE SocketOpens \/ SocketCloses \/ KeyChanged \/ Commit \/ ScriptLoads \/ TokenAges
    BY <2>7 DEF SocketOpens, SocketCloses, KeyChanged, Commit, ScriptLoads, TokenAges, frameVars
  <2>8. CASE GateReceives \/ GateTurn \/ \E g \in Frames : GateAnswers(g)
    BY <2>8 DEF GateReceives, GateTurn, GateAnswers, Answers, browserVars, frameVars
  <2> QED  BY <2>2, <2>3, <2>4, <2>5, <2>6, <2>7, <2>8 DEF TerminalNext
<1> QED  BY <1>1, TerminalInvariant, PTL DEF TerminalSpec, RefusedTokenNotReused
=============================================================================
