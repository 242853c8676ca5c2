---------------------------- MODULE TerminalSession ----------------------------
(***************************************************************************)
(* The browser's end of a session composed with the gateway's: the hook    *)
(* useTerminalSocket, the submit path and the callbacks of Terminal.jsx,   *)
(* and the Turnstile client, over a socket whose other end is WsSession.   *)
(*                                                                         *)
(* An action is one turn of the browser's event loop (a key, a frame, a    *)
(* socket event, a React commit with its effects, a callback of the        *)
(* widget), or one turn of the gateway.  React may commit late: status is  *)
(* what setStatus stored, seenStatus what the last commit saw.  The two    *)
(* directions of the socket are queues.                                    *)
(***************************************************************************)
EXTENDS WsSession

CONSTANTS
  Sockets,     \* bound: sockets the page opens in all
  Tokens,      \* bound: tokens the widget issues
  KeyChanges   \* bound: times the stored API key changes

ASSUME TerminalSessionAssumption ==
  /\ Sockets \in Nat \ {0} /\ Tokens \in Nat /\ KeyChanges \in Nat
  /\ IsFiniteSet(Frames)

VARIABLES
  ws,             \* readyState of wsRef.current
  status,         \* the hook's state; "error" is followed by "closed"
  seenStatus,     \* socketStatusRef: status at the last commit
  locked,         \* lockedRef
  storedKey,      \* which key localStorage holds
  socketKey,      \* the key of the last commit, which the socket was opened with
  sockets,        \* sockets opened so far
  script,         \* scriptPromise: a rejected one is kept for ever
  executing,      \* the widget runs a challenge whose callback is still to come
  cachedToken,    \* 0 is null, also for a token older than TOKEN_TTL_MS
  issued,         \* the tokens are 1..issued
  waiting,        \* submissions that await getToken()
  wire,           \* frames on their way to the gateway
  inbox,          \* answers on their way to the browser
  token,          \* the turnstileToken of each frame in flight
  inFlight,       \* frames sent on this socket and not answered yet
  refused,        \* history: tokens whose challenge-required was received
  unlockedEarly   \* history: the input was unlocked during getToken()

socketVars == <<ws, storedKey, socketKey, sockets>>
lockVars   == <<status, seenStatus, locked, unlockedEarly>>
widgetVars == <<script, executing, cachedToken, issued, waiting>>
frameVars  == <<wire, inbox, token, inFlight, refused>>
browserVars == <<socketVars, lockVars, widgetVars, frameVars>>
allVars == <<vars, browserVars>>

NullToken == 0

TerminalTypeOK ==
  /\ TypeOK
  /\ ws \in {"connecting", "open", "closed"}
  /\ {status, seenStatus} \subseteq {"connecting", "open", "running", "closed"}
  /\ {locked, executing, unlockedEarly} \subseteq BOOLEAN
  /\ storedKey \in 0..KeyChanges /\ socketKey \in 0..storedKey
  /\ sockets \in 1..Sockets
  /\ script \in {"loading", "loaded", "failed"}
  /\ issued \in 0..Tokens /\ cachedToken \in 0..issued
  /\ inFlight \subseteq Frames
  /\ wire \in Seq(inFlight) /\ IsInjective(wire)
  /\ waiting \in 0..Cardinality({f \in Frames : pc[f] = "unsent"} \ inFlight)
  /\ inbox \in Seq([frame : Frames, kind : {"error", "busy", "challenge-required", "done"}])
  /\ token \in [Frames -> 0..issued]
  /\ refused \subseteq 0..issued

(* The mount effects: connect(), and getToken() of a fresh client. *)
TerminalInit ==
  /\ Init
  /\ ws = "connecting" /\ status = "connecting" /\ seenStatus = "connecting"
  /\ locked = FALSE /\ unlockedEarly = FALSE
  /\ storedKey = 0 /\ socketKey = 0 /\ sockets = 1
  /\ script = "loading" /\ executing = FALSE
  /\ cachedToken = NullToken /\ issued = 0 /\ waiting = 0
  /\ wire = <<>> /\ inbox = <<>>
  /\ token = [f \in Frames |-> NullToken]
  /\ inFlight = {} /\ refused = {}

-----------------------------------------------------------------------------
(* The socket *)

(* connect() makes a new socket: the gateway serves it with a fresh closure. *)
(* The frames of the old one are spent, and its events are ignored because   *)
(* wsRef.current is no longer it; what the gateway still does for them is    *)
(* seen by nobody here.                                                      *)
Connect ==
  /\ sockets < Sockets
  /\ sockets' = sockets + 1
  /\ ws' = "connecting"
  /\ status' = "connecting"
  /\ wire' = <<>> /\ inbox' = <<>> /\ inFlight' = {}
  /\ conn' = "opening" /\ running' = FALSE /\ activeAbort' = NoFrame
  /\ fresh' = FALSE /\ sinceChallenge' = 0 /\ credit' = 0
  /\ pc' = [f \in Frames |-> IF pc[f] = "unsent" /\ f \notin inFlight THEN "unsent" ELSE "finished"]
  /\ signal' = {} /\ ran' = {} /\ logged' = {}
  /\ answers' = [f \in Frames |-> <<>>]
  /\ audit' = [f \in Frames |-> "none"]
  /\ token' = [f \in Frames |-> NullToken]
  /\ UNCHANGED refused

(* The Reconnect button, shown while the last commit says closed. *)
Reconnect ==
  /\ seenStatus = "closed"
  /\ ws = "closed"
  /\ storedKey # socketKey => sockets + 1 < Sockets
  /\ Connect
  /\ UNCHANGED <<storedKey, socketKey, seenStatus, locked, unlockedEarly, widgetVars>>

SocketOpens ==
  /\ ws = "connecting"
  /\ ws' = "open"
  /\ status' = "open"
  /\ UNCHANGED <<vars, storedKey, socketKey, sockets, seenStatus, locked, unlockedEarly,
                 widgetVars, frameVars>>

(* The gateway closed the socket, or the network did. *)
SocketCloses ==
  /\ ws # "closed"
  /\ ws' = "closed"
  /\ status' = "closed"
  /\ wire' = <<>> /\ inbox' = <<>>
  /\ (Close \/ (conn = "closed" /\ UNCHANGED vars))
  /\ UNCHANGED <<storedKey, socketKey, sockets, seenStatus, locked, unlockedEarly,
                 widgetVars, token, inFlight, refused>>

(* A login or a logout, in this tab's header or in another tab. *)
KeyChanged ==
  /\ storedKey < KeyChanges
  /\ sockets < Sockets
  /\ storedKey' = storedKey + 1
  /\ UNCHANGED <<vars, ws, socketKey, sockets, lockVars, widgetVars, frameVars>>

(* A commit and its effects.  The status effect runs when the status is not  *)
(* the last commit's; the key is read on every render, and a new one changes *)
(* connect, whose effect closes the socket and opens another.                *)
StatusEffect ==
  /\ seenStatus' = status
  /\ locked' = IF status = seenStatus THEN locked ELSE status = "running"
  /\ unlockedEarly' = (unlockedEarly \/ (waiting > 0 /\ ~locked'))

Commit ==
  /\ status # seenStatus
  /\ socketKey = storedKey
  /\ StatusEffect
  /\ UNCHANGED <<vars, socketVars, status, widgetVars, frameVars>>

CommitNewKey ==
  /\ socketKey # storedKey
  /\ socketKey' = storedKey
  /\ StatusEffect
  /\ Connect
  /\ UNCHANGED <<storedKey, widgetVars>>

-----------------------------------------------------------------------------
(* Commands and tokens *)

Unsent == {f \in Frames : pc[f] = "unsent"} \ inFlight

(* submitCommand, n times in a row.  It looks at readyState, not at status.  *)
(* A submission it turns down unlocks the input, as handleSubmit does.       *)
Submit(n, tok, held) ==
  LET sent == CHOOSE s \in [1..n -> Unsent] : IsInjective(s)
  IN  IF n > 0 /\ ws = "open"
      THEN /\ status' = "running"
           /\ locked' = held
           /\ wire' = wire \o sent
           /\ inFlight' = inFlight \cup Range(sent)
           /\ token' = [f \in Frames |-> IF f \in Range(sent) THEN tok ELSE token[f]]
      ELSE /\ locked' = (held /\ n = 0)
           /\ UNCHANGED <<status, wire, inFlight, token>>

(* (mutated form of Enter: the input is locked by the status effect alone) *)
EnterUnlocked ==
  /\ seenStatus = "open" /\ ~locked
  /\ cachedToken # NullToken /\ Unsent # {}
  /\ Submit(1, cachedToken, FALSE)
  /\ UNCHANGED <<vars, socketVars, seenStatus, unlockedEarly, widgetVars, inbox, refused>>

(* Enter, with a command for the gateway in the buffer.  getToken() answers  *)
(* in this turn when it has a cached token, or when the script has failed;   *)
(* otherwise refresh() has the widget run a challenge.                       *)
Enter ==
  /\ seenStatus = "open" /\ ~locked
  /\ Cardinality(Unsent) > waiting
  /\ IF cachedToken # NullToken \/ script = "failed"
     THEN Submit(1, cachedToken, TRUE) /\ UNCHANGED <<waiting, executing>>
     ELSE /\ waiting' = waiting + 1
          /\ executing' = (script = "loaded")
          /\ locked' = TRUE
          /\ UNCHANGED <<status, wire, inFlight, token>>
  /\ UNCHANGED <<vars, socketVars, seenStatus, unlockedEarly, script, cachedToken, issued,
                 inbox, refused>>

(* The script arrives: everybody who awaits it goes on in refresh().         *)
ScriptLoads ==
  /\ script = "loading"
  /\ script' = "loaded"
  /\ executing' = TRUE
  /\ UNCHANGED <<vars, socketVars, lockVars, cachedToken, issued, waiting, frameVars>>

(* It does not: getToken() rejects, now and from now on, and handleSubmit    *)
(* sends null instead of a token.                                            *)
ScriptFails ==
  /\ script = "loading"
  /\ script' = "failed"
  /\ waiting' = 0
  /\ Submit(waiting, NullToken, locked)
  /\ UNCHANGED <<vars, socketVars, seenStatus, unlockedEarly, executing, cachedToken, issued,
                 inbox, refused>>

(* (mutated form of TokenIssued: pendingResolvers is not emptied) *)
TokenIssuedToAllAgain ==
  /\ executing /\ issued < Tokens
  /\ issued' = issued + 1 /\ cachedToken' = issued + 1
  /\ executing' = FALSE
  /\ Submit(waiting, issued + 1, locked)
  /\ UNCHANGED <<vars, socketVars, seenStatus, unlockedEarly, script, waiting, inbox, refused>>

(* handleToken, which the widget calls when the challenge is passed, and     *)
(* only then.                                                                *)
TokenIssued ==
  /\ executing /\ issued < Tokens
  /\ issued' = issued + 1 /\ cachedToken' = issued + 1
  /\ executing' = FALSE
  /\ waiting' = 0
  /\ Submit(waiting, issued + 1, locked)
  /\ UNCHANGED <<vars, socketVars, seenStatus, unlockedEarly, script, inbox, refused>>

TokenAges ==
  /\ cachedToken # NullToken
  /\ cachedToken' = NullToken
  /\ UNCHANGED <<vars, socketVars, lockVars, script, executing, issued, waiting, frameVars>>

-----------------------------------------------------------------------------
(* Answers *)

(* (mutated form of Settles: only the end of the command settles it) *)
SettlesWhenDone(kind) == kind \in {"done", "challenge-required"}

(* (mutated form of Settles: the hook has no case for challenge-required) *)
SettlesUnlessRefused(kind) == kind # "challenge-required"

(* done, error and challenge-required all make the status open again.        *)
Settles(kind) == kind \in {"done", "error", "busy", "challenge-required"}

(* (mutated form of Refresh: getToken() instead of refresh()) *)
RefreshIfAged ==
  /\ executing' = (executing \/ (script = "loaded" /\ cachedToken = NullToken))
  /\ UNCHANGED cachedToken

(* refresh(): the cached token is dropped and a challenge run.               *)
Refresh ==
  /\ cachedToken' = IF script = "loaded" THEN NullToken ELSE cachedToken
  /\ executing' = (executing \/ script = "loaded")

(* The message listener and the callback it calls, which unlocks the input.  *)
(* An answer is taken for the end of whatever command is running.            *)
Receive ==
  /\ inbox # <<>>
  /\ LET f == Head(inbox).frame
         kind == Head(inbox).kind
     IN  /\ inbox' = Tail(inbox)
         /\ inFlight' = inFlight \ {f}
         /\ token' = [token EXCEPT ![f] = NullToken]
         /\ IF Settles(kind)
            THEN status' = "open" /\ locked' = FALSE
            ELSE UNCHANGED <<status, locked>>
         /\ unlockedEarly' = (unlockedEarly \/ (waiting > 0 /\ ~locked'))
         /\ IF kind = "challenge-required"
            THEN Refresh /\ refused' = refused \cup ({token[f]} \ {NullToken})
            ELSE UNCHANGED <<cachedToken, executing, refused>>
  /\ UNCHANGED <<vars, socketVars, seenStatus, script, issued, waiting, wire>>

-----------------------------------------------------------------------------
(* The gateway's end *)

(* What the step answers to f is on its way to the browser. *)
Answers(f) ==
  /\ inbox' = IF answers'[f] = answers[f] THEN inbox
              ELSE Append(inbox, [frame |-> f, kind |-> Last(answers'[f])])
  /\ UNCHANGED <<socketVars, lockVars, widgetVars, token, inFlight, refused>>

(* A frame arrives: in the listener, or before there is one. *)
GateReceives ==
  /\ wire # <<>>
  /\ wire' = Tail(wire)
  /\ LET f == Head(wire)
     IN  (FrameLost(f) \/ FrameBusy(f) \/ FrameAccepted(f)) /\ Answers(f)

(* Turnstile passes no frame that has no token.  What the gateway still does *)
(* once the connection is closed reaches no browser: see WsSession.          *)
GateAnswers(f) ==
  /\ conn = "open"
  /\ Answered(f)
  /\ ChallengePassed(f) => token[f] # NullToken
  /\ Answers(f)
  /\ UNCHANGED wire

GateTurn ==
  /\ Opened \/ LookupFails \/ ChallengeExpires
  /\ UNCHANGED browserVars

-----------------------------------------------------------------------------
TerminalNext ==
  \/ Reconnect \/ SocketOpens \/ SocketCloses \/ KeyChanged \/ Commit \/ CommitNewKey
  \/ Enter \/ ScriptLoads \/ ScriptFails \/ TokenIssued \/ TokenAges \/ Receive
  \/ GateReceives \/ GateTurn \/ \E f \in Frames : GateAnswers(f)

TerminalSpec == TerminalInit /\ [][TerminalNext]_allVars

(* React commits, the browser hears of the end of its socket and handles     *)
(* what has arrived, the network delivers or breaks, and the gateway keeps   *)
(* FairSpec's promises.  The user, the network's health, Turnstile and the   *)
(* API key owe nothing.                                                      *)
TerminalFairSpec ==
  /\ TerminalSpec
  /\ WF_allVars(Commit \/ CommitNewKey)
  /\ WF_allVars(Receive)
  /\ WF_allVars(GateReceives)
  /\ WF_allVars(Opened /\ UNCHANGED browserVars)
  /\ WF_allVars(conn = "closed" /\ SocketCloses)
  /\ \A f \in Frames : WF_allVars(GateAnswers(f))

-----------------------------------------------------------------------------
(* The frames of this socket the gateway never saw, or answered a second     *)
(* time after its done.                                                      *)
LostFrames == {f \in inFlight : pc[f] = "lost"}
AnsweredTwice == {f \in Frames : Len(answers[f]) > 1}

(* frontend/TECH.md:160: between exec and its answer the input is locked and *)
(* the status says running, so one frame at a time is in flight.  That holds *)
(* but for the two ways the code has to lose the lock: an unlock during      *)
(* getToken(), by a commit (Terminal.jsx:185) or a late answer, and a second *)
(* answer to an earlier frame, which is taken for the answer to this one     *)
(* (useTerminalSocket.js:98).                                                *)
LockHolds ==
  ws = "open" /\ inFlight # {} /\ ~unlockedEarly /\ AnsweredTwice = {} =>
    locked /\ status = "running" /\ Cardinality(inFlight) = 1

(* The status never stays running on a socket that has nothing to answer:    *)
(* the user could never submit again (useTerminalSocket.js:101-105).         *)
RunningIsTrue == ws = "open" /\ status = "running" => inFlight # {}

(* f is on the wire, the gateway has it in hand, or its answer is on its way. *)
OnItsWay(f) ==
  \/ f \in Range(wire)
  \/ Busy(f) /\ answers[f] = <<>>
  \/ \E i \in 1..Len(inbox) : inbox[i].frame = f

(* No wake-up is lost: whatever a locked input waits for is on its way.  A   *)
(* token is awaited, or React has a status to commit, or the browser is      *)
(* about to hear that its socket is gone, or every frame in flight that the  *)
(* gateway has not lost is still to be answered.                             *)
LockIsOwed ==
  locked /\ waiting = 0 /\ status = seenStatus /\ conn # "closed" =>
    /\ inFlight # {}
    /\ \A f \in inFlight \ LostFrames : OnItsWay(f)

(* A token that was refused is not sent again once the refusal has been      *)
(* received: the retry the user is asked for has a chance to pass.           *)
RefusedTokenNotReused ==
  [][\A f \in Frames : token'[f] # token[f] => token'[f] \notin refused]_allVars

(* useTerminalSocket.js:20-22: no live terminal is there to be interrupted   *)
(* when the API key changes.  But AuthStatus logs out in the header of the   *)
(* terminal's own page, and the commit of the next "running" replaces the    *)
(* socket under the command that has just been sent.                         *)
KeyChangeSparesCommand == [][socketKey' # socketKey => inFlight = {}]_allVars

(* A locked input is unlocked again, unless the gateway lost the frame that  *)
(* arrived before it listened (wsHandler.js:155), or Turnstile never calls   *)
(* back (turnstile.js:86): both leave the terminal locked for good.          *)
LockReleased == locked ~> (~locked \/ LostFrames # {} \/ waiting > 0)
=============================================================================
