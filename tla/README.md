# LinuxCLI: a TLA+ verification project

LinuxCLI runs single network commands (`dig`, `ping`, `curl`, ...) for visitors of a web
page, each in a one-shot Docker sandbox. This directory holds TLA+ models of the parts of it
that are hard to test, the TLC configurations that check them, and TLAPS proofs.

`tlc -config X.cfg M.tla` runs a configuration, `tlapm M.tla` checks a module's proofs; the
module each configuration belongs to is in the table of runs below. Source paths are relative
to the repository; `pool.js` without a directory is `backend/src/orchestrator/pool.js`.

## 1. Inventory

### How the parts interact

```
 browser                          backend (one Node process)                    services
 Terminal.jsx                     gateway/server.js  (HTTP, upgrade)
   useTerminalSocket.js  --WS-->    gateway/wsHandler.js handleConnection
   turnstile.js (token)               |- abuse/apiKey.js lookupApiKey            MongoDB
   auth.js (API key)                  |- abuse/turnstile.js verifyTurnstile      Cloudflare
                                      |- abuse/rateLimiter.js checkRateLimit     Redis
                                      |- validator/validate.js (pure)
                                      |- orchestrator/sandbox.js runCommand
                                      |    |- orchestrator/pool.js acquire/destroy   Docker
                                      |- audit/logger.js logCommand              MongoDB
 LoginView, AccountView --HTTP--> gateway/server.js register/login/logout/delete/OAuth
                                      |- users/users.js, oauth/*.js, abuse/apiKey.js
```

Node runs one turn at a time. Everything that is shared is shared between turns: what is read
before an `await` may be stale after it. That is the concurrency of this program, and the
models have one action per turn.

### Components

| Component | State | Operations | Hard behaviour | What makes it correct |
|---|---|---|---|---|
| Sandbox pool (`pool.js`) | `idle`, `liveCount`, `refilling`; the daemon's containers | `start`, `acquire`, `_createOne`, `_refillTo`, `destroy`, `drain` | acquirers, a background refill and destroys interleave at Docker awaits; any Docker call fails; the process dies and forgets its containers | one owner per container, never used twice, exact counter, one refill loop, bounded overrun of the ceiling |
| Command execution (`sandbox.js`) | per call: flags, timer, listener, byte count, the sandbox | `runCommand` | end, timeout, abort and output limit race; failures on every path through the `finally` | the sandbox is given up, the result says what happened, the call settles |
| Process (`index.js`) | listening or not, shutting down | `main`, `shutdown` | SIGTERM during commands and refills, restart by systemd | the pool is warm before listening, shutdown ends |
| WebSocket session (`wsHandler.js`) | `running`, `activeAbort`, `turnstilePassedAt`, `commandsSinceChallenge` | message, close | frames and the close arrive at any of five awaits; each awaited service may fail | one command at a time, the right command is aborted, the challenge budget, one answer, a trace of what ran |
| Rate limiter (`rateLimiter.js`) | two sorted sets per identity in Redis | `checkRateLimit` | lazy trimming, key expiry, edges of the window, a failure between the two windows | never more than the limit in any window; no refusal without cause |
| Turnstile verification, audit log | none; `audit_logs` | `verifyTurnstile`, `logCommand` | failures, timeouts | as part of the session |
| HTTP gateway and accounts (`server.js`, `apiKey.js`, `users.js`, `password.js`) | `users`, `api_keys` | register, login, logout, delete account, key request, key lookup | find-then-insert and revoke-then-insert in separate round trips, sliding expiry | one account per person, few sessions per user and few keys per address, a login ends what was there before |
| OAuth (`oauth/*.js`) | state nonces in Redis | start, callback | get and delete in two round trips | a nonce that was used up serves no later callback |
| Command validator (`validator/`) | none (pure) | `tokenize`, `validateCommand`, eight tools | quoting, numeric edges | what passes has only listed options and bounded numbers |
| Terminal socket hook (`useTerminalSocket.js`), Turnstile client, submit flow of `Terminal.jsx` | socket, status, lock, cached token | connect, submit, frames | stale sockets, answers to the wrong command, promises that never settle | the lock follows the command in flight, input is never locked for ever |
| Line editor of `Terminal.jsx` | buffer, cursor, history, last render | keys, paste, history | wrapping at the edge of the screen | what is shown is the buffer |
| Browser auth store (`frontend/lib/auth.js`, `apiKey.js`) | `localStorage`, per tab | login, logout, listen | several tabs | a logout ends its own session only |
| Configuration, logging, container configuration, pages | constants, text | - | - | not modelled: no state a property is about |

### Hazards

`PROJECT.json` lists them at their lines, with the properties that watch them. Four have no
property, each with the reason: the watermark that nobody restores, the null frame that ends the process,
two tabs over one `localStorage`, and a login that overlaps the deletion of its account.

## 2. Plan

Most important first; all of it is done.

1. `SandboxPool` with its abstract specification `SandboxLifecycle`, its runs and
   `SandboxPoolProofs`.
2. `RunCommand`: one call of `runCommand` in full detail.
3. `WsSession`: one connection.
4. `RateLimiter` and `RateLimiterProofs`.
5. `Accounts` and `AccountsProofs`: the HTTP handlers over `users`, `api_keys` and the OAuth
   states.

6. `TerminalSession`: the browser's end of a session, composed with `WsSession`.
7. `CommandValidator`: tokenizer and option parsing, against declarative definitions.
8. `LineEditor`: buffer and cursor against what the screen shows.

9. The refinement `Spec => LifecycleSpec` in `SandboxPoolProofs`, then `RunCommandProofs`,
   `WsSessionProofs`, `TerminalSessionProofs` (which rests on `WsSessionProofs`), `LineEditorProofs` and
   `CommandValidatorProofs`.

10. The words of a line for every line (`AlwaysTokensAreTheWords`); `SlidingWindow`, an abstract limiter, and the
    refinement `LimiterImplementsWindow`; the safety halves of two liveness properties, `RaceCanEnd` and `LockIsOwed`.

## 3. The modules

### SandboxPool (pool.js, its use in sandbox.js, index.js)

State: `idle`, `liveCount` and `refilling` are the fields of the class. `refillCreating` and
`refillStarting` say at which await of `_createOne` a refill loop is; `pc` and `box` say the
same of each `runCommand` (a member of `Commands` is a slot that is used again: there are as
many as connections with a command in flight). `docker` is the daemon's view and survives the
process; `draining` is what `drain()` awaits; `stuck` are the containers whose `remove()`
failed: they are still counted and nobody knows them. `phase` is the process.

| Code | Actions |
|---|---|
| `_refillTo` | `CallRefill` and `TopUp` (called from `start` and `acquire`), `RefillCreated`, `RefillStarted`, `RefillCreateFails`, `RefillStartFails`, `ContinueRefill` |
| `acquire` | `AcquireRefused`, `AcquireIdle`, `AcquireNew`, then `Created`, `Started`, `CreateFails`, `StartFails` |
| `runCommand` with its container | `Exec`, `BeginDestroy` |
| `destroy` | `Removed`, `RemoveFails` |
| `main`, `shutdown`, `drain` | `Start`, `Shutdown`, `DrainRemoved`, `DrainRemoveFails`, `Exit`, `Crash` |

Abstractions. `kill()` and `remove()` of `destroy()` are one step, as the outcome of `kill()` is
ignored. A host that has no room for another container refuses to create one, so `Containers`
is the host's capacity. `Faults` says what may fail. A `createContainer()` that the daemon
completes after the process has died is not modelled. A crash and a failing `drain()` both end
the process; systemd starts it again (`Restart=on-failure`), with nothing that looks for the
containers of its predecessor: they are orphans.

### SandboxLifecycle (abstract)

What the orchestrator promises about each container: made for the pool or for a command, leased
to one command, used at most once, given up, removed; or orphaned, after which nothing uses it.
`SandboxPool` maps `docker`, `idle`, `pc`, `box` and `draining` to it (`LifecycleState`, `Owner`)
and is checked to implement it (`LifecycleSpec`).

### RunCommand (sandbox.js)

One call. `pc` is the await the call is at, `outcome` what the `try` block leaves for the
`finally`. When an event settles the race, the code after the race up to the next await runs in
the same action: `Stop` (timer and listener removed, `kill()` called) or the step to
`inspect()`. Chunks may keep arriving while the container is being killed and removed, as
nothing detaches the stream. Output is counted in units; its text, the two streams and the
demultiplexer are left out. `OutputBound` caps what the command writes and is above the limit
by more than the largest chunk, so that several chunks come after the limit.

### WsSession (wsHandler.js)

One connection. Each member of `Frames` is one message and one invocation of the async message
handler; `pc` is the await it is at; the closure variables are the variables of the same name,
`turnstilePassedAt` being reduced to whether it is still within the period (`fresh`,
`ChallengeExpires`). `runCommand` is two awaits here: `acquire`, before the sandbox exists, and
`sandbox`. The origin check, which closes the socket before anything else happens, is left out.
`credit` is a history variable: how many commands the last passed challenge still covers,
counted apart from `commandsSinceChallenge`.

A frame that is no JSON, or JSON of another kind than `exec`, is answered (`FrameMalformed`). The frame `null` is not: it
passes `JSON.parse`, and reading its type (wsHandler.js:164) throws in an async listener outside any `try`. Nothing handles
the rejection, so the process ends (`FrameNull`): the socket closes, and every invocation under way is `lost` where it was.

### RateLimiter (rateLimiter.js)

One identity and its two sorted sets. Reading `Date.now()` and Redis' execution of the `MULTI`
are one step, since the pipelines of the process's one connection run in the order of the
calls. Refused requests stay recorded, as in the code. `seen`, `passed` and `refused` are
history. The clock is bounded by `MaxTime` and does not go back.

### SlidingWindow (abstract)

What "a real sliding window" (rateLimiter.js:11) promises: each window keeps the time of every request for ever and has room
as long as fewer than its limit lie in the span that ends now. Nothing is trimmed, no key expires. `RateLimiter` maps its
history (`Log`: what each window has seen, with the stamps) to the log and is checked to implement it
(`SlidingWindowSpec`), so the trimming, the inclusive bound of `zremrangebyscore` and `pexpire` change no decision.

### Accounts (server.js, apiKey.js, users.js, state.js, mongo.js)

`users` and `apiKeys` are the collections (a set of documents each), `oauthStates` the keys in
Redis. Each member of `Requests` is a slot for one HTTP request; `req[r].pc` names the database
command its handler sends next, and an action is that command with the code from its answer to the next one:

| Handler | Steps |
|---|---|
| `/api-key` | `FindKey`, `InsertKey` |
| `/register` | `FindUser` (`RegisterFinds`), `InsertUser`, `InsertKey` |
| `/login` | `FindUser` (`LoginFinds`), `RevokeAll`, `InsertKey` |
| `/logout` | `DeleteKey` |
| `/account/delete` | `Lookup`, `DeleteUser`, `RevokeAll` |
| `/oauth/:provider/callback` | `GetState`, `DelState`, `FindUser` (`OAuthFinds`), `InsertUser` for a new user, `RevokeAll`, `InsertKey` |
| `/oauth/:provider/start` | `OAuthStart` |

`Fails` is every refusal and error: before the first command it stands for the origin check, the body
and the rate limits, later for a failing database or provider; what was done stays done.
The password is right or wrong (`LoginFinds`), hashes and tokens are model values that are drawn
once. An expired key is left out of `apiKeys`, as every query filters it; that use postpones the expiry
is not modelled, a key may expire at any time. The unique indexes are part of `InsertUser`. `spent`, `before` and `late`
are history.

A login that holds the id of an account while it is deleted inserts a key of an account that no
longer exists (`InsertKey` does not look); `SessionBound` covers such keys too.

### TerminalSession (useTerminalSocket.js, turnstile.js, the submit path of Terminal.jsx)

Extends `WsSession` by the browser at the other end of the socket. `wire` and `inbox` are the two
directions; `GateReceives`, `GateAnswers` and `GateTurn` are `WsSession`'s steps with what they take from
the one and put into the other. A new socket is a new closure of `handleConnection`, so `Connect` resets
`WsSession`'s variables; what the gateway still does for the old socket reaches nobody and is left to `WsSession`.

| Code | Actions |
|---|---|
| `connect`, the mount effect, the Reconnect button | `TerminalInit`, `Reconnect`, `CommitNewKey` (the effect's cleanup and its new run) |
| open, close and error listeners | `SocketOpens`, `SocketCloses` |
| message listener with `onDone`, `onError`, `onChallengeRequired` | `Receive` |
| a commit with the status effect | `Commit`, `CommitNewKey` |
| `handleSubmit`, `submitCommand` | `Enter`, and `Submit` inside it and inside the steps that settle `getToken()` |
| `loadScript`, `refresh`, `getToken`, `handleToken` | `ScriptLoads`, `ScriptFails`, `TokenIssued`, `TokenAges`, `Refresh` in `Receive` |
| `auth.js`: the key in `localStorage` | `KeyChanged` |

`status` is what `setStatus` stored last and `seenStatus` what the last commit saw, as React commits
later. `unlockedEarly` and `refused` are history. Chunks change nothing of this state and are in `LineEditor`.
`WsSession`'s malformed frames, null or not, are left out, as `submitCommand` sends none.

### CommandValidator (validator/)

One line goes through `tokenize()`, the registry and its tool's `parse()`. A line is a sequence of
symbols: blanks, quotes, the characters the parsers look for, and words that stand for runs of other
characters and are told apart by what the regular expressions say of them (`Labels`, `Hex`,
`Dashes`, `Urls`, `Numeral`). The loops of `tokenize()` and of `curl`, `openssl`, `mtr` and `ping` go one iteration
per action (`SkipBlank` ... `Unterminated`, `Iterate`, `IterateThrows`, `EndLoop`); `dig`, `whois`, `host` and `nc` look at
positions and are one action (`ParsePositions`). The reference definitions are written in another way than the code:
`AreWords` from the quote in force at each place of the line (`QuotesIn`): a word is a longest stretch without a blank outside quotes,
its letters are the places where no quote begins or ends, and the tokens spell the words from left to right. `WellFormed` is written from the sets of positions that are options, their values and
operands: a position holds a value when an odd number of options comes right before it (`ValuesIn`).
`AlphabetAssumption` says what the words of the source are: its flags and options start with a dash, its methods are in capitals, and
every count within the limits has its digits.

### LineEditor (Terminal.jsx)

The buffer, the cursor and the history, and the screen. `refreshLine`, `moveCursorTo` and the fast path of typing
are translated with what their escape sequences do to the screen of xterm.js, which is modelled as the cells of its rows, one row
after the other, and a cursor that may stand after the last column (the pending wrap). The rows above
the last line feed are one row of output: the editor must never write there. What the session does is reduced to what writes to the
screen or sets the lock: `EnterCommand`, `CommandSent`, `CommandNotSent`, `CommitStatus`, `SocketCloses`, `Chunk`,
`Answer` (its details are in `TerminalSession`), also for frames that come late. `exposed`, `edged`, `leftover` and `astray` are history: they say
that one of the things has happened after which the screen may show something else than the line, or its cursor stand elsewhere (section 4).
A movement upwards that has gone astray stops at the first row of the model.

### MC modules

`MCSandboxPool`, `MCRunCommand`, `MCWsSession`, `MCRateLimiter`, `MCAccounts`, `MCTerminalSession`,
`MCCommandValidator` and `MCLineEditor` define the small sets the
configurations use. Definitions marked *mutated form of X* in the modules are deliberately wrong
variants of X that no specification uses: with one of them in the place of X the
property it is listed with in `PROJECT.json` fails, which shows that the property depends on
that line of the code.

## 4. The runs

| Run | Configuration, module | Shows |
|---|---|---|
| `pool_safety` | `PoolSafety`, MCSandboxPool | every interleaving of two commands, the refill loop, shutdown, crash and restart with every Docker failure keeps `OneOwner`, `CountMatchesOwners`, `OnlyFreshHandedOut`, `RefillFlagMatchesLoop`, `IdleWithinTarget`, `OverrunBound`, and implements `SandboxLifecycle` |
| `pool_liveness` | `PoolLiveness`, MCSandboxPool | commands settle and a shutdown ends, with failing Docker calls |
| `run_command` | `RunCommandRace`, MCRunCommand | all orders of end, timeout, abort, output limit and failures |
| `session` | `SessionFrames`, MCWsSession | three frames, all awaits, all failures, closing anywhere, a null frame that ends the process at any await of the others |
| `rate_limiter` | `RateWindows`, MCRateLimiter | no stretch of time exceeds a limit; every decision, refusals included, is that of a log of which nothing is dropped (the limiter implements `SlidingWindow`) |
| `accounts` | `AccountRaces`, MCAccounts | two requests of any kind interleaved at every database command, with failures and expiry: one account each, no more sessions of a user and keys of an address than requests in flight, an answered login ends the older sessions, nobody ends a stranger's key, a spent OAuth state is refused |
| `terminal` | `Terminal`, MCTerminalSession | browser and gateway over a socket that breaks and is opened again: one command in flight and the input locked (`LockHolds`), no status of running for nothing (`RunningIsTrue`), what a locked input waits for on its way (`LockIsOwed`), no refused token sent again (`RefusedTokenNotReused`), the input unlocked again (`LockReleased`), but for the exceptions these properties name |
| `validator` | `Validator`, MCCommandValidator | the tokens are the words of the line, the loops accept exactly the well-formed commands, and the args that reach the sandbox are well-formed and carry the forced limits |
| `line_editor` | `Editor`, MCLineEditor | in every order of keys, pastes, history, output, answers and prefills: the screen shows the line below intact output (`ScreenShowsLine`), and wherever the line was last drawn, also after it was damaged, it is written out with the cursor where the next key edits (`CursorIsEditPoint`), but for the exceptions below |
| `session_abandoned` | `SessionAbandoned`, MCWsSession | **violated**: a command of a closed connection runs on |
| `terminal_key_change` | `TerminalKeyChange`, MCTerminalSession | **violated**: a change of the API key closes the socket under a command |
| `editor_right_edge` | `EditorRightEdge`, MCLineEditor | **violated**: a character typed at the right edge overwrites the one before it |

The violated properties state what a comment or a document of the repository says; `findings` in `PROJECT.json` quotes it.

What the passing properties of the client except is behaviour of the code, too:

- `LockHolds` excepts an unlock while `getToken()` is pending (the status effect, Terminal.jsx:185, or a late answer),
  and a second answer to an earlier frame (the audit fails after `done`, wsHandler.js:141), which the hook takes for the answer to
  the command in flight (useTerminalSocket.js:98).
- `LockReleased` excepts a frame that arrived during `lookupApiKey()`, before the gateway listens (wsHandler.js:155), and
  a challenge whose callback never comes (turnstile.js:86). Both leave the input locked until the socket or the page is renewed.
- `ScreenShowsLine` excepts output onto a rendered line (`exposed`: a prefill during a command, a late frame, an
  unlock during `getToken()`) and a cursor that was moved or typed at while it stood at the right edge (`edged`). Enter above the last row of
  a wrapped line leaves its rows below in place (`leftover`), though Terminal.jsx:274 speaks of a clean slate. `exposed` lasts until an Enter with nothing in flight, `edged` until Enter.
- `CursorIsEditPoint` needs less: what it excepts ends with the next key that draws the line again (`astray`). It excepts output over a rendered line; an
  answer that comes while the line is edited in the middle, as `refreshLine` without a position draws the cursor at the end (Terminal.jsx:152, 159, 167)
  and `cursorPosRef` stays where it was; a submission that fails after a prefill, which draws an empty line (Terminal.jsx:261); and a cursor at the
  right edge that was moved or typed at.
- `AnsweredOnce` and `TraceIsTrue` except the frames under way when a null frame ends the process: neither answer nor record can follow.

### Known divergences without a run

Seen while modelling; no run is kept for them.

- The "hard ceiling" of the pool (backend/README.md:38, config.js:29; test/pool.test.js:63 overlaps nothing) can be passed: `liveCount` is compared before
  `createContainer()` and raised after `start()`. What holds is `OverrunBound`: by at most the number of commands in flight.
- The pool can stay below the watermark: only `acquire()` starts a refill, `destroy()` does not (backend/TECH.md:155).
- A command that ran leaves no audit record when `runCommand` throws afterwards (backend/README.md:59); `TraceIsTrue` counts the logged error as its trace.
- A command sent on receipt of `done` can be refused as busy, while the audit record is written (frontend/TECH.md:156).
- A registration or a login that overlaps a login of the same user leaves two live sessions (apiKey.js:75, docs/architecture/auth.md:63). What holds is
  `SessionBound`, and that the next login ends them (`OlderSessionsEnd`).
- Overlapping key requests of one address leave several live anonymous keys, as each looks for one before any inserts; apiKey.js:16 and
  docs/architecture/abuse.md:119 claim exactly one. What holds is `FarmingBound`: no more than requests in flight.
- The frame `null` ends the process, with every connection's command in it, where any other invalid frame is answered with an error
  (wsHandler.js:164-165). systemd starts it again (`Restart=on-failure`), and the containers left behind are those of `Crash` in `SandboxPool`.
- A login that overlaps the deletion of its account still gets a key (docs/architecture/auth.md:96 says that the deletion blocks logins).
- After `challenge-required` the terminal says to press Enter to retry (Terminal.jsx:166), but the line is empty by then: the command is in the history.
- After a lost connection it says that it reconnects (Terminal.jsx:261); only the button does. The same path draws an empty line, whatever has been typed since.
- `openssl` takes several `-connect`; each is validated, and all are passed on.

Containers that outlive a clean shutdown (those of running commands) and containers
whose `remove()` failed are the orphans of `LifecycleSpec`: no run says they cannot occur.

### Bounds

- Pool: two commands are enough for every pairwise race (two acquirers, acquirer and refill,
  destroy and acquire); four containers are the ceiling of two plus the overrun of two, so the
  host is full only when containers have leaked. `MinSize` equals the ceiling in `PoolSafety`, so that
  the refill loop meets the ceiling. Permuting commands or containers maps behaviours to
  behaviours and the properties of that run are invariants and step properties, so symmetry is sound
  there. `PoolLiveness` has three containers and no symmetry.
- `RunCommand`: a limit of two units, chunks of one and two, five units of output: a chunk that
  fits, one that crosses the limit and one after it all occur.
- Session: a challenge every two commands, three frames: the third command meets an exhausted
  challenge, and a frame arrives during another's every await.
- Limiter: limits one and two over two and four ticks, six ticks, four requests: each limit is
  hit, windows pass and keys expire between requests.
- Accounts: two requests in flight give every pairwise race of handlers, and the slots are used
  again, so that long sequences occur; three tokens let overlapping logins leave two keys and a
  third login end them; two user ids let an account be deleted and made again; one OAuth state can be
  presented twice, and to the wrong provider. Permuting requests, tokens or user ids maps behaviours
  to behaviours, and the run checks invariants and step properties only.
- Terminal: three frames, two sockets, two tokens, one change of the key, a challenge for every command: a token is refused and another
  one issued, a frame crosses a late answer, an old socket is replaced during every phase of a command. `Faults` has the
  failing audit, the one fault that answers a frame twice; the others differ for the browser only in the text of the error.
- Validator: lines of six symbols over blank, both quotes and a word contain every way two quotes, or a quote and a
  blank, can meet; three or four tokens per tool let each option come last, come twice, precede an option and follow the operand. The words include the
  counts, ports and record types at and just beyond their limits.
- Line editor: three columns and a prompt of two: lines of one and of four characters end at the right edge, one of five takes three
  rows, a paste of two crosses an edge; one command, one chunk and one late frame meet every state of the line.

`CHECK_DEADLOCK FALSE` is given where the system may rightly stop: a call that has settled, a
connection with nothing left to send, a bounded clock, a process that was stopped and is not restarted.

### Fairness

- Pool (`FairSpec`): every Docker call of a command, of the refill loop and of `drain()` is answered
  or fails, and a command leaves the sandbox (its timeout sees to it: `EveryCallSettles`).
  Nobody has to issue commands, or start or stop the process.
- `RunCommand` (`FairSpec`): the pool and Docker answer. The command owes nothing, so the stream may stay open
  for ever. That an armed timer fires is assumed only in `EveryCallSettles`, as its premise;
  `AbortSettles` holds without it. Docker calls have no timeout in the code: if the daemon
  never answers, neither property holds.
- Terminal (`TerminalFairSpec`): React commits what was set, the browser handles what has arrived and hears of the end of its
  socket, the network delivers a frame or the socket breaks, and the gateway keeps its own promises. The user, Turnstile, the
  network's health and the key owe nothing, which is why `LockReleased` has to name Turnstile.
- Session (`FairSpec`): each await of `execCommand` is answered (Turnstile has a timeout, Redis and
  MongoDB answer or fail, `runCommand` settles). The client owes nothing.

## 5. The proofs

Everything is proved from the assumptions named in the modules: the sets of commands,
containers, requests and frames are finite, sizes and limits are natural numbers, window lengths are
positive, no container and no command is the value that stands for none, texts and command lines are sequences of
symbols, a word that starts with a dash starts neither a host nor a URL, and the words of the source are what they look like (`AlphabetAssumption`).

`SandboxPoolProofs` proves, for any number of commands and containers, any sizes and any faults:
`TypeOK`, `OneOwner`, `OnlyFreshHandedOut`, `CountMatchesOwners`, `RefillFlagMatchesLoop`,
`OverrunBound` and `IdleWithinTarget`. None of them is inductive alone. `liveCount` stays a natural number
only because it equals the number of counted containers (`CountMatchesOwners`); it keeps up with
that set only because no container is in two of the places the set is made of (`OneOwner`), so
that a pop, a push or a removal changes its size by exactly one; and a new container is in none
of them only because everything owned exists (`OnlyFreshHandedOut`, `StuckExist`). `BoxMatchesPc` ties
`box` to `pc`, and `DrainQuiet` says that only a draining process drains. `IInv` is their conjunction; there is
one lemma per action. `OverrunBound` is preserved because a new acquisition adds one
pending creation only when `liveCount` is below the ceiling, the number of commands bounds the
pending ones, and at most one refill loop (`RefillFlagMatchesLoop`) adds to it. `IdleWithinTarget` is proved from
the invariant and the loop's condition.

The refinement `PoolImplementsLifecycle` is proved from `IInv` at both ends of a step. Each container's abstract state is read off where it is
(`LifecycleState`: made, spare, leased, given up, removed, orphaned) and its owner off `box`. An action of the pool touches one container, and
that one makes the step of `SandboxLifecycle` that the action is for: `RefillStarted` makes a spare, `AcquireIdle` leases one, `BeginDestroy` gives it
up. The step is legal because `OneOwner` says that the container is nowhere else and `OnlyFreshHandedOut` that it was never used. A failed
`createContainer()`, the bookkeeping of the refill and the phases of the process are stutters, and a crash orphans all that exists.

`RunCommandProofs` proves `SandboxGivenUp`, `ExitCodeMeansUndisturbed` and `ForwardedIsPrefix` for every output limit and every size of chunk.
What a result says depends on what may still happen at the awaits before it, so `IInv` says what each await implies: who holds the
sandbox (`SandboxMatchesPc`, `OutcomeMatchesPc`), that timer and listener are armed in the race only (`ArmedInRace`; a race lost to an error of the stream
leaves its listener on), that nothing has stopped a command whose exit code is asked for (`RaceUndisturbed`), and that the limit is
passed for good and everything before it was forwarded (`LimitIsFinal`). `RaceCanEnd` (defined in the proof module) is the safety that
`EveryCallSettles` and `AbortSettles` rest on: whoever waits in the race has its timer armed, its listener on and no abort behind it.
The step that enters the race makes this so, and every event that would make a part of it false leaves the race in the same step.

`WsSessionProofs` proves `OneAtATime`, `ControllerIsCurrent`, `ChallengeBudget`, `AnsweredOnce` and `TraceIsTrue` for any set of frames and any budget. `Core`
(`GuardTrue`: one frame at most is past the guard, and `running` says whether one is; `CreditCounts`: `credit` and `sinceChallenge` count the same commands, and a frame
between its challenge and its rate limit is still covered) is inductive without the rest. `IInv` adds what has been
sent (`AnswersMatchPc`) and recorded (`TraceMatchesPc`) when a frame is at each of its awaits. `FrameNull` moves all frames under way at once and has lemmas of its own
(`NoneSurvives`, `NullPreserves`): nobody is past the guard afterwards, and the socket is closed.

`TerminalSessionProofs` proves `TerminalTypeOK`, `LockHolds`, `RunningIsTrue` and `RefusedTokenNotReused` for any number of frames, sockets, tokens and
changes of the key. The gateway's steps inside the composition keep `Core` by the lemmas of `WsSessionProofs`, which this
module extends; the rest of the session's `IInv` does not hold here, as a new socket finishes the frames of the old one unanswered. `TInv` adds where every frame is (`QueuesTrue`: on the wire unhandled, at the gateway in
flight, its answer in the inbox, and out of order only if it was answered twice), and the two facts that keep the lock: one
submission at most awaits a token, behind a locked input and with nothing in flight (`WaitingLocks`), and nothing is in flight before the socket is open
(`QuietUntilOpen`). `RefusedTokenNotReused` rests on `NeverRefusedCached`: only a loaded widget caches a token, and its `refresh()` drops the refused one
in the step that learns of the refusal.

`LockIsOwed` is what `LockReleased` rests on besides fairness: no wake-up is lost. Two further invariants carry it, each preserved where `TInv` holds. `StatusOwed`
is about the lock and the status: a locked input was seen open (`LockSeen`), it stays locked over a new socket only with "running" at the last commit
(`LockBeforeOpen`), and once it awaits no token the status says running until React looks (`LockRuns`), on an open socket (`RunningOpen`). With
`RunningIsTrue` something is in flight. `FramesOwed` is about where that is: each frame in flight is on the wire, unanswered in the gateway's
hand, or answered in the inbox, if the gateway has not lost it (`NoneAstray`). The gateway ends an invocation without an answer only when
the audit was all that was left to await, and then it has answered before (`AuditsAnswered`).

`RateLimiterProofs` proves `WindowHolds`, `RefusedForCause` (nobody is refused for less than the limit) and `SlidingWindowSpec` for any requests, window
lengths and limits. The invariant that carries it is `MembersComplete`: whatever was recorded
and is still inside the window is still in the sorted set, though the set is trimmed at the next
request only. It needs `ExpiresLate` (the key's expiry is never before the last of its members
leaves the window) and `StampsPast`. A request is let through when at most `Limit`
members remain, among them everything let through in the span that ends now; spans that end
earlier do not see the new event, and later spans only lose events.

`LimiterImplementsWindow` maps every step to a step of `SlidingWindow`. Its core is `SetShowsSpan`: the sorted set, trimmed as the
request arrives, is exactly what the complete log has in the span, because nothing inside is missing (`MembersComplete`) and the
trimming leaves nothing outside. So the counts agree and with them the decisions (`SameDecision`); expiry of a key is a stutter.

`AccountsProofs` proves `TypeOK` and every property of the run `accounts`, for any number of requests, people,
addresses and tokens: `OneAccountEach`, `SpentStateRefused`, `OlderSessionsEnd`, `EndedByRight`,
`SessionBound` and `FarmingBound`. The invariant `IInv` adds four facts: `Fits` (where a request is
says which handler it runs and what it carries), `Remembers` and `DrawnCovers` (what a request or a
collection holds was drawn, and a stored state is not spent), and `Cleared` (a login that has revoked
finds none of the older keys when it inserts). `Cleared` survives the other requests' steps because
the only key they can add was not drawn before, and `before` holds drawn tokens only. `OlderSessionsEnd` and
`EndedByRight` follow step by step: `LoudSteps` shows that all but five commands neither insert nor
delete a key for a request nor grant anything. For the two bounds each step does one of three things to a user's or an
address's keys and the requests about to insert one (`BoundedStep`): it adds to neither, it
leaves no key at all, or it turns one such request into one key.

`LineEditorProofs` proves `CursorIsEditPoint` and `ScreenShowsLine` for every width, every prompt, everything that can be typed or filled
in, and lines, histories and outputs of every length. Both rest on `EditorInv` (the cursor in the line, the index in the history, nothing to edit before the
first render). The cells of the screen are counted in one row: a line is the `LineLen` cells after the first row, and
row and column of a place are the one way to write its distance as a multiple of `Cols` and 1 to `Cols` more (`CellUnique`, `PlaceLemma`). On that rest one lemma
for each thing the terminal does (`NewLineLemma`, `WriteLemma`, `VerticalLemma`, `HorizontalLemma`, the two erasures) and one for each thing the editor does:
`RedrawShows` (a redraw shows the line if the cursor was in the row where the last render left it), `MoveShows` (so does a relative movement, unless
it leaves the right edge), `TypeShows` (and typing behind the last character, which xterm.js wraps as the redraw would). `ScreenInv` carries them through the steps: a rendered line that is not
exposed is shown (`RenderedShows`); before the first render the screen ends in a fresh row (`NotRenderedFresh`), even when the screen above
was astray; and whatever is in flight is behind a locked input, with nothing rendered, or has exposed the line (`InFlightExposed`), so that output
never meets a line unnoticed.

`CursorIsEditPoint` holds on damaged screens too, where nothing says on which row the line begins, so `CursorInv` asks only for some row from which the line is
written with the cursor in its place (`Stands`). It comes back by itself: `RedrawStands` shows that a redraw puts line and cursor in place from any
screen whatever, `MoveStands` and `TypeStands` that a relative movement and the fast path keep them. `CursorInv` further says that the last render was at
`cursorPos`, which those two take for granted. Of `ScreenInv` it uses only that the screen has a shape.

`CommandValidatorProofs` proves `TokensAreTheWords`, `AcceptedIffWellFormed` and `ArgsWellFormed` for every set of lines, of any length, and every alphabet. `ValuesIn` looks at a whole
row of options, the loops at one token after the other: the lemmas between the two (`AfterOther`, `AfterOption`) say that after a token which
is no option another item begins, and after an option its value and then another item, so that no induction over the args is needed. `Read` says that everything before a place
is read, every option with a value it may have, and `OperandsBelow` which operands were met; one lemma per tool reduces its `CASE` to reading a flag, an option with its value, or the operand, and
another one its errors to an option without such a value or an operand too many. `LoopKept` is the invariant of the four loops: what was read of
the tokens and, for `ArgsWellFormed`, what was gathered of them (`OnlyOptions`: curl's args are read the same way from the left and hold no operand, and
pushing more onto them changes nothing in what was read). `CurlReturns`, `MtrReturns` and `PingReturns` read the args that are returned. The
exact form of the words matters in two places: a flag is no option, and no word with a dash is an operand.

For `TokensAreTheWords` the invariant of `tokenize()` is `ScanInv`: `quote` is the quote in force at `pos`, the tokens are the words begun before
`pos` without the one being read, and `token` spells the letters of that one before `pos`. A step adds one place to the letters or one word to
the words, at the end in both cases, and the rank of a place is a cardinality, so appending to the one side appends to the other.
`QuotesIn` is a recursive function; that it obeys its recursion is proved without an induction rule, from the least place where
it would not (`SmallestOf`).

Model-checked only:

- every liveness property (`CommandsSettle`, `ShutdownEnds`, `EveryCallSettles`, `AbortSettles`, `GuardComesDown`, `LockReleased`): they need fairness
  and ENABLED. Of three of them the safety they rest on is proved (`RaceCanEnd`, `LockIsOwed`);
- `TypedIsWritten` and the other two violated properties, which are false;
- the sensitivity of each property to the code (the mutated forms).

## 6. Not modelled, and why

- The auth store (`auth.js` and the account views), but for the key that changes: straight-line code over
  `localStorage`, which the browser shares between tabs without any lock.
- Of the terminal: a change of its size (xterm.js reflows the rows, in a way the code here does not see), its height and
  scrolling (a line taller than the screen), wide characters, touch, theme, fullscreen, and the download of the log.
- Of the line editor: that a line of blanks counts as empty and that an entry of the history is trimmed (no blank is typed in the model), and
  the normalisation of pasted characters, which happens before `Typed`.
- Of the validator: the wording of its errors, the limits on the length of names inside the regular expressions.
  What `dig`, `whois`, `host` and `nc` read is modelled, but `AcceptedIffWellFormed` and `ArgsWellFormed` speak of the four tools with loops only.
- The text of output, of errors and of audit records: no property is about it. Nor are control sequences in the output of a command, which xterm.js
  would obey, modelled.
- The providers' HTTP exchanges, database connection handling, Docker's container options:
  pure I/O or constants.
- Pages, styles, content, logging, configuration parsing.
- Several backend processes on one host: the unit file starts one.
