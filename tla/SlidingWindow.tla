----------------------------- MODULE SlidingWindow -----------------------------
(***************************************************************************)
(* What the limiter promises, "a real sliding window"                      *)
(* (abuse/rateLimiter.js:11): every window keeps the time of every request *)
(* for ever, and has room for one more as long as fewer than Limit of them *)
(* lie in the span that ends now.  Nothing is trimmed and nothing expires. *)
(***************************************************************************)
EXTENDS Integers, FiniteSets

CONSTANTS Requests, Windows, Span, Limit, MaxTime

VARIABLES
  time,   \* the clock
  place,  \* the window each request is at, or how it ended
  log     \* the times of the requests each window has seen

windowVars == <<time, place, log>>

WindowInit ==
  /\ time = 0
  /\ place = [r \in Requests |-> "uncalled"]
  /\ log = [i \in Windows |-> [r \in {} |-> 0]]

InSpan(i) == {q \in DOMAIN log[i] : log[i][q] > time - Span[i]}

HasRoom(i) == Cardinality(InSpan(i)) < Limit[i]

Logged(r, i) ==
  log' = [log EXCEPT ![i] = [q \in DOMAIN log[i] \cup {r} |-> IF q = r THEN time ELSE log[i][q]]]

Move(r, to) == place' = [place EXCEPT ![r] = to]

(* Everybody is written down, also those who are turned away. *)
Decide(r, i) ==
  /\ place[r] = i
  /\ Logged(r, i)
  /\ Move(r, IF ~HasRoom(i) THEN "refused" ELSE IF i = "minute" THEN "hour" ELSE "accepted")
  /\ UNCHANGED time

(* The service is lost, before or after the request was written down. *)
Lose(r, i) ==
  /\ place[r] = i
  /\ Logged(r, i) \/ UNCHANGED log
  /\ Move(r, "failed")
  /\ UNCHANGED time

Enter(r) ==
  /\ place[r] = "uncalled"
  /\ Move(r, "minute")
  /\ UNCHANGED <<time, log>>

Pause ==
  /\ time < MaxTime
  /\ time' = time + 1
  /\ UNCHANGED <<place, log>>

WindowNext ==
  \/ Pause
  \/ \E r \in Requests : Enter(r) \/ \E i \in Windows : Decide(r, i) \/ Lose(r, i)

Spec == WindowInit /\ [][WindowNext]_windowVars
=============================================================================
