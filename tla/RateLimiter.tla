------------------------------ MODULE RateLimiter ------------------------------
(***************************************************************************)
(* The sliding-window limiter of abuse/rateLimiter.js for one identity (an *)
(* address or a key): two sorted sets in Redis, a minute's and an hour's.  *)
(* checkRateLimit passes the windows in turn, and waits for Redis at each. *)
(*                                                                         *)
(* withinWindow reads Date.now() and sends its MULTI in the same turn, and *)
(* Redis runs the pipelines of the one connection in that order, so one    *)
(* step stands for both.  The clock does not go back.                      *)
(***************************************************************************)
EXTENDS Integers, FiniteSets

CONSTANTS
  Requests,  \* the calls of checkRateLimit for this identity
  Span,      \* windowMs of each window
  Limit,     \* how many events each window allows
  MaxTime    \* where the clock stops: bounds the model

Windows == {"minute", "hour"}

ASSUME RateLimiterAssumption ==
  /\ IsFiniteSet(Requests)
  /\ Span \in [Windows -> Nat \ {0}]
  /\ Limit \in [Windows -> Nat]
  /\ MaxTime \in Nat

VARIABLES
  now,      \* Date.now()
  pc,       \* the window each request is at, or how it ended
  members,  \* the members of each sorted set
  expires,  \* when Redis drops each key: PEXPIRE
  stamp,    \* the score of each request in each window
  seen,     \* history: the requests each window has recorded
  passed,   \* history: the requests each window has let through
  refused   \* history: the requests each window has turned away

vars == <<now, pc, members, expires, stamp, seen, passed, refused>>

TypeOK ==
  /\ now \in Nat
  /\ pc \in [Requests -> Windows \cup {"uncalled", "accepted", "refused", "failed"}]
  /\ members \in [Windows -> SUBSET Requests]
  /\ expires \in [Windows -> Nat]
  /\ stamp \in [Windows -> [Requests -> Nat]]
  /\ seen \in [Windows -> SUBSET Requests]
  /\ passed \in [Windows -> SUBSET Requests]
  /\ refused \in [Windows -> SUBSET Requests]

Init ==
  /\ now = 0
  /\ pc = [r \in Requests |-> "uncalled"]
  /\ members = [i \in Windows |-> {}]
  /\ expires = [i \in Windows |-> 0]
  /\ stamp = [i \in Windows |-> [r \in Requests |-> 0]]
  /\ seen = [i \in Windows |-> {}]
  /\ passed = [i \in Windows |-> {}]
  /\ refused = [i \in Windows |-> {}]

-----------------------------------------------------------------------------
Tick ==
  /\ now < MaxTime
  /\ now' = now + 1
  /\ UNCHANGED <<pc, members, expires, stamp, seen, passed, refused>>

(* Redis drops a key that nobody has touched for a window's length. *)
Expire(i) ==
  /\ members[i] # {}
  /\ now >= expires[i]
  /\ members' = [members EXCEPT ![i] = {}]
  /\ UNCHANGED <<now, pc, expires, stamp, seen, passed, refused>>

Call(r) ==
  /\ pc[r] = "uncalled"
  /\ pc' = [pc EXCEPT ![r] = "minute"]
  /\ UNCHANGED <<now, members, expires, stamp, seen, passed, refused>>

(* (mutated form of Recent: the oldest instant of the window is dropped too) *)
RecentTooShort(i) == {q \in members[i] : stamp[i][q] > now - Span[i] + 1}

(* ZREMRANGEBYSCORE 0 .. now - windowMs, both ends included. *)
Recent(i) == {q \in members[i] : stamp[i][q] > now - Span[i]}

(* (mutated form of Record: the key is given a little less than a window) *)
RecordExpiresEarly(r, i) ==
  /\ members' = [members EXCEPT ![i] = Recent(i) \cup {r}]
  /\ stamp' = [stamp EXCEPT ![i][r] = now]
  /\ seen' = [seen EXCEPT ![i] = @ \cup {r}]
  /\ expires' = [expires EXCEPT ![i] = now + Span[i] - 1]

(* The MULTI of withinWindow: trim, add, count, set the expiry. *)
Record(r, i) ==
  /\ members' = [members EXCEPT ![i] = Recent(i) \cup {r}]
  /\ stamp' = [stamp EXCEPT ![i][r] = now]
  /\ seen' = [seen EXCEPT ![i] = @ \cup {r}]
  /\ expires' = [expires EXCEPT ![i] = now + Span[i]]

(* The count includes the request itself, and stays when it is refused. *)
WithinLimit(r, i) == Cardinality(Recent(i) \cup {r}) <= Limit[i]

Pass(r, i) ==
  /\ pc[r] = i
  /\ WithinLimit(r, i)
  /\ Record(r, i)
  /\ pc' = [pc EXCEPT ![r] = IF i = "minute" THEN "hour" ELSE "accepted"]
  /\ passed' = [passed EXCEPT ![i] = @ \cup {r}]
  /\ UNCHANGED <<now, refused>>

(* RateLimitError: the windows after this one do not hear of the request. *)
Refuse(r, i) ==
  /\ pc[r] = i
  /\ ~WithinLimit(r, i)
  /\ Record(r, i)
  /\ pc' = [pc EXCEPT ![r] = "refused"]
  /\ refused' = [refused EXCEPT ![i] = @ \cup {r}]
  /\ UNCHANGED <<now, passed>>

(* The connection to Redis breaks before or after the MULTI was run. *)
RedisFails(r, i) ==
  /\ pc[r] = i
  /\ Record(r, i) \/ UNCHANGED <<members, stamp, seen, expires>>
  /\ pc' = [pc EXCEPT ![r] = "failed"]
  /\ UNCHANGED <<now, passed, refused>>

Check(r, i) == Pass(r, i) \/ Refuse(r, i) \/ RedisFails(r, i)

Next ==
  \/ Tick
  \/ \E i \in Windows : Expire(i)
  \/ \E r \in Requests : Call(r) \/ \E i \in Windows : Check(r, i)

Spec == Init /\ [][Next]_vars

-----------------------------------------------------------------------------
(* The requests of R that window i recorded in the Span[i] up to t. *)
During(R, i, t) == {r \in R : stamp[i][r] > t - Span[i] /\ stamp[i][r] <= t}

Accepted == {r \in Requests : pc[r] = "accepted"}

(* In no stretch of time as long as a window are more requests accepted than *)
(* the window allows, wherever the stretch begins: a sliding window, not a   *)
(* fixed one, although the set is trimmed lazily and Redis drops idle keys.  *)
WindowHolds ==
  \A i \in Windows :
    /\ Accepted \subseteq passed[i]
    /\ \A t \in 0..now : Cardinality(During(passed[i], i, t)) <= Limit[i]

(* Nobody is turned away for less: whoever is refused by a window has made   *)
(* Limit other requests there within its span.                               *)
RefusedForCause ==
  \A i \in Windows : \A r \in refused[i] :
    Cardinality(During(seen[i] \ {r}, i, stamp[i][r])) >= Limit[i]

-----------------------------------------------------------------------------
(* The limiter implements a log of which nothing is ever dropped. *)

Log == [i \in Windows |-> [r \in seen[i] |-> stamp[i][r]]]

Exact == INSTANCE SlidingWindow WITH time <- now, place <- pc, log <- Log

(* Every decision is the one that the complete log of the window would have *)
(* led to: neither the lazy trimming, nor the expiry of the whole key, nor  *)
(* the requests that were refused or failed half-way make a difference.     *)
SlidingWindowSpec == Exact!Spec
=============================================================================
