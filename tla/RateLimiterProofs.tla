--------------------------- MODULE RateLimiterProofs ---------------------------
(***************************************************************************)
(* RateLimiter holds for any set of requests, any two window lengths and   *)
(* any limits.                                                             *)
(***************************************************************************)
EXTENDS RateLimiter, FiniteSetTheorems, TLAPS

-----------------------------------------------------------------------------
(* Why the limiter works: whatever is still inside a window is still in the  *)
(* sorted set, although the set is trimmed at the next request only and      *)
(* dropped as a whole by Redis.                                              *)
StampsPast == \A i \in Windows : \A q \in Requests : stamp[i][q] <= now

MembersComplete ==
  \A i \in Windows : \A q \in seen[i] : q \in members[i] \/ stamp[i][q] <= now - Span[i]

ExpiresLate == \A i \in Windows : \A q \in seen[i] : stamp[i][q] + Span[i] <= expires[i]

HistorySeen ==
  \A i \in Windows : members[i] \subseteq seen[i] /\ passed[i] \subseteq seen[i]
                     /\ refused[i] \subseteq seen[i]

(* A request reaches each window once, the hour's after the minute's.        *)
OnceEach ==
  \A r \in Requests :
    /\ pc[r] \in {"uncalled", "minute"} => \A i \in Windows : r \notin seen[i]
    /\ pc[r] = "hour" => r \notin seen["hour"] /\ r \in passed["minute"]

IInv ==
  /\ TypeOK
  /\ StampsPast /\ MembersComplete /\ ExpiresLate /\ HistorySeen /\ OnceEach
  /\ WindowHolds
  /\ RefusedForCause

-----------------------------------------------------------------------------
(* What a window's span shows of a set of requests is finite, and grows with *)
(* the set.                                                                  *)
LEMMA DuringFinite ==
  ASSUME NEW R \in SUBSET Requests, NEW i \in Windows, NEW t \in Int
  PROVE  IsFiniteSet(During(R, i, t)) /\ Cardinality(During(R, i, t)) \in Nat
<1>1. During(R, i, t) \subseteq Requests
  BY DEF During
<1> QED  BY <1>1, FS_Subset, FS_CardinalityType, RateLimiterAssumption

LEMMA SubsetCounts ==
  ASSUME NEW A, NEW B, IsFiniteSet(B), A \subseteq B
  PROVE  IsFiniteSet(A) /\ Cardinality(A) <= Cardinality(B)
                        /\ Cardinality(A) \in Nat /\ Cardinality(B) \in Nat
BY FS_Subset, FS_CardinalityType

LEMMA WindowNumbers == \A i \in Windows : Span[i] \in Nat /\ Limit[i] \in Nat
BY RateLimiterAssumption

-----------------------------------------------------------------------------
(* The initial states satisfy the invariant: nothing has been recorded.      *)
THEOREM InitEstablishes == Init => IInv
<1> SUFFICES ASSUME Init PROVE IInv
  OBVIOUS
<1> USE RateLimiterAssumption DEF Init, Windows
<1>1. TypeOK
  BY DEF TypeOK
<1>2. StampsPast /\ MembersComplete /\ ExpiresLate /\ HistorySeen /\ OnceEach
  BY DEF StampsPast, MembersComplete, ExpiresLate, HistorySeen, OnceEach
<1>3. WindowHolds
  <2>1. ASSUME NEW i \in Windows, NEW t \in 0..now
        PROVE  Cardinality(During(passed[i], i, t)) <= Limit[i]
    <3>1. During(passed[i], i, t) = {}
      BY DEF During
    <3> QED  BY <3>1, FS_EmptySet
  <2>2. Accepted = {}
    BY DEF Accepted
  <2> QED  BY <2>1, <2>2 DEF WindowHolds
<1>4. RefusedForCause
  BY DEF RefusedForCause
<1> QED  BY <1>1, <1>2, <1>3, <1>4 DEF IInv

-----------------------------------------------------------------------------
(* Recording a request adds it to the history, and to no other window's.     *)
Grown(r, i) ==
  /\ r \notin seen[i]
  /\ \A j \in Windows : members'[j] \subseteq seen'[j] /\ seen[j] \subseteq seen'[j]
  /\ \A j \in Windows : \A q \in seen[j] : stamp'[j][q] = stamp[j][q]
  /\ \A j \in Windows : j # i => seen'[j] = seen[j]
  /\ seen'[i] = seen[i] \cup {r} /\ stamp'[i][r] = now

(* It keeps the sorted set complete.                                         *)
LEMMA RecordKeeps ==
  ASSUME IInv, NEW r \in Requests, NEW i \in Windows, pc[r] = i, Record(r, i), now' = now
  PROVE  /\ members' \in [Windows -> SUBSET Requests] /\ expires' \in [Windows -> Nat]
         /\ stamp' \in [Windows -> [Requests -> Nat]] /\ seen' \in [Windows -> SUBSET Requests]
         /\ StampsPast' /\ MembersComplete' /\ ExpiresLate'
         /\ Grown(r, i)
<1> USE DEF IInv, Record
<1>0. r \notin seen[i]
  BY DEF OnceEach, Windows
<1>a. now \in Nat /\ Span[i] \in Nat /\ now + Span[i] \in Nat
  BY WindowNumbers DEF TypeOK
<1>1. /\ members' \in [Windows -> SUBSET Requests] /\ expires' \in [Windows -> Nat]
      /\ stamp' \in [Windows -> [Requests -> Nat]] /\ seen' \in [Windows -> SUBSET Requests]
  <2>1. Recent(i) \subseteq Requests
    BY DEF Recent, TypeOK
  <2> QED  BY <2>1, <1>a DEF TypeOK
<1>2. /\ \A j \in Windows : j # i => /\ members'[j] = members[j] /\ seen'[j] = seen[j]
                                     /\ stamp'[j] = stamp[j] /\ expires'[j] = expires[j]
      /\ members'[i] = Recent(i) \cup {r} /\ seen'[i] = seen[i] \cup {r}
      /\ expires'[i] = now + Span[i]
      /\ stamp'[i][r] = now
      /\ \A q \in Requests : q # r => stamp'[i][q] = stamp[i][q]
  BY DEF TypeOK
<1>3. \A j \in Windows : seen[j] \subseteq Requests
  BY DEF TypeOK
<1>4. \A j \in Windows : \A q \in seen[j] : stamp'[j][q] = stamp[j][q]
  BY <1>0, <1>2, <1>3
<1>5. StampsPast'
  <2> SUFFICES ASSUME NEW j \in Windows, NEW q \in Requests PROVE stamp'[j][q] <= now
    BY DEF StampsPast
  <2>1. now \in Nat
    BY DEF TypeOK
  <2> QED  BY <2>1, <1>2 DEF StampsPast
<1>6. MembersComplete'
  <2> SUFFICES ASSUME NEW j \in Windows, NEW q \in seen'[j]
               PROVE  q \in members'[j] \/ stamp'[j][q] <= now - Span[j]
    BY DEF MembersComplete
  <2>1. CASE j # i
    BY <2>1, <1>2 DEF MembersComplete
  <2>2. CASE j = i /\ q = r
    BY <2>2, <1>2
  <2>3. CASE j = i /\ q # r
    <3>1. q \in seen[i] /\ q \in Requests
      BY <2>3, <1>2, <1>3
    <3>2. CASE q \in members[i]
      <4>1. stamp[i][q] \in Nat /\ now \in Nat /\ Span[i] \in Nat
        BY <3>1, <1>a DEF TypeOK
      <4>2. CASE stamp[i][q] > now - Span[i]
        BY <4>2, <3>2, <2>3, <1>2 DEF Recent
      <4>3. CASE ~(stamp[i][q] > now - Span[i])
        BY <4>1, <4>3, <2>3, <3>1, <1>4
      <4> QED  BY <4>2, <4>3
    <3>3. CASE stamp[i][q] <= now - Span[i]
      BY <3>3, <3>1, <2>3, <1>4
    <3> QED  BY <3>1, <3>2, <3>3 DEF MembersComplete
  <2> QED  BY <2>1, <2>2, <2>3
<1>7. ExpiresLate'
  <2> SUFFICES ASSUME NEW j \in Windows, NEW q \in seen'[j]
               PROVE  stamp'[j][q] + Span[j] <= expires'[j]
    BY DEF ExpiresLate
  <2>1. CASE j # i
    BY <2>1, <1>2 DEF ExpiresLate
  <2>2. CASE j = i
    <3>1. q \in Requests
      BY <1>1
    <3>2. stamp'[i][q] <= now /\ stamp'[i][q] \in Nat /\ now \in Nat /\ Span[i] \in Nat
      BY <1>1, <1>5, <1>a, <3>1 DEF StampsPast
    <3> QED  BY <2>2, <3>2, <1>2
  <2> QED  BY <2>1, <2>2
<1>8. \A j \in Windows : members'[j] \subseteq seen'[j] /\ seen[j] \subseteq seen'[j]
  <2>1. \A j \in Windows : members[j] \subseteq seen[j]
    BY DEF HistorySeen
  <2>2. Recent(i) \subseteq members[i]
    BY DEF Recent
  <2> QED  BY <1>2, <2>1, <2>2
<1>9. Grown(r, i)
  BY <1>0, <1>2, <1>4, <1>8 DEF Grown
<1> QED  BY <1>1, <1>5, <1>6, <1>7, <1>9

(* What a window let through before stays within its limit, and a refusal    *)
(* keeps its cause, while nothing recorded changes.                          *)
LEMMA HistoryKeeps ==
  ASSUME IInv, now' = now, seen' \in [Windows -> SUBSET Requests],
         \A j \in Windows : seen[j] \subseteq seen'[j],
         \A j \in Windows : \A q \in seen[j] : stamp'[j][q] = stamp[j][q]
  PROVE  /\ \A j \in Windows : passed'[j] = passed[j] =>
              \A t \in 0..now : Cardinality(During(passed[j], j, t)') <= Limit[j]
         /\ \A j \in Windows : \A r \in refused[j] :
              Cardinality(During(seen[j] \ {r}, j, stamp[j][r])') >= Limit[j]
<1> USE DEF IInv
<1>1. ASSUME NEW j \in Windows, passed'[j] = passed[j], NEW t \in 0..now
      PROVE  Cardinality(During(passed[j], j, t)') <= Limit[j]
  <2>1. passed[j] \subseteq seen[j]
    BY DEF HistorySeen
  <2>2. During(passed[j], j, t)' = During(passed[j], j, t)
    BY <1>1, <2>1 DEF During
  <2> QED  BY <2>2 DEF WindowHolds
<1>2. ASSUME NEW j \in Windows, NEW r \in refused[j]
      PROVE  Cardinality(During(seen[j] \ {r}, j, stamp[j][r])') >= Limit[j]
  <2>1. r \in seen[j] /\ r \in Requests /\ stamp'[j][r] = stamp[j][r]
    BY DEF HistorySeen, TypeOK
  <2> DEFINE before == During(seen[j] \ {r}, j, stamp[j][r])
             after  == During(seen[j] \ {r}, j, stamp[j][r])'
  <2>2. before \subseteq after
    BY <2>1 DEF During
  <2>3. after \subseteq Requests
    BY DEF During
  <2>4. Cardinality(before) <= Cardinality(after) /\ Cardinality(before) \in Nat
        /\ Cardinality(after) \in Nat
    <3> HIDE DEF before, after
    <3> QED  BY <2>2, <2>3, SubsetCounts, FS_Subset, RateLimiterAssumption
  <2>5. Cardinality(before) >= Limit[j]
    BY DEF RefusedForCause
  <2>6. Limit[j] \in Nat
    BY RateLimiterAssumption
  <2>7. Cardinality(after) >= Limit[j]
    <3> HIDE DEF before, after
    <3> QED  BY <2>4, <2>5, <2>6
  <2> QED  BY <2>7
<1> QED  BY <1>1, <1>2

-----------------------------------------------------------------------------
(* The step that lets a request through. *)
LEMMA PassPreserves ==
  ASSUME IInv, NEW r \in Requests, NEW i \in Windows, Pass(r, i)
  PROVE  IInv'
<1>a. now' = now /\ refused' = refused /\ now \in Nat /\ pc[r] = i /\ Record(r, i)
  BY DEF IInv, TypeOK, Pass
<1>b. /\ members' \in [Windows -> SUBSET Requests] /\ expires' \in [Windows -> Nat]
      /\ stamp' \in [Windows -> [Requests -> Nat]] /\ seen' \in [Windows -> SUBSET Requests]
      /\ StampsPast' /\ MembersComplete' /\ ExpiresLate'
  BY <1>a, RecordKeeps
<1>c. /\ r \notin seen[i]
      /\ \A j \in Windows : members'[j] \subseteq seen'[j] /\ seen[j] \subseteq seen'[j]
      /\ \A j \in Windows : \A q \in seen[j] : stamp'[j][q] = stamp[j][q]
      /\ \A j \in Windows : j # i => seen'[j] = seen[j]
      /\ seen'[i] = seen[i] \cup {r} /\ stamp'[i][r] = now
  <2>1. Grown(r, i)
    BY <1>a, RecordKeeps
  <2> QED  BY <2>1 DEF Grown
<1> USE DEF IInv, Pass
<1>d. /\ passed' \in [Windows -> SUBSET Requests]
      /\ passed'[i] = passed[i] \cup {r}
      /\ \A j \in Windows : j # i => passed'[j] = passed[j]
  BY DEF TypeOK
<1>1. TypeOK'
  <2>1. pc' \in [Requests -> Windows \cup {"uncalled", "accepted", "refused", "failed"}]
    BY DEF TypeOK, Windows
  <2> QED  BY <2>1, <1>a, <1>b, <1>d DEF TypeOK
<1>2. HistorySeen'
  BY <1>a, <1>c, <1>d DEF HistorySeen
<1>3. OnceEach'
  <2> SUFFICES ASSUME NEW q \in Requests
               PROVE  /\ pc'[q] \in {"uncalled", "minute"} => \A j \in Windows : q \notin seen'[j]
                      /\ pc'[q] = "hour" => q \notin seen'["hour"] /\ q \in passed'["minute"]
    BY DEF OnceEach
  <2>1. CASE q # r
    <3>1. pc'[q] = pc[q]
      BY <2>1 DEF TypeOK
    <3> QED  BY <2>1, <3>1, <1>c, <1>d DEF OnceEach, Windows
  <2>2. CASE q = r /\ i = "minute"
    <3>1. pc'[r] = "hour" /\ pc[r] = "minute"
      BY <2>2 DEF TypeOK
    <3> QED  BY <2>2, <3>1, <1>c, <1>d DEF OnceEach, Windows
  <2>3. CASE q = r /\ i # "minute"
    <3>1. pc'[r] = "accepted"
      BY <2>3 DEF TypeOK
    <3> QED  BY <2>3, <3>1
  <2> QED  BY <2>1, <2>2, <2>3
<1>4. WindowHolds'
  <2>1. ASSUME NEW j \in Windows
        PROVE  Accepted' \subseteq passed'[j]
    <3>1. \A q \in Requests : q # r => pc'[q] = pc[q]
      BY DEF TypeOK
    <3>2. pc'[r] = "accepted" => i = "hour" /\ r \in passed["minute"]
      BY DEF TypeOK, OnceEach, Windows
    <3>3. r \in Accepted' => r \in passed'["minute"] /\ r \in passed'["hour"]
      BY <3>2, <1>d DEF Accepted, Windows
    <3>4. \A q \in Accepted' : q # r => q \in passed[j]
      BY <3>1 DEF Accepted, WindowHolds
    <3> QED  BY <3>3, <3>4, <1>d DEF Windows
  <2>2. ASSUME NEW j \in Windows, NEW t \in 0..now
        PROVE  Cardinality(During(passed[j], j, t)') <= Limit[j]
    <3>1. CASE j # i
      BY <3>1, <1>a, <1>b, <1>c, <1>d, HistoryKeeps
    <3>2. CASE j = i /\ t < now
      (* The new event is later than t. *)
      <4>1. During(passed[i], i, t)' = During(passed[i], i, t)
        <5>1. passed[i] \subseteq seen[i]
          BY DEF HistorySeen
        <5>2. ~(stamp'[i][r] <= t)
          BY <3>2, <1>a, <1>c
        <5> QED  BY <5>1, <5>2, <1>c, <1>d DEF During
      <4> QED  BY <4>1, <3>2 DEF WindowHolds
    <3>3. CASE j = i /\ t = now
      (* What the window shows now is in the set that was just counted. *)
      <4>1. During(passed[i], i, t)' \subseteq Recent(i) \cup {r}
        <5> SUFFICES ASSUME NEW q \in During(passed[i], i, t)', q # r
                     PROVE  q \in Recent(i)
          OBVIOUS
        <5>1. q \in passed[i] /\ q \in seen[i] /\ q \in Requests
          BY <1>d DEF During, HistorySeen, TypeOK
        <5>2. stamp[i][q] = stamp'[i][q] /\ stamp'[i][q] > t - Span[i]
          BY <5>1, <1>c DEF During
        <5>3. stamp[i][q] > now - Span[i] /\ stamp[i][q] \in Nat /\ Span[i] \in Nat
          BY <5>1, <5>2, <3>3, WindowNumbers DEF TypeOK
        <5>4. q \in members[i]
          BY <5>1, <5>3, <1>a DEF MembersComplete
        <5> QED  BY <5>3, <5>4 DEF Recent
      <4>2. IsFiniteSet(Recent(i) \cup {r})
        <5>1. Recent(i) \cup {r} \subseteq Requests
          BY DEF Recent, TypeOK
        <5> QED  BY <5>1, FS_Subset, RateLimiterAssumption
      <4>3. Cardinality(Recent(i) \cup {r}) <= Limit[i] /\ Limit[i] \in Nat
        BY WindowNumbers DEF WithinLimit
      <4> DEFINE after == During(passed[i], i, t)'
                 all   == Recent(i) \cup {r}
      <4>4. Cardinality(after) <= Cardinality(all) /\ Cardinality(after) \in Nat
            /\ Cardinality(all) \in Nat
        <5> HIDE DEF after, all
        <5> QED  BY <4>1, <4>2, SubsetCounts DEF after, all
      <4>5. Cardinality(after) <= Limit[i]
        <5> HIDE DEF after
        <5> QED  BY <4>3, <4>4
      <4> QED  BY <4>5, <3>3
    <3> QED  BY <3>1, <3>2, <3>3, <1>a
  <2>3. \A j \in Windows : \A t \in 0..now' : Cardinality(During(passed[j], j, t)') <= Limit[j]
    BY <2>2, <1>a
  <2> QED  BY <2>1, <2>3 DEF WindowHolds
<1>5. RefusedForCause'
  <2> SUFFICES ASSUME NEW j \in Windows, NEW q \in refused'[j]
               PROVE  Cardinality(During(seen[j] \ {q}, j, stamp[j][q])') >= Limit[j]
    BY DEF RefusedForCause
  <2> QED  BY <1>a, <1>b, <1>c, HistoryKeeps
<1> QED  BY <1>1, <1>b, <1>2, <1>3, <1>4, <1>5

-----------------------------------------------------------------------------
(* The step that turns a request away. *)
LEMMA RefusePreserves ==
  ASSUME IInv, NEW r \in Requests, NEW i \in Windows, Refuse(r, i)
  PROVE  IInv'
<1>a. now' = now /\ passed' = passed /\ now \in Nat /\ pc[r] = i /\ Record(r, i)
  BY DEF IInv, TypeOK, Refuse
<1>b. /\ members' \in [Windows -> SUBSET Requests] /\ expires' \in [Windows -> Nat]
      /\ stamp' \in [Windows -> [Requests -> Nat]] /\ seen' \in [Windows -> SUBSET Requests]
      /\ StampsPast' /\ MembersComplete' /\ ExpiresLate'
  BY <1>a, RecordKeeps
<1>c. /\ r \notin seen[i]
      /\ \A j \in Windows : members'[j] \subseteq seen'[j] /\ seen[j] \subseteq seen'[j]
      /\ \A j \in Windows : \A q \in seen[j] : stamp'[j][q] = stamp[j][q]
      /\ \A j \in Windows : j # i => seen'[j] = seen[j]
      /\ seen'[i] = seen[i] \cup {r} /\ stamp'[i][r] = now
  <2>1. Grown(r, i)
    BY <1>a, RecordKeeps
  <2> QED  BY <2>1 DEF Grown
<1> USE DEF IInv, Refuse
<1>d. /\ refused' \in [Windows -> SUBSET Requests]
      /\ refused'[i] = refused[i] \cup {r}
      /\ \A j \in Windows : j # i => refused'[j] = refused[j]
  BY DEF TypeOK
<1>e. pc'[r] = "refused" /\ \A q \in Requests : q # r => pc'[q] = pc[q]
  BY DEF TypeOK
<1>1. TypeOK'
  <2>1. pc' \in [Requests -> Windows \cup {"uncalled", "accepted", "refused", "failed"}]
    BY DEF TypeOK, Windows
  <2> QED  BY <2>1, <1>a, <1>b, <1>d DEF TypeOK
<1>2. HistorySeen'
  BY <1>a, <1>c, <1>d DEF HistorySeen
<1>3. OnceEach'
  BY <1>a, <1>c, <1>e DEF OnceEach, Windows
<1>4. WindowHolds'
  <2>1. Accepted' \subseteq Accepted
    BY <1>e DEF Accepted
  <2>2. \A j \in Windows : \A t \in 0..now' : Cardinality(During(passed[j], j, t)') <= Limit[j]
    BY <1>a, <1>b, <1>c, HistoryKeeps
  <2> QED  BY <2>1, <2>2, <1>a DEF WindowHolds
<1>5. RefusedForCause'
  <2> SUFFICES ASSUME NEW j \in Windows, NEW q \in refused'[j]
               PROVE  Cardinality(During(seen[j] \ {q}, j, stamp[j][q])') >= Limit[j]
    BY DEF RefusedForCause
  <2>1. CASE q \in refused[j]
    BY <2>1, <1>a, <1>b, <1>c, HistoryKeeps
  <2>2. CASE q = r /\ j = i
    (* The set that was just counted held Limit other events of the span. *)
    <3> DEFINE after == During(seen[i] \ {r}, i, stamp[i][r])'
    <3>1. Recent(i) \subseteq after
      <4> SUFFICES ASSUME NEW x \in Recent(i) PROVE x \in after
        OBVIOUS
      <4>1. x \in members[i] /\ x \in seen[i] /\ x \in Requests /\ stamp[i][x] > now - Span[i]
        BY DEF Recent, HistorySeen, TypeOK
      <4>2. x # r /\ stamp'[i][x] = stamp[i][x] /\ stamp[i][x] <= now
        BY <4>1, <1>c DEF StampsPast
      <4> QED  BY <4>1, <4>2, <1>c DEF During
    <3>2. IsFiniteSet(after) /\ IsFiniteSet(Recent(i))
      <4>1. after \subseteq Requests /\ Recent(i) \subseteq Requests
        BY <1>b DEF During, Recent, TypeOK
      <4> QED  BY <4>1, FS_Subset, RateLimiterAssumption
    <3>3. r \notin Recent(i)
      BY <1>c DEF Recent, HistorySeen
    <3>4. Cardinality(Recent(i) \cup {r}) = Cardinality(Recent(i)) + 1
      BY <3>2, <3>3, FS_AddElement
    <3>5. Cardinality(Recent(i)) <= Cardinality(after) /\ Cardinality(Recent(i)) \in Nat
          /\ Cardinality(after) \in Nat
      <4> HIDE DEF after
      <4> QED  BY <3>1, <3>2, SubsetCounts
    <3>6. Limit[i] \in Nat
      BY WindowNumbers
    <3>7. Cardinality(after) >= Limit[i]
      <4> HIDE DEF after
      <4> QED  BY <3>4, <3>5, <3>6 DEF WithinLimit
    <3> QED  BY <3>7, <2>2
  <2> QED  BY <2>1, <2>2, <1>d
<1> QED  BY <1>1, <1>b, <1>2, <1>3, <1>4, <1>5

-----------------------------------------------------------------------------
(* The steps that decide nothing. *)
LEMMA RedisFailsPreserves ==
  ASSUME IInv, NEW r \in Requests, NEW i \in Windows, RedisFails(r, i)
  PROVE  IInv'
<1>a. /\ now' = now /\ passed' = passed /\ refused' = refused /\ now \in Nat /\ pc[r] = i
      /\ pc' \in [Requests -> Windows \cup {"uncalled", "accepted", "refused", "failed"}]
      /\ pc'[r] = "failed" /\ \A q \in Requests : q # r => pc'[q] = pc[q]
  BY DEF IInv, TypeOK, RedisFails
<1>b. /\ members' \in [Windows -> SUBSET Requests] /\ expires' \in [Windows -> Nat]
      /\ stamp' \in [Windows -> [Requests -> Nat]] /\ seen' \in [Windows -> SUBSET Requests]
      /\ StampsPast' /\ MembersComplete' /\ ExpiresLate'
      /\ \A j \in Windows : members'[j] \subseteq seen'[j] /\ seen[j] \subseteq seen'[j]
      /\ \A j \in Windows : \A q \in seen[j] : stamp'[j][q] = stamp[j][q]
      /\ \A j \in Windows : seen'[j] \subseteq seen[j] \cup {r}
      /\ \A j \in Windows : j # i => seen'[j] = seen[j]
  <2>1. CASE Record(r, i)
    <3>1. /\ members' \in [Windows -> SUBSET Requests] /\ expires' \in [Windows -> Nat]
          /\ stamp' \in [Windows -> [Requests -> Nat]] /\ seen' \in [Windows -> SUBSET Requests]
          /\ StampsPast' /\ MembersComplete' /\ ExpiresLate'
      BY <2>1, <1>a, RecordKeeps
    <3>2. /\ \A j \in Windows : members'[j] \subseteq seen'[j] /\ seen[j] \subseteq seen'[j]
          /\ \A j \in Windows : \A q \in seen[j] : stamp'[j][q] = stamp[j][q]
          /\ \A j \in Windows : j # i => seen'[j] = seen[j]
          /\ seen'[i] = seen[i] \cup {r}
      <4>1. Grown(r, i)
        BY <2>1, <1>a, RecordKeeps
      <4> QED  BY <4>1 DEF Grown
    <3> QED  BY <3>1, <3>2
  <2>2. CASE UNCHANGED <<members, stamp, seen, expires>>
    BY <2>2, <1>a DEF IInv, TypeOK, StampsPast, MembersComplete, ExpiresLate, HistorySeen
  <2> QED  BY <2>1, <2>2 DEF RedisFails
<1> USE DEF IInv
<1>1. TypeOK'
  BY <1>a, <1>b DEF TypeOK
<1>2. HistorySeen'
  <2> SUFFICES ASSUME NEW j \in Windows
               PROVE  /\ members'[j] \subseteq seen'[j] /\ passed'[j] \subseteq seen'[j]
                      /\ refused'[j] \subseteq seen'[j]
    BY DEF HistorySeen
  <2> QED  BY <1>a, <1>b DEF HistorySeen
<1>3. OnceEach'
  BY <1>a, <1>b DEF OnceEach, Windows
<1>4. WindowHolds'
  <2>1. Accepted' \subseteq Accepted
    BY <1>a DEF Accepted
  <2>2. \A j \in Windows : \A t \in 0..now' : Cardinality(During(passed[j], j, t)') <= Limit[j]
    BY <1>a, <1>b, HistoryKeeps
  <2> QED  BY <2>1, <2>2, <1>a DEF WindowHolds
<1>5. RefusedForCause'
  <2> SUFFICES ASSUME NEW j \in Windows, NEW q \in refused'[j]
               PROVE  Cardinality(During(seen[j] \ {q}, j, stamp[j][q])') >= Limit[j]
    BY DEF RefusedForCause
  <2> QED  BY <1>a, <1>b, HistoryKeeps
<1> QED  BY <1>1, <1>b, <1>2, <1>3, <1>4, <1>5

(* The clock and Redis' own expiry: the windows only move on, and what is    *)
(* dropped has left every window.                                            *)
LEMMA TickPreserves ==
  ASSUME IInv, Tick
  PROVE  IInv'
<1> USE DEF IInv, Tick
<1>a. now \in Nat /\ now' = now + 1
  BY DEF TypeOK
<1>1. TypeOK' /\ StampsPast' /\ ExpiresLate' /\ HistorySeen' /\ OnceEach'
  BY DEF TypeOK, StampsPast, ExpiresLate, HistorySeen, OnceEach
<1>2. MembersComplete'
  <2> SUFFICES ASSUME NEW j \in Windows, NEW q \in seen[j], q \notin members[j]
               PROVE  stamp[j][q] <= now' - Span[j]
    BY DEF MembersComplete
  <2>1. stamp[j][q] \in Nat /\ Span[j] \in Nat
    BY WindowNumbers DEF TypeOK
  <2> QED  BY <2>1, <1>a DEF MembersComplete
<1>3. WindowHolds'
  <2>1. ASSUME NEW j \in Windows, NEW t \in 0..now'
        PROVE  Cardinality(During(passed[j], j, t)) <= Limit[j]
    <3>1. CASE t \in 0..now
      BY <3>1 DEF WindowHolds
    <3>2. CASE t = now + 1
      <4> DEFINE late  == During(passed[j], j, now + 1)
                 early == During(passed[j], j, now)
      <4>0. passed[j] \subseteq Requests
        BY DEF TypeOK
      <4>1. late \subseteq early
        <5> SUFFICES ASSUME NEW q \in late PROVE q \in early
          OBVIOUS
        <5>0. late = {x \in passed[j] : stamp[j][x] > (now + 1) - Span[j] /\ stamp[j][x] <= now + 1}
          BY DEF During
        <5>1. q \in passed[j] /\ q \in Requests /\ stamp[j][q] > (now + 1) - Span[j]
          <6> HIDE DEF late, IInv, Tick
          <6> QED  BY <4>0, <5>0
        <5>2. stamp[j][q] \in Nat /\ Span[j] \in Nat /\ stamp[j][q] <= now
          BY <5>1, WindowNumbers DEF TypeOK, StampsPast
        <5> QED  BY <5>1, <5>2, <1>a DEF During
      <4>2. passed[j] \in SUBSET Requests /\ now \in Int
        BY <1>a DEF TypeOK
      <4>3. IsFiniteSet(early)
        BY <4>2, DuringFinite
      <4>4. Cardinality(late) <= Cardinality(early) /\ Cardinality(late) \in Nat
            /\ Cardinality(early) \in Nat
        <5> HIDE DEF late, early
        <5> QED  BY <4>1, <4>3, SubsetCounts
      <4>5. Cardinality(early) <= Limit[j] /\ Limit[j] \in Nat
        BY <1>a, WindowNumbers DEF WindowHolds
      <4>6. Cardinality(late) <= Limit[j]
        <5> HIDE DEF late, early
        <5> QED  BY <4>4, <4>5
      <4> QED  BY <4>6, <3>2
    <3> QED  BY <3>1, <3>2, <1>a
  <2>2. \A j \in Windows : \A t \in 0..now' : During(passed[j], j, t)' = During(passed[j], j, t)
    BY DEF During
  <2>3. Accepted' = Accepted
    BY DEF Accepted
  <2>4. \A j \in Windows : \A t \in 0..now' : Cardinality(During(passed[j], j, t)') <= Limit[j]
    BY <2>1, <2>2
  <2> QED  BY <2>3, <2>4 DEF WindowHolds
<1>4. RefusedForCause'
  BY DEF RefusedForCause, During
<1> QED  BY <1>1, <1>2, <1>3, <1>4

LEMMA ExpirePreserves ==
  ASSUME IInv, NEW i \in Windows, Expire(i)
  PROVE  IInv'
<1> USE DEF IInv, Expire
<1>1. TypeOK' /\ StampsPast' /\ ExpiresLate' /\ OnceEach'
  BY DEF TypeOK, StampsPast, ExpiresLate, OnceEach
<1>2. HistorySeen'
  BY DEF TypeOK, HistorySeen
<1>3. MembersComplete'
  <2> SUFFICES ASSUME NEW j \in Windows, NEW q \in seen[j], q \notin members'[j]
               PROVE  stamp[j][q] <= now - Span[j]
    BY DEF MembersComplete
  <2>1. stamp[j][q] \in Nat /\ Span[j] \in Nat /\ now \in Nat /\ expires[j] \in Nat
    BY WindowNumbers DEF TypeOK
  <2>2. CASE j = i
    BY <2>1, <2>2 DEF ExpiresLate
  <2>3. CASE j # i
    BY <2>3 DEF MembersComplete, TypeOK
  <2> QED  BY <2>2, <2>3
<1>4. WindowHolds' /\ RefusedForCause'
  BY DEF WindowHolds, RefusedForCause, During, Accepted
<1> QED  BY <1>1, <1>2, <1>3, <1>4

LEMMA CallPreserves ==
  ASSUME IInv, NEW r \in Requests, Call(r)
  PROVE  IInv'
<1> USE DEF IInv, Call
<1>1. TypeOK' /\ StampsPast' /\ MembersComplete' /\ ExpiresLate' /\ HistorySeen'
  BY DEF TypeOK, Windows, StampsPast, MembersComplete, ExpiresLate, HistorySeen
<1>2. pc'[r] = "minute" /\ \A q \in Requests : q # r => pc'[q] = pc[q]
  BY DEF TypeOK
<1>3. OnceEach'
  BY <1>2 DEF OnceEach
<1>4. Accepted' \subseteq Accepted
  BY <1>2 DEF Accepted
<1>5. WindowHolds'
  BY <1>4 DEF WindowHolds, During
<1>6. RefusedForCause'
  BY DEF RefusedForCause, During
<1> QED  BY <1>1, <1>3, <1>5, <1>6

-----------------------------------------------------------------------------
(* The invariant holds in every reachable state of the limiter.              *)
THEOREM LimiterInvariant == Spec => []IInv
<1>1. ASSUME IInv, [Next]_vars PROVE IInv'
  <2>1. CASE Tick
    BY <1>1, <2>1, TickPreserves
  <2>2. ASSUME NEW i \in Windows, Expire(i) PROVE IInv'
    BY <1>1, <2>2, ExpirePreserves
  <2>3. ASSUME NEW r \in Requests, Call(r) PROVE IInv'
    BY <1>1, <2>3, CallPreserves
  <2>4. ASSUME NEW r \in Requests, NEW i \in Windows, Check(r, i) PROVE IInv'
    BY <1>1, <2>4, PassPreserves, RefusePreserves, RedisFailsPreserves DEF Check
  <2>5. CASE UNCHANGED vars
    <3> USE <1>1, <2>5 DEF vars, IInv
    <3>1. TypeOK' /\ StampsPast' /\ MembersComplete' /\ ExpiresLate'
      BY DEF TypeOK, StampsPast, MembersComplete, ExpiresLate
    <3>2. HistorySeen' /\ OnceEach'
      BY DEF HistorySeen, OnceEach
    <3>3. WindowHolds' /\ RefusedForCause'
      BY DEF WindowHolds, RefusedForCause, During, Accepted
    <3> QED  BY <3>1, <3>2, <3>3
  <2> QED  BY <1>1, <2>1, <2>2, <2>3, <2>4, <2>5 DEF Next
<1> QED  BY InitEstablishes, <1>1, PTL DEF Spec

(* The limiter never lets more requests through in any stretch of time as    *)
(* long as a window than the window allows, for all limits and lengths.      *)
THEOREM LimiterHolds == Spec => []WindowHolds
<1>1. IInv => WindowHolds
  BY DEF IInv
<1> QED  BY LimiterInvariant, <1>1, PTL

(* Nobody is refused who made fewer other requests than the limit.           *)
THEOREM LimiterRefusesForCause == Spec => []RefusedForCause
<1>1. IInv => RefusedForCause
  BY DEF IInv
<1> QED  BY LimiterInvariant, <1>1, PTL

-----------------------------------------------------------------------------
(* The refinement: what is left in the sorted set shows as much of a span    *)
(* as the complete log does.                                                 *)
LEMMA SetShowsSpan ==
  ASSUME IInv, NEW i \in Windows
  PROVE  Exact!InSpan(i) = Recent(i)
<1>1. now \in Nat /\ Span[i] \in Nat /\ seen[i] \subseteq Requests
  BY WindowNumbers DEF IInv, TypeOK
<1>2. \A q \in seen[i] : stamp[i][q] \in Nat
  BY <1>1 DEF IInv, TypeOK
<1>3. DOMAIN Log[i] = seen[i] /\ \A q \in seen[i] : Log[i][q] = stamp[i][q]
  BY DEF Log
<1>4. Exact!InSpan(i) = {q \in seen[i] : stamp[i][q] > now - Span[i]}
  BY <1>3 DEF Exact!InSpan
<1>5. members[i] \subseteq seen[i]
  BY DEF IInv, HistorySeen
<1>6. \A q \in seen[i] : q \in members[i] \/ stamp[i][q] <= now - Span[i]
  BY DEF IInv, MembersComplete
<1>7. \A q \in seen[i] : stamp[i][q] > now - Span[i] => q \in members[i]
  BY <1>1, <1>2, <1>6
<1> QED  BY <1>4, <1>5, <1>7 DEF Recent

(* So ZCARD, which counts the request itself, is within the limit exactly    *)
(* when the log has room for it.                                             *)
LEMMA SameDecision ==
  ASSUME IInv, NEW r \in Requests, NEW i \in Windows, pc[r] = i
  PROVE  WithinLimit(r, i) <=> Exact!HasRoom(i)
<1>1. r \notin seen[i]
  BY DEF IInv, OnceEach, Windows
<1>2. r \notin Recent(i) /\ Recent(i) \subseteq Requests
  BY <1>1 DEF Recent, IInv, HistorySeen, TypeOK
<1>3. IsFiniteSet(Recent(i))
  BY <1>2, FS_Subset, RateLimiterAssumption
<1>4. Cardinality(Recent(i) \cup {r}) = Cardinality(Recent(i)) + 1
  BY <1>2, <1>3, FS_AddElement
<1>5. Cardinality(Recent(i)) \in Nat /\ Limit[i] \in Nat
  BY <1>3, FS_CardinalityType, WindowNumbers
<1>6. Exact!HasRoom(i) <=> Cardinality(Recent(i)) < Limit[i]
  <2>1. Exact!Cardinality(Recent(i)) = Cardinality(Recent(i))
    BY DEF Cardinality, Exact!Cardinality
  <2> QED  BY <2>1, SetShowsSpan DEF Exact!HasRoom
<1>7. WithinLimit(r, i) <=> Cardinality(Recent(i)) + 1 <= Limit[i]
  BY <1>4 DEF WithinLimit
<1> QED  BY <1>5, <1>6, <1>7

(* The MULTI adds the request to the log of its window, with its time.       *)
LEMMA RecordIsLogged ==
  ASSUME IInv, NEW r \in Requests, NEW i \in Windows, pc[r] = i, Record(r, i)
  PROVE  Exact!Logged(r, i)
<1>1. /\ seen \in [Windows -> SUBSET Requests] /\ stamp \in [Windows -> [Requests -> Nat]]
      /\ now \in Nat
  BY DEF IInv, TypeOK
<1>2. /\ \A j \in Windows : j # i => seen'[j] = seen[j] /\ stamp'[j] = stamp[j]
      /\ seen'[i] = seen[i] \cup {r} /\ stamp'[i][r] = now
      /\ \A q \in Requests : q # r => stamp'[i][q] = stamp[i][q]
  BY <1>1 DEF Record
<1> DEFINE longer == [q \in DOMAIN Log[i] \cup {r} |-> IF q = r THEN now ELSE Log[i][q]]
<1>3. DOMAIN Log[i] = seen[i] /\ \A q \in seen[i] : Log[i][q] = stamp[i][q]
  BY DEF Log
<1>4. [q \in seen'[i] |-> stamp'[i][q]] = longer
  <2>1. DOMAIN Log[i] \cup {r} = seen'[i]
    BY <1>2, <1>3
  <2>2. \A q \in seen'[i] : stamp'[i][q] = IF q = r THEN now ELSE Log[i][q]
    BY <1>1, <1>2, <1>3
  <2> QED  BY <2>1, <2>2
<1>5. \A j \in Windows : [q \in seen'[j] |-> stamp'[j][q]] = [Log EXCEPT ![i] = longer][j]
  <2> SUFFICES ASSUME NEW j \in Windows
               PROVE  [q \in seen'[j] |-> stamp'[j][q]] = [Log EXCEPT ![i] = longer][j]
    OBVIOUS
  <2>1. CASE j = i
    BY <2>1, <1>4 DEF Log
  <2>2. CASE j # i
    BY <2>2, <1>2 DEF Log
  <2> QED  BY <2>1, <2>2
<1>6. Log' = [Log EXCEPT ![i] = longer]
  BY <1>5 DEF Log
<1> QED  BY <1>6 DEF Exact!Logged

(* Every step of the limiter is a step over the complete logs, or none: what *)
(* Redis drops was in no log's span any more.                                *)
LEMMA StepImplements ==
  ASSUME IInv, [Next]_vars
  PROVE  [Exact!WindowNext]_(Exact!windowVars)
<1> USE DEF Exact!WindowNext, Exact!windowVars
<1>1. ASSUME now' = now, pc' = pc, seen' = seen, stamp' = stamp
      PROVE  [Exact!WindowNext]_(Exact!windowVars)
  BY <1>1 DEF Log
<1>2. CASE Tick
  BY <1>2 DEF Tick, Log, Exact!Pause
<1>3. ASSUME NEW i \in Windows, Expire(i)
      PROVE  [Exact!WindowNext]_(Exact!windowVars)
  BY <1>1, <1>3 DEF Expire
<1>4. ASSUME NEW r \in Requests, Call(r)
      PROVE  [Exact!WindowNext]_(Exact!windowVars)
  BY <1>4 DEF Call, Log, Exact!Enter, Exact!Move
<1>5. ASSUME NEW r \in Requests, NEW i \in Windows, Check(r, i)
      PROVE  [Exact!WindowNext]_(Exact!windowVars)
  <2>1. CASE Pass(r, i)
    <3>1. Exact!HasRoom(i) /\ Exact!Logged(r, i)
      BY <2>1, SameDecision, RecordIsLogged DEF Pass
    <3>2. Exact!Decide(r, i)
      BY <2>1, <3>1 DEF Pass, Exact!Decide, Exact!Move
    <3> QED  BY <3>2
  <2>2. CASE Refuse(r, i)
    <3>1. ~Exact!HasRoom(i) /\ Exact!Logged(r, i)
      BY <2>2, SameDecision, RecordIsLogged DEF Refuse
    <3>2. Exact!Decide(r, i)
      BY <2>2, <3>1 DEF Refuse, Exact!Decide, Exact!Move
    <3> QED  BY <3>2
  <2>3. CASE RedisFails(r, i)
    <3>1. Exact!Logged(r, i) \/ Log' = Log
      BY <2>3, RecordIsLogged DEF RedisFails, Log
    <3>2. Exact!Lose(r, i)
      BY <2>3, <3>1 DEF RedisFails, Exact!Lose, Exact!Move
    <3> QED  BY <3>2
  <2> QED  BY <1>5, <2>1, <2>2, <2>3 DEF Check
<1>6. CASE UNCHANGED vars
  BY <1>1, <1>6 DEF vars
<1> QED  BY <1>2, <1>3, <1>4, <1>5, <1>6 DEF Next

LEMMA InitImplements == Init => Exact!WindowInit
<1> SUFFICES ASSUME Init PROVE Exact!WindowInit
  OBVIOUS
<1>1. \A i \in Windows : seen[i] = {}
  BY DEF Init
<1>2. \A i \in Windows : [r \in seen[i] |-> stamp[i][r]] = [r \in {} |-> 0]
  BY <1>1
<1>3. Log = [i \in Windows |-> [r \in {} |-> 0]]
  BY <1>2 DEF Log
<1> QED  BY <1>3 DEF Init, Exact!WindowInit

(* The limiter of rateLimiter.js implements SlidingWindow: with trimming at  *)
(* the next request, expiry of whole keys and failures on the way, it takes  *)
(* every decision as if it had kept every request it was ever asked about.   *)
THEOREM LimiterImplementsWindow == Spec => SlidingWindowSpec
<1>1. IInv /\ [Next]_vars => [Exact!WindowNext]_(Exact!windowVars)
  BY StepImplements
<1> QED  BY <1>1, InitImplements, LimiterInvariant, PTL DEF Spec, SlidingWindowSpec, Exact!Spec
=============================================================================
