------------------------- MODULE CommandValidatorProofs ------------------------
(***************************************************************************)
(* Proofs about CommandValidator for every set of command lines, of any    *)
(* length, and every alphabet: tokenize() yields the words of the line,    *)
(* the four parse() that have a loop accept exactly the well-formed        *)
(* commands, and what they return is one.                                  *)
(***************************************************************************)
EXTENDS CommandValidator, SequenceTheorems, FiniteSetTheorems, TLAPS

-----------------------------------------------------------------------------
(* Reading from left to right: which positions hold a value. *)

(* The j-th of s is not the value of the option before it. *)
Begins(t, s, j) == \E m \in OptionsBefore(t, s, j) : (j - m) % 2 = 0

LEMMA OneRowOfOptions ==
  ASSUME NEW t, NEW s, NEW k \in Nat, NEW m \in OptionsBefore(t, s, k), NEW n \in OptionsBefore(t, s, k)
  PROVE  m = n
<1>1. ASSUME NEW a \in OptionsBefore(t, s, k), NEW b \in OptionsBefore(t, s, k), a < b
      PROVE  FALSE
  <2>1. a \in 1..k /\ b \in 1..k
    BY DEF OptionsBefore
  <2>2. b - 1 \in a..(k - 1) /\ b # 1
    BY <1>1, <2>1
  <2>3. s[b - 1] \in Options[t] /\ s[b - 1] \notin Options[t]
    BY <2>2, Zenon DEF OptionsBefore
  <2> QED  BY <2>3
<1>2. m \in 1..k /\ n \in 1..k
  BY DEF OptionsBefore
<1>3. m < n \/ n < m \/ m = n
  BY <1>2
<1> QED  BY <1>1, <1>3

LEMMA FirstBegins ==
  ASSUME NEW t, NEW s
  PROVE  Begins(t, s, 1)
<1>1. 1 \in OptionsBefore(t, s, 1)
  BY DEF OptionsBefore
<1>2. (1 - 1) % 2 = 0
  OBVIOUS
<1> QED  BY <1>1, <1>2, Zenon DEF Begins

LEMMA ValueDoesNotBegin ==
  ASSUME NEW t, NEW s, NEW j \in Nat, Begins(t, s, j)
  PROVE  j \notin ValuesIn(t, s)
<1> SUFFICES ASSUME j \in ValuesIn(t, s) PROVE FALSE
  OBVIOUS
<1>1. PICK m \in OptionsBefore(t, s, j) : (j - m) % 2 = 0
  BY Zenon DEF Begins
<1>2. PICK n \in OptionsBefore(t, s, j) : (j - n) % 2 = 1
  BY Zenon DEF ValuesIn
<1>3. m = n
  BY OneRowOfOptions
<1> QED  BY <1>1, <1>2, <1>3

LEMMA AfterOther ==
  ASSUME NEW t, NEW s, NEW j \in Nat \ {0}, s[j] \notin Options[t]
  PROVE  Begins(t, s, j + 1)
<1>1. j + 1 \in OptionsBefore(t, s, j + 1)
  BY DEF OptionsBefore
<1>2. ((j + 1) - (j + 1)) % 2 = 0
  OBVIOUS
<1> QED  BY <1>1, <1>2, Zenon DEF Begins

LEMMA AfterOption ==
  ASSUME NEW t, NEW s, NEW j \in Nat \ {0}, Begins(t, s, j), s[j] \in Options[t]
  PROVE  /\ j + 1 \in DOMAIN s => j + 1 \in ValuesIn(t, s)
         /\ Begins(t, s, j + 2)
<1>1. PICK m \in OptionsBefore(t, s, j) : (j - m) % 2 = 0
  BY Zenon DEF Begins
<1>2. m \in 1..j
  BY DEF OptionsBefore
<1>3. m \in OptionsBefore(t, s, j + 1)
  BY <1>2 DEF OptionsBefore
<1>4. ((j + 1) - m) % 2 = 1
  BY <1>1, <1>2
<1>5. j + 1 \in DOMAIN s => j + 1 \in ValuesIn(t, s)
  BY <1>3, <1>4, Zenon DEF ValuesIn
<1>6. CASE s[j + 1] \in Options[t]
  <2>1. m \in OptionsBefore(t, s, j + 2)
    BY <1>2, <1>3, <1>6 DEF OptionsBefore
  <2>2. ((j + 2) - m) % 2 = 0
    BY <1>1, <1>2
  <2> QED  BY <1>5, <2>1, <2>2, Zenon DEF Begins
<1>7. CASE s[j + 1] \notin Options[t]
  <2>1. Begins(t, s, (j + 1) + 1)
    BY <1>7, AfterOther
  <2>2. (j + 1) + 1 = j + 2
    OBVIOUS
  <2> QED  BY <1>5, <2>1, <2>2
<1> QED  BY <1>6, <1>7

-----------------------------------------------------------------------------
(* What has been read of s before its j-th: every option with its value, and *)
(* some operands.                                                            *)
OptionsRead(t, s, j) ==
  \A k \in OptionsIn(t, s) :
    k < j => k + 1 < j /\ k + 1 \in ValuesIn(t, s) /\ IsValue(t, s[k], s[k + 1])
Read(t, s, j) == j \in 1..(Len(s) + 1) /\ Begins(t, s, j) /\ OptionsRead(t, s, j)
OperandsBelow(t, s, j) == {k \in OperandsIn(t, s) : k < j}
OptionsBelow(t, s, j) == {k \in OptionsIn(t, s) : k < j}

(* Reading from the j-th up to the k-th finds the operands new. *)
ReadsOn(t, s, j, k, new) ==
  Read(t, s, k) /\ OperandsBelow(t, s, k) = OperandsBelow(t, s, j) \cup new

LEMMA NothingRead ==
  ASSUME NEW S, NEW t, NEW s \in Seq(S)
  PROVE  Read(t, s, 1) /\ OperandsBelow(t, s, 1) = {}
<1>1. \A k \in DOMAIN s : ~(k < 1)
  BY LenProperties
<1>2. OptionsRead(t, s, 1)
  BY <1>1 DEF OptionsRead, OptionsIn
<1>3. OperandsBelow(t, s, 1) = {}
  BY <1>1 DEF OperandsBelow, OperandsIn
<1>4. 1 \in 1..(Len(s) + 1)
  BY LenProperties
<1> QED  BY <1>2, <1>3, <1>4, FirstBegins DEF Read

LEMMA ReadOther ==
  ASSUME NEW S, NEW t, NEW s \in Seq(S), NEW j \in 1..Len(s), Read(t, s, j), s[j] \notin Options[t]
  PROVE  ReadsOn(t, s, j, j + 1, IF s[j] \in Flags[t] THEN {} ELSE {j})
<1>1. DOMAIN s = 1..Len(s) /\ Len(s) \in Nat
  BY LenProperties
<1>2. Begins(t, s, j + 1)
  BY <1>1, AfterOther
<1>3. j \notin ValuesIn(t, s)
  BY ValueDoesNotBegin DEF Read
<1>4. OptionsRead(t, s, j + 1)
  <2> SUFFICES ASSUME NEW k \in OptionsIn(t, s), k < j + 1
               PROVE  k + 1 < j + 1 /\ k + 1 \in ValuesIn(t, s) /\ IsValue(t, s[k], s[k + 1])
    BY Zenon DEF OptionsRead
  <2>1. k \in 1..Len(s) /\ s[k] \in Options[t]
    BY <1>1, Zenon DEF OptionsIn
  <2>2. k < j
    BY <2>1
  <2>3. k + 1 < j /\ k + 1 \in ValuesIn(t, s) /\ IsValue(t, s[k], s[k + 1])
    BY <2>2, Zenon DEF Read, OptionsRead
  <2> QED  BY <2>1, <2>3
<1>5. OperandsBelow(t, s, j + 1) =
        OperandsBelow(t, s, j) \cup (IF s[j] \in Flags[t] THEN {} ELSE {j})
  <2>1. \A k \in DOMAIN s : k < j + 1 <=> k < j \/ k = j
    BY <1>1
  <2>2. j \in OperandsIn(t, s) <=> s[j] \notin Flags[t]
    BY <1>1, <1>3 DEF OperandsIn
  <2>3. OperandsIn(t, s) \subseteq DOMAIN s
    BY DEF OperandsIn
  <2>4. j < j + 1
    OBVIOUS
  <2> QED  BY <2>1, <2>2, <2>3, <2>4 DEF OperandsBelow
<1>6. j + 1 \in 1..(Len(s) + 1)
  BY <1>1
<1> QED  BY <1>2, <1>4, <1>5, <1>6, Zenon DEF Read, ReadsOn

LEMMA ReadOption ==
  ASSUME NEW S, NEW t, NEW s \in Seq(S), NEW j \in 1..Len(s), Read(t, s, j), s[j] \in Options[t],
         j + 1 <= Len(s), IsValue(t, s[j], s[j + 1])
  PROVE  /\ ReadsOn(t, s, j, j + 2, {})
         /\ OptionsBelow(t, s, j + 2) = OptionsBelow(t, s, j) \cup {j}
<1>1. DOMAIN s = 1..Len(s) /\ Len(s) \in Nat
  BY LenProperties
<1>2. j + 1 \in ValuesIn(t, s) /\ Begins(t, s, j + 2)
  <2>1. j + 1 \in DOMAIN s
    BY <1>1
  <2> QED  BY <2>1, AfterOption DEF Read
<1>3. j \in OptionsIn(t, s)
  BY <1>1, ValueDoesNotBegin DEF Read, OptionsIn
<1>4. \A k \in DOMAIN s : k < j + 2 <=> k < j \/ k = j \/ k = j + 1
  BY <1>1
<1>5. OptionsIn(t, s) \subseteq DOMAIN s /\ OperandsIn(t, s) \subseteq DOMAIN s
  BY DEF OptionsIn, OperandsIn
<1>6. j + 1 \notin OptionsIn(t, s) /\ j + 1 \notin OperandsIn(t, s) /\ j \notin OperandsIn(t, s)
  BY <1>2 DEF OptionsIn, OperandsIn
<1>7. OptionsBelow(t, s, j + 2) = OptionsBelow(t, s, j) \cup {j}
  BY <1>3, <1>4, <1>5, <1>6, j < j + 2 DEF OptionsBelow
<1>8. OperandsBelow(t, s, j + 2) = OperandsBelow(t, s, j) \cup {}
  BY <1>4, <1>5, <1>6 DEF OperandsBelow
<1>9. OptionsRead(t, s, j + 2)
  <2> SUFFICES ASSUME NEW k \in OptionsIn(t, s), k < j + 2
               PROVE  k + 1 < j + 2 /\ k + 1 \in ValuesIn(t, s) /\ IsValue(t, s[k], s[k + 1])
    BY Zenon DEF OptionsRead
  <2>1. k \in 1..Len(s)
    BY <1>1, <1>5
  <2>2. CASE k = j
    BY <2>2, <1>2
  <2>3. CASE k < j
    <3>1. k + 1 < j /\ k + 1 \in ValuesIn(t, s) /\ IsValue(t, s[k], s[k + 1])
      BY <2>3, Zenon DEF Read, OptionsRead
    <3> QED  BY <2>1, <3>1
  <2> QED  BY <1>7, <2>2, <2>3 DEF OptionsBelow
<1>10. j + 2 \in 1..(Len(s) + 1)
  BY <1>1
<1> QED  BY <1>2, <1>7, <1>8, <1>9, <1>10, Zenon DEF Read, ReadsOn

(* An option without a value that it may have, of a line that is well-formed *)
(* or not up to it.                                                          *)
LEMMA NoValueNotWellFormed ==
  ASSUME NEW S, NEW t, NEW s \in Seq(S), NEW j \in 1..Len(s), Read(t, s, j), s[j] \in Options[t],
         ~(j + 1 <= Len(s) /\ IsValue(t, s[j], s[j + 1]))
  PROVE  ~WellFormed(t, s)
<1>1. DOMAIN s = 1..Len(s) /\ Len(s) \in Nat
  BY LenProperties
<1>2. j \in OptionsIn(t, s)
  BY <1>1, ValueDoesNotBegin DEF Read, OptionsIn
<1>3. j + 1 \in ValuesIn(t, s) => j + 1 <= Len(s)
  BY <1>1 DEF ValuesIn
<1> QED  BY <1>2, <1>3, Zenon DEF WellFormed

LEMMA AllRead ==
  ASSUME NEW S, NEW t, NEW s \in Seq(S), NEW j, j = Len(s) + 1, Read(t, s, j)
  PROVE  /\ OperandsBelow(t, s, j) = OperandsIn(t, s)
         /\ OptionsBelow(t, s, j) = OptionsIn(t, s)
         /\ \A k \in OptionsIn(t, s) : k + 1 \in ValuesIn(t, s) /\ IsValue(t, s[k], s[k + 1])
<1>1. DOMAIN s = 1..Len(s) /\ Len(s) \in Nat
  BY LenProperties
<1>2. OptionsIn(t, s) \subseteq DOMAIN s /\ OperandsIn(t, s) \subseteq DOMAIN s
  BY DEF OptionsIn, OperandsIn
<1>3. \A k \in DOMAIN s : k < j
  BY <1>1
<1>4. OperandsBelow(t, s, j) = OperandsIn(t, s)
  BY <1>2, <1>3 DEF OperandsBelow
<1>5. OptionsBelow(t, s, j) = OptionsIn(t, s)
  BY <1>2, <1>3 DEF OptionsBelow
<1>6. \A k \in OptionsIn(t, s) : k + 1 \in ValuesIn(t, s) /\ IsValue(t, s[k], s[k + 1])
  BY <1>2, <1>3, Zenon DEF Read, OptionsRead
<1> QED  BY <1>4, <1>5, <1>6

-----------------------------------------------------------------------------
(* More tokens change nothing in what was read. *)

LEMMA OptionsBeforeKept ==
  ASSUME NEW S, NEW t, NEW s \in Seq(S), NEW u \in Seq(S), NEW k \in 1..(Len(s) + 1)
  PROVE  OptionsBefore(t, s \o u, k) = OptionsBefore(t, s, k)
<1>1. Len(s) \in Nat /\ \A n \in 1..Len(s) : (s \o u)[n] = s[n]
  BY LenProperties, ConcatProperties
<1>2. \A m \in 1..k : \A n \in m..(k - 1) : (s \o u)[n] = s[n]
  BY <1>1
<1>3. \A m \in 1..k : m = 1 \/ (s \o u)[m - 1] = s[m - 1]
  <2> SUFFICES ASSUME NEW m \in 1..k, m # 1 PROVE (s \o u)[m - 1] = s[m - 1]
    OBVIOUS
  <2>1. m - 1 \in 1..Len(s)
    BY <1>1
  <2> QED  BY <1>1, <2>1
<1> QED  BY <1>2, <1>3, Zenon DEF OptionsBefore

LEMMA PositionsKept ==
  ASSUME NEW S, NEW t, NEW s \in Seq(S), NEW u \in Seq(S), NEW k \in 1..Len(s)
  PROVE  /\ (s \o u)[k] = s[k] /\ k \in DOMAIN s /\ k \in DOMAIN (s \o u)
         /\ k \in ValuesIn(t, s \o u) <=> k \in ValuesIn(t, s)
         /\ k \in OptionsIn(t, s \o u) <=> k \in OptionsIn(t, s)
         /\ k \in OperandsIn(t, s \o u) <=> k \in OperandsIn(t, s)
<1>1. DOMAIN s = 1..Len(s) /\ Len(s) \in Nat /\ Len(u) \in Nat
  BY LenProperties
<1>2. s \o u \in Seq(S) /\ Len(s \o u) = Len(s) + Len(u) /\ (s \o u)[k] = s[k]
  BY <1>1, ConcatProperties
<1>3. DOMAIN (s \o u) = 1..(Len(s) + Len(u))
  BY <1>2, LenProperties
<1>4. k \in DOMAIN s /\ k \in DOMAIN (s \o u)
  BY <1>1, <1>3
<1>5. k \in ValuesIn(t, s \o u) <=> k \in ValuesIn(t, s)
  <2>1. k \in 1..(Len(s) + 1)
    BY <1>1
  <2>2. OptionsBefore(t, s \o u, k) = OptionsBefore(t, s, k)
    BY <2>1, OptionsBeforeKept
  <2> QED  BY <1>4, <2>2, Zenon DEF ValuesIn
<1>6. k \in OptionsIn(t, s \o u) <=> k \in OptionsIn(t, s)
  BY <1>2, <1>4, <1>5, Zenon DEF OptionsIn
<1>7. k \in OperandsIn(t, s \o u) <=> k \in OperandsIn(t, s)
  BY <1>2, <1>4, <1>5, Zenon DEF OperandsIn
<1> QED  BY <1>2, <1>4, <1>5, <1>6, <1>7

(* All of s read, no operand in it: the args that curl's parse() gathers. *)
OnlyOptions(t, s) == Read(t, s, Len(s) + 1) /\ OperandsBelow(t, s, Len(s) + 1) = {}

LEMMA ReadKept ==
  ASSUME NEW S, NEW t, NEW s \in Seq(S), NEW u \in Seq(S), OnlyOptions(t, s)
  PROVE  /\ Read(t, s \o u, Len(s) + 1)
         /\ OperandsBelow(t, s \o u, Len(s) + 1) = {}
<1>1. DOMAIN s = 1..Len(s) /\ Len(s) \in Nat /\ Len(u) \in Nat
  BY LenProperties
<1>2. s \o u \in Seq(S) /\ Len(s \o u) = Len(s) + Len(u)
  BY ConcatProperties
<1>3. DOMAIN (s \o u) = 1..(Len(s) + Len(u))
  BY <1>2, LenProperties
<1>4. Begins(t, s \o u, Len(s) + 1)
  <2>1. Len(s) + 1 \in 1..(Len(s) + 1)
    BY <1>1
  <2>2. OptionsBefore(t, s \o u, Len(s) + 1) = OptionsBefore(t, s, Len(s) + 1)
    BY <2>1, OptionsBeforeKept
  <2> QED  BY <2>2, Zenon DEF Begins, Read, OnlyOptions
<1>5. OptionsRead(t, s \o u, Len(s) + 1)
  <2> SUFFICES ASSUME NEW k \in OptionsIn(t, s \o u), k < Len(s) + 1
               PROVE  /\ k + 1 < Len(s) + 1 /\ k + 1 \in ValuesIn(t, s \o u)
                      /\ IsValue(t, (s \o u)[k], (s \o u)[k + 1])
    BY Zenon DEF OptionsRead
  <2>1. k \in 1..Len(s)
    BY <1>1, <1>3 DEF OptionsIn
  <2>2. k \in OptionsIn(t, s) /\ (s \o u)[k] = s[k]
    <3>1. (s \o u)[k] = s[k] /\ (k \in OptionsIn(t, s \o u) <=> k \in OptionsIn(t, s))
      BY ONLY <2>1, PositionsKept, s \in Seq(S), u \in Seq(S)
    <3> QED  BY <3>1
  <2>3. k + 1 < Len(s) + 1 /\ k + 1 \in ValuesIn(t, s) /\ IsValue(t, s[k], s[k + 1])
    BY <2>2, Zenon DEF Read, OptionsRead, OnlyOptions
  <2>4. k + 1 \in 1..Len(s)
    BY <1>1, <2>1, <2>3
  <2>5. k + 1 \in ValuesIn(t, s \o u) /\ (s \o u)[k + 1] = s[k + 1]
    BY <2>3, <2>4, PositionsKept
  <2> QED  BY <2>2, <2>3, <2>5
<1>6. OperandsBelow(t, s \o u, Len(s) + 1) = {}
  <2> SUFFICES ASSUME NEW k \in OperandsIn(t, s \o u), k < Len(s) + 1 PROVE FALSE
    BY DEF OperandsBelow
  <2>1. k \in 1..Len(s)
    BY <1>1, <1>3 DEF OperandsIn
  <2>2. k \in OperandsIn(t, s)
    BY <2>1, PositionsKept
  <2> QED  BY <2>2 DEF OnlyOptions, OperandsBelow
<1>7. Len(s) + 1 \in 1..(Len(s \o u) + 1)
  BY <1>1, <1>2
<1> QED  BY <1>4, <1>5, <1>6, <1>7, Zenon DEF Read

LEMMA OnlyOptionsFlag ==
  ASSUME NEW S, NEW t, NEW s \in Seq(S), OnlyOptions(t, s),
         NEW x \in S, x \in Flags[t], x \notin Options[t]
  PROVE  OnlyOptions(t, s \o <<x>>)
<1> DEFINE r == s \o <<x>>
           j == Len(s) + 1
<1>1. <<x>> \in Seq(S) /\ Len(<<x>>) = 1 /\ Len(s) \in Nat
  BY LenProperties
<1>2. r \in Seq(S) /\ Len(r) = Len(s) + 1 /\ r[j] = x
  BY <1>1, ConcatProperties
<1>3. Read(t, r, j) /\ OperandsBelow(t, r, j) = {}
  BY <1>1, ReadKept
<1>4. j \in 1..Len(r)
  BY <1>1, <1>2
<1> HIDE DEF r
<1>5. ReadsOn(t, r, j, j + 1, IF r[j] \in Flags[t] THEN {} ELSE {j})
  BY <1>2, <1>3, <1>4, ReadOther, Zenon
<1>6. OnlyOptions(t, r)
  BY <1>2, <1>3, <1>5 DEF OnlyOptions, ReadsOn
<1> QED  BY <1>6 DEF r

LEMMA OnlyOptionsOption ==
  ASSUME NEW S, NEW t, NEW s \in Seq(S), OnlyOptions(t, s),
         NEW x \in S, x \in Options[t], NEW v \in S, IsValue(t, x, v)
  PROVE  OnlyOptions(t, s \o <<x, v>>)
<1> DEFINE r == s \o <<x, v>>
           j == Len(s) + 1
<1>1. <<x, v>> \in Seq(S) /\ Len(<<x, v>>) = 2 /\ Len(s) \in Nat
  BY LenProperties
<1>2. r \in Seq(S) /\ Len(r) = Len(s) + 2 /\ r[j] = x /\ r[j + 1] = v
  BY <1>1, ConcatProperties
<1>3. Read(t, r, j) /\ OperandsBelow(t, r, j) = {}
  BY <1>1, ReadKept
<1>4. j \in 1..Len(r) /\ j + 1 <= Len(r)
  BY <1>1, <1>2
<1>9. Len(r) \in Nat /\ j = Len(s) + 1
  BY <1>1, <1>2
<1> HIDE DEF r, j
<1>5. ReadsOn(t, r, j, j + 2, {})
  <2>1. r[j] \in Options[t] /\ IsValue(t, r[j], r[j + 1])
    BY <1>2, Zenon
  <2> QED  BY <1>2, <1>3, <1>4, <2>1, ReadOption, Zenon
<1>6. j + 2 = Len(r) + 1
  BY <1>1, <1>2, <1>9
<1>7. OnlyOptions(t, r)
  BY <1>3, <1>5, <1>6 DEF OnlyOptions, ReadsOn
<1> QED  BY <1>7 DEF r

(* Options, then the operand. *)
LEMMA OperandLastWellFormed ==
  ASSUME NEW S, NEW t, t # "openssl", NEW s \in Seq(S), OnlyOptions(t, s),
         NEW x \in S, x \notin Options[t] \cup Flags[t], IsOperand(t, x)
  PROVE  WellFormed(t, s \o <<x>>)
<1> DEFINE r == s \o <<x>>
           j == Len(s) + 1
<1>1. <<x>> \in Seq(S) /\ Len(<<x>>) = 1 /\ Len(s) \in Nat
  BY LenProperties
<1>2. r \in Seq(S) /\ Len(r) = Len(s) + 1 /\ r[j] = x
  BY <1>1, ConcatProperties
<1>3. Read(t, r, j) /\ OperandsBelow(t, r, j) = {}
  BY <1>1, ReadKept
<1>4. j \in 1..Len(r) /\ DOMAIN r = 1..Len(r)
  BY <1>1, <1>2, LenProperties
<1>9. Len(r) \in Nat /\ j = Len(s) + 1
  BY <1>1, <1>2
<1> HIDE DEF r, j
<1>5. ReadsOn(t, r, j, j + 1, IF r[j] \in Flags[t] THEN {} ELSE {j}) /\ r[j] \notin Flags[t]
  <2>1. r[j] \notin Options[t] /\ r[j] \notin Flags[t]
    BY <1>2
  <2> QED  BY <1>2, <1>3, <1>4, <2>1, ReadOther, Zenon
<1>6. j + 1 = Len(r) + 1
  BY <1>1, <1>2, <1>9
<1>7. /\ OperandsIn(t, r) = {j}
      /\ \A k \in OptionsIn(t, r) : k + 1 \in ValuesIn(t, r) /\ IsValue(t, r[k], r[k + 1])
  BY <1>2, <1>3, <1>5, <1>6, AllRead DEF ReadsOn
<1>8. WellFormed(t, r)
  BY <1>2, <1>4, <1>7, Zenon DEF WellFormed
<1> QED  BY <1>8 DEF r

-----------------------------------------------------------------------------
(* The words the parsers look for. *)

LEMMA SameWord ==
  ASSUME NEW a, NEW b, W(a) = W(b)
  PROVE  a = b
BY DEF W

LEMMA ToolWords ==
  /\ Flags["curl"] = Words({"-I", "-i", "-L"})
  /\ Options["curl"] = Words({"-X", "-H", "-A", "--user-agent", "-d", "--data"})
  /\ Flags["openssl"] = Words({"-showcerts"})
  /\ Options["openssl"] = Words({"-connect", "-servername"})
  /\ Flags["mtr"] = Words({"-4", "-6", "-r"})
  /\ Options["mtr"] = Words({"-c"})
  /\ Flags["ping"] = {}
  /\ Options["ping"] = Words({"-c"})
  /\ MaxCount["mtr"] = MtrMax /\ MaxCount["ping"] = PingMax
BY DEF Flags, Options, Looping, MaxCount

LEMMA FlagsAreNotOptions ==
  ASSUME NEW t \in Looping, NEW x \in Flags[t]
  PROVE  x \notin Options[t]
<1>1. PICK w : x = W(w) /\ x \in Flags[t]
  BY ToolWords DEF Looping, Words
<1> QED  BY <1>1, ToolWords, SameWord DEF Looping, Words

(* Every flag and option starts with a dash, so it is no operand. *)
LEMMA DashedWords ==
  ASSUME NEW t \in Looping, NEW x \in Flags[t] \cup Options[t]
  PROVE  StartsWith(x, Dashes)
<1>1. x \in Words(Dashes)
  BY AlphabetAssumption
<1>2. PICK w \in Dashes : x = <<w>>
  BY <1>1 DEF Words, W
<1> QED  BY <1>2 DEF StartsWith

LEMMA DashedIsNoOperand ==
  ASSUME NEW S, NEW t, NEW v \in Seq(S), StartsWith(v, Dashes)
  PROVE  ~IsOperand(t, v)
<1>1. v # <<>> /\ v[1] \in Dashes /\ v[1] \in Range(v)
  <2>1. v # <<>> /\ v[1] \in Dashes
    BY DEF StartsWith
  <2>2. 1 \in DOMAIN v
    BY <2>1, EmptySeq, LenProperties
  <2> QED  BY <2>1, <2>2 DEF Range
<1>2. v[1] \notin Labels \cup Urls \cup Hex \cup {":"}
  BY <1>1, CommandValidatorAssumption
<1>3. ~IsUrl(v)
  BY <1>2 DEF IsUrl, StartsWith
<1>4. ~IsValidHost(v)
  BY <1>1, <1>2 DEF IsValidHost, IsValidHostname, IsValidIPv6
<1> QED  BY <1>3, <1>4 DEF IsOperand

LEMMA OperandIsNoWord ==
  ASSUME NEW S, NEW t \in Looping, NEW v \in Seq(S), IsOperand(t, v)
  PROVE  v \notin Options[t] \cup Flags[t]
BY DashedWords, DashedIsNoOperand

LEMMA ValueOf ==
  ASSUME NEW t, NEW v
  PROVE  /\ IsValue(t, W("-X"), v) <=> IsMethod(v)
         /\ IsValue(t, W("-H"), v) <=> IsHeader(v)
         /\ \A x \in Words({"-A", "--user-agent"}) : IsValue(t, x, v) <=> IsUserAgent(v)
         /\ \A x \in Words({"-d", "--data"}) : IsValue(t, x, v) <=> IsData(v)
         /\ IsValue(t, W("-connect"), v) <=> IsConnectTarget(v)
         /\ IsValue(t, W("-servername"), v) <=> IsValidHost(v)
         /\ IsValue(t, W("-c"), v) <=> Number(v) \in 1..MaxCount[t]
<1>1. \A a, b : W(a) = W(b) => a = b
  BY SameWord
<1>2. IsValue(t, W("-X"), v) <=> IsMethod(v)
  BY <1>1 DEF IsValue, Words
<1>3. IsValue(t, W("-H"), v) <=> IsHeader(v)
  BY <1>1 DEF IsValue, Words
<1>4. \A x \in Words({"-A", "--user-agent"}) : IsValue(t, x, v) <=> IsUserAgent(v)
  BY <1>1 DEF IsValue, Words
<1>5. \A x \in Words({"-d", "--data"}) : IsValue(t, x, v) <=> IsData(v)
  BY <1>1 DEF IsValue, Words
<1>6. IsValue(t, W("-connect"), v) <=> IsConnectTarget(v)
  BY <1>1 DEF IsValue, Words
<1>7. IsValue(t, W("-servername"), v) <=> IsValidHost(v)
  BY <1>1 DEF IsValue, Words
<1>8. IsValue(t, W("-c"), v) <=> Number(v) \in 1..MaxCount[t]
  BY <1>1 DEF IsValue, Words
<1> QED  BY <1>2, <1>3, <1>4, <1>5, <1>6, <1>7, <1>8, Zenon

-----------------------------------------------------------------------------
(* What an iteration may do with rest: read a flag, an option with its       *)
(* value, or the operand; or refuse it.                                      *)
FlagRead(t, rest, r) == Head(rest) \in Flags[t] /\ r.n = 1
OptionRead(t, rest, r) ==
  /\ Head(rest) \in Options[t] /\ Len(rest) > 1 /\ IsValue(t, Head(rest), rest[2])
  /\ r.n = 2
OperandRead(t, rest, r) ==
  /\ Head(rest) \notin Options[t] \cup Flags[t] /\ IsOperand(t, Head(rest)) /\ p.target = <<>>
  /\ r = [n |-> 1, p |-> [p EXCEPT !.target = <<Head(rest)>>]]
BadOption(t, rest) ==
  Head(rest) \in Options[t] /\ ~(Len(rest) > 1 /\ IsValue(t, Head(rest), rest[2]))
BadOperand(t, rest) ==
  Head(rest) \notin Options[t] \cup Flags[t] /\ (p.target = <<>> => ~IsOperand(t, Head(rest)))

PushesOption(v, r) ==
  \E x \in Options["curl"], y \in {v, ToUpper(v)} : IsValue("curl", x, y) /\ r.p = Push(<<x, y>>)

LEMMA MethodKept ==
  ASSUME NEW v, IsMethod(v)
  PROVE  IsMethod(ToUpper(v))
BY AlphabetAssumption, Zenon DEF IsMethod

LEMMA OperandStep ==
  ASSUME NEW S, NEW t \in {"curl", "mtr", "ping"}, NEW rest, Head(rest) \in Seq(S),
         Head(rest) \notin Options[t] \cup Flags[t], NEW ok, ok <=> IsOperand(t, Head(rest)),
         NEW r \in IF StartsWith(Head(rest), Dashes) THEN Throws ELSE Operand(Head(rest), ok)
  PROVE  OperandRead(t, rest, r)
BY DEF Throws, Operand, OperandRead, Reads

LEMMA OperandThrows ==
  ASSUME NEW S, NEW t \in {"curl", "mtr", "ping"}, NEW rest, Head(rest) \in Seq(S),
         Head(rest) \notin Options[t] \cup Flags[t], NEW ok, ok <=> IsOperand(t, Head(rest)),
         (IF StartsWith(Head(rest), Dashes) THEN Throws ELSE Operand(Head(rest), ok)) = {}
  PROVE  BadOperand(t, rest)
<1>1. CASE StartsWith(Head(rest), Dashes)
  BY <1>1, DashedIsNoOperand, Zenon DEF BadOperand
<1>2. CASE ~StartsWith(Head(rest), Dashes)
  BY <1>2 DEF BadOperand, Operand, Throws, Reads
<1> QED  BY <1>1, <1>2

LEMMA CurlReads ==
  ASSUME NEW S, NEW rest, Head(rest) \in Seq(S), NEW r \in CurlStep(rest)
  PROVE  \/ FlagRead("curl", rest, r) /\ r.p = Push(<<Head(rest)>>)
         \/ OptionRead("curl", rest, r) /\ PushesOption(rest[2], r)
         \/ OperandRead("curl", rest, r)
<1> DEFINE v == Head(rest)
           t == "curl"
<1> HIDE DEF v
<1>1. CASE v \in Words({"-I", "-i", "-L"})
  <2>1. r \in Reads(1, Push(<<v>>))
    BY <1>1, SameWord DEF CurlStep, v, Words
  <2> QED  BY <1>1, <2>1, ToolWords DEF Reads, FlagRead, v
<1>2. CASE v = W("-X")
  <2>1. Given(rest, IsMethod) /\ r \in Reads(2, Push(<<v, ToUpper(rest[2])>>))
    BY <1>2, SameWord DEF CurlStep, v, Words, Throws
  <2>2. W("-X") \in Options["curl"]
    BY ToolWords DEF Words
  <2>3. IsMethod(rest[2]) /\ Len(rest) > 1 /\ r.n = 2 /\ r.p = Push(<<W("-X"), ToUpper(rest[2])>>)
    BY <1>2, <2>1 DEF Given, Reads
  <2>4. OptionRead("curl", rest, r)
    BY <1>2, <2>2, <2>3, ValueOf, Zenon DEF OptionRead, v
  <2>5. IsValue("curl", W("-X"), ToUpper(rest[2]))
    BY <2>3, ValueOf, MethodKept, Zenon
  <2>6. PushesOption(rest[2], r)
    BY <2>2, <2>3, <2>5, Zenon DEF PushesOption
  <2> QED  BY <2>4, <2>6
<1>3. CASE v = W("-H")
  <2>1. Given(rest, IsHeader) /\ r \in Reads(2, Push(<<v, rest[2]>>))
    BY <1>3, SameWord DEF CurlStep, v, Words, Throws
  <2> QED  BY <1>3, <2>1, ToolWords, ValueOf DEF Reads, OptionRead, PushesOption, v, Given, Words
<1>4. CASE v \in Words({"-A", "--user-agent"})
  <2>1. Given(rest, IsUserAgent) /\ r \in Reads(2, Push(<<W("-A"), rest[2]>>))
    BY <1>4, SameWord DEF CurlStep, v, Words, Throws
  <2>2. W("-A") \in Words({"-A", "--user-agent"}) /\ Words({"-A", "--user-agent"}) \subseteq Options["curl"]
    BY ToolWords DEF Words
  <2>3. IsUserAgent(rest[2]) /\ Len(rest) > 1 /\ r.n = 2 /\ r.p = Push(<<W("-A"), rest[2]>>)
    BY <2>1 DEF Given, Reads
  <2>4. OptionRead("curl", rest, r)
    BY <1>4, <2>2, <2>3, ValueOf DEF OptionRead, v
  <2>5. IsValue("curl", W("-A"), rest[2])
    BY <2>2, <2>3, ValueOf, Zenon
  <2>6. PushesOption(rest[2], r)
    BY <2>2, <2>3, <2>5 DEF PushesOption
  <2> QED  BY <2>4, <2>6
<1>5. CASE v \in Words({"-d", "--data"})
  <2>1. Given(rest, IsData) /\ r \in Reads(2, Push(<<W("-d"), rest[2]>>))
    BY <1>5, SameWord DEF CurlStep, v, Words, Throws
  <2>2. W("-d") \in Words({"-d", "--data"}) /\ Words({"-d", "--data"}) \subseteq Options["curl"]
    BY ToolWords DEF Words
  <2>3. IsData(rest[2]) /\ Len(rest) > 1 /\ r.n = 2 /\ r.p = Push(<<W("-d"), rest[2]>>)
    BY <2>1 DEF Given, Reads
  <2>4. OptionRead("curl", rest, r)
    BY <1>5, <2>2, <2>3, ValueOf DEF OptionRead, v
  <2>5. IsValue("curl", W("-d"), rest[2])
    BY <2>2, <2>3, ValueOf, Zenon
  <2>6. PushesOption(rest[2], r)
    BY <2>2, <2>3, <2>5 DEF PushesOption
  <2> QED  BY <2>4, <2>6
<1>6. CASE v \notin Options["curl"] \cup Flags["curl"]
  <2>1. r \in IF StartsWith(v, Dashes) THEN Throws ELSE Operand(v, IsUrl(v))
    BY <1>6, ToolWords DEF CurlStep, v, Words
  <2> QED  BY <1>6, <2>1, OperandStep DEF v, IsOperand
<1> QED  BY <1>1, <1>2, <1>3, <1>4, <1>5, <1>6, ToolWords DEF Words

LEMMA CurlThrows ==
  ASSUME NEW S, NEW rest, Head(rest) \in Seq(S), CurlStep(rest) = {}
  PROVE  BadOption("curl", rest) \/ BadOperand("curl", rest)
<1> DEFINE v == Head(rest)
<1> HIDE DEF v
<1>1. CASE v \in Words({"-I", "-i", "-L"})
  <2>1. CurlStep(rest) = Reads(1, Push(<<v>>))
    BY <1>1, SameWord DEF CurlStep, v, Words
  <2> QED  BY <2>1 DEF Reads
<1>2. CASE v = W("-X")
  <2>1. ~Given(rest, IsMethod)
    BY <1>2, SameWord DEF CurlStep, v, Words, Reads
  <2> QED  BY <1>2, <2>1, ToolWords, ValueOf DEF BadOption, v, Given, Words
<1>3. CASE v = W("-H")
  <2>1. ~Given(rest, IsHeader)
    BY <1>3, SameWord DEF CurlStep, v, Words, Reads
  <2> QED  BY <1>3, <2>1, ToolWords, ValueOf DEF BadOption, v, Given, Words
<1>4. CASE v \in Words({"-A", "--user-agent"})
  <2>1. ~Given(rest, IsUserAgent)
    BY <1>4, SameWord DEF CurlStep, v, Words, Reads
  <2> QED  BY <1>4, <2>1, ToolWords, ValueOf DEF BadOption, v, Given, Words
<1>5. CASE v \in Words({"-d", "--data"})
  <2>1. ~Given(rest, IsData)
    BY <1>5, SameWord DEF CurlStep, v, Words, Reads
  <2> QED  BY <1>5, <2>1, ToolWords, ValueOf DEF BadOption, v, Given, Words
<1>6. CASE v \notin Options["curl"] \cup Flags["curl"]
  <2>1. (IF StartsWith(v, Dashes) THEN Throws ELSE Operand(v, IsUrl(v))) = {}
    BY <1>6, ToolWords DEF CurlStep, v, Words
  <2> QED  BY <1>6, <2>1, OperandThrows DEF v, IsOperand
<1> QED  BY <1>1, <1>2, <1>3, <1>4, <1>5, <1>6, ToolWords DEF Words

CountsOption(t, v, r) == Number(v) \in 1..MaxCount[t] /\ r.p = [p EXCEPT !.count = Number(v)]

LEMMA MtrReads ==
  ASSUME NEW S, NEW rest, Head(rest) \in Seq(S), NEW r \in MtrStep(rest)
  PROVE  \/ FlagRead("mtr", rest, r) /\ r.p = p
         \/ /\ FlagRead("mtr", rest, r) /\ Head(rest) \in Words({"-4", "-6"})
            /\ r.p = [p EXCEPT !.flag = <<Head(rest)>>]
         \/ OptionRead("mtr", rest, r) /\ CountsOption("mtr", rest[2], r)
         \/ OperandRead("mtr", rest, r)
<1> DEFINE v == Head(rest)
<1> HIDE DEF v
<1>1. CASE v \in Words({"-4", "-6"})
  <2>1. r \in Reads(1, [p EXCEPT !.flag = <<v>>])
    BY <1>1, SameWord DEF MtrStep, v, Words
  <2>2. v \in Flags["mtr"]
    BY <1>1, ToolWords DEF Words
  <2> QED  BY <1>1, <2>1, <2>2 DEF Reads, FlagRead, v
<1>2. CASE v = W("-r")
  <2>1. r \in Reads(1, p)
    BY <1>2, SameWord DEF MtrStep, v, Words
  <2> QED  BY <1>2, <2>1, ToolWords DEF Reads, FlagRead, v, Words
<1>3. CASE v = W("-c")
  <2>1. Len(rest) > 1 /\ Number(rest[2]) \in 1..MtrMax /\ r \in Reads(2, [p EXCEPT !.count = Number(rest[2])])
    BY <1>3, SameWord DEF MtrStep, v, Words, Throws, Given
  <2>2. CountsOption("mtr", rest[2], r) /\ r.n = 2
    BY <2>1, ToolWords DEF Reads, CountsOption
  <2>3. v \in Options["mtr"] /\ IsValue("mtr", v, rest[2])
    BY <1>3, <2>1, ToolWords, ValueOf DEF Words
  <2> QED  BY <2>1, <2>2, <2>3 DEF OptionRead, v
<1>4. CASE v \notin Options["mtr"] \cup Flags["mtr"]
  <2>1. r \in IF StartsWith(v, Dashes) THEN Throws ELSE Operand(v, IsValidHost(v))
    BY <1>4, ToolWords DEF MtrStep, v, Words
  <2> QED  BY <1>4, <2>1, OperandStep DEF v, IsOperand
<1> QED  BY <1>1, <1>2, <1>3, <1>4, ToolWords DEF Words

LEMMA MtrThrows ==
  ASSUME NEW S, NEW rest, Head(rest) \in Seq(S), MtrStep(rest) = {}
  PROVE  BadOption("mtr", rest) \/ BadOperand("mtr", rest)
<1> DEFINE v == Head(rest)
<1> HIDE DEF v
<1>1. CASE v \in Words({"-4", "-6"})
  BY <1>1, SameWord DEF MtrStep, v, Words, Reads
<1>2. CASE v = W("-r")
  BY <1>2, SameWord DEF MtrStep, v, Words, Reads
<1>3. CASE v = W("-c")
  <2>1. ~(Len(rest) > 1 /\ Number(rest[2]) \in 1..MtrMax)
    BY <1>3, SameWord DEF MtrStep, v, Words, Reads, Given
  <2>2. v \in Options["mtr"] /\ (IsValue("mtr", v, rest[2]) <=> Number(rest[2]) \in 1..MtrMax)
    BY <1>3, ToolWords, ValueOf DEF Words
  <2> QED  BY <2>1, <2>2, Zenon DEF BadOption, v
<1>4. CASE v \notin Options["mtr"] \cup Flags["mtr"]
  <2>1. (IF StartsWith(v, Dashes) THEN Throws ELSE Operand(v, IsValidHost(v))) = {}
    BY <1>4, ToolWords DEF MtrStep, v, Words
  <2> QED  BY <1>4, <2>1, OperandThrows DEF v, IsOperand
<1> QED  BY <1>1, <1>2, <1>3, <1>4, ToolWords DEF Words

LEMMA PingReads ==
  ASSUME NEW S, NEW rest, Head(rest) \in Seq(S), NEW r \in PingStep(rest)
  PROVE  \/ OptionRead("ping", rest, r) /\ CountsOption("ping", rest[2], r)
         \/ OperandRead("ping", rest, r)
<1> DEFINE v == Head(rest)
<1> HIDE DEF v
<1>1. CASE v = W("-c")
  <2>1. Len(rest) > 1 /\ Number(rest[2]) \in 1..PingMax /\ r \in Reads(2, [p EXCEPT !.count = Number(rest[2])])
    BY <1>1 DEF PingStep, v, Throws, Given
  <2>2. CountsOption("ping", rest[2], r) /\ r.n = 2
    BY <2>1, ToolWords DEF Reads, CountsOption
  <2>3. v \in Options["ping"] /\ IsValue("ping", v, rest[2])
    BY <1>1, <2>1, ToolWords, ValueOf DEF Words
  <2> QED  BY <2>1, <2>2, <2>3 DEF OptionRead, v
<1>2. CASE v # W("-c")
  <2>1. r \in IF StartsWith(v, Dashes) THEN Throws ELSE Operand(v, IsValidHost(v))
    BY <1>2 DEF PingStep, v
  <2>2. v \notin Options["ping"] \cup Flags["ping"]
    BY <1>2, ToolWords DEF Words
  <2> QED  BY <2>1, <2>2, OperandStep DEF v, IsOperand
<1> QED  BY <1>1, <1>2

LEMMA PingThrows ==
  ASSUME NEW S, NEW rest, Head(rest) \in Seq(S), PingStep(rest) = {}
  PROVE  BadOption("ping", rest) \/ BadOperand("ping", rest)
<1> DEFINE v == Head(rest)
<1> HIDE DEF v
<1>1. CASE v = W("-c")
  <2>1. ~(Len(rest) > 1 /\ Number(rest[2]) \in 1..PingMax)
    BY <1>1 DEF PingStep, v, Reads, Given
  <2>2. v \in Options["ping"] /\ (IsValue("ping", v, rest[2]) <=> Number(rest[2]) \in 1..PingMax)
    BY <1>1, ToolWords, ValueOf DEF Words
  <2> QED  BY <2>1, <2>2, Zenon DEF BadOption, v
<1>2. CASE v # W("-c")
  <2>1. (IF StartsWith(v, Dashes) THEN Throws ELSE Operand(v, IsValidHost(v))) = {}
    BY <1>2 DEF PingStep, v
  <2>2. v \notin Options["ping"] \cup Flags["ping"]
    BY <1>2, ToolWords DEF Words
  <2> QED  BY <2>1, <2>2, OperandThrows DEF v, IsOperand
<1> QED  BY <1>1, <1>2

LEMMA OpensslReads ==
  ASSUME i # 1, NEW rest, NEW r \in OpensslStep(rest)
  PROVE  \/ FlagRead("openssl", rest, r) /\ r.p = Push(<<Head(rest)>>)
         \/ /\ OptionRead("openssl", rest, r) /\ Head(rest) # W("-connect")
            /\ r.p = Push(<<Head(rest), rest[2]>>)
         \/ /\ OptionRead("openssl", rest, r) /\ Head(rest) = W("-connect")
            /\ r.p = [Push(<<Head(rest), rest[2]>>) EXCEPT !.target = <<rest[2]>>]
<1> DEFINE v == Head(rest)
<1> HIDE DEF v
<1>1. CASE v = W("-connect")
  <2>1. /\ Len(rest) > 1 /\ IsConnectTarget(rest[2])
        /\ r \in Reads(2, [Push(<<v, rest[2]>>) EXCEPT !.target = <<rest[2]>>])
    BY <1>1, SameWord DEF OpensslStep, v, Throws, Given
  <2>2. v \in Options["openssl"] /\ IsValue("openssl", v, rest[2])
    BY <1>1, <2>1, ToolWords, ValueOf DEF Words
  <2> QED  BY <1>1, <2>1, <2>2 DEF OptionRead, Reads, v
<1>2. CASE v = W("-servername")
  <2>1. Len(rest) > 1 /\ IsValidHost(rest[2]) /\ r \in Reads(2, Push(<<v, rest[2]>>))
    BY <1>2, SameWord DEF OpensslStep, v, Throws, Given
  <2>2. v \in Options["openssl"] /\ IsValue("openssl", v, rest[2]) /\ v # W("-connect")
    BY <1>2, <2>1, ToolWords, ValueOf, SameWord DEF Words
  <2> QED  BY <2>1, <2>2 DEF OptionRead, Reads, v
<1>3. CASE v = W("-showcerts")
  <2>1. r \in Reads(1, Push(<<v>>))
    BY <1>3, SameWord DEF OpensslStep, v
  <2> QED  BY <1>3, <2>1, ToolWords DEF FlagRead, Reads, v, Words
<1> QED  BY <1>1, <1>2, <1>3 DEF OpensslStep, v, Throws

LEMMA OpensslThrows ==
  ASSUME i # 1, NEW rest, OpensslStep(rest) = {}
  PROVE  BadOption("openssl", rest) \/ Head(rest) \notin Options["openssl"] \cup Flags["openssl"]
<1> DEFINE v == Head(rest)
<1> HIDE DEF v
<1>1. CASE v = W("-connect")
  <2>1. ~(Len(rest) > 1 /\ IsConnectTarget(rest[2]))
    BY <1>1, SameWord DEF OpensslStep, v, Reads, Given
  <2>2. v \in Options["openssl"] /\ (IsValue("openssl", v, rest[2]) <=> IsConnectTarget(rest[2]))
    BY <1>1, ToolWords, ValueOf DEF Words
  <2> QED  BY <2>1, <2>2, Zenon DEF BadOption, v
<1>2. CASE v = W("-servername")
  <2>1. ~(Len(rest) > 1 /\ IsValidHost(rest[2]))
    BY <1>2, SameWord DEF OpensslStep, v, Reads, Given
  <2>2. v \in Options["openssl"] /\ (IsValue("openssl", v, rest[2]) <=> IsValidHost(rest[2]))
    BY <1>2, ToolWords, ValueOf DEF Words
  <2> QED  BY <2>1, <2>2, Zenon DEF BadOption, v
<1>3. CASE v = W("-showcerts")
  BY <1>3, SameWord DEF OpensslStep, v, Reads
<1> QED  BY <1>1, <1>2, <1>3, ToolWords DEF Words, v

LEMMA SubcommandFirst ==
  ASSUME i = 1, NEW rest
  PROVE  /\ \A r \in OpensslStep(rest) :
              Head(rest) = W("s_client") /\ r.n = 1 /\ r.p = Push(<<Head(rest)>>)
         /\ OpensslStep(rest) = {} => Head(rest) # W("s_client")
<1>1. OpensslStep(rest) =
        IF Head(rest) = W("s_client") THEN Reads(1, Push(<<Head(rest)>>)) ELSE {}
  BY DEF OpensslStep, Throws
<1>2. Reads(1, Push(<<Head(rest)>>)) = {[n |-> 1, p |-> Push(<<Head(rest)>>)]}
  BY DEF Reads
<1>3. ASSUME NEW r \in OpensslStep(rest)
      PROVE  Head(rest) = W("s_client") /\ r.n = 1 /\ r.p = Push(<<Head(rest)>>)
  BY <1>1, <1>2, <1>3
<1>4. OpensslStep(rest) = {} => Head(rest) # W("s_client")
  BY <1>1, <1>2
<1> QED  BY <1>3, <1>4

-----------------------------------------------------------------------------
(* The invariants of the four loops, at parse's i = j with the locals q:     *)
(* what was read of the tokens s, and what was made of it.                   *)

Arg == Seq(Symbols) \cup {ToUpper(v) : v \in Seq(Symbols)} \cup Words(Dashes)
Locals == [args : Seq(Arg), target : Seq(Seq(Symbols)), count : Int,
           flag : {<<>>, <<W("-4")>>, <<W("-6")>>}]

OneOperand(t, s, j, target) ==
  \/ target = <<>> /\ OperandsBelow(t, s, j) = {}
  \/ \E k \in DOMAIN s :
       target = <<s[k]>> /\ IsOperand(t, s[k]) /\ OperandsBelow(t, s, j) = {k}

CurlKept(s, j, q) == OneOperand("curl", s, j, q.target) /\ OnlyOptions("curl", q.args)
CountKept(t, s, j, q) == OneOperand(t, s, j, q.target) /\ q.count \in 1..MaxCount[t]
OpensslKept(s, j, q) ==
  /\ q.args = SubSeq(s, 1, j - 1)
  /\ j > 1 => s[1] = W("s_client") /\ OperandsBelow("openssl", s, j) = {1}
  /\ q.target # <<>> <=> \E k \in OptionsBelow("openssl", s, j) : s[k] = W("-connect")

LoopKept(t, s, j, q) ==
  /\ Read(t, s, j) /\ q \in Locals
  /\ t = "curl" => CurlKept(s, j, q)
  /\ t \in {"mtr", "ping"} => CountKept(t, s, j, q)
  /\ t = "openssl" => OpensslKept(s, j, q)

LEMMA Remaining ==
  ASSUME NEW S, NEW s \in Seq(S), NEW j \in 1..(Len(s) + 1)
  PROVE  /\ SubSeq(s, j, Len(s)) = <<>> <=> j = Len(s) + 1
         /\ j <= Len(s) => /\ j \in 1..Len(s) /\ s[j] \in S
                           /\ Head(SubSeq(s, j, Len(s))) = s[j]
                           /\ Len(SubSeq(s, j, Len(s))) > 1 <=> j + 1 <= Len(s)
         /\ j + 1 <= Len(s) => SubSeq(s, j, Len(s))[2] = s[j + 1] /\ s[j + 1] \in S
<1> DEFINE rest == SubSeq(s, j, Len(s))
<1>1. Len(s) \in Nat /\ \A k \in 1..Len(s) : s[k] \in S
  BY LenProperties, ElementOfSeq
<1>2. \A k \in j..Len(s) : s[k] \in S
  BY <1>1
<1>3. /\ rest \in Seq(S)
      /\ Len(rest) = IF j <= Len(s) THEN Len(s) - j + 1 ELSE 0
      /\ \A k \in 1..(Len(s) - j + 1) : rest[k] = s[j + k - 1]
  BY <1>1, <1>2, SubSeqProperties
<1>4. rest = <<>> <=> Len(rest) = 0
  BY <1>3, EmptySeq
<1>5. rest = <<>> <=> j = Len(s) + 1
  BY <1>1, <1>3, <1>4
<1>6. ASSUME j <= Len(s)
      PROVE  j \in 1..Len(s) /\ s[j] \in S /\ Head(rest) = s[j] /\ (Len(rest) > 1 <=> j + 1 <= Len(s))
  <2>1. j \in 1..Len(s) /\ s[j] \in S /\ (Len(rest) > 1 <=> j + 1 <= Len(s))
    BY <1>1, <1>3, <1>6
  <2>2. Len(s) \in j..Len(s)
    BY <1>1, <1>6
  <2>3. Head(rest) = s[j]
    BY <2>1, <2>2, HeadTailOfSubSeq
  <2> QED  BY <2>1, <2>3
<1>7. ASSUME j + 1 <= Len(s)
      PROVE  rest[2] = s[j + 1] /\ s[j + 1] \in S
  <2>1. 2 \in 1..(Len(s) - j + 1) /\ j + 2 - 1 = j + 1 /\ j + 1 \in 1..Len(s)
    BY <1>1, <1>7
  <2> QED  BY <1>1, <1>3, <2>1
<1> QED  BY <1>5, <1>6, <1>7

(* A flag or an option read is no operand. *)
LEMMA FlagKept ==
  ASSUME NEW S, NEW t \in Looping, NEW s \in Seq(S), NEW j \in 1..Len(s), Read(t, s, j),
         NEW r, FlagRead(t, SubSeq(s, j, Len(s)), r)
  PROVE  ReadsOn(t, s, j, j + r.n, {}) /\ s[j] \in Flags[t] /\ r.n = 1
<1>1. j \in 1..(Len(s) + 1) /\ j <= Len(s)
  BY LenProperties
<1>2. Head(SubSeq(s, j, Len(s))) = s[j]
  BY <1>1, Remaining
<1>3. s[j] \in Flags[t] /\ r.n = 1
  BY <1>2 DEF FlagRead
<1>4. s[j] \notin Options[t]
  BY <1>3, FlagsAreNotOptions
<1>5. ReadsOn(t, s, j, j + 1, IF s[j] \in Flags[t] THEN {} ELSE {j})
  BY <1>4, ReadOther, Zenon
<1> QED  BY <1>3, <1>5

LEMMA OptionKept ==
  ASSUME NEW S, NEW t \in Looping, NEW s \in Seq(S), NEW j \in 1..Len(s), Read(t, s, j),
         NEW r, OptionRead(t, SubSeq(s, j, Len(s)), r)
  PROVE  /\ ReadsOn(t, s, j, j + r.n, {}) /\ r.n = 2 /\ j + 1 <= Len(s)
         /\ s[j] \in Options[t] /\ SubSeq(s, j, Len(s))[2] = s[j + 1] /\ s[j + 1] \in S
         /\ OptionsBelow(t, s, j + r.n) = OptionsBelow(t, s, j) \cup {j}
<1>1. j \in 1..(Len(s) + 1) /\ j <= Len(s)
  BY LenProperties
<1>2. /\ Head(SubSeq(s, j, Len(s))) = s[j]
      /\ Len(SubSeq(s, j, Len(s))) > 1 <=> j + 1 <= Len(s)
      /\ j + 1 <= Len(s) => SubSeq(s, j, Len(s))[2] = s[j + 1] /\ s[j + 1] \in S
  BY <1>1, Remaining
<1>3. /\ s[j] \in Options[t] /\ j + 1 <= Len(s) /\ IsValue(t, s[j], s[j + 1]) /\ r.n = 2
      /\ SubSeq(s, j, Len(s))[2] = s[j + 1] /\ s[j + 1] \in S
  BY <1>2, Zenon DEF OptionRead
<1>4. ReadsOn(t, s, j, j + 2, {}) /\ OptionsBelow(t, s, j + 2) = OptionsBelow(t, s, j) \cup {j}
  BY <1>3, ReadOption
<1> QED  BY <1>3, <1>4

OperandTaken(t, s, j, r) ==
  /\ Read(t, s, j + r.n) /\ OneOperand(t, s, j + r.n, r.p.target)
  /\ r.p = [p EXCEPT !.target = <<s[j]>>]

LEMMA OperandKept ==
  ASSUME NEW S, NEW t \in Looping, NEW s \in Seq(S), NEW j \in 1..Len(s), Read(t, s, j),
         OneOperand(t, s, j, p.target), p \in Locals,
         NEW r, OperandRead(t, SubSeq(s, j, Len(s)), r)
  PROVE  OperandTaken(t, s, j, r)
<1>1. j \in 1..(Len(s) + 1) /\ j <= Len(s) /\ DOMAIN s = 1..Len(s)
  BY LenProperties
<1>2. Head(SubSeq(s, j, Len(s))) = s[j]
  BY <1>1, Remaining
<1>3. /\ s[j] \notin Options[t] /\ s[j] \notin Flags[t] /\ IsOperand(t, s[j]) /\ p.target = <<>>
      /\ r = [n |-> 1, p |-> [p EXCEPT !.target = <<s[j]>>]]
  BY <1>2 DEF OperandRead
<1>4. r.n = 1 /\ r.p = [p EXCEPT !.target = <<s[j]>>] /\ r.p.target = <<s[j]>>
  BY <1>3 DEF Locals
<1>5. ReadsOn(t, s, j, j + 1, IF s[j] \in Flags[t] THEN {} ELSE {j})
  BY <1>3, ReadOther, Zenon
<1>6. OperandsBelow(t, s, j) = {}
  BY <1>3 DEF OneOperand
<1>7. Read(t, s, j + 1) /\ OperandsBelow(t, s, j + 1) = {j}
  BY <1>3, <1>5, <1>6 DEF ReadsOn
<1>8. OneOperand(t, s, j + 1, r.p.target)
  BY <1>1, <1>3, <1>4, <1>7 DEF OneOperand
<1> QED  BY <1>4, <1>7, <1>8 DEF OperandTaken

-----------------------------------------------------------------------------
(* An iteration keeps the invariant of its loop. *)

LEMMA LocalsKept ==
  ASSUME p \in Locals
  PROVE  /\ \A more \in Seq(Arg) : /\ Push(more) \in Locals
                                   /\ Push(more).args = p.args \o more
                                   /\ Push(more).target = p.target
         /\ \A v \in Seq(Symbols) : [p EXCEPT !.target = <<v>>] \in Locals
         /\ \A c \in Int : [p EXCEPT !.count = c] \in Locals
         /\ \A v \in Words({"-4", "-6"}) : [p EXCEPT !.flag = <<v>>] \in Locals
<1>1. ASSUME NEW more \in Seq(Arg)
      PROVE  Push(more) \in Locals /\ Push(more).args = p.args \o more /\ Push(more).target = p.target
  <2>1. p.args \o more \in Seq(Arg)
    BY ConcatProperties DEF Locals
  <2> QED  BY <2>1 DEF Locals, Push
<1>2. ASSUME NEW v \in Seq(Symbols)
      PROVE  [p EXCEPT !.target = <<v>>] \in Locals
  <2>1. <<v>> \in Seq(Seq(Symbols))
    OBVIOUS
  <2> QED  BY <2>1 DEF Locals
<1>3. ASSUME NEW c \in Int
      PROVE  [p EXCEPT !.count = c] \in Locals
  BY DEF Locals
<1>4. ASSUME NEW v \in Words({"-4", "-6"})
      PROVE  [p EXCEPT !.flag = <<v>>] \in Locals
  BY DEF Locals, Words
<1> QED  BY <1>1, <1>2, <1>3, <1>4

LEMMA CurlLoop ==
  ASSUME NEW s \in Seq(Seq(Symbols)), i \in 1..Len(s), LoopKept("curl", s, i, p),
         NEW r \in CurlStep(SubSeq(s, i, Len(s)))
  PROVE  LoopKept("curl", s, i + r.n, r.p)
<1> DEFINE rest == SubSeq(s, i, Len(s))
<1>1. Read("curl", s, i) /\ p \in Locals /\ OneOperand("curl", s, i, p.target) /\ OnlyOptions("curl", p.args)
  BY DEF LoopKept, CurlKept
<1>2. /\ Head(rest) = s[i] /\ s[i] \in Seq(Symbols) /\ "curl" \in Looping
      /\ p.args \in Seq(Arg) /\ s[i] \in Arg
  <2>1. i \in 1..(Len(s) + 1) /\ i <= Len(s)
    BY LenProperties
  <2>2. Head(rest) = s[i] /\ s[i] \in Seq(Symbols)
    BY <2>1, Remaining
  <2> QED  BY <1>1, <2>2 DEF Locals, Arg, Looping
<1> HIDE DEF rest
<1>3. CASE FlagRead("curl", rest, r) /\ r.p = Push(<<Head(rest)>>)
  <2>1. ReadsOn("curl", s, i, i + r.n, {}) /\ s[i] \in Flags["curl"]
    BY <1>1, <1>2, <1>3, FlagKept DEF rest
  <2>2. <<s[i]>> \in Seq(Arg) /\ s[i] \notin Options["curl"]
    BY <1>2, <2>1, FlagsAreNotOptions
  <2>3. r.p \in Locals /\ r.p.args = p.args \o <<s[i]>> /\ r.p.target = p.target
    BY <1>1, <1>2, <1>3, <2>2, LocalsKept
  <2>4. OnlyOptions("curl", p.args \o <<s[i]>>)
    BY <1>1, <1>2, <2>1, <2>2, OnlyOptionsFlag, Zenon
  <2> QED  BY <1>1, <2>1, <2>3, <2>4 DEF LoopKept, CurlKept, OneOperand, ReadsOn
<1>4. CASE OptionRead("curl", rest, r) /\ PushesOption(rest[2], r)
  <2>1. ReadsOn("curl", s, i, i + r.n, {}) /\ rest[2] \in Seq(Symbols)
    <3>1. OptionRead("curl", SubSeq(s, i, Len(s)), r)
      BY <1>4 DEF rest
    <3>2. /\ ReadsOn("curl", s, i, i + r.n, {})
          /\ SubSeq(s, i, Len(s))[2] = s[i + 1] /\ s[i + 1] \in Seq(Symbols)
      BY ONLY <1>1, <1>2, <3>1, OptionKept, s \in Seq(Seq(Symbols)), i \in 1..Len(s)
    <3> QED  BY <3>2 DEF rest
  <2>2. PICK x \in Options["curl"], y \in {rest[2], ToUpper(rest[2])} :
          IsValue("curl", x, y) /\ r.p = Push(<<x, y>>)
    BY <1>4, Zenon DEF PushesOption
  <2>3. x \in Arg /\ y \in Arg
    BY <1>2, <2>1, <2>2, AlphabetAssumption DEF Arg
  <2>4. <<x, y>> \in Seq(Arg)
    BY <2>3
  <2>5. r.p \in Locals /\ r.p.args = p.args \o <<x, y>> /\ r.p.target = p.target
    BY <1>1, <2>2, <2>4, LocalsKept
  <2>6. OnlyOptions("curl", p.args \o <<x, y>>)
    BY <1>1, <1>2, <2>2, <2>3, OnlyOptionsOption, Zenon
  <2> QED  BY <1>1, <2>1, <2>5, <2>6 DEF LoopKept, CurlKept, OneOperand, ReadsOn
<1>5. CASE OperandRead("curl", rest, r)
  <2>1. OperandTaken("curl", s, i, r)
    BY <1>1, <1>2, <1>5, OperandKept, Zenon DEF rest
  <2>2. r.p \in Locals /\ r.p.args = p.args
    BY <1>1, <1>2, <2>1, LocalsKept DEF Locals, OperandTaken
  <2> QED  BY <1>1, <2>1, <2>2 DEF LoopKept, CurlKept, OperandTaken
<1> QED  BY <1>2, <1>3, <1>4, <1>5, CurlReads DEF rest

(* mtr and ping: a count or a flag read. *)
LEMMA CountLoop ==
  ASSUME NEW s \in Seq(Seq(Symbols)), i \in 1..Len(s), NEW t \in {"mtr", "ping"}, LoopKept(t, s, i, p),
         NEW r, LET rest == SubSeq(s, i, Len(s))
                IN  \/ FlagRead(t, rest, r) /\ r.p = p
                    \/ /\ FlagRead(t, rest, r) /\ Head(rest) \in Words({"-4", "-6"})
                       /\ r.p = [p EXCEPT !.flag = <<Head(rest)>>]
                    \/ OptionRead(t, rest, r) /\ CountsOption(t, rest[2], r)
                    \/ OperandRead(t, rest, r)
  PROVE  LoopKept(t, s, i + r.n, r.p)
<1> DEFINE rest == SubSeq(s, i, Len(s))
<1>1. /\ Read(t, s, i) /\ p \in Locals /\ OneOperand(t, s, i, p.target) /\ p.count \in 1..MaxCount[t]
      /\ t \in Looping /\ t # "curl" /\ t # "openssl"
  BY DEF LoopKept, CountKept, Looping
<1>2. s[i] \in Seq(Symbols)
  BY ElementOfSeq
<1> HIDE DEF rest
<1>3. ASSUME ReadsOn(t, s, i, i + r.n, {}), r.p \in Locals, r.p.target = p.target, r.p.count \in 1..MaxCount[t]
      PROVE  LoopKept(t, s, i + r.n, r.p)
  BY <1>1, <1>3 DEF LoopKept, CountKept, OneOperand, ReadsOn
<1>4. CASE FlagRead(t, rest, r) /\ r.p = p
  <2>1. ReadsOn(t, s, i, i + r.n, {})
    BY <1>1, <1>4, FlagKept DEF rest
  <2> QED  BY <1>1, <1>3, <1>4, <2>1
<1>5. CASE /\ FlagRead(t, rest, r) /\ Head(rest) \in Words({"-4", "-6"})
           /\ r.p = [p EXCEPT !.flag = <<Head(rest)>>]
  <2>1. ReadsOn(t, s, i, i + r.n, {})
    BY <1>1, <1>5, FlagKept DEF rest
  <2>2. r.p \in Locals /\ r.p.target = p.target /\ r.p.count = p.count
    BY <1>1, <1>5, LocalsKept DEF Locals
  <2> QED  BY <1>1, <1>3, <2>1, <2>2
<1>6. CASE OptionRead(t, rest, r) /\ CountsOption(t, rest[2], r)
  <2>1. ReadsOn(t, s, i, i + r.n, {})
    BY <1>1, <1>6, OptionKept DEF rest
  <2>2. Number(rest[2]) \in 1..MaxCount[t] /\ r.p = [p EXCEPT !.count = Number(rest[2])]
    BY <1>6 DEF CountsOption
  <2>3. Number(rest[2]) \in Int
    BY <1>1, <2>2, ToolWords DEF MtrMax, PingMax
  <2>4. r.p \in Locals /\ r.p.target = p.target /\ r.p.count \in 1..MaxCount[t]
    BY <1>1, <2>2, <2>3, LocalsKept DEF Locals
  <2> QED  BY <1>3, <2>1, <2>4
<1>7. CASE OperandRead(t, rest, r)
  <2>1. OperandTaken(t, s, i, r)
    BY <1>1, <1>2, <1>7, OperandKept, Zenon DEF rest
  <2>2. r.p \in Locals /\ r.p.count = p.count
    BY <1>1, <1>2, <2>1, LocalsKept DEF Locals, OperandTaken
  <2> QED  BY <1>1, <2>1, <2>2 DEF LoopKept, CountKept, OperandTaken
<1> QED  BY <1>4, <1>5, <1>6, <1>7 DEF rest

LEMMA Pair ==
  ASSUME NEW S, NEW a \in S, NEW b \in S
  PROVE  /\ <<a>> \in Seq(S) /\ <<b>> \in Seq(S) /\ <<a, b>> \in Seq(S)
         /\ <<a>> \o <<b>> = <<a, b>>
<1>1. /\ <<a>> \in Seq(S) /\ <<b>> \in Seq(S) /\ <<a, b>> \in Seq(S)
      /\ Len(<<a>>) = 1 /\ Len(<<b>>) = 1 /\ Len(<<a, b>>) = 2
  OBVIOUS
<1>2. /\ <<a>> \o <<b>> \in Seq(S) /\ Len(<<a>> \o <<b>>) = 2
      /\ (<<a>> \o <<b>>)[1] = a /\ (<<a>> \o <<b>>)[2] = b
  BY <1>1, ConcatProperties
<1>3. \A k \in 1..Len(<<a>> \o <<b>>) : (<<a>> \o <<b>>)[k] = <<a, b>>[k]
  BY <1>2
<1>4. <<a>> \o <<b>> = <<a, b>>
  BY <1>1, <1>2, <1>3, SeqEqual
<1> QED  BY <1>1, <1>4

LEMMA NextOfSubSeq ==
  ASSUME NEW S, NEW s \in Seq(S), NEW j \in 1..Len(s)
  PROVE  /\ SubSeq(s, 1, j) = SubSeq(s, 1, j - 1) \o <<s[j]>>
         /\ j + 1 <= Len(s) => SubSeq(s, 1, j + 1) = SubSeq(s, 1, j - 1) \o <<s[j], s[j + 1]>>
<1>1. Len(s) \in Nat /\ \A k \in 1..Len(s) : s[k] \in S
  BY LenProperties, ElementOfSeq
<1>2. 1 \in 1..Len(s) /\ j \in 1..Len(s)
  BY <1>1
<1>3. SubSeq(s, 1, j) = SubSeq(s, 1, j - 1) \o <<s[j]>>
  BY <1>2, SubSeqRecursiveSecond
<1>4. ASSUME j + 1 <= Len(s)
      PROVE  SubSeq(s, 1, j + 1) = SubSeq(s, 1, j - 1) \o <<s[j], s[j + 1]>>
  <2>1. j + 1 \in 1..Len(s) /\ (j + 1) - 1 = j
    BY <1>1, <1>4
  <2>2. SubSeq(s, 1, j + 1) = SubSeq(s, 1, j) \o <<s[j + 1]>>
    BY <1>2, <2>1, SubSeqRecursiveSecond
  <2>3. \A k \in 1..(j - 1) : s[k] \in S
    BY <1>1
  <2>4. SubSeq(s, 1, j - 1) \in Seq(S)
    BY <2>3, SubSeqProperties
  <2>5. s[j] \in S /\ s[j + 1] \in S
    BY <1>1, <2>1
  <2>6. <<s[j]>> \in Seq(S) /\ <<s[j + 1]>> \in Seq(S) /\ <<s[j]>> \o <<s[j + 1]>> = <<s[j], s[j + 1]>>
    BY <2>5, Pair
  <2>7. (SubSeq(s, 1, j - 1) \o <<s[j]>>) \o <<s[j + 1]>> =
          SubSeq(s, 1, j - 1) \o (<<s[j]>> \o <<s[j + 1]>>)
    BY <2>4, <2>6, ConcatAssociative
  <2> QED  BY <1>3, <2>2, <2>6, <2>7
<1> QED  BY <1>3, <1>4

LEMMA NoOption ==
  ASSUME NEW S, NEW t, NEW s \in Seq(S), NEW j \in 1..Len(s), s[j] \notin Options[t]
  PROVE  OptionsBelow(t, s, j + 1) = OptionsBelow(t, s, j)
<1>1. DOMAIN s = 1..Len(s) /\ Len(s) \in Nat
  BY LenProperties
<1>2. \A k \in DOMAIN s : k < j + 1 <=> k < j \/ k = j
  BY <1>1
<1> QED  BY <1>2 DEF OptionsBelow, OptionsIn

LEMMA NoOptionBelowFirst ==
  ASSUME NEW S, NEW t, NEW s \in Seq(S)
  PROVE  OptionsBelow(t, s, 1) = {}
<1>1. \A k \in DOMAIN s : ~(k < 1)
  BY LenProperties
<1> QED  BY <1>1 DEF OptionsBelow, OptionsIn

LEMMA OpensslLoop ==
  ASSUME NEW s \in Seq(Seq(Symbols)), i \in 1..Len(s), LoopKept("openssl", s, i, p),
         NEW r \in OpensslStep(SubSeq(s, i, Len(s)))
  PROVE  LoopKept("openssl", s, i + r.n, r.p)
<1> DEFINE rest == SubSeq(s, i, Len(s))
           t == "openssl"
<1>1. Read(t, s, i) /\ p \in Locals /\ OpensslKept(s, i, p)
  BY DEF LoopKept
<1>2. /\ Head(rest) = s[i] /\ s[i] \in Seq(Symbols) /\ s[i] \in Arg /\ t \in Looping
      /\ Len(s) \in Nat
  <2>1. i \in 1..(Len(s) + 1) /\ i <= Len(s)
    BY LenProperties
  <2>2. Head(rest) = s[i] /\ s[i] \in Seq(Symbols)
    BY <2>1, Remaining
  <2> QED  BY <2>2, LenProperties DEF Arg, Looping
<1>3. SubSeq(s, 1, (i + 1) - 1) = p.args \o <<s[i]>>
  <2>1. SubSeq(s, 1, i) = SubSeq(s, 1, i - 1) \o <<s[i]>>
    BY NextOfSubSeq
  <2>2. (i + 1) - 1 = i
    BY <1>2
  <2> QED  BY <1>1, <2>1, <2>2 DEF OpensslKept
<1> HIDE DEF rest
<1>4. CASE i = 1
  <2>1. s[i] = W("s_client") /\ r.n = 1 /\ r.p = Push(<<s[i]>>)
    BY <1>2, <1>4, SubcommandFirst DEF rest
  <2>2. s[i] \notin Options[t] /\ s[i] \notin Flags[t]
    BY <2>1, ToolWords, SameWord DEF Words
  <2>3. ReadsOn(t, s, i, i + 1, IF s[i] \in Flags[t] THEN {} ELSE {i})
    BY <1>1, <2>2, ReadOther, Zenon
  <2>4. OperandsBelow(t, s, i) = {} /\ OptionsBelow(t, s, i) = {} /\ OptionsBelow(t, s, i + 1) = {}
    <3>1. OperandsBelow(t, s, 1) = {}
      BY NothingRead
    <3>2. OptionsBelow(t, s, 1) = {}
      BY NoOptionBelowFirst
    <3>3. OptionsBelow(t, s, i + 1) = OptionsBelow(t, s, i)
      BY <2>2, NoOption
    <3> QED  BY <1>4, <3>1, <3>2, <3>3
  <2>5. Read(t, s, i + 1) /\ OperandsBelow(t, s, i + 1) = {1} /\ OptionsBelow(t, s, i + 1) = {}
    BY <1>4, <2>2, <2>3, <2>4 DEF ReadsOn
  <2>6. <<s[i]>> \in Seq(Arg)
    BY <1>2
  <2>7. r.p \in Locals /\ r.p.args = p.args \o <<s[i]>> /\ r.p.target = p.target
    BY <1>1, <2>1, <2>6, LocalsKept
  <2>8. p.target = <<>>
    BY <1>1, <1>4, <2>4 DEF OpensslKept
  <2> QED  BY <1>3, <1>4, <2>1, <2>5, <2>7, <2>8 DEF LoopKept, OpensslKept
<1>5. CASE i # 1
  <2>1. i > 1 /\ s[1] = W("s_client") /\ OperandsBelow(t, s, i) = {1}
    BY <1>1, <1>2, <1>5 DEF OpensslKept
  <2>2. CASE FlagRead(t, rest, r) /\ r.p = Push(<<Head(rest)>>)
    <3>1. ReadsOn(t, s, i, i + r.n, {}) /\ s[i] \in Flags[t] /\ r.n = 1
      BY <1>1, <1>2, <2>2, FlagKept DEF rest
    <3>2. OptionsBelow(t, s, i + 1) = OptionsBelow(t, s, i)
      BY <1>2, <3>1, FlagsAreNotOptions, NoOption
    <3>3. <<s[i]>> \in Seq(Arg)
      BY <1>2
    <3>4. r.p \in Locals /\ r.p.args = p.args \o <<s[i]>> /\ r.p.target = p.target
      BY <1>1, <1>2, <2>2, <3>3, LocalsKept
    <3>5. Read(t, s, i + 1) /\ OperandsBelow(t, s, i + 1) = {1}
      BY <2>1, <3>1 DEF ReadsOn
    <3>6. OpensslKept(s, i + 1, r.p)
      BY <1>1, <1>3, <2>1, <3>2, <3>4, <3>5, Zenon DEF OpensslKept
    <3> QED  BY <3>1, <3>4, <3>5, <3>6 DEF LoopKept
  <2>3. ASSUME OptionRead(t, rest, r)
        PROVE  /\ r.n = 2 /\ Read(t, s, i + 2) /\ OperandsBelow(t, s, i + 2) = {1}
               /\ OptionsBelow(t, s, i + 2) = OptionsBelow(t, s, i) \cup {i}
               /\ rest[2] = s[i + 1] /\ rest[2] \in Seq(Symbols) /\ <<s[i], rest[2]>> \in Seq(Arg)
               /\ SubSeq(s, 1, (i + 2) - 1) = p.args \o <<s[i], rest[2]>>
    <3>1. /\ ReadsOn(t, s, i, i + r.n, {}) /\ r.n = 2 /\ i + 1 <= Len(s)
          /\ rest[2] = s[i + 1] /\ s[i + 1] \in Seq(Symbols)
          /\ OptionsBelow(t, s, i + r.n) = OptionsBelow(t, s, i) \cup {i}
      BY <1>1, <1>2, <2>3, OptionKept DEF rest
    <3>2. Read(t, s, i + 2) /\ OperandsBelow(t, s, i + 2) = {1}
      BY <2>1, <3>1 DEF ReadsOn
    <3>3. s[i + 1] \in Arg
      BY <3>1 DEF Arg
    <3>4. <<s[i], s[i + 1]>> \in Seq(Arg)
      BY <1>2, <3>3
    <3>5. SubSeq(s, 1, i + 1) = p.args \o <<s[i], s[i + 1]>> /\ (i + 2) - 1 = i + 1
      <4>1. SubSeq(s, 1, i + 1) = SubSeq(s, 1, i - 1) \o <<s[i], s[i + 1]>>
        BY <3>1, NextOfSubSeq
      <4>2. p.args = SubSeq(s, 1, i - 1)
        BY <1>1, Zenon DEF OpensslKept
      <4>3. (i + 2) - 1 = i + 1
        BY <1>2
      <4> QED  BY <4>1, <4>2, <4>3, Zenon
    <3> QED  BY <3>1, <3>2, <3>4, <3>5
  <2>4. CASE /\ OptionRead(t, rest, r) /\ Head(rest) # W("-connect")
             /\ r.p = Push(<<Head(rest), rest[2]>>)
    <3>1. r.p \in Locals /\ r.p.args = p.args \o <<s[i], rest[2]>> /\ r.p.target = p.target
      BY <1>1, <1>2, <2>3, <2>4, LocalsKept
    <3>2. s[i] # W("-connect")
      BY <1>2, <2>4
    <3>3. r.p.target # <<>> <=> \E k \in OptionsBelow(t, s, i + 2) : s[k] = W("-connect")
      BY <1>1, <2>3, <2>4, <3>1, <3>2 DEF OpensslKept
    <3> QED  BY <2>1, <2>3, <2>4, <3>1, <3>3 DEF LoopKept, OpensslKept
  <2>5. CASE /\ OptionRead(t, rest, r) /\ Head(rest) = W("-connect")
             /\ r.p = [Push(<<Head(rest), rest[2]>>) EXCEPT !.target = <<rest[2]>>]
    <3> DEFINE q == Push(<<s[i], rest[2]>>)
    <3>1. q \in Locals /\ q.args = p.args \o <<s[i], rest[2]>>
      BY <1>1, <2>3, <2>5, LocalsKept
    <3>2. <<rest[2]>> \in Seq(Seq(Symbols)) /\ <<rest[2]>> # <<>>
      BY <2>3, <2>5
    <3> HIDE DEF q
    <3>3. r.p = [q EXCEPT !.target = <<rest[2]>>]
      BY <1>2, <2>5 DEF q
    <3>4. r.p \in Locals /\ r.p.args = q.args /\ r.p.target = <<rest[2]>>
      BY <3>1, <3>2, <3>3 DEF Locals
    <3>5. \E k \in OptionsBelow(t, s, i + 2) : s[k] = W("-connect")
      BY <1>2, <2>3, <2>5
    <3>6. OpensslKept(s, i + 2, r.p)
      BY <2>1, <2>3, <2>5, <3>1, <3>2, <3>4, <3>5 DEF OpensslKept
    <3> QED  BY <2>3, <2>5, <3>4, <3>6 DEF LoopKept
  <2> QED  BY <1>5, <2>2, <2>4, <2>5, OpensslReads DEF rest
<1> QED  BY <1>4, <1>5

-----------------------------------------------------------------------------
(* A token refused, and the end of the tokens. *)

LEMMA RefusedNotWellFormed ==
  ASSUME NEW t \in Looping, t # "openssl", NEW s \in Seq(Seq(Symbols)), i \in 1..Len(s),
         LoopKept(t, s, i, p), OneOperand(t, s, i, p.target),
         BadOption(t, SubSeq(s, i, Len(s))) \/ BadOperand(t, SubSeq(s, i, Len(s)))
  PROVE  ~WellFormed(t, s)
<1> DEFINE rest == SubSeq(s, i, Len(s))
<1>1. DOMAIN s = 1..Len(s) /\ i \in 1..(Len(s) + 1) /\ i <= Len(s) /\ Read(t, s, i)
  BY LenProperties DEF LoopKept
<1>2. /\ Head(rest) = s[i] /\ (Len(rest) > 1 <=> i + 1 <= Len(s))
      /\ i + 1 <= Len(s) => rest[2] = s[i + 1]
  BY <1>1, Remaining
<1> HIDE DEF rest
<1>3. CASE BadOption(t, rest)
  <2>1. s[i] \in Options[t] /\ ~(i + 1 <= Len(s) /\ IsValue(t, s[i], s[i + 1]))
    BY <1>2, <1>3, Zenon DEF BadOption
  <2> QED  BY <1>1, <2>1, NoValueNotWellFormed, Zenon
<1>4. CASE BadOperand(t, rest)
  <2>1. s[i] \notin Options[t] \cup Flags[t] /\ (p.target = <<>> => ~IsOperand(t, s[i]))
    BY <1>2, <1>4, Zenon DEF BadOperand
  <2>2. i \in OperandsIn(t, s)
    BY <1>1, <2>1, ValueDoesNotBegin DEF Read, OperandsIn
  <2>3. SUFFICES ASSUME NEW k \in DOMAIN s, OperandsIn(t, s) = {k}, IsOperand(t, s[k]) PROVE FALSE
    BY Zenon DEF WellFormed
  <2>4. k = i
    BY <2>2, <2>3
  <2>5. p.target # <<>>
    BY <2>1, <2>3, <2>4
  <2>6. PICK n \in DOMAIN s : OperandsBelow(t, s, i) = {n}
    BY <2>5 DEF OneOperand
  <2>7. n \in OperandsIn(t, s) /\ n < i
    BY <2>6 DEF OperandsBelow
  <2> QED  BY <1>1, <2>3, <2>4, <2>7
<1> QED  BY <1>3, <1>4 DEF rest

LEMMA OpensslRefused ==
  ASSUME NEW s \in Seq(Seq(Symbols)), i \in 1..Len(s), LoopKept("openssl", s, i, p),
         OpensslStep(SubSeq(s, i, Len(s))) = {}
  PROVE  ~WellFormed("openssl", s)
<1> DEFINE rest == SubSeq(s, i, Len(s))
           t == "openssl"
<1>1. DOMAIN s = 1..Len(s) /\ i \in 1..(Len(s) + 1) /\ i <= Len(s) /\ Read(t, s, i)
  BY LenProperties DEF LoopKept
<1>2. /\ Head(rest) = s[i] /\ (Len(rest) > 1 <=> i + 1 <= Len(s))
      /\ i + 1 <= Len(s) => rest[2] = s[i + 1]
  BY <1>1, Remaining
<1> HIDE DEF rest
<1>3. CASE i = 1
  <2>1. s[1] # W("s_client")
    BY <1>2, <1>3, SubcommandFirst DEF rest
  <2> QED  BY <2>1, Zenon DEF WellFormed
<1>4. CASE i # 1 /\ BadOption(t, rest)
  <2>1. s[i] \in Options[t] /\ ~(i + 1 <= Len(s) /\ IsValue(t, s[i], s[i + 1]))
    BY <1>2, <1>4, Zenon DEF BadOption
  <2> QED  BY <1>1, <2>1, NoValueNotWellFormed, Zenon
<1>5. CASE i # 1 /\ Head(rest) \notin Options[t] \cup Flags[t]
  <2>1. i \in OperandsIn(t, s)
    BY <1>1, <1>2, <1>5, ValueDoesNotBegin DEF Read, OperandsIn
  <2>2. OperandsIn(t, s) # {1}
    BY <1>5, <2>1
  <2> QED  BY <2>2, Zenon DEF WellFormed
<1> QED  BY <1>3, <1>4, <1>5, OpensslThrows DEF rest

(* All tokens read: the command is well-formed when there was an operand. *)
LEMMA EndOfTokens ==
  ASSUME NEW t \in Looping, NEW s \in Seq(Seq(Symbols)), NEW j, j = Len(s) + 1, NEW q,
         LoopKept(t, s, j, q)
  PROVE  q.target # <<>> <=> WellFormed(t, s)
<1>1. Len(s) \in Nat /\ DOMAIN s = 1..Len(s) /\ Read(t, s, j)
  BY LenProperties DEF LoopKept
<1>2. /\ OperandsBelow(t, s, j) = OperandsIn(t, s) /\ OptionsBelow(t, s, j) = OptionsIn(t, s)
      /\ \A k \in OptionsIn(t, s) : k + 1 \in ValuesIn(t, s) /\ IsValue(t, s[k], s[k + 1])
  BY <1>1, AllRead
<1>3. CASE t # "openssl"
  <2>1. OneOperand(t, s, j, q.target)
    BY <1>3 DEF LoopKept, CurlKept, CountKept, Looping
  <2>2. CASE q.target = <<>>
    <3>1. OperandsIn(t, s) = {}
      BY <1>2, <2>1, <2>2 DEF OneOperand
    <3> QED  BY <1>3, <2>2, <3>1 DEF WellFormed
  <2>3. CASE q.target # <<>>
    <3>1. \E k \in DOMAIN s : OperandsIn(t, s) = {k} /\ IsOperand(t, s[k])
      BY <1>2, <2>1, <2>3 DEF OneOperand
    <3> QED  BY <1>2, <1>3, <2>3, <3>1, Zenon DEF WellFormed
  <2> QED  BY <2>2, <2>3
<1>4. CASE t = "openssl"
  <2>1. OpensslKept(s, j, q)
    BY <1>4 DEF LoopKept
  <2>2. CASE q.target = <<>>
    <3>1. ~\E k \in OptionsIn(t, s) : s[k] = W("-connect")
      BY <1>2, <1>4, <2>1, <2>2, Zenon DEF OpensslKept
    <3> QED  BY <1>4, <2>2, <3>1, Zenon DEF WellFormed
  <2>3. CASE q.target # <<>>
    <3>1. PICK k \in OptionsIn(t, s) : s[k] = W("-connect")
      BY <1>2, <1>4, <2>1, <2>3, Zenon DEF OpensslKept
    <3>2. j > 1
      BY <1>1 DEF OptionsIn
    <3>3. OperandsIn(t, s) = {1} /\ s[1] = W("s_client")
      BY <1>2, <1>4, <2>1, <3>2, Zenon DEF OpensslKept
    <3> QED  BY <1>2, <1>4, <2>3, <3>1, <3>3, Zenon DEF WellFormed
  <2> QED  BY <2>2, <2>3
<1> QED  BY <1>3, <1>4

-----------------------------------------------------------------------------
(* The args returned. *)

OutArg ==
  Arg \cup Words(Decimals) \cup Words({"-r", "-c", "--max-time", MaxTime, "--max-filesize", MaxSize, "-sS"})

LEMMA NothingHasOnlyOptions ==
  ASSUME NEW t
  PROVE  OnlyOptions(t, <<>>)
<1>1. <<>> \in Seq(OutArg) /\ Len(<<>>) + 1 = 1
  OBVIOUS
<1>2. Read(t, <<>>, 1) /\ OperandsBelow(t, <<>>, 1) = {}
  BY <1>1, NothingRead
<1> QED  BY <1>1, <1>2 DEF OnlyOptions

LEMMA CountDecimal ==
  ASSUME NEW t \in {"mtr", "ping"}, NEW n \in 1..MaxCount[t]
  PROVE  Decimal(n) \in Words(Decimals) /\ IsValue(t, W("-c"), Decimal(n))
<1>1. Max({MtrMax, PingMax}) = 10
  BY DEF Max, MtrMax, PingMax
<1>2. n \in 1..Max({MtrMax, PingMax})
  BY <1>1, ToolWords DEF MtrMax, PingMax
<1>3. \E w \in Decimals : Numeral[w] = n
  BY <1>2, AlphabetAssumption
<1>4. PICK w \in Decimals : Numeral[w] = n /\ Decimal(n) = W(w)
  BY <1>3 DEF Decimal
<1>5. w \in DOMAIN Numeral
  BY CommandValidatorAssumption
<1>6. Number(W(w)) = n
  BY <1>4, <1>5 DEF Number, W
<1> QED  BY <1>4, <1>6, ValueOf DEF Words

(* One count, whatever its value and the rest are. *)
LEMMA OneCount ==
  ASSUME NEW t \in {"mtr", "ping"}, NEW S, NEW r \in Seq(S), NEW n \in 1..(Len(r) - 1),
         Begins(t, r, n), r[n] = W("-c"),
         \A k \in DOMAIN r : k # n /\ k # n + 1 => r[k] # W("-c")
  PROVE  Cardinality({k \in DOMAIN r \ ValuesIn(t, r) : r[k] = W("-c")}) = 1
<1>1. DOMAIN r = 1..Len(r) /\ Len(r) \in Nat
  BY LenProperties
<1>2. n \in DOMAIN r /\ n + 1 \in DOMAIN r /\ n \in Nat \ {0}
  BY <1>1
<1>3. n \notin ValuesIn(t, r)
  BY <1>2, ValueDoesNotBegin
<1>4. r[n] \in Options[t]
  BY ToolWords DEF Words
<1>5. n + 1 \in ValuesIn(t, r)
  BY <1>2, <1>4, AfterOption
<1>6. {k \in DOMAIN r \ ValuesIn(t, r) : r[k] = W("-c")} = {n}
  BY <1>2, <1>3, <1>5
<1> QED  BY <1>6, FS_Singleton

OneMore(S, s, x, r) ==
  r \in Seq(S) /\ Len(r) = Len(s) + 1 /\ r[Len(s) + 1] = x /\ \A k \in 1..Len(s) : r[k] = s[k]

LEMMA OneMoreLemma ==
  ASSUME NEW S, NEW s \in Seq(S), NEW x \in S
  PROVE  OneMore(S, s, x, s \o <<x>>)
<1>1. <<x>> \in Seq(S) /\ Len(<<x>>) = 1 /\ <<x>>[1] = x /\ Len(s) \in Nat
  BY LenProperties
<1> QED  BY <1>1, ConcatProperties DEF OneMore

LEMMA Triple ==
  ASSUME NEW S, NEW a \in S, NEW b \in S, NEW c \in S
  PROVE  <<a, b, c>> \in Seq(S) /\ <<a>> \o <<b, c>> = <<a, b, c>>
<1>1. /\ <<a>> \in Seq(S) /\ <<b, c>> \in Seq(S) /\ <<a, b, c>> \in Seq(S)
      /\ Len(<<a>>) = 1 /\ Len(<<b, c>>) = 2 /\ Len(<<a, b, c>>) = 3
  OBVIOUS
<1>2. /\ <<a>> \o <<b, c>> \in Seq(S) /\ Len(<<a>> \o <<b, c>>) = 3
      /\ (<<a>> \o <<b, c>>)[1] = a /\ (<<a>> \o <<b, c>>)[2] = b /\ (<<a>> \o <<b, c>>)[3] = c
  BY <1>1, ConcatProperties
<1>3. \A k \in 1..Len(<<a>> \o <<b, c>>) : (<<a>> \o <<b, c>>)[k] = <<a, b, c>>[k]
  BY <1>2
<1> QED  BY <1>1, <1>2, <1>3, SeqEqual

CountReturned(t, r) ==
  /\ WellFormed(t, r)
  /\ Cardinality({k \in DOMAIN r \ ValuesIn(t, r) : r[k] = W("-c")}) = 1

LEMMA PingReturns ==
  ASSUME NEW n \in 1..MaxCount["ping"], NEW x \in Seq(Symbols), IsOperand("ping", x)
  PROVE  CountReturned("ping", <<W("-c"), Decimal(n)>> \o <<x>>)
<1> DEFINE t == "ping"
           d == Decimal(n)
           f == <<W("-c"), d>>
           r == f \o <<x>>
<1>1. d \in OutArg /\ IsValue(t, W("-c"), d) /\ x \in OutArg /\ W("-c") \in OutArg /\ t \in Looping
  BY CountDecimal DEF OutArg, Arg, Words, Looping
<1> HIDE DEF d
<1>2. W("-c") \in Options[t]
  BY ToolWords DEF Words
<1>3. f \in Seq(OutArg) /\ Len(f) = 2 /\ f[1] = W("-c") /\ <<x>> \in Seq(OutArg) /\ Len(<<x>>) = 1
  BY <1>1
<1>4. OnlyOptions(t, <<>> \o f) /\ <<>> \o f = f
  <2>1. <<>> \in Seq(OutArg)
    OBVIOUS
  <2>2. OnlyOptions(t, <<>> \o <<W("-c"), d>>)
    BY <1>1, <1>2, <2>1, NothingHasOnlyOptions, OnlyOptionsOption, Zenon
  <2> QED  BY <1>3, <2>2, ConcatEmptySeq
<1> HIDE DEF f
<1>5. x \notin Options[t] \cup Flags[t]
  BY <1>1, OperandIsNoWord
<1>6. WellFormed(t, r)
  BY <1>1, <1>3, <1>4, <1>5, OperandLastWellFormed
<1>7. r \in Seq(OutArg) /\ Len(r) = 3 /\ r[1] = W("-c") /\ r[3] = x
  <2>1. OneMore(OutArg, f, x, r)
    BY <1>1, <1>3, OneMoreLemma, Zenon
  <2> HIDE DEF r
  <2> QED  BY <1>3, <2>1 DEF OneMore
<1> HIDE DEF r
<1>8. x # W("-c")
  BY <1>2, <1>5
<1>9. DOMAIN r = 1..3 /\ 1 \in 1..(Len(r) - 1)
  BY <1>7, LenProperties
<1>10. \A k \in DOMAIN r : k # 1 /\ k # 1 + 1 => r[k] # W("-c")
  BY <1>7, <1>8, <1>9
<1>11. Begins(t, r, 1)
  BY FirstBegins
<1>12. Cardinality({k \in DOMAIN r \ ValuesIn(t, r) : r[k] = W("-c")}) = 1
  BY <1>7, <1>9, <1>10, <1>11, OneCount
<1> QED  BY <1>6, <1>12 DEF CountReturned, r, f, d

LEMMA MtrReturns ==
  ASSUME NEW n \in 1..MaxCount["mtr"], NEW flag \in {<<>>, <<W("-4")>>, <<W("-6")>>},
         NEW x \in Seq(Symbols), IsOperand("mtr", x)
  PROVE  CountReturned("mtr", (<<W("-r"), W("-c"), Decimal(n)>> \o flag) \o <<x>>)
<1> DEFINE t == "mtr"
           d == Decimal(n)
           f == <<W("-r"), W("-c"), d>>
           g == f \o flag
           r == g \o <<x>>
<1>1. /\ d \in OutArg /\ IsValue(t, W("-c"), d) /\ x \in OutArg
      /\ W("-r") \in OutArg /\ W("-c") \in OutArg /\ t \in Looping
  BY CountDecimal DEF OutArg, Arg, Words, Looping
<1> HIDE DEF d
<1>2. /\ W("-c") \in Options[t] /\ W("-r") \in Flags[t] /\ W("-r") \notin Options[t]
      /\ W("-4") \in Flags[t] /\ W("-6") \in Flags[t] /\ W("-4") \notin Options[t] /\ W("-6") \notin Options[t]
  BY ToolWords, SameWord DEF Words
<1>3. W("-4") \in OutArg /\ W("-6") \in OutArg
  BY <1>1, <1>2, AlphabetAssumption DEF OutArg, Arg
<1>4. /\ f \in Seq(OutArg) /\ Len(f) = 3 /\ f[1] = W("-r") /\ f[2] = W("-c")
      /\ <<x>> \in Seq(OutArg) /\ Len(<<x>>) = 1
  BY <1>1
<1>5. OnlyOptions(t, f)
  <2>1. <<>> \in Seq(OutArg) /\ <<W("-r")>> \in Seq(OutArg) /\ <<>> \o <<W("-r")>> = <<W("-r")>>
    BY <1>1
  <2>2. OnlyOptions(t, <<>> \o <<W("-r")>>)
    BY <1>1, <1>2, <2>1, NothingHasOnlyOptions, OnlyOptionsFlag, Zenon
  <2>3. OnlyOptions(t, <<W("-r")>> \o <<W("-c"), d>>)
    BY <1>1, <1>2, <2>1, <2>2, OnlyOptionsOption
  <2>4. <<W("-r")>> \o <<W("-c"), d>> = f
    BY <1>1, Triple
  <2> QED  BY <2>3, <2>4, Zenon
<1> HIDE DEF f
<1>6. /\ g \in Seq(OutArg) /\ Len(g) \in {3, 4} /\ g[1] = W("-r") /\ g[2] = W("-c")
      /\ Len(g) = 4 => g[4] \in Flags[t]
      /\ OnlyOptions(t, g)
  <2>1. CASE flag = <<>>
    BY <1>4, <1>5, <2>1, ConcatEmptySeq
  <2>2. ASSUME NEW y \in {W("-4"), W("-6")}, flag = <<y>>
        PROVE  /\ g \in Seq(OutArg) /\ Len(g) = 4 /\ g[1] = W("-r") /\ g[2] = W("-c")
               /\ g[4] \in Flags[t] /\ OnlyOptions(t, g)
    <3>1. y \in OutArg /\ y \in Flags[t] /\ y \notin Options[t]
      BY <1>2, <1>3, <2>2
    <3>2. /\ f \o <<y>> \in Seq(OutArg) /\ Len(f \o <<y>>) = 4 /\ (f \o <<y>>)[4] = y
          /\ (f \o <<y>>)[1] = W("-r") /\ (f \o <<y>>)[2] = W("-c")
      <4> DEFINE h == f \o <<y>>
      <4>1. OneMore(OutArg, f, y, h)
        BY <1>4, <3>1, OneMoreLemma, Zenon
      <4> HIDE DEF h
      <4>2. /\ h \in Seq(OutArg) /\ Len(h) = 4 /\ h[4] = y /\ h[1] = W("-r") /\ h[2] = W("-c")
        BY <1>4, <4>1 DEF OneMore
      <4> QED  BY <4>2 DEF h
    <3>3. OnlyOptions(t, f \o <<y>>)
      BY <1>4, <1>5, <3>1, OnlyOptionsFlag, Zenon
    <3> QED  BY <2>2, <3>1, <3>2, <3>3
  <2> QED  BY <2>1, <2>2
<1> HIDE DEF g
<1>7. x \notin Options[t] \cup Flags[t]
  BY <1>1, OperandIsNoWord
<1>8. WellFormed(t, r)
  BY <1>1, <1>6, <1>7, OperandLastWellFormed
<1>9. /\ r \in Seq(OutArg) /\ Len(r) = Len(g) + 1 /\ r[Len(g) + 1] = x
      /\ \A k \in 1..Len(g) : r[k] = g[k]
  <2>1. OneMore(OutArg, g, x, r)
    BY <1>1, <1>6, OneMoreLemma, Zenon
  <2> QED  BY <2>1, Zenon DEF OneMore
<1> HIDE DEF r
<1>10. x # W("-c") /\ W("-r") # W("-c")
  BY <1>2, <1>7
<1>11. DOMAIN r = 1..(Len(g) + 1) /\ 2 \in 1..(Len(r) - 1) /\ r[2] = W("-c") /\ r[1] = W("-r")
  BY <1>6, <1>9, LenProperties
<1>12. \A k \in DOMAIN r : k # 2 /\ k # 2 + 1 => r[k] # W("-c")
  <2> SUFFICES ASSUME NEW k \in DOMAIN r, k # 2, k # 3 PROVE r[k] # W("-c")
    OBVIOUS
  <2>1. k = 1 \/ (k = 4 /\ Len(g) = 4) \/ k = Len(g) + 1
    <3>1. k \in 1..(Len(g) + 1) /\ (Len(g) = 3 \/ Len(g) = 4)
      BY <1>6, <1>11
    <3>2. CASE Len(g) = 3
      BY <3>1, <3>2
    <3>3. CASE Len(g) = 4
      BY <3>1, <3>3
    <3> QED  BY <3>1, <3>2, <3>3
  <2>2. Len(g) = 4 => r[4] = g[4]
    BY <1>9
  <2>3. \A y \in Flags[t] : y # W("-c")
    BY <1>1, <1>2, FlagsAreNotOptions
  <2> QED  BY <1>6, <1>9, <1>10, <1>11, <2>1, <2>2, <2>3
<1>13. Begins(t, r, 2)
  <2>1. r[1] \notin Options[t] /\ 1 \in Nat \ {0} /\ 1 + 1 = 2
    BY <1>2, <1>11
  <2>2. Begins(t, r, 1 + 1)
    BY <2>1, AfterOther
  <2> QED  BY <2>1, <2>2
<1>14. Cardinality({k \in DOMAIN r \ ValuesIn(t, r) : r[k] = W("-c")}) = 1
  BY <1>9, <1>11, <1>12, <1>13, OneCount
<1> QED  BY <1>8, <1>14 DEF CountReturned, r, g, f, d

Forced == <<W("--max-time"), W(MaxTime), W("--max-filesize"), W(MaxSize), W("-sS")>>

CurlReturned(r) ==
  /\ WellFormed("curl", SubSeq(r, 1, Len(r) - 6) \o <<Last(r)>>)
  /\ SubSeq(r, Len(r) - 5, Len(r) - 1) = Forced

LEMMA CurlReturns ==
  ASSUME NEW a \in Seq(Arg), OnlyOptions("curl", a), NEW x \in Seq(Symbols), IsOperand("curl", x)
  PROVE  CurlReturned((a \o Forced) \o <<x>>)
<1> DEFINE n == Len(a)
           f == a \o Forced
           r == f \o <<x>>
<1>1. /\ a \in Seq(OutArg) /\ n \in Nat /\ x \in OutArg /\ x \in Arg
      /\ \A k \in 1..n : a[k] \in OutArg
  <2>1. Arg \subseteq OutArg
    BY DEF OutArg
  <2>2. a \in Seq(OutArg) /\ n \in Nat
    BY <2>1, SeqMonotonic, LenProperties
  <2>3. \A k \in 1..n : a[k] \in OutArg
    BY <2>2, ElementOfSeq
  <2> QED  BY <2>1, <2>2, <2>3 DEF Arg
<1>2. Forced \in Seq(OutArg) /\ Len(Forced) = 5 /\ \A k \in 1..5 : Forced[k] \in OutArg
  <2>1. /\ W("--max-time") \in OutArg /\ W(MaxTime) \in OutArg /\ W("--max-filesize") \in OutArg
        /\ W(MaxSize) \in OutArg /\ W("-sS") \in OutArg
    BY DEF OutArg, Words
  <2>2. Forced \in Seq(OutArg) /\ Len(Forced) = 5
    BY <2>1 DEF Forced
  <2> QED  BY <2>2, ElementOfSeq
<1>3. /\ f \in Seq(OutArg) /\ Len(f) = n + 5
      /\ \A k \in 1..(n + 5) : f[k] = IF k <= n THEN a[k] ELSE Forced[k - n]
  <2>1. /\ f \in Seq(OutArg) /\ Len(f) = n + Len(Forced)
        /\ \A k \in 1..(n + Len(Forced)) : f[k] = IF k <= n THEN a[k] ELSE Forced[k - n]
    BY <1>1, <1>2, ConcatProperties, Zenon
  <2> QED  BY <1>2, <2>1
<1> HIDE DEF f
<1>4. OneMore(OutArg, f, x, r)
  BY <1>1, <1>3, OneMoreLemma, Zenon
<1> HIDE DEF r, n
<1>5. /\ r \in Seq(OutArg) /\ Len(r) = n + 6 /\ r[n + 6] = x
      /\ \A k \in 1..n : r[k] = a[k]
      /\ \A k \in 1..5 : r[n + k] = Forced[k]
  <2>1. r \in Seq(OutArg) /\ Len(r) = n + 6 /\ r[n + 6] = x /\ \A k \in 1..(n + 5) : r[k] = f[k]
    BY <1>1, <1>3, <1>4 DEF OneMore
  <2>2. ASSUME NEW k \in 1..n
        PROVE  r[k] = a[k]
    BY <1>1, <1>3, <2>1, <2>2
  <2>3. ASSUME NEW k \in 1..5
        PROVE  r[n + k] = Forced[k]
    <3>1. n + k \in 1..(n + 5) /\ ~(n + k <= n) /\ (n + k) - n = k
      BY <1>1
    <3> QED  BY <1>3, <2>1, <3>1
  <2> QED  BY <2>1, <2>2, <2>3
<1>6. SubSeq(r, 1, n) = a
  <2>1. \A k \in 1..n : r[k] \in OutArg
    BY <1>1, <1>5
  <2>2. /\ SubSeq(r, 1, n) \in Seq(OutArg) /\ Len(SubSeq(r, 1, n)) = n
        /\ \A k \in 1..n : SubSeq(r, 1, n)[k] = r[k]
    <3>1. n \in Int /\ 1 \in Int /\ n - 1 + 1 = n /\ \A k \in 1..n : 1 + k - 1 = k
      BY <1>1
    <3>2. /\ SubSeq(r, 1, n) \in Seq(OutArg) /\ Len(SubSeq(r, 1, n)) = IF 1 <= n THEN n - 1 + 1 ELSE 0
          /\ \A k \in 1..(n - 1 + 1) : SubSeq(r, 1, n)[k] = r[1 + k - 1]
      BY <2>1, <3>1, SubSeqProperties
    <3> QED  BY <1>1, <3>1, <3>2
  <2>3. Len(SubSeq(r, 1, n)) = Len(a) /\ \A k \in 1..Len(SubSeq(r, 1, n)) : SubSeq(r, 1, n)[k] = a[k]
    BY <1>5, <2>2 DEF n
  <2> QED  BY <1>1, <2>2, <2>3, SeqEqual
<1>7. SubSeq(r, n + 1, n + 5) = Forced
  <2>1. \A k \in (n + 1)..(n + 5) : r[k] \in OutArg
    <3>1. \A k \in (n + 1)..(n + 5) : k - n \in 1..5 /\ n + (k - n) = k
      BY <1>1
    <3> QED  BY <1>2, <1>5, <3>1, SMTT(30)
  <2>2. /\ SubSeq(r, n + 1, n + 5) \in Seq(OutArg) /\ Len(SubSeq(r, n + 1, n + 5)) = 5
        /\ \A k \in 1..5 : SubSeq(r, n + 1, n + 5)[k] = r[n + k]
    <3>1. /\ n + 1 \in Int /\ n + 5 \in Int /\ (n + 5) - (n + 1) + 1 = 5 /\ n + 1 <= n + 5
          /\ \A k \in 1..5 : (n + 1) + k - 1 = n + k
      BY <1>1
    <3>2. /\ SubSeq(r, n + 1, n + 5) \in Seq(OutArg)
          /\ Len(SubSeq(r, n + 1, n + 5)) =
               IF n + 1 <= n + 5 THEN (n + 5) - (n + 1) + 1 ELSE 0
          /\ \A k \in 1..((n + 5) - (n + 1) + 1) : SubSeq(r, n + 1, n + 5)[k] = r[(n + 1) + k - 1]
      BY <2>1, <3>1, SubSeqProperties, SMTT(30)
    <3> QED  BY <3>1, <3>2
  <2>3. /\ Len(SubSeq(r, n + 1, n + 5)) = Len(Forced)
        /\ \A k \in 1..Len(SubSeq(r, n + 1, n + 5)) : SubSeq(r, n + 1, n + 5)[k] = Forced[k]
    BY <1>2, <1>5, <2>2
  <2> QED  BY <1>2, <2>2, <2>3, SeqEqual
<1>8. Last(r) = x /\ Len(r) - 6 = n /\ Len(r) - 5 = n + 1 /\ Len(r) - 1 = n + 5
  BY <1>1, <1>5 DEF Last
<1>9. WellFormed("curl", a \o <<x>>)
  <2>1. x \notin Options["curl"] \cup Flags["curl"]
    BY OperandIsNoWord DEF Looping
  <2> QED  BY <1>1, <2>1, OperandLastWellFormed
<1> QED  BY <1>6, <1>7, <1>8, <1>9 DEF CurlReturned, r, f

-----------------------------------------------------------------------------
(* The line is a sequence of symbols. *)

LEMMA SmallestOf ==
  ASSUME NEW K, K \subseteq Nat, K # {}
  PROVE  \E x \in K : \A y \in K : x <= y
<1> DEFINE T == {0..k : k \in K}
<1>1. T \subseteq FiniteSubsetsOf(Nat)
  <2> SUFFICES ASSUME NEW k \in K PROVE 0..k \in FiniteSubsetsOf(Nat)
    OBVIOUS
  <2>1. k \in Int /\ 0 \in Int /\ 0..k \subseteq Nat
    OBVIOUS
  <2>2. IsFiniteSet(0..k)
    BY <2>1, FS_Interval
  <2> QED  BY <2>1, <2>2 DEF FiniteSubsetsOf
<1>2. T # {}
  OBVIOUS
<1> HIDE DEF T
<1>3. PICK t \in T : \A u \in T : <<u, t>> \notin StrictSubsetOrdering(Nat)
  BY <1>1, <1>2, FS_StrictSubsetOrderingWellFounded, WFMin, Zenon
<1>4. PICK x \in K : t = 0..x
  BY <1>3 DEF T
<1>5. ASSUME NEW y \in K, ~(x <= y)
      PROVE  FALSE
  <2>1. 0..y \subseteq 0..x /\ x \in 0..x /\ x \notin 0..y /\ 0..y \subseteq Nat /\ 0..x \subseteq Nat
    BY <1>5
  <2>2. 0..y \in T
    BY DEF T
  <2>3. <<0..y, 0..x>> \in StrictSubsetOrdering(Nat)
    BY <2>1 DEF StrictSubsetOrdering
  <2> QED  BY <1>3, <1>4, <2>2, <2>3
<1> QED  BY <1>5

LEMMA MinIn ==
  ASSUME NEW K, K \subseteq Nat, K # {}
  PROVE  Min(K) \in K
BY SmallestOf DEF Min

LEMMA MaxIn ==
  ASSUME NEW K, NEW n \in Nat, K \subseteq 0..n, K # {}
  PROVE  Max(K) \in K
<1> DEFINE D == {n - k : k \in K}
<1>1. D \subseteq Nat
  BY SMT
<1>2. D # {}
  OBVIOUS
<1>3. PICK d \in D : \A y \in D : d <= y
  BY <1>1, <1>2, SmallestOf
<1>4. PICK x \in K : d = n - x
  BY <1>3
<1>5. \A y \in K : x >= y
  <2> SUFFICES ASSUME NEW y \in K PROVE x >= y
    OBVIOUS
  <2>1. n - x <= n - y
    BY <1>3, <1>4
  <2> QED  BY <2>1
<1> QED  BY <1>5 DEF Max

LEMMA Trimmed ==
  ASSUME NEW raw \in Seq(Symbols)
  PROVE  Trim(raw) \in Seq(Symbols)
<1> DEFINE kept == {k \in DOMAIN raw : raw[k] \notin {Space, Newline}}
<1>1. DOMAIN raw = 1..Len(raw) /\ Len(raw) \in Nat /\ \A k \in 1..Len(raw) : raw[k] \in Symbols
  BY LenProperties, ElementOfSeq
<1>2. CASE kept = {}
  BY <1>2 DEF Trim
<1>3. CASE kept # {}
  <2>1. kept \subseteq Nat /\ kept \subseteq 0..Len(raw)
    BY <1>1
  <2> HIDE DEF kept
  <2>2. Min(kept) \in kept /\ Max(kept) \in kept
    BY <1>1, <1>3, <2>1, MinIn, MaxIn
  <2>3. Min(kept) \in 1..Len(raw) /\ Max(kept) \in 1..Len(raw)
    BY <1>1, <2>2 DEF kept
  <2>4. \A k \in Min(kept)..Max(kept) : raw[k] \in Symbols
    BY <1>1, <2>3
  <2>5. SubSeq(raw, Min(kept), Max(kept)) \in Seq(Symbols)
    BY <2>3, <2>4, SubSeqProperties
  <2>6. Trim(raw) = SubSeq(raw, Min(kept), Max(kept))
    BY <1>3, Zenon DEF Trim, kept
  <2> QED  BY <2>5, <2>6
<1> QED  BY <1>2, <1>3

-----------------------------------------------------------------------------
(* The inductive invariant. *)

ScanTyped ==
  /\ line \in Seq(Symbols) /\ token \in Seq(Symbols) /\ tokens \in Seq(Seq(Symbols))
  /\ pos \in Nat \ {0}

(* parse() starts with fresh locals. *)
Fresh ==
  phase \in {"between", "token"} =>
    i = 1 /\ p = [args |-> <<>>, target |-> <<>>, count |-> 0, flag |-> <<>>]

Parsing ==
  phase = "parse" => Calls(registry) /\ (tool \in Looping => LoopKept(tool, Rest, i, p))

ValidatorInv == ScanTyped /\ Fresh /\ Parsing /\ AcceptedIffWellFormed /\ ArgsWellFormed

LEMMA InitValid == Init => ValidatorInv
<1> SUFFICES ASSUME Init PROVE ValidatorInv
  OBVIOUS
<1>1. line \in Seq(Symbols)
  BY Trimmed, CommandValidatorAssumption DEF Init
<1>2. ScanTyped
  <2>1. token = <<>> /\ tokens = <<>> /\ pos = 1
    BY DEF Init
  <2> QED  BY <1>1, <2>1 DEF ScanTyped
<1>3. phase = "between" /\ Fresh
  BY DEF Init, Fresh
<1>4. Parsing /\ AcceptedIffWellFormed /\ ArgsWellFormed
  BY <1>3, Zenon DEF Parsing, AcceptedIffWellFormed, ArgsWellFormed
<1> QED  BY <1>2, <1>3, <1>4, Zenon DEF ValidatorInv

(* Until the line is read there is nothing to say of the args. *)
LEMMA StillScanning ==
  ASSUME ScanTyped', Fresh', phase' \in {"between", "token"}
  PROVE  ValidatorInv'
<1>1. phase' # "parse" /\ phase' # "accepted" /\ phase' # "rejected"
  OBVIOUS
<1>2. Parsing' /\ AcceptedIffWellFormed' /\ ArgsWellFormed'
  BY <1>1 DEF Parsing, AcceptedIffWellFormed, ArgsWellFormed
<1> QED  BY <1>2, Zenon DEF ValidatorInv

LEMMA TokenizeValid ==
  ASSUME ValidatorInv,
         SkipBlank \/ StartToken \/ CloseQuote \/ OpenQuote \/ TakeSymbol \/ EndToken
  PROVE  ValidatorInv'
<1>1. phase \in {"between", "token"} /\ phase' \in {"between", "token"} /\ UNCHANGED parseVars
  BY DEF SkipBlank, StartToken, CloseQuote, OpenQuote, TakeSymbol, EndToken
<1>2. Fresh'
  BY <1>1 DEF ValidatorInv, Fresh, parseVars
<1>3. ScanTyped'
  <2>1. ScanTyped
    BY DEF ValidatorInv
  <2>2. CASE SkipBlank \/ StartToken \/ CloseQuote \/ OpenQuote
    <3>1. line' = line /\ tokens' = tokens /\ (token' = token \/ token' = <<>>)
      BY <2>2 DEF SkipBlank, StartToken, CloseQuote, OpenQuote
    <3>2. pos' = pos \/ pos' = pos + 1
      BY <2>2 DEF SkipBlank, StartToken, CloseQuote, OpenQuote
    <3>3. token' \in Seq(Symbols)
      <4>1. <<>> \in Seq(Symbols) /\ token \in Seq(Symbols)
        BY <2>1, EmptySeq DEF ScanTyped
      <4> QED  BY <3>1, <4>1
    <3>4. pos' \in Nat \ {0}
      BY <2>1, <3>2 DEF ScanTyped
    <3> QED  BY <2>1, <3>1, <3>3, <3>4 DEF ScanTyped
  <2>3. CASE TakeSymbol
    <3>1. pos \in 1..Len(line)
      BY <2>1, <2>3, LenProperties DEF ScanTyped, TakeSymbol, AtEnd
    <3>2. line[pos] \in Symbols
      BY <2>1, <3>1, ElementOfSeq DEF ScanTyped
    <3>3. token' \in Seq(Symbols)
      BY <2>1, <2>3, <3>2, AppendProperties DEF ScanTyped, TakeSymbol
    <3> QED  BY <2>1, <2>3, <3>3 DEF ScanTyped, TakeSymbol
  <2>4. CASE EndToken
    <3>1. tokens' \in Seq(Seq(Symbols))
      BY <2>1, <2>4, AppendProperties DEF ScanTyped, EndToken
    <3> QED  BY <2>1, <2>4, <3>1 DEF ScanTyped, EndToken
  <2> QED  BY <2>2, <2>3, <2>4
<1> QED  BY <1>1, <1>2, <1>3, StillScanning

LEMMA UnterminatedValid ==
  ASSUME ValidatorInv, Unterminated
  PROVE  ValidatorInv'
<1>1. phase' = "rejected" /\ quote' # "" /\ UNCHANGED scanVars /\ line' = line
  BY DEF Unterminated, scanVars
<1>2. ScanTyped'
  BY <1>1 DEF ValidatorInv, ScanTyped, scanVars
<1>3. Fresh' /\ Parsing' /\ ArgsWellFormed'
  BY <1>1 DEF Fresh, Parsing, ArgsWellFormed
<1>4. AcceptedIffWellFormed'
  BY <1>1, Zenon DEF AcceptedIffWellFormed
<1> QED  BY <1>2, <1>3, <1>4, Zenon DEF ValidatorInv

(* The tool that the first token names. *)
LEMMA ToolCalled ==
  ASSUME ScanTyped
  PROVE  /\ tokens # <<>> => Rest \in Seq(Seq(Symbols))
         /\ Calls(registry) => tokens # <<>> /\ tool \in registry
         /\ Calls(Looping) => Calls(registry) /\ tool \in Looping
         /\ Calls(registry) /\ tool \in Looping => Calls(Looping)
<1>1. tokens # <<>> => Rest \in Seq(Seq(Symbols))
  BY HeadTailProperties DEF ScanTyped, Rest
<1>2. \A w, set : Head(tokens) = W(w) /\ w \in set => tool = w /\ tool \in set
  BY DEF tool, W
<1>3. Looping \subseteq registry
  BY DEF registry
<1>4. Calls(registry) => tokens # <<>> /\ tool \in registry /\ Head(tokens) = W(tool)
  BY <1>2 DEF Calls, Words
<1>5. Calls(Looping) => Calls(registry) /\ tool \in Looping
  BY <1>2, <1>3 DEF Calls, Words
<1>6. Calls(registry) /\ tool \in Looping => Calls(Looping)
  BY <1>4 DEF Calls, Words
<1> QED  BY <1>1, <1>4, <1>5, <1>6

LEMMA SameLine ==
  ASSUME ScanTyped, UNCHANGED <<line, scanVars>>
  PROVE  /\ ScanTyped' /\ Rest' = Rest /\ tool' = tool
         /\ Calls(registry)' = Calls(registry) /\ Calls(Looping)' = Calls(Looping)
<1>1. line' = line /\ pos' = pos /\ token' = token /\ tokens' = tokens
  BY DEF scanVars
<1> QED  BY <1>1, Zenon DEF ScanTyped, Rest, tool, Calls

(* A refusal is right when the command is not well-formed. *)
LEMMA RejectValid ==
  ASSUME ValidatorInv, Reject, Calls(Looping) => ~WellFormed(tool, Rest)
  PROVE  ValidatorInv'
<1>1. phase' = "rejected" /\ UNCHANGED <<line, scanVars>> /\ ScanTyped
  BY DEF Reject, ValidatorInv
<1>2. /\ ScanTyped' /\ Rest' = Rest /\ tool' = tool
      /\ Calls(registry)' = Calls(registry) /\ Calls(Looping)' = Calls(Looping)
  BY <1>1, SameLine
<1>3. Fresh' /\ Parsing' /\ ArgsWellFormed'
  BY <1>1 DEF Fresh, Parsing, ArgsWellFormed
<1>4. AcceptedIffWellFormed'
  BY <1>1, <1>2 DEF AcceptedIffWellFormed
<1> QED  BY <1>2, <1>3, <1>4, Zenon DEF ValidatorInv

LEMMA DispatchValid ==
  ASSUME ValidatorInv, Dispatch
  PROVE  ValidatorInv'
<1>1. /\ phase' = "parse" /\ UNCHANGED <<line, scanVars>> /\ i' = i /\ Calls(registry) /\ ScanTyped
      /\ p' = [p EXCEPT !.count = CASE tool = "mtr" -> MtrDefault [] tool = "ping" -> PingDefault
                                    [] OTHER -> 0]
  BY DEF Dispatch, ValidatorInv
<1>2. i = 1 /\ p = [args |-> <<>>, target |-> <<>>, count |-> 0, flag |-> <<>>]
  BY DEF ValidatorInv, Fresh, Dispatch
<1>3. /\ ScanTyped' /\ Rest' = Rest /\ tool' = tool
      /\ Calls(registry)' = Calls(registry) /\ Calls(Looping)' = Calls(Looping)
  BY <1>1, SameLine
<1>4. Fresh' /\ AcceptedIffWellFormed' /\ ArgsWellFormed'
  BY <1>1 DEF Fresh, AcceptedIffWellFormed, ArgsWellFormed
<1>5. ASSUME tool \in Looping
      PROVE  LoopKept(tool, Rest, 1, p')
  <2>1. Rest \in Seq(Seq(Symbols))
    BY <1>1, ToolCalled
  <2>2. /\ p'.args = <<>> /\ p'.target = <<>> /\ p' \in Locals
        /\ tool = "mtr" => p'.count = MtrDefault
        /\ tool = "ping" => p'.count = PingDefault
    <3> DEFINE c == CASE tool = "mtr" -> MtrDefault [] tool = "ping" -> PingDefault [] OTHER -> 0
    <3>1. (tool = "mtr" => c = MtrDefault) /\ (tool = "ping" => c = PingDefault)
      OBVIOUS
    <3>2. c \in Int
      BY DEF MtrDefault, PingDefault
    <3> HIDE DEF c
    <3>3. p' = [args |-> <<>>, target |-> <<>>, count |-> c, flag |-> <<>>]
      BY <1>1, <1>2 DEF c
    <3>4. <<>> \in Seq(Arg) /\ <<>> \in Seq(Seq(Symbols))
      BY EmptySeq
    <3>5. p' \in Locals
      BY <3>2, <3>3, <3>4 DEF Locals
    <3> QED  BY <3>1, <3>3, <3>5
  <2>3. Read(tool, Rest, 1) /\ OperandsBelow(tool, Rest, 1) = {} /\ OptionsBelow(tool, Rest, 1) = {}
    BY <2>1, NothingRead, NoOptionBelowFirst
  <2>4. OneOperand(tool, Rest, 1, p'.target)
    BY <2>2, <2>3 DEF OneOperand
  <2>5. tool = "curl" => CurlKept(Rest, 1, p')
    BY <2>2, <2>4, NothingHasOnlyOptions DEF CurlKept
  <2>6. tool \in {"mtr", "ping"} => p'.count \in 1..MaxCount[tool]
    BY <2>2, ToolWords DEF MtrDefault, PingDefault, MtrMax, PingMax
  <2>7. tool \in {"mtr", "ping"} => CountKept(tool, Rest, 1, p')
    BY <2>4, <2>6 DEF CountKept
  <2>8. tool = "openssl" => OpensslKept(Rest, 1, p')
    <3>1. SubSeq(Rest, 1, 1 - 1) = <<>>
      BY SubSeqEmpty
    <3> QED  BY <2>2, <2>3, <3>1 DEF OpensslKept
  <2> QED  BY <2>2, <2>3, <2>5, <2>7, <2>8, Zenon DEF LoopKept
<1>6. Parsing'
  BY <1>1, <1>2, <1>3, <1>5 DEF Parsing
<1> QED  BY <1>3, <1>4, <1>6, Zenon DEF ValidatorInv

LEMMA NotAllowedValid ==
  ASSUME ValidatorInv, NotAllowed
  PROVE  ValidatorInv'
<1>1. Reject /\ ~Calls(registry)
  BY DEF NotAllowed
<1>2. ~Calls(Looping)
  BY <1>1, ToolCalled DEF ValidatorInv
<1> QED  BY <1>1, <1>2, RejectValid

(* A step of a loop, from what the invariant says of it. *)
LEMMA InLoop ==
  ASSUME ValidatorInv, phase = "parse", tool \in Looping
  PROVE  /\ ScanTyped /\ Rest \in Seq(Seq(Symbols)) /\ LoopKept(tool, Rest, i, p)
         /\ Calls(registry) /\ i \in 1..(Len(Rest) + 1) /\ Len(Rest) \in Nat
         /\ Unread = <<>> <=> i = Len(Rest) + 1
         /\ Unread # <<>> => i \in 1..Len(Rest) /\ Head(Unread) \in Seq(Symbols)
<1>1. ScanTyped /\ Calls(registry) /\ LoopKept(tool, Rest, i, p)
  BY DEF ValidatorInv, Parsing
<1>2. Rest \in Seq(Seq(Symbols))
  BY <1>1, ToolCalled
<1>3. i \in 1..(Len(Rest) + 1) /\ Len(Rest) \in Nat
  BY <1>1, <1>2, LenProperties DEF LoopKept, Read
<1>4. Unread = <<>> <=> i = Len(Rest) + 1
  BY <1>2, <1>3, Remaining DEF Unread
<1>5. ASSUME Unread # <<>>
      PROVE  i \in 1..Len(Rest) /\ Head(Unread) \in Seq(Symbols)
  <2>1. i <= Len(Rest)
    BY <1>3, <1>4, <1>5
  <2> QED  BY <1>2, <1>3, <2>1, Remaining DEF Unread
<1> QED  BY <1>1, <1>2, <1>3, <1>4, <1>5

LEMMA IterateValid ==
  ASSUME ValidatorInv, Iterate
  PROVE  ValidatorInv'
<1>1. phase = "parse" /\ tool \in Looping /\ Unread # <<>>
  BY DEF Iterate
<1>2. /\ ScanTyped /\ Rest \in Seq(Seq(Symbols)) /\ LoopKept(tool, Rest, i, p) /\ Calls(registry)
      /\ i \in 1..Len(Rest) /\ Head(Unread) \in Seq(Symbols)
  BY <1>1, InLoop
<1>3. PICK r \in Step : i' = i + r.n /\ p' = r.p
  BY Zenon DEF Iterate
<1>4. LoopKept(tool, Rest, i + r.n, r.p)
  <2>1. CASE tool = "curl"
    <3>1. r \in CurlStep(SubSeq(Rest, i, Len(Rest)))
      BY <2>1 DEF Step, Unread
    <3> QED  BY <1>2, <2>1, <3>1, CurlLoop, Zenon
  <2>2. CASE tool = "openssl"
    <3>1. r \in OpensslStep(SubSeq(Rest, i, Len(Rest)))
      BY <2>2 DEF Step, Unread
    <3> QED  BY <1>2, <2>2, <3>1, OpensslLoop, Zenon
  <2>3. CASE tool = "mtr"
    <3>1. r \in MtrStep(SubSeq(Rest, i, Len(Rest)))
      BY <2>3 DEF Step, Unread
    <3> QED  BY <1>2, <2>3, <3>1, MtrReads, CountLoop DEF Unread
  <2>4. CASE tool = "ping"
    <3>1. r \in PingStep(SubSeq(Rest, i, Len(Rest)))
      BY <2>4 DEF Step, Unread
    <3> QED  BY <1>2, <2>4, <3>1, PingReads, CountLoop DEF Unread
  <2> QED  BY <1>1, <2>1, <2>2, <2>3, <2>4 DEF Looping
<1>5. phase' = "parse" /\ UNCHANGED <<line, scanVars>>
  BY DEF Iterate
<1>6. /\ ScanTyped' /\ Rest' = Rest /\ tool' = tool
      /\ Calls(registry)' = Calls(registry) /\ Calls(Looping)' = Calls(Looping)
  BY <1>2, <1>5, SameLine
<1>7. Fresh' /\ AcceptedIffWellFormed' /\ ArgsWellFormed'
  BY <1>5 DEF Fresh, AcceptedIffWellFormed, ArgsWellFormed
<1>8. Parsing'
  BY <1>2, <1>3, <1>4, <1>6, Zenon DEF Parsing
<1> QED  BY <1>6, <1>7, <1>8, Zenon DEF ValidatorInv

LEMMA IterateThrowsValid ==
  ASSUME ValidatorInv, IterateThrows
  PROVE  ValidatorInv'
<1>1. phase = "parse" /\ tool \in Looping /\ Unread # <<>> /\ Step = {} /\ Reject
  BY DEF IterateThrows, Throws
<1>2. /\ Rest \in Seq(Seq(Symbols)) /\ LoopKept(tool, Rest, i, p)
      /\ i \in 1..Len(Rest) /\ Head(Unread) \in Seq(Symbols)
  BY <1>1, InLoop
<1>3. ASSUME tool # "openssl", BadOption(tool, Unread) \/ BadOperand(tool, Unread)
      PROVE  ~WellFormed(tool, Rest)
  <2>1. OneOperand(tool, Rest, i, p.target)
    BY <1>1, <1>2, <1>3 DEF LoopKept, CurlKept, CountKept, Looping
  <2> QED  BY <1>1, <1>2, <1>3, <2>1, RefusedNotWellFormed DEF Unread
<1>4. ~WellFormed(tool, Rest)
  <2>1. CASE tool = "curl"
    <3>1. CurlStep(Unread) = {}
      BY <1>1, <2>1 DEF Step
    <3> QED  BY <1>2, <1>3, <2>1, <3>1, CurlThrows
  <2>2. CASE tool = "openssl"
    <3>1. OpensslStep(SubSeq(Rest, i, Len(Rest))) = {}
      BY <1>1, <2>2 DEF Step, Unread
    <3> QED  BY <1>2, <2>2, <3>1, OpensslRefused, Zenon
  <2>3. CASE tool = "mtr"
    <3>1. MtrStep(Unread) = {}
      BY <1>1, <2>3 DEF Step
    <3> QED  BY <1>2, <1>3, <2>3, <3>1, MtrThrows
  <2>4. CASE tool = "ping"
    <3>1. PingStep(Unread) = {}
      BY <1>1, <2>4 DEF Step
    <3> QED  BY <1>2, <1>3, <2>4, <3>1, PingThrows
  <2> QED  BY <1>1, <2>1, <2>2, <2>3, <2>4 DEF Looping
<1> QED  BY <1>1, <1>4, RejectValid

LEMMA AcceptValid ==
  ASSUME ValidatorInv, NEW args, Accept(args), tool \in Looping => WellFormed(tool, Rest),
         tool \in {"mtr", "ping"} => CountReturned(tool, args),
         tool = "curl" => CurlReturned(args),
         tool = "openssl" => args = Rest
  PROVE  ValidatorInv'
<1>1. phase' = "accepted" /\ result' = args /\ UNCHANGED <<line, scanVars>> /\ ScanTyped
  BY DEF Accept, ValidatorInv
<1>2. /\ ScanTyped' /\ Rest' = Rest /\ tool' = tool
      /\ Calls(registry)' = Calls(registry) /\ Calls(Looping)' = Calls(Looping)
  BY <1>1, SameLine
<1>3. Fresh' /\ Parsing'
  BY <1>1 DEF Fresh, Parsing
<1>4. AcceptedIffWellFormed'
  <2>1. Calls(Looping) => WellFormed(tool, Rest)
    BY <1>1, ToolCalled
  <2> QED  BY <1>1, <1>2, <2>1 DEF AcceptedIffWellFormed
<1>5. Asked' = IF tool # "curl" THEN args
               ELSE SubSeq(args, 1, Len(args) - 6) \o <<Last(args)>>
  BY <1>1, <1>2 DEF Asked
<1>6. Calls(Looping) => tool \in Looping
  BY <1>1, ToolCalled
<1>7. Calls(Looping) => WellFormed(tool, Asked')
  BY <1>5, <1>6 DEF Looping, CountReturned, CurlReturned
<1>8. tool \in {"mtr", "ping"} =>
        Cardinality({k \in DOMAIN args \ ValuesIn(tool, args) : args[k] = W("-c")}) = 1
  BY Zenon DEF CountReturned
<1>9. tool = "curl" =>
        SubSeq(args, Len(args) - 5, Len(args) - 1) =
          <<W("--max-time"), W(MaxTime), W("--max-filesize"), W(MaxSize), W("-sS")>>
  BY Zenon DEF CurlReturned, Forced
<1>10. ArgsWellFormed'
  BY <1>1, <1>2, <1>7, <1>8, <1>9, Zenon DEF ArgsWellFormed
<1> QED  BY <1>2, <1>3, <1>4, <1>10, Zenon DEF ValidatorInv

LEMMA EndLoopValid ==
  ASSUME ValidatorInv, EndLoop
  PROVE  ValidatorInv'
<1>1. phase = "parse" /\ tool \in Looping /\ Unread = <<>>
  BY DEF EndLoop
<1>2. Rest \in Seq(Seq(Symbols)) /\ LoopKept(tool, Rest, i, p) /\ i = Len(Rest) + 1 /\ Len(Rest) \in Nat
  BY <1>1, InLoop
<1>3. p.target # <<>> <=> WellFormed(tool, Rest)
  BY <1>1, <1>2, EndOfTokens
<1>4. CASE p.target = <<>>
  BY <1>3, <1>4, RejectValid DEF EndLoop
<1>5. CASE p.target # <<>>
  <2> DEFINE args == CASE tool = "curl" -> CurlArgs [] tool = "openssl" -> p.args
                       [] tool = "mtr" -> MtrArgs [] tool = "ping" -> PingArgs
  <2>1. Accept(args)
    BY <1>5 DEF EndLoop
  <2>2. /\ tool = "curl" => args = CurlArgs
        /\ tool = "openssl" => args = p.args
        /\ tool = "mtr" => args = MtrArgs
        /\ tool = "ping" => args = PingArgs
    OBVIOUS
  <2> HIDE DEF args
  <2>3. ASSUME tool # "openssl"
        PROVE  \E x \in Seq(Symbols) : p.target = <<x>> /\ IsOperand(tool, x)
    <3>1. OneOperand(tool, Rest, i, p.target)
      BY <1>1, <1>2, <2>3 DEF LoopKept, CurlKept, CountKept, Looping
    <3>2. PICK k \in DOMAIN Rest : p.target = <<Rest[k]>> /\ IsOperand(tool, Rest[k])
      BY <1>5, <3>1 DEF OneOperand
    <3>3. Rest[k] \in Seq(Symbols)
      BY <1>2, LenProperties, ElementOfSeq
    <3> QED  BY <3>2, <3>3
  <2>4. tool = "curl" => CurlReturned(args)
    <3> SUFFICES ASSUME tool = "curl" PROVE CurlReturned(args)
      OBVIOUS
    <3>1. PICK x \in Seq(Symbols) : p.target = <<x>> /\ IsOperand("curl", x)
      BY <2>3
    <3>2. p.args \in Seq(Arg) /\ OnlyOptions("curl", p.args)
      BY <1>2 DEF LoopKept, CurlKept, Locals
    <3>3. args = (p.args \o Forced) \o <<x>>
      BY <2>2, <3>1 DEF CurlArgs, Forced
    <3> QED  BY <3>1, <3>2, <3>3, CurlReturns
  <2>5. tool = "mtr" => CountReturned(tool, args)
    <3> SUFFICES ASSUME tool = "mtr" PROVE CountReturned("mtr", args)
      OBVIOUS
    <3>1. PICK x \in Seq(Symbols) : p.target = <<x>> /\ IsOperand("mtr", x)
      BY <2>3
    <3>2. p.count \in 1..MaxCount["mtr"] /\ p.flag \in {<<>>, <<W("-4")>>, <<W("-6")>>}
      BY <1>2 DEF LoopKept, CountKept, Locals
    <3>3. args = (<<W("-r"), W("-c"), Decimal(p.count)>> \o p.flag) \o <<x>>
      BY <2>2, <3>1 DEF MtrArgs
    <3> QED  BY <3>1, <3>2, <3>3, MtrReturns
  <2>6. tool = "ping" => CountReturned(tool, args)
    <3> SUFFICES ASSUME tool = "ping" PROVE CountReturned("ping", args)
      OBVIOUS
    <3>1. PICK x \in Seq(Symbols) : p.target = <<x>> /\ IsOperand("ping", x)
      BY <2>3
    <3>2. p.count \in 1..MaxCount["ping"]
      BY <1>2 DEF LoopKept, CountKept
    <3>3. args = <<W("-c"), Decimal(p.count)>> \o <<x>>
      BY <2>2, <3>1 DEF PingArgs
    <3> QED  BY <3>1, <3>2, <3>3, PingReturns
  <2>7. tool = "openssl" => args = Rest
    <3> SUFFICES ASSUME tool = "openssl" PROVE args = Rest
      OBVIOUS
    <3>1. p.args = SubSeq(Rest, 1, i - 1)
      BY <1>2 DEF LoopKept, OpensslKept
    <3>2. i - 1 = Len(Rest)
      BY <1>2
    <3> QED  BY <1>2, <2>2, <3>1, <3>2, SubSeqFull
  <2> QED  BY <1>3, <1>5, <2>1, <2>4, <2>5, <2>6, <2>7, AcceptValid
<1> QED  BY <1>4, <1>5

LEMMA ParsePositionsValid ==
  ASSUME ValidatorInv, ParsePositions
  PROVE  ValidatorInv'
<1>1. phase = "parse" /\ tool \notin Looping
  BY DEF ParsePositions
<1>2. ~Calls(Looping)
  BY <1>1, ToolCalled DEF ValidatorInv
<1>3. CASE Reject
  BY <1>2, <1>3, RejectValid
<1>4. ASSUME NEW args, Accept(args)
      PROVE  ValidatorInv'
  BY <1>1, <1>4, AcceptValid DEF Looping
<1>5. Reject \/ \E args : Accept(args)
  BY Zenon DEF ParsePositions
<1> QED  BY <1>3, <1>4, <1>5

LEMMA NextValid == ValidatorInv /\ [Next]_vars => ValidatorInv'
<1> SUFFICES ASSUME ValidatorInv, [Next]_vars PROVE ValidatorInv'
  OBVIOUS
<1>1. CASE SkipBlank \/ StartToken \/ CloseQuote \/ OpenQuote \/ TakeSymbol \/ EndToken
  BY <1>1, TokenizeValid
<1>2. CASE Unterminated
  BY <1>2, UnterminatedValid
<1>3. CASE Dispatch
  BY <1>3, DispatchValid
<1>4. CASE NotAllowed
  BY <1>4, NotAllowedValid
<1>5. CASE Iterate
  BY <1>5, IterateValid
<1>6. CASE IterateThrows
  BY <1>6, IterateThrowsValid
<1>7. CASE EndLoop
  BY <1>7, EndLoopValid
<1>8. CASE ParsePositions
  BY <1>8, ParsePositionsValid
<1>9. CASE UNCHANGED vars
  <2>1. UNCHANGED <<line, scanVars>> /\ phase' = phase /\ i' = i /\ p' = p /\ result' = result /\ quote' = quote
    BY <1>9 DEF vars, scanVars, parseVars
  <2>2. ScanTyped /\ Fresh /\ Parsing /\ AcceptedIffWellFormed /\ ArgsWellFormed
    BY Zenon DEF ValidatorInv
  <2>3. /\ ScanTyped' /\ Rest' = Rest /\ tool' = tool
        /\ Calls(registry)' = Calls(registry) /\ Calls(Looping)' = Calls(Looping)
    BY <2>1, <2>2, SameLine
  <2>4. Fresh' /\ Parsing'
    BY <2>1, <2>2, <2>3, Zenon DEF Fresh, Parsing
  <2>5. AcceptedIffWellFormed'
    BY <2>1, <2>2, <2>3, Zenon DEF AcceptedIffWellFormed
  <2>6. Asked' = Asked
    BY <2>1, <2>3, Zenon DEF Asked
  <2>7. ArgsWellFormed'
    BY <2>1, <2>2, <2>3, <2>6, Zenon DEF ArgsWellFormed
  <2> QED  BY <2>3, <2>4, <2>5, <2>7, Zenon DEF ValidatorInv
<1> QED  BY <1>1, <1>2, <1>3, <1>4, <1>5, <1>6, <1>7, <1>8, <1>9, Zenon DEF Next

(* The invariant of validateCommand: what each loop has read and gathered.   *)
THEOREM ValidatorInvariant == Spec => []ValidatorInv
<1>1. Init => ValidatorInv
  BY InitValid
<1>2. ValidatorInv /\ [Next]_vars => ValidatorInv'
  BY NextValid
<1> QED  BY <1>1, <1>2, PTL DEF Spec

(* The parse() of curl, openssl, mtr and ping accept exactly the commands    *)
(* that are well-formed, of any length.                                      *)
THEOREM AlwaysAcceptedIffWellFormed == Spec => []AcceptedIffWellFormed
<1>1. ValidatorInv => AcceptedIffWellFormed
  BY DEF ValidatorInv
<1> QED  BY <1>1, ValidatorInvariant, PTL

(* The args that they return, with the options they force, are well-formed.  *)
THEOREM AlwaysArgsWellFormed == Spec => []ArgsWellFormed
<1>1. ValidatorInv => ArgsWellFormed
  BY DEF ValidatorInv
<1> QED  BY <1>1, ValidatorInvariant, PTL

-----------------------------------------------------------------------------
(* tokenize(): the quotes of a line, and its words from left to right. *)

(* The quotes of the line are what the scan sees: QuotesIn obeys the         *)
(* recursion it is defined by.                                               *)
LEMMA QuotesLemma ==
  ASSUME NEW S, NEW s \in Seq(S)
  PROVE  /\ QuotesIn(s)[1] = ""
         /\ \A k \in 1..Len(s) : QuotesIn(s)[k + 1] = QuoteAfter(QuotesIn(s)[k], s[k])
<1> DEFINE Rec(n, g) == g = [k \in 1..(n + 1) |-> IF k = 1 THEN "" ELSE QuoteAfter(g[k - 1], s[k - 1])]
           Missing == {n \in Nat : ~ \E g : Rec(n, g)}
<1> HIDE DEF Rec, Missing
<1>1. Missing = {}
  <2> SUFFICES ASSUME Missing # {} PROVE FALSE
    OBVIOUS
  <2>1. PICK n \in Missing : \A m \in Missing : n <= m
    <3>1. Missing \subseteq Nat
      BY DEF Missing
    <3> QED  BY <3>1, SmallestOf
  <2>2. n \in Nat /\ ~ \E g : Rec(n, g)
    BY <2>1 DEF Missing
  <2>3. n # 0
    <3> DEFINE h == [k \in 1..1 |-> ""]
    <3>1. 0 + 1 = 1 /\ \A k \in 1..1 : k = 1
      OBVIOUS
    <3>2. Rec(0, h)
      BY <3>1 DEF Rec
    <3> QED  BY <2>2, <3>2
  <2>4. n - 1 \in Nat /\ n - 1 \notin Missing
    <3>1. n - 1 \in Nat /\ ~(n <= n - 1)
      BY <2>2, <2>3
    <3> QED  BY <2>1, <3>1
  <2>5. PICK g : Rec(n - 1, g)
    BY <2>4 DEF Missing
  <2> DEFINE h == [k \in 1..(n + 1) |-> IF k = n + 1 THEN QuoteAfter(g[n], s[n]) ELSE g[k]]
  <2>6. Rec(n, h)
    <3> SUFFICES ASSUME NEW k \in 1..(n + 1)
                 PROVE  h[k] = IF k = 1 THEN "" ELSE QuoteAfter(h[k - 1], s[k - 1])
      BY DEF Rec
    <3>1. (n - 1) + 1 = n /\ 1 # n + 1
      BY <2>2, <2>3, SMT
    <3>2. \A m \in 1..n : g[m] = IF m = 1 THEN "" ELSE QuoteAfter(g[m - 1], s[m - 1])
      BY <2>5, <3>1 DEF Rec
    <3>3. k # 1 => k - 1 \in 1..n /\ k - 1 \in 1..(n + 1) /\ k - 1 # n + 1
      BY <2>2
    <3>4. k # n + 1 => k \in 1..n
      BY <2>2
    <3>5. (n + 1) - 1 = n
      BY <2>2
    <3> QED  BY <3>1, <3>2, <3>3, <3>4, <3>5
  <2> QED  BY <2>2, <2>6
<1> DEFINE q == QuotesIn(s)
<1>2. Len(s) \in Nat
  BY LenProperties
<1>3. \E g : Rec(Len(s), g)
  BY <1>1, <1>2 DEF Missing
<1>4. Rec(Len(s), q)
  BY <1>3 DEF QuotesIn, Rec
<1>5. \A k \in 1..(Len(s) + 1) : q[k] = IF k = 1 THEN "" ELSE QuoteAfter(q[k - 1], s[k - 1])
  BY <1>4 DEF Rec
<1> HIDE DEF q
<1>6. q[1] = ""
  <2>1. 1 \in 1..(Len(s) + 1)
    BY <1>2
  <2> QED  BY <1>5, <2>1
<1>7. ASSUME NEW k \in 1..Len(s)
      PROVE  q[k + 1] = QuoteAfter(q[k], s[k])
  <2>1. k + 1 \in 1..(Len(s) + 1) /\ k + 1 # 1 /\ (k + 1) - 1 = k
    BY <1>2
  <2> QED  BY <1>5, <2>1
<1> QED  BY <1>6, <1>7 DEF q

(* One place more, behind all the others, comes last. *)
LEMMA RankLemma ==
  ASSUME NEW places, places \subseteq Nat, NEW n \in Nat, \A k \in places : k < n
  PROVE  /\ Cardinality(places) \in Nat
         /\ Cardinality(places \cup {n}) = Cardinality(places) + 1
         /\ Rank(n, places \cup {n}) = Cardinality(places) + 1
         /\ \A k \in places : /\ Rank(k, places \cup {n}) = Rank(k, places)
                              /\ Rank(k, places) \in 1..Cardinality(places)
<1>1. IsFiniteSet(places)
  <2>1. places \in SUBSET Nat /\ \A k \in places : k <= n
    OBVIOUS
  <2> QED  BY <2>1, FS_BoundedSetOfNaturals
<1>2. Cardinality(places) \in Nat
  BY <1>1, FS_CardinalityType
<1>3. n \notin places
  OBVIOUS
<1>4. Cardinality(places \cup {n}) = Cardinality(places) + 1
  BY <1>1, <1>3, FS_AddElement
<1>5. {m \in places \cup {n} : m <= n} = places \cup {n}
  <2>1. n <= n /\ \A k \in places : k <= n
    OBVIOUS
  <2> QED  BY <2>1, Zenon
<1>6. ASSUME NEW k \in places
      PROVE  /\ Rank(k, places \cup {n}) = Rank(k, places)
             /\ Rank(k, places) \in 1..Cardinality(places)
  <2> DEFINE below == {m \in places : m <= k}
  <2>1. {m \in places \cup {n} : m <= k} = below
    OBVIOUS
  <2>2. below \in SUBSET places /\ k \in below
    OBVIOUS
  <2> HIDE DEF below
  <2>3. IsFiniteSet(below) /\ Cardinality(below) <= Cardinality(places)
    BY <1>1, <2>2, FS_Subset
  <2>4. Cardinality(below) \in Nat /\ Cardinality(below) # 0
    BY <2>2, <2>3, FS_CardinalityType, FS_EmptySet
  <2> QED  BY <1>2, <2>1, <2>3, <2>4 DEF Rank, below
<1> QED  BY <1>2, <1>4, <1>5, <1>6 DEF Rank

LEMMA SpellsMore ==
  ASSUME NEW S, NEW s, NEW t \in Seq(S), NEW places, places \subseteq Nat, Spells(t, s, places),
         NEW n \in Nat, \A k \in places : k < n, s[n] \in S
  PROVE  Spells(Append(t, s[n]), s, places \cup {n})
<1> DEFINE more == places \cup {n}
<1>1. /\ Cardinality(more) = Cardinality(places) + 1 /\ Rank(n, more) = Cardinality(places) + 1
      /\ \A k \in places : Rank(k, more) = Rank(k, places) /\ Rank(k, places) \in 1..Cardinality(places)
  BY RankLemma
<1>2. Len(t) = Cardinality(places) /\ \A k \in places : t[Rank(k, places)] = s[k]
  BY DEF Spells
<1>3. /\ Len(Append(t, s[n])) = Len(t) + 1 /\ Append(t, s[n])[Len(t) + 1] = s[n]
      /\ \A j \in 1..Len(t) : Append(t, s[n])[j] = t[j]
  BY AppendProperties
<1> HIDE DEF more
<1>4. ASSUME NEW k \in more
      PROVE  Append(t, s[n])[Rank(k, more)] = s[k]
  <2>1. k \in places \/ k = n
    BY DEF more
  <2> QED  BY <1>1, <1>2, <1>3, <2>1
<1>5. Len(Append(t, s[n])) = Cardinality(more)
  BY <1>1, <1>2, <1>3
<1> QED  BY <1>4, <1>5 DEF Spells, more

LEMMA WordsMore ==
  ASSUME NEW S, NEW s, NEW w, NEW ts \in Seq(Seq(S)), NEW t \in Seq(S), NEW starts, starts \subseteq Nat,
         AreWords(ts, s, w, starts),
         NEW n \in Nat, \A k \in starts : k < n, Spells(t, s, Letters(s, w, n))
  PROVE  AreWords(Append(ts, t), s, w, starts \cup {n})
<1> DEFINE more == starts \cup {n}
<1>1. /\ Cardinality(more) = Cardinality(starts) + 1 /\ Rank(n, more) = Cardinality(starts) + 1
      /\ \A k \in starts : Rank(k, more) = Rank(k, starts) /\ Rank(k, starts) \in 1..Cardinality(starts)
  BY RankLemma
<1>2. /\ Len(ts) = Cardinality(starts)
      /\ \A k \in starts : Spells(ts[Rank(k, starts)], s, Letters(s, w, k))
  BY Zenon DEF AreWords
<1>3. /\ Len(Append(ts, t)) = Len(ts) + 1 /\ Append(ts, t)[Len(ts) + 1] = t
      /\ \A j \in 1..Len(ts) : Append(ts, t)[j] = ts[j]
  BY AppendProperties
<1> HIDE DEF more
<1>4. ASSUME NEW k \in more
      PROVE  Spells(Append(ts, t)[Rank(k, more)], s, Letters(s, w, k))
  <2>1. k \in starts \/ k = n
    BY DEF more
  <2>2. CASE k \in starts
    BY <1>1, <1>2, <1>3, <2>2
  <2>3. CASE k = n
    BY <1>1, <1>2, <1>3, <2>3
  <2> QED  BY <2>1, <2>2, <2>3
<1>5. Len(Append(ts, t)) = Cardinality(more)
  BY <1>1, <1>2, <1>3
<1> QED  BY <1>4, <1>5, Zenon DEF AreWords, more

-----------------------------------------------------------------------------
(* The invariant of tokenize(). *)

Within == QuotesIn(line)
WordsBelow(n) == {k \in Starts(line, Within) : k < n}
LettersBelow(start, n) == {k \in start..(n - 1) : Within[k] = Within[k + 1]}

(* Before pos there are whole words only, and tokens are these words. *)
BetweenWords ==
  /\ quote = ""
  /\ Outside(line, Within, pos - 1) \/ Outside(line, Within, pos)
  /\ AreWords(tokens, line, Within, WordsBelow(pos))

(* pos is in or right behind the word that starts at k, token is what was    *)
(* read of it, and tokens are the words before it.                           *)
InsideWord(k) ==
  /\ k <= pos /\ \A m \in k..(pos - 1) : ~Outside(line, Within, m)
  /\ AreWords(tokens, line, Within, WordsBelow(k))
  /\ Spells(token, line, LettersBelow(k, pos))

ScanInv ==
  /\ pos \in 1..(Len(line) + 1)
  /\ quote = Within[pos]
  /\ phase = "between" => BetweenWords
  /\ phase = "token" => \E k \in Starts(line, Within) : InsideWord(k)

LEMMA QuoteAfterLemma ==
  ASSUME NEW q, NEW symbol
  PROVE  /\ q # "" /\ symbol = q => QuoteAfter(q, symbol) = ""
         /\ q # "" /\ symbol # q => QuoteAfter(q, symbol) = q
         /\ q = "" /\ symbol \in Quotes => QuoteAfter(q, symbol) = symbol /\ symbol # "" /\ symbol # Space
         /\ q = "" /\ symbol \notin Quotes => QuoteAfter(q, symbol) = ""
<1>1. "" \notin Quotes /\ Space \notin Quotes
  BY DEF Quotes, Space
<1> QED  BY <1>1 DEF QuoteAfter

(* The line, its quotes and its words are what they were. *)
LEMMA ScanBasics ==
  ASSUME ScanTyped
  PROVE  /\ DOMAIN line = 1..Len(line) /\ Len(line) \in Nat
         /\ Within[1] = ""
         /\ \A k \in 1..Len(line) : /\ Within[k + 1] = QuoteAfter(Within[k], line[k])
                                    /\ line[k] \in Symbols
         /\ Starts(line, Within) \subseteq 1..Len(line)
         /\ \A n : WordsBelow(n) \subseteq Nat
<1>1. line \in Seq(Symbols)
  BY DEF ScanTyped
<1>2. DOMAIN line = 1..Len(line) /\ Len(line) \in Nat
  BY <1>1, LenProperties
<1>3. Starts(line, Within) \subseteq 1..Len(line)
  BY <1>2, Zenon DEF Starts
<1>4. \A n : WordsBelow(n) \subseteq Nat
  BY <1>2, <1>3 DEF WordsBelow
<1>5. Within[1] = "" /\ \A k \in 1..Len(line) : Within[k + 1] = QuoteAfter(Within[k], line[k])
  BY <1>1, QuotesLemma DEF Within
<1>6. \A k \in 1..Len(line) : line[k] \in Symbols
  BY <1>1, ElementOfSeq
<1> QED  BY <1>2, <1>3, <1>4, <1>5, <1>6

LEMMA InitScans ==
  ASSUME Init, ScanTyped
  PROVE  ScanInv
<1>0. tokens = <<>>
  BY DEF Init
<1>1. pos = 1 /\ phase = "between"
  BY DEF Init
<1>2. Len(line) \in Nat /\ Starts(line, Within) \subseteq 1..Len(line)
  BY ScanBasics
<1>3. pos \in 1..(Len(line) + 1)
  BY <1>1, <1>2
<1>4. Outside(line, Within, pos - 1)
  <2>1. pos - 1 = 0 /\ 0 \notin 1..Len(line)
    BY <1>1, <1>2
  <2>2. DOMAIN line = 1..Len(line)
    BY ScanBasics
  <2> QED  BY <2>1, <2>2, Zenon DEF Outside
<1>5. WordsBelow(pos) = {}
  BY <1>1, <1>2 DEF WordsBelow
<1>6. Len(tokens) = 0 /\ Cardinality({}) = 0
  BY <1>0, FS_EmptySet
<1>7. AreWords(tokens, line, Within, WordsBelow(pos))
  BY <1>5, <1>6 DEF AreWords
<1>8. quote = "" /\ Within[1] = ""
  BY ScanBasics DEF Init
<1> QED  BY <1>1, <1>3, <1>4, <1>7, <1>8, Zenon DEF ScanInv, BetweenWords

(* One symbol of a word is read: it is the token's unless it delimits. *)
LEMMA SymbolRead ==
  ASSUME ScanTyped, ScanInv, phase = "token", ~AtEnd, ~Outside(line, Within, pos),
         UNCHANGED <<line, tokens, phase>>, pos' = pos + 1, quote' = Within[pos + 1],
         token' = IF Within[pos] = Within[pos + 1] THEN Append(token, line[pos]) ELSE token
  PROVE  ScanInv'
<1>1. /\ Len(line) \in Nat /\ Starts(line, Within) \subseteq 1..Len(line)
      /\ \A j \in 1..Len(line) : line[j] \in Symbols
  BY ScanBasics
<1>2. pos \in 1..Len(line) /\ pos' \in 1..(Len(line) + 1) /\ line[pos] \in Symbols
  BY <1>1 DEF ScanInv, AtEnd
<1>3. Within' = Within
  BY DEF Within
<1>4. PICK k \in Starts(line, Within) : InsideWord(k)
  BY Zenon DEF ScanInv
<1>5. k \in 1..Len(line) /\ k <= pos
  BY <1>1, <1>4 DEF InsideWord
<1>6. \A m \in k..(pos' - 1) : ~Outside(line, Within, m)
  <2>1. \A m \in k..(pos' - 1) : m = pos \/ m \in k..(pos - 1)
    BY <1>2, <1>5
  <2> QED  BY <1>4, <2>1, Zenon DEF InsideWord
<1>7. Spells(token', line, LettersBelow(k, pos'))
  <2> DEFINE read == LettersBelow(k, pos)
  <2>1. read \subseteq Nat /\ \A j \in read : j < pos
    BY <1>2, <1>5 DEF LettersBelow
  <2>2. Spells(token, line, read) /\ token \in Seq(Symbols)
    BY <1>4 DEF InsideWord, ScanTyped
  <2>3. LettersBelow(k, pos') = IF Within[pos] = Within[pos + 1] THEN read \cup {pos} ELSE read
    <3>1. k..(pos' - 1) = (k..(pos - 1)) \cup {pos}
      BY <1>2, <1>5
    <3> QED  BY <3>1 DEF LettersBelow
  <2> HIDE DEF read
  <2>4. CASE Within[pos] = Within[pos + 1]
    <3>1. pos \in Nat
      BY <1>2
    <3>2. Spells(Append(token, line[pos]), line, read \cup {pos})
      BY ONLY <1>2, <2>1, <2>2, <3>1, SpellsMore
    <3> QED  BY <2>3, <2>4, <3>2
  <2>5. CASE Within[pos] # Within[pos + 1]
    BY <2>2, <2>3, <2>5
  <2> QED  BY <2>4, <2>5
<1>8. k <= pos'
  BY <1>2, <1>5
<1>9. /\ WordsBelow(k)' = WordsBelow(k) /\ Starts(line, Within)' = Starts(line, Within)
      /\ LettersBelow(k, pos)' = LettersBelow(k, pos')
  BY <1>3 DEF WordsBelow, LettersBelow
<1>10. InsideWord(k)'
  BY <1>3, <1>4, <1>6, <1>7, <1>8, <1>9 DEF InsideWord
<1>11. \E j \in Starts(line, Within)' : InsideWord(j)'
  BY <1>9, <1>10
<1> QED  BY <1>2, <1>3, <1>11 DEF ScanInv

LEMMA SkipBlankScans ==
  ASSUME ScanTyped, ScanInv, SkipBlank
  PROVE  ScanInv'
<1>1. /\ phase = "between" /\ phase' = "between" /\ ~AtEnd /\ line[pos] = Space /\ pos' = pos + 1
      /\ UNCHANGED <<line, tokens, quote>>
  BY DEF SkipBlank, Blank
<1>2. quote = "" /\ quote = Within[pos] /\ AreWords(tokens, line, Within, WordsBelow(pos))
  BY <1>1 DEF ScanInv, BetweenWords
<1>3. /\ Len(line) \in Nat /\ Starts(line, Within) \subseteq 1..Len(line)
      /\ \A k \in 1..Len(line) : Within[k + 1] = QuoteAfter(Within[k], line[k])
  BY ScanBasics
<1>4. pos \in 1..Len(line) /\ pos' \in 1..(Len(line) + 1) /\ pos' - 1 = pos
  BY <1>1, <1>3 DEF ScanInv, AtEnd
<1>5. Within[pos + 1] = ""
  <2>1. Space \notin Quotes
    BY DEF Space, Quotes
  <2> QED  BY <1>1, <1>2, <1>3, <1>4, <2>1, QuoteAfterLemma
<1>6. Outside(line, Within, pos)
  BY <1>1, <1>2 DEF Outside
<1>7. WordsBelow(pos') = WordsBelow(pos)
  <2>1. pos \notin Starts(line, Within)
    BY <1>6 DEF Starts
  <2>2. \A k \in 1..Len(line) : k < pos + 1 <=> k < pos \/ k = pos
    BY <1>3, <1>4
  <2> QED  BY <1>1, <1>3, <2>1, <2>2 DEF WordsBelow
<1>8. Within' = Within /\ WordsBelow(pos)' = WordsBelow(pos')
  BY <1>1 DEF Within, WordsBelow
<1>9. BetweenWords'
  BY <1>1, <1>2, <1>4, <1>6, <1>7, <1>8 DEF BetweenWords
<1> QED  BY <1>1, <1>2, <1>4, <1>5, <1>8, <1>9 DEF ScanInv

LEMMA StartTokenScans ==
  ASSUME ScanTyped, ScanInv, StartToken
  PROVE  ScanInv'
<1>0. token' = <<>>
  BY DEF StartToken
<1>1. /\ phase = "between" /\ phase' = "token" /\ ~AtEnd /\ line[pos] # Space
      /\ UNCHANGED <<line, pos, tokens>>
  BY DEF StartToken, Blank
<1>2. /\ quote = Within[pos] /\ quote = "" /\ AreWords(tokens, line, Within, WordsBelow(pos))
      /\ Outside(line, Within, pos - 1) \/ Outside(line, Within, pos)
  BY <1>1 DEF ScanInv, BetweenWords
<1>3. Len(line) \in Nat
  BY ScanBasics
<1>4. pos \in 1..Len(line) /\ pos \in 1..(Len(line) + 1)
  BY <1>1, <1>3 DEF ScanInv, AtEnd
<1>5. pos \in Starts(line, Within)
  <2>1. pos \in DOMAIN line
    BY <1>4, ScanBasics
  <2> QED  BY <1>1, <1>2, <2>1, Zenon DEF Starts, Outside
<1>6. Within' = Within /\ WordsBelow(pos)' = WordsBelow(pos) /\ Starts(line, Within)' = Starts(line, Within)
  BY <1>1 DEF Within, WordsBelow
<1>7. LettersBelow(pos, pos)' = {}
  <2>1. pos..(pos - 1) = {}
    BY <1>4
  <2> QED  BY <1>1, <2>1 DEF LettersBelow
<1>8. Spells(token', line, {})
  <2>1. Len(<<>>) = 0 /\ Cardinality({}) = 0
    BY FS_EmptySet
  <2> QED  BY <1>0, <2>1 DEF Spells
<1>9. \A m \in pos..(pos - 1) : FALSE
  BY <1>4
<1>10. pos <= pos
  BY <1>4
<1>11. InsideWord(pos)'
  BY <1>1, <1>2, <1>6, <1>7, <1>8, <1>9, <1>10 DEF InsideWord
<1>12. \E k \in Starts(line, Within)' : InsideWord(k)'
  BY <1>1, <1>5, <1>6, <1>11
<1>13. quote' = ""
  BY DEF StartToken
<1> QED  BY <1>1, <1>2, <1>4, <1>6, <1>12, <1>13, Zenon DEF ScanInv

LEMMA QuoteAndTakeScan ==
  ASSUME ScanTyped, ScanInv, CloseQuote \/ OpenQuote \/ TakeSymbol
  PROVE  ScanInv'
<1>1. phase = "token" /\ ~AtEnd /\ pos' = pos + 1 /\ UNCHANGED <<line, tokens, phase>>
  BY DEF CloseQuote, OpenQuote, TakeSymbol
<1>2. /\ quote = Within[pos] /\ Len(line) \in Nat
      /\ \A k \in 1..Len(line) : Within[k + 1] = QuoteAfter(Within[k], line[k])
  BY ScanBasics DEF ScanInv
<1>3. pos \in 1..Len(line)
  BY <1>1, <1>2 DEF ScanInv, AtEnd
<1>4. Within[pos + 1] = QuoteAfter(quote, line[pos]) /\ pos \in DOMAIN line
  BY <1>2, <1>3, ScanBasics
<1>5. CASE CloseQuote
  <2>1. quote # "" /\ line[pos] = quote /\ quote' = "" /\ token' = token
    BY <1>5 DEF CloseQuote
  <2>2. Within[pos + 1] = "" /\ Within[pos] # "" /\ ~Outside(line, Within, pos)
    BY <1>2, <1>4, <2>1, QuoteAfterLemma DEF Outside
  <2> QED  BY <1>1, <2>1, <2>2, SymbolRead
<1>6. CASE OpenQuote
  <2>1. quote = "" /\ line[pos] \in Quotes /\ quote' = line[pos] /\ token' = token
    BY <1>6 DEF OpenQuote
  <2>2. Within[pos + 1] = line[pos] /\ line[pos] # "" /\ line[pos] # Space
    BY <1>4, <2>1, QuoteAfterLemma
  <2>3. ~Outside(line, Within, pos) /\ Within[pos] # Within[pos + 1]
    BY <1>2, <1>4, <2>1, <2>2 DEF Outside
  <2> QED  BY <1>1, <2>1, <2>2, <2>3, SymbolRead
<1>7. CASE TakeSymbol
  <2>1. Literal /\ token' = Append(token, line[pos]) /\ quote' = quote
    BY <1>7 DEF TakeSymbol
  <2>2. CASE quote = ""
    <3>1. line[pos] # Space /\ line[pos] \notin Quotes
      BY <2>1, <2>2 DEF Literal, Blank
    <3>2. ~Outside(line, Within, pos) /\ Within[pos + 1] = ""
      BY <1>4, <2>2, <3>1, QuoteAfterLemma DEF Outside
    <3> QED  BY <1>1, <1>2, <2>1, <2>2, <3>2, SymbolRead
  <2>3. CASE quote # ""
    <3>1. line[pos] # quote
      BY <2>1, <2>3 DEF Literal
    <3>2. ~Outside(line, Within, pos) /\ Within[pos + 1] = quote
      BY <1>2, <1>4, <2>3, <3>1, QuoteAfterLemma DEF Outside
    <3> QED  BY <1>1, <1>2, <2>1, <3>2, SymbolRead
  <2> QED  BY <2>2, <2>3
<1> QED  BY <1>5, <1>6, <1>7

LEMMA EndTokenScans ==
  ASSUME ScanTyped, ScanInv, EndToken
  PROVE  ScanInv'
<1>1. /\ phase = "token" /\ phase' = "between" /\ quote = "" /\ (~AtEnd => line[pos] = Space)
      /\ UNCHANGED <<line, pos, quote>>
  BY DEF EndToken, Blank
<1>2. /\ Len(line) \in Nat /\ Starts(line, Within) \subseteq 1..Len(line)
      /\ \A n : WordsBelow(n) \subseteq Nat
  BY ScanBasics
<1>3. pos \in 1..(Len(line) + 1) /\ quote = Within[pos]
  BY DEF ScanInv
<1>4. Outside(line, Within, pos)
  <2>1. DOMAIN line = 1..Len(line)
    BY ScanBasics
  <2>2. AtEnd => pos \notin DOMAIN line
    BY <2>1, <1>2, <1>3 DEF AtEnd
  <2> QED  BY <1>1, <1>3, <2>2, Zenon DEF Outside
<1>5. PICK k \in Starts(line, Within) : InsideWord(k)
  BY <1>1, Zenon DEF ScanInv
<1>6. ~Outside(line, Within, k) /\ k \in 1..Len(line) /\ k <= pos
  BY <1>2, <1>5 DEF Starts, InsideWord
<1>7. k < pos
  <2>1. k # pos
    BY <1>4, <1>6
  <2> QED  BY <1>3, <1>6, <2>1
<1>8. \A m \in k..(pos - 1) : ~Outside(line, Within, m)
  BY <1>5 DEF InsideWord
<1>9. Letters(line, Within, k) = LettersBelow(k, pos)
  <2>1. ASSUME NEW j \in Letters(line, Within, k)
        PROVE  j \in LettersBelow(k, pos)
    <3>1. j \in k..Len(line) /\ (\A m \in k..j : ~Outside(line, Within, m)) /\ Within[j] = Within[j + 1]
      BY DEF Letters
    <3>2. pos \notin k..j
      BY <1>4, <3>1
    <3>3. j \in k..(pos - 1)
      BY <1>2, <1>3, <1>6, <3>1, <3>2
    <3> QED  BY <3>1, <3>3 DEF LettersBelow
  <2>2. ASSUME NEW j \in LettersBelow(k, pos)
        PROVE  j \in Letters(line, Within, k)
    <3>1. j \in k..(pos - 1) /\ Within[j] = Within[j + 1]
      BY DEF LettersBelow
    <3>2. j \in k..Len(line) /\ \A m \in k..j : m \in k..(pos - 1)
      BY <1>2, <1>3, <1>6, <3>1
    <3> QED  BY <1>8, <3>1, <3>2 DEF Letters
  <2> QED  BY <2>1, <2>2
<1>10. WordsBelow(pos) = WordsBelow(k) \cup {k}
  <2>1. ASSUME NEW j \in Starts(line, Within), j < pos
        PROVE  j < k \/ j = k
    <3> SUFFICES ASSUME j > k PROVE FALSE
      BY <1>2, <1>6
    <3>1. j - 1 \in k..(pos - 1)
      BY <1>2, <1>3, <1>6, <2>1
    <3>2. Outside(line, Within, j - 1)
      BY DEF Starts
    <3> QED  BY <1>8, <3>1, <3>2
  <2>2. \A j \in Starts(line, Within) : j < k => j < pos
    BY <1>2, <1>3, <1>6, <1>7
  <2> QED  BY <1>5, <1>7, <2>1, <2>2 DEF WordsBelow
<1>11. AreWords(Append(tokens, token), line, Within, WordsBelow(pos))
  <2>1. /\ tokens \in Seq(Seq(Symbols)) /\ token \in Seq(Symbols) /\ k \in Nat
        /\ WordsBelow(k) \subseteq Nat /\ \A j \in WordsBelow(k) : j < k
    BY <1>2, <1>6 DEF ScanTyped, WordsBelow
  <2>2. AreWords(tokens, line, Within, WordsBelow(k)) /\ Spells(token, line, Letters(line, Within, k))
    BY <1>5, <1>9 DEF InsideWord
  <2>3. AreWords(Append(tokens, token), line, Within, WordsBelow(k) \cup {k})
    BY <2>1, <2>2, WordsMore
  <2> QED  BY <1>10, <2>3
<1>12. Within' = Within /\ WordsBelow(pos)' = WordsBelow(pos)
  BY <1>1 DEF Within, WordsBelow
<1>13. BetweenWords'
  <2>1. tokens' = Append(tokens, token)
    BY DEF EndToken
  <2> QED  BY <1>1, <2>1, <1>4, <1>11, <1>12 DEF BetweenWords
<1> QED  BY <1>1, <1>3, <1>12, <1>13 DEF ScanInv

LEMMA NextScans ==
  ASSUME ScanTyped, ScanInv, [Next]_vars
  PROVE  ScanInv'
<1>1. CASE SkipBlank
  BY <1>1, SkipBlankScans
<1>2. CASE StartToken
  BY <1>2, StartTokenScans
<1>3. CASE CloseQuote \/ OpenQuote \/ TakeSymbol
  BY <1>3, QuoteAndTakeScan
<1>4. CASE EndToken
  BY <1>4, EndTokenScans
<1>5. ASSUME UNCHANGED <<line, scanVars>>, phase' \notin {"between", "token"}
      PROVE  ScanInv'
  <2>1. line' = line /\ pos' = pos /\ quote' = quote /\ Within' = Within
    BY <1>5 DEF scanVars, Within
  <2> QED  BY <1>5, <2>1 DEF ScanInv
<1>6. CASE Unterminated \/ NotAllowed \/ IterateThrows
  BY <1>5, <1>6 DEF Unterminated, NotAllowed, IterateThrows, Reject
<1>7. CASE Dispatch \/ Iterate
  BY <1>5, <1>7 DEF Dispatch, Iterate
<1>8. CASE EndLoop \/ ParsePositions
  <2>1. Reject \/ \E args : Accept(args)
    BY <1>8, Zenon DEF EndLoop, ParsePositions
  <2> QED  BY <1>5, <2>1 DEF Reject, Accept
<1>9. CASE UNCHANGED vars
  <2>1. /\ UNCHANGED <<line, pos, token, quote, tokens, phase>> /\ Within' = Within
        /\ \A n : WordsBelow(n)' = WordsBelow(n)
        /\ \A k, n : LettersBelow(k, n)' = LettersBelow(k, n)
    BY <1>9 DEF vars, scanVars, Within, WordsBelow, LettersBelow
  <2>2. BetweenWords' = BetweenWords /\ \A k : InsideWord(k)' = InsideWord(k)
    BY <2>1 DEF BetweenWords, InsideWord
  <2> QED  BY <2>1, <2>2 DEF ScanInv
<1> QED  BY <1>1, <1>2, <1>3, <1>4, <1>6, <1>7, <1>8, <1>9 DEF Next

(* tokenize() yields the words of a line of any length, whatever its quotes  *)
(* do, and refuses exactly the lines that end inside quotes.                 *)
THEOREM AlwaysTokensAreTheWords == Spec => []TokensAreTheWords
<1>1. Init => ScanInv /\ ScanTyped
  BY InitValid, InitScans DEF ValidatorInv
<1>2. ScanTyped /\ ScanInv /\ [Next]_vars => ScanInv'
  BY NextScans
<1>3. ValidatorInv => ScanTyped
  BY DEF ValidatorInv
<1>4. ScanTyped /\ ScanInv => TokensAreTheWords
  <2> SUFFICES ASSUME ScanTyped, ScanInv, AtEnd
               PROVE  LET unterminated == Within[Len(line) + 1] # ""
                      IN  /\ phase = "between" =>
                               ~unterminated /\ AreWords(tokens, line, Within, Starts(line, Within))
                          /\ phase = "rejected" => (quote # "" <=> unterminated)
    BY Zenon DEF TokensAreTheWords, Within
  <2>1. Len(line) \in Nat /\ Starts(line, Within) \subseteq 1..Len(line)
    BY ScanBasics
  <2>2. pos = Len(line) + 1 /\ quote = Within[pos]
    BY <2>1 DEF ScanInv, AtEnd
  <2>3. WordsBelow(pos) = Starts(line, Within)
    <3>1. \A k \in 1..Len(line) : k < pos
      BY <2>1, <2>2
    <3> QED  BY <2>1, <3>1 DEF WordsBelow
  <2>4. phase = "between" => quote = "" /\ AreWords(tokens, line, Within, WordsBelow(pos))
    BY DEF ScanInv, BetweenWords
  <2> QED  BY <2>2, <2>3, <2>4
<1> QED  BY <1>1, <1>2, <1>3, <1>4, ValidatorInvariant, PTL DEF Spec

=============================================================================
