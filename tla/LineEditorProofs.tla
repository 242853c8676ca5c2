---------------------------- MODULE LineEditorProofs ----------------------------
(***************************************************************************)
(* Proofs about LineEditor for every width of the terminal, every prompt,  *)
(* everything that can be typed, pasted or filled in, and lines, histories *)
(* and outputs of every length: the screen shows the line, and its cursor  *)
(* stands where the next key edits it, each with the exceptions that the   *)
(* history variables name.                                                 *)
(***************************************************************************)
EXTENDS LineEditor, SequenceTheorems, TLAPS

-----------------------------------------------------------------------------
(* Max and Min of two, as the editor clamps with them. *)

LEMMA MaxOfTwo ==
  ASSUME NEW a \in Int, NEW b \in Int
  PROVE  Max({a, b}) = IF a >= b THEN a ELSE b
BY SMT DEF Max

LEMMA MinOfTwo ==
  ASSUME NEW a \in Int, NEW b \in Int
  PROVE  Min({a, b}) = IF a <= b THEN a ELSE b
BY SMT DEF Min

LEMMA WithinLemma ==
  ASSUME NEW n \in Int, NEW low \in Int, NEW high \in Int, low <= high
  PROVE  /\ Within(n, low, high) \in low..high
         /\ n \in low..high => Within(n, low, high) = n
         /\ n > high => Within(n, low, high) = high
<1>1. Min({high, n}) = IF high <= n THEN high ELSE n
  BY MinOfTwo
<1>2. Min({high, n}) \in Int
  BY <1>1
<1>3. Within(n, low, high) = IF low >= Min({high, n}) THEN low ELSE Min({high, n})
  BY <1>2, MaxOfTwo DEF Within
<1> QED  BY <1>1, <1>3

-----------------------------------------------------------------------------
(* Rows and columns: a * Cols + c with c in 1..Cols says both. *)

LEMMA RowsLemma ==
  ASSUME NEW a \in Int, NEW b \in Int
  PROVE  /\ a * Cols \in Int
         /\ (a + b) * Cols = a * Cols + b * Cols
         /\ a <= b => a * Cols <= b * Cols
         /\ a < b => a * Cols + Cols <= b * Cols
<1>1. (a + b) * Cols = a * Cols + b * Cols
  BY LineEditorAssumption
<1>2. a <= b => a * Cols <= b * Cols
  BY LineEditorAssumption, Z3
<1>3. a < b => a * Cols + Cols <= b * Cols
  BY LineEditorAssumption, Z3
<1> QED  BY <1>1, <1>2, <1>3, LineEditorAssumption

LEMMA OffsetLemma ==
  ASSUME NEW r \in Nat \ {0}
  PROVE  /\ (r - 1) * Cols \in Nat /\ r * Cols \in Nat
         /\ (r - 1) * Cols + Cols = r * Cols
<1>1. Cols \in Nat
  BY LineEditorAssumption
<1>2. r - 1 \in Nat
  OBVIOUS
<1>3. (r - 1) * Cols \in Nat /\ r * Cols \in Nat
  BY <1>1, <1>2
<1>4. ((r - 1) + 1) * Cols = (r - 1) * Cols + 1 * Cols
  BY <1>2, RowsLemma
<1> QED  BY <1>1, <1>3, <1>4

LEMMA CellUnique ==
  ASSUME NEW a \in Int, NEW b \in Int, NEW c \in 1..Cols, NEW d \in 1..Cols,
         a * Cols + c = b * Cols + d
  PROVE  a = b /\ c = d
<1>1. Cols \in Nat /\ a * Cols \in Int /\ b * Cols \in Int
  BY LineEditorAssumption, RowsLemma
<1>2. ~(a < b)
  BY <1>1, RowsLemma
<1>3. ~(b < a)
  BY <1>1, RowsLemma
<1> QED  BY <1>1, <1>2, <1>3

(* The row of the n-th cell, counted from 0, and its column, counted from 1. *)
LEMMA RowOfCell ==
  ASSUME NEW n \in Nat \ {0}
  PROVE  /\ (n - 1) \div Cols \in Nat
         /\ n - ((n - 1) \div Cols) * Cols \in 1..Cols
<1>1. n - 1 \in Nat /\ Cols \in Nat \ {0}
  BY LineEditorAssumption
<1>2. /\ (n - 1) \div Cols \in Nat
      /\ ((n - 1) \div Cols) * Cols <= n - 1
      /\ n - 1 < ((n - 1) \div Cols) * Cols + Cols
  BY <1>1, SMT
<1>3. ((n - 1) \div Cols) * Cols \in Int
  BY <1>2, RowsLemma
<1> QED  BY <1>1, <1>2, <1>3

LEMMA PromptTyped ==
  Prompt \in Seq(Symbols) /\ Len(Prompt) \in Nat \ {0}
<1>1. Prompt \in Seq(Symbols) /\ Len(Prompt) > 0
  BY LineEditorAssumption DEF Texts
<1> QED  BY <1>1, LenProperties

LEMMA PlaceLemma ==
  ASSUME NEW pos \in Nat
  PROVE  /\ Place(pos).row \in Nat
         /\ Place(pos).col \in 1..Cols
         /\ Place(pos).row * Cols + Place(pos).col = Len(Prompt) + pos
         /\ Place(pos).row = (Len(Prompt) + pos - 1) \div Cols
<1> DEFINE n == Len(Prompt) + pos
           row == (n - 1) \div Cols
<1>1. n \in Nat \ {0}
  BY PromptTyped
<1>2. row \in Nat /\ n - row * Cols \in 1..Cols
  BY <1>1, RowOfCell
<1>3. row * Cols \in Int
  BY <1>2, RowsLemma
<1>4. Place(pos) = [row |-> row, col |-> n - row * Cols]
  BY <1>1 DEF Place, RowColOf
<1> HIDE DEF row
<1>5. row * Cols + (n - row * Cols) = n
  BY <1>1, <1>3
<1> QED  BY <1>2, <1>4, <1>5 DEF row

LEMMA PlaceMonotone ==
  ASSUME NEW p \in Nat, NEW q \in Nat, p <= q
  PROVE  Place(p).row <= Place(q).row
<1> DEFINE a == Place(p).row
           b == Place(q).row
           c == Place(p).col
           d == Place(q).col
<1>1. /\ a \in Nat /\ c \in 1..Cols /\ a * Cols + c = Len(Prompt) + p
      /\ b \in Nat /\ d \in 1..Cols /\ b * Cols + d = Len(Prompt) + q
  BY PlaceLemma
<1> HIDE DEF a, b, c, d
<1>2. Cols \in Nat /\ Len(Prompt) \in Nat /\ a * Cols \in Int /\ b * Cols \in Int
  BY <1>1, PromptTyped, LineEditorAssumption, RowsLemma
<1>3. ~(b < a)
  BY <1>1, <1>2, RowsLemma
<1>4. a <= b
  BY <1>1, <1>3
<1> QED  BY <1>4 DEF a, b
-----------------------------------------------------------------------------
(* The screen, and what each of its operations keeps. *)

IsScreen(t) ==
  /\ t = [height |-> t.height, row |-> t.row, col |-> t.col, cells |-> t.cells]
  /\ t.height \in Nat \ {0} /\ t.row \in 1..t.height /\ t.col \in 0..Cols
  /\ DOMAIN t.cells = 1..t.height * Cols

(* The first row is output, the cursor is in the next, and there are no      *)
(* others, unless left.                                                      *)
FreshLine(t, left) ==
  /\ IsScreen(t) /\ t.row = 2
  /\ \A i \in 1..Cols : t.cells[i] = "output"
  /\ left \/ t.height = 2

LEMMA BannerIsScreen == IsScreen(Banner) /\ Banner.row = Banner.height
BY LineEditorAssumption DEF IsScreen, Banner

LEMMA NewLineLemma ==
  ASSUME NEW t, IsScreen(t), NEW left, left \/ t.row = t.height
  PROVE  FreshLine(NewLine(t), left)
<1> DEFINE height == Max({2, t.height - t.row + 1})
<1>1. /\ t.height \in Nat \ {0} /\ t.row \in 1..t.height
      /\ t.height - t.row + 1 \in Int
  BY DEF IsScreen
<1>2. height \in Nat /\ height >= 2 /\ (t.row = t.height => height = 2)
  BY <1>1, MaxOfTwo
<1> HIDE DEF height
<1> DEFINE cells == [i \in 1..height * Cols |->
                       IF i <= Cols THEN "output" ELSE At(t, i + (t.row - 1) * Cols)]
<1>3. NewLine(t) = [height |-> height, row |-> 2, col |-> 0, cells |-> cells]
  BY Zenon DEF NewLine, height
<1>4. Cols \in Nat \ {0} /\ height * Cols \in Int /\ 2 * Cols <= height * Cols
  BY <1>2, RowsLemma, LineEditorAssumption
<1>5. \A i \in 1..Cols : i \in 1..height * Cols /\ cells[i] = "output"
  BY <1>4
<1>6. DOMAIN cells = 1..height * Cols
  OBVIOUS
<1> HIDE DEF cells
<1>7. IsScreen(NewLine(t))
  BY <1>2, <1>3, <1>4, <1>6 DEF IsScreen
<1> QED  BY <1>2, <1>3, <1>5, <1>7 DEF FreshLine

(* A text written after from cells. *)
Wrote(t, from, text, w) ==
  /\ IsScreen(w)
  /\ w.height >= t.height
  /\ w.height = t.height \/ w.height = w.row
  /\ w.col \in 1..Cols
  /\ (w.row - 1) * Cols + w.col = from + Len(text)
  /\ \A i \in 1..w.height * Cols :
       IF i \in (from + 1)..(from + Len(text))
       THEN w.cells[i] = text[i - from] ELSE w.cells[i] = At(t, i)

LEMMA WriteLemma ==
  ASSUME NEW t, IsScreen(t), NEW text, Len(text) \in Nat \ {0}, text # <<>>,
         NEW w, w = Write(t, text), NEW from, from = (t.row - 1) * Cols + t.col
  PROVE  Wrote(t, from, text, w)
<1> DEFINE to == from + Len(text)
           row == (to - 1) \div Cols + 1
           height == Max({t.height, row})
           cells == [i \in 1..height * Cols |->
                       IF i \in (from + 1)..to THEN text[i - from] ELSE At(t, i)]
<1>1. /\ t.height \in Nat \ {0} /\ t.row \in 1..t.height /\ t.col \in 0..Cols
      /\ Cols \in Nat \ {0} /\ Len(text) \in Nat \ {0}
  BY LineEditorAssumption DEF IsScreen
<1>2. (t.row - 1) * Cols \in Nat
  <2>1. t.row \in Nat \ {0}
    BY <1>1
  <2> QED  BY <2>1, OffsetLemma, Zenon
<1>3. from \in Nat /\ to \in Nat \ {0}
  <2> DEFINE before == (t.row - 1) * Cols
  <2>1. before \in Nat
    BY <1>2
  <2> HIDE DEF before
  <2>2. before + t.col \in Nat
    BY <1>1, <2>1
  <2>3. from \in Nat
    BY <2>2, Zenon DEF before
  <2> QED  BY <1>1, <2>3
<1>4. w = [height |-> height, row |-> row, col |-> to - (row - 1) * Cols, cells |-> cells]
  BY Zenon DEF Write
<1> HIDE DEF cells, height
<1>5. row \in Nat \ {0} /\ to - (row - 1) * Cols \in 1..Cols
  <2> DEFINE q == (to - 1) \div Cols
  <2>1. q \in Nat /\ to - q * Cols \in 1..Cols
    BY <1>3, RowOfCell
  <2> HIDE DEF q
  <2>2. row = q + 1
    BY DEF q
  <2> HIDE DEF row
  <2>3. row - 1 = q
    BY <2>1, <2>2
  <2>4. row \in Nat \ {0}
    BY <2>1, <2>2
  <2>5. to - (row - 1) * Cols \in 1..Cols
    BY <2>1, <2>3, Zenon
  <2> QED  BY <2>4, <2>5
<1> HIDE DEF row, to
<1>6. row \in Nat \ {0} /\ (row - 1) * Cols \in Int
  BY <1>5, OffsetLemma
<1>7. height \in Nat /\ height >= t.height /\ height >= row /\ (height = t.height \/ height = row)
  BY <1>1, <1>6, MaxOfTwo, SMTT(30) DEF height
<1>8. (row - 1) * Cols + (to - (row - 1) * Cols) = to
  BY <1>3, <1>6
<1>9. DOMAIN cells = 1..height * Cols
  BY DEF cells
<1>10. /\ w.height = height /\ w.row = row /\ w.col = to - (row - 1) * Cols /\ w.cells = cells
       /\ w = [height |-> w.height, row |-> w.row, col |-> w.col, cells |-> w.cells]
  BY <1>4
<1>11. IsScreen(w)
  BY <1>1, <1>5, <1>6, <1>7, <1>9, <1>10, SMTT(30) DEF IsScreen
<1>12. \A i \in 1..height * Cols :
         IF i \in (from + 1)..to THEN cells[i] = text[i - from] ELSE cells[i] = At(t, i)
  BY DEF cells
<1>13. (w.row - 1) * Cols + w.col = to
  BY <1>8, <1>10
<1> QED  BY <1>3, <1>5, <1>7, <1>10, <1>11, <1>12, <1>13 DEF to, Wrote

(* Rows and columns further, as far as the screen goes. *)
WentDown(t, n, v) ==
  /\ IsScreen(v) /\ v.height = t.height /\ v.cells = t.cells
  /\ t.row + n \in 1..t.height => v.row = t.row + n
  /\ n = 0 => v = t
  /\ t.col < Cols => v.col = t.col

WentAlong(t, n, h) ==
  /\ IsScreen(h) /\ h.height = t.height /\ h.cells = t.cells /\ h.row = t.row
  /\ n = 0 => h = t
  /\ t.col < Cols /\ t.col + n \in 0..(Cols - 1) => h.col = t.col + n
  /\ t.col < Cols /\ t.col + n = Cols => h.col \in {Cols - 1, Cols}

LEMMA VerticalLemma ==
  ASSUME NEW t, IsScreen(t), NEW n \in Int, NEW v, v = Vertical(t, n)
  PROVE  WentDown(t, n, v)
<1>1. CASE n = 0
  BY <1>1 DEF Vertical, IsScreen, WentDown
<1>2. CASE n # 0
  <2> DEFINE row == Within(t.row + n, 1, t.height)
             col == Min({t.col, Cols - 1})
  <2>1. /\ t.height \in Nat \ {0} /\ t.row \in 1..t.height /\ t.col \in 0..Cols
        /\ Cols \in Nat \ {0}
    BY LineEditorAssumption DEF IsScreen
  <2>2. v = [t EXCEPT !.row = row, !.col = col]
    BY <1>2, Zenon DEF Vertical
  <2>3. v = [height |-> t.height, row |-> row, col |-> col, cells |-> t.cells]
    <3> HIDE DEF row, col
    <3> QED  BY <2>2 DEF IsScreen
  <2>4. row \in 1..t.height /\ (t.row + n \in 1..t.height => row = t.row + n)
    <3>1. t.row + n \in Int /\ 1 \in Int /\ t.height \in Int /\ 1 <= t.height
      BY <2>1
    <3> QED  BY <3>1, WithinLemma, Zenon
  <2>5. col \in 0..Cols /\ (t.col < Cols => col = t.col)
    BY <2>1, MinOfTwo
  <2> HIDE DEF row, col
  <2>6. IsScreen(v)
    BY <2>3, <2>4, <2>5 DEF IsScreen
  <2> QED  BY <1>2, <2>3, <2>4, <2>5, <2>6 DEF WentDown
<1> QED  BY <1>1, <1>2

LEMMA HorizontalLemma ==
  ASSUME NEW t, IsScreen(t), NEW n \in Int, NEW h, h = Horizontal(t, n)
  PROVE  WentAlong(t, n, h)
<1>1. CASE n = 0
  BY <1>1 DEF Horizontal, IsScreen, WentAlong
<1>2. CASE n # 0
  <2> DEFINE from == Min({t.col, Cols - 1})
             col == Within(from + n, 0, Cols - 1)
  <2>1. t.col \in 0..Cols /\ Cols \in Nat \ {0} /\ t.height \in Nat \ {0}
    BY LineEditorAssumption DEF IsScreen
  <2>2. h = [t EXCEPT !.col = col]
    BY <1>2, Zenon DEF Horizontal
  <2>3. h = [height |-> t.height, row |-> t.row, col |-> col, cells |-> t.cells]
    <3> HIDE DEF col
    <3> QED  BY <2>2 DEF IsScreen
  <2>4. from \in Int /\ (t.col < Cols => from = t.col)
    BY <2>1, MinOfTwo
  <2> HIDE DEF from
  <2>5. /\ col \in 0..(Cols - 1)
        /\ from + n \in 0..(Cols - 1) => col = from + n
        /\ from + n > Cols - 1 => col = Cols - 1
    <3>1. from + n \in Int /\ 0 \in Int /\ Cols - 1 \in Int /\ 0 <= Cols - 1
      BY <2>1, <2>4
    <3>2. /\ col \in 0..(Cols - 1)
          /\ from + n \in 0..(Cols - 1) => col = from + n
          /\ from + n > Cols - 1 => col = Cols - 1
      BY <3>1, WithinLemma, Zenon
    <3> QED  BY <3>2
  <2> HIDE DEF col
  <2>6. IsScreen(h)
    BY <2>1, <2>3, <2>5 DEF IsScreen
  <2> QED  BY <1>2, <2>1, <2>3, <2>4, <2>5, <2>6 DEF WentAlong
<1> QED  BY <1>1, <1>2

LEMMA ReturnLemma ==
  ASSUME NEW t, IsScreen(t), NEW r, r = Return(t)
  PROVE  /\ IsScreen(r) /\ r.height = t.height /\ r.cells = t.cells
         /\ r.row = t.row /\ r.col = 0
<1>1. r = [height |-> t.height, row |-> t.row, col |-> 0, cells |-> t.cells]
  BY DEF Return, IsScreen
<1> QED  BY <1>1, LineEditorAssumption DEF IsScreen

(* A row erased, and in the second row its cells. *)
Erased(t, e) ==
  /\ IsScreen(e) /\ e.row = t.row /\ e.col = t.col
  /\ t.row = 2 => /\ \A i \in 1..Cols : e.cells[i] = t.cells[i]
                  /\ \A i \in (Cols + 1)..(2 * Cols) : e.cells[i] = " "

LEMMA EraseRowLemma ==
  ASSUME NEW t, IsScreen(t), NEW e, e = EraseRow(t)
  PROVE  Erased(t, e) /\ e.height = t.height
<1> DEFINE cells == [i \in DOMAIN t.cells |->
                       IF i \in ((t.row - 1) * Cols + 1)..(t.row * Cols) THEN " " ELSE t.cells[i]]
<1>1. e = [height |-> t.height, row |-> t.row, col |-> t.col, cells |-> cells]
  <2>1. e = [t EXCEPT !.cells = cells]
    BY Zenon DEF EraseRow
  <2> HIDE DEF cells
  <2> QED  BY <2>1 DEF IsScreen
<1>2. DOMAIN cells = DOMAIN t.cells
  OBVIOUS
<1>3. ASSUME t.row = 2
      PROVE  \A i \in 1..(2 * Cols) : cells[i] = IF i \in (Cols + 1)..(2 * Cols) THEN " " ELSE t.cells[i]
  <2>1. (t.row - 1) * Cols = Cols /\ t.row * Cols = 2 * Cols
    BY <1>3, LineEditorAssumption
  <2>2. \A i \in 1..(2 * Cols) : i \in DOMAIN t.cells
    <3>1. /\ t.height \in Nat \ {0} /\ 2 \in Int /\ 2 <= t.height
          /\ DOMAIN t.cells = 1..t.height * Cols
      BY <1>3 DEF IsScreen
    <3>2. 2 \in Nat \ {0} /\ t.height \in Int
      BY <3>1
    <3>3. t.height * Cols \in Nat /\ 2 * Cols <= t.height * Cols /\ 2 * Cols \in Nat
      BY <3>1, <3>2, RowsLemma, OffsetLemma, Zenon
    <3> QED  BY <3>1, <3>3
  <2>3. \A i \in DOMAIN t.cells :
          cells[i] = IF i \in ((t.row - 1) * Cols + 1)..(t.row * Cols) THEN " " ELSE t.cells[i]
    OBVIOUS
  <2> HIDE DEF cells
  <2> QED  BY <2>1, <2>2, <2>3, Zenon
<1> HIDE DEF cells
<1>4. IsScreen(e)
  BY <1>1, <1>2 DEF IsScreen
<1>5. /\ e.height = t.height /\ e.row = t.row /\ e.col = t.col
      /\ e.cells = cells
  BY <1>1
<1>6. /\ \A i \in 1..Cols : i \in 1..(2 * Cols) /\ i \notin (Cols + 1)..(2 * Cols)
      /\ \A i \in (Cols + 1)..(2 * Cols) : i \in 1..(2 * Cols)
  BY LineEditorAssumption
<1> QED  BY <1>3, <1>4, <1>5, <1>6, Zenon DEF Erased

LEMMA EraseBelowLemma ==
  ASSUME NEW t, IsScreen(t), NEW e, e = EraseBelow(t)
  PROVE  Erased(t, e) /\ e.height = t.row
<1> DEFINE cells == [i \in 1..t.row * Cols |-> IF i <= (t.row - 1) * Cols THEN t.cells[i] ELSE " "]
<1>1. e = [height |-> t.row, row |-> t.row, col |-> t.col, cells |-> cells]
  <2>1. e = [t EXCEPT !.height = t.row, !.cells = cells]
    BY Zenon DEF EraseBelow
  <2> HIDE DEF cells
  <2> QED  BY <2>1 DEF IsScreen
<1>2. DOMAIN cells = 1..t.row * Cols
  OBVIOUS
<1>3. ASSUME t.row = 2
      PROVE  \A i \in 1..(2 * Cols) : cells[i] = IF i <= Cols THEN t.cells[i] ELSE " "
  <2>1. (t.row - 1) * Cols = Cols /\ t.row * Cols = 2 * Cols
    BY <1>3, LineEditorAssumption
  <2>2. \A i \in 1..t.row * Cols : cells[i] = IF i <= (t.row - 1) * Cols THEN t.cells[i] ELSE " "
    OBVIOUS
  <2> HIDE DEF cells
  <2> QED  BY <2>1, <2>2, Zenon
<1> HIDE DEF cells
<1>4. t.row \in Nat \ {0} /\ t.row \in 1..t.row
  BY DEF IsScreen
<1>5. IsScreen(e)
  BY <1>1, <1>2, <1>4 DEF IsScreen
<1>6. /\ e.height = t.row /\ e.row = t.row /\ e.col = t.col
      /\ e.cells = cells
  BY <1>1
<1>7. /\ \A i \in 1..Cols : i \in 1..(2 * Cols) /\ i <= Cols
      /\ \A i \in (Cols + 1)..(2 * Cols) : i \in 1..(2 * Cols) /\ ~(i <= Cols)
  BY LineEditorAssumption
<1> QED  BY <1>3, <1>5, <1>6, <1>7, Zenon DEF Erased

-----------------------------------------------------------------------------
(* A line on the screen. *)

LineLen(text) == Len(Prompt) + Len(text)

Displays(t, text) ==
  /\ \A i \in 1..Cols : t.cells[i] = "output"
  /\ 2 + Place(Len(text)).row <= t.height
  /\ \A n \in 1..LineLen(text) : t.cells[Cols + n] = (Prompt \o text)[n]

CursorAt(t, pos) ==
  /\ t.row = 2 + Place(pos).row
  /\ Place(pos).col - t.col \in {0} \cup (IF AtRightEdge(pos) THEN {1} ELSE {})

(* The same from the row below the first above ones, wherever that is.      *)
Drawn(t, above, text) ==
  /\ above + Place(Len(text)).row < t.height
  /\ \A n \in 1..LineLen(text) : t.cells[above * Cols + n] = (Prompt \o text)[n]

CursorFrom(t, above, pos) ==
  /\ t.row = above + 1 + Place(pos).row
  /\ Place(pos).col - t.col \in {0} \cup (IF AtRightEdge(pos) THEN {1} ELSE {})

StandsFrom(t, above, text, pos) ==
  /\ above \in Nat /\ IsScreen(t)
  /\ Drawn(t, above, text) /\ CursorFrom(t, above, pos)

Stands(t, text, pos) == \E above : StandsFrom(t, above, text, pos)

NothingBelow(t, text) ==
  /\ t.height = 2 + Place(Len(text)).row
  /\ \A n \in (LineLen(text) + 1)..(Cols * (t.height - 1)) : t.cells[Cols + n] = " "

Shows(t, text, pos, left) ==
  /\ IsScreen(t) /\ Displays(t, text) /\ CursorAt(t, pos)
  /\ left \/ NothingBelow(t, text)

(* Erased for a new line: the row of the cursor is blank. *)
Cleared(t, left) ==
  /\ FreshLine(t, left) /\ t.col = 0
  /\ \A i \in (Cols + 1)..(2 * Cols) : t.cells[i] = " "

LEMMA ErasedIsCleared ==
  ASSUME NEW r, NEW e, NEW left, Erased(r, e), r.row = 2, r.col = 0, left \/ e.height = 2,
         \A i \in 1..Cols : r.cells[i] = "output"
  PROVE  Cleared(e, left)
BY Zenon DEF Erased, Cleared, FreshLine

LEMMA ClearedByRow ==
  ASSUME NEW t, NEW left, FreshLine(t, left)
  PROVE  Cleared(EraseRow(Return(t)), left)
<1>1. /\ IsScreen(Return(t)) /\ Return(t).height = t.height /\ Return(t).row = 2
      /\ Return(t).col = 0 /\ Return(t).cells = t.cells
  BY ReturnLemma DEF FreshLine
<1>2. Erased(Return(t), EraseRow(Return(t))) /\ EraseRow(Return(t)).height = t.height
  BY <1>1, EraseRowLemma
<1>3. /\ \A i \in 1..Cols : Return(t).cells[i] = "output"
      /\ left \/ EraseRow(Return(t)).height = 2
  BY <1>1, <1>2, Zenon DEF FreshLine
<1> QED  BY <1>1, <1>2, <1>3, ErasedIsCleared

LEMMA ClearedBelow ==
  ASSUME NEW t, IsScreen(t), t.row = 2, \A i \in 1..Cols : t.cells[i] = "output", NEW left
  PROVE  Cleared(EraseBelow(Return(t)), left)
<1>1. /\ IsScreen(Return(t)) /\ Return(t).row = 2
      /\ Return(t).col = 0 /\ Return(t).cells = t.cells
  BY ReturnLemma
<1>2. Erased(Return(t), EraseBelow(Return(t))) /\ EraseBelow(Return(t)).height = 2
  BY <1>1, EraseBelowLemma
<1>3. \A i \in 1..Cols : Return(t).cells[i] = "output"
  BY <1>1, Zenon
<1> QED  BY <1>1, <1>2, <1>3, ErasedIsCleared

LEMMA LineLemma ==
  ASSUME NEW text \in Seq(Symbols)
  PROVE  /\ Len(text) \in Nat /\ LineLen(text) \in Nat \ {0}
         /\ Prompt \o text \in Seq(Symbols) /\ Len(Prompt \o text) = LineLen(text)
         /\ Prompt \o text # <<>>
         /\ Place(Len(text)).row \in Nat /\ Place(Len(text)).col \in 1..Cols
         /\ Place(Len(text)).row * Cols + Place(Len(text)).col = LineLen(text)
<1>1. Len(text) \in Nat /\ LineLen(text) \in Nat \ {0}
  BY PromptTyped, LenProperties DEF LineLen
<1>2. Prompt \o text \in Seq(Symbols) /\ Len(Prompt \o text) = LineLen(text)
  BY PromptTyped, ConcatProperties, Zenon DEF LineLen
<1>3. Prompt \o text # <<>>
  BY <1>1, <1>2, EmptySeq
<1> QED  BY <1>1, <1>2, <1>3, PlaceLemma DEF LineLen

(* The rows of a screen, and where they end. *)
LEMMA ScreenLemma ==
  ASSUME NEW t, IsScreen(t)
  PROVE  /\ t.height \in Nat \ {0} /\ t.row \in Nat \ {0} /\ t.row <= t.height
         /\ t.col \in 0..Cols /\ DOMAIN t.cells = 1..t.height * Cols
         /\ t.height * Cols \in Nat
         /\ \A row \in Nat \ {0} :
              row <= t.height => row * Cols \in Nat /\ row * Cols <= t.height * Cols
<1>1. /\ t.height \in Nat \ {0} /\ t.row \in Nat \ {0} /\ t.row <= t.height
      /\ t.col \in 0..Cols /\ DOMAIN t.cells = 1..t.height * Cols
  BY DEF IsScreen
<1>2. t.height * Cols \in Nat
  BY <1>1, OffsetLemma, Zenon
<1>3. ASSUME NEW row \in Nat \ {0}, row <= t.height
      PROVE  row * Cols \in Nat /\ row * Cols <= t.height * Cols
  <2>1. row \in Int /\ t.height \in Int
    BY <1>1
  <2> QED  BY <1>3, <2>1, RowsLemma, OffsetLemma, Zenon
<1> QED  BY <1>1, <1>2, <1>3

(* Where a text ends that is written behind the n-th cell of the row below   *)
(* the first above ones, if that is where the line of a cursor position ends. *)
WritesFrom(t, text, above, n, pos) ==
  /\ IsScreen(t) /\ text # <<>> /\ Len(text) \in Nat \ {0}
  /\ above \in Nat /\ n \in Nat /\ pos \in Nat
  /\ n + Len(text) = Len(Prompt) + pos
  /\ (t.row - 1) * Cols + t.col = above * Cols + n

WroteTo(t, text, w, above, n, pos) ==
  /\ Wrote(t, above * Cols + n, text, w)
  /\ w.row = above + 1 + Place(pos).row /\ w.col = Place(pos).col
  /\ above * Cols + n + Len(text) <= w.height * Cols

LEMMA WriteRows ==
  ASSUME NEW t, NEW text, NEW above, NEW n, NEW pos, WritesFrom(t, text, above, n, pos),
         NEW w, w = Write(t, text)
  PROVE  WroteTo(t, text, w, above, n, pos)
<1>1. PICK base : base = above * Cols
  OBVIOUS
<1>2. /\ IsScreen(t) /\ text # <<>> /\ Len(text) \in Nat \ {0}
       /\ above \in Nat /\ n \in Nat /\ pos \in Nat
       /\ n + Len(text) = Len(Prompt) + pos
       /\ (t.row - 1) * Cols + t.col = base + n
  BY <1>1, Zenon DEF WritesFrom
<1>3. PICK len, row, col : len = Len(text) /\ row = Place(pos).row /\ col = Place(pos).col
  OBVIOUS
<1>4. /\ len \in Nat \ {0} /\ row \in Nat /\ col \in 1..Cols /\ row * Cols + col = n + len
  BY <1>3, <1>2, PlaceLemma
<1>5. base \in Nat /\ Cols \in Nat \ {0}
  <2>1. above + 1 \in Nat \ {0} /\ (above + 1) - 1 = above
    BY <1>2
  <2> QED  BY <1>1, <2>1, OffsetLemma, LineEditorAssumption
<1>6. Wrote(t, base + n, text, w)
  <2>1. PICK from : from = (t.row - 1) * Cols + t.col
    OBVIOUS
  <2>2. Wrote(t, from, text, w)
    BY <1>2, <2>1, WriteLemma
  <2> QED  BY <1>2, <2>1, <2>2, Zenon
<1>7. IsScreen(w) /\ w.col \in 1..Cols /\ (w.row - 1) * Cols + w.col = base + n + len
  BY <1>3, <1>6, Zenon DEF Wrote
<1>8. w.row \in Nat \ {0} /\ w.row * Cols \in Nat /\ w.row * Cols <= w.height * Cols
      /\ w.height * Cols \in Nat
  BY <1>7, ScreenLemma
<1>9. PICK x, y, e : x = above + row /\ y = w.row - 1 /\ e = w.col
  OBVIOUS
<1>10. x \in Int /\ y \in Int /\ e \in 1..Cols
  BY <1>4, <1>7, <1>8, <1>9, <1>2
<1>11. x * Cols + col = y * Cols + e
  <2>1. x * Cols = base + row * Cols /\ row * Cols \in Int
    <3>1. above \in Int /\ row \in Int
      BY <1>4, <1>2
    <3>2. (above + row) * Cols = above * Cols + row * Cols /\ row * Cols \in Int
      BY <3>1, RowsLemma, Zenon
    <3> QED  BY <1>1, <1>9, <3>2, Zenon
  <2>2. x * Cols + col = base + n + len
    BY <1>4, <1>5, <1>2, <2>1
  <2> QED  BY <1>7, <1>9, <2>2, Zenon
<1>12. x = y /\ col = e
  <2>1. x = y
    BY <1>4, <1>10, <1>11, CellUnique, Zenon
  <2>2. PICK z : z = x * Cols
    OBVIOUS
  <2>3. z \in Int /\ z + col = z + e
    BY <1>10, <1>11, <2>1, <2>2, RowsLemma, Zenon
  <2>4. col \in Int /\ e \in Int
    BY <1>4, <1>10, LineEditorAssumption
  <2>5. col = e
    BY <2>3, <2>4
  <2> QED  BY <2>1, <2>5
<1>13. w.row = above + 1 + row
  BY <1>4, <1>8, <1>9, <1>12, <1>2
<1>14. base + n + len <= w.height * Cols
  <2>1. PICK a, b : a = (w.row - 1) * Cols /\ b = w.row * Cols
    OBVIOUS
  <2>2. a \in Nat /\ a + Cols = b
    BY <1>8, <2>1, OffsetLemma, Zenon
  <2>3. a + e = base + n + len /\ b <= w.height * Cols /\ b \in Nat
    BY <1>7, <1>8, <1>9, <2>1, Zenon
  <2> QED  BY <1>4, <1>5, <1>8, <1>10, <1>2, <2>2, <2>3
<1> QED  BY <1>1, <1>3, <1>6, <1>9, <1>12, <1>13, <1>14, Zenon DEF WroteTo

(* Written out, with the cursor still behind it. *)
LineOn(w, text, left) ==
  /\ IsScreen(w) /\ Displays(w, text)
  /\ w.row = 2 + Place(Len(text)).row
  /\ left \/ NothingBelow(w, text)

LEMMA WriteLine ==
  ASSUME NEW e, NEW left, Cleared(e, left), NEW text \in Seq(Symbols),
         NEW line, line = Prompt \o text, NEW w, w = Write(e, line)
  PROVE  LineOn(w, text, left)
<1>0. PICK len, row, col : /\ len = LineLen(text)
                           /\ row = Place(Len(text)).row /\ col = Place(Len(text)).col
  OBVIOUS
<1>1. /\ len \in Nat \ {0} /\ line \in Seq(Symbols) /\ line # <<>> /\ Len(line) = len
      /\ row \in Nat /\ col \in 1..Cols /\ row * Cols + col = len
  BY <1>0, LineLemma, Zenon
<1>2. /\ IsScreen(e) /\ e.row = 2 /\ e.col = 0
      /\ \A i \in 1..Cols : e.cells[i] = "output"
      /\ left \/ e.height = 2
      /\ \A i \in (Cols + 1)..(2 * Cols) : e.cells[i] = " "
  BY Zenon DEF Cleared, FreshLine
<1>3. Cols \in Nat \ {0} /\ (e.row - 1) * Cols + e.col = Cols
  <2>1. Cols \in Nat \ {0} /\ (2 - 1) * Cols + 0 = Cols
    BY LineEditorAssumption
  <2> QED  BY <1>2, <2>1, Zenon
<1>4. /\ IsScreen(w) /\ w.height >= e.height
      /\ w.height = e.height \/ w.height = w.row
      /\ w.row = 2 + row /\ Cols + len <= w.height * Cols
      /\ \A i \in 1..w.height * Cols :
           IF i \in (Cols + 1)..(Cols + len)
           THEN w.cells[i] = line[i - Cols] ELSE w.cells[i] = At(e, i)
  <2>1. 1 * Cols = Cols /\ Cols + 0 = Cols /\ {0, 1} \subseteq Nat /\ 1 + 1 = 2
    BY <1>3
  <2>2. len \in Nat \ {0} /\ Len(text) \in Nat /\ 0 + len = Len(Prompt) + Len(text)
    BY <1>0, <1>1, LineLemma DEF LineLen
  <2>3. WritesFrom(e, line, 1, 0, Len(text))
    <3>1. 0 \in Nat /\ 1 \in Nat /\ (e.row - 1) * Cols + e.col = 1 * Cols + 0
      BY <1>3, <2>1, Zenon
    <3> QED  BY <1>1, <1>2, <2>2, <3>1, Zenon DEF WritesFrom
  <2>4. WroteTo(e, line, w, 1, 0, Len(text))
    BY <2>3, WriteRows, Zenon
  <2> QED  BY <1>0, <1>1, <2>1, <2>4, Zenon DEF WroteTo, Wrote
<1>5. PICK size, old : size = w.height * Cols /\ old = e.height * Cols
  OBVIOUS
<1>6. w.row = 2 + row
  BY <1>4
<1>7. /\ size \in Nat /\ old \in Nat /\ 2 * Cols <= old /\ old <= size
      /\ w.height \in Nat \ {0} /\ e.height \in Nat \ {0} /\ 2 <= e.height /\ w.row <= w.height
      /\ DOMAIN e.cells = 1..old
      /\ \A i \in 1..size :
           IF i \in (Cols + 1)..(Cols + len)
           THEN w.cells[i] = line[i - Cols] ELSE w.cells[i] = At(e, i)
  <2>1. /\ e.height \in Nat \ {0} /\ 2 <= e.height /\ 2 \in Nat \ {0}
        /\ w.height \in Nat \ {0} /\ w.row <= w.height
    BY <1>2, <1>4, ScreenLemma
  <2>2. old \in Nat /\ 2 * Cols <= old /\ DOMAIN e.cells = 1..old
    BY <1>2, <1>5, <2>1, ScreenLemma
  <2>3. size \in Nat /\ old <= size
    BY <1>4, <1>5, <2>1, ScreenLemma
  <2> QED  BY <1>4, <1>5, <2>1, <2>2, <2>3, Zenon
<1>8. Cols + len <= size
  BY <1>4, <1>5, Zenon
<1>9. \A i \in 1..Cols : w.cells[i] = "output"
  <2> SUFFICES ASSUME NEW i \in 1..Cols PROVE w.cells[i] = "output"
    OBVIOUS
  <2>1. i \in 1..size /\ i \notin (Cols + 1)..(Cols + len) /\ i \in 1..old
    BY <1>1, <1>3, <1>7
  <2> QED  BY <1>2, <1>7, <2>1, Zenon DEF At
<1>10. \A n \in 1..len : w.cells[Cols + n] = line[n]
  <2> SUFFICES ASSUME NEW n \in 1..len PROVE w.cells[Cols + n] = line[n]
    OBVIOUS
  <2>1. /\ Cols + n \in 1..size /\ Cols + n \in (Cols + 1)..(Cols + len)
        /\ (Cols + n) - Cols = n
    BY <1>1, <1>3, <1>7, <1>8
  <2> QED  BY <1>7, <2>1, Zenon
<1>11. Displays(w, text)
  <2>1. 2 + row <= w.height
    BY <1>6, <1>7
  <2> QED  BY <1>0, <1>9, <1>10, <2>1, Zenon DEF Displays
<1>12. ASSUME ~left PROVE NothingBelow(w, text)
  <2>1. w.height = w.row /\ e.height = 2
    <3>1. e.height = 2
      BY <1>2, <1>12, Zenon
    <3>2. w.row \in Nat /\ w.row >= 2
      BY <1>1, <1>6
    <3>3. w.height = e.height \/ w.height = w.row
      BY <1>4, Zenon
    <3> QED  BY <1>7, <3>1, <3>2, <3>3
  <2>2. w.height = 2 + row /\ old = 2 * Cols
    BY <1>5, <1>6, <2>1
  <2>3. PICK a : a = (w.height - 1) * Cols
    OBVIOUS
  <2>4. a \in Nat /\ a + Cols = size /\ Cols * (w.height - 1) = a
    <3>1. a \in Nat /\ a + Cols = size
      BY <1>5, <1>7, <2>3, OffsetLemma, Zenon
    <3> QED  BY <1>3, <1>7, <2>3, <3>1
  <2>5. \A n \in (len + 1)..a : w.cells[Cols + n] = " "
    <3> SUFFICES ASSUME NEW n \in (len + 1)..a PROVE w.cells[Cols + n] = " "
      OBVIOUS
    <3>1. /\ Cols + n \in 1..size /\ Cols + n \notin (Cols + 1)..(Cols + len)
          /\ Cols + n \in 1..old => Cols + n \in (Cols + 1)..(2 * Cols)
      BY <1>1, <1>3, <1>7, <2>2, <2>4
    <3>2. w.cells[Cols + n] = At(e, Cols + n)
      BY <1>7, <3>1, Zenon
    <3> QED  BY <1>2, <1>7, <3>1, <3>2, Zenon DEF At
  <2> QED  BY <1>0, <2>2, <2>4, <2>5, Zenon DEF NothingBelow
<1> QED  BY <1>0, <1>4, <1>6, <1>11, <1>12, Zenon DEF LineOn

LEMMA LastCellLemma ==
  ASSUME NEW pos \in Nat
  PROVE  /\ Place(pos).row \in Nat /\ Place(pos).col \in 1..Cols
         /\ AtRightEdge(pos) <=> Place(pos).col = Cols
BY PlaceLemma DEF AtRightEdge

(* Straight to a column from the start of a row. *)
LEMMA ColumnLemma ==
  ASSUME NEW r, IsScreen(r), NEW above \in Nat, NEW pos \in Nat,
         r.row = above + 1 + Place(pos).row, r.col = 0,
         NEW h, h = Horizontal(r, Place(pos).col)
  PROVE  IsScreen(h) /\ h.height = r.height /\ h.cells = r.cells /\ CursorFrom(h, above, pos)
<1>1. PICK col : col = Place(pos).col
  OBVIOUS
<1>2. col \in 1..Cols /\ (AtRightEdge(pos) <=> col = Cols) /\ Cols \in Nat \ {0}
  BY <1>1, LastCellLemma, LineEditorAssumption
<1>3. col \in Int /\ h = Horizontal(r, col)
  BY <1>1, <1>2
<1>4. WentAlong(r, col, h)
  BY <1>3, HorizontalLemma
<1>5. col < Cols => h.col = col
  BY <1>2, <1>4 DEF WentAlong
<1>6. col = Cols => h.col \in {Cols - 1, Cols}
  BY <1>2, <1>4 DEF WentAlong
<1>7. col - h.col \in {0} \cup (IF AtRightEdge(pos) THEN {1} ELSE {})
  BY <1>2, <1>5, <1>6
<1> QED  BY <1>1, <1>4, <1>7, Zenon DEF CursorFrom, WentAlong

LEMMA BackToLemma ==
  ASSUME NEW w, IsScreen(w), NEW above \in Nat, NEW text \in Seq(Symbols),
         w.row = above + 1 + Place(Len(text)).row,
         NEW pos \in 0..Len(text), NEW up, up = Place(Len(text)).row - Place(pos).row,
         NEW h, h = Horizontal(Return(Vertical(w, -up)), Place(pos).col)
  PROVE  IsScreen(h) /\ h.height = w.height /\ h.cells = w.cells /\ CursorFrom(h, above, pos)
<1>1. PICK a, b : a = Place(Len(text)).row /\ b = Place(pos).row
  OBVIOUS
<1>2. pos \in Nat /\ Len(text) \in Nat /\ pos <= Len(text)
  BY LenProperties
<1>3. a \in Nat /\ b \in Nat /\ b <= a
  BY <1>1, <1>2, PlaceMonotone, PlaceLemma
<1>4. up = a - b /\ -up \in Int /\ w.row = above + 1 + a /\ w.row \in Nat \ {0} /\ w.row <= w.height
      /\ w.height \in Nat
  BY <1>1, <1>3, ScreenLemma, SMTT(30)
<1>5. w.row + (-up) = above + 1 + b /\ w.row + (-up) \in 1..w.height
  BY <1>3, <1>4, SMTT(30)
<1>6. PICK v : v = Vertical(w, -up)
  OBVIOUS
<1>7. IsScreen(v) /\ v.height = w.height /\ v.cells = w.cells /\ v.row = above + 1 + b
  <2>1. WentDown(w, -up, v)
    BY <1>4, <1>6, VerticalLemma
  <2> QED  BY <1>5, <2>1, Zenon DEF WentDown
<1>8. PICK r : r = Return(v)
  OBVIOUS
<1>9. /\ IsScreen(r) /\ r.height = v.height /\ r.cells = v.cells /\ r.row = v.row /\ r.col = 0
  BY <1>7, <1>8, ReturnLemma
<1>10. h = Horizontal(r, Place(pos).col)
  BY <1>6, <1>8, Zenon
<1>11. r.row = above + 1 + Place(pos).row
  BY <1>1, <1>7, <1>9, Zenon
<1>12. IsScreen(h) /\ h.height = r.height /\ h.cells = r.cells /\ CursorFrom(h, above, pos)
  BY <1>2, <1>9, <1>10, <1>11, ColumnLemma
<1> QED  BY <1>7, <1>9, <1>12, Zenon

(* In the second row, below the output. *)
LEMMA CursorInSecond ==
  ASSUME NEW t, NEW pos \in Nat
  PROVE  CursorAt(t, pos) <=> CursorFrom(t, 1, pos)
<1>1. 2 + Place(pos).row = 1 + 1 + Place(pos).row
  BY PlaceLemma
<1> QED  BY <1>1, Zenon DEF CursorAt, CursorFrom

(* Where refreshLine finds its way: nothing is rendered and the line is      *)
(* fresh, or the cursor is in the row where the last render left it.         *)
Ready(t, prev, left) ==
  \/ prev = NotRendered /\ FreshLine(t, left)
  \/ /\ prev \in Nat /\ IsScreen(t) /\ t.row = 2 + Place(prev).row
     /\ \A i \in 1..Cols : t.cells[i] = "output"

(* What is erased before the line is written again. *)
LEMMA RedrawClears ==
  ASSUME NEW t, NEW prev, NEW left, NEW still, left /\ prev = NotRendered => still,
         Ready(t, prev, left),
         NEW erased,
         erased = IF prev = NotRendered THEN EraseRow(Return(t))
                  ELSE EraseBelow(Return(Vertical(t, -Place(prev).row)))
  PROVE  Cleared(erased, still)
<1>1. CASE prev = NotRendered /\ FreshLine(t, left)
  <2>1. FreshLine(t, still)
    BY <1>1, Zenon DEF FreshLine
  <2> QED  BY <1>1, <2>1, ClearedByRow, Zenon
<1>2. CASE /\ prev \in Nat /\ IsScreen(t) /\ t.row = 2 + Place(prev).row
           /\ \A i \in 1..Cols : t.cells[i] = "output"
  <2>1. prev # NotRendered
    BY <1>2 DEF NotRendered
  <2>2. PICK n : n = Place(prev).row
    OBVIOUS
  <2>3. n \in Nat /\ -n \in Int /\ t.row + (-n) = 2 /\ 2 \in 1..t.height
    <3>1. n \in Nat /\ t.row = 2 + n
      BY <1>2, <2>2, PlaceLemma
    <3>2. t.row \in Nat /\ t.height \in Nat /\ t.row <= t.height
      BY <1>2, ScreenLemma
    <3> QED  BY <3>1, <3>2
  <2>4. PICK v : v = Vertical(t, -n)
    OBVIOUS
  <2>5. IsScreen(v) /\ v.cells = t.cells /\ v.row = 2
    <3>1. WentDown(t, -n, v)
      BY <1>2, <2>3, <2>4, VerticalLemma
    <3> QED  BY <2>3, <3>1, Zenon DEF WentDown
  <2>6. \A i \in 1..Cols : v.cells[i] = "output"
    BY <1>2, <2>5, Zenon
  <2>7. Cleared(EraseBelow(Return(v)), still)
    BY <2>5, <2>6, ClearedBelow
  <2> QED  BY <2>1, <2>2, <2>4, <2>7, Zenon
<1> QED  BY <1>1, <1>2 DEF Ready

LEMMA SamePlace ==
  ASSUME NEW w, NEW h, NEW text, NEW left, h.height = w.height, h.cells = w.cells,
         Displays(w, text), left \/ NothingBelow(w, text)
  PROVE  Displays(h, text) /\ (left \/ NothingBelow(h, text))
BY Zenon DEF Displays, NothingBelow

(* refreshLine: wherever the cursor was in the rendered line, the new one is *)
(* shown in its place.                                                       *)
LEMMA RedrawShows ==
  ASSUME NEW text \in Seq(Symbols), NEW pos \in 0..Len(text),
         NEW t, NEW prev, NEW left, NEW still, left /\ prev = NotRendered => still,
         Ready(t, prev, left)
  PROVE  Shows(Redrawn(t, prev, text, pos), text, pos, still)
<1>1. PICK erased : erased = IF prev = NotRendered THEN EraseRow(Return(t))
                             ELSE EraseBelow(Return(Vertical(t, -Place(prev).row)))
  OBVIOUS
<1>3. Cleared(erased, still)
  BY <1>1, RedrawClears, Zenon
<1>4. PICK line : line = Prompt \o text
  OBVIOUS
<1>5. PICK w : w = Write(erased, line)
  OBVIOUS
<1>6. /\ IsScreen(w) /\ Displays(w, text)
      /\ w.row = 2 + Place(Len(text)).row
      /\ still \/ NothingBelow(w, text)
  <2>1. LineOn(w, text, still)
    BY <1>3, <1>4, <1>5, WriteLine
  <2> QED  BY <2>1, Zenon DEF LineOn
<1>7. PICK up : up = Place(Len(text)).row - Place(pos).row
  OBVIOUS
<1>8. PICK h : h = Horizontal(Return(Vertical(w, -up)), Place(pos).col)
  OBVIOUS
<1>9. IsScreen(h) /\ h.height = w.height /\ h.cells = w.cells /\ CursorAt(h, pos)
  <2>1. w.row = 1 + 1 + Place(Len(text)).row
    BY <1>6, LineLemma
  <2>2. IsScreen(h) /\ h.height = w.height /\ h.cells = w.cells /\ CursorFrom(h, 1, pos)
    BY <1>6, <1>7, <1>8, <2>1, BackToLemma
  <2> QED  BY <2>2, CursorInSecond, LenProperties
<1>10. Displays(h, text) /\ (still \/ NothingBelow(h, text))
  BY <1>6, <1>9, SamePlace
<1>11. Redrawn(t, prev, text, pos) = h
  BY <1>1, <1>4, <1>5, <1>7, <1>8, Zenon DEF Redrawn
<1> QED  BY <1>9, <1>10, <1>11, Zenon DEF Shows

(* moveCursorTo: a cursor that is not taken away from the right edge. *)
LEMMA MoveLemma ==
  ASSUME NEW text \in Seq(Symbols), NEW from \in 0..Len(text), NEW pos \in 0..Len(text),
         NEW t, IsScreen(t), NEW above \in Nat, above + Place(Len(text)).row < t.height,
         CursorFrom(t, above, from), ~(AtRightEdge(from) /\ pos # from),
         NEW v, v = Vertical(t, Place(pos).row - Place(from).row),
         NEW h, h = Horizontal(v, Place(pos).col - Place(from).col)
  PROVE  IsScreen(h) /\ h.height = t.height /\ h.cells = t.cells /\ CursorFrom(h, above, pos)
<1>2. PICK a, b, c, d : /\ a = Place(from).row /\ b = Place(pos).row
                        /\ c = Place(from).col /\ d = Place(pos).col
  OBVIOUS
<1>3. from \in Nat /\ pos \in Nat /\ Len(text) \in Nat /\ pos <= Len(text) /\ Cols \in Nat \ {0}
  BY LenProperties, LineEditorAssumption
<1>4. /\ a \in Nat /\ b \in Nat /\ c \in 1..Cols /\ d \in 1..Cols
      /\ AtRightEdge(from) <=> c = Cols
      /\ AtRightEdge(pos) <=> d = Cols
  BY <1>2, <1>3, LastCellLemma
<1>5. /\ t.row = above + 1 + a /\ t.height \in Nat /\ t.row <= t.height /\ t.col \in 0..Cols
      /\ c - t.col \in {0} \cup (IF AtRightEdge(from) THEN {1} ELSE {})
  BY <1>2, ScreenLemma DEF CursorFrom
<1>6. /\ b - a \in Int /\ d - c \in Int
      /\ t.row + (b - a) = above + 1 + b /\ t.row + (b - a) \in 1..t.height
  <2>1. b <= Place(Len(text)).row /\ Place(Len(text)).row \in Nat
    BY <1>2, <1>3, PlaceMonotone, PlaceLemma
  <2> QED  BY <1>4, <1>5, <2>1, SMTT(30)
<1>7. WentDown(t, b - a, v)
  BY <1>2, <1>6, VerticalLemma
<1>8. IsScreen(v) /\ v.height = t.height /\ v.cells = t.cells /\ v.row = above + 1 + b
  BY <1>6, <1>7, Zenon DEF WentDown
<1>9. WentAlong(v, d - c, h)
  BY <1>2, <1>6, <1>8, HorizontalLemma
<1>10. IsScreen(h) /\ h.height = t.height /\ h.cells = t.cells /\ h.row = above + 1 + b
  BY <1>8, <1>9, Zenon DEF WentAlong
<1>11. CursorFrom(h, above, pos)
  <2>1. CASE pos = from
    <3>1. b - a = 0 /\ d - c = 0
      BY <1>2, <1>4, <2>1
    <3>2. v = t /\ h = v
      BY <1>7, <1>9, <3>1, Zenon DEF WentDown, WentAlong
    <3> QED  BY <2>1, <3>2, Zenon
  <2>2. CASE pos # from
    <3>1. ~AtRightEdge(from)
      BY <2>2
    <3>2. t.col = c /\ c < Cols
      <4>1. c - t.col = 0
        BY <1>5, <3>1, Zenon
      <4>2. t.col = c
        BY <1>4, <1>5, <4>1
      <4>3. c # Cols
        BY <1>4, <3>1, Zenon
      <4> QED  BY <1>3, <1>4, <4>2, <4>3
    <3>3. v.col = c
      BY <1>7, <3>2, Zenon DEF WentDown
    <3>4. d < Cols => h.col = d
      <4>1. d < Cols => c + (d - c) \in 0..(Cols - 1) /\ c + (d - c) = d
        BY <1>3, <1>4
      <4> QED  BY <1>9, <3>2, <3>3, <4>1, Zenon DEF WentAlong
    <3>5. d = Cols => h.col \in {Cols - 1, Cols}
      <4>1. d = Cols => c + (d - c) = Cols
        BY <1>3, <1>4
      <4> QED  BY <1>9, <3>2, <3>3, <4>1, Zenon DEF WentAlong
    <3>6. d - h.col \in {0} \cup (IF AtRightEdge(pos) THEN {1} ELSE {})
      BY <1>3, <1>4, <3>4, <3>5
    <3> QED  BY <1>2, <1>10, <3>6, Zenon DEF CursorFrom
  <2> QED  BY <2>1, <2>2
<1> QED  BY <1>10, <1>11

LEMMA MoveShows ==
  ASSUME NEW text \in Seq(Symbols), NEW from \in 0..Len(text), NEW pos \in 0..Len(text),
         NEW t, NEW left, Shows(t, text, from, left), ~(AtRightEdge(from) /\ pos # from),
         NEW v, v = Vertical(t, Place(pos).row - Place(from).row),
         NEW h, h = Horizontal(v, Place(pos).col - Place(from).col)
  PROVE  Shows(h, text, pos, left)
<1>1. IsScreen(t) /\ Displays(t, text) /\ CursorAt(t, from) /\ (left \/ NothingBelow(t, text))
  BY Zenon DEF Shows
<1>2. from \in Nat /\ pos \in Nat
  BY LenProperties
<1>3. 1 + Place(Len(text)).row < t.height
  <2>1. 2 + Place(Len(text)).row <= t.height
    BY <1>1, Zenon DEF Displays
  <2> QED  BY <1>1, <2>1, LineLemma, ScreenLemma, SMTT(30)
<1>4. CursorFrom(t, 1, from)
  BY <1>1, <1>2, CursorInSecond
<1>5. IsScreen(h) /\ h.height = t.height /\ h.cells = t.cells /\ CursorFrom(h, 1, pos)
  BY <1>1, <1>3, <1>4, MoveLemma
<1>6. Displays(h, text) /\ (left \/ NothingBelow(h, text))
  BY <1>1, <1>5, SamePlace
<1>7. CursorAt(h, pos)
  BY <1>2, <1>5, CursorInSecond
<1> QED  BY <1>5, <1>6, <1>7, Zenon DEF Shows

(* The prompt and a text, when another text comes behind it. *)
LEMMA LongerLine ==
  ASSUME NEW text \in Seq(Symbols), NEW clean \in Seq(Symbols)
  PROVE  /\ text \o clean \in Seq(Symbols) /\ Len(text \o clean) = Len(text) + Len(clean)
         /\ LineLen(text \o clean) = LineLen(text) + Len(clean)
         /\ \A n \in 1..LineLen(text) : (Prompt \o (text \o clean))[n] = (Prompt \o text)[n]
         /\ \A n \in 1..Len(clean) : (Prompt \o (text \o clean))[LineLen(text) + n] = clean[n]
<1>1. PICK both, line, longer : both = text \o clean /\ line = Prompt \o text /\ longer = Prompt \o both
  OBVIOUS
<1>2. /\ Prompt \in Seq(Symbols) /\ Len(Prompt) \in Nat /\ Len(text) \in Nat /\ Len(clean) \in Nat
  BY PromptTyped, LenProperties
<1>3. /\ both \in Seq(Symbols) /\ Len(both) = Len(text) + Len(clean)
      /\ \A i \in 1..Len(both) : both[i] = IF i <= Len(text) THEN text[i] ELSE clean[i - Len(text)]
  BY <1>1, <1>2, ConcatProperties
<1>4. /\ \A i \in 1..(Len(Prompt) + Len(text)) :
           line[i] = IF i <= Len(Prompt) THEN Prompt[i] ELSE text[i - Len(Prompt)]
  BY <1>1, <1>2, ConcatProperties
<1>5. /\ \A i \in 1..(Len(Prompt) + Len(both)) :
           longer[i] = IF i <= Len(Prompt) THEN Prompt[i] ELSE both[i - Len(Prompt)]
  BY <1>1, <1>2, <1>3, ConcatProperties
<1>6. ASSUME NEW n \in 1..(Len(Prompt) + Len(text)) PROVE longer[n] = line[n]
  <2>1. n \in 1..(Len(Prompt) + Len(both))
    BY <1>2, <1>3
  <2>2. CASE n <= Len(Prompt)
    BY <1>4, <1>5, <2>1, <2>2, Zenon
  <2>3. CASE ~(n <= Len(Prompt))
    <3>1. n - Len(Prompt) \in 1..Len(both) /\ n - Len(Prompt) <= Len(text)
      BY <1>2, <1>3, <2>3
    <3> QED  BY <1>3, <1>4, <1>5, <2>1, <2>3, <3>1, Zenon
  <2> QED  BY <2>2, <2>3
<1>7. ASSUME NEW n \in 1..Len(clean)
      PROVE  longer[Len(Prompt) + Len(text) + n] = clean[n]
  <2>1. PICK i, k : i = Len(Prompt) + Len(text) + n /\ k = Len(text) + n
    OBVIOUS
  <2>2. /\ i \in 1..(Len(Prompt) + Len(both)) /\ ~(i <= Len(Prompt)) /\ i - Len(Prompt) = k
        /\ k \in 1..Len(both) /\ ~(k <= Len(text)) /\ k - Len(text) = n
    BY <1>2, <1>3, <2>1
  <2>3. longer[i] = both[k] /\ both[k] = clean[n]
    BY <1>3, <1>5, <2>2, Zenon
  <2> QED  BY <2>1, <2>3, Zenon
<1>8. LineLen(text \o clean) = LineLen(text) + Len(clean)
  BY <1>1, <1>2, <1>3 DEF LineLen
<1> QED  BY <1>1, <1>3, <1>6, <1>7, <1>8, Zenon DEF LineLen

(* The cursor right behind the last character: after a whole row, its wrap   *)
(* is pending.                                                               *)
BehindLine(t, text, left) == LineOn(t, text, left) /\ t.col = Place(Len(text)).col

(* A text typed there: the terminal writes and wraps it as a redraw would.   *)
LEMMA TypedBehind ==
  ASSUME NEW text \in Seq(Symbols), NEW clean \in Seq(Symbols), clean # <<>>,
         NEW t, NEW left, BehindLine(t, text, left),
         NEW w, w = Write(t, clean),
         NEW longer, longer = text \o clean
  PROVE  BehindLine(w, longer, left)
<1>0. t.col = Place(Len(text)).col
  BY Zenon DEF BehindLine
<1>1. /\ IsScreen(t) /\ Displays(t, text) /\ (left \/ NothingBelow(t, text))
      /\ t.row = 2 + Place(Len(text)).row
  BY Zenon DEF BehindLine, LineOn
<1>2. PICK len, k, line, all : /\ len = LineLen(text) /\ k = Len(clean)
                               /\ line = Prompt \o text /\ all = Prompt \o longer
  OBVIOUS
<1>3. PICK a, b, c, d : /\ a = Place(Len(text)).row /\ c = Place(Len(text)).col
                        /\ b = Place(Len(longer)).row /\ d = Place(Len(longer)).col
  OBVIOUS
<1>4. /\ longer \in Seq(Symbols) /\ LineLen(longer) = len + k
      /\ \A n \in 1..len : all[n] = line[n]
      /\ \A n \in 1..k : all[len + n] = clean[n]
  BY <1>2, LongerLine, Zenon
<1>5. /\ len \in Nat \ {0} /\ a \in Nat /\ c \in 1..Cols /\ a * Cols + c = len
      /\ Len(text) \in Nat
  BY <1>2, <1>3, LineLemma, Zenon
<1>6. /\ len + k \in Nat \ {0} /\ b \in Nat /\ d \in 1..Cols /\ b * Cols + d = len + k
      /\ Len(longer) \in Nat
  BY <1>3, <1>4, LineLemma, Zenon
<1>7. k \in Nat \ {0} /\ Cols \in Nat \ {0}
  BY <1>2, LenProperties, EmptySeq, LineEditorAssumption
<1>8. PICK from : from = (t.row - 1) * Cols + t.col
  OBVIOUS
<1>9. from = Cols + len
  <2>1. t.row - 1 = a + 1
    BY <1>1, <1>3, <1>5
  <2>2. from = (a + 1) * Cols + c
    BY <1>0, <1>3, <1>8, <2>1, Zenon
  <2>3. (a + 1) * Cols = a * Cols + 1 * Cols /\ a * Cols \in Int
    BY <1>5, RowsLemma
  <2> QED  BY <1>5, <1>7, <2>2, <2>3
<1>10. /\ Wrote(t, Cols + len, clean, w)
       /\ w.row = 2 + b /\ w.col = d
       /\ Cols + len + k <= w.height * Cols
  <2>1. 1 * Cols = Cols /\ 1 \in Nat /\ 1 + 1 = 2
    BY <1>7
  <2>2. len + k = Len(Prompt) + Len(longer) /\ len \in Nat
    BY <1>4, <1>5 DEF LineLen
  <2>3. WritesFrom(t, clean, 1, len, Len(longer))
    BY <1>1, <1>2, <1>6, <1>7, <1>8, <1>9, <2>1, <2>2, Zenon DEF WritesFrom
  <2>4. WroteTo(t, clean, w, 1, len, Len(longer))
    BY <2>3, WriteRows, Zenon
  <2> QED  BY <1>2, <1>3, <2>1, <2>4, Zenon DEF WroteTo
<1>11. /\ IsScreen(w) /\ w.height >= t.height
       /\ w.height = t.height \/ w.height = w.row
       /\ w.col \in 1..Cols
       /\ (w.row - 1) * Cols + w.col = Cols + len + k
       /\ \A i \in 1..w.height * Cols :
            IF i \in (Cols + len + 1)..(Cols + len + k)
            THEN w.cells[i] = clean[i - (Cols + len)] ELSE w.cells[i] = At(t, i)
  BY <1>2, <1>10, Zenon DEF Wrote
<1>12. PICK size, old : size = w.height * Cols /\ old = t.height * Cols
  OBVIOUS
<1>13. w.row = 2 + b /\ w.col = d
  BY <1>10
<1>14. /\ size \in Nat /\ old \in Nat /\ old <= size /\ Cols <= old /\ Cols + len <= old
       /\ w.height \in Nat \ {0} /\ t.height \in Nat \ {0} /\ w.row <= w.height /\ t.row <= t.height
       /\ DOMAIN t.cells = 1..old
  <2>1. /\ w.height \in Nat \ {0} /\ t.height \in Nat \ {0} /\ w.row <= w.height
        /\ t.row \in Nat \ {0} /\ t.row <= t.height
    BY <1>1, <1>11, ScreenLemma
  <2>2. /\ old \in Nat /\ DOMAIN t.cells = 1..old
        /\ t.row * Cols \in Nat /\ t.row * Cols <= old
    BY <1>1, <1>12, <2>1, ScreenLemma
  <2>3. size \in Nat /\ old <= size
    BY <1>11, <1>12, <2>1, ScreenLemma
  <2>4. Cols + len <= old /\ Cols <= old
    <3>1. PICK x, y : x = (t.row - 1) * Cols /\ y = t.row * Cols
      OBVIOUS
    <3>2. x \in Nat /\ x + Cols = y
      BY <2>1, <3>1, OffsetLemma, Zenon
    <3>3. Cols + len = x + c /\ y <= old /\ y \in Nat
      BY <1>0, <1>3, <1>8, <1>9, <2>2, <3>1, Zenon
    <3> QED  BY <1>5, <1>7, <2>2, <3>2, <3>3, SMTT(30)
  <2> QED  BY <2>1, <2>2, <2>3, <2>4
<1>15. Cols + len + k <= size
  BY <1>10, <1>12, Zenon
<1>16. \A i \in 1..size :
         IF i \in (Cols + len + 1)..(Cols + len + k)
         THEN w.cells[i] = clean[i - (Cols + len)] ELSE w.cells[i] = At(t, i)
  BY <1>11, <1>12, Zenon
<1>17. /\ \A i \in 1..Cols : t.cells[i] = "output"
       /\ \A n \in 1..len : t.cells[Cols + n] = line[n]
       /\ ~left => /\ t.height = 2 + a
                   /\ \A n \in (len + 1)..(Cols * (t.height - 1)) : t.cells[Cols + n] = " "
  BY <1>1, <1>2, <1>3, Zenon DEF Displays, NothingBelow
<1>18. ASSUME NEW i \in 1..Cols PROVE w.cells[i] = "output"
  <2>1. i \in 1..size /\ i \notin (Cols + len + 1)..(Cols + len + k) /\ i \in 1..old
    BY <1>5, <1>7, <1>14
  <2> QED  BY <1>14, <1>16, <1>17, <2>1, Zenon DEF At
<1>19. ASSUME NEW n \in 1..(len + k) PROVE w.cells[Cols + n] = all[n]
  <2>1. CASE n <= len
    <3>1. /\ Cols + n \in 1..size /\ Cols + n \notin (Cols + len + 1)..(Cols + len + k)
          /\ Cols + n \in 1..old /\ n \in 1..len
      BY <1>5, <1>7, <1>14, <2>1
    <3> QED  BY <1>4, <1>14, <1>16, <1>17, <3>1, Zenon DEF At
  <2>2. CASE n > len
    <3>1. PICK m, i : m = n - len /\ i = Cols + n
      OBVIOUS
    <3>2. /\ i \in 1..size /\ i \in (Cols + len + 1)..(Cols + len + k)
          /\ i - (Cols + len) = m /\ m \in 1..k /\ len + m = n
      BY <1>5, <1>7, <1>14, <1>15, <2>2, <3>1
    <3>3. w.cells[i] = clean[m] /\ all[n] = clean[m]
      BY <1>4, <1>16, <3>2, Zenon
    <3> QED  BY <3>1, <3>3, Zenon
  <2> QED  BY <1>5, <1>7, <2>1, <2>2
<1>20. Displays(w, longer)
  <2>1. 2 + b <= w.height
    BY <1>6, <1>13, <1>14
  <2> QED  BY <1>2, <1>3, <1>4, <1>18, <1>19, <2>1, Zenon DEF Displays
<1>21. ASSUME ~left PROVE NothingBelow(w, longer)
  <2>1. t.height = 2 + a /\ w.row >= t.height
    <3>1. Len(text) <= Len(longer)
      BY <1>2, <1>5, <1>6, <1>7, LongerLine
    <3>2. a <= b
      BY <1>3, <1>5, <1>6, <3>1, PlaceMonotone
    <3>3. t.height = 2 + a
      BY <1>17, <1>21
    <3> QED  BY <1>5, <1>6, <1>13, <3>2, <3>3
  <2>2. w.height = 2 + b
    <3>1. w.height = t.height \/ w.height = w.row
      BY <1>11, Zenon
    <3>2. /\ w.height \in Nat /\ t.height \in Nat /\ w.row <= w.height
          /\ w.row = 2 + b /\ b \in Nat
      BY <1>6, <1>13, <1>14
    <3> QED  BY <2>1, <3>1, <3>2
  <2>3. PICK x, y : x = (w.height - 1) * Cols /\ y = (t.height - 1) * Cols
    OBVIOUS
  <2>4. /\ x \in Nat /\ x + Cols = size /\ Cols * (w.height - 1) = x
        /\ y \in Nat /\ y + Cols = old /\ Cols * (t.height - 1) = y
    <3>1. x \in Nat /\ x + Cols = size /\ y \in Nat /\ y + Cols = old
      BY <1>12, <1>14, <2>3, OffsetLemma, Zenon
    <3>2. Cols * (w.height - 1) = x
      BY <1>7, <1>14, <2>3
    <3>3. Cols * (t.height - 1) = y
      BY <1>7, <1>14, <2>3
    <3> QED  BY <3>1, <3>2, <3>3
  <2>5. ASSUME NEW n \in (len + k + 1)..x PROVE w.cells[Cols + n] = " "
    <3>1. /\ Cols + n \in 1..size /\ Cols + n \notin (Cols + len + 1)..(Cols + len + k)
          /\ Cols + n \in 1..old => n \in (len + 1)..y
      BY <1>5, <1>7, <1>14, <2>4
    <3>2. w.cells[Cols + n] = At(t, Cols + n)
      BY <1>16, <3>1, Zenon
    <3>3. \A m \in (len + 1)..y : t.cells[Cols + m] = " "
      BY <1>17, <1>21, <2>4, Zenon
    <3> QED  BY <1>14, <3>1, <3>2, <3>3, Zenon DEF At
  <2> QED  BY <1>3, <1>4, <2>2, <2>4, <2>5, Zenon DEF NothingBelow
<1> QED  BY <1>3, <1>11, <1>13, <1>20, <1>21, Zenon DEF LineOn, BehindLine

(* A text typed at the end of the line that is shown, wherever the cursor is *)
(* put for it, but before its last character.                                *)
LEMMA TypeShows ==
  ASSUME NEW text \in Seq(Symbols), NEW clean \in Seq(Symbols),
         NEW t, NEW left, Shows(t, text, Len(text), left),
         ~(AtRightEdge(Len(text)) /\ t.col < Cols),
         NEW w, w = Write(t, clean),
         NEW longer, longer = text \o clean
  PROVE  Shows(w, longer, Len(longer), left)
<1>1. IsScreen(t) /\ Displays(t, text) /\ CursorAt(t, Len(text)) /\ (left \/ NothingBelow(t, text))
  BY Zenon DEF Shows
<1>2. CASE clean = <<>>
  <2>1. w = t /\ longer = text
    BY <1>2, ConcatEmptySeq DEF Write
  <2> QED  BY <2>1, Zenon
<1>3. CASE clean # <<>>
  <2>1. t.col = Place(Len(text)).col
    <3>1. PICK c : c = Place(Len(text)).col
      OBVIOUS
    <3>2. c \in 1..Cols /\ (AtRightEdge(Len(text)) <=> c = Cols) /\ t.col \in 0..Cols /\ Cols \in Nat
      BY <1>1, <3>1, LineLemma, LastCellLemma, ScreenLemma, LineEditorAssumption
    <3>3. c - t.col \in {0} \cup (IF AtRightEdge(Len(text)) THEN {1} ELSE {})
      BY <1>1, <3>1, Zenon DEF CursorAt
    <3> QED  BY <3>1, <3>2, <3>3
  <2>2. BehindLine(t, text, left)
    BY <1>1, <2>1, Zenon DEF BehindLine, LineOn, CursorAt
  <2>3. LineOn(w, longer, left) /\ w.col = Place(Len(longer)).col
    <3>1. BehindLine(w, longer, left)
      BY <1>3, <2>2, TypedBehind, Zenon
    <3> QED  BY <3>1, Zenon DEF BehindLine
  <2>4. CursorAt(w, Len(longer))
    <3>1. longer \in Seq(Symbols)
      BY LongerLine, Zenon
    <3>2. PICK d : d = Place(Len(longer)).col
      OBVIOUS
    <3>3. d \in 1..Cols /\ w.col = d
      BY <2>3, <3>1, <3>2, LineLemma, Zenon
    <3>4. d - w.col \in {0} \cup (IF AtRightEdge(Len(longer)) THEN {1} ELSE {})
      BY <3>3, LineEditorAssumption
    <3> QED  BY <2>3, <3>2, <3>4, Zenon DEF CursorAt, LineOn
  <2> QED  BY <2>3, <2>4, Zenon DEF LineOn, Shows
<1> QED  BY <1>2, <1>3

(* Output in a fresh line leaves it fresh. *)
LEMMA FreshOutput ==
  ASSUME NEW t, NEW left, FreshLine(t, left), t.col < Cols,
         NEW w, w = Write(t, <<"output">>)
  PROVE  FreshLine(w, left)
<1>1. PICK text : text = <<"output">>
  OBVIOUS
<1>2. Len(text) = 1 /\ text # <<>>
  BY <1>1
<1>3. /\ IsScreen(t) /\ t.row = 2 /\ (left \/ t.height = 2)
      /\ \A i \in 1..Cols : t.cells[i] = "output"
  BY Zenon DEF FreshLine
<1>4. PICK from : from = (t.row - 1) * Cols + t.col
  OBVIOUS
<1>5. Cols \in Nat \ {0} /\ t.col \in 0..(Cols - 1) /\ from = Cols + t.col
  BY <1>3, <1>4, LineEditorAssumption DEF IsScreen
<1>6. Wrote(t, from, text, w)
  <2>1. Len(text) \in Nat \ {0}
    BY <1>2
  <2> QED  BY <1>1, <1>2, <1>3, <1>4, <2>1, WriteLemma
<1>7. /\ IsScreen(w) /\ w.height >= t.height
      /\ w.height = t.height \/ w.height = w.row
      /\ w.col \in 1..Cols
      /\ (w.row - 1) * Cols + w.col = from + 1
      /\ \A i \in 1..w.height * Cols :
           i \notin (from + 1)..(from + 1) => w.cells[i] = At(t, i)
  BY <1>2, <1>6, Zenon DEF Wrote
<1>8. w.row = 2
  <2>1. PICK a, c, e : a = w.row - 1 /\ c = w.col /\ e = t.col + 1
    OBVIOUS
  <2>2. w.row \in Nat \ {0} /\ c \in 1..Cols
    BY <1>7, <2>1, ScreenLemma, Zenon
  <2>5. a \in Int /\ 1 \in Int /\ e \in 1..Cols
    BY <1>5, <2>1, <2>2
  <2>3. a * Cols + c = 1 * Cols + e
    <3>1. 1 * Cols + e = from + 1
      BY <1>5, <2>1
    <3> QED  BY <1>7, <2>1, <3>1, Zenon
  <2>4. a = 1
    BY <2>2, <2>3, <2>5, CellUnique, Zenon
  <2> QED  BY <2>1, <2>2, <2>4
<1>9. left \/ w.height = 2
  BY <1>3, <1>7, <1>8
<1>10. ASSUME NEW i \in 1..Cols PROVE w.cells[i] = "output"
  <2>1. w.height \in Nat \ {0} /\ t.height \in Nat \ {0} /\ 1 \in Nat \ {0} /\ 1 <= w.height
        /\ 1 <= t.height
    BY <1>3, <1>7, ScreenLemma
  <2>2. PICK size, old, one : size = w.height * Cols /\ old = t.height * Cols /\ one = 1 * Cols
    OBVIOUS
  <2>3. size \in Nat /\ one <= size
    BY <1>7, <2>1, <2>2, ScreenLemma, Zenon
  <2>4. old \in Nat /\ one <= old /\ DOMAIN t.cells = 1..old
    BY <1>3, <2>1, <2>2, ScreenLemma, Zenon
  <2>5. one = Cols
    BY <1>5, <2>2
  <2>6. i \in 1..size /\ i \in 1..old /\ i \notin (from + 1)..(from + 1)
    BY <1>5, <2>3, <2>4, <2>5
  <2> QED  BY <1>3, <1>7, <2>2, <2>4, <2>6, Zenon DEF At
<1> QED  BY <1>3, <1>7, <1>8, <1>9, <1>10, Zenon DEF FreshLine

(* Whatever the cursor was believed to be: the screen stays one. *)
LEMMA WriteTyped ==
  ASSUME NEW t, IsScreen(t), NEW text, text = <<>> \/ (text # <<>> /\ Len(text) \in Nat \ {0})
  PROVE  IsScreen(Write(t, text))
<1>1. CASE text = <<>>
  BY <1>1, Zenon DEF Write
<1>2. CASE text # <<>> /\ Len(text) \in Nat \ {0}
  <2>1. PICK w, from : w = Write(t, text) /\ from = (t.row - 1) * Cols + t.col
    OBVIOUS
  <2>2. Wrote(t, from, text, w)
    BY <1>2, <2>1, WriteLemma
  <2> QED  BY <2>1, <2>2, Zenon DEF Wrote
<1> QED  BY <1>1, <1>2

LEMMA MovedTyped ==
  ASSUME NEW t, IsScreen(t), NEW n \in Int, NEW m \in Int
  PROVE  IsScreen(Horizontal(Vertical(t, n), m)) /\ IsScreen(Horizontal(Return(Vertical(t, n)), m))
<1>1. PICK v : v = Vertical(t, n)
  OBVIOUS
<1>2. PICK r : r = Return(v)
  OBVIOUS
<1>3. PICK h, g : h = Horizontal(v, m) /\ g = Horizontal(r, m)
  OBVIOUS
<1>4. WentDown(t, n, v)
  BY <1>1, VerticalLemma
<1>5. IsScreen(v)
  BY <1>4, Zenon DEF WentDown
<1>6. IsScreen(r)
  BY <1>2, <1>5, ReturnLemma
<1>7. WentAlong(v, m, h) /\ WentAlong(r, m, g)
  BY <1>3, <1>5, <1>6, HorizontalLemma
<1>8. IsScreen(h) /\ IsScreen(g)
  BY <1>7, Zenon DEF WentAlong
<1> QED  BY <1>1, <1>2, <1>3, <1>8, Zenon

LEMMA ErasedTyped ==
  ASSUME NEW t, IsScreen(t), NEW prev \in Nat \cup {NotRendered},
         NEW erased,
         erased = IF prev = NotRendered THEN EraseRow(Return(t))
                  ELSE EraseBelow(Return(Vertical(t, -Place(prev).row)))
  PROVE  IsScreen(erased) /\ erased.col = 0
<1>1. CASE prev = NotRendered
  <2>1. PICK r, e : r = Return(t) /\ e = EraseRow(r)
    OBVIOUS
  <2>2. IsScreen(r) /\ r.col = 0
    BY <2>1, ReturnLemma
  <2>3. Erased(r, e)
    BY <2>1, <2>2, EraseRowLemma
  <2> QED  BY <1>1, <2>1, <2>2, <2>3, Zenon DEF Erased
<1>2. CASE prev # NotRendered
  <2>1. PICK n : n = Place(prev).row
    OBVIOUS
  <2>2. n \in Nat /\ -n \in Int
    <3>1. prev \in Nat
      BY <1>2
    <3>2. n \in Nat
      BY <2>1, <3>1, PlaceLemma
    <3> QED  BY <3>2
  <2>3. PICK v : v = Vertical(t, -n)
    OBVIOUS
  <2>4. PICK r : r = Return(v)
    OBVIOUS
  <2>5. PICK e : e = EraseBelow(r)
    OBVIOUS
  <2>6. WentDown(t, -n, v)
    BY <2>2, <2>3, VerticalLemma
  <2>7. IsScreen(r) /\ r.col = 0
    BY <2>4, <2>6, ReturnLemma DEF WentDown
  <2>8. Erased(r, e)
    BY <2>5, <2>7, EraseBelowLemma
  <2> QED  BY <1>2, <2>1, <2>3, <2>4, <2>5, <2>7, <2>8, Zenon DEF Erased
<1> QED  BY <1>1, <1>2

LEMMA RedrawnTyped ==
  ASSUME NEW t, IsScreen(t), NEW prev \in Nat \cup {NotRendered},
         NEW text \in Seq(Symbols), NEW pos \in Nat
  PROVE  IsScreen(Redrawn(t, prev, text, pos))
<1>1. PICK erased : erased = IF prev = NotRendered THEN EraseRow(Return(t))
                             ELSE EraseBelow(Return(Vertical(t, -Place(prev).row)))
  OBVIOUS
<1>2. IsScreen(erased)
  BY <1>1, ErasedTyped
<1>3. PICK line : line = Prompt \o text
  OBVIOUS
<1>4. PICK w : w = Write(erased, line)
  OBVIOUS
<1>5. IsScreen(w)
  <2>1. line # <<>> /\ Len(line) \in Nat \ {0}
    BY <1>3, LineLemma
  <2> QED  BY <1>2, <1>4, <2>1, WriteTyped, Zenon
<1>6. PICK up, col : up = Place(Len(text)).row - Place(pos).row /\ col = Place(pos).col
  OBVIOUS
<1>7. -up \in Int /\ col \in Int
  <2>1. Place(Len(text)).row \in Nat /\ Place(pos).row \in Nat /\ Place(pos).col \in 1..Cols
    BY LineLemma, PlaceLemma
  <2> QED  BY <1>6, <2>1
<1>8. IsScreen(Horizontal(Return(Vertical(w, -up)), col))
  BY <1>5, <1>7, MovedTyped, Zenon
<1> QED  BY <1>1, <1>3, <1>4, <1>6, <1>8, Zenon DEF Redrawn

-----------------------------------------------------------------------------
(* The same wherever the cursor was believed to be: the line is drawn from   *)
(* the row in which the redraw arrives, and the cursor stands in it.         *)

LEMMA StandsKept ==
  ASSUME NEW w, NEW h, NEW above \in Nat, NEW text, NEW pos,
         IsScreen(h), h.height = w.height, h.cells = w.cells,
         Drawn(w, above, text), CursorFrom(h, above, pos)
  PROVE  StandsFrom(h, above, text, pos)
BY Zenon DEF StandsFrom, Drawn

LEMMA RedrawStands ==
  ASSUME NEW t, IsScreen(t), NEW prev \in Nat \cup {NotRendered},
         NEW text \in Seq(Symbols), NEW pos \in 0..Len(text)
  PROVE  Stands(Redrawn(t, prev, text, pos), text, pos)
<1>1. PICK erased : erased = IF prev = NotRendered THEN EraseRow(Return(t))
                             ELSE EraseBelow(Return(Vertical(t, -Place(prev).row)))
  OBVIOUS
<1>2. IsScreen(erased) /\ erased.col = 0
  BY <1>1, ErasedTyped
<1>3. PICK line, w, above, base :
        /\ line = Prompt \o text /\ w = Write(erased, line)
        /\ above = erased.row - 1 /\ base = above * Cols
  OBVIOUS
<1>4. /\ Len(text) \in Nat /\ Len(line) = LineLen(text) /\ Len(line) \in Nat \ {0}
      /\ line # <<>> /\ Place(Len(text)).row \in Nat
  BY <1>3, LineLemma
<1>5. above \in Nat
  BY <1>2, <1>3, ScreenLemma
<1>6. /\ Wrote(erased, base, line, w)
      /\ w.row = above + 1 + Place(Len(text)).row
      /\ base \in Nat /\ base + LineLen(text) <= w.height * Cols
  <2>1. base \in Nat
    <3>1. above + 1 \in Nat \ {0} /\ (above + 1) - 1 = above
      BY <1>5
    <3> QED  BY <1>3, <3>1, OffsetLemma
  <2>2. (erased.row - 1) * Cols + erased.col = base + 0
    <3>1. (erased.row - 1) * Cols + erased.col = base + 0
      BY <1>2, <1>3, Zenon
    <3> QED  BY <3>1
  <2>3. 0 \in Nat /\ 0 + Len(line) = Len(Prompt) + Len(text)
    BY <1>4 DEF LineLen
  <2>4. /\ Wrote(erased, base + 0, line, w)
        /\ w.row = above + 1 + Place(Len(text)).row
        /\ base + 0 + Len(line) <= w.height * Cols
    <3>1. WritesFrom(erased, line, above, 0, Len(text))
      BY <1>2, <1>3, <1>4, <1>5, <2>2, <2>3, Zenon DEF WritesFrom
    <3>2. WroteTo(erased, line, w, above, 0, Len(text))
      BY <1>3, <3>1, WriteRows, Zenon
    <3> QED  BY <1>3, <3>2, Zenon DEF WroteTo
  <2>5. base + 0 = base
    BY <2>1
  <2> QED  BY <1>4, <2>1, <2>4, <2>5, Zenon
<1>7. IsScreen(w)
  BY <1>6, Zenon DEF Wrote
<1>8. Drawn(w, above, text)
  <2>1. w.row <= w.height /\ w.height \in Nat /\ w.height * Cols \in Nat
    BY <1>7, ScreenLemma
  <2>2. above + Place(Len(text)).row < w.height
    BY <1>4, <1>5, <1>6, <2>1
  <2>3. ASSUME NEW n \in 1..LineLen(text) PROVE w.cells[base + n] = line[n]
    <3>1. /\ base + n \in 1..w.height * Cols /\ base + n \in (base + 1)..(base + Len(line))
          /\ (base + n) - base = n
      BY <1>4, <1>6, <2>1
    <3> QED  BY <1>6, <3>1, Zenon DEF Wrote
  <2> QED  BY <1>3, <2>2, <2>3, Zenon DEF Drawn
<1>9. PICK up : up = Place(Len(text)).row - Place(pos).row
  OBVIOUS
<1>10. PICK h : h = Horizontal(Return(Vertical(w, -up)), Place(pos).col)
  OBVIOUS
<1>11. IsScreen(h) /\ h.height = w.height /\ h.cells = w.cells /\ CursorFrom(h, above, pos)
  BY <1>5, <1>6, <1>7, <1>9, <1>10, BackToLemma
<1>12. StandsFrom(h, above, text, pos)
  BY <1>5, <1>8, <1>11, StandsKept
<1>13. Redrawn(t, prev, text, pos) = h
  BY <1>1, <1>3, <1>9, <1>10, Zenon DEF Redrawn
<1> QED  BY <1>12, <1>13, Zenon DEF Stands

LEMMA MoveStands ==
  ASSUME NEW text \in Seq(Symbols), NEW from \in 0..Len(text), NEW pos \in 0..Len(text),
         NEW t, Stands(t, text, from), ~(AtRightEdge(from) /\ pos # from),
         NEW v, v = Vertical(t, Place(pos).row - Place(from).row),
         NEW h, h = Horizontal(v, Place(pos).col - Place(from).col)
  PROVE  Stands(h, text, pos)
<1>1. PICK above : StandsFrom(t, above, text, from)
  BY Zenon DEF Stands
<1>2. /\ above \in Nat /\ IsScreen(t) /\ Drawn(t, above, text) /\ CursorFrom(t, above, from)
      /\ above + Place(Len(text)).row < t.height
  BY <1>1, Zenon DEF StandsFrom, Drawn
<1>3. IsScreen(h) /\ h.height = t.height /\ h.cells = t.cells /\ CursorFrom(h, above, pos)
  BY <1>2, MoveLemma
<1>4. StandsFrom(h, above, text, pos)
  BY <1>2, <1>3, StandsKept
<1> QED  BY <1>4, Zenon DEF Stands

LEMMA TypeStands ==
  ASSUME NEW text \in Seq(Symbols), NEW clean \in Seq(Symbols),
         NEW t, Stands(t, text, Len(text)), ~(AtRightEdge(Len(text)) /\ t.col < Cols),
         NEW w, w = Write(t, clean),
         NEW longer, longer = text \o clean
  PROVE  Stands(w, longer, Len(longer))
<1>1. CASE clean = <<>>
  <2>1. w = t /\ longer = text
    BY <1>1, ConcatEmptySeq DEF Write
  <2> QED  BY <2>1, Zenon
<1>2. CASE clean # <<>>
  <2>1. PICK above : StandsFrom(t, above, text, Len(text))
    BY Zenon DEF Stands
  <2>2. /\ above \in Nat /\ IsScreen(t)
        /\ above + Place(Len(text)).row < t.height
        /\ \A n \in 1..LineLen(text) : t.cells[above * Cols + n] = (Prompt \o text)[n]
        /\ t.row = above + 1 + Place(Len(text)).row
        /\ Place(Len(text)).col - t.col \in
             {0} \cup (IF AtRightEdge(Len(text)) THEN {1} ELSE {})
    BY <2>1, Zenon DEF StandsFrom, Drawn, CursorFrom
  <2>3. PICK a, c, len, k, line, all, base :
          /\ a = Place(Len(text)).row /\ c = Place(Len(text)).col
          /\ len = LineLen(text) /\ k = Len(clean)
          /\ line = Prompt \o text /\ all = Prompt \o longer /\ base = above * Cols
    OBVIOUS
  <2>4. /\ len \in Nat \ {0} /\ a \in Nat /\ c \in 1..Cols /\ a * Cols + c = len
        /\ Len(text) \in Nat
    BY <2>3, LineLemma, Zenon
  <2>5. /\ longer \in Seq(Symbols) /\ Len(longer) = Len(text) + k /\ LineLen(longer) = len + k
        /\ \A n \in 1..len : all[n] = line[n]
        /\ \A n \in 1..k : all[len + n] = clean[n]
    BY <2>3, LongerLine, Zenon
  <2>6. k \in Nat \ {0} /\ Cols \in Nat \ {0} /\ base \in Nat
    <3>1. above + 1 \in Nat \ {0} /\ (above + 1) - 1 = above
      BY <2>2
    <3>2. base \in Nat
      BY <2>3, <3>1, OffsetLemma
    <3> QED  BY <1>2, <2>3, <3>2, LenProperties, EmptySeq, LineEditorAssumption
  <2>7. t.col = c
    <3>1. (AtRightEdge(Len(text)) <=> c = Cols) /\ t.col \in 0..Cols
      BY <2>2, <2>3, <2>4, LastCellLemma, ScreenLemma
    <3>2. c - t.col \in {0} \cup (IF AtRightEdge(Len(text)) THEN {1} ELSE {})
      BY <2>2, <2>3, Zenon
    <3> QED  BY <2>4, <2>6, <3>1, <3>2
  <2>8. (t.row - 1) * Cols + t.col = base + len
    <3>1. t.row - 1 = above + a
      BY <2>2, <2>3, <2>4
    <3>2. (above + a) * Cols = base + a * Cols /\ a * Cols \in Int
      <4>1. above \in Int /\ a \in Int
        BY <2>2, <2>4
      <4>2. (above + a) * Cols = above * Cols + a * Cols /\ a * Cols \in Int
        BY <4>1, RowsLemma, Zenon
      <4> QED  BY <2>3, <4>2, Zenon
    <3>3. (above + a) * Cols + c = base + len
      <4>1. PICK x, y : x = (above + a) * Cols /\ y = a * Cols
        OBVIOUS
      <4>2. x = base + y /\ y \in Int /\ y + c = len
        BY <2>4, <3>2, <4>1, Zenon
      <4>3. x + c = base + len
        BY <2>4, <2>6, <4>2
      <4> QED  BY <4>1, <4>3, Zenon
    <3> QED  BY <2>7, <3>1, <3>3, Zenon
  <2>9. /\ Wrote(t, base + len, clean, w)
        /\ w.row = above + 1 + Place(Len(longer)).row /\ w.col = Place(Len(longer)).col
        /\ base + len + k <= w.height * Cols
    <3>1. len \in Nat /\ Len(longer) \in Nat /\ Len(clean) \in Nat \ {0}
          /\ len + Len(clean) = Len(Prompt) + Len(longer)
      BY <2>3, <2>4, <2>5, <2>6, PromptTyped DEF LineLen
    <3>2. base = above * Cols /\ above \in Nat /\ IsScreen(t)
      BY <2>2, <2>3
    <3>3. /\ Wrote(t, base + len, clean, w)
          /\ w.row = above + 1 + Place(Len(longer)).row /\ w.col = Place(Len(longer)).col
          /\ base + len + Len(clean) <= w.height * Cols
      <4>1. WritesFrom(t, clean, above, len, Len(longer))
        BY <1>2, <2>8, <3>1, <3>2, Zenon DEF WritesFrom
      <4>2. WroteTo(t, clean, w, above, len, Len(longer))
        BY <4>1, WriteRows, Zenon
      <4> QED  BY <3>2, <4>2, Zenon DEF WroteTo
    <3> QED  BY <2>3, <3>3, Zenon
  <2>10. /\ IsScreen(w) /\ w.height >= t.height
         /\ \A i \in 1..w.height * Cols :
              IF i \in (base + len + 1)..(base + len + k)
              THEN w.cells[i] = clean[i - (base + len)] ELSE w.cells[i] = At(t, i)
    BY <2>3, <2>9, Zenon DEF Wrote
  <2>11. /\ w.height * Cols \in Nat /\ w.row <= w.height /\ w.height \in Nat
         /\ DOMAIN t.cells = 1..t.height * Cols /\ t.height * Cols \in Nat
         /\ base + len <= t.height * Cols
    <3>1. /\ w.height * Cols \in Nat /\ w.row <= w.height /\ w.height \in Nat
          /\ DOMAIN t.cells = 1..t.height * Cols /\ t.height * Cols \in Nat
          /\ t.row \in Nat \ {0} /\ t.row * Cols \in Nat /\ t.row * Cols <= t.height * Cols
      BY <2>2, <2>10, ScreenLemma
    <3>2. PICK x, y : x = (t.row - 1) * Cols /\ y = t.row * Cols
      OBVIOUS
    <3>3. x \in Nat /\ x + Cols = y
      BY <3>1, <3>2, OffsetLemma, Zenon
    <3>4. x + c = base + len /\ y <= t.height * Cols
      BY <2>7, <2>8, <3>1, <3>2, Zenon
    <3>5. base + len <= t.height * Cols
      BY <2>4, <2>6, <3>1, <3>2, <3>3, <3>4, SMTT(30)
    <3> QED  BY <3>1, <3>5
  <2>12. ASSUME NEW n \in 1..(len + k) PROVE w.cells[base + n] = all[n]
    <3>1. CASE n <= len
      <4>1. /\ base + n \in 1..w.height * Cols /\ base + n \notin (base + len + 1)..(base + len + k)
            /\ base + n \in 1..t.height * Cols /\ n \in 1..len
        BY <2>4, <2>6, <2>9, <2>11, <3>1
      <4>2. w.cells[base + n] = t.cells[base + n]
        BY <2>10, <2>11, <4>1, Zenon DEF At
      <4> QED  BY <2>2, <2>3, <2>5, <4>1, <4>2, Zenon
    <3>2. CASE n > len
      <4>1. PICK m, i : m = n - len /\ i = base + n
        OBVIOUS
      <4>2. /\ i \in 1..w.height * Cols /\ i \in (base + len + 1)..(base + len + k)
            /\ i - (base + len) = m /\ m \in 1..k /\ len + m = n
        BY <2>4, <2>6, <2>9, <2>11, <3>2, <4>1
      <4>3. w.cells[i] = clean[m] /\ all[n] = clean[m]
        BY <2>5, <2>10, <4>2, Zenon
      <4> QED  BY <4>1, <4>3, Zenon
    <3> QED  BY <2>4, <2>6, <3>1, <3>2
  <2>13. PICK b, d : b = Place(Len(longer)).row /\ d = Place(Len(longer)).col
    OBVIOUS
  <2>14. b \in Nat /\ d \in 1..Cols
    BY <2>5, <2>13, LineLemma, Zenon
  <2>15. Drawn(w, above, longer)
    <3>1. above + b < w.height
      BY <2>2, <2>9, <2>11, <2>13, <2>14
    <3> QED  BY <2>3, <2>5, <2>12, <2>13, <3>1, Zenon DEF Drawn
  <2>16. CursorFrom(w, above, Len(longer))
    <3>1. d - w.col \in {0} \cup (IF AtRightEdge(Len(longer)) THEN {1} ELSE {})
      BY <2>9, <2>13, <2>14, <2>6
    <3> QED  BY <2>9, <2>13, <3>1, Zenon DEF CursorFrom
  <2> QED  BY <2>2, <2>10, <2>15, <2>16, Zenon DEF StandsFrom, Stands
<1> QED  BY <1>1, <1>2

-----------------------------------------------------------------------------
(* The lines that are edited. *)

(* A line with one character less, or with a text put in. *)
LEMMA RemoveAtLemma ==
  ASSUME NEW s \in Seq(Symbols), NEW i \in 1..Len(s)
  PROVE  RemoveAt(s, i) \in Seq(Symbols) /\ Len(RemoveAt(s, i)) = Len(s) - 1
<1> DEFINE left == SubSeq(s, 1, i - 1)
           right == SubSeq(s, i + 1, Len(s))
<1>1. Len(s) \in Nat
  BY LenProperties
<1>2. left \in Seq(Symbols) /\ Len(left) = i - 1
  BY <1>1, ElementOfSeq, SubSeqProperties
<1>3. right \in Seq(Symbols) /\ Len(right) = Len(s) - i
  BY <1>1, ElementOfSeq, SubSeqProperties
<1>4. RemoveAt(s, i) = left \o right
  BY Zenon DEF RemoveAt
<1> HIDE DEF left, right
<1>5. left \o right \in Seq(Symbols) /\ Len(left \o right) = Len(left) + Len(right)
  BY <1>2, <1>3, ConcatProperties
<1> QED  BY <1>1, <1>2, <1>3, <1>4, <1>5

LEMMA PutInLemma ==
  ASSUME NEW s \in Seq(Symbols), NEW i \in 0..Len(s), NEW text \in Seq(Symbols)
  PROVE  /\ SubSeq(s, 1, i) \o text \o SubSeq(s, i + 1, Len(s)) \in Seq(Symbols)
         /\ Len(SubSeq(s, 1, i) \o text \o SubSeq(s, i + 1, Len(s))) = Len(s) + Len(text)
<1> DEFINE left == SubSeq(s, 1, i)
           right == SubSeq(s, i + 1, Len(s))
<1>1. Len(s) \in Nat /\ Len(text) \in Nat
  BY LenProperties
<1>2. left \in Seq(Symbols) /\ Len(left) = i
  BY <1>1, ElementOfSeq, SubSeqProperties
<1>3. right \in Seq(Symbols) /\ Len(right) = Len(s) - i
  BY <1>1, ElementOfSeq, SubSeqProperties
<1> HIDE DEF left, right
<1>4. left \o text \in Seq(Symbols) /\ Len(left \o text) = Len(left) + Len(text)
  BY <1>2, ConcatProperties
<1>5. /\ left \o text \o right \in Seq(Symbols)
      /\ Len(left \o text \o right) = Len(left \o text) + Len(right)
  BY <1>3, <1>4, ConcatProperties
<1>6. /\ left \o text \o right \in Seq(Symbols)
      /\ Len(left \o text \o right) = Len(s) + Len(text)
  BY <1>1, <1>2, <1>3, <1>4, <1>5
<1> QED  BY <1>6 DEF left, right

-----------------------------------------------------------------------------
(* The invariant: a line of symbols with the cursor in it, a history of such *)
(* lines with the index in it, and nothing to edit before the first render.  *)

HistoryTyped == history \in Seq(Seq(Symbols)) /\ historyIndex \in 0..Len(history)
LineTyped == buffer \in Seq(Symbols) /\ cursorPos \in 0..Len(buffer)
EmptyUntilRendered == lastRender = NotRendered => buffer = <<>>

EditorInv == HistoryTyped /\ LineTyped /\ EmptyUntilRendered

LEMMA EmptyLine ==
  <<>> \in Seq(Symbols) /\ Len(<<>>) = 0
BY EmptySeq

LEMMA TextsTyped ==
  ASSUME NEW text \in Typed \cup Prefills
  PROVE  text \in Seq(Symbols) /\ Len(text) \in Nat
<1>1. text \in Seq(Symbols)
  BY LineEditorAssumption DEF Texts
<1> QED  BY <1>1, LenProperties

(* A redraw with the cursor at its place; the rest of a step decides no more. *)
LEMMA RedrawKeeps ==
  ASSUME HistoryTyped', LineTyped', lastRender' = cursorPos'
  PROVE  EditorInv'
<1>1. cursorPos' # NotRendered
  BY DEF LineTyped, NotRendered
<1> QED  BY <1>1 DEF EditorInv, EmptyUntilRendered

(* A step that leaves the line, the cursor and the history alone, and does   *)
(* not forget the last render.                                               *)
LEMMA LineKept ==
  ASSUME EditorInv, UNCHANGED lineVars, lastRender' = NotRendered => lastRender = NotRendered
  PROVE  EditorInv'
BY DEF EditorInv, HistoryTyped, LineTyped, EmptyUntilRendered, lineVars

-----------------------------------------------------------------------------
(* The keys. *)

LEMMA BackspaceKeeps ==
  ASSUME EditorInv, Backspace
  PROVE  EditorInv'
<1>1. cursorPos \in 1..Len(buffer) /\ Len(buffer) \in Nat
  BY LenProperties DEF EditorInv, LineTyped, Backspace
<1>2. buffer' \in Seq(Symbols) /\ Len(buffer') = Len(buffer) - 1
  BY <1>1, RemoveAtLemma DEF EditorInv, LineTyped, Backspace
<1>3. LineTyped'
  BY <1>1, <1>2 DEF LineTyped, Backspace
<1>4. HistoryTyped'
  BY DEF EditorInv, HistoryTyped, Backspace
<1>5. lastRender' = cursorPos'
  BY DEF Backspace, refreshLine
<1> QED  BY <1>3, <1>4, <1>5, RedrawKeeps

LEMMA DeleteKeeps ==
  ASSUME EditorInv, Delete
  PROVE  EditorInv'
<1>1. cursorPos \in 0..Len(buffer) /\ cursorPos + 1 \in 1..Len(buffer) /\ Len(buffer) \in Nat
  BY LenProperties DEF EditorInv, LineTyped, Delete
<1>2. buffer' \in Seq(Symbols) /\ Len(buffer') = Len(buffer) - 1
  BY <1>1, RemoveAtLemma DEF EditorInv, LineTyped, Delete
<1>3. LineTyped'
  BY <1>1, <1>2 DEF LineTyped, Delete
<1>4. HistoryTyped'
  BY DEF EditorInv, HistoryTyped, Delete
<1>5. lastRender' = cursorPos'
  BY DEF Delete, refreshLine
<1> QED  BY <1>3, <1>4, <1>5, RedrawKeeps

LEMMA MoveKeeps ==
  ASSUME EditorInv, Move
  PROVE  EditorInv'
<1>1. cursorPos \in 0..Len(buffer) /\ Len(buffer) \in Nat
  BY LenProperties DEF EditorInv, LineTyped
<1>2. PICK pos \in {Max({0, cursorPos - 1}), Min({Len(buffer), cursorPos + 1}), 0, Len(buffer)} :
        cursorPos' = pos /\ moveCursorTo(pos)
  BY DEF Move
<1>3. Max({0, cursorPos - 1}) \in 0..Len(buffer)
  BY <1>1, MaxOfTwo
<1>4. Min({Len(buffer), cursorPos + 1}) \in 0..Len(buffer)
  BY <1>1, MinOfTwo
<1>5. LineTyped'
  BY <1>1, <1>2, <1>3, <1>4 DEF EditorInv, LineTyped, Move
<1>6. HistoryTyped'
  BY DEF EditorInv, HistoryTyped, Move
<1>7. lastRender' = cursorPos'
  BY <1>2, Zenon DEF moveCursorTo, refreshLine
<1> QED  BY <1>5, <1>6, <1>7, RedrawKeeps

LEMMA RecallKeeps ==
  ASSUME EditorInv, NEW index \in 0..Len(history), Recall(index)
  PROVE  EditorInv'
<1>1. history \in Seq(Seq(Symbols)) /\ Len(history) \in Nat
  BY LenProperties DEF EditorInv, HistoryTyped
<1>2. buffer' \in Seq(Symbols)
  <2>1. CASE index < Len(history)
    BY <1>1, <2>1, ElementOfSeq DEF Recall
  <2>2. CASE ~(index < Len(history))
    BY <2>2, EmptyLine DEF Recall
  <2> QED  BY <2>1, <2>2
<1>3. LineTyped'
  BY <1>2, LenProperties DEF LineTyped, Recall
<1>4. HistoryTyped'
  BY <1>1 DEF HistoryTyped, Recall
<1>5. lastRender' = cursorPos'
  BY DEF Recall, refreshLine
<1> QED  BY <1>3, <1>4, <1>5, RedrawKeeps

LEMMA HistoryKeeps ==
  ASSUME EditorInv, Older \/ Newer
  PROVE  EditorInv'
<1>1. historyIndex \in 0..Len(history) /\ Len(history) \in Nat
  BY LenProperties DEF EditorInv, HistoryTyped
<1>2. CASE Older
  <2>1. Max({0, historyIndex - 1}) \in 0..Len(history)
    BY <1>1, MaxOfTwo
  <2> QED  BY <1>2, <2>1, RecallKeeps DEF Older
<1>3. CASE Newer
  <2>1. Min({Len(history), historyIndex + 1}) \in 0..Len(history)
    BY <1>1, MinOfTwo
  <2> QED  BY <1>3, <2>1, RecallKeeps DEF Newer
<1> QED  BY <1>2, <1>3

LEMMA InsertKeeps ==
  ASSUME EditorInv, Insert
  PROVE  EditorInv'
<1>1. /\ buffer \in Seq(Symbols) /\ Len(buffer) \in Nat
      /\ cursorPos \in 0..Len(buffer)
  BY LenProperties DEF EditorInv, LineTyped
<1>2. PICK clean \in Typed :
        /\ buffer' = SubSeq(buffer, 1, cursorPos) \o clean
                       \o SubSeq(buffer, cursorPos + 1, Len(buffer))
        /\ cursorPos' = cursorPos + Len(clean)
        /\ lastRender' = cursorPos'
  BY Zenon DEF Insert, refreshLine
<1>3. clean \in Seq(Symbols) /\ Len(clean) \in Nat
  BY TextsTyped
<1>4. buffer' \in Seq(Symbols) /\ Len(buffer') = Len(buffer) + Len(clean)
  BY <1>1, <1>2, <1>3, PutInLemma
<1>5. LineTyped'
  <2>1. cursorPos' = cursorPos + Len(clean)
    BY <1>2
  <2> QED  BY <1>1, <1>3, <1>4, <2>1 DEF LineTyped
<1>6. HistoryTyped'
  BY DEF EditorInv, HistoryTyped, Insert
<1> QED  BY <1>2, <1>5, <1>6, RedrawKeeps

-----------------------------------------------------------------------------
(* Enter, what the session does, and the prefill. *)

LEMMA SubmittedKeeps ==
  ASSUME EditorInv, Submitted
  PROVE  HistoryTyped' /\ LineTyped'
<1>1. /\ history \in Seq(Seq(Symbols)) /\ buffer \in Seq(Symbols)
      /\ Len(history) \in Nat /\ historyIndex \in 0..Len(history)
  BY LenProperties DEF EditorInv, HistoryTyped, LineTyped
<1>2. LineTyped'
  BY EmptyLine DEF LineTyped, Submitted
<1>3. CASE buffer = <<>>
  BY <1>1, <1>2, <1>3 DEF HistoryTyped, Submitted
<1>4. CASE buffer # <<>>
  <2>1. /\ Append(history, buffer) \in Seq(Seq(Symbols))
        /\ Len(Append(history, buffer)) = Len(history) + 1
    BY <1>1, AppendProperties
  <2>2. history' = Append(history, buffer) /\ historyIndex' = Len(history')
    BY <1>4 DEF Submitted
  <2> QED  BY <1>1, <1>2, <2>1, <2>2 DEF HistoryTyped
<1> QED  BY <1>3, <1>4

LEMMA EnterKeeps ==
  ASSUME EditorInv, EnterLocal \/ EnterCommand
  PROVE  EditorInv'
<1>1. Submitted /\ buffer' = <<>> /\ cursorPos' = 0
  BY DEF EnterLocal, EnterCommand, Submitted
<1>2. HistoryTyped' /\ LineTyped'
  BY <1>1, SubmittedKeeps
<1>3. CASE EnterLocal
  <2>1. lastRender' = cursorPos'
    BY <1>1, <1>3 DEF EnterLocal
  <2> QED  BY <1>2, <2>1, RedrawKeeps
<1>4. CASE EnterCommand
  <2>1. lastRender' = NotRendered
    BY <1>4 DEF EnterCommand
  <2> QED  BY <1>1, <1>2, <2>1 DEF EditorInv, EmptyUntilRendered
<1> QED  BY <1>3, <1>4

LEMMA SessionKeeps ==
  ASSUME EditorInv,
         CommandSent \/ CommandNotSent \/ CommitStatus \/ SocketCloses \/ Chunk \/ Answer
  PROVE  EditorInv'
<1>1. UNCHANGED lineVars
  BY DEF CommandSent, CommandNotSent, CommitStatus, SocketCloses, Chunk, Answer
<1>2. CASE CommandSent \/ CommitStatus \/ SocketCloses \/ Chunk
  <2>1. lastRender' = lastRender
    BY <1>2 DEF CommandSent, CommitStatus, SocketCloses, Chunk, screenVars
  <2> QED  BY <1>1, <2>1, LineKept
<1>3. CASE CommandNotSent
  <2>1. lastRender' = 0
    BY <1>3, Zenon DEF CommandNotSent, refreshLine
  <2> QED  BY <1>1, <2>1, LineKept DEF NotRendered
<1>4. CASE Answer
  <2>1. lastRender' = Len(buffer)
    BY <1>4, Zenon DEF Answer, refreshLine
  <2>2. Len(buffer) \in Nat
    BY LenProperties DEF EditorInv, LineTyped
  <2> QED  BY <1>1, <2>1, <2>2, LineKept DEF NotRendered
<1> QED  BY <1>2, <1>3, <1>4

LEMMA PrefillKeeps ==
  ASSUME EditorInv, Prefill
  PROVE  EditorInv'
<1>1. buffer' \in Seq(Symbols) /\ Len(buffer') \in Nat
  BY TextsTyped DEF Prefill
<1>2. cursorPos' = Len(buffer') /\ lastRender' = cursorPos'
  BY Zenon DEF Prefill, refreshLine
<1>3. LineTyped'
  BY <1>1, <1>2 DEF LineTyped
<1>4. HistoryTyped'
  BY DEF EditorInv, HistoryTyped, Prefill
<1> QED  BY <1>2, <1>3, <1>4, RedrawKeeps

-----------------------------------------------------------------------------

LEMMA InitEditor == Init => EditorInv
<1> SUFFICES ASSUME Init PROVE EditorInv
  OBVIOUS
<1>1. history \in Seq(Seq(Symbols)) /\ Len(history) = 0
  BY EmptySeq DEF Init
<1>2. buffer \in Seq(Symbols) /\ Len(buffer) = 0
  BY EmptyLine DEF Init
<1> QED  BY <1>1, <1>2 DEF Init, EditorInv, HistoryTyped, LineTyped, EmptyUntilRendered

LEMMA NextEditor ==
  EditorInv /\ [Next]_vars => EditorInv'
<1> SUFFICES ASSUME EditorInv, [Next]_vars PROVE EditorInv'
  OBVIOUS
<1>1. CASE Backspace \/ Delete \/ Move
  BY <1>1, BackspaceKeeps, DeleteKeeps, MoveKeeps
<1>2. CASE Older \/ Newer \/ Insert
  BY <1>2, HistoryKeeps, InsertKeeps
<1>3. CASE EnterLocal \/ EnterCommand
  BY <1>3, EnterKeeps
<1>4. CASE CommandSent \/ CommandNotSent \/ CommitStatus \/ SocketCloses \/ Chunk \/ Answer
  BY <1>4, SessionKeeps
<1>5. CASE Prefill
  BY <1>5, PrefillKeeps
<1>6. CASE UNCHANGED vars
  BY <1>6, LineKept DEF vars, screenVars
<1> QED  BY <1>1, <1>2, <1>3, <1>4, <1>5, <1>6, Zenon DEF Next

(* The inductive invariant of the editor: the line, its history and the      *)
(* places in both keep their shapes, and there is nothing to edit before the *)
(* first render.                                                             *)
THEOREM EditorInvariant == Spec => []EditorInv
BY InitEditor, NextEditor, PTL DEF Spec

-----------------------------------------------------------------------------
(* The screen along the steps.  The invariant says when the screen is astray *)
(* (exposed, edged) and what it shows when it is not; it needs to know which *)
(* commands are in flight, for they are what writes over a rendered line.    *)

ScreenTyped ==
  /\ IsScreen(term) /\ lastRender \in Nat \cup {NotRendered}
  /\ {locked, exposed, edged, leftover} \subseteq BOOLEAN

(* A command is in flight only behind a locked input, before the next        *)
(* render, and only one is, or a line is exposed to its output.              *)
InFlightExposed ==
  /\ awaiting \in Nat /\ running \in Nat
  /\ awaiting + running > 1 => exposed
  /\ awaiting + running > 0 => exposed \/ (locked /\ lastRender = NotRendered)

NotRenderedFresh == lastRender = NotRendered => ~edged /\ FreshLine(term, leftover)

RenderedShows ==
  lastRender # NotRendered /\ ~exposed =>
    /\ lastRender = cursorPos
    /\ ~edged => Shows(term, buffer, lastRender, leftover)

ScreenInv == ScreenTyped /\ InFlightExposed /\ NotRenderedFresh /\ RenderedShows

LEMMA ReadyForRedraw ==
  ASSUME ScreenInv, ~exposed, ~edged
  PROVE  Ready(term, lastRender, leftover)
<1>1. CASE lastRender = NotRendered
  BY <1>1, Zenon DEF ScreenInv, NotRenderedFresh, Ready
<1>2. CASE lastRender # NotRendered
  <2>1. lastRender \in Nat
    BY <1>2 DEF ScreenInv, ScreenTyped
  <2>2. Shows(term, buffer, lastRender, leftover)
    BY <1>2, Zenon DEF ScreenInv, RenderedShows
  <2> QED  BY <2>1, <2>2, Zenon DEF Shows, Displays, CursorAt, Ready
<1> QED  BY <1>1, <1>2

(* Any redraw: of the line with its cursor, unless the line is exposed. *)
LEMMA RedrawScreen ==
  ASSUME ScreenInv, NEW t, IsScreen(t), NEW text \in Seq(Symbols), NEW pos \in 0..Len(text),
         refreshLine(t, lastRender, text, pos),
         {locked', exposed', edged'} \subseteq BOOLEAN,
         ~exposed' => text = buffer' /\ pos = cursorPos',
         ~exposed' /\ ~edged' => Ready(t, lastRender, leftover)
  PROVE  ScreenTyped' /\ NotRenderedFresh' /\ RenderedShows'
<1>1. /\ term' = Redrawn(t, lastRender, text, pos)
      /\ lastRender' = pos
      /\ leftover' = (leftover /\ lastRender = NotRendered)
  BY Zenon DEF refreshLine
<1>2. lastRender \in Nat \cup {NotRendered} /\ leftover \in BOOLEAN /\ pos \in Nat
  BY LenProperties DEF ScreenInv, ScreenTyped
<1>3. IsScreen(Redrawn(t, lastRender, text, pos))
  BY <1>2, RedrawnTyped
<1>4. ScreenTyped'
  <2>1. IsScreen(term')
    BY <1>1, <1>3, Zenon
  <2>2. lastRender' \in Nat \cup {NotRendered} /\ leftover' \in BOOLEAN
    BY <1>1, <1>2
  <2>3. {locked', exposed', edged', leftover'} \subseteq BOOLEAN
    BY <2>2
  <2> QED  BY <2>1, <2>2, <2>3, Zenon DEF ScreenTyped
<1>5. NotRenderedFresh'
  <2>1. lastRender' # NotRendered
    BY <1>1, <1>2 DEF NotRendered
  <2> QED  BY <2>1, Zenon DEF NotRenderedFresh
<1>6. ASSUME ~exposed', ~edged'
      PROVE  Shows(term', buffer', lastRender', leftover')
  <2>1. leftover /\ lastRender = NotRendered => leftover'
    BY <1>1, Zenon
  <2>2. Ready(t, lastRender, leftover)
    BY <1>6, Zenon
  <2>3. Shows(Redrawn(t, lastRender, text, pos), text, pos, leftover')
    BY <2>1, <2>2, RedrawShows
  <2> QED  BY <1>1, <1>6, <2>3, Zenon
<1>7. RenderedShows'
  BY <1>1, <1>6, Zenon DEF RenderedShows
<1> QED  BY <1>4, <1>5, <1>7

(* A key while nothing else changes what is in flight or may come. *)
LEMMA KeyInFlight ==
  ASSUME ScreenInv, ~locked, UNCHANGED <<awaiting, running, locked, exposed>>
  PROVE  InFlightExposed'
BY DEF ScreenInv, InFlightExposed

(* A key that redraws the line. *)
LEMMA KeyRedraws ==
  ASSUME EditorInv', ScreenInv, ~locked,
         UNCHANGED <<awaiting, running, locked, exposed, edged>>,
         refreshLine(term, lastRender, buffer', cursorPos')
  PROVE  ScreenInv'
<1>1. InFlightExposed'
  BY KeyInFlight
<1>2. buffer' \in Seq(Symbols) /\ cursorPos' \in 0..Len(buffer')
  BY DEF EditorInv, LineTyped
<1>3. IsScreen(term) /\ {locked', exposed', edged'} \subseteq BOOLEAN
  BY DEF ScreenInv, ScreenTyped
<1>4. ~exposed' /\ ~edged' => Ready(term, lastRender, leftover)
  BY ReadyForRedraw
<1>5. ScreenTyped' /\ NotRenderedFresh' /\ RenderedShows'
  BY <1>2, <1>3, <1>4, RedrawScreen
<1> QED  BY <1>1, <1>5 DEF ScreenInv

LEMMA KeysScreen ==
  ASSUME EditorInv', ScreenInv, Backspace \/ Delete \/ Older \/ Newer
  PROVE  ScreenInv'
<1>1. CASE Backspace
  <2>1. /\ ~locked /\ UNCHANGED <<awaiting, running, locked, exposed, edged>>
        /\ refreshLine(term, lastRender, buffer', cursorPos')
    BY <1>1, Zenon DEF Backspace, sessionVars
  <2> QED  BY <2>1, KeyRedraws
<1>2. CASE Delete
  <2>1. /\ ~locked /\ UNCHANGED <<awaiting, running, locked, exposed, edged>>
        /\ refreshLine(term, lastRender, buffer', cursorPos')
    BY <1>2, Zenon DEF Delete, sessionVars
  <2> QED  BY <2>1, KeyRedraws
<1>3. CASE Older \/ Newer
  <2>1. PICK index : ~locked /\ Recall(index)
    BY <1>3, Zenon DEF Older, Newer
  <2>2. /\ UNCHANGED <<awaiting, running, locked, exposed, edged>>
        /\ refreshLine(term, lastRender, buffer', cursorPos')
    BY <2>1, Zenon DEF Recall, sessionVars
  <2> QED  BY <2>1, <2>2, KeyRedraws
<1> QED  BY <1>1, <1>2, <1>3

LEMMA MoveScreen ==
  ASSUME EditorInv, EditorInv', ScreenInv, Move
  PROVE  ScreenInv'
<1>1. PICK pos : cursorPos' = pos /\ moveCursorTo(pos)
  BY Zenon DEF Move
<1>2. ~locked /\ UNCHANGED <<awaiting, running, locked, exposed>> /\ buffer' = buffer
  BY Zenon DEF Move, sessionVars
<1>3. CASE lastRender = NotRendered
  <2>1. refreshLine(term, lastRender, buffer', cursorPos') /\ edged' = edged
    BY <1>1, <1>2, <1>3, Zenon DEF moveCursorTo
  <2> QED  BY <1>2, <2>1, KeyRedraws
<1>4. CASE lastRender # NotRendered
  <2>1. PICK v, n, m : /\ n = Place(pos).row - Place(lastRender).row
                       /\ m = Place(pos).col - Place(lastRender).col
                       /\ v = Vertical(term, n)
    OBVIOUS
  <2>2. /\ term' = Horizontal(v, m) /\ lastRender' = pos
        /\ edged' = (edged \/ (AtRightEdge(lastRender) /\ pos # lastRender))
        /\ leftover' = leftover
    BY <1>1, <1>4, <2>1, Zenon DEF moveCursorTo
  <2>3. /\ lastRender \in Nat /\ pos \in Nat /\ pos \in 0..Len(buffer)
        /\ buffer \in Seq(Symbols) /\ IsScreen(term)
        /\ {locked, exposed, edged, leftover} \subseteq BOOLEAN
    BY <1>1, <1>2, <1>4, LenProperties DEF EditorInv, LineTyped, ScreenInv, ScreenTyped
  <2>4. n \in Int /\ m \in Int
    <3>1. /\ Place(pos).row \in Nat /\ Place(lastRender).row \in Nat
          /\ Place(pos).col \in 1..Cols /\ Place(lastRender).col \in 1..Cols
      BY <2>3, PlaceLemma
    <3> QED  BY <2>1, <3>1
  <2>5. IsScreen(term')
    BY <2>1, <2>2, <2>3, <2>4, MovedTyped, Zenon
  <2>6. ScreenTyped'
    <3>1. edged' \in BOOLEAN /\ lastRender' \in Nat
      BY <2>2, <2>3
    <3>2. {locked', exposed', edged', leftover'} \subseteq BOOLEAN
      BY <1>2, <2>2, <2>3, <3>1
    <3> QED  BY <2>5, <3>1, <3>2 DEF ScreenTyped
  <2>7. NotRenderedFresh'
    <3>1. lastRender' # NotRendered
      BY <2>2, <2>3 DEF NotRendered
    <3> QED  BY <3>1, Zenon DEF NotRenderedFresh
  <2>8. ASSUME ~exposed, ~edged'
        PROVE  Shows(term', buffer', lastRender', leftover')
    <3>1. ~edged /\ ~(AtRightEdge(lastRender) /\ pos # lastRender)
      BY <2>2, <2>8, Zenon
    <3>2. Shows(term, buffer, lastRender, leftover) /\ lastRender = cursorPos
      BY <1>4, <2>8, <3>1, Zenon DEF ScreenInv, RenderedShows
    <3>3. lastRender \in 0..Len(buffer)
      BY <3>2 DEF EditorInv, LineTyped
    <3>4. Shows(term', buffer, pos, leftover)
      BY <2>1, <2>2, <2>3, <3>1, <3>2, <3>3, MoveShows
    <3> QED  BY <1>2, <2>2, <3>4, Zenon
  <2>9. RenderedShows'
    BY <1>1, <1>2, <2>2, <2>8, Zenon DEF RenderedShows
  <2>10. InFlightExposed'
    BY <1>2, KeyInFlight
  <2> QED  BY <2>6, <2>7, <2>9, <2>10 DEF ScreenInv
<1> QED  BY <1>3, <1>4

(* At the end of the line, the text put in is the text behind it. *)
LEMMA AppendLemma ==
  ASSUME NEW s \in Seq(Symbols), NEW text \in Seq(Symbols)
  PROVE  SubSeq(s, 1, Len(s)) \o text \o SubSeq(s, Len(s) + 1, Len(s)) = s \o text
<1>1. Len(s) \in Nat
  BY LenProperties
<1>2. SubSeq(s, 1, Len(s)) = s
  BY <1>1, SubSeqFull
<1>3. SubSeq(s, Len(s) + 1, Len(s)) = <<>>
  BY <1>1, SubSeqEmpty
<1>4. s \o text \in Seq(Symbols)
  BY ConcatProperties
<1> QED  BY <1>2, <1>3, <1>4, ConcatEmptySeq

LEMMA InsertScreen ==
  ASSUME EditorInv, EditorInv', ScreenInv, Insert
  PROVE  ScreenInv'
<1>1. PICK clean \in Typed :
        /\ buffer' = SubSeq(buffer, 1, cursorPos) \o clean
                       \o SubSeq(buffer, cursorPos + 1, Len(buffer))
        /\ cursorPos' = cursorPos + Len(clean)
        /\ IF cursorPos = Len(buffer) /\ lastRender # NotRendered
           THEN /\ term' = Write(term, clean)
                /\ lastRender' = cursorPos'
                /\ edged' = (edged \/ (AtRightEdge(lastRender) /\ term.col < Cols))
                /\ astray' = (astray \/ (AtRightEdge(lastRender) /\ term.col < Cols))
                /\ UNCHANGED leftover
           ELSE /\ refreshLine(term, lastRender, buffer', cursorPos')
                /\ astray' = FALSE
                /\ UNCHANGED edged
  BY Zenon DEF Insert
<1>2. ~locked /\ UNCHANGED <<awaiting, running, locked, exposed>>
  BY Zenon DEF Insert, sessionVars
<1>3. CASE ~(cursorPos = Len(buffer) /\ lastRender # NotRendered)
  <2>1. refreshLine(term, lastRender, buffer', cursorPos') /\ edged' = edged
    BY <1>1, <1>3, Zenon
  <2> QED  BY <1>2, <2>1, KeyRedraws
<1>4. CASE cursorPos = Len(buffer) /\ lastRender # NotRendered
  <2>1. /\ term' = Write(term, clean) /\ lastRender' = cursorPos'
        /\ edged' = (edged \/ (AtRightEdge(lastRender) /\ term.col < Cols))
        /\ leftover' = leftover
    BY <1>1, <1>4, Zenon
  <2>2. /\ buffer \in Seq(Symbols) /\ IsScreen(term)
        /\ {locked, exposed, edged, leftover} \subseteq BOOLEAN
        /\ cursorPos' \in Nat
    BY LenProperties DEF EditorInv, LineTyped, ScreenInv, ScreenTyped
  <2>3. clean \in Seq(Symbols) /\ Len(clean) \in Nat
    BY TextsTyped
  <2>4. buffer' = buffer \o clean
    BY <1>1, <1>4, <2>2, <2>3, AppendLemma, Zenon
  <2>5. cursorPos' = Len(buffer')
    BY <1>1, <1>4, <2>2, <2>3, <2>4, LongerLine
  <2>6. IsScreen(term')
    <3>1. clean = <<>> \/ (clean # <<>> /\ Len(clean) \in Nat \ {0})
      BY <2>3, EmptySeq
    <3> QED  BY <2>1, <2>2, <3>1, WriteTyped, Zenon
  <2>7. ScreenTyped'
    <3>1. edged' \in BOOLEAN /\ lastRender' \in Nat
      BY <2>1, <2>2
    <3>2. {locked', exposed', edged', leftover'} \subseteq BOOLEAN
      BY <1>2, <2>1, <2>2, <3>1
    <3> QED  BY <2>6, <3>1, <3>2 DEF ScreenTyped
  <2>8. NotRenderedFresh'
    <3>1. lastRender' # NotRendered
      BY <2>1, <2>2 DEF NotRendered
    <3> QED  BY <3>1, Zenon DEF NotRenderedFresh
  <2>9. ASSUME ~exposed, ~edged'
        PROVE  Shows(term', buffer', lastRender', leftover')
    <3>1. ~edged /\ ~(AtRightEdge(lastRender) /\ term.col < Cols)
      BY <2>1, <2>9, Zenon
    <3>2. Shows(term, buffer, lastRender, leftover) /\ lastRender = cursorPos
      BY <1>4, <2>9, <3>1, Zenon DEF ScreenInv, RenderedShows
    <3>3. /\ Shows(term, buffer, Len(buffer), leftover)
          /\ ~(AtRightEdge(Len(buffer)) /\ term.col < Cols)
      BY <1>4, <3>1, <3>2, Zenon
    <3>4. Shows(term', buffer', Len(buffer'), leftover)
      BY <2>1, <2>2, <2>3, <2>4, <3>3, TypeShows, Zenon
    <3> QED  BY <2>1, <2>5, <3>4, Zenon
  <2>10. RenderedShows'
    BY <1>2, <2>1, <2>9, Zenon DEF RenderedShows
  <2>11. InFlightExposed'
    BY <1>2, KeyInFlight
  <2> QED  BY <2>7, <2>8, <2>10, <2>11 DEF ScreenInv
<1> QED  BY <1>3, <1>4

(* Enter: what follows starts below the line, in a fresh one. *)
LEMMA EnterFresh ==
  ASSUME EditorInv, ScreenInv, NEW left, RowsBelow => left
  PROVE  FreshLine(NewLine(term), left)
<1>1. IsScreen(term) /\ lastRender \in Nat \cup {NotRendered}
  BY DEF ScreenInv, ScreenTyped
<1>2. ASSUME ~left PROVE term.row = term.height
  <2>1. /\ ~exposed /\ ~edged /\ ~leftover
        /\ ~(Place(lastRender).row < Place(Len(buffer)).row)
    BY <1>2, Zenon DEF RowsBelow
  <2>2. CASE lastRender = NotRendered
    BY <2>1, <2>2, Zenon DEF ScreenInv, NotRenderedFresh, FreshLine
  <2>3. CASE lastRender # NotRendered
    <3>1. Shows(term, buffer, lastRender, leftover) /\ lastRender = cursorPos
      BY <2>1, <2>3, Zenon DEF ScreenInv, RenderedShows
    <3>2. PICK a, b : a = Place(lastRender).row /\ b = Place(Len(buffer)).row
      OBVIOUS
    <3>3. term.row = 2 + a /\ term.height = 2 + b
      BY <2>1, <3>1, <3>2, Zenon DEF Shows, CursorAt, NothingBelow
    <3>4. /\ lastRender \in Nat /\ Len(buffer) \in Nat /\ lastRender <= Len(buffer)
      BY <3>1, LenProperties DEF EditorInv, LineTyped
    <3>5. a \in Nat /\ b \in Nat /\ a <= b
      BY <3>2, <3>4, PlaceLemma, PlaceMonotone
    <3>6. ~(a < b)
      BY <2>1, <3>2, Zenon
    <3>7. a = b
      BY <3>5, <3>6
    <3> QED  BY <3>3, <3>7, Zenon
  <2> QED  BY <2>2, <2>3
<1> QED  BY <1>1, <1>2, NewLineLemma, Zenon

(* And one row further down. *)
LEMMA FreshBelow ==
  ASSUME NEW t, NEW left, FreshLine(t, left)
  PROVE  IsScreen(t) /\ FreshLine(NewLine(t), left)
<1>1. IsScreen(t) /\ (left \/ t.row = t.height)
  BY Zenon DEF FreshLine
<1> QED  BY <1>1, NewLineLemma, Zenon

LEMMA NewLineTyped ==
  ASSUME NEW t, IsScreen(t)
  PROVE  IsScreen(NewLine(t))
<1>1. FreshLine(NewLine(t), TRUE)
  BY NewLineLemma, Zenon
<1> QED  BY <1>1, Zenon DEF FreshLine

LEMMA EnterLocalScreen ==
  ASSUME EditorInv, EditorInv', ScreenInv, EnterLocal
  PROVE  ScreenInv'
<1>1. /\ ~locked /\ buffer' = <<>> /\ cursorPos' = 0
      /\ exposed' = (exposed /\ awaiting + running > 0) /\ edged' = FALSE
      /\ lastRender' = 0 /\ leftover' = RowsBelow
      /\ UNCHANGED <<awaiting, running, locked>>
  BY Zenon DEF EnterLocal, Submitted, sessionVars
<1>2. PICK next : /\ next \in {NewLine(term), NewLine(NewLine(term))}
                  /\ term' = Redrawn(next, NotRendered, <<>>, 0)
  BY Zenon DEF EnterLocal
<1>3. FreshLine(next, leftover')
  <2>1. FreshLine(NewLine(term), leftover')
    BY <1>1, EnterFresh, Zenon
  <2>2. FreshLine(NewLine(NewLine(term)), leftover')
    BY <2>1, FreshBelow, Zenon
  <2> QED  BY <1>2, <2>1, <2>2, Zenon
<1>4. <<>> \in Seq(Symbols) /\ 0 \in 0..Len(<<>>)
  BY EmptyLine
<1>5. Shows(term', <<>>, 0, leftover')
  <2>1. Ready(next, NotRendered, leftover')
    BY <1>3, Zenon DEF Ready
  <2> QED  BY <1>2, <1>4, <2>1, RedrawShows, Zenon
<1>6. ScreenTyped'
  <2>1. IsScreen(term')
    BY <1>5, Zenon DEF Shows
  <2>2. {locked', exposed', edged', leftover'} \subseteq BOOLEAN /\ lastRender' \in Nat
    BY <1>1 DEF ScreenInv, ScreenTyped, RowsBelow
  <2> QED  BY <2>1, <2>2 DEF ScreenTyped
<1>7. InFlightExposed'
  <2>1. awaiting \in Nat /\ running \in Nat /\ (awaiting + running > 0 => exposed)
    BY <1>1 DEF ScreenInv, InFlightExposed
  <2>2. awaiting + running > 0 => exposed'
    BY <1>1, <2>1, Zenon
  <2> QED  BY <1>1, <2>1, <2>2 DEF InFlightExposed
<1>8. NotRenderedFresh' /\ RenderedShows'
  <2>1. lastRender' # NotRendered
    BY <1>1 DEF NotRendered
  <2> QED  BY <1>1, <1>5, <2>1, Zenon DEF NotRenderedFresh, RenderedShows
<1> QED  BY <1>6, <1>7, <1>8 DEF ScreenInv

LEMMA EnterCommandScreen ==
  ASSUME EditorInv, EditorInv', ScreenInv, EnterCommand
  PROVE  ScreenInv'
<1>1. /\ ~locked /\ locked' = TRUE /\ edged' = FALSE
      /\ exposed' = (exposed /\ awaiting + running > 0)
      /\ awaiting' = awaiting + 1 /\ running' = running
      /\ term' = NewLine(term) /\ lastRender' = NotRendered /\ leftover' = RowsBelow
  BY Zenon DEF EnterCommand, Submitted
<1>2. FreshLine(term', leftover')
  BY <1>1, EnterFresh, Zenon
<1>3. ScreenTyped'
  <2>1. IsScreen(term')
    BY <1>2, Zenon DEF FreshLine
  <2>2. {locked', exposed', edged', leftover'} \subseteq BOOLEAN
    BY <1>1 DEF ScreenInv, ScreenTyped, RowsBelow
  <2> QED  BY <1>1, <2>1, <2>2 DEF ScreenTyped
<1>4. InFlightExposed'
  <2>1. awaiting \in Nat /\ running \in Nat /\ (awaiting + running > 0 => exposed)
    BY <1>1 DEF ScreenInv, InFlightExposed
  <2>2. awaiting + running > 0 => exposed'
    BY <1>1, <2>1, Zenon
  <2>3. awaiting' + running' > 1 => exposed'
    BY <1>1, <2>1, <2>2
  <2> QED  BY <1>1, <2>1, <2>3 DEF InFlightExposed
<1>5. NotRenderedFresh' /\ RenderedShows'
  BY <1>1, <1>2, Zenon DEF NotRenderedFresh, RenderedShows
<1> QED  BY <1>3, <1>4, <1>5 DEF ScreenInv

(* A change of what is in flight or of the lock, on the same screen. *)
LEMMA SameScreen ==
  ASSUME ScreenInv, UNCHANGED <<screenVars, buffer, cursorPos>>,
         locked' \in BOOLEAN, exposed' \in BOOLEAN, exposed => exposed'
  PROVE  ScreenTyped' /\ NotRenderedFresh' /\ RenderedShows'
<1>1. UNCHANGED <<term, lastRender, edged, leftover, buffer, cursorPos>>
  BY DEF screenVars
<1>2. ScreenTyped'
  <2>1. IsScreen(term')
    BY <1>1, Zenon DEF ScreenInv, ScreenTyped
  <2>2. lastRender' \in Nat \cup {NotRendered} /\ {locked', exposed', edged', leftover'} \subseteq BOOLEAN
    BY <1>1 DEF ScreenInv, ScreenTyped
  <2> QED  BY <2>1, <2>2, Zenon DEF ScreenTyped
<1>3. NotRenderedFresh'
  BY <1>1, Zenon DEF ScreenInv, NotRenderedFresh
<1>4. RenderedShows'
  BY <1>1, Zenon DEF ScreenInv, RenderedShows
<1> QED  BY <1>2, <1>3, <1>4

LEMMA FlightScreen ==
  ASSUME ScreenInv, CommandSent \/ CommitStatus \/ SocketCloses
  PROVE  ScreenInv'
<1>1. UNCHANGED <<screenVars, buffer, cursorPos>>
  BY Zenon DEF CommandSent, CommitStatus, SocketCloses, lineVars
<1>2. /\ awaiting \in Nat /\ running \in Nat
      /\ {locked, exposed} \subseteq BOOLEAN /\ lastRender' = lastRender
      /\ awaiting + running > 1 => exposed
      /\ awaiting + running > 0 => exposed \/ (locked /\ lastRender = NotRendered)
  BY <1>1 DEF ScreenInv, ScreenTyped, InFlightExposed, screenVars
<1>3. CASE CommandSent
  <2>1. /\ awaiting > 0 /\ awaiting' = awaiting - 1 /\ running' = running + 1
        /\ locked' = locked /\ exposed' = exposed
    BY <1>3 DEF CommandSent
  <2>2. InFlightExposed'
    BY <1>2, <2>1 DEF InFlightExposed
  <2> QED  BY <1>1, <1>2, <2>1, <2>2, SameScreen DEF ScreenInv
<1>4. CASE CommitStatus
  <2>1. /\ awaiting' = awaiting /\ running' = running
        /\ locked' = (running > 0) /\ exposed' = (exposed \/ awaiting > 0)
    BY <1>4 DEF CommitStatus
  <2>2. InFlightExposed'
    <3>1. awaiting + running > 1 => exposed'
      BY <1>2, <2>1
    <3>2. awaiting + running > 0 => exposed' \/ (locked' /\ lastRender' = NotRendered)
      BY <1>2, <2>1
    <3> QED  BY <1>2, <2>1, <3>1, <3>2 DEF InFlightExposed
  <2>3. locked' \in BOOLEAN /\ exposed' \in BOOLEAN /\ (exposed => exposed')
    BY <1>2, <2>1
  <2> QED  BY <1>1, <2>2, <2>3, SameScreen DEF ScreenInv
<1>5. CASE SocketCloses
  <2>1. /\ awaiting' = awaiting /\ running' = 0
        /\ locked' = locked /\ exposed' = exposed
    BY <1>5 DEF SocketCloses
  <2>2. InFlightExposed'
    BY <1>2, <2>1 DEF InFlightExposed
  <2> QED  BY <1>1, <1>2, <2>1, <2>2, SameScreen DEF ScreenInv
<1> QED  BY <1>3, <1>4, <1>5

(* Every command in flight that is answered, or was never sent, leaves the   *)
(* others, if there are any, to an exposed line.                             *)
LEMMA CommandNotSentScreen ==
  ASSUME EditorInv, EditorInv', ScreenInv, CommandNotSent
  PROVE  ScreenInv'
<1>1. /\ awaiting > 0 /\ awaiting' = awaiting - 1 /\ running' = running
      /\ locked' = FALSE /\ edged' = edged
      /\ exposed' = (exposed \/ awaiting' + running > 0)
      /\ refreshLine(NewLine(NewLine(term)), lastRender, <<>>, 0)
      /\ buffer' = buffer /\ cursorPos' = cursorPos
  BY Zenon DEF CommandNotSent, lineVars
<1>2. /\ awaiting \in Nat /\ running \in Nat
      /\ {exposed, edged} \subseteq BOOLEAN /\ IsScreen(term)
      /\ awaiting + running > 0 => exposed \/ (locked /\ lastRender = NotRendered)
  BY DEF ScreenInv, ScreenTyped, InFlightExposed
<1>3. InFlightExposed'
  <2>1. awaiting' \in Nat /\ running' \in Nat
    BY <1>1, <1>2
  <2>2. awaiting' + running' > 0 => exposed'
    BY <1>1, Zenon
  <2>3. awaiting' + running' = (awaiting - 1) + running
    BY <1>1
  <2>4. awaiting' + running' > 1 => awaiting' + running' > 0
    BY <1>2, <2>3
  <2> QED  BY <2>1, <2>2, <2>4, Zenon DEF InFlightExposed
<1>4. {locked', exposed', edged'} \subseteq BOOLEAN
  BY <1>1, <1>2
<1>5. ASSUME ~exposed' PROVE lastRender = NotRendered
  BY <1>1, <1>2, <1>5
<1>6. ~exposed' => <<>> = buffer' /\ 0 = cursorPos'
  <2> SUFFICES ASSUME ~exposed' PROVE <<>> = buffer' /\ 0 = cursorPos'
    OBVIOUS
  <2>1. buffer = <<>>
    BY <1>5 DEF EditorInv, EmptyUntilRendered
  <2> QED  BY <1>1, <2>1, EmptyLine DEF EditorInv, LineTyped
<1>7. IsScreen(NewLine(NewLine(term)))
  BY <1>2, NewLineTyped
<1>8. ~exposed' /\ ~edged' => Ready(NewLine(NewLine(term)), lastRender, leftover)
  <2> SUFFICES ASSUME ~exposed' PROVE Ready(NewLine(NewLine(term)), lastRender, leftover)
    OBVIOUS
  <2>1. FreshLine(term, leftover)
    BY <1>5, Zenon DEF ScreenInv, NotRenderedFresh
  <2>2. FreshLine(NewLine(NewLine(term)), leftover)
    BY <2>1, FreshBelow, Zenon
  <2> QED  BY <1>5, <2>2, Zenon DEF Ready
<1>9. <<>> \in Seq(Symbols) /\ 0 \in 0..Len(<<>>)
  BY EmptyLine
<1>10. ScreenTyped' /\ NotRenderedFresh' /\ RenderedShows'
  BY <1>1, <1>4, <1>6, <1>7, <1>8, <1>9, RedrawScreen, Zenon
<1> QED  BY <1>3, <1>10 DEF ScreenInv

LEMMA AnswerScreen ==
  ASSUME EditorInv, EditorInv', ScreenInv, Answer
  PROVE  ScreenInv'
<1>1. PICK t \in {NewLine(term), NewLine(NewLine(term))} :
        refreshLine(t, lastRender, buffer, Len(buffer))
  BY Zenon DEF Answer
<1>2. /\ locked' = FALSE /\ edged' = edged /\ awaiting' = awaiting
      /\ buffer' = buffer /\ cursorPos' = cursorPos
      /\ \/ running > 0 /\ running' = running - 1 /\ exposed' = exposed
         \/ running = 0 /\ exposed' = TRUE /\ running' = running
  BY Zenon DEF Answer, Arrives, lineVars
<1>3. /\ awaiting \in Nat /\ running \in Nat
      /\ {exposed, edged} \subseteq BOOLEAN /\ IsScreen(term)
      /\ awaiting + running > 1 => exposed
      /\ awaiting + running > 0 => exposed \/ (locked /\ lastRender = NotRendered)
  BY DEF ScreenInv, ScreenTyped, InFlightExposed
<1>4. InFlightExposed'
  BY <1>2, <1>3 DEF InFlightExposed
<1>5. {locked', exposed', edged'} \subseteq BOOLEAN
  BY <1>2, <1>3
<1>6. ASSUME ~exposed' PROVE lastRender = NotRendered
  BY <1>2, <1>3, <1>6
<1>7. ~exposed' => buffer = buffer' /\ Len(buffer) = cursorPos'
  <2> SUFFICES ASSUME ~exposed' PROVE buffer = buffer' /\ Len(buffer) = cursorPos'
    OBVIOUS
  <2>1. buffer = <<>>
    BY <1>6 DEF EditorInv, EmptyUntilRendered
  <2> QED  BY <1>2, <2>1, EmptyLine DEF EditorInv, LineTyped
<1>8. IsScreen(t)
  BY <1>3, NewLineTyped
<1>9. ~exposed' /\ ~edged' => Ready(t, lastRender, leftover)
  <2> SUFFICES ASSUME ~exposed' PROVE Ready(t, lastRender, leftover)
    OBVIOUS
  <2>1. FreshLine(term, leftover)
    BY <1>6, Zenon DEF ScreenInv, NotRenderedFresh
  <2>2. FreshLine(NewLine(term), leftover)
    BY <2>1, FreshBelow, Zenon
  <2>3. FreshLine(NewLine(NewLine(term)), leftover)
    BY <2>2, FreshBelow, Zenon
  <2>4. FreshLine(t, leftover)
    BY <2>2, <2>3, Zenon
  <2> QED  BY <1>6, <2>4, Zenon DEF Ready
<1>10. buffer \in Seq(Symbols) /\ Len(buffer) \in 0..Len(buffer)
  BY LenProperties DEF EditorInv, LineTyped
<1>11. ScreenTyped' /\ NotRenderedFresh' /\ RenderedShows'
  BY <1>1, <1>5, <1>7, <1>8, <1>9, <1>10, RedrawScreen, Zenon
<1> QED  BY <1>4, <1>11 DEF ScreenInv

(* Output never comes to a rendered line that is not exposed. *)
LEMMA ChunkScreen ==
  ASSUME EditorInv, ScreenInv, Chunk
  PROVE  ScreenInv'
<1>1. /\ UNCHANGED <<lastRender, edged, leftover, locked, awaiting, buffer, cursorPos>>
      /\ term' = NewLine(term) \/ (term.col < Cols /\ term' = Write(term, <<"output">>))
      /\ \/ running > 0 /\ running' = running - 0 /\ exposed' = exposed
         \/ running = 0 /\ exposed' = TRUE /\ running' = running
  BY Zenon DEF Chunk, Arrives, lineVars
<1>2. /\ awaiting \in Nat /\ running \in Nat
      /\ {locked, exposed, edged, leftover} \subseteq BOOLEAN /\ IsScreen(term)
      /\ awaiting + running > 1 => exposed
      /\ awaiting + running > 0 => exposed \/ (locked /\ lastRender = NotRendered)
  BY DEF ScreenInv, ScreenTyped, InFlightExposed
<1>3. InFlightExposed'
  BY <1>1, <1>2 DEF InFlightExposed
<1>4. ScreenTyped'
  <2>1. IsScreen(NewLine(term))
    BY <1>2, NewLineTyped
  <2>2. IsScreen(Write(term, <<"output">>))
    <3>1. <<"output">> # <<>> /\ Len(<<"output">>) \in Nat \ {0}
      OBVIOUS
    <3> QED  BY <1>2, <3>1, WriteTyped, Zenon
  <2>3. IsScreen(term')
    BY <1>1, <2>1, <2>2, Zenon
  <2>4. /\ {locked', exposed', edged', leftover'} \subseteq BOOLEAN
        /\ lastRender' \in Nat \cup {NotRendered}
    BY <1>1, <1>2 DEF ScreenInv, ScreenTyped
  <2> QED  BY <2>3, <2>4, Zenon DEF ScreenTyped
<1>5. NotRenderedFresh'
  <2> SUFFICES ASSUME lastRender' = NotRendered PROVE ~edged' /\ FreshLine(term', leftover')
    BY Zenon DEF NotRenderedFresh
  <2>1. ~edged /\ FreshLine(term, leftover)
    BY <1>1, Zenon DEF ScreenInv, NotRenderedFresh
  <2>2. FreshLine(NewLine(term), leftover)
    BY <2>1, FreshBelow, Zenon
  <2>3. term.col < Cols => FreshLine(Write(term, <<"output">>), leftover)
    BY <2>1, FreshOutput, Zenon
  <2> QED  BY <1>1, <2>1, <2>2, <2>3, Zenon
<1>6. lastRender' # NotRendered => exposed'
  BY <1>1, <1>2
<1>7. RenderedShows'
  BY <1>6, Zenon DEF RenderedShows
<1> QED  BY <1>3, <1>4, <1>5, <1>7 DEF ScreenInv

LEMMA PrefillScreen ==
  ASSUME EditorInv', ScreenInv, Prefill
  PROVE  ScreenInv'
<1>1. /\ refreshLine(term, lastRender, buffer', cursorPos')
      /\ exposed' = (exposed \/ awaiting + running > 0)
      /\ UNCHANGED <<locked, awaiting, running, edged>>
  BY Zenon DEF Prefill, sessionVars
<1>2. /\ awaiting \in Nat /\ running \in Nat
      /\ {locked, exposed, edged} \subseteq BOOLEAN /\ IsScreen(term)
  BY DEF ScreenInv, ScreenTyped, InFlightExposed
<1>3. InFlightExposed'
  <2>1. awaiting + running > 0 => exposed'
    BY <1>1, Zenon
  <2>2. awaiting + running > 1 => awaiting + running > 0
    BY <1>2
  <2> QED  BY <1>1, <1>2, <2>1, <2>2 DEF InFlightExposed
<1>4. {locked', exposed', edged'} \subseteq BOOLEAN /\ (~exposed' => ~exposed)
  BY <1>1, <1>2
<1>5. ~exposed' /\ ~edged' => Ready(term, lastRender, leftover)
  BY <1>1, <1>4, ReadyForRedraw, Zenon
<1>6. buffer' \in Seq(Symbols) /\ cursorPos' \in 0..Len(buffer')
  BY DEF EditorInv, LineTyped
<1>7. ScreenTyped' /\ NotRenderedFresh' /\ RenderedShows'
  BY <1>1, <1>2, <1>4, <1>5, <1>6, RedrawScreen, Zenon
<1> QED  BY <1>3, <1>7 DEF ScreenInv

-----------------------------------------------------------------------------

LEMMA InitScreen == Init => ScreenInv
<1> SUFFICES ASSUME Init PROVE ScreenInv
  OBVIOUS
<1>1. /\ buffer = <<>> /\ cursorPos = 0 /\ lastRender = 0
      /\ locked = FALSE /\ exposed = FALSE /\ edged = FALSE /\ leftover = FALSE
      /\ awaiting = 0 /\ running = 0
      /\ term = Redrawn(NewLine(Banner), NotRendered, <<>>, 0)
  BY DEF Init
<1>2. FreshLine(NewLine(Banner), FALSE)
  BY BannerIsScreen, NewLineLemma, Zenon
<1>3. <<>> \in Seq(Symbols) /\ 0 \in 0..Len(<<>>)
  BY EmptyLine
<1>4. Shows(term, <<>>, 0, FALSE)
  <2>1. Ready(NewLine(Banner), NotRendered, FALSE)
    BY <1>2, Zenon DEF Ready
  <2> QED  BY <1>1, <1>3, <2>1, RedrawShows, Zenon
<1>5. ScreenTyped
  <2>1. IsScreen(term)
    BY <1>4, Zenon DEF Shows
  <2> QED  BY <1>1, <2>1 DEF ScreenTyped
<1>6. InFlightExposed
  BY <1>1 DEF InFlightExposed
<1>7. NotRenderedFresh /\ RenderedShows
  <2>1. lastRender # NotRendered
    BY <1>1 DEF NotRendered
  <2> QED  BY <1>1, <1>4, <2>1, Zenon DEF NotRenderedFresh, RenderedShows
<1> QED  BY <1>5, <1>6, <1>7 DEF ScreenInv

LEMMA NextScreen ==
  EditorInv /\ EditorInv' /\ ScreenInv /\ [Next]_vars => ScreenInv'
<1> SUFFICES ASSUME EditorInv, EditorInv', ScreenInv, [Next]_vars PROVE ScreenInv'
  OBVIOUS
<1>1. CASE Backspace \/ Delete \/ Older \/ Newer
  BY <1>1, KeysScreen
<1>2. CASE Move \/ Insert
  BY <1>2, MoveScreen, InsertScreen
<1>3. CASE EnterLocal \/ EnterCommand
  BY <1>3, EnterLocalScreen, EnterCommandScreen
<1>4. CASE CommandSent \/ CommitStatus \/ SocketCloses
  BY <1>4, FlightScreen
<1>5. CASE CommandNotSent \/ Answer \/ Chunk
  BY <1>5, CommandNotSentScreen, AnswerScreen, ChunkScreen
<1>6. CASE Prefill
  BY <1>6, PrefillScreen
<1>7. CASE UNCHANGED vars
  <2>1. UNCHANGED <<screenVars, buffer, cursorPos, locked, exposed, awaiting, running, lastRender>>
    BY <1>7 DEF vars, lineVars, sessionVars, screenVars
  <2>2. locked' \in BOOLEAN /\ exposed' \in BOOLEAN
    BY <2>1 DEF ScreenInv, ScreenTyped
  <2>3. ScreenTyped' /\ NotRenderedFresh' /\ RenderedShows'
    BY <2>1, <2>2, SameScreen
  <2>4. InFlightExposed'
    BY <2>1 DEF ScreenInv, InFlightExposed
  <2> QED  BY <2>3, <2>4 DEF ScreenInv
<1> QED  BY <1>1, <1>2, <1>3, <1>4, <1>5, <1>6, <1>7, Zenon DEF Next

(* What a shown line is, in the words of the property. *)
LEMMA ShownLine ==
  ASSUME LineTyped, Shows(term, buffer, lastRender, leftover)
  PROVE  /\ \A i \in 1..Cols : term.cells[i] = "output"
         /\ LineWritten
         /\ term.row = 2 + Place(lastRender).row
         /\ Place(lastRender).col - term.col \in {0} \cup (IF AtRightEdge(lastRender) THEN {1} ELSE {})
         /\ leftover \/ (/\ term.height = LastRow
                         /\ \A n \in (Len(Line) + 1)..(Cols * (LastRow - 1)) : Cell(n) = " ")
<1>1. /\ buffer \in Seq(Symbols) /\ Len(buffer) \in Nat
      /\ Line \in Seq(Symbols) /\ Len(Line) = LineLen(buffer) /\ DOMAIN Line = 1..LineLen(buffer)
  <2>1. buffer \in Seq(Symbols) /\ Len(buffer) \in Nat
    BY LenProperties DEF LineTyped
  <2>2. Line \in Seq(Symbols) /\ Len(Line) = LineLen(buffer)
    BY <2>1, LineLemma, Zenon DEF Line
  <2> QED  BY <2>1, <2>2, LenProperties, Zenon
<1>2. LastRow = 2 + Place(Len(buffer)).row
  <2>1. Place(Len(buffer)).row = (Len(Prompt) + Len(buffer) - 1) \div Cols
    BY <1>1, PlaceLemma
  <2>2. (Len(Line) - 1) \div Cols = Place(Len(buffer)).row
    BY <1>1, <2>1 DEF LineLen
  <2> QED  BY <2>2, Zenon DEF LastRow
<1>3. Displays(term, buffer) /\ CursorAt(term, lastRender) /\ (leftover \/ NothingBelow(term, buffer))
  BY Zenon DEF Shows
<1>4. LineWritten
  BY <1>1, <1>2, <1>3, Zenon DEF Displays, LineWritten, Cell, Line
<1>5. leftover \/ (/\ term.height = LastRow
                   /\ \A n \in (Len(Line) + 1)..(Cols * (LastRow - 1)) : Cell(n) = " ")
  BY <1>1, <1>2, <1>3, Zenon DEF NothingBelow, Cell
<1> QED  BY <1>3, <1>4, <1>5, Zenon DEF Displays, CursorAt

(* The inductive invariant of the screen. *)
THEOREM ScreenInvariant == Spec => []ScreenInv
<1>1. Init => ScreenInv
  BY InitScreen
<1>2. EditorInv /\ EditorInv' /\ ScreenInv /\ [Next]_vars => ScreenInv'
  BY NextScreen
<1> QED  BY <1>1, <1>2, EditorInvariant, PTL DEF Spec

(* The relative movements of refreshLine, moveCursorTo and the fast path of  *)
(* onData() never go astray, whatever the width, the prompt, the texts and   *)
(* the order of keys, output and answers, as long as no line was exposed to  *)
(* output and no cursor at the right edge was relied on.                     *)
THEOREM ScreenAlwaysShowsLine == Spec => []ScreenShowsLine
<1>1. EditorInv /\ ScreenInv => ScreenShowsLine
  <2> SUFFICES ASSUME EditorInv, ScreenInv, lastRender # NotRendered, ~exposed, ~edged
               PROVE  Shows(term, buffer, lastRender, leftover) /\ LineTyped
    BY ShownLine, Zenon DEF ScreenShowsLine
  <2> QED  BY Zenon DEF EditorInv, ScreenInv, RenderedShows
<1> QED  BY <1>1, EditorInvariant, ScreenInvariant, PTL

-----------------------------------------------------------------------------
(* The cursor along the steps.  Unlike the screen it comes back: each redraw *)
(* puts it in its place again, whatever was on the screen before.            *)

CursorInv ==
  lastRender # NotRendered /\ ~astray =>
    lastRender = cursorPos /\ Stands(term, buffer, cursorPos)

(* Any redraw, whatever is on the screen it starts from. *)
LEMMA RedrawCursor ==
  ASSUME ScreenInv, NEW t, IsScreen(t), NEW text \in Seq(Symbols), NEW pos \in 0..Len(text),
         refreshLine(t, lastRender, text, pos),
         ~astray' => text = buffer' /\ pos = cursorPos'
  PROVE  CursorInv'
<1>1. term' = Redrawn(t, lastRender, text, pos) /\ lastRender' = pos
  BY Zenon DEF refreshLine
<1>2. lastRender \in Nat \cup {NotRendered}
  BY DEF ScreenInv, ScreenTyped
<1>3. Stands(Redrawn(t, lastRender, text, pos), text, pos)
  BY <1>2, RedrawStands
<1> QED  BY <1>1, <1>3, Zenon DEF CursorInv

LEMMA EmptyStands ==
  ASSUME NEW t, IsScreen(t)
  PROVE  Stands(Redrawn(t, NotRendered, <<>>, 0), <<>>, 0)
<1>1. <<>> \in Seq(Symbols) /\ 0 \in 0..Len(<<>>) /\ NotRendered \in Nat \cup {NotRendered}
  BY EmptyLine
<1> QED  BY <1>1, RedrawStands

LEMMA KeyCursor ==
  ASSUME EditorInv', ScreenInv, refreshLine(term, lastRender, buffer', cursorPos')
  PROVE  CursorInv'
<1>1. buffer' \in Seq(Symbols) /\ cursorPos' \in 0..Len(buffer') /\ IsScreen(term)
  BY DEF EditorInv, LineTyped, ScreenInv, ScreenTyped
<1> QED  BY <1>1, RedrawCursor

LEMMA KeysCursor ==
  ASSUME EditorInv', ScreenInv, Backspace \/ Delete \/ Older \/ Newer \/ Prefill
  PROVE  CursorInv'
<1>1. refreshLine(term, lastRender, buffer', cursorPos')
  <2>1. CASE Backspace
    BY <2>1, Zenon DEF Backspace
  <2>2. CASE Delete
    <3>1. refreshLine(term, lastRender, buffer', cursorPos) /\ cursorPos' = cursorPos
      BY <2>2, Zenon DEF Delete
    <3> QED  BY <3>1, Zenon
  <2>3. CASE Older \/ Newer
    BY <2>3, Zenon DEF Older, Newer, Recall
  <2>4. CASE Prefill
    BY <2>4, Zenon DEF Prefill
  <2> QED  BY <2>1, <2>2, <2>3, <2>4
<1> QED  BY <1>1, KeyCursor

LEMMA MoveCursor ==
  ASSUME EditorInv, EditorInv', ScreenInv, CursorInv, Move
  PROVE  CursorInv'
<1>1. PICK pos : cursorPos' = pos /\ moveCursorTo(pos)
  BY Zenon DEF Move
<1>2. buffer' = buffer
  BY Zenon DEF Move
<1>3. CASE lastRender = NotRendered
  <2>1. refreshLine(term, lastRender, buffer', cursorPos')
    BY <1>1, <1>2, <1>3, Zenon DEF moveCursorTo
  <2> QED  BY <2>1, KeyCursor
<1>4. CASE lastRender # NotRendered
  <2> SUFFICES ASSUME ~astray' PROVE lastRender' = cursorPos' /\ Stands(term', buffer', cursorPos')
    BY Zenon DEF CursorInv
  <2>1. PICK v : v = Vertical(term, Place(pos).row - Place(lastRender).row)
    OBVIOUS
  <2>2. /\ term' = Horizontal(v, Place(pos).col - Place(lastRender).col) /\ lastRender' = pos
        /\ astray' = (astray \/ (AtRightEdge(lastRender) /\ pos # lastRender))
    BY <1>1, <1>4, <2>1, Zenon DEF moveCursorTo
  <2>3. ~astray /\ ~(AtRightEdge(lastRender) /\ pos # lastRender)
    BY <2>2, Zenon
  <2>4. lastRender = cursorPos /\ Stands(term, buffer, lastRender)
    BY <1>4, <2>3, Zenon DEF CursorInv
  <2>5. buffer \in Seq(Symbols) /\ lastRender \in 0..Len(buffer) /\ pos \in 0..Len(buffer)
    BY <1>1, <1>2, <2>4 DEF EditorInv, LineTyped
  <2>6. PICK h : h = Horizontal(v, Place(pos).col - Place(lastRender).col)
    OBVIOUS
  <2>7. Stands(h, buffer, pos)
    BY <2>1, <2>3, <2>4, <2>5, <2>6, MoveStands
  <2> QED  BY <1>1, <1>2, <2>2, <2>6, <2>7, Zenon
<1> QED  BY <1>3, <1>4

LEMMA InsertCursor ==
  ASSUME EditorInv, EditorInv', ScreenInv, CursorInv, Insert
  PROVE  CursorInv'
<1>1. PICK clean \in Typed :
        /\ buffer' = SubSeq(buffer, 1, cursorPos) \o clean
                       \o SubSeq(buffer, cursorPos + 1, Len(buffer))
        /\ cursorPos' = cursorPos + Len(clean)
        /\ IF cursorPos = Len(buffer) /\ lastRender # NotRendered
           THEN /\ term' = Write(term, clean)
                /\ lastRender' = cursorPos'
                /\ edged' = (edged \/ (AtRightEdge(lastRender) /\ term.col < Cols))
                /\ astray' = (astray \/ (AtRightEdge(lastRender) /\ term.col < Cols))
                /\ UNCHANGED leftover
           ELSE /\ refreshLine(term, lastRender, buffer', cursorPos')
                /\ astray' = FALSE
                /\ UNCHANGED edged
  BY Zenon DEF Insert
<1>2. CASE ~(cursorPos = Len(buffer) /\ lastRender # NotRendered)
  <2>1. refreshLine(term, lastRender, buffer', cursorPos')
    BY <1>1, <1>2, Zenon
  <2> QED  BY <2>1, KeyCursor
<1>3. CASE cursorPos = Len(buffer) /\ lastRender # NotRendered
  <2> SUFFICES ASSUME ~astray' PROVE lastRender' = cursorPos' /\ Stands(term', buffer', cursorPos')
    BY Zenon DEF CursorInv
  <2>1. /\ term' = Write(term, clean) /\ lastRender' = cursorPos'
        /\ astray' = (astray \/ (AtRightEdge(lastRender) /\ term.col < Cols))
    BY <1>1, <1>3, Zenon
  <2>2. ~astray /\ ~(AtRightEdge(lastRender) /\ term.col < Cols)
    BY <2>1, Zenon
  <2>3. lastRender = cursorPos /\ Stands(term, buffer, cursorPos)
    BY <1>3, <2>2, Zenon DEF CursorInv
  <2>4. /\ Stands(term, buffer, Len(buffer))
        /\ ~(AtRightEdge(Len(buffer)) /\ term.col < Cols)
    BY <1>3, <2>2, <2>3, Zenon
  <2>5. buffer \in Seq(Symbols) /\ clean \in Seq(Symbols) /\ Len(clean) \in Nat
    BY TextsTyped DEF EditorInv, LineTyped
  <2>6. buffer' = buffer \o clean
    BY <1>1, <1>3, <2>5, AppendLemma, Zenon
  <2>7. cursorPos' = Len(buffer')
    BY <1>1, <1>3, <2>5, <2>6, LongerLine
  <2>8. Stands(term', buffer', Len(buffer'))
    BY <2>1, <2>4, <2>5, <2>6, TypeStands, Zenon
  <2> QED  BY <2>1, <2>7, <2>8, Zenon
<1> QED  BY <1>2, <1>3

LEMMA EnterCursor ==
  ASSUME ScreenInv, EnterLocal \/ EnterCommand
  PROVE  CursorInv'
<1>1. CASE EnterLocal
  <2>1. buffer' = <<>> /\ cursorPos' = 0 /\ lastRender' = 0
    BY <1>1, Zenon DEF EnterLocal, Submitted
  <2>2. PICK next : /\ next \in {NewLine(term), NewLine(NewLine(term))}
                    /\ term' = Redrawn(next, NotRendered, <<>>, 0)
    BY <1>1, Zenon DEF EnterLocal
  <2>3. IsScreen(next)
    BY <2>2, NewLineTyped DEF ScreenInv, ScreenTyped
  <2>4. Stands(Redrawn(next, NotRendered, <<>>, 0), <<>>, 0)
    BY <2>3, EmptyStands
  <2> QED  BY <2>1, <2>2, <2>4, Zenon DEF CursorInv
<1>2. CASE EnterCommand
  BY <1>2, Zenon DEF EnterCommand, CursorInv
<1> QED  BY <1>1, <1>2

(* The redraws of the session: the late answer, and the failed submission.   *)
LEMMA SessionCursor ==
  ASSUME EditorInv, ScreenInv, CommandNotSent \/ Answer
  PROVE  CursorInv'
<1>1. /\ buffer \in Seq(Symbols) /\ Len(buffer) \in Nat /\ cursorPos \in 0..Len(buffer)
      /\ IsScreen(NewLine(term)) /\ IsScreen(NewLine(NewLine(term)))
  BY LenProperties, NewLineTyped DEF EditorInv, LineTyped, ScreenInv, ScreenTyped
<1>2. CASE CommandNotSent
  <2>1. /\ refreshLine(NewLine(NewLine(term)), lastRender, <<>>, 0)
        /\ astray' = (buffer # <<>>) /\ buffer' = buffer /\ cursorPos' = cursorPos
    BY <1>2, Zenon DEF CommandNotSent, lineVars
  <2>2. ~astray' => <<>> = buffer' /\ 0 = cursorPos'
    <3>1. ~astray' => buffer = <<>>
      BY <2>1, Zenon
    <3>2. buffer = <<>> => cursorPos = 0
      BY <1>1, EmptyLine
    <3> QED  BY <2>1, <3>1, <3>2, Zenon
  <2>3. <<>> \in Seq(Symbols) /\ 0 \in 0..Len(<<>>)
    BY EmptyLine
  <2> QED  BY <1>1, <2>1, <2>2, <2>3, RedrawCursor
<1>3. CASE Answer
  <2>1. PICK t \in {NewLine(term), NewLine(NewLine(term))} :
          refreshLine(t, lastRender, buffer, Len(buffer))
    BY <1>3, Zenon DEF Answer
  <2>2. astray' = (cursorPos # Len(buffer)) /\ buffer' = buffer /\ cursorPos' = cursorPos
    BY <1>3, Zenon DEF Answer, lineVars
  <2>3. ~astray' => buffer = buffer' /\ Len(buffer) = cursorPos'
    BY <2>2, Zenon
  <2>4. IsScreen(t) /\ Len(buffer) \in 0..Len(buffer)
    BY <1>1, <2>1
  <2> QED  BY <1>1, <2>1, <2>3, <2>4, RedrawCursor
<1> QED  BY <1>2, <1>3

LEMMA InitCursor == Init => CursorInv
<1> SUFFICES ASSUME Init PROVE CursorInv
  OBVIOUS
<1>1. /\ buffer = <<>> /\ cursorPos = 0 /\ lastRender = 0
      /\ term = Redrawn(NewLine(Banner), NotRendered, <<>>, 0)
  BY DEF Init
<1>2. IsScreen(NewLine(Banner))
  BY BannerIsScreen, NewLineTyped
<1>3. Stands(Redrawn(NewLine(Banner), NotRendered, <<>>, 0), <<>>, 0)
  BY <1>2, EmptyStands
<1> QED  BY <1>1, <1>3, Zenon DEF CursorInv

LEMMA NextCursor ==
  EditorInv /\ EditorInv' /\ ScreenInv /\ CursorInv /\ [Next]_vars => CursorInv'
<1> SUFFICES ASSUME EditorInv, EditorInv', ScreenInv, CursorInv, [Next]_vars PROVE CursorInv'
  OBVIOUS
<1>1. CASE Backspace \/ Delete \/ Older \/ Newer \/ Prefill
  BY <1>1, KeysCursor
<1>2. CASE Move \/ Insert
  BY <1>2, MoveCursor, InsertCursor
<1>3. CASE EnterLocal \/ EnterCommand
  BY <1>3, EnterCursor
<1>4. CASE CommandNotSent \/ Answer
  BY <1>4, SessionCursor
<1>5. CASE Chunk
  <2>1. astray' = TRUE
    BY <1>5, Zenon DEF Chunk
  <2> QED  BY <2>1, Zenon DEF CursorInv
<1>6. CASE CommandSent \/ CommitStatus \/ SocketCloses \/ UNCHANGED vars
  <2>1. UNCHANGED <<term, lastRender, astray, buffer, cursorPos>>
    BY <1>6 DEF CommandSent, CommitStatus, SocketCloses, vars, lineVars, screenVars
  <2> QED  BY <2>1, Zenon DEF CursorInv
<1> QED  BY <1>1, <1>2, <1>3, <1>4, <1>5, <1>6, Zenon DEF Next

(* The inductive invariant of the cursor. *)
THEOREM CursorInvariant == Spec => []CursorInv
<1>1. Init => CursorInv
  BY InitCursor
<1>2. EditorInv /\ EditorInv' /\ ScreenInv /\ CursorInv /\ [Next]_vars => CursorInv'
  BY NextCursor
<1> QED  BY <1>1, <1>2, EditorInvariant, ScreenInvariant, PTL DEF Spec

(* Where refreshLine, moveCursorTo or the fast path of onData() has drawn    *)
(* the line last, it is written out and the cursor stands at cursorPos in    *)
(* it, whatever was on the screen before; until output comes over it, an     *)
(* answer or a failed submission draws it otherwise, or a cursor at the      *)
(* right edge is relied on.                                                  *)
THEOREM CursorAlwaysEditPoint == Spec => []CursorIsEditPoint
<1>1. EditorInv /\ ScreenInv /\ CursorInv => CursorIsEditPoint
  <2> SUFFICES ASSUME EditorInv, ScreenInv, CursorInv, lastRender # NotRendered, ~astray,
                      NEW start, start = term.row - Place(cursorPos).row - 1
               PROVE  /\ start >= 0 /\ start + Place(Len(buffer)).row < term.height
                      /\ \A n \in DOMAIN Line : term.cells[start * Cols + n] = Line[n]
                      /\ Place(cursorPos).col - term.col \in
                           {0} \cup (IF AtRightEdge(cursorPos) THEN {1} ELSE {})
    BY Zenon DEF CursorIsEditPoint
  <2>1. PICK above : StandsFrom(term, above, buffer, cursorPos)
    BY Zenon DEF CursorInv, Stands
  <2>2. above \in Nat /\ Drawn(term, above, buffer) /\ CursorFrom(term, above, cursorPos)
    BY <2>1, Zenon DEF StandsFrom
  <2>3. buffer \in Seq(Symbols) /\ cursorPos \in Nat
    BY LenProperties DEF EditorInv, LineTyped
  <2>4. start = above
    <3>1. Place(cursorPos).row \in Nat
      BY <2>3, PlaceLemma
    <3> QED  BY <2>2, <3>1 DEF CursorFrom
  <2>5. DOMAIN Line = 1..LineLen(buffer)
    <3>1. Line \in Seq(Symbols) /\ Len(Line) = LineLen(buffer)
      BY <2>3, LineLemma, Zenon DEF Line
    <3> QED  BY <3>1, LenProperties, Zenon
  <2>6. start >= 0
    BY <2>2, <2>4
  <2> QED  BY <2>2, <2>4, <2>5, <2>6, Zenon DEF Drawn, CursorFrom, Line
<1> QED  BY <1>1, EditorInvariant, ScreenInvariant, CursorInvariant, PTL

=============================================================================
