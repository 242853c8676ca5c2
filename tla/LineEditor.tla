------------------------------- MODULE LineEditor -------------------------------
(***************************************************************************)
(* The line editor of Terminal.jsx over the xterm screen: the buffer and   *)
(* the cursor it edits, the history, and refreshLine, moveCursorTo and the *)
(* write of a typed character, which all move the screen's cursor relative *)
(* to where the last of them is believed to have left it (lastRenderRef).  *)
(*                                                                         *)
(* The screen is the rows from the last line of output on.  Its cursor may *)
(* stand after the last column (col = Cols): xterm wraps only when the     *)
(* next character comes, and any cursor movement forgets that wrap.  The   *)
(* width does not change, the line fits on the screen, and a movement that *)
(* has gone astray stops at the first row.                                 *)
(***************************************************************************)
EXTENDS Integers, SequencesExt, FiniteSetsExt

CONSTANTS
  Cols,      \* term.cols
  Prompt,    \* PROMPT
  Typed,     \* what one onData() call can insert, normalised
  Prefills,  \* prefill.command
  MaxLen,    \* bound: length of the buffer
  Chunks,    \* bound: chunks of output
  Commands,  \* bound: lines submitted, which the history keeps
  Late       \* bound: frames that come when no command is in flight

(* The characters of the prompt and of all that can be entered. *)
Texts == {Prompt} \cup Typed \cup Prefills
Symbols == UNION {Range(text) : text \in Texts}

ASSUME LineEditorAssumption ==
  /\ Cols \in Nat \ {0} /\ Len(Prompt) > 0
  /\ Texts \subseteq Seq(Symbols)
  /\ {MaxLen, Chunks, Commands, Late} \subseteq Nat

VARIABLES
  buffer,        \* lineBufferRef
  cursorPos,     \* cursorPosRef
  history,       \* historyRef
  historyIndex,  \* historyIndexRef
  lastRender,    \* lastRenderRef's cursorPos, or NotRendered for null
  locked,        \* lockedRef
  awaiting,      \* submissions that await getToken()
  running,       \* frames sent and not answered
  late,          \* late frames
  chunks,        \* chunks of output
  term,          \* height, cells, and the cursor: 1-based row, 0-based col
  exposed,       \* history: a line may be on the screen when output comes
  edged,         \* history: a cursor at the right edge was moved or typed at
  leftover,      \* history: Enter was pressed above the last row of the line
  astray         \* history: the cursor was put elsewhere since the last redraw

lineVars    == <<buffer, cursorPos, history, historyIndex>>
sessionVars == <<locked, awaiting, running, late, chunks>>
screenVars  == <<term, lastRender, edged, leftover, astray>>
vars == <<lineVars, sessionVars, screenVars, exposed>>

NotRendered == -1

-----------------------------------------------------------------------------
(* xterm: t.cells are the rows one after the other, of Cols cells each.      *)

Banner == [height |-> 1, row |-> 1, col |-> 0, cells |-> [i \in 1..Cols |-> "output"]]

(* Nothing is written below the last row. *)
At(t, i) == IF i \in DOMAIN t.cells THEN t.cells[i] ELSE " "

(* "\r\n" ends the rows above: they are output from now on, one row of it.  *)
NewLine(t) ==
  LET height == Max({2, t.height - t.row + 1})
  IN  [height |-> height, row |-> 2, col |-> 0,
       cells |-> [i \in 1..height * Cols |->
                    IF i <= Cols THEN "output" ELSE At(t, i + (t.row - 1) * Cols)]]

(* The wrap of a cursor after the last column comes with the next character, *)
(* which then is the next cell, and so for every one after it.               *)
Write(t, text) ==
  IF text = <<>> THEN t
  ELSE LET from == (t.row - 1) * Cols + t.col
           to == from + Len(text)
           row == (to - 1) \div Cols + 1
           height == Max({t.height, row})
       IN  [height |-> height, row |-> row, col |-> to - (row - 1) * Cols,
            cells |-> [i \in 1..height * Cols |->
                         IF i \in (from + 1)..to THEN text[i - from] ELSE At(t, i)]]

(* \r, and CSI A, B, C and D by a signed distance; none is written for 0. *)
Return(t) == [t EXCEPT !.col = 0]
Within(n, low, high) == Max({low, Min({high, n})})
Vertical(t, n) ==
  IF n = 0 THEN t
  ELSE [t EXCEPT !.row = Within(@ + n, 1, t.height), !.col = Min({@, Cols - 1})]
Horizontal(t, n) ==
  IF n = 0 THEN t ELSE [t EXCEPT !.col = Within(Min({@, Cols - 1}) + n, 0, Cols - 1)]

(* CSI K and CSI 0J, at the start of a row. *)
EraseRow(t) ==
  [t EXCEPT !.cells = [i \in DOMAIN t.cells |->
     IF i \in ((t.row - 1) * Cols + 1)..(t.row * Cols) THEN " " ELSE t.cells[i]]]
EraseBelow(t) ==
  [t EXCEPT !.height = t.row,
            !.cells = [i \in 1..t.row * Cols |-> IF i <= (t.row - 1) * Cols THEN t.cells[i] ELSE " "]]

-----------------------------------------------------------------------------
(* The editor's arithmetic *)

(* (mutated form of RowColOf: the naive formula, without the pending wrap) *)
RowColOfNaive(offset) == [row |-> offset \div Cols, col |-> offset % Cols]

RowColOf(offset) ==
  IF offset <= 0 THEN [row |-> 0, col |-> 0]
  ELSE LET row == (offset - 1) \div Cols IN [row |-> row, col |-> offset - row * Cols]

Place(pos) == RowColOf(Len(Prompt) + pos)
AtRightEdge(pos) == Place(pos).col = Cols

(* refreshLine: erase the last render (prev), write the line, go to pos. *)
Redrawn(t, prev, text, pos) ==
  LET erased == IF prev = NotRendered THEN EraseRow(Return(t))
                ELSE EraseBelow(Return(Vertical(t, -Place(prev).row)))
      written == Write(erased, Prompt \o text)
      up == Place(Len(text)).row - Place(pos).row
  IN  Horizontal(Return(Vertical(written, -up)), Place(pos).col)

refreshLine(t, prev, text, pos) ==
  /\ term' = Redrawn(t, prev, text, pos)
  /\ lastRender' = pos
  /\ leftover' = (leftover /\ prev = NotRendered)

(* moveCursorTo, or refreshLine when nothing has been rendered. *)
moveCursorTo(pos) ==
  IF lastRender = NotRendered
  THEN refreshLine(term, lastRender, buffer, pos) /\ astray' = FALSE /\ UNCHANGED edged
  ELSE LET from == Place(lastRender)
       IN  /\ term' = Horizontal(Vertical(term, Place(pos).row - from.row), Place(pos).col - from.col)
           /\ lastRender' = pos
           /\ edged' = (edged \/ (AtRightEdge(lastRender) /\ pos # lastRender))
           /\ astray' = (astray \/ (AtRightEdge(lastRender) /\ pos # lastRender))
           /\ UNCHANGED leftover

-----------------------------------------------------------------------------
(* The mount effect: the banner and the first prompt. *)
Init ==
  /\ buffer = <<>> /\ cursorPos = 0 /\ history = <<>> /\ historyIndex = 0
  /\ locked = FALSE /\ awaiting = 0 /\ running = 0 /\ late = 0 /\ chunks = 0
  /\ exposed = FALSE /\ edged = FALSE /\ leftover = FALSE /\ astray = FALSE
  /\ lastRender = 0
  /\ term = Redrawn(NewLine(Banner), NotRendered, <<>>, 0)

(* Keys, which a locked input swallows *)

(* (mutated form of Backspace: the redraw leaves the cursor at the end) *)
BackspaceThenEnd ==
  /\ ~locked /\ cursorPos > 0
  /\ buffer' = RemoveAt(buffer, cursorPos)
  /\ cursorPos' = cursorPos - 1
  /\ refreshLine(term, lastRender, buffer', Len(buffer'))
  /\ astray' = FALSE
  /\ UNCHANGED <<history, historyIndex, sessionVars, edged, exposed>>

Backspace ==
  /\ ~locked /\ cursorPos > 0
  /\ buffer' = RemoveAt(buffer, cursorPos)
  /\ cursorPos' = cursorPos - 1
  /\ refreshLine(term, lastRender, buffer', cursorPos')
  /\ astray' = FALSE
  /\ UNCHANGED <<history, historyIndex, sessionVars, edged, exposed>>

Delete ==
  /\ ~locked /\ cursorPos < Len(buffer)
  /\ buffer' = RemoveAt(buffer, cursorPos + 1)
  /\ refreshLine(term, lastRender, buffer', cursorPos)
  /\ astray' = FALSE
  /\ UNCHANGED <<cursorPos, history, historyIndex, sessionVars, edged, exposed>>

(* Left, Right, Home and End. *)
Move ==
  /\ ~locked
  /\ \E pos \in {Max({0, cursorPos - 1}), Min({Len(buffer), cursorPos + 1}), 0, Len(buffer)} :
       cursorPos' = pos /\ moveCursorTo(pos)
  /\ UNCHANGED <<buffer, history, historyIndex, sessionVars, exposed>>

(* The line becomes history[index], or empty after the last one. *)
Recall(index) ==
  /\ historyIndex' = index
  /\ buffer' = IF index < Len(history) THEN history[index + 1] ELSE <<>>
  /\ cursorPos' = Len(buffer')
  /\ refreshLine(term, lastRender, buffer', cursorPos')
  /\ astray' = FALSE
  /\ UNCHANGED <<history, sessionVars, edged, exposed>>

Older == ~locked /\ history # <<>> /\ Recall(Max({0, historyIndex - 1}))
Newer == ~locked /\ Recall(Min({Len(history), historyIndex + 1}))

(* A key or a paste.  At the end of a rendered line the terminal itself      *)
(* writes the text and wraps it.                                             *)
Insert ==
  /\ ~locked
  /\ \E clean \in Typed :
       /\ Len(buffer) + Len(clean) <= MaxLen
       /\ buffer' = SubSeq(buffer, 1, cursorPos) \o clean
                      \o SubSeq(buffer, cursorPos + 1, Len(buffer))
       /\ cursorPos' = cursorPos + Len(clean)
       /\ IF cursorPos = Len(buffer) /\ lastRender # NotRendered
          THEN /\ term' = Write(term, clean)
               /\ lastRender' = cursorPos'
               /\ edged' = (edged \/ (AtRightEdge(lastRender) /\ term.col < Cols))
               /\ astray' = (astray \/ (AtRightEdge(lastRender) /\ term.col < Cols))
               /\ UNCHANGED leftover
          ELSE /\ refreshLine(term, lastRender, buffer', cursorPos')
               /\ astray' = FALSE
               /\ UNCHANGED edged
  /\ UNCHANGED <<history, historyIndex, sessionVars, exposed>>

-----------------------------------------------------------------------------
(* Enter.  What follows on the screen starts on the next row, from a clean   *)
(* slate: nothing is rendered.                                               *)

Submitted ==
  /\ ~locked
  /\ buffer' = <<>> /\ cursorPos' = 0
  /\ exposed' = (exposed /\ awaiting + running > 0)
  /\ edged' = FALSE /\ astray' = FALSE
  /\ IF buffer = <<>> THEN UNCHANGED <<history, historyIndex>>
     ELSE history' = Append(history, buffer) /\ historyIndex' = Len(history')

(* The rows of the line below the cursor are still there. *)
RowsBelow == exposed \/ edged \/ leftover \/ Place(lastRender).row < Place(Len(buffer)).row

(* An empty line, help, or a refusal because the socket is not open: the     *)
(* editor answers by itself and prompts again.                               *)
EnterLocal ==
  /\ Submitted
  /\ Len(history') <= Commands
  /\ LET next == IF buffer = <<>> THEN NewLine(term) ELSE NewLine(NewLine(term))
     IN  term' = Redrawn(next, NotRendered, <<>>, 0)
  /\ lastRender' = 0
  /\ leftover' = RowsBelow
  /\ UNCHANGED sessionVars

EnterCommand ==
  /\ Submitted
  /\ buffer # <<>> /\ Len(history') <= Commands
  /\ locked' = TRUE
  /\ awaiting' = awaiting + 1
  /\ term' = NewLine(term)
  /\ lastRender' = NotRendered
  /\ leftover' = RowsBelow
  /\ UNCHANGED <<running, late, chunks>>

(* getToken() settles and the frame is sent, or the socket is gone. *)
CommandSent ==
  /\ awaiting > 0
  /\ awaiting' = awaiting - 1 /\ running' = running + 1
  /\ UNCHANGED <<lineVars, locked, late, chunks, screenVars, exposed>>

CommandNotSent ==
  /\ awaiting > 0
  /\ awaiting' = awaiting - 1
  /\ locked' = FALSE
  /\ refreshLine(NewLine(NewLine(term)), lastRender, <<>>, 0)
  /\ astray' = (buffer # <<>>)
  /\ exposed' = (exposed \/ awaiting' + running > 0)
  /\ UNCHANGED <<lineVars, running, late, chunks, edged>>

(* The status effect: a commit while getToken() is pending unlocks the       *)
(* input.                                                                    *)
CommitStatus ==
  /\ locked # (running > 0)
  /\ locked' = (running > 0)
  /\ exposed' = (exposed \/ awaiting > 0)
  /\ UNCHANGED <<lineVars, awaiting, running, late, chunks, screenVars>>

(* The socket closes: the frames in flight get no answer. *)
SocketCloses ==
  /\ running > 0 /\ running' = 0
  /\ UNCHANGED <<lineVars, locked, awaiting, late, chunks, screenVars, exposed>>

-----------------------------------------------------------------------------
(* Frames *)

(* A frame of a command in flight, or one that comes after its answer. *)
Arrives(answered) ==
  \/ running > 0 /\ running' = running - answered /\ UNCHANGED <<late, exposed>>
  \/ running = 0 /\ late < Late /\ late' = late + 1 /\ exposed' = TRUE /\ UNCHANGED running

Chunk ==
  /\ chunks < Chunks /\ chunks' = chunks + 1
  /\ term' \in {NewLine(term)} \cup (IF term.col < Cols THEN {Write(term, <<"output">>)} ELSE {})
  /\ astray' = TRUE
  /\ Arrives(0)
  /\ UNCHANGED <<lineVars, locked, awaiting, lastRender, edged, leftover>>

(* A quiet done is an empty row; the others end with a message.  Either way  *)
(* the line is drawn again, with the cursor at its end.                      *)
Answer ==
  /\ locked' = FALSE
  /\ \E t \in {NewLine(term), NewLine(NewLine(term))} :
       refreshLine(t, lastRender, buffer, Len(buffer))
  /\ astray' = (cursorPos # Len(buffer))
  /\ Arrives(1)
  /\ UNCHANGED <<lineVars, awaiting, chunks, edged>>

(* The page fills the line in, locked or not. *)
Prefill ==
  /\ \E command \in Prefills : buffer' = command
  /\ cursorPos' = Len(buffer')
  /\ refreshLine(term, lastRender, buffer', cursorPos')
  /\ exposed' = (exposed \/ awaiting + running > 0)
  /\ astray' = FALSE
  /\ UNCHANGED <<history, historyIndex, sessionVars, edged>>

Next ==
  \/ Backspace \/ Delete \/ Move \/ Older \/ Newer \/ Insert
  \/ EnterLocal \/ EnterCommand \/ CommandSent \/ CommandNotSent \/ CommitStatus
  \/ SocketCloses \/ Chunk \/ Answer \/ Prefill

Spec == Init /\ [][Next]_vars

-----------------------------------------------------------------------------
Line == Prompt \o buffer
Cell(n) == term.cells[Cols + n]
LastRow == 2 + (Len(Line) - 1) \div Cols
LineWritten == LastRow <= term.height /\ \A n \in DOMAIN Line : Cell(n) = Line[n]

(* As long as no output can come while a line is rendered (a prefill during  *)
(* a command, a late frame, an unlock during getToken()), and no cursor at   *)
(* the right edge was relied on, the relative movements never go astray: the *)
(* prompt follows the output, which is intact, the line is written out       *)
(* there, the cursor is where the last render put it, and nothing is left of *)
(* an earlier line unless Enter was pressed above its last row.              *)
ScreenShowsLine ==
  lastRender # NotRendered /\ ~exposed /\ ~edged =>
    /\ \A i \in 1..Cols : term.cells[i] = "output"
    /\ LineWritten
    /\ term.row = 2 + Place(lastRender).row
    /\ Place(lastRender).col - term.col \in {0} \cup (IF AtRightEdge(lastRender) THEN {1} ELSE {})
    /\ leftover \/ (/\ term.height = LastRow
                    /\ \A n \in (Len(Line) + 1)..(Cols * (LastRow - 1)) : Cell(n) = " ")

(* Where a key edits is where the eye finds the cursor: wherever the line    *)
(* was last drawn, also over output and after damage (exposed, edged), it is *)
(* written out, and the screen's cursor stands at cursorPos in it.  Not so,  *)
(* until a key draws the line again, after output over a rendered line, an   *)
(* answer that draws the cursor at the end of a line edited in the middle,   *)
(* a failed submission that draws an empty one over a prefill, and at the    *)
(* right edge.                                                               *)
CursorIsEditPoint ==
  lastRender # NotRendered /\ ~astray =>
    LET above == term.row - Place(cursorPos).row - 1
    IN  /\ above >= 0 /\ above + Place(Len(buffer)).row < term.height
        /\ \A n \in DOMAIN Line : term.cells[above * Cols + n] = Line[n]
        /\ Place(cursorPos).col - term.col \in {0} \cup (IF AtRightEdge(cursorPos) THEN {1} ELSE {})

(* Terminal.jsx:396-397: at the end of the line the terminal writes and      *)
(* wraps what is typed by itself, nothing has to be redrawn.  But a redraw   *)
(* of a line that ends at the right edge leaves the cursor on its last       *)
(* character, which the next one overwrites.                                 *)
TypedIsWritten == lastRender # NotRendered /\ ~exposed => LineWritten
=============================================================================
