------------------------------ MODULE Console ------------------------------
(***************************************************************************)
(* The line editor of the console (console.c) and the shell that reads     *)
(* from it and completes its lines (sh.c).  cons.lock is held throughout   *)
(* consoleintr(), consoleread() and console_print_and_redraw(), so each    *)
(* key and each byte read is one action.  What the screen shows, which     *)
(* tab_press_count and start_pos serve, is left out.                       *)
(***************************************************************************)
EXTENDS Integers, Sequences, FiniteSetsExt, SequencesExt

CONSTANTS INPUT_BUF,      \* size of input.buf
          HISTORY_SIZE,   \* size of insert_history
          MaxKeys         \* bound: the number of keys pressed

\* A letter is the number of the key press that typed it, so all letters differ.
Space == 0
Newline == -1
TabByte == -2
CtrlD == -5

Code == [space |-> Space, enter |-> Newline, tab |-> TabByte, copy |-> -3, kill_line |-> -4]

Keys == {"letter", "bs", "left", "right", "word_left", "word_right", "undo", "select",
         "paste"} \cup DOMAIN Code

ASSUME ConsoleAssumption ==
  INPUT_BUF \in Nat \ {0} /\ HISTORY_SIZE \in Nat /\ MaxKeys \in Nat

VARIABLES
  buf, r, w, e, cursor,                     \* input
  select_mode, select_anchor, select_start, select_end,
  clipboard,                                \* clipboard[0..clipboard_len)
  history,                                  \* insert_history[0..history_pos)
  autocomplete_active, saved,               \* saved_buf, saved_r, ..., saved_cursor
  overrun,      \* consoleintr() has accessed memory outside input.buf
  spoilt,       \* a key came at a moment that the code does not provide for, see Spoils
  tracked,      \* history holds the place of every character of the line, see Tracks
  line,         \* the shell's buf: what gets() has read so far
  completing,   \* the shell looks for completions of line
  exited,       \* the shell has read an end of file
  got,          \* all bytes the shell has read, those of lines not finished excepted
  keys          \* number of keys pressed

inputVars  == <<buf, r, w, e, cursor>>
selectVars == <<select_mode, select_anchor, select_start, select_end>>
tabVars    == <<autocomplete_active, saved>>
shellVars  == <<line, completing, exited, got>>
vars == <<buf, r, w, e, cursor, select_mode, select_anchor, select_start, select_end,
          clipboard, history, autocomplete_active, saved, overrun, spoilt, tracked, line,
          completing, exited, got, keys>>

Input == [buf |-> buf, r |-> r, w |-> w, e |-> e, cursor |-> cursor]

SetInput(in) ==
  buf' = in.buf /\ r' = in.r /\ w' = in.w /\ e' = in.e /\ cursor' = in.cursor

\* consoleinit()
Init ==
  /\ buf = [i \in 0..INPUT_BUF-1 |-> Space] /\ r = 0 /\ w = 0 /\ e = 0 /\ cursor = 0
  /\ select_mode = 0 /\ select_anchor = 0 /\ select_start = 0 /\ select_end = 0
  /\ clipboard = <<>> /\ history = <<>>
  /\ autocomplete_active = FALSE /\ saved = Input
  /\ overrun = FALSE /\ spoilt = FALSE /\ tracked = TRUE
  /\ line = <<>> /\ completing = FALSE /\ exited = FALSE /\ got = <<>>
  /\ keys = 0
-----------------------------------------------------------------------------
(***************************************************************************)
(* Helpers.                                                                *)
(***************************************************************************)

\* memmove(&b[dst], &b[src], n): the indexes are not taken modulo INPUT_BUF.
InBuffer(dst, src, n) == n = 0 \/ (n > 0 /\ dst + n <= INPUT_BUF /\ src + n <= INPUT_BUF)

Memmove(b, dst, src, n) ==
  [i \in DOMAIN b |-> IF i \in dst..dst+n-1 THEN b[src + i - dst] ELSE b[i]]

\* The bytes of input.buf from index i to index j-1.
Bytes(i, j) == [k \in 1..(j - i) |-> buf[(i + k - 1) % INPUT_BUF]]

history_adjust_nothing(h, pos) == h

history_adjust_after_insert(h, pos) ==
  [i \in DOMAIN h |-> IF h[i] >= pos THEN h[i] + 1 ELSE h[i]]

history_adjust_after_delete(h, pos) ==
  [i \in DOMAIN h |-> IF h[i] > pos THEN h[i] - 1 ELSE h[i]]

\* The history once a character has been inserted at pos.
Remember(h, pos) ==
  LET adjusted == history_adjust_after_insert(h, pos)
  IN IF Len(h) < HISTORY_SIZE THEN Append(adjusted, pos) ELSE adjusted

\* input with one character c inserted at the cursor.
Inserted(in, c) ==
  [in EXCEPT !.buf = [Memmove(@, in.cursor + 1, in.cursor, in.e - in.cursor)
                        EXCEPT ![in.cursor % INPUT_BUF] = c],
             !.e = @ + 1, !.cursor = @ + 1]

\* The characters from the cursor on, if any, can be moved up by one.
CanInsert(in) ==
  in.cursor >= in.e \/ InBuffer(in.cursor + 1, in.cursor, in.e - in.cursor)

IsSpace(i) == buf[i % INPUT_BUF] = Space

Editing == select_mode # 2

Full == e - r >= INPUT_BUF

\* A key is pressed while the shell completes a line (the redraw will forget it), a line
\* ends in a full buffer (which is not looked at), a selection is replaced by a tab (for
\* which nothing has been saved), or a line is completed before the line before it has
\* been read (which the redraw will hand over again).
Spoils(k) ==
  \/ autocomplete_active
  \/ k \in {"enter", "tab"} /\ Full
  \/ k = "tab" /\ (~Editing \/ r # w)

\* Characters are added by typing only while there is room in history, and removed by
\* C('Z') only.
Tracks(k) ==
  /\ Editing /\ k \notin {"bs", "kill_line", "paste"}
  /\ \/ k = "enter"
     \/ tracked /\ (k \in {"letter", "space", "copy", "tab"} => Len(history) < HISTORY_SIZE)

\* Key k arrives.  Bound: no more do once the buffer is spoilt.
Press(k) ==
  /\ ~overrun /\ ~spoilt
  /\ keys < MaxKeys /\ keys' = keys + 1
  /\ spoilt' = Spoils(k) /\ tracked' = Tracks(k)
  /\ UNCHANGED shellVars

Overrun ==
  overrun' = TRUE /\ UNCHANGED <<inputVars, selectVars, clipboard, history, tabVars>>
-----------------------------------------------------------------------------
(***************************************************************************)
(* consoleintr(): keys while nothing is selected.                          *)
(***************************************************************************)

\* default: a character, unless the buffer is full.  C('C') is one here.
InsertChar(k) ==
  LET c == IF k = "letter" THEN keys + 1 ELSE Code[k]
  IN /\ Press(k) /\ Editing /\ k \in {"letter", "space", "copy"}
     /\ IF Full THEN UNCHANGED <<inputVars, history, overrun, selectVars, clipboard, tabVars>>
        ELSE IF ~CanInsert(Input) THEN Overrun
        ELSE /\ SetInput(Inserted(Input, c)) /\ history' = Remember(history, cursor)
             /\ UNCHANGED <<overrun, selectVars, clipboard, tabVars>>

BackspaceAnywhere ==
  /\ Press("bs") /\ Editing
  /\ buf' = Memmove(buf, cursor - 1, cursor, e - cursor)
  /\ e' = e - 1 /\ cursor' = cursor - 1
  /\ UNCHANGED <<r, w, history, selectVars, clipboard, tabVars, overrun>>

Backspace ==
  /\ Press("bs") /\ Editing
  /\ IF cursor > w /\ ~InBuffer(cursor - 1, cursor, e - cursor) THEN Overrun ELSE
     /\ IF cursor > w
        THEN /\ history' = history_adjust_after_delete(history, cursor - 1)
             /\ buf' = Memmove(buf, cursor - 1, cursor, e - cursor)
             /\ e' = e - 1 /\ cursor' = cursor - 1
        ELSE UNCHANGED <<history, buf, e, cursor>>
     /\ UNCHANGED <<r, w, selectVars, clipboard, tabVars, overrun>>

KillLine ==
  /\ Press("kill_line") /\ Editing
  /\ e' = w /\ cursor' = w
  /\ UNCHANGED <<buf, r, w, selectVars, clipboard, history, tabVars, overrun>>

\* C('Z'): delete the character inserted last, if its position is still in the line.
Undo ==
  /\ Press("undo") /\ Editing
  /\ LET pos == Last(history) IN
     IF history = <<>> THEN UNCHANGED <<inputVars, history, overrun>> ELSE
     IF pos >= e THEN history' = Front(history) /\ UNCHANGED <<inputVars, overrun>> ELSE
     IF InBuffer(pos, pos + 1, e - (pos + 1))
     THEN /\ buf' = Memmove(buf, pos, pos + 1, e - (pos + 1))
          /\ e' = e - 1 /\ cursor' = pos
          /\ history' = history_adjust_after_delete(Front(history), pos)
          /\ UNCHANGED <<r, w, overrun>>
     ELSE overrun' = TRUE /\ UNCHANGED <<inputVars, history>>
  /\ UNCHANGED <<selectVars, clipboard, tabVars>>

\* C('S'): the first press sets one end of the selection, the second the other.
Select ==
  /\ Press("select") /\ Editing
  /\ IF select_mode = 0
     THEN /\ select_anchor' = cursor /\ select_mode' = 1
          /\ UNCHANGED <<select_start, select_end>>
     ELSE /\ select_start' = Min({cursor, select_anchor})
          /\ select_end' = Max({cursor, select_anchor}) + 1
          /\ select_mode' = IF select_start' >= select_end' - 1 THEN 0 ELSE 2
          /\ UNCHANGED select_anchor
  /\ UNCHANGED <<inputVars, clipboard, history, tabVars, overrun>>

\* C('V')
Paste ==
  /\ Press("paste") /\ Editing
  /\ LET n == Len(clipboard)
         moved == Memmove(buf, cursor + n, cursor, e - cursor)
     IN IF n > 0 /\ e + n < INPUT_BUF
        THEN /\ buf' = [i \in DOMAIN buf |->
                          IF i \in cursor..cursor+n-1 THEN clipboard[i - cursor + 1]
                                                      ELSE moved[i]]
             /\ e' = e + n /\ cursor' = cursor + n
        ELSE UNCHANGED <<buf, e, cursor>>
  /\ UNCHANGED <<r, w, selectVars, clipboard, history, tabVars, overrun>>

CursorKey(k, to) ==
  /\ Press(k) /\ Editing
  /\ cursor' = to
  /\ UNCHANGED <<buf, r, w, e, selectVars, clipboard, history, tabVars, overrun>>

Left == CursorKey("left", IF cursor > w THEN cursor - 1 ELSE cursor)

Right == CursorKey("right", IF cursor < e THEN cursor + 1 ELSE cursor)

\* The first index from i on that is the end of the line or that of a character which
\* is no space (SkipSpaces) or is one (SkipWord).
SkipSpaces(i) == IF i >= e THEN i ELSE Min({j \in i..e : j = e \/ ~IsSpace(j)})
SkipWord(i) == IF i >= e THEN i ELSE Min({j \in i..e : j = e \/ IsSpace(j)})

\* C('D'): to the beginning of the next word, if there is one.
WordRight ==
  LET next == SkipSpaces(SkipWord(SkipSpaces(cursor)))
  IN CursorKey("word_right", IF next < e THEN next ELSE cursor)

\* The last index up to i that is the beginning of the line or follows a character
\* which is no space (BackOverSpaces) or is one (BackOverWord).
BackOverSpaces(i) == IF i <= w THEN i ELSE Max({j \in w..i : j = w \/ ~IsSpace(j - 1)})
BackOverWord(i) == IF i <= w THEN i ELSE Max({j \in w..i : j = w \/ IsSpace(j - 1)})

\* C('A'): to the beginning of this word, or else of the one before.
WordLeft ==
  LET boundary == cursor > w /\ IsSpace(cursor - 1)
      start == IF boundary THEN BackOverSpaces(cursor - 1) ELSE cursor
  IN CursorKey("word_left", BackOverWord(start))

EnterAtCursor ==
  /\ Press("enter") /\ Editing
  /\ buf' = [buf EXCEPT ![cursor % INPUT_BUF] = Newline]
  /\ e' = e + 1 /\ w' = e + 1 /\ cursor' = e + 1
  /\ select_mode' = 0 /\ history' = <<>>
  /\ UNCHANGED <<r, select_anchor, select_start, select_end, clipboard, tabVars, overrun>>

\* '\n' ends the line wherever the cursor is, and hands it to the reader.
Enter ==
  /\ Press("enter") /\ Editing
  /\ buf' = [buf EXCEPT ![e % INPUT_BUF] = Newline]
  /\ e' = e + 1 /\ w' = e + 1 /\ cursor' = e + 1
  /\ select_mode' = 0 /\ history' = <<>>
  /\ UNCHANGED <<r, select_anchor, select_start, select_end, clipboard, tabVars, overrun>>

\* '\t' saves the whole of input and hands the unfinished line to the reader; the
\* cursor stays where it is.
Tab ==
  /\ Press("tab") /\ Editing
  /\ IF autocomplete_active THEN UNCHANGED <<inputVars, tabVars>>
     ELSE /\ autocomplete_active' = TRUE
          /\ saved' = Input
          /\ buf' = [buf EXCEPT ![e % INPUT_BUF] = TabByte]
          /\ e' = e + 1 /\ w' = e + 1 /\ UNCHANGED <<r, cursor>>
  /\ UNCHANGED <<selectVars, clipboard, history, overrun>>
-----------------------------------------------------------------------------
(***************************************************************************)
(* consoleintr(): keys while a stretch of the line is selected.            *)
(***************************************************************************)
Leaving == {"left", "right", "word_left", "word_right", "select", "undo", "paste"}

Deselect(k) ==
  /\ Press(k) /\ ~Editing /\ k \in Leaving
  /\ select_mode' = 0
  /\ UNCHANGED <<inputVars, select_anchor, select_start, select_end, clipboard, history,
                 tabVars, overrun>>

\* C('C')
Copy ==
  LET len == Min({select_end - select_start, INPUT_BUF})
  IN /\ Press("copy") /\ ~Editing
     /\ IF select_start + len > INPUT_BUF THEN Overrun
        ELSE /\ clipboard' = Bytes(select_start, select_start + len)
             /\ UNCHANGED <<inputVars, selectVars, history, tabVars, overrun>>

\* Any other key replaces the selection, C('H') by nothing.
Replace(k) ==
  LET n   == IF k = "bs" THEN 0 ELSE 1
      len == select_end - select_start
      c   == IF k = "letter" THEN keys + 1 ELSE Code[k]
      moved == Memmove(buf, select_start + n, select_end, e - select_end)
  IN /\ Press(k) /\ ~Editing /\ k \notin Leaving \cup {"copy"}
     /\ IF \/ ~InBuffer(select_start + n, select_end, e - select_end)
           \/ n = 1 /\ select_start >= INPUT_BUF
        THEN Overrun
        ELSE /\ select_mode' = 0
             /\ buf' = IF n = 0 THEN moved ELSE [moved EXCEPT ![select_start] = c]
             /\ e' = e - len + n /\ cursor' = select_start + n
             /\ history' = IF n = 1 THEN Remember(history, select_start) ELSE
                  [i \in DOMAIN history |->
                     IF history[i] <= select_start THEN history[i]
                     ELSE Max({select_start, history[i] - len})]
             /\ UNCHANGED <<r, w, select_anchor, select_start, select_end, clipboard,
                            tabVars, overrun>>
-----------------------------------------------------------------------------
(***************************************************************************)
(* The shell.                                                              *)
(***************************************************************************)

\* gets() ends a line; main() of the shell completes one that ends in a tab.
gets(c) == IF c = Newline THEN <<>> ELSE Append(line, c)
EndsInTab(c) == c = TabByte

\* read(0, &c, 1) in gets(), which stops at the end of a line or at a tab; a ^D is an
\* end of file, upon which the shell exits.
consoleread ==
  LET c == buf[r % INPUT_BUF]
  IN /\ ~overrun /\ ~completing /\ ~exited /\ r # w
     /\ exited' = (c = CtrlD)
     /\ got' = Append(got, c)
     /\ line' = gets(c) /\ completing' = EndsInTab(c)
     /\ r' = r + 1
     /\ UNCHANGED <<buf, w, e, cursor, selectVars, clipboard, history, tabVars, overrun,
                    spoilt, tracked, keys>>

\* find_and_send_completions() finds nothing, and does not call the kernel.
NoCompletion ==
  /\ ~overrun /\ completing
  /\ line' = <<>> /\ completing' = FALSE
  /\ UNCHANGED <<inputVars, selectVars, clipboard, history, tabVars, overrun, spoilt, tracked,
                 exited, got, keys>>

RedrawStaysActive ==
  /\ ~overrun /\ completing
  /\ SetInput(saved)
  /\ line' = <<>> /\ completing' = FALSE
  /\ got' = SubSeq(got, 1, Min({saved.w, Len(got)}))
  /\ UNCHANGED <<history, selectVars, clipboard, tabVars, overrun, spoilt, tracked, exited, keys>>

\* It finds completions and calls console_print_and_redraw(), which puts input back as
\* it was when the tab was pressed.  The rest of a single match is then inserted at the
\* cursor: here one letter, numbered like the tab, or none if the word was complete.
console_print_and_redraw ==
  /\ ~overrun /\ completing
  /\ \/ /\ SetInput(saved)
        /\ UNCHANGED <<history, spoilt>>
     \/ /\ CanInsert(saved)
        /\ SetInput(Inserted(saved, keys))
        /\ history' = Remember(history, saved.cursor)
        /\ spoilt' = (spoilt \/ saved.e - saved.r >= INPUT_BUF)
  /\ autocomplete_active' = FALSE
  /\ line' = <<>> /\ completing' = FALSE
  /\ got' = SubSeq(got, 1, Min({saved.w, Len(got)}))
  /\ UNCHANGED <<selectVars, clipboard, saved, overrun, tracked, exited, keys>>

\* The same where moving the rest of the line leaves the buffer.
RedrawOverrun ==
  /\ ~overrun /\ completing /\ ~CanInsert(saved)
  /\ Overrun /\ UNCHANGED <<shellVars, spoilt, tracked, keys>>

consoleintr ==
  \/ \E k \in Keys : InsertChar(k) \/ Deselect(k) \/ Replace(k)
  \/ Backspace \/ KillLine \/ Undo \/ Select \/ Copy \/ Paste
  \/ Left \/ Right \/ WordLeft \/ WordRight \/ Enter \/ Tab

Next ==
  consoleintr \/ consoleread \/ NoCompletion \/ console_print_and_redraw \/ RedrawOverrun

\* The shell reads what there is, and answers a tab.
Fairness == WF_vars(consoleread) /\ WF_vars(NoCompletion \/ console_print_and_redraw)
Spec == Init /\ [][Next]_vars /\ Fairness
-----------------------------------------------------------------------------
(***************************************************************************)
(* Properties.                                                             *)
(***************************************************************************)

\* Type invariant: input.buf holds bytes, and the history stays within its array.
TypeOK ==
  /\ buf \in [0..INPUT_BUF-1 -> -4..MaxKeys]
  /\ r \in Nat /\ w \in Nat /\ e \in Nat /\ cursor \in Nat
  /\ spoilt \in BOOLEAN /\ tracked \in BOOLEAN
  /\ select_mode \in 0..2 /\ Len(history) <= HISTORY_SIZE /\ Len(clipboard) <= INPUT_BUF

\* The indexes of input keep their order: nothing is read that was not handed over,
\* the cursor is within the line, and the buffer holds no more than it has room for.
\* While a completion is under way the cursor is left behind.
IndicesOrdered ==
  ~spoilt =>
    /\ r <= w /\ w <= e /\ cursor <= e /\ e - r <= INPUT_BUF
    /\ ~autocomplete_active => w <= cursor

\* The state of the line is one that the keys can be applied to.
LineSound == TypeOK /\ IndicesOrdered

\* What the reader has got or can get, up to index n.
Delivered(n) == SubSeq(got \o Bytes(r, w), 1, n)

\* The keys edit a line, a finished line reaches the shell whole and in order, and a
\* completion inserts at the cursor or changes nothing, although the kernel hands the
\* unfinished line to the shell and takes it back in between.
Editor == INSTANCE LineEditor WITH
  text <- IF autocomplete_active
          THEN [k \in 1..(saved.e - saved.w) |-> saved.buf[(saved.w + k - 1) % INPUT_BUF]]
          ELSE Bytes(w, e),
  cur <- IF autocomplete_active THEN saved.cursor - saved.w ELSE cursor - w,
  out <- Delivered(IF autocomplete_active THEN saved.w ELSE w)

IsLineEditor ==
  Editor!Init /\ [][~spoilt' => Editor!Next \/ UNCHANGED Editor!vars]_vars

\* Position i begins a word.
WordStart(i) == i < e /\ ~IsSpace(i) /\ (i = w \/ IsSpace(i - 1))

\* C('A') moves to the nearest beginning of a word on the left, or of the line; C('D')
\* to the nearest on the right, or stays.  From a space C('D') goes one word further.
WordMotion ==
  /\ (WordRight /\ ~spoilt') =>
       LET starts == {i \in cursor+1..e : WordStart(i)}
           beyond == IF cursor < e /\ IsSpace(cursor) /\ starts # {}
                     THEN starts \ {Min(starts)} ELSE starts
       IN cursor' = IF beyond = {} THEN cursor ELSE Min(beyond)
  /\ (WordLeft /\ ~spoilt') =>
       LET starts == {i \in w..cursor-1 : WordStart(i)}
       IN cursor' = IF starts = {} THEN w ELSE Max(starts)

\* If history is complete, C('Z') takes back the latest of the letters, wherever the
\* cursor has been moved since and however many have been taken back before.
UndoRemovesLatest ==
  (tracked /\ Undo /\ e > w /\ ~spoilt' /\ ~overrun'
     /\ \A c \in ToSet(Bytes(w, e)) : c > 0) =>
    Bytes(w, e)' = SelectSeq(Bytes(w, e), LAMBDA c : c # Max(ToSet(Bytes(w, e))))

\* The line with what is between indexes i and j-1 replaced by `new'.
Around(i, new, j) == Bytes(w, i) \o new \o Bytes(j, e)

\* A key that replaces the selection, the character at its far end included, leaves the
\* rest of the line alone, and so does a paste of what was copied.
SelectionEdits ==
  (~overrun' /\ ~spoilt') =>
    /\ Replace("bs") => Bytes(w, e)' = Around(select_start, <<>>, select_end)
    /\ Replace("letter") => Bytes(w, e)' = Around(select_start, <<keys'>>, select_end)
    /\ (Paste /\ e' # e) => Bytes(w, e)' = Around(cursor, clipboard, cursor)

\* The keys do what they are for.
KeyEffects == [][WordMotion /\ UndoRemovesLatest /\ SelectionEdits]_vars

\* The tab has been read, and find_and_send_completions() has found nothing.
NoMatch == autocomplete_active /\ ~completing /\ r = w /\ r > saved.w

\* A tab is always answered, so that the next one is not ignored, if there is a match.
TabAnswered ==
  []~spoilt => (autocomplete_active ~> (~autocomplete_active \/ overrun \/ NoMatch))

\* A key never makes the kernel access memory outside input.buf: a fault "in kernel" is
\* "our mistake" (trap.c).
KernelStaysInBuffer == ~overrun
=============================================================================
