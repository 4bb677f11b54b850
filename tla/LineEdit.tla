------------------------------ MODULE LineEdit ------------------------------
(***************************************************************************)
(* The line editor of keyboard.c on the terminal that is shown: the        *)
(* keyboard buffer, the command history, completion, and the hand-over of  *)
(* a line to keyboard_read.                                                *)
(*                                                                         *)
(* A key press and a click are interrupt handlers with IF clear, so each   *)
(* is one step.  The shift, Ctrl and Alt flags only select the step.       *)
(* Echoing to the screen is left out (Terminal has it).  keyboard_buffer   *)
(* is an array, since its zero bytes matter; history entries and the read  *)
(* buffer are written by strncpy, which pads, and are strings.             *)
(***************************************************************************)
EXTENDS Integers, Sequences, SequencesExt

CONSTANTS
    Letters,          \* printable characters other than the blank
    Keys,             \* those that are typed (bound)
    BufferSize,       \* keyboard.h BUFFER_SIZE
    MaxHistory,       \* keyboard.h MAX_HISTORY_CMDS
    Names,            \* the directory entries that get_executables returns
    Coords,           \* characters that screen coordinates look like when read as text
    NumCols, StartX   \* screen width, column at which the line begins

ASSUME LineConstants ==
    /\ Letters \cap {"nul", "space", "newline"} = {}
    /\ BufferSize \in Nat /\ BufferSize >= 4
    /\ MaxHistory \in Nat \ {0}
    /\ Keys \subseteq Letters \cup {"space"}
    /\ Names \in Seq(Seq(Letters) \ {<<>>})
    /\ \A i, j \in DOMAIN Names : Names[i] = Names[j] => i = j
    /\ Coords \subseteq Letters \cup {"space", "newline"}
    /\ NumCols \in Nat /\ StartX \in 0 .. NumCols - 1

VARIABLES
    keyboard_buffer, keyboard_buffer_pos, keyboard_buffer_size,
    command_history, history_size, history_curr,
    keyboard_read_buffer,
    fault       \* tab_complete has used up the room at the end of the line, or a length of -1; what
                \* follows is undefined

bufferVars  == <<keyboard_buffer, keyboard_buffer_pos, keyboard_buffer_size>>
historyVars == <<command_history, history_size, history_curr>>
lineVars    == <<bufferVars, historyVars, keyboard_read_buffer, fault>>

Nul   == "nul"
Space == "space"
NL    == "newline"
Chars == Letters \cup {Space}
Index == 0 .. BufferSize - 1

\* strncpy(keyboard_buffer, s, BUFFER_SIZE)
Padded(s) == [i \in Index |-> IF i < Len(s) THEN s[i + 1] ELSE Nul]

\* The string that begins in an array.
Length(b) == CHOOSE n \in 0 .. BufferSize :
                /\ \A i \in 0 .. n - 1 : b[i] # Nul
                /\ n < BufferSize => b[n] = Nul
String(b) == [i \in 1 .. Length(b) |-> b[i - 1]]

SetLine(b, pos, size) ==
    /\ keyboard_buffer' = b
    /\ keyboard_buffer_pos' = pos
    /\ keyboard_buffer_size' = size

-----------------------------------------------------------------------------
\* A printable key, shifted or not.
KeyChar(c) ==
    /\ keyboard_buffer_size + 1 < BufferSize - 1
    /\ SetLine([i \in Index |->
                  IF i = keyboard_buffer_pos THEN c
                  ELSE IF i \in keyboard_buffer_pos + 1 .. keyboard_buffer_size
                  THEN keyboard_buffer[i - 1]
                  ELSE keyboard_buffer[i]],
               keyboard_buffer_pos + 1, keyboard_buffer_size + 1)
    /\ UNCHANGED <<historyVars, keyboard_read_buffer, fault>>

LeftArrow ==
    /\ keyboard_buffer_pos > 0
    /\ SetLine(keyboard_buffer, keyboard_buffer_pos - 1, keyboard_buffer_size)
    /\ UNCHANGED <<historyVars, keyboard_read_buffer, fault>>

RightArrow ==
    /\ keyboard_buffer_pos < keyboard_buffer_size
    /\ SetLine(keyboard_buffer, keyboard_buffer_pos + 1, keyboard_buffer_size)
    /\ UNCHANGED <<historyVars, keyboard_read_buffer, fault>>

CtrlA ==
    /\ SetLine(keyboard_buffer, 0, keyboard_buffer_size)
    /\ UNCHANGED <<historyVars, keyboard_read_buffer, fault>>

\* MUTANT of CtrlK: the bytes behind the cursor stay.
CtrlKKeeps ==
    /\ SetLine(keyboard_buffer, keyboard_buffer_pos, keyboard_buffer_pos)
    /\ UNCHANGED <<historyVars, keyboard_read_buffer, fault>>

CtrlK ==
    /\ SetLine([i \in Index |-> IF i \in keyboard_buffer_pos .. keyboard_buffer_size
                                THEN Nul ELSE keyboard_buffer[i]],
               keyboard_buffer_pos, keyboard_buffer_pos)
    /\ UNCHANGED <<historyVars, keyboard_read_buffer, fault>>

\* handle_backspace: the loop runs two places past the new size.
HandleBackspace ==
    LET pos  == keyboard_buffer_pos - 1
        size == keyboard_buffer_size - 1
    IN
    /\ keyboard_buffer_pos > 0
    /\ SetLine([i \in Index |-> IF i \in pos .. size + 1
                                THEN keyboard_buffer[i + 1] ELSE keyboard_buffer[i]],
               pos, size)
    /\ UNCHANGED <<historyVars, keyboard_read_buffer, fault>>

\* line_click at column x, yOff rows below the row in which the line begins.
LineClick(x, yOff) ==
    LET width  == NumCols - StartX
        height == keyboard_buffer_size \div width
        rem    == keyboard_buffer_size % width
        col    == IF yOff = 0
                  THEN IF height = 0 /\ x > StartX + rem THEN StartX + rem ELSE x
                  ELSE IF yOff = height /\ x > rem THEN rem ELSE x
    IN
    /\ yOff <= height
    /\ ~(yOff = 0 /\ x < StartX)
    /\ SetLine(keyboard_buffer, yOff * NumCols + col - StartX, keyboard_buffer_size)
    /\ UNCHANGED <<historyVars, keyboard_read_buffer, fault>>

-----------------------------------------------------------------------------
(* History.                                                                *)

\* The history once line s is added: when it is full the oldest line goes.
Shifted     == [i \in DOMAIN command_history |->
                  IF i < MaxHistory - 1 THEN command_history[i + 1] ELSE command_history[i]]
HistoryFull == history_size = MaxHistory

\* MUTANT of AddToHistory: a full history is not noticed.
AddToHistoryPast(s) ==
    /\ command_history' = [command_history EXCEPT ![history_size] = s]
    /\ history_size' = history_size + 1
    /\ history_curr' = history_size + 1

\* MUTANT of AddToHistory: a full history is not shifted.
AddToHistoryUnshifted(s) ==
    LET size == IF HistoryFull THEN history_size - 1 ELSE history_size IN
    /\ command_history' = [command_history EXCEPT ![size] = s]
    /\ history_size' = size + 1
    /\ history_curr' = size + 1

AddToHistory(s) ==
    LET size == IF HistoryFull THEN history_size - 1 ELSE history_size
        base == IF HistoryFull THEN Shifted ELSE command_history
    IN
    /\ command_history' = [base EXCEPT ![size] = s]
    /\ history_size' = size + 1
    /\ history_curr' = size + 1

\* handle_enter: the line is remembered, gets its line feed, loses trailing blanks and goes
\* to the read buffer.
HandleEnterLine ==
    LET ended   == [keyboard_buffer EXCEPT ![keyboard_buffer_size] = NL]
        isBlank(i) == \A j \in i .. keyboard_buffer_size - 1 : ended[j] = Space
        trimmed == [i \in Index |-> IF i < keyboard_buffer_size /\ isBlank(i)
                                    THEN Nul ELSE ended[i]]
    IN
    /\ AddToHistory(String(keyboard_buffer))
    /\ keyboard_read_buffer' = String(trimmed)
    /\ SetLine([i \in Index |-> Nul], 0, 0)
    /\ UNCHANGED fault

\* One past the last entry lie current_position.x, current_position.y and a zero byte.
BehindHistory == BoundedSeq(Coords, 2)

\* history_move admits history_pos = history_size, one past the newest line; when the
\* history is full that is one past the array.
HistoryMove(offset) ==
    LET history_pos == history_curr + offset IN
    /\ history_pos \in 0 .. history_size
    /\ \E s \in IF history_pos < MaxHistory THEN {command_history[history_pos]}
                                            ELSE BehindHistory :
          SetLine(Padded(s), Len(s), Len(s))
    /\ history_curr' = history_pos
    /\ UNCHANGED <<command_history, history_size, keyboard_read_buffer, fault>>

-----------------------------------------------------------------------------
(* Completion.                                                             *)

\* lib.c strcmp: where two strings differ, or -1.
StrCmp(s, t) ==
    IF s = t THEN -1
    ELSE CHOOSE n \in 0 .. Len(s) :
            /\ n <= Len(t)
            /\ SubSeq(s, 1, n) = SubSeq(t, 1, n)
            /\ (n < Len(s) /\ n < Len(t)) => s[n + 1] # t[n + 1]

\* The index behind the last blank of the line.
WordStart ==
    CHOOSE w \in 0 .. keyboard_buffer_size :
        /\ w > 0 => keyboard_buffer[w - 1] = Space
        /\ \A i \in w .. keyboard_buffer_size - 1 : keyboard_buffer[i] # Space

\* The command found so far and one more match.  strncpy takes strcmp's -1 as a length.
Narrowed(cmd, name) ==
    IF cmd = <<>> THEN Append(name, Space) ELSE SubSeq(name, 1, StrCmp(name, cmd))

\* One turn of the loop: cmd after one more directory entry, and whether a length was -1.
Taken(word, acc, name) ==
    IF IsPrefix(word, name)
    THEN [cmd |-> Narrowed(acc.cmd, name), bad |-> acc.bad \/ acc.cmd = name]
    ELSE acc

\* What the loop over the directory entries leaves.
Found(word) ==
    LET after[k \in 0 .. Len(Names)] ==
          IF k = 0 THEN [cmd |-> <<>>, bad |-> FALSE]
                   ELSE Taken(word, after[k - 1], Names[k])
    IN  after[Len(Names)]

\* handle_tab and tab_complete.  Nothing checks that the completed line still leaves room
\* for a line feed and a zero byte.
HandleTab ==
    LET w     == WordStart
        found == Found([i \in 1 .. keyboard_buffer_size - w |-> keyboard_buffer[w + i - 1]])
        line  == [i \in 1 .. w |-> keyboard_buffer[i - 1]] \o found.cmd
    IN
    /\ keyboard_buffer_size # 0
    /\ found.cmd # <<>> \/ found.bad
    /\ IF found.bad \/ Len(line) > BufferSize - 2
       THEN fault' = TRUE /\ UNCHANGED bufferVars
       ELSE SetLine(Padded(line), Len(line), Len(line)) /\ UNCHANGED fault
    /\ UNCHANGED <<historyVars, keyboard_read_buffer>>

-----------------------------------------------------------------------------
\* init_terminals
LineInit ==
    /\ keyboard_buffer = [i \in Index |-> Nul]
    /\ keyboard_buffer_pos = 0
    /\ keyboard_buffer_size = 0
    /\ command_history = [i \in 0 .. MaxHistory - 1 |-> <<>>]
    /\ history_size = 0
    /\ history_curr = 0
    /\ keyboard_read_buffer = <<>>
    /\ fault = FALSE

\* A keyboard interrupt.
KeyNext ==
    /\ ~fault
    /\ \/ \E c \in Keys : KeyChar(c)
       \/ LeftArrow
       \/ RightArrow
       \/ CtrlA
       \/ CtrlK
       \/ HandleBackspace
       \/ HandleEnterLine
       \/ HistoryMove(-1)
       \/ HistoryMove(1)
       \/ HandleTab

\* A mouse interrupt.
ClickNext ==
    /\ ~fault
    /\ \E x \in 0 .. NumCols - 1, yOff \in 0 .. BufferSize : LineClick(x, yOff)

LineNext == KeyNext \/ ClickNext

LineSpec == LineInit /\ [][LineNext]_lineVars

\* line_click divides the line into rows of the width that the first one has, which is
\* right when the line begins at the margin or takes up less than two such rows.
LineFits == StartX = 0 \/ keyboard_buffer_size < 2 * (NumCols - StartX)

\* The editor when only lines that fit are clicked, whatever is done with the keys.
FittingSpec == LineInit /\ [][KeyNext \/ (LineFits /\ ClickNext)]_lineVars

-----------------------------------------------------------------------------
(* Properties.                                                             *)

LineTypeOK ==
    /\ keyboard_buffer \in [Index -> Chars \cup {Nul, NL}]
    /\ keyboard_buffer_pos \in Nat
    /\ keyboard_buffer_size \in Nat
    /\ command_history \in [0 .. MaxHistory - 1 -> Seq(Chars \cup {NL})]
    /\ history_size \in 0 .. MaxHistory
    /\ history_curr \in 0 .. MaxHistory
    /\ keyboard_read_buffer \in Seq(Chars \cup {NL})
    /\ fault \in BOOLEAN

\* After any sequence of keys the bytes before keyboard_buffer_size are the line and those
\* from there on are zero, the cursor is in the line, room is left for a line feed and a
\* terminating zero, and the history entries in use fit the line and the others are empty.
LineOK ==
    /\ keyboard_buffer_pos <= keyboard_buffer_size
    /\ keyboard_buffer_size <= BufferSize - 2
    /\ \A i \in Index : keyboard_buffer[i] = Nul <=> i >= keyboard_buffer_size
    /\ history_curr <= history_size
    /\ \A i \in DOMAIN command_history : Len(command_history[i]) <= BufferSize - 2
    /\ \A i \in history_size .. MaxHistory - 1 : command_history[i] = <<>>

Abstract == INSTANCE LineText WITH
    MaxLine   <- BufferSize - 2,
    text      <- String(keyboard_buffer),
    cursor    <- keyboard_buffer_pos,
    log       <- [i \in 1 .. history_size |-> command_history[i - 1]],
    place     <- history_curr,
    submitted <- keyboard_read_buffer

\* Where handle_enter departs from LineText: trailing blanks are overwritten with zeros, so
\* that the line feed behind them is not copied.
LineFeedLost ==
    LET line == Abstract!Trimmed(String(keyboard_buffer)) IN
    /\ line # String(keyboard_buffer)
    /\ Abstract!Enter(line)

\* Where history_move departs from it: below a full history lies other memory.
BehindHistoryShown ==
    /\ history_size = MaxHistory /\ history_curr' = MaxHistory
    /\ history_curr = MaxHistory - 1
    /\ keyboard_buffer_pos' = Len(String(keyboard_buffer'))
    /\ UNCHANGED <<command_history, history_size, keyboard_read_buffer>>

\* Apart from these two, the byte loops, the shifting history and the completion loop do to
\* the arrays what the keys mean for a line of text: no character is lost, doubled or moved,
\* Up and Down walk the latest lines, read() gets the line with its line feed, and Tab gives
\* what the matching names share.
ImplementsLineText ==
    /\ Abstract!Init
    /\ [][Abstract!Next \/ LineFeedLost \/ BehindHistoryShown]_(Abstract!vars)

\* The line editor keeps to LineText throughout: "the line returned should include the line
\* feed character" (mp3.txt:766), and history_move "changes the current line to the one that
\* is offset positions away in the command history" (keyboard.c:537).
KeepsToLineText == Abstract!Spec
=============================================================================
