------------------------------ MODULE Terminal ------------------------------
(***************************************************************************)
(* Terminals: which one is shown, what their screens hold, and how a line  *)
(* reaches the process that reads it (keyboard.c; LineEdit has the line).  *)
(*                                                                         *)
(* Interrupt handlers and write() run with IF clear and are one step.      *)
(* keyboard_read tests its condition with IF set once it has called        *)
(* schedule(): each load of it is a step, and the copy, after cli(), is    *)
(* another.  Every terminal in Users has one process that reads it.        *)
(*                                                                         *)
(* A screen page is opaque: which page it began as and how often it was    *)
(* written to.  Page 0 of a terminal is its backing page, page k its k-th  *)
(* scrollback page; scrolling writes to all of them.                       *)
(***************************************************************************)
EXTENDS Integers

CONSTANTS
    NumTerminals,          \* keyboard.h NUM_TERMINALS
    Users,                 \* terminals with a process
    MaxScrollbackOffset,   \* keyboard.c MAX_SCROLLBACK_OFFSET
    Versions               \* writes to a page are counted modulo this (bound)

Terminals == 0 .. NumTerminals - 1
Pages     == 0 .. MaxScrollbackOffset

ASSUME TerminalConstants ==
    /\ NumTerminals \in Nat \ {0}
    /\ Users \subseteq Terminals
    /\ MaxScrollbackOffset \in Nat
    /\ Versions \in Nat \ {0}

VARIABLES
    current_terminal,
    keyboard_read_flag,    \* per terminal: a line waits to be read
    reader,                \* per user: where keyboard_read is
    video,                 \* the page in video memory
    page,                  \* per terminal: its backing and scrollback pages
    video_memory,          \* per terminal: the page it is saved to and restored from
    scrollback_offset,
    text                   \* per terminal and page: how often its text has changed (history variable)

screenVars == <<video, page, video_memory, scrollback_offset, text>>
vars       == <<current_terminal, keyboard_read_flag, reader, screenVars>>

Fresh(t, k) == [term |-> t, page |-> k, writes |-> 0]
Again(n)    == (n + 1) % Versions
Written(p)  == [p EXCEPT !.writes = Again(@)]

\* What characters can do to the pages of a terminal: nothing, change the screen, or scroll
\* it, which moves a line of every page (scroll_backing).
Effects        == {{}, {0}, Pages}
Changed(ps, e) == [k \in Pages |-> IF k \in e THEN Written(ps[k]) ELSE ps[k]]
Counted(t, e)  == [text EXCEPT ![t] = [k \in Pages |-> IF k \in e THEN Again(@[k]) ELSE @[k]]]

\* Page k of t as it should be.
Text(t, k) == [term |-> t, page |-> k, writes |-> text[t][k]]

-----------------------------------------------------------------------------
(* Screen.                                                                 *)

\* map_backing_page(current_terminal)
Saved == [page EXCEPT ![current_terminal][video_memory[current_terminal]] = video]

\* scrollback_offset = 0 and set_scrollback_page(0): what is shown is saved, whichever page
\* it is (Saved), and the backing page is shown.
ResetScrollback ==
    /\ scrollback_offset' = 0
    /\ video_memory' = [video_memory EXCEPT ![current_terminal] = 0]

\* Characters appear on the terminal that is shown.  scroll() brings the backing and
\* scrollback pages up to date, a character alone does not.
PutsShown(e) ==
    /\ ResetScrollback
    /\ page' = [Saved EXCEPT ![current_terminal] = IF e = Pages THEN Changed(@, e) ELSE @]
    /\ video' = Changed(Saved[current_terminal], e)[0]
    /\ text' = Counted(current_terminal, e)

\* MUTANT of KeyboardWrite: a hidden terminal's text goes to the page it is restored from.
KeyboardWriteViewed(t) ==
    /\ reader[t] = "run"
    /\ \/ /\ t = current_terminal
          /\ PutsShown({0})
       \/ /\ t # current_terminal
          /\ page' = [page EXCEPT ![t][video_memory[t]] = Written(@)]
          /\ text' = Counted(t, {0})
          /\ UNCHANGED <<video, video_memory, scrollback_offset>>
    /\ UNCHANGED <<current_terminal, keyboard_read_flag, reader>>

\* keyboard_write by the process of terminal t
KeyboardWrite(t) ==
    /\ reader[t] = "run"
    /\ \E e \in Effects \ {{}} :
       \/ /\ t = current_terminal
          /\ PutsShown(e)
       \/ /\ t # current_terminal
          /\ page' = [page EXCEPT ![t] = Changed(@, e)]
          /\ text' = Counted(t, e)
          /\ UNCHANGED <<video, video_memory, scrollback_offset>>
    /\ UNCHANGED <<current_terminal, keyboard_read_flag, reader>>

\* adjust_scrollback_page (PgUp, PgDn): only the backing page is saved.
AdjustScrollbackPage(offset) ==
    LET wanted == scrollback_offset + offset
        saved  == IF scrollback_offset = 0 THEN Saved ELSE page
    IN
    /\ scrollback_offset' = IF wanted < 0 THEN 0
                            ELSE IF wanted > MaxScrollbackOffset THEN MaxScrollbackOffset
                            ELSE wanted
    /\ page' = saved
    /\ video_memory' = [video_memory EXCEPT ![current_terminal] = scrollback_offset']
    /\ video' = saved[current_terminal][scrollback_offset']
    /\ UNCHANGED <<current_terminal, keyboard_read_flag, reader, text>>

\* switch_terminals, called by a click on the terminal's segment or a new shell: scrollback
\* is left as it is.
SwitchTerminals(t) ==
    /\ current_terminal' = t
    /\ page' = Saved
    /\ video' = Saved[t][video_memory[t]]
    /\ UNCHANGED <<keyboard_read_flag, reader, video_memory, scrollback_offset, text>>

\* Alt + function key: scrollback is reset first, then the terminal is switched, which saves
\* the backing page once more.
AltFunctionKey(t) ==
    /\ ResetScrollback
    /\ page' = Saved
    /\ current_terminal' = t
    /\ video' = Saved[t][video_memory'[t]]
    /\ UNCHANGED <<keyboard_read_flag, reader, text>>

\* syscall_halt of the last program of the terminal that is shown: clear() wipes what is in
\* video memory, whichever page it is.  A Start click puts the next shell there.
ShellHalts ==
    /\ current_terminal \in Users /\ reader[current_terminal] = "run"
    /\ video' = Written(video)
    /\ text' = Counted(current_terminal, {0})
    /\ UNCHANGED <<current_terminal, keyboard_read_flag, reader, page, video_memory,
                   scrollback_offset>>

\* The same on a terminal that has not been scrolled back.
ShellHaltsUnscrolled ==
    /\ scrollback_offset = 0 /\ video_memory[current_terminal] = 0
    /\ ShellHalts

-----------------------------------------------------------------------------
(* Input.                                                                  *)

\* Up and Down, which do not ask for a process, and every other key that edits the line.
KeyEdit ==
    /\ \E e \in Effects : PutsShown(e)
    /\ UNCHANGED <<current_terminal, keyboard_read_flag, reader>>

\* MUTANT of HandleEnter: the reader is not told.
HandleEnterSilent ==
    /\ current_terminal \in Users
    /\ \E e \in Effects \ {{}} : PutsShown(e)
    /\ UNCHANGED <<current_terminal, keyboard_read_flag, reader>>

\* handle_enter
HandleEnter ==
    /\ current_terminal \in Users
    /\ \E e \in Effects \ {{}} : PutsShown(e)
    /\ keyboard_read_flag' = [keyboard_read_flag EXCEPT ![current_terminal] = TRUE]
    /\ UNCHANGED <<current_terminal, reader>>

\* The end of keyboard_read, with IF clear: the line is taken from the terminal that is shown.
Take(t) ==
    /\ keyboard_read_flag' = [keyboard_read_flag EXCEPT ![current_terminal] = FALSE]
    /\ reader' = [reader EXCEPT ![t] = "run"]

\* The read system call: the first test of the condition is made with IF clear.
ReadBegin(t) ==
    /\ reader[t] = "run"
    /\ IF current_terminal = t /\ keyboard_read_flag[t]
       THEN Take(t)
       ELSE /\ reader' = [reader EXCEPT ![t] = "poll"]
            /\ UNCHANGED keyboard_read_flag
    /\ UNCHANGED <<current_terminal, screenVars>>

\* Back from schedule(), IF set: current_terminal is the process's own ...
ReadPoll(t) ==
    /\ reader[t] = "poll"
    /\ current_terminal = t
    /\ reader' = [reader EXCEPT ![t] = "own"]
    /\ UNCHANGED <<current_terminal, keyboard_read_flag, screenVars>>

\* ... and its flag is set; the compiler may or may not load current_terminal again.
ReadFlag(t) ==
    /\ reader[t] = "own"
    /\ \E seen \in {t, current_terminal} :
          reader' = [reader EXCEPT ![t] = IF keyboard_read_flag[seen] THEN "ready" ELSE "poll"]
    /\ UNCHANGED <<current_terminal, keyboard_read_flag, screenVars>>

\* cli() and the copy
ReadTake(t) ==
    /\ reader[t] = "ready"
    /\ Take(t)
    /\ UNCHANGED <<current_terminal, screenVars>>

Reading(t) == ReadPoll(t) \/ ReadFlag(t) \/ ReadTake(t)

-----------------------------------------------------------------------------
\* MUTANT of Init: video_memory points one page too far, past the memory that was allocated.
InitPastPages ==
    /\ current_terminal = 0
    /\ keyboard_read_flag = [t \in Terminals |-> FALSE]
    /\ reader = [t \in Users |-> "run"]
    /\ page = [t \in Terminals |-> [k \in Pages |-> Fresh(t, k)]]
    /\ video = Fresh(0, 0)
    /\ video_memory = [t \in Terminals |-> -1]
    /\ scrollback_offset = 0
    /\ text = [t \in Terminals |-> [k \in Pages |-> 0]]

\* init_terminals
Init ==
    /\ current_terminal = 0
    /\ keyboard_read_flag = [t \in Terminals |-> FALSE]
    /\ reader = [t \in Users |-> "run"]
    /\ page = [t \in Terminals |-> [k \in Pages |-> Fresh(t, k)]]
    /\ video = Fresh(0, 0)
    /\ video_memory = [t \in Terminals |-> 0]
    /\ scrollback_offset = 0
    /\ text = [t \in Terminals |-> [k \in Pages |-> 0]]

Next ==
    \/ \E t \in Users : KeyboardWrite(t) \/ ReadBegin(t) \/ Reading(t)
    \/ \E offset \in {-1, 1} : AdjustScrollbackPage(offset)
    \/ \E t \in Terminals : SwitchTerminals(t) \/ AltFunctionKey(t)
    \/ ShellHaltsUnscrolled
    \/ KeyEdit
    \/ HandleEnter

\* Every process is given the CPU again and again (Sched: RoundRobin), so a read goes on polling.
Spec == Init /\ [][Next]_vars /\ \A t \in Users : WF_vars(Reading(t))

\* Shells that halt while the user looks at a scrollback page.
HaltSpec == Init /\ [][Next \/ ShellHalts]_vars

-----------------------------------------------------------------------------
(* Properties.                                                             *)

PageContents == [term : Terminals, page : Pages, writes : 0 .. Versions - 1]

TypeOK ==
    /\ current_terminal \in Terminals
    /\ keyboard_read_flag \in [Terminals -> BOOLEAN]
    /\ reader \in [Users -> {"run", "poll", "own", "ready"}]
    /\ video \in PageContents
    /\ page \in [Terminals -> [Pages -> PageContents]]
    /\ video_memory \in [Terminals -> Pages]
    /\ scrollback_offset \in Pages
    /\ text \in [Terminals -> [Pages -> 0 .. Versions - 1]]

\* However output, paging back, Alt+Fn and clicks on the status bar alternate, no terminal's
\* text is lost or overwritten (mp3.txt:492 "each terminal should save the current text
\* screen"): it is in video memory when shown and in its own backing page otherwise, and
\* the scrollback pages are its own too.
ScreenKept ==
    /\ \A t \in Terminals :
          IF t = current_terminal /\ video_memory[t] = 0
          THEN video = Text(t, 0)
          ELSE page[t][0] = Text(t, 0)
    /\ \A t \in Terminals : \A k \in Pages \ {0} : page[t][k] = Text(t, k)
    /\ video_memory[current_terminal] # 0 =>
          video = page[current_terminal][video_memory[current_terminal]]

\* Scrollback left on by a click: the page in video memory has not changed since it was saved.
ScrollbackOK ==
    scrollback_offset # 0 /\ video_memory[current_terminal] = 0
        => video = page[current_terminal][0]

\* The inductive strengthening of ScreenKept.
TerminalInv == TypeOK /\ ScreenKept /\ ScrollbackOK

\* A process reads the lines that were typed at its own terminal (mp3.txt:491 "you must have
\* a separate input buffer associated with each terminal").
ReadsOwnTerminal == [][\A t \in Users : ReadTake(t) => current_terminal = t]_vars

\* If the user stays at a terminal and goes on entering lines there, a read of that
\* terminal returns, whatever the readers of the other terminals are doing.
ReadReturns ==
    \A t \in Users :
        (<>[](current_terminal = t) /\ []<><<HandleEnter>>_vars)
            => [](reader[t] # "run" => <>(reader[t] = "run"))
=============================================================================
