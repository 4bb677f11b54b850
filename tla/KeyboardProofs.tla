--------------------------- MODULE KeyboardProofs ---------------------------
(***************************************************************************)
(* The two halves of keyboard.c.  No terminal's text is lost, for any      *)
(* number of terminals, users and scrollback pages; and the line editor    *)
(* does to its arrays what the keys mean for a line of text, for any       *)
(* buffer, history, screen width and file names.                           *)
(***************************************************************************)
EXTENDS Terminal, LineEdit, SequenceProofs, FiniteSetTheorems

-----------------------------------------------------------------------------
(* The terminals.                                                          *)

\* Counting a write stays in range.
LEMMA AgainType == ASSUME NEW n \in 0 .. Versions - 1 PROVE Again(n) \in 0 .. Versions - 1
  BY TerminalConstants, SMT DEF Again

\* Page contents are in range, before and after a write.
LEMMA WrittenType ==
    ASSUME NEW p \in PageContents
    PROVE  /\ Written(p) \in PageContents
           /\ Written(p) = [term |-> p.term, page |-> p.page, writes |-> Again(p.writes)]
  BY AgainType DEF Written, PageContents

\* Characters change the pages of a terminal and the count of its changes alike.
LEMMA ChangedFacts ==
    ASSUME NEW t \in Terminals, NEW e \in Effects, NEW ps \in [Pages -> PageContents],
           text \in [Terminals -> [Pages -> 0 .. Versions - 1]],
           text' = Counted(t, e),
           \A k \in Pages : ps[k] = Text(t, k)
    PROVE  /\ Changed(ps, e) \in [Pages -> PageContents]
           /\ text' \in [Terminals -> [Pages -> 0 .. Versions - 1]]
           /\ \A k \in Pages : Changed(ps, e)[k] = Text(t, k)'
           /\ \A u \in Terminals \ {t}, k \in Pages : Text(u, k)' = Text(u, k)
           /\ \A k \in Pages \ e : Text(t, k)' = Text(t, k)
<1>1. /\ text' \in [Terminals -> [Pages -> 0 .. Versions - 1]]
      /\ \A u \in Terminals \ {t} : text'[u] = text[u]
      /\ \A k \in Pages : text'[t][k] = IF k \in e THEN Again(text[t][k]) ELSE text[t][k]
  BY AgainType DEF Counted
<1>2. \A k \in Pages : /\ ps[k] \in PageContents
                        /\ Written(ps[k]) \in PageContents
                        /\ Written(ps[k]) = [term |-> t, page |-> k, writes |-> Again(text[t][k])]
  BY WrittenType DEF Text
<1>3. Changed(ps, e) \in [Pages -> PageContents]
  BY <1>2 DEF Changed
<1>4. ASSUME NEW k \in Pages PROVE Changed(ps, e)[k] = Text(t, k)'
  BY <1>1, <1>2 DEF Changed, Text
<1>5. QED
  BY <1>1, <1>3, <1>4 DEF Text

\* What map_backing_page leaves: the shown page is in the place it is restored from, every
\* other page is as before; so every page of every terminal holds its text.
LEMMA SavedFacts ==
    ASSUME TerminalInv
    PROVE  /\ Saved \in [Terminals -> [Pages -> PageContents]]
           /\ Saved[current_terminal][video_memory[current_terminal]] = video
           /\ \A t \in Terminals, k \in Pages : Saved[t][k] = Text(t, k)
<1>1. /\ 0 \in Pages
      /\ current_terminal \in Terminals
      /\ video_memory[current_terminal] \in Pages
  BY TerminalConstants DEF TerminalInv, TypeOK, Pages
<1>2. \A t \in Terminals, k \in Pages :
         Saved[t][k] = IF t = current_terminal /\ k = video_memory[t] THEN video ELSE page[t][k]
  BY <1>1 DEF Saved, TerminalInv, TypeOK
<1>3. Saved \in [Terminals -> [Pages -> PageContents]]
  BY <1>1 DEF Saved, TerminalInv, TypeOK
<1>4. ASSUME NEW t \in Terminals PROVE Saved[t][0] = Text(t, 0)
  BY <1>1, <1>2 DEF TerminalInv, ScreenKept
<1>5. ASSUME NEW t \in Terminals, NEW k \in Pages \ {0} PROVE Saved[t][k] = Text(t, k)
  BY <1>1, <1>2 DEF TerminalInv, ScreenKept
<1>6. QED
  BY <1>1, <1>2, <1>3, <1>4, <1>5

\* The invariant holds at the start.
LEMMA TerminalInit == Init => TerminalInv
  BY TerminalConstants DEF Init, TerminalInv, TypeOK, ScreenKept, ScrollbackOK, Fresh, Text,
     PageContents, Pages, Terminals

\* A step that leaves the screen alone keeps the invariant.
LEMMA InputStep ==
    ASSUME TerminalInv, UNCHANGED <<current_terminal, screenVars>>,
           keyboard_read_flag' \in [Terminals -> BOOLEAN],
           reader' \in [Users -> {"run", "poll", "own", "ready"}]
    PROVE  TerminalInv'
  BY DEF TerminalInv, TypeOK, ScreenKept, ScrollbackOK, Text, screenVars

\* Text that appears on the shown terminal appears behind the text it already has.
LEMMA PutsShownStep ==
    ASSUME TerminalInv, NEW e \in Effects, PutsShown(e),
           UNCHANGED current_terminal,
           keyboard_read_flag' \in [Terminals -> BOOLEAN],
           reader' \in [Users -> {"run", "poll", "own", "ready"}]
    PROVE  TerminalInv'
<1>a. PICK c \in Terminals : c = current_terminal
  BY DEF TerminalInv, TypeOK
<1>b. PICK old \in [Pages -> PageContents] : old = Saved[c]
  BY SavedFacts
<1> DEFINE new == Changed(old, e)
<1>1. /\ 0 \in Pages
      /\ Saved \in [Terminals -> [Pages -> PageContents]]
      /\ \A t \in Terminals, k \in Pages : Saved[t][k] = Text(t, k)
  <2>1. 0 \in Pages
    BY TerminalConstants DEF Pages
  <2>2. QED
    BY <2>1, SavedFacts
<1>2. /\ scrollback_offset' = 0
      /\ video_memory' = [video_memory EXCEPT ![c] = 0]
      /\ page' = [Saved EXCEPT ![c] = IF e = Pages THEN new ELSE old]
      /\ video' = new[0]
      /\ text' = Counted(c, e)
  BY <1>a, <1>b, <1>1 DEF PutsShown, ResetScrollback
<1>3. /\ new \in [Pages -> PageContents]
      /\ text' \in [Terminals -> [Pages -> 0 .. Versions - 1]]
      /\ \A k \in Pages : new[k] = Text(c, k)'
      /\ \A u \in Terminals \ {c}, k \in Pages : Text(u, k)' = Text(u, k)
      /\ \A k \in Pages \ e : Text(c, k)' = Text(c, k)
  <2>1. \A k \in Pages : old[k] = Text(c, k)
    BY <1>b, <1>1
  <2>2. text \in [Terminals -> [Pages -> 0 .. Versions - 1]]
    BY DEF TerminalInv, TypeOK
  <2>3. QED
    BY <1>2, <2>1, <2>2, ChangedFacts
<1> HIDE DEF new
<1>4. \A u \in Terminals \ {c}, k \in Pages : page'[u][k] = Text(u, k)'
  BY <1>1, <1>2, <1>3
<1>5. \A k \in Pages \ {0} : page'[c][k] = Text(c, k)'
  <2>1. CASE e = Pages
    BY <2>1, <1>1, <1>2, <1>3
  <2>2. CASE e # Pages
    BY <2>2, <1>b, <1>1, <1>2, <1>3 DEF Effects
  <2>3. QED
    BY <2>1, <2>2
<1>6. TypeOK'
  <2>1. page' \in [Terminals -> [Pages -> PageContents]]
    BY <1>1, <1>2, <1>3
  <2>2. QED
    BY <2>1, <1>1, <1>2, <1>3 DEF TerminalInv, TypeOK
<1>7. video_memory'[c] = 0
  BY <1>2 DEF TerminalInv, TypeOK
<1>8. ScreenKept'
  BY <1>a, <1>1, <1>2, <1>3, <1>4, <1>5, <1>7 DEF ScreenKept
<1>9. ScrollbackOK'
  BY <1>2 DEF ScrollbackOK
<1>10. QED
  BY <1>6, <1>8, <1>9 DEF TerminalInv

\* Output of a hidden terminal goes to its own pages.
LEMMA KeyboardWriteStep ==
    ASSUME TerminalInv, NEW t \in Users, KeyboardWrite(t)
    PROVE  TerminalInv'
<1>1. UNCHANGED <<current_terminal, keyboard_read_flag, reader>>
  BY DEF KeyboardWrite
<1>2. CASE t = current_terminal
  <2>1. PICK e \in Effects : PutsShown(e)
    BY <1>2 DEF KeyboardWrite
  <2>2. /\ keyboard_read_flag' \in [Terminals -> BOOLEAN]
        /\ reader' \in [Users -> {"run", "poll", "own", "ready"}]
    BY <1>1 DEF TerminalInv, TypeOK
  <2>3. QED
    BY <1>1, <2>1, <2>2, PutsShownStep
<1>3. CASE t # current_terminal
  <2>1. PICK e \in Effects :
              /\ page' = [page EXCEPT ![t] = Changed(@, e)]
              /\ text' = Counted(t, e)
              /\ UNCHANGED <<video, video_memory, scrollback_offset>>
    BY <1>3 DEF KeyboardWrite
  <2>2. /\ 0 \in Pages /\ t \in Terminals /\ current_terminal \in Terminals
        /\ page \in [Terminals -> [Pages -> PageContents]]
        /\ page[t] \in [Pages -> PageContents]
        /\ text \in [Terminals -> [Pages -> 0 .. Versions - 1]]
        /\ \A k \in Pages : page[t][k] = Text(t, k)
    <3>1. /\ 0 \in Pages /\ t \in Terminals /\ current_terminal \in Terminals
          /\ page \in [Terminals -> [Pages -> PageContents]]
          /\ text \in [Terminals -> [Pages -> 0 .. Versions - 1]]
      <4>1. 0 \in Pages /\ t \in Terminals
        BY TerminalConstants DEF Pages
      <4>2. QED
        BY <4>1 DEF TerminalInv, TypeOK
    <3>2. \A k \in Pages : page[t][k] = Text(t, k)
      BY <1>3, <3>1 DEF TerminalInv, ScreenKept
    <3>3. page[t] \in [Pages -> PageContents]
      BY <3>1
    <3>4. QED
      BY <3>1, <3>2, <3>3
  <2>a. PICK old \in [Pages -> PageContents] : old = page[t]
    BY <2>2
  <2> DEFINE new == Changed(old, e)
  <2>3. page' = [page EXCEPT ![t] = new]
    BY <2>1, <2>2, <2>a
  <2>4. /\ new \in [Pages -> PageContents]
        /\ text' \in [Terminals -> [Pages -> 0 .. Versions - 1]]
        /\ \A k \in Pages : new[k] = Text(t, k)'
        /\ \A u \in Terminals \ {t}, k \in Pages : Text(u, k)' = Text(u, k)
    BY <2>1, <2>2, <2>a, ChangedFacts
  <2> HIDE DEF new
  <2>5. /\ \A k \in Pages : page'[t][k] = Text(t, k)'
        /\ \A u \in Terminals \ {t} : page'[u] = page[u]
        /\ page' \in [Terminals -> [Pages -> PageContents]]
    BY <2>2, <2>3, <2>4
  <2>6. TypeOK'
    BY <1>1, <2>1, <2>4, <2>5 DEF TerminalInv, TypeOK
  <2>7. ScreenKept'
    BY <1>1, <1>3, <2>1, <2>2, <2>4, <2>5 DEF ScreenKept, TerminalInv
  <2>8. ScrollbackOK'
    BY <1>1, <1>3, <2>1, <2>2, <2>5 DEF ScrollbackOK, TerminalInv
  <2>9. QED
    BY <2>6, <2>7, <2>8 DEF TerminalInv
<1>4. QED
  BY <1>2, <1>3

\* Paging back saves the text unless it is saved already.
LEMMA AdjustStep ==
    ASSUME TerminalInv, NEW offset \in {-1, 1}, AdjustScrollbackPage(offset)
    PROVE  TerminalInv'
<1> DEFINE c == current_terminal
<1>1. /\ 0 \in Pages /\ c \in Terminals /\ video_memory[c] \in Pages
      /\ scrollback_offset \in Pages /\ scrollback_offset' \in Pages
  BY TerminalConstants DEF TerminalInv, TypeOK, Pages, AdjustScrollbackPage
<1>2. /\ page' \in [Terminals -> [Pages -> PageContents]]
      /\ \A t \in Terminals, k \in Pages : page'[t][k] = Text(t, k)
  <2>1. CASE scrollback_offset = 0
    BY <2>1, SavedFacts DEF AdjustScrollbackPage
  <2>2. CASE scrollback_offset # 0
    BY <2>2, <1>1 DEF AdjustScrollbackPage, TerminalInv, TypeOK, ScreenKept, ScrollbackOK
  <2>3. QED
    BY <2>1, <2>2
<1>3. /\ video_memory' = [video_memory EXCEPT ![c] = scrollback_offset']
      /\ video' = page'[c][scrollback_offset']
      /\ UNCHANGED <<current_terminal, keyboard_read_flag, reader, text>>
  BY DEF AdjustScrollbackPage
<1>4. TypeOK'
  BY <1>1, <1>2, <1>3 DEF TerminalInv, TypeOK
<1>5. ScreenKept'
  BY <1>1, <1>2, <1>3 DEF ScreenKept, Text, TerminalInv, TypeOK
<1>6. ScrollbackOK'
  BY <1>1, <1>3 DEF ScrollbackOK, TerminalInv, TypeOK
<1>7. QED
  BY <1>4, <1>5, <1>6 DEF TerminalInv

\* Switching saves what is shown where it is restored from, with or without the reset of
\* scrollback that Alt+Fn does first.
LEMMA SwitchStep ==
    ASSUME TerminalInv, NEW t \in Terminals, SwitchTerminals(t) \/ AltFunctionKey(t)
    PROVE  TerminalInv'
<1>1. /\ 0 \in Pages /\ current_terminal \in Terminals
      /\ video_memory' \in [Terminals -> Pages] /\ scrollback_offset' \in Pages
  <2>1. 0 \in Pages /\ current_terminal \in Terminals
    BY TerminalConstants DEF TerminalInv, TypeOK, Pages
  <2>2. CASE SwitchTerminals(t)
    BY <2>1, <2>2 DEF SwitchTerminals, TerminalInv, TypeOK
  <2>3. CASE AltFunctionKey(t)
    BY <2>1, <2>3 DEF AltFunctionKey, ResetScrollback, TerminalInv, TypeOK
  <2>4. QED
    BY <2>1, <2>2, <2>3
<1>2. /\ current_terminal' = t /\ page' = Saved
      /\ video' = Saved[t][video_memory'[t]]
      /\ UNCHANGED <<keyboard_read_flag, reader, text>>
  BY DEF SwitchTerminals, AltFunctionKey, ResetScrollback
<1>3. TypeOK'
  BY <1>1, <1>2, SavedFacts DEF TerminalInv, TypeOK
<1>4. ScreenKept'
  BY <1>1, <1>2, SavedFacts DEF ScreenKept, Text
<1>5. ScrollbackOK'
  BY <1>1, <1>2 DEF ScrollbackOK
<1>6. QED
  BY <1>3, <1>4, <1>5 DEF TerminalInv

\* Reading changes the flags and the readers only.
LEMMA ReadStep ==
    ASSUME TerminalInv, NEW t \in Users, ReadBegin(t) \/ Reading(t)
    PROVE  TerminalInv'
<1>1. UNCHANGED <<current_terminal, screenVars>>
  BY DEF ReadBegin, Reading, ReadPoll, ReadFlag, ReadTake
<1>2. /\ keyboard_read_flag' \in [Terminals -> BOOLEAN]
      /\ reader' \in [Users -> {"run", "poll", "own", "ready"}]
  BY DEF ReadBegin, Reading, ReadPoll, ReadFlag, ReadTake, Take, TerminalInv, TypeOK
<1>3. QED
  BY <1>1, <1>2, InputStep

\* A screen that is not scrolled back is cleared where its text is kept.
LEMMA ShellHaltsStep ==
    ASSUME TerminalInv, ShellHaltsUnscrolled
    PROVE  TerminalInv'
<1> DEFINE c == current_terminal
<1>1. /\ 0 \in Pages /\ c \in Terminals /\ video_memory[c] = 0 /\ scrollback_offset = 0
      /\ video = Text(c, 0)
  BY TerminalConstants DEF TerminalInv, TypeOK, Pages, ScreenKept, ShellHaltsUnscrolled
<1>2. /\ video' = Written(video) /\ text' = Counted(c, {0})
      /\ UNCHANGED <<current_terminal, keyboard_read_flag, reader, page, video_memory,
                     scrollback_offset>>
  BY DEF ShellHaltsUnscrolled, ShellHalts
<1>3. /\ text' \in [Terminals -> [Pages -> 0 .. Versions - 1]]
      /\ text'[c][0] = Again(text[c][0])
      /\ \A t \in Terminals : \A k \in Pages : t # c \/ k # 0 => text'[t][k] = text[t][k]
  BY <1>1, <1>2, TerminalConstants DEF Counted, Again, TerminalInv, TypeOK
<1>4. /\ video' = Text(c, 0)' /\ video' \in PageContents
  <2>1. video' = [term |-> c, page |-> 0, writes |-> Again(text[c][0])]
    BY <1>1, <1>2 DEF Written, Text
  <2>2. Again(text[c][0]) \in 0 .. Versions - 1
    BY <1>1, <1>3
  <2> QED BY <1>1, <1>2, <1>3, <2>1, <2>2 DEF Text, PageContents
<1>5. TypeOK'
  BY <1>2, <1>3, <1>4 DEF TerminalInv, TypeOK
<1>6. ScreenKept'
  BY <1>1, <1>2, <1>3, <1>4 DEF ScreenKept, Text, TerminalInv
<1>7. ScrollbackOK'
  BY <1>1, <1>2 DEF ScrollbackOK
<1> QED BY <1>5, <1>6, <1>7 DEF TerminalInv

\* Every step of the terminals keeps the invariant.
LEMMA TerminalNext == TerminalInv /\ [Next]_vars => TerminalInv'
<1> SUFFICES ASSUME TerminalInv, [Next]_vars PROVE TerminalInv'
  OBVIOUS
<1>1. ASSUME NEW t \in Users, KeyboardWrite(t) PROVE TerminalInv'
  BY <1>1, KeyboardWriteStep
<1>2. ASSUME NEW t \in Users, ReadBegin(t) \/ Reading(t) PROVE TerminalInv'
  BY <1>2, ReadStep
<1>3. ASSUME NEW offset \in {-1, 1}, AdjustScrollbackPage(offset) PROVE TerminalInv'
  BY <1>3, AdjustStep
<1>4. ASSUME NEW t \in Terminals, SwitchTerminals(t) \/ AltFunctionKey(t) PROVE TerminalInv'
  BY <1>4, SwitchStep
<1>5. CASE KeyEdit
  <2>1. PICK e \in Effects : PutsShown(e)
    BY <1>5 DEF KeyEdit
  <2>2. /\ UNCHANGED current_terminal
        /\ keyboard_read_flag' \in [Terminals -> BOOLEAN]
        /\ reader' \in [Users -> {"run", "poll", "own", "ready"}]
    BY <1>5 DEF KeyEdit, TerminalInv, TypeOK
  <2>3. QED
    BY <2>1, <2>2, PutsShownStep
<1>6. CASE HandleEnter
  <2>1. PICK e \in Effects : PutsShown(e)
    BY <1>6 DEF HandleEnter
  <2>2. /\ UNCHANGED current_terminal
        /\ keyboard_read_flag' \in [Terminals -> BOOLEAN]
        /\ reader' \in [Users -> {"run", "poll", "own", "ready"}]
    BY <1>6 DEF HandleEnter, TerminalInv, TypeOK
  <2>3. QED
    BY <2>1, <2>2, PutsShownStep
<1>7. CASE ShellHaltsUnscrolled
  BY <1>7, ShellHaltsStep
<1>8. CASE UNCHANGED vars
  BY <1>8 DEF vars, screenVars, TerminalInv, TypeOK, ScreenKept, ScrollbackOK, Text
<1>9. QED
  BY <1>1, <1>2, <1>3, <1>4, <1>5, <1>6, <1>7, <1>8 DEF Next

\* The inductive invariant of the terminal driver (keyboard.c:709-1080).
THEOREM TerminalInvariance == Spec => []TerminalInv
  BY TerminalInit, TerminalNext, PTL DEF Spec

\* No terminal's text is lost or shown on another terminal by keyboard_write, scrollback
\* and switch_terminals in any order.
THEOREM ScreensAreKept == Spec => []ScreenKept
<1>1. TerminalInv => ScreenKept
  BY DEF TerminalInv
<1>2. QED
  BY <1>1, TerminalInvariance, PTL

\* No page number, terminal or reader's state leaves its range (keyboard.c:709-1080).
THEOREM TerminalTypeCorrect == Spec => []TypeOK
<1>1. TerminalInv => TypeOK
  BY DEF TerminalInv
<1>2. QED
  BY <1>1, TerminalInvariance, PTL

-----------------------------------------------------------------------------
(* The line editor: strings in arrays.                                     *)

Printed == Chars \cup {NL}

\* Array b holds a string of n characters and zeros behind it.
HoldsText(b, n) ==
    /\ b \in [Index -> Printed \cup {Nul}]
    /\ n \in 0 .. BufferSize
    /\ \A i \in Index : b[i] = Nul <=> i >= n

\* No character is the zero byte.
LEMMA PrintedFacts ==
  /\ Nul \notin Printed /\ Space \in Printed /\ NL \in Printed /\ NL # Space
  /\ Letters \subseteq Printed /\ Chars \subseteq Printed /\ Space \notin Letters
  /\ BufferSize \in Nat /\ BufferSize >= 4
BY LineConstants DEF Printed, Chars, Nul, Space, NL

\* strlen is where the first zero is.
LEMMA LengthIs ==
  ASSUME NEW b, NEW n \in 0 .. BufferSize,
         \A i \in 0 .. n - 1 : b[i] # Nul, n < BufferSize => b[n] = Nul
  PROVE  Length(b) = n
<1> DEFINE P(m) == (\A i \in 0 .. m - 1 : b[i] # Nul) /\ (m < BufferSize => b[m] = Nul)
<1>1. BufferSize \in Nat
  BY LineConstants
<1>2. P(n)
  OBVIOUS
<1>3. ASSUME NEW m \in 0 .. BufferSize, P(m) PROVE m = n
  <2>1. ~(m < n)
    BY <1>1, <1>3
  <2>2. ~(n < m)
    BY <1>1, <1>2, <1>3
  <2> QED BY <1>1, <2>1, <2>2
<1>4. Length(b) = CHOOSE m \in 0 .. BufferSize : P(m)
  BY DEF Length
<1> HIDE DEF P
<1> QED BY <1>2, <1>3, <1>4

\* What a string that begins in an array is.
LEMMA StringIs ==
  ASSUME NEW b, NEW n \in 0 .. BufferSize, \A i \in 0 .. n - 1 : b[i] \in Printed,
         n < BufferSize => b[n] = Nul
  PROVE  /\ String(b) \in Seq(Printed) /\ Len(String(b)) = n
         /\ \A i \in 1 .. n : String(b)[i] = b[i - 1]
<1>1. n \in Nat /\ BufferSize \in Nat
  BY LineConstants
<1>2. Length(b) = n
  BY <1>1, LengthIs, PrintedFacts
<1>3. String(b) = [i \in 1 .. n |-> b[i - 1]]
  BY <1>2 DEF String
<1>4. ASSUME NEW i \in 1 .. n PROVE b[i - 1] \in Printed
  <2>1. i - 1 \in 0 .. n - 1
    BY <1>1
  <2> QED BY <2>1
<1>5. PICK s : s = String(b)
  OBVIOUS
<1>6. s \in [1 .. n -> Printed] /\ \A i \in 1 .. n : s[i] = b[i - 1]
  BY <1>3, <1>4, <1>5
<1>7. s \in Seq(Printed) /\ Len(s) = n
  BY <1>1, <1>6
<1> QED BY <1>5, <1>6, <1>7

\* The string in an array that holds one.
LEMMA HeldString ==
  ASSUME NEW b, NEW n, HoldsText(b, n)
  PROVE  /\ String(b) \in Seq(Printed) /\ Len(String(b)) = n
         /\ \A i \in 1 .. n : String(b)[i] = b[i - 1]
<1>1. n \in 0 .. BufferSize /\ BufferSize \in Nat
  BY LineConstants DEF HoldsText
<1>2. \A i \in 0 .. n - 1 : i \in Index /\ b[i] \in Printed
  BY <1>1 DEF HoldsText, Index
<1>3. n < BufferSize => b[n] = Nul
  BY <1>1 DEF HoldsText, Index
<1> QED BY <1>1, <1>2, <1>3, StringIs

\* strncpy fills the array up with zeros, and the string can be read back.
LEMMA PaddedFacts ==
  ASSUME NEW s \in Seq(Printed), Len(s) <= BufferSize
  PROVE  HoldsText(Padded(s), Len(s)) /\ String(Padded(s)) = s
<1>1. PICK n \in Nat : n = Len(s) /\ n <= BufferSize
  OBVIOUS
<1>2. BufferSize \in Nat /\ \A i \in 1 .. n : s[i] \in Printed
  BY <1>1, LineConstants
<1>3. PICK b : b = Padded(s)
  OBVIOUS
<1>4. b = [i \in Index |-> IF i < n THEN s[i + 1] ELSE Nul]
  BY <1>1, <1>3 DEF Padded
<1>5. ASSUME NEW i \in Index PROVE i < n => i + 1 \in 1 .. n /\ s[i + 1] \in Printed
  BY <1>1, <1>2 DEF Index
<1>6. b \in [Index -> Printed \cup {Nul}]
  BY <1>4, <1>5
<1>7. \A i \in Index : b[i] = Nul <=> i >= n
  <2> SUFFICES ASSUME NEW i \in Index PROVE b[i] = Nul <=> i >= n
    OBVIOUS
  <2>1. i \in Nat
    BY <1>2 DEF Index
  <2>2. CASE i < n
    BY <1>1, <1>4, <1>5, <2>1, <2>2, PrintedFacts
  <2>3. CASE ~(i < n)
    BY <1>1, <1>4, <2>1, <2>3
  <2> QED BY <2>2, <2>3
<1>8. HoldsText(b, n)
  BY <1>1, <1>2, <1>6, <1>7 DEF HoldsText
<1>9. PICK t : t = String(b)
  OBVIOUS
<1>10. t \in Seq(Printed) /\ Len(t) = n /\ \A i \in 1 .. n : t[i] = b[i - 1]
  BY <1>8, <1>9, HeldString
<1>11. ASSUME NEW i \in 1 .. n PROVE t[i] = s[i]
  <2>1. i - 1 \in Index /\ i - 1 < n /\ (i - 1) + 1 = i
    BY <1>1, <1>2 DEF Index
  <2> QED BY <1>4, <1>10, <2>1
<1>12. t = s
  BY <1>1, <1>10, <1>11, SeqEqual
<1> QED BY <1>1, <1>3, <1>8, <1>9, <1>12

-----------------------------------------------------------------------------
(* The invariant, and the line of text that the state stands for.          *)

BufferOK ==
    /\ HoldsText(keyboard_buffer, keyboard_buffer_size)
    /\ keyboard_buffer_size \in 0 .. BufferSize - 2
    /\ keyboard_buffer_pos \in 0 .. keyboard_buffer_size

HistoryOK ==
    /\ command_history \in [0 .. MaxHistory - 1 -> Seq(Printed)]
    /\ history_size \in 0 .. MaxHistory
    /\ history_curr \in 0 .. history_size
    /\ \A i \in 0 .. MaxHistory - 1 : Len(command_history[i]) <= BufferSize - 2
    /\ \A i \in history_size .. MaxHistory - 1 : command_history[i] = <<>>

ReadOK == keyboard_read_buffer \in Seq(Printed) /\ fault \in BOOLEAN

LineInv == BufferOK /\ HistoryOK /\ ReadOK

Line == String(keyboard_buffer)
Log  == [i \in 1 .. history_size |-> command_history[i - 1]]

\* The invariant is the one that TLC checks.
LEMMA LineInvIs == LineInv <=> LineTypeOK /\ LineOK
<1>1. BufferSize \in Nat /\ BufferSize >= 4 /\ MaxHistory \in Nat
  BY LineConstants
<1>2. ASSUME LineInv PROVE LineTypeOK /\ LineOK
  <2>1. LineTypeOK
    BY <1>1, <1>2 DEF LineInv, BufferOK, HistoryOK, ReadOK, HoldsText, Printed, LineTypeOK
  <2>2. LineOK
    BY <1>1, <1>2 DEF LineInv, BufferOK, HistoryOK, HoldsText, LineOK
  <2> QED BY <2>1, <2>2
<1>3. ASSUME LineTypeOK, LineOK PROVE LineInv
  <2>1. BufferOK
    BY <1>1, <1>3 DEF BufferOK, HoldsText, Printed, LineTypeOK, LineOK
  <2>2. HistoryOK
    BY <1>1, <1>3 DEF HistoryOK, Printed, LineTypeOK, LineOK
  <2> QED BY <1>3, <2>1, <2>2 DEF LineInv, ReadOK, Printed, LineTypeOK
<1> QED BY <1>2, <1>3

\* The line of text is what stands in the buffer.
LEMMA LineFacts ==
  ASSUME LineInv
  PROVE  /\ Line \in Seq(Printed) /\ Len(Line) = keyboard_buffer_size
         /\ \A i \in 1 .. keyboard_buffer_size : Line[i] = keyboard_buffer[i - 1]
BY HeldString DEF LineInv, BufferOK, Line

\* A step that only sets the line.
LEMMA SetLineKeeps ==
  ASSUME LineInv, NEW b, NEW p, NEW n, SetLine(b, p, n), HoldsText(b, n), n \in 0 .. BufferSize - 2,
         p \in 0 .. n, UNCHANGED <<historyVars, keyboard_read_buffer, fault>>
  PROVE  /\ LineInv'
         /\ keyboard_buffer_pos' = p /\ UNCHANGED <<Log, history_curr, keyboard_read_buffer>>
         /\ Line' \in Seq(Printed) /\ Len(Line') = n /\ \A i \in 1 .. n : Line'[i] = b[i - 1]
<1>1. BufferOK'
  BY DEF SetLine, BufferOK
<1>2. HistoryOK' /\ ReadOK'
  BY DEF LineInv, HistoryOK, ReadOK, historyVars
<1>3. UNCHANGED <<Log, history_curr, keyboard_read_buffer>>
  BY DEF historyVars, Log
<1>4. Line' = String(b) /\ keyboard_buffer_pos' = p
  BY DEF SetLine, Line
<1>5. /\ Line' \in Seq(Printed) /\ Len(Line') = n /\ \A i \in 1 .. n : Line'[i] = b[i - 1]
  BY <1>4, HeldString
<1> QED BY <1>1, <1>2, <1>3, <1>4, <1>5 DEF LineInv

-----------------------------------------------------------------------------
(* What the keys mean for a line of text.                                  *)

\* A character is put at the cursor.
LEMMA TextInsert ==
  ASSUME NEW c \in Chars, Len(Line) < BufferSize - 2,
         Line' = InsertAt(Line, keyboard_buffer_pos + 1, c),
         keyboard_buffer_pos' = keyboard_buffer_pos + 1,
         UNCHANGED <<Log, history_curr, keyboard_read_buffer>>
  PROVE  Abstract!Next
<1>1. Abstract!Insert(c)
  BY DEF Abstract!Insert, Abstract!InsertAt, InsertAt, Line, Log
<1> QED BY <1>1 DEF Abstract!Next, Abstract!Chars, Abstract!Space, Chars, Space

\* The character left of the cursor is taken out.
LEMMA TextErase ==
  ASSUME keyboard_buffer_pos > 0,
         Line' = RemoveAt(Line, keyboard_buffer_pos),
         keyboard_buffer_pos' = keyboard_buffer_pos - 1,
         UNCHANGED <<Log, history_curr, keyboard_read_buffer>>
  PROVE  Abstract!Next
BY DEF Abstract!Erase, Abstract!RemoveAt, RemoveAt, Line, Log, Abstract!Next

\* The cursor goes somewhere else in the line.
LEMMA TextMove ==
  ASSUME keyboard_buffer_pos' \in 0 .. Len(Line), Len(Line) <= BufferSize - 2, Len(Line) \in Nat,
         UNCHANGED <<Line, Log, history_curr, keyboard_read_buffer>>
  PROVE  Abstract!Next
<1>1. Abstract!MoveCursor(keyboard_buffer_pos')
  BY DEF Abstract!MoveCursor, Line, Log
<1>2. keyboard_buffer_pos' \in 0 .. BufferSize - 2
  BY LineConstants
<1> QED BY <1>1, <1>2 DEF Abstract!Next

\* What is right of the cursor is cut off.
LEMMA TextKill ==
  ASSUME Line' = SubSeq(Line, 1, keyboard_buffer_pos),
         UNCHANGED <<keyboard_buffer_pos, Log, history_curr, keyboard_read_buffer>>
  PROVE  Abstract!Next
BY DEF Abstract!Kill, Line, Log, Abstract!Next

-----------------------------------------------------------------------------
(* The keys that change the line.                                          *)

\* The loop that makes room for a character moves the rest of the line by one.
LEMMA KeyCharKeeps ==
  ASSUME LineInv, NEW c \in Keys, KeyChar(c)
  PROVE  LineInv' /\ Abstract!Next
<1> DEFINE n == keyboard_buffer_size
           p == keyboard_buffer_pos
           b == [i \in Index |-> IF i = p THEN c
                                 ELSE IF i \in p + 1 .. n THEN keyboard_buffer[i - 1]
                                 ELSE keyboard_buffer[i]]
<1>1. /\ n \in Nat /\ p \in Nat /\ p <= n /\ n + 1 < BufferSize - 1 /\ BufferSize \in Nat
      /\ n + 1 \in 0 .. BufferSize - 2 /\ p + 1 \in 0 .. n + 1
  BY LineConstants DEF KeyChar, LineInv, BufferOK
<1>2. SetLine(b, p + 1, n + 1) /\ UNCHANGED <<historyVars, keyboard_read_buffer, fault>>
  BY DEF KeyChar
<1>3. c \in Chars /\ c \in Printed /\ c # Nul
  BY LineConstants, PrintedFacts DEF Chars, Space
<1>4. HoldsText(keyboard_buffer, n)
  BY DEF LineInv, BufferOK
<1>5. HoldsText(b, n + 1)
  <2>1. ASSUME NEW i \in Index
        PROVE  b[i] \in Printed \cup {Nul} /\ (b[i] = Nul <=> i >= n + 1)
    <3>1. i \in Nat /\ (i \in p + 1 .. n => i - 1 \in Index /\ i - 1 < n)
      BY <1>1 DEF Index
    <3>2. CASE i = p
      BY <1>1, <1>3, <3>2
    <3>3. CASE i # p /\ i \in p + 1 .. n
      <4>1. b[i] = keyboard_buffer[i - 1]
        BY <3>3
      <4> QED BY <1>1, <1>4, <3>1, <3>3, <4>1 DEF HoldsText
    <3>4. CASE i # p /\ i \notin p + 1 .. n
      <4>1. b[i] = keyboard_buffer[i]
        BY <3>4
      <4>2. i < p \/ i > n
        BY <1>1, <3>1, <3>4
      <4> QED BY <1>1, <1>4, <3>1, <4>1, <4>2 DEF HoldsText
    <3> QED BY <3>2, <3>3, <3>4
  <2>2. n + 1 \in 0 .. BufferSize
    BY <1>1
  <2> QED BY <2>1, <2>2 DEF HoldsText
<1>6. /\ LineInv'
      /\ keyboard_buffer_pos' = p + 1 /\ UNCHANGED <<Log, history_curr, keyboard_read_buffer>>
      /\ Line' \in Seq(Printed) /\ Len(Line') = n + 1 /\ \A i \in 1 .. n + 1 : Line'[i] = b[i - 1]
  <2> HIDE DEF b
  <2> QED BY <1>1, <1>2, <1>5, SetLineKeeps
<1>7. Line \in Seq(Printed) /\ Len(Line) = n /\ \A i \in 1 .. n : Line[i] = keyboard_buffer[i - 1]
  BY LineFacts
<1>8. PICK r : r = InsertAt(Line, p + 1, c)
  OBVIOUS
<1>9. Inserted(Printed, Line, p + 1, c, r)
  <2>1. p + 1 \in 1 .. Len(Line) + 1
    BY <1>1, <1>7
  <2> QED BY <1>3, <1>7, <1>8, <2>1, InsertAtFacts
<1>10. ASSUME NEW i \in 1 .. n + 1 PROVE Line'[i] = r[i]
  <2>1. Line'[i] = b[i - 1] /\ i - 1 \in Index /\ i \in Nat
    <3> HIDE DEF b
    <3> QED BY <1>1, <1>6 DEF Index
  <2>2. r[i] = IF i < p + 1 THEN Line[i] ELSE IF i = p + 1 THEN c ELSE Line[i - 1]
    BY <1>7, <1>9 DEF Inserted
  <2>3. CASE i < p + 1
    <3>1. b[i - 1] = keyboard_buffer[i - 1]
      BY <1>1, <2>1, <2>3
    <3>2. Line[i] = keyboard_buffer[i - 1]
      BY <1>1, <1>7, <2>3
    <3> QED BY <2>1, <2>2, <2>3, <3>1, <3>2
  <2>4. CASE i = p + 1
    BY <1>1, <2>1, <2>2, <2>4
  <2>5. CASE i > p + 1
    <3>1. b[i - 1] = keyboard_buffer[(i - 1) - 1]
      BY <1>1, <2>1, <2>5
    <3>2. i - 1 \in 1 .. n
      BY <1>1, <2>5
    <3>3. r[i] = Line[i - 1]
      BY <1>1, <2>2, <2>5
    <3> QED BY <1>7, <2>1, <3>1, <3>2, <3>3
  <2> QED BY <1>1, <2>1, <2>3, <2>4, <2>5
<1>11. Line' = r
  <2>1. Len(r) = n + 1 /\ r \in Seq(Printed)
    BY <1>7, <1>9 DEF Inserted
  <2> HIDE DEF b
  <2> QED BY <1>6, <1>10, <2>1, SeqEqual
<1>12. Abstract!Next
  BY <1>1, <1>3, <1>6, <1>7, <1>8, <1>11, TextInsert
<1> QED BY <1>6, <1>12

\* The loop that closes the gap moves the rest of the line back, zeros included.
LEMMA HandleBackspaceKeeps ==
  ASSUME LineInv, HandleBackspace
  PROVE  LineInv' /\ Abstract!Next
<1> DEFINE n == keyboard_buffer_size
           p == keyboard_buffer_pos
           b == [i \in Index |-> IF i \in p - 1 .. (n - 1) + 1
                                 THEN keyboard_buffer[i + 1] ELSE keyboard_buffer[i]]
<1>1. /\ n \in Nat /\ p \in Nat /\ p > 0 /\ p <= n /\ n <= BufferSize - 2 /\ BufferSize \in Nat
      /\ n - 1 \in 0 .. BufferSize - 2 /\ p - 1 \in 0 .. n - 1
  BY LineConstants DEF HandleBackspace, LineInv, BufferOK
<1>2. SetLine(b, p - 1, n - 1) /\ UNCHANGED <<historyVars, keyboard_read_buffer, fault>>
  BY DEF HandleBackspace
<1>3. HoldsText(keyboard_buffer, n)
  BY DEF LineInv, BufferOK
<1>4. HoldsText(b, n - 1)
  <2>1. ASSUME NEW i \in Index
        PROVE  b[i] \in Printed \cup {Nul} /\ (b[i] = Nul <=> i >= n - 1)
    <3>1. i \in Nat
      BY <1>1 DEF Index
    <3>2. CASE i \in p - 1 .. (n - 1) + 1
      <4>1. b[i] = keyboard_buffer[i + 1]
        BY <3>2
      <4>2. i + 1 \in Index
        BY <1>1, <3>1, <3>2 DEF Index
      <4> QED BY <1>1, <1>3, <3>1, <4>1, <4>2 DEF HoldsText
    <3>3. CASE i \notin p - 1 .. (n - 1) + 1
      <4>1. b[i] = keyboard_buffer[i]
        BY <3>3
      <4>2. i < p - 1 \/ i > n
        BY <1>1, <3>1, <3>3
      <4> QED BY <1>1, <1>3, <3>1, <4>1, <4>2 DEF HoldsText
    <3> QED BY <3>2, <3>3
  <2>2. n - 1 \in 0 .. BufferSize
    BY <1>1
  <2> QED BY <2>1, <2>2 DEF HoldsText
<1>5. /\ LineInv'
      /\ keyboard_buffer_pos' = p - 1 /\ UNCHANGED <<Log, history_curr, keyboard_read_buffer>>
      /\ Line' \in Seq(Printed) /\ Len(Line') = n - 1 /\ \A i \in 1 .. n - 1 : Line'[i] = b[i - 1]
  <2> HIDE DEF b
  <2> QED BY <1>1, <1>2, <1>4, SetLineKeeps
<1>6. Line \in Seq(Printed) /\ Len(Line) = n /\ \A i \in 1 .. n : Line[i] = keyboard_buffer[i - 1]
  BY LineFacts
<1>7. PICK r : r = RemoveAt(Line, p)
  OBVIOUS
<1>8. /\ r \in Seq(Printed) /\ Len(r) = n - 1
      /\ \A i \in 1 .. n - 1 : r[i] = IF i < p THEN Line[i] ELSE Line[i + 1]
  <2>1. p \in 1 .. Len(Line)
    BY <1>1, <1>6
  <2>2. /\ RemoveAt(Line, p) \in Seq(Printed) /\ Len(RemoveAt(Line, p)) = Len(Line) - 1
        /\ \A i \in 1 .. Len(Line) - 1 :
              RemoveAt(Line, p)[i] = IF i < p THEN Line[i] ELSE Line[i + 1]
    BY <1>6, <2>1, RemoveAtFacts
  <2> QED BY <1>6, <1>7, <2>2
<1>9. ASSUME NEW i \in 1 .. n - 1 PROVE Line'[i] = r[i]
  <2>1. Line'[i] = b[i - 1] /\ i - 1 \in Index /\ i \in Nat
    <3> HIDE DEF b
    <3> QED BY <1>1, <1>5 DEF Index
  <2>2. CASE i < p
    <3>1. b[i - 1] = keyboard_buffer[i - 1]
      BY <1>1, <2>1, <2>2
    <3>2. Line[i] = keyboard_buffer[i - 1]
      BY <1>1, <1>6
    <3> QED BY <1>8, <2>1, <2>2, <3>1, <3>2
  <2>3. CASE ~(i < p)
    <3>1. b[i - 1] = keyboard_buffer[(i - 1) + 1] /\ (i - 1) + 1 = (i + 1) - 1
      BY <1>1, <2>1, <2>3
    <3>2. i + 1 \in 1 .. n
      BY <1>1
    <3> QED BY <1>6, <1>8, <2>1, <2>3, <3>1, <3>2
  <2> QED BY <2>2, <2>3
<1>10. Line' = r
  <2> HIDE DEF b
  <2> QED BY <1>5, <1>8, <1>9, SeqEqual
<1>11. Abstract!Next
  BY <1>1, <1>5, <1>7, <1>10, TextErase
<1> QED BY <1>5, <1>11

\* Ctrl-K leaves nothing but zeros behind the cursor.
LEMMA CtrlKKeepsLine ==
  ASSUME LineInv, CtrlK
  PROVE  LineInv' /\ Abstract!Next
<1> DEFINE n == keyboard_buffer_size
           p == keyboard_buffer_pos
           b == [i \in Index |-> IF i \in p .. n THEN Nul ELSE keyboard_buffer[i]]
<1>1. /\ n \in Nat /\ p \in Nat /\ p <= n /\ n <= BufferSize - 2 /\ BufferSize \in Nat
      /\ p \in 0 .. BufferSize - 2 /\ p \in 0 .. p
  BY LineConstants DEF LineInv, BufferOK
<1>2. SetLine(b, p, p) /\ UNCHANGED <<historyVars, keyboard_read_buffer, fault>>
  BY DEF CtrlK
<1>3. HoldsText(keyboard_buffer, n)
  BY DEF LineInv, BufferOK
<1>4. HoldsText(b, p)
  <2>1. ASSUME NEW i \in Index
        PROVE  b[i] \in Printed \cup {Nul} /\ (b[i] = Nul <=> i >= p)
    <3>1. i \in Nat
      BY <1>1 DEF Index
    <3>2. CASE i \in p .. n
      BY <1>1, <3>1, <3>2
    <3>3. CASE i \notin p .. n
      <4>1. b[i] = keyboard_buffer[i]
        BY <3>3
      <4> QED BY <1>1, <1>3, <3>1, <3>3, <4>1 DEF HoldsText
    <3> QED BY <3>2, <3>3
  <2>2. p \in 0 .. BufferSize
    BY <1>1
  <2> QED BY <2>1, <2>2 DEF HoldsText
<1>5. /\ LineInv'
      /\ keyboard_buffer_pos' = p /\ UNCHANGED <<Log, history_curr, keyboard_read_buffer>>
      /\ Line' \in Seq(Printed) /\ Len(Line') = p /\ \A i \in 1 .. p : Line'[i] = b[i - 1]
  <2> HIDE DEF b
  <2> QED BY <1>1, <1>2, <1>4, SetLineKeeps
<1>6. Line \in Seq(Printed) /\ Len(Line) = n /\ \A i \in 1 .. n : Line[i] = keyboard_buffer[i - 1]
  BY LineFacts
<1>7. ASSUME NEW i \in 1 .. p PROVE Line'[i] = Line[i]
  <2>1. b[i - 1] = keyboard_buffer[i - 1]
    BY <1>1 DEF Index
  <2>2. i \in 1 .. n
    BY <1>1
  <2> QED BY <1>5, <1>6, <2>1, <2>2
<1>8. Line' = SubSeq(Line, 1, p)
  <2>1. Len(SubSeq(Line, 1, p)) = p /\ SubSeq(Line, 1, p) \in Seq(Printed)
        /\ \A i \in 1 .. p : SubSeq(Line, 1, p)[i] = Line[i]
    BY <1>1, <1>6, PrefixFacts
  <2>2. PICK s : s = SubSeq(Line, 1, p)
    OBVIOUS
  <2> HIDE DEF b
  <2> QED BY <1>5, <1>7, <2>1, <2>2, SeqEqual
<1>9. Abstract!Next
  BY <1>1, <1>5, <1>8, TextKill
<1> QED BY <1>5, <1>9

\* A step that only moves the cursor inside the line.
LEMMA CursorKeeps ==
  ASSUME LineInv, NEW p \in 0 .. keyboard_buffer_size,
         SetLine(keyboard_buffer, p, keyboard_buffer_size),
         UNCHANGED <<historyVars, keyboard_read_buffer, fault>>
  PROVE  LineInv' /\ Abstract!Next
<1>1. /\ HoldsText(keyboard_buffer, keyboard_buffer_size)
      /\ keyboard_buffer_size \in 0 .. BufferSize - 2
  BY DEF LineInv, BufferOK
<1>2. /\ LineInv' /\ keyboard_buffer_pos' = p
      /\ UNCHANGED <<Log, history_curr, keyboard_read_buffer>>
  BY <1>1, SetLineKeeps
<1>3. UNCHANGED Line
  BY DEF SetLine, Line
<1>4. Len(Line) = keyboard_buffer_size
  BY LineFacts
<1>5. Len(Line) \in Nat /\ Len(Line) <= BufferSize - 2
  BY <1>1, <1>4, LineConstants
<1> QED BY <1>2, <1>3, <1>4, <1>5, TextMove

\* The arrow keys and Ctrl-A.
LEMMA ArrowsKeep ==
  ASSUME LineInv, LeftArrow \/ RightArrow \/ CtrlA
  PROVE  LineInv' /\ Abstract!Next
<1>1. /\ keyboard_buffer_size \in Nat /\ keyboard_buffer_pos \in Nat
      /\ keyboard_buffer_pos <= keyboard_buffer_size
  BY LineConstants DEF LineInv, BufferOK
<1>2. CASE LeftArrow
  <2>1. keyboard_buffer_pos - 1 \in 0 .. keyboard_buffer_size
    BY <1>1, <1>2 DEF LeftArrow
  <2> QED BY <1>2, <2>1, CursorKeeps DEF LeftArrow
<1>3. CASE RightArrow
  <2>1. keyboard_buffer_pos + 1 \in 0 .. keyboard_buffer_size
    BY <1>1, <1>3 DEF RightArrow
  <2> QED BY <1>3, <2>1, CursorKeeps DEF RightArrow
<1>4. CASE CtrlA
  <2>1. 0 \in 0 .. keyboard_buffer_size
    BY <1>1
  <2> QED BY <1>4, <2>1, CursorKeeps DEF CtrlA
<1> QED BY <1>2, <1>3, <1>4

\* A click puts the cursor into the line, when line_click's rows are those of the screen.
LEMMA ClickPlace ==
  ASSUME NEW cols \in Nat, NEW start \in Nat, start < cols, NEW n \in Nat,
         start = 0 \/ n < 2 * (cols - start),
         NEW h \in Nat, NEW r \in Nat, r < cols - start, n = (cols - start) * h + r,
         NEW x \in 0 .. cols - 1, NEW y \in Nat, y <= h, ~(y = 0 /\ x < start)
  PROVE  LET col == IF y = 0 THEN IF h = 0 /\ x > start + r THEN start + r ELSE x
                    ELSE IF y = h /\ x > r THEN r ELSE x
         IN  y * cols + col - start \in 0 .. n
<1> DEFINE col == IF y = 0 THEN IF h = 0 /\ x > start + r THEN start + r ELSE x
                  ELSE IF y = h /\ x > r THEN r ELSE x
<1>1. CASE h = 0
  BY <1>1
<1>2. CASE h = 1 /\ y = 0
  BY <1>2
<1>3. CASE h = 1 /\ y = 1
  BY <1>3
<1>4. CASE h > 1
  <2>1. start = 0
    <3>1. n >= 2 * (cols - start)
      BY <1>4
    <3> QED BY <3>1
  <2>2. n = cols * h + r
    BY <2>1
  <2>3. CASE y = h
    BY <1>4, <2>1, <2>2, <2>3
  <2>4. CASE y < h
    <3>1. cols * y + cols <= cols * h
      BY <2>4
    <3> QED BY <2>1, <2>2, <2>4, <3>1
  <2> QED BY <2>3, <2>4
<1> QED BY <1>1, <1>2, <1>3, <1>4

\* Division with remainder.
LEMMA Division ==
  ASSUME NEW n \in Nat, NEW w \in Nat, w > 0
  PROVE  /\ n \div w \in Nat /\ n % w \in Nat /\ n % w < w
         /\ n = w * (n \div w) + (n % w)
<1>1. n % w \in Nat /\ n % w < w /\ n = w * (n \div w) + (n % w)
  OBVIOUS
<1>2. n \div w \in Nat
  OBVIOUS
<1> QED BY <1>1, <1>2

\* A click on a line that fits.
LEMMA LineClickKeeps ==
  ASSUME LineInv, LineFits, NEW x \in 0 .. NumCols - 1, NEW yOff \in 0 .. BufferSize,
         LineClick(x, yOff)
  PROVE  LineInv' /\ Abstract!Next
<1> DEFINE width == NumCols - StartX
           n     == keyboard_buffer_size
           h     == n \div width
           r     == n % width
           col   == IF yOff = 0 THEN IF h = 0 /\ x > StartX + r THEN StartX + r ELSE x
                    ELSE IF yOff = h /\ x > r THEN r ELSE x
<1>1. NumCols \in Nat /\ StartX \in Nat /\ StartX < NumCols /\ n \in Nat /\ yOff \in Nat
  BY LineConstants DEF LineInv, BufferOK
<1>2. h \in Nat /\ r \in Nat /\ r < width /\ n = width * h + r
  <2>1. width \in Nat /\ width > 0
    BY <1>1
  <2> HIDE DEF width, n
  <2> QED BY <1>1, <2>1, Division
<1>3. StartX = 0 \/ n < 2 * (NumCols - StartX)
  BY DEF LineFits
<1>4. yOff <= h /\ ~(yOff = 0 /\ x < StartX)
  BY DEF LineClick
<1>5. yOff * NumCols + col - StartX \in 0 .. n
  <2> HIDE DEF n, h, r
  <2> QED BY <1>1, <1>2, <1>3, <1>4, ClickPlace
<1>6. /\ SetLine(keyboard_buffer, yOff * NumCols + col - StartX, n)
      /\ UNCHANGED <<historyVars, keyboard_read_buffer, fault>>
  BY DEF LineClick
<1>7. PICK p \in 0 .. n : p = yOff * NumCols + col - StartX
  BY <1>5
<1>8. SetLine(keyboard_buffer, p, n)
  BY <1>6, <1>7
<1> QED BY <1>6, <1>8, CursorKeeps

-----------------------------------------------------------------------------
(* The history.                                                            *)

\* The first n entries of an array, as a sequence.
LEMMA ListFacts ==
  ASSUME NEW S, NEW n \in Nat, NEW h, \A i \in 0 .. n - 1 : h[i] \in S,
         NEW l, l = [i \in 1 .. n |-> h[i - 1]]
  PROVE  l \in Seq(S) /\ Len(l) = n /\ \A i \in 1 .. n : l[i] = h[i - 1]
<1>1. \A i \in 1 .. n : i - 1 \in 0 .. n - 1
  OBVIOUS
<1>2. l \in [1 .. n -> S] /\ \A i \in 1 .. n : l[i] = h[i - 1]
  BY <1>1
<1> QED BY <1>2

\* The log of lines is what stands in command_history.
LEMMA LogFacts ==
  ASSUME HistoryOK
  PROVE  /\ Log \in Seq(Seq(Printed)) /\ Len(Log) = history_size
         /\ \A i \in 1 .. history_size : Log[i] = command_history[i - 1]
<1>1. history_size \in Nat /\ MaxHistory \in Nat /\ history_size <= MaxHistory
  BY LineConstants DEF HistoryOK
<1>2. \A i \in 0 .. history_size - 1 : command_history[i] \in Seq(Printed)
  BY <1>1 DEF HistoryOK
<1>3. PICK l : l = [i \in 1 .. history_size |-> command_history[i - 1]]
  OBVIOUS
<1>4. /\ l \in Seq(Seq(Printed)) /\ Len(l) = history_size
      /\ \A i \in 1 .. history_size : l[i] = command_history[i - 1]
  BY <1>1, <1>2, <1>3, ListFacts
<1> QED BY <1>3, <1>4 DEF Log

\* A remembered line, or the empty one below the newest, is shown.
LEMMA TextRecall ==
  ASSUME NEW n \in 0 .. MaxHistory, n <= Len(Log), n - history_curr \in {-1, 1},
         Len(Log) \in Nat,
         n < Len(Log) => Line' = Log[n + 1],
         n = Len(Log) => Line' = <<>>,
         history_curr' = n, keyboard_buffer_pos' = Len(Line'),
         UNCHANGED <<Log, keyboard_read_buffer>>
  PROVE  Abstract!Next
<1>1. n \in Nat /\ n \in 0 .. Len(Log)
  BY LineConstants
<1>2. Line' = IF n < Len(Log) THEN Log[n + 1] ELSE <<>>
  BY <1>1
<1>3. Abstract!Recall(n)
  BY <1>1, <1>2 DEF Abstract!Recall, Line, Log
<1> QED BY <1>3 DEF Abstract!Next

\* Up and Down, and what they find one past the newest line.
LEMMA HistoryMoveKeeps ==
  ASSUME LineInv, NEW offset \in {-1, 1}, HistoryMove(offset)
  PROVE  LineInv' /\ (Abstract!Next \/ BehindHistoryShown)
<1> DEFINE n == history_curr + offset
<1>1. /\ n \in Nat /\ n <= history_size /\ history_size \in Nat /\ history_size <= MaxHistory
      /\ MaxHistory \in Nat /\ BufferSize \in Nat /\ BufferSize >= 4 /\ history_curr \in Nat
  BY LineConstants DEF HistoryMove, LineInv, HistoryOK
<1>2. PICK s : /\ s \in IF n < MaxHistory THEN {command_history[n]} ELSE BehindHistory
               /\ SetLine(Padded(s), Len(s), Len(s))
  BY DEF HistoryMove
<1>3. /\ history_curr' = n
      /\ UNCHANGED <<command_history, history_size, keyboard_read_buffer, fault>>
  BY DEF HistoryMove
<1>4. Printed = Letters \cup {"space", "newline"} /\ Coords \subseteq Printed
  BY LineConstants DEF Printed, Chars, Space, NL
<1>5. ~(n < MaxHistory) => s \in Seq(Printed) /\ Len(s) <= 2
  <2> SUFFICES ASSUME ~(n < MaxHistory)
               PROVE  s \in Seq(Printed) /\ Len(s) <= 2
    OBVIOUS
  <2>1. s \in UNION {[1 .. m -> Coords] : m \in 0 .. 2}
    BY <1>2 DEF BehindHistory, BoundedSeq, SeqOf
  <2>2. PICK m \in 0 .. 2 : s \in [1 .. m -> Coords]
    BY <2>1
  <2>3. s \in [1 .. m -> Printed]
    BY <1>4, <2>2
  <2>4. s \in Seq(Printed) /\ Len(s) = m
    BY <2>3
  <2> QED BY <2>4
<1>6. n < MaxHistory => n \in 0 .. MaxHistory - 1 /\ s = command_history[n]
  BY <1>1, <1>2
<1>7. s \in Seq(Printed) /\ Len(s) \in 0 .. BufferSize - 2 /\ Len(s) <= BufferSize
  <2>1. s \in Seq(Printed) /\ Len(s) <= BufferSize - 2
    BY <1>1, <1>5, <1>6 DEF LineInv, HistoryOK
  <2>2. Len(s) \in Nat
    BY <2>1
  <2> QED BY <1>1, <2>1, <2>2
<1>8. HoldsText(Padded(s), Len(s)) /\ String(Padded(s)) = s
  BY <1>7, PaddedFacts
<1>9. Line' = s /\ keyboard_buffer_pos' = Len(s)
  BY <1>2, <1>8 DEF SetLine, Line
<1>10. BufferOK'
  <2>1. Len(s) \in 0 .. Len(s)
    BY <1>7
  <2> QED BY <1>2, <1>7, <1>8, <2>1 DEF SetLine, BufferOK
<1>11. HistoryOK' /\ ReadOK' /\ UNCHANGED Log
  <2>1. n \in 0 .. history_size
    BY <1>1
  <2> QED BY <1>3, <2>1 DEF LineInv, HistoryOK, ReadOK, Log
<1>12. Len(Log) = history_size /\ \A i \in 1 .. history_size : Log[i] = command_history[i - 1]
  BY LogFacts DEF LineInv
<1>13. n < Len(Log) => Line' = Log[n + 1]
  <2> SUFFICES ASSUME n < history_size PROVE Line' = Log[n + 1]
    BY <1>12
  <2>1. n < MaxHistory /\ n + 1 \in 1 .. history_size /\ (n + 1) - 1 = n
    BY <1>1
  <2> QED BY <1>6, <1>9, <1>12, <2>1
<1>14. n = Len(Log) /\ n < MaxHistory => Line' = <<>>
  <2> SUFFICES ASSUME n = history_size, n < MaxHistory PROVE Line' = <<>>
    BY <1>12
  <2>1. n \in history_size .. MaxHistory - 1
    BY <1>1
  <2> QED BY <1>6, <1>9, <2>1 DEF LineInv, HistoryOK
<1>15. n - history_curr \in {-1, 1} /\ n \in 0 .. MaxHistory
  BY <1>1
<1>16. CASE n < MaxHistory
  <2> HIDE DEF n
  <2>1. n = Len(Log) => Line' = <<>>
    BY <1>14, <1>16
  <2>2. Abstract!Next
    BY <1>1, <1>3, <1>9, <1>11, <1>12, <1>13, <1>15, <2>1, TextRecall
  <2> QED BY <1>10, <1>11, <2>2 DEF LineInv
<1>17. CASE ~(n < MaxHistory)
  <2>1. /\ n = MaxHistory /\ history_size = MaxHistory /\ history_curr <= history_size
    BY <1>1, <1>17 DEF LineInv, HistoryOK
  <2>2. history_curr = MaxHistory - 1
    BY <1>1, <1>15, <2>1
  <2>3. keyboard_buffer_pos' = Len(String(keyboard_buffer'))
    BY <1>9 DEF Line
  <2>4. BehindHistoryShown
    BY <1>3, <2>1, <2>2, <2>3 DEF BehindHistoryShown
  <2> QED BY <1>10, <1>11, <2>4 DEF LineInv
<1> QED BY <1>16, <1>17

-----------------------------------------------------------------------------
(* Enter.                                                                  *)

\* The last of a set of places, or 0.
Last0(I) == IF I # {} THEN CHOOSE x \in I : \A y \in I : x >= y ELSE 0

\* It is the last, when there is one.
LEMMA LastPlace ==
  ASSUME NEW n \in Nat, NEW I \in SUBSET (1 .. n)
  PROVE  /\ Last0(I) \in 0 .. n /\ (Last0(I) > 0 => Last0(I) \in I)
         /\ \A i \in I : i <= Last0(I)
<1>1. CASE I = {}
  BY <1>1 DEF Last0
<1>2. CASE I # {}
  <2> DEFINE D == {n - i : i \in I}
  <2>1. \A i \in I : i \in 1 .. n /\ n - i \in Nat
    OBVIOUS
  <2>2. D \in SUBSET Nat /\ D # {}
    BY <1>2, <2>1
  <2> HIDE DEF D
  <2>3. PICK d \in D : \A e \in D : d <= e
    BY <2>2, LeastNat
  <2>4. PICK x \in I : d = n - x
    BY DEF D
  <2>5. ASSUME NEW y \in I PROVE x >= y
    <3>1. n - y \in D
      BY DEF D
    <3> QED BY <2>1, <2>3, <2>4, <3>1
  <2>6. Last0(I) \in I /\ \A y \in I : Last0(I) >= y
    BY <1>2, <2>5 DEF Last0
  <2>7. Last0(I) \in 1 .. n
    BY <2>1, <2>6
  <2>8. ASSUME NEW i \in I PROVE i <= Last0(I)
    BY <2>1, <2>6, <2>7
  <2> QED BY <2>6, <2>7, <2>8
<1> QED BY <1>1, <1>2

\* Where the last character that is no blank stands.
LastInk(s) == Abstract!SelectLastInSeq(s, LAMBDA c : c # Abstract!Space)

\* Only blanks follow it.
LEMMA LastInkFacts ==
  ASSUME NEW S, NEW s \in Seq(S)
  PROVE  /\ LastInk(s) \in 0 .. Len(s)
         /\ LastInk(s) > 0 => s[LastInk(s)] # Space
         /\ \A i \in 1 .. Len(s) : i > LastInk(s) => s[i] = Space
<1> DEFINE I == {i \in 1 .. Len(s) : s[i] # Space}
           m == LastInk(s)
<1>1. m = Last0(I)
  BY DEF Last0, LastInk, Abstract!SelectLastInSeq, Abstract!Max, Abstract!Space, Space
<1>2. I \in SUBSET (1 .. Len(s)) /\ Len(s) \in Nat
  OBVIOUS
<1> HIDE DEF I, m
<1>3. m \in 0 .. Len(s) /\ (m > 0 => m \in I) /\ \A i \in I : i <= m
  BY <1>1, <1>2, LastPlace
<1>4. m > 0 => s[m] # Space
  BY <1>3 DEF I
<1>5. \A i \in 1 .. Len(s) : i > m => s[i] = Space
  BY <1>2, <1>3 DEF I
<1> QED BY <1>3, <1>4, <1>5 DEF m

\* The two loops of handle_enter: the line feed, and zeros over the trailing blanks.
Ended  == [keyboard_buffer EXCEPT ![keyboard_buffer_size] = NL]
Handed == [i \in Index |->
             IF i < keyboard_buffer_size /\ \A j \in i .. keyboard_buffer_size - 1 : Ended[j] = Space
             THEN Nul ELSE Ended[i]]

\* What it hands over: the line with its line feed, or the line up to its trailing blanks.
LEMMA DeliveredIs ==
  ASSUME LineInv
  PROVE  /\ String(Handed) \in Seq(Printed)
         /\ \/ String(Handed) = Abstract!Delivered(Line)
            \/ /\ Abstract!Trimmed(Line) # Line
               /\ String(Handed) = Abstract!Trimmed(Line)
<1> DEFINE n == keyboard_buffer_size
           m == LastInk(Line)
<1>1. PICK ended : ended = Ended
  OBVIOUS
<1>2. PICK b : b = Handed
  OBVIOUS
<1>3. n \in Nat /\ n <= BufferSize - 2 /\ BufferSize \in Nat /\ n \in Index /\ n + 1 \in Index
  BY LineConstants DEF LineInv, BufferOK, Index
<1>4. Line \in Seq(Printed) /\ Len(Line) = n /\ \A i \in 1 .. n : Line[i] = keyboard_buffer[i - 1]
  BY LineFacts
<1>5. /\ m \in 0 .. n /\ (m > 0 => Line[m] # Space)
      /\ \A i \in 1 .. n : i > m => Line[i] = Space
  BY <1>4, LastInkFacts
<1>6. m \in Nat /\ m <= n
  BY <1>3, <1>5
<1> HIDE DEF m
<1>7. HoldsText(keyboard_buffer, n)
  BY DEF LineInv, BufferOK
<1>8. /\ ended[n] = NL /\ ended[n + 1] = Nul
      /\ \A i \in Index : i < n => ended[i] = keyboard_buffer[i] /\ ended[i] \in Printed
  BY <1>1, <1>3, <1>7 DEF HoldsText, Index, Ended
<1>9. ASSUME NEW i \in 0 .. n - 1 PROVE i \in Index /\ i + 1 \in 1 .. n /\ ended[i] = Line[i + 1]
  <2>1. i \in Index /\ i < n /\ i + 1 \in 1 .. n /\ (i + 1) - 1 = i
    BY <1>3 DEF Index
  <2> QED BY <1>4, <1>8, <2>1
<1>10. ASSUME NEW i \in 0 .. n - 1
      PROVE  (\A j \in i .. n - 1 : ended[j] = Space) <=> i >= m
  <2>1. ASSUME i >= m, NEW j \in i .. n - 1 PROVE ended[j] = Space
    <3>1. j \in 0 .. n - 1 /\ j + 1 > m
      BY <1>3, <1>6, <2>1
    <3> QED BY <1>5, <1>9, <3>1
  <2>2. ASSUME i < m PROVE ended[m - 1] # Space /\ m - 1 \in i .. n - 1
    <3>1. m - 1 \in 0 .. n - 1 /\ m - 1 \in i .. n - 1 /\ (m - 1) + 1 = m /\ m > 0
      BY <1>3, <1>6, <2>2
    <3> QED BY <1>5, <1>9, <3>1
  <2> QED BY <1>3, <1>6, <2>1, <2>2
<1>11. ASSUME NEW i \in 0 .. n - 1 PROVE b[i] = IF i >= m THEN Nul ELSE Line[i + 1]
  <2>1. i \in Index /\ i < n
    BY <1>3, <1>9
  <2> QED BY <1>1, <1>2, <1>9, <1>10, <2>1 DEF Handed
<1>12. b[n] = NL /\ b[n + 1] = Nul
  BY <1>1, <1>2, <1>3, <1>8 DEF Handed
<1> HIDE DEF n
<1>13. PICK t : t = SubSeq(Line, 1, m)
  OBVIOUS
<1>14. t \in Seq(Printed) /\ Len(t) = m /\ \A i \in 1 .. m : t[i] = Line[i]
  BY <1>4, <1>5, <1>13, PrefixFacts
<1>15. Abstract!Trimmed(Line) = t
  BY <1>13 DEF Abstract!Trimmed, m, LastInk
<1>16. PICK r : r = String(b)
  OBVIOUS
<1>17. CASE m = n
  <2>1. t = Line
    BY <1>4, <1>14, <1>17, SeqEqual
  <2>2. Abstract!Delivered(Line) = Append(Line, NL)
    BY <1>15, <2>1 DEF Abstract!Delivered, Abstract!NL, NL
  <2>3. ASSUME NEW i \in 0 .. (n + 1) - 1
        PROVE  b[i] = Append(Line, NL)[i + 1] /\ b[i] \in Printed
    <3>1. CASE i = n
      BY <1>3, <1>4, <1>12, <3>1, PrintedFacts
    <3>2. CASE i # n
      <4>1. i \in 0 .. n - 1 /\ ~(i >= m) /\ i + 1 \in 1 .. n
        BY <1>3, <1>17, <3>2
      <4>2. Line[i + 1] \in Printed
        BY <1>4, <4>1
      <4>3. b[i] = Line[i + 1]
        BY <1>11, <4>1
      <4> QED BY <1>3, <1>4, <4>1, <4>2, <4>3
    <3> QED BY <3>1, <3>2
  <2>4. n + 1 \in 0 .. BufferSize /\ \A i \in 1 .. n + 1 : i - 1 \in 0 .. (n + 1) - 1 /\ (i - 1) + 1 = i
    BY <1>3
  <2>5. r \in Seq(Printed) /\ Len(r) = n + 1 /\ \A i \in 1 .. n + 1 : r[i] = b[i - 1]
    BY <1>12, <1>16, <2>3, <2>4, StringIs
  <2>6. PICK u : u = Append(Line, NL)
    OBVIOUS
  <2>7. u \in Seq(Printed) /\ Len(u) = n + 1
    BY <1>4, <2>6, PrintedFacts
  <2>8. ASSUME NEW i \in 1 .. n + 1 PROVE r[i] = u[i]
    BY <2>3, <2>4, <2>5, <2>6
  <2>9. r = u
    BY <2>5, <2>7, <2>8, SeqEqual
  <2> QED BY <1>2, <1>16, <2>2, <2>5, <2>6, <2>9
<1>18. CASE m # n
  <2>1. t # Line
    BY <1>4, <1>14, <1>18
  <2>2. Abstract!Trimmed(Line) = t
    BY <1>15
  <2>3. ASSUME NEW i \in 0 .. m - 1 PROVE b[i] = t[i + 1] /\ b[i] \in Printed
    <3>1. i \in 0 .. n - 1 /\ ~(i >= m) /\ i + 1 \in 1 .. m /\ i + 1 \in 1 .. n
      BY <1>3, <1>6
    <3>2. Line[i + 1] \in Printed
      BY <1>4, <3>1
    <3>3. b[i] = Line[i + 1]
      BY <1>11, <3>1
    <3> QED BY <1>14, <3>1, <3>2, <3>3
  <2>4. b[m] = Nul /\ m \in 0 .. BufferSize
    <3>1. m \in 0 .. n - 1 /\ m >= m /\ m \in 0 .. BufferSize
      BY <1>3, <1>6, <1>18
    <3> QED BY <1>11, <3>1
  <2>5. r \in Seq(Printed) /\ Len(r) = m /\ \A i \in 1 .. m : r[i] = b[i - 1]
    BY <1>16, <2>3, <2>4, StringIs
  <2>6. ASSUME NEW i \in 1 .. m PROVE r[i] = t[i]
    <3>1. i - 1 \in 0 .. m - 1 /\ (i - 1) + 1 = i
      BY <1>6
    <3> QED BY <2>3, <2>5, <3>1
  <2>7. r = t
    BY <1>14, <2>5, <2>6, SeqEqual
  <2> QED BY <1>2, <1>16, <2>1, <2>2, <2>5, <2>7
<1> QED BY <1>17, <1>18

\* add_to_history appends the line, and drops the oldest when there is no room.
LEMMA AddToHistoryIs ==
  ASSUME HistoryOK, NEW s \in Seq(Printed), Len(s) <= BufferSize - 2, AddToHistory(s)
  PROVE  /\ HistoryOK'
         /\ history_curr' = Len(Log')
         /\ LET all == Append(Log, s)
            IN  Log' = IF Len(all) <= MaxHistory THEN all ELSE Tail(all)
<1> DEFINE n == history_size
           M == MaxHistory
           base == IF HistoryFull THEN Shifted ELSE command_history
           size == IF HistoryFull THEN n - 1 ELSE n
<1>1. n \in Nat /\ M \in Nat /\ n <= M /\ M >= 1 /\ DOMAIN command_history = 0 .. M - 1
  BY LineConstants DEF HistoryOK
<1>2. /\ command_history' = [base EXCEPT ![size] = s]
      /\ history_size' = size + 1 /\ history_curr' = size + 1
  BY DEF AddToHistory
<1>3. \A i \in 0 .. M - 1 :
         /\ command_history[i] \in Seq(Printed) /\ Len(command_history[i]) <= BufferSize - 2
         /\ i >= n => command_history[i] = <<>>
  BY <1>1 DEF HistoryOK
<1>4. /\ base \in [0 .. M - 1 -> Seq(Printed)]
      /\ \A i \in 0 .. M - 1 : base[i] = IF n = M /\ i < M - 1 THEN command_history[i + 1]
                                                                ELSE command_history[i]
  <2>1. CASE n = M
    <3>1. base = [i \in 0 .. M - 1 |-> IF i < M - 1 THEN command_history[i + 1]
                                                     ELSE command_history[i]]
      BY <1>1, <2>1 DEF HistoryFull, Shifted
    <3>2. \A i \in 0 .. M - 1 : i < M - 1 => i + 1 \in 0 .. M - 1
      BY <1>1
    <3> HIDE DEF base
    <3> QED BY <1>3, <2>1, <3>1, <3>2
  <2>2. CASE n # M
    <3>1. base = command_history
      BY <2>2 DEF HistoryFull
    <3> QED BY <2>2, <3>1 DEF HistoryOK
  <2> QED BY <2>1, <2>2
<1>5. size \in 0 .. M - 1 /\ (n = M => size = n - 1) /\ (n # M => size = n)
  BY <1>1 DEF HistoryFull
<1> HIDE DEF base, size
<1>6. PICK h : h = command_history'
  OBVIOUS
<1>7. /\ h \in [0 .. M - 1 -> Seq(Printed)]
      /\ \A i \in 0 .. M - 1 : h[i] = IF i = size THEN s ELSE base[i]
  BY <1>2, <1>4, <1>5, <1>6
<1>8. ASSUME NEW i \in 0 .. M - 1 PROVE Len(h[i]) <= BufferSize - 2
  <2>1. CASE i = size
    BY <1>7, <2>1
  <2>2. CASE i # size
    <3>1. n = M /\ i < M - 1 => i + 1 \in 0 .. M - 1
      BY <1>1
    <3>2. \E j \in 0 .. M - 1 : h[i] = command_history[j]
      BY <1>4, <1>7, <2>2, <3>1
    <3> QED BY <1>3, <3>2
  <2> QED BY <2>1, <2>2
<1>9. ASSUME NEW i \in size + 1 .. M - 1 PROVE h[i] = <<>>
  <2>1. n # M /\ size = n /\ i \in 0 .. M - 1 /\ i >= n /\ i # size
    BY <1>1, <1>5
  <2> QED BY <1>3, <1>4, <1>7, <2>1
<1>10. HistoryOK'
  <2>1. size + 1 \in 0 .. M /\ size + 1 \in 0 .. size + 1
    BY <1>1, <1>5
  <2> QED BY <1>2, <1>6, <1>7, <1>8, <1>9, <2>1 DEF HistoryOK
<1>11. PICK l : l = Log'
  OBVIOUS
<1>12. /\ l \in Seq(Seq(Printed)) /\ Len(l) = size + 1
       /\ \A i \in 1 .. size + 1 : l[i] = h[i - 1]
  <2>1. l = [i \in 1 .. size + 1 |-> h[i - 1]]
    BY <1>2, <1>6, <1>11 DEF Log
  <2>2. size + 1 \in Nat /\ \A i \in 0 .. (size + 1) - 1 : i \in 0 .. M - 1 /\ h[i] \in Seq(Printed)
    BY <1>1, <1>5, <1>7
  <2> QED BY <2>1, <2>2, ListFacts
<1>13. PICK g : g = Log
  OBVIOUS
<1>14. g \in Seq(Seq(Printed)) /\ Len(g) = n /\ \A i \in 1 .. n : g[i] = command_history[i - 1]
  BY <1>13, LogFacts
<1>15. PICK all : all = Append(g, s)
  OBVIOUS
<1>16. /\ all \in Seq(Seq(Printed)) /\ Len(all) = n + 1
       /\ \A i \in 1 .. n + 1 : all[i] = IF i = n + 1 THEN s ELSE command_history[i - 1]
  <2>1. /\ all \in Seq(Seq(Printed)) /\ Len(all) = n + 1
        /\ all[n + 1] = s /\ \A i \in 1 .. n : all[i] = g[i]
    BY <1>1, <1>14, <1>15
  <2>2. \A i \in 1 .. n + 1 : i = n + 1 \/ i \in 1 .. n
    BY <1>1
  <2> QED BY <1>14, <2>1, <2>2
<1>17. CASE n # M
  <2>1. size = n /\ n + 1 <= M
    BY <1>1, <1>5, <1>17
  <2>2. ASSUME NEW i \in 1 .. n + 1 PROVE l[i] = all[i]
    <3>1. i - 1 \in 0 .. M - 1 /\ (i - 1 = n <=> i = n + 1)
      BY <1>1, <2>1
    <3> QED BY <1>4, <1>7, <1>12, <1>16, <1>17, <2>1, <3>1
  <2>3. l = all
    BY <1>12, <1>16, <2>1, <2>2, SeqEqual
  <2>4. Log' = IF Len(all) <= M THEN all ELSE Tail(all)
    BY <1>11, <1>16, <2>1, <2>3
  <2> QED BY <1>2, <1>10, <1>11, <1>12, <1>13, <1>15, <2>4
<1>18. CASE n = M
  <2>1. size = n - 1 /\ size + 1 = n /\ ~(n + 1 <= M) /\ n \in 1 .. M
    BY <1>1, <1>5, <1>18
  <2>2. PICK t : t = Tail(all)
    OBVIOUS
  <2>3. t \in Seq(Seq(Printed)) /\ Len(t) = n /\ \A i \in 1 .. n : t[i] = all[i + 1]
    <3>1. all # <<>>
      BY <1>1, <1>16
    <3>2. /\ Tail(all) \in Seq(Seq(Printed)) /\ Len(Tail(all)) = Len(all) - 1
          /\ \A i \in 1 .. Len(all) - 1 : Tail(all)[i] = all[i + 1]
      BY <1>16, <3>1, HeadTailProperties
    <3>3. Len(all) - 1 = n
      BY <1>1, <1>16
    <3> QED BY <2>2, <3>2, <3>3
  <2>4. ASSUME NEW i \in 1 .. n PROVE l[i] = t[i]
    <3>1. i - 1 \in 0 .. M - 1 /\ i + 1 \in 1 .. n + 1 /\ (i + 1) - 1 = i /\ (i - 1) + 1 = i
      BY <1>1, <2>1
    <3>2. l[i] = h[i - 1] /\ t[i] = all[i + 1]
      BY <1>12, <2>1, <2>3
    <3>3. CASE i = n
      <4>1. i - 1 = size /\ i + 1 = n + 1
        BY <2>1, <3>3
      <4> QED BY <1>7, <1>16, <3>1, <3>2, <4>1
    <3>4. CASE i # n
      <4>1. i - 1 # size /\ i + 1 # n + 1 /\ i - 1 < M - 1
        BY <1>1, <1>18, <2>1, <3>4
      <4>2. h[i - 1] = command_history[(i - 1) + 1]
        BY <1>4, <1>7, <1>18, <3>1, <4>1
      <4>3. all[i + 1] = command_history[(i + 1) - 1]
        BY <1>16, <3>1, <4>1
      <4> QED BY <3>1, <3>2, <4>2, <4>3
    <3> QED BY <3>3, <3>4
  <2>5. l = t
    BY <1>12, <2>1, <2>3, <2>4, SeqEqual
  <2>6. Log' = IF Len(all) <= M THEN all ELSE Tail(all)
    BY <1>11, <1>16, <2>1, <2>2, <2>5
  <2> QED BY <1>2, <1>10, <1>11, <1>12, <1>13, <1>15, <2>6
<1> QED BY <1>17, <1>18

\* Enter remembers the line, hands it over and clears the buffer.
LEMMA HandleEnterKeeps ==
  ASSUME LineInv, HandleEnterLine
  PROVE  LineInv' /\ (Abstract!Next \/ LineFeedLost)
<1>1. /\ AddToHistory(Line) /\ keyboard_read_buffer' = String(Handed)
      /\ SetLine([i \in Index |-> Nul], 0, 0) /\ UNCHANGED fault
  BY DEF HandleEnterLine, Line, Ended, Handed
<1>2. /\ String(Handed) \in Seq(Printed)
      /\ \/ String(Handed) = Abstract!Delivered(Line)
         \/ Abstract!Trimmed(Line) # Line /\ String(Handed) = Abstract!Trimmed(Line)
  BY DeliveredIs
<1>3. Line \in Seq(Printed) /\ Len(Line) <= BufferSize - 2
  BY LineFacts, LineConstants DEF LineInv, BufferOK
<1>4. /\ HistoryOK' /\ history_curr' = Len(Log')
      /\ LET all == Append(Log, Line) IN Log' = IF Len(all) <= MaxHistory THEN all ELSE Tail(all)
  BY <1>1, <1>3, AddToHistoryIs DEF LineInv
<1>5. <<>> \in Seq(Printed) /\ Len(<<>>) = 0 /\ BufferSize \in Nat /\ BufferSize >= 4
  BY LineConstants
<1>6. PICK s : s = <<>>
  OBVIOUS
<1>7. Padded(<<>>) = [i \in Index |-> Nul]
  BY <1>5 DEF Padded, Index
<1>8. HoldsText(Padded(<<>>), 0) /\ String(Padded(<<>>)) = <<>>
  <2>1. s \in Seq(Printed) /\ Len(s) = 0 /\ Len(s) <= BufferSize
    BY <1>5, <1>6
  <2>2. HoldsText(Padded(s), Len(s)) /\ String(Padded(s)) = s
    BY <2>1, PaddedFacts
  <2> QED BY <1>6, <2>1, <2>2
<1>9. BufferOK' /\ Line' = <<>> /\ keyboard_buffer_pos' = 0
  BY <1>1, <1>5, <1>7, <1>8 DEF SetLine, BufferOK, Line
<1>10. ReadOK'
  BY <1>1, <1>2 DEF LineInv, ReadOK
<1>11. Abstract!Enter(String(Handed))
  BY <1>1, <1>4, <1>9 DEF Abstract!Enter, Line, Log
<1>12. Abstract!Submit \/ LineFeedLost
  BY <1>2, <1>11 DEF Abstract!Submit, Abstract!Enter, LineFeedLost, Line
<1> QED BY <1>4, <1>9, <1>10, <1>12 DEF LineInv, Abstract!Next

-----------------------------------------------------------------------------
(* Completion.                                                             *)

\* The first n characters of s and t are the same.
Agree(s, t, n) == n <= Len(s) /\ n <= Len(t) /\ \A i \in 1 .. n : s[i] = t[i]

\* Two slices are equal when their characters are.
LEMMA SamePrefix ==
  ASSUME NEW S, NEW s \in Seq(S), NEW t \in Seq(S), NEW n \in Nat, n <= Len(s), n <= Len(t)
  PROVE  SubSeq(s, 1, n) = SubSeq(t, 1, n) <=> Agree(s, t, n)
<1> DEFINE u == SubSeq(s, 1, n)
           v == SubSeq(t, 1, n)
<1>1. n \in 0 .. Len(s) /\ n \in 0 .. Len(t)
  OBVIOUS
<1>2. u \in Seq(S) /\ Len(u) = n /\ \A i \in 1 .. n : u[i] = s[i]
  BY <1>1, PrefixFacts
<1>3. v \in Seq(S) /\ Len(v) = n /\ \A i \in 1 .. n : v[i] = t[i]
  BY <1>1, PrefixFacts
<1> HIDE DEF u, v
<1>4. u = v => Agree(s, t, n)
  BY <1>2, <1>3 DEF Agree
<1>5. Agree(s, t, n) => u = v
  BY <1>2, <1>3, SeqEqual DEF Agree
<1> QED BY <1>4, <1>5 DEF u, v

\* A prefix, character by character.
LEMMA IsPrefixIs ==
  ASSUME NEW S, NEW s \in Seq(S), NEW t \in Seq(S)
  PROVE  IsPrefix(s, t) <=> Agree(s, t, Len(s))
<1>1. Len(s) \in Nat /\ Len(t) \in Nat
  OBVIOUS
<1>2. CASE Len(s) <= Len(t)
  BY <1>1, <1>2, SamePrefix DEF IsPrefix
<1>3. CASE ~(Len(s) <= Len(t))
  BY <1>3 DEF IsPrefix, Agree
<1> QED BY <1>2, <1>3

\* lib.c strcmp of different strings: how much of them is the same.
LEMMA StrCmpFacts ==
  ASSUME NEW S, NEW s \in Seq(S), NEW t \in Seq(S), s # t
  PROVE  /\ StrCmp(s, t) \in 0 .. Len(s)
         /\ Agree(s, t, StrCmp(s, t))
         /\ \/ StrCmp(s, t) = Len(s)
            \/ StrCmp(s, t) = Len(t)
            \/ s[StrCmp(s, t) + 1] # t[StrCmp(s, t) + 1]
<1> DEFINE P(n) == /\ n <= Len(t)
                   /\ SubSeq(s, 1, n) = SubSeq(t, 1, n)
                   /\ (n < Len(s) /\ n < Len(t)) => s[n + 1] # t[n + 1]
           D == {i \in 0 .. Len(s) : i = Len(s) \/ i = Len(t) \/ s[i + 1] # t[i + 1]}
<1>1. Len(s) \in Nat /\ Len(t) \in Nat
  OBVIOUS
<1>2. D \in SUBSET Nat /\ Len(s) \in D
  BY <1>1
<1>3. PICK n \in D : \A m \in D : n <= m
  <2> HIDE DEF D
  <2> QED BY <1>2, LeastNat
<1>4. n \in 0 .. Len(s) /\ n \in Nat /\ (n = Len(s) \/ n = Len(t) \/ s[n + 1] # t[n + 1])
  BY <1>1
<1>5. ASSUME NEW i \in 0 .. n - 1 PROVE i # Len(t) /\ s[i + 1] = t[i + 1]
  <2>1. i \in 0 .. Len(s) /\ ~(n <= i)
    BY <1>1, <1>4
  <2>2. i \notin D
    <3> HIDE DEF D
    <3> QED BY <1>3, <2>1
  <2> QED BY <2>1, <2>2
<1> HIDE DEF D
<1>6. n <= Len(t)
  <2> SUFFICES ASSUME ~(n <= Len(t)) PROVE FALSE
    OBVIOUS
  <2>1. Len(t) \in 0 .. n - 1
    BY <1>1, <1>4
  <2> QED BY <1>5, <2>1
<1>7. Agree(s, t, n)
  <2>1. ASSUME NEW i \in 1 .. n PROVE s[i] = t[i]
    <3>1. i - 1 \in 0 .. n - 1 /\ (i - 1) + 1 = i
      BY <1>4
    <3> QED BY <1>5, <3>1
  <2> QED BY <1>1, <1>4, <1>6, <2>1 DEF Agree
<1>8. n \in 0 .. Len(s) /\ P(n)
  <2>1. SubSeq(s, 1, n) = SubSeq(t, 1, n)
    BY <1>1, <1>4, <1>6, <1>7, SamePrefix
  <2> QED BY <1>1, <1>4, <1>6, <2>1
<1>9. StrCmp(s, t) = CHOOSE m \in 0 .. Len(s) : P(m)
  BY DEF StrCmp
<1>10. PICK c : c = StrCmp(s, t)
  OBVIOUS
<1>11. c \in 0 .. Len(s) /\ P(c)
  <2> HIDE DEF P
  <2> QED BY <1>8, <1>9, <1>10
<1>12. c \in Nat /\ c <= Len(s) /\ c <= Len(t)
  BY <1>1, <1>11
<1>13. Agree(s, t, c)
  BY <1>11, <1>12, SamePrefix
<1>14. c = Len(s) \/ c = Len(t) \/ s[c + 1] # t[c + 1]
  BY <1>1, <1>11, <1>12
<1> QED BY <1>10, <1>11, <1>13, <1>14

\* u is what s and t have in common, c characters, and no less than word.
CommonPart(S, word, s, t, c, u) ==
    /\ c \in Nat /\ c <= Len(s) /\ c <= Len(t) /\ Len(word) <= c
    /\ u \in Seq(S) /\ Len(u) = c
    /\ \A i \in 1 .. c : u[i] = s[i] /\ u[i] = t[i]
    /\ c = Len(s) \/ c = Len(t) \/ s[c + 1] # t[c + 1]

\* strncpy takes the common part of two strings that both begin with word.
LEMMA Common ==
  ASSUME NEW S, NEW word \in Seq(S), NEW s \in Seq(S), NEW t \in Seq(S), s # t,
         Agree(word, s, Len(word)), Agree(word, t, Len(word))
  PROVE  CommonPart(S, word, s, t, StrCmp(s, t), SubSeq(s, 1, StrCmp(s, t)))
<1>1. PICK c : c = StrCmp(s, t)
  OBVIOUS
<1>2. PICK u : u = SubSeq(s, 1, c)
  OBVIOUS
<1>3. Len(s) \in Nat /\ Len(t) \in Nat /\ Len(word) \in Nat
  OBVIOUS
<1>4. c \in 0 .. Len(s) /\ Agree(s, t, c) /\ (c = Len(s) \/ c = Len(t) \/ s[c + 1] # t[c + 1])
  BY <1>1, StrCmpFacts
<1>5. c \in Nat /\ c <= Len(s) /\ c <= Len(t) /\ \A i \in 1 .. c : s[i] = t[i]
  BY <1>3, <1>4 DEF Agree
<1>6. u \in Seq(S) /\ Len(u) = c /\ \A i \in 1 .. c : u[i] = s[i]
  BY <1>2, <1>4, PrefixFacts
<1>7. Len(word) <= c
  <2> SUFFICES ASSUME ~(Len(word) <= c) PROVE FALSE
    OBVIOUS
  <2>1. c + 1 \in 1 .. Len(word) /\ c # Len(s) /\ c # Len(t)
    BY <1>3, <1>5 DEF Agree
  <2>2. s[c + 1] = word[c + 1] /\ t[c + 1] = word[c + 1]
    BY <2>1 DEF Agree
  <2> QED BY <1>4, <2>1, <2>2
<1> QED BY <1>1, <1>2, <1>4, <1>5, <1>6, <1>7 DEF CommonPart

\* g is what the loop over the directory entries has after each of them.
Runs(word, g) ==
    g = [k \in 0 .. Len(Names) |->
           IF k = 0 THEN [cmd |-> <<>>, bad |-> FALSE] ELSE Taken(word, g[k - 1], Names[k])]

\* The loop is well defined.
LEMMA LoopRuns ==
  ASSUME NEW word
  PROVE  \E g : Runs(word, g)
<1> DEFINE Start   == [cmd |-> <<>>, bad |-> FALSE]
           Upto(n, g) == g = [k \in 0 .. n |-> IF k = 0 THEN Start
                                               ELSE Taken(word, g[k - 1], Names[k])]
           Bad == {n \in Nat : ~ \E g : Upto(n, g)}
<1>1. Bad = {}
  <2> SUFFICES ASSUME Bad # {} PROVE FALSE
    OBVIOUS
  <2>1. Bad \in SUBSET Nat
    OBVIOUS
  <2>2. PICK n \in Bad : \A m \in Bad : n <= m
    <3> HIDE DEF Bad
    <3> QED BY <2>1, LeastNat
  <2>3. n \in Nat /\ ~ \E g : Upto(n, g)
    OBVIOUS
  <2>4. CASE n = 0
    <3> HIDE DEF Start
    <3>1. PICK g : g = [k \in 0 .. 0 |-> Start]
      OBVIOUS
    <3>2. g = [k \in 0 .. 0 |-> IF k = 0 THEN Start ELSE Taken(word, g[k - 1], Names[k])]
      BY <3>1
    <3>3. Upto(n, g)
      BY <2>4, <3>2
    <3> HIDE DEF Upto
    <3> QED BY <2>3, <3>3
  <2>5. CASE n # 0
    <3>1. n - 1 \in Nat /\ ~(n <= n - 1)
      BY <2>3, <2>5
    <3>2. n - 1 \notin Bad
      <4> HIDE DEF Bad
      <4> QED BY <2>2, <3>1
    <3>3. PICK g : Upto(n - 1, g)
      BY <3>1, <3>2
    <3> HIDE DEF Start
    <3>4. PICK f : f = [k \in 0 .. n |-> IF k = n THEN Taken(word, g[n - 1], Names[n]) ELSE g[k]]
      OBVIOUS
    <3>5. ASSUME NEW k \in 0 .. n
          PROVE  f[k] = IF k = 0 THEN Start ELSE Taken(word, f[k - 1], Names[k])
      <4>1. CASE k = 0
        <5>1. f[0] = g[0] /\ g[0] = Start
          BY <2>3, <2>5, <3>1, <3>3, <3>4
        <5> QED BY <4>1, <5>1
      <4>2. CASE k # 0 /\ k # n
        <5>1. k \in 0 .. n - 1 /\ k - 1 \in 0 .. n /\ k - 1 # n
          BY <2>3, <4>2
        <5>2. f[k] = g[k] /\ f[k - 1] = g[k - 1]
          BY <3>4, <4>2, <5>1
        <5>3. g[k] = Taken(word, g[k - 1], Names[k])
          BY <3>3, <4>2, <5>1
        <5> QED BY <4>2, <5>2, <5>3
      <4>3. CASE k = n
        <5>1. n - 1 \in 0 .. n /\ n - 1 # n /\ n \in 0 .. n
          BY <2>3, <2>5
        <5>2. f[n - 1] = g[n - 1] /\ f[n] = Taken(word, g[n - 1], Names[n])
          BY <3>4, <5>1
        <5> QED BY <2>5, <4>3, <5>2
      <4> QED BY <4>1, <4>2, <4>3
    <3>6. Upto(n, f)
      BY <3>4, <3>5
    <3> HIDE DEF Upto
    <3> QED BY <2>3, <3>6
  <2> QED BY <2>4, <2>5
<1>2. Len(Names) \in Nat
  BY LineConstants
<1>3. Len(Names) \notin Bad
  BY <1>1
<1>4. PICK g : Upto(Len(Names), g)
  BY <1>2, <1>3
<1>5. Runs(word, g)
  BY <1>4 DEF Runs
<1> QED BY <1>5

\* Found is the last state of the loop.
LEMMA FoundRuns ==
  ASSUME NEW word
  PROVE  \E g : Runs(word, g) /\ Found(word) = g[Len(Names)]
<1>1. PICK g : g = CHOOSE f : Runs(word, f)
  OBVIOUS
<1>2. Runs(word, g)
  BY <1>1, LoopRuns
<1>3. Found(word) = g[Len(Names)]
  BY <1>1 DEF Found, Runs
<1> QED BY <1>2, <1>3

Match(word, i) == Agree(word, Names[i], Len(word))

\* Some match up to k begins, with a blank behind it, with cmd.
Begins(word, k, cmd) ==
    \E i \in 1 .. k : Match(word, i) /\ \E l \in 0 .. Len(Names[i]) + 1 :
                                           cmd = SubSeq(Append(Names[i], Space), 1, l)

None(word, k, cmd) == cmd = <<>> /\ \A i \in 1 .. k : ~Match(word, i)

Single(word, k, cmd) ==
    \E i \in 1 .. k : /\ cmd = Append(Names[i], Space) /\ Match(word, i)
                      /\ \A j \in 1 .. k : Match(word, j) => j = i

\* cmd is the longest common beginning of two or more matches.
Shared(word, k, cmd) ==
    /\ cmd \in Seq(Letters) /\ Len(word) <= Len(cmd)
    /\ \A i \in 1 .. k : Match(word, i) => Agree(cmd, Names[i], Len(cmd))
    /\ \E i, j \in 1 .. k :
          /\ i # j /\ Match(word, i) /\ Match(word, j)
          /\ \/ Len(cmd) = Len(Names[i])
             \/ Len(cmd) = Len(Names[j])
             \/ Names[i][Len(cmd) + 1] # Names[j][Len(cmd) + 1]

\* What the loop has found after k directory entries, as long as no length was -1.
Narrow(word, k, cmd) ==
    /\ cmd = <<>> \/ Begins(word, k, cmd)
    /\ word = <<>> \/ None(word, k, cmd) \/ Single(word, k, cmd) \/ Shared(word, k, cmd)

\* File names are distinct strings of letters.
LEMMA NameFacts ==
  ASSUME NEW i \in 1 .. Len(Names)
  PROVE  /\ Names[i] \in Seq(Letters) /\ Names[i] \in Seq(Printed) /\ Len(Names[i]) \in Nat
         /\ \A j \in 1 .. Len(Names) : Names[i] = Names[j] => i = j
<1>1. Names[i] \in Seq(Letters)
  BY LineConstants
<1>2. Names[i] \in Seq(Printed)
  BY <1>1, PrintedFacts
<1> QED BY <1>1, <1>2, LineConstants

\* A directory entry that does not match is skipped.
LEMMA NarrowSkips ==
  ASSUME NEW word, NEW k \in Nat, NEW cmd, Narrow(word, k, cmd), ~Match(word, k + 1)
  PROVE  Narrow(word, k + 1, cmd)
<1>1. \A i \in 1 .. k + 1 : i \in 1 .. k \/ i = k + 1
  OBVIOUS
<1>2. 1 .. k \subseteq 1 .. k + 1
  OBVIOUS
<1>3. cmd = <<>> \/ Begins(word, k + 1, cmd)
  BY <1>2 DEF Narrow, Begins
<1>4. None(word, k, cmd) => None(word, k + 1, cmd)
  BY <1>1 DEF None
<1>5. Single(word, k, cmd) => Single(word, k + 1, cmd)
  BY <1>1, <1>2 DEF Single
<1>6. Shared(word, k, cmd) => Shared(word, k + 1, cmd)
  BY <1>1, <1>2 DEF Shared
<1> QED BY <1>3, <1>4, <1>5, <1>6 DEF Narrow

\* The first match is taken with a blank behind it.
LEMMA NarrowFirst ==
  ASSUME NEW word \in Seq(Printed), NEW k \in Nat, k + 1 <= Len(Names), Narrow(word, k, <<>>),
         Match(word, k + 1)
  PROVE  Narrow(word, k + 1, Append(Names[k + 1], Space))
<1>1. PICK s : s = Names[k + 1]
  OBVIOUS
<1>2. k + 1 \in 1 .. Len(Names)
  BY LineConstants
<1>3. s \in Seq(Printed) /\ Len(s) \in Nat
  BY <1>1, <1>2, NameFacts
<1>4. PICK u : u = Append(s, Space)
  OBVIOUS
<1>5. u \in Seq(Printed) /\ Len(u) = Len(s) + 1
  BY <1>3, <1>4, PrintedFacts
<1>6. u = SubSeq(u, 1, Len(u))
  BY <1>5
<1>7. Begins(word, k + 1, u)
  <2>1. Len(u) \in 0 .. Len(s) + 1 /\ k + 1 \in 1 .. k + 1
    BY <1>3, <1>5
  <2> QED BY <1>1, <1>4, <1>6, <2>1 DEF Begins
<1>8. ASSUME word # <<>> PROVE Single(word, k + 1, u)
  <2>1. ~Single(word, k, <<>>)
    <3> SUFFICES ASSUME NEW i \in 1 .. k, <<>> = Append(Names[i], Space) PROVE FALSE
      BY DEF Single
    <3>1. i \in 1 .. Len(Names)
      BY LineConstants
    <3>2. Names[i] \in Seq(Printed)
      BY <3>1, NameFacts
    <3> QED BY <3>2, PrintedFacts
  <2>2. ~Shared(word, k, <<>>)
    <3>1. Len(word) \in Nat /\ Len(word) # 0
      BY <1>8
    <3> QED BY <3>1 DEF Shared
  <2>3. None(word, k, <<>>)
    BY <1>8, <2>1, <2>2 DEF Narrow
  <2>4. \A i \in 1 .. k + 1 : i \in 1 .. k \/ i = k + 1
    OBVIOUS
  <2> QED BY <1>1, <1>4, <2>3, <2>4 DEF None, Single
<1> QED BY <1>1, <1>4, <1>7, <1>8 DEF Narrow

\* What is taken of a further match begins it.
LEMMA NarrowBegins ==
  ASSUME NEW word \in Seq(Printed), NEW k \in Nat, k + 1 <= Len(Names), Match(word, k + 1),
         NEW c \in 0 .. Len(Names[k + 1])
  PROVE  Begins(word, k + 1, SubSeq(Names[k + 1], 1, c))
<1>1. PICK s : s = Names[k + 1]
  OBVIOUS
<1>2. k + 1 \in 1 .. Len(Names) /\ k + 1 \in 1 .. k + 1
  BY LineConstants
<1>3. s \in Seq(Printed) /\ Len(s) \in Nat
  BY <1>1, <1>2, NameFacts
<1>4. PICK u : u = Append(s, Space)
  OBVIOUS
<1>5. u \in Seq(Printed) /\ Len(u) = Len(s) + 1 /\ \A i \in 1 .. Len(s) : u[i] = s[i]
  BY <1>3, <1>4, PrintedFacts
<1>6. c \in Nat /\ c <= Len(s) /\ c <= Len(u) /\ c \in 0 .. Len(s) + 1
  BY <1>1, <1>3, <1>5
<1>7. Agree(s, u, c)
  BY <1>3, <1>5, <1>6 DEF Agree
<1>8. SubSeq(s, 1, c) = SubSeq(u, 1, c)
  BY <1>3, <1>5, <1>6, <1>7, SamePrefix
<1> QED BY <1>1, <1>2, <1>4, <1>6, <1>8 DEF Begins

\* A second match: what it shares with the first.
LEMMA NarrowSecond ==
  ASSUME NEW word \in Seq(Printed), NEW k \in Nat, k + 1 <= Len(Names), NEW cmd,
         Single(word, k, cmd), Match(word, k + 1)
  PROVE  Shared(word, k + 1, SubSeq(Names[k + 1], 1, StrCmp(Names[k + 1], cmd)))
<1>1. PICK s : s = Names[k + 1]
  OBVIOUS
<1>2. PICK i \in 1 .. k : /\ cmd = Append(Names[i], Space) /\ Match(word, i)
                          /\ \A j \in 1 .. k : Match(word, j) => j = i
  BY DEF Single
<1>3. PICK t : t = Names[i]
  OBVIOUS
<1>4. /\ k + 1 \in 1 .. Len(Names) /\ i \in 1 .. Len(Names) /\ i # k + 1
      /\ k + 1 \in 1 .. k + 1 /\ i \in 1 .. k + 1
      /\ \A j \in 1 .. k + 1 : j \in 1 .. k \/ j = k + 1
  BY LineConstants
<1>5. /\ s \in Seq(Letters) /\ t \in Seq(Letters) /\ s \in Seq(Printed) /\ t \in Seq(Printed)
      /\ Len(s) \in Nat /\ Len(t) \in Nat
  BY <1>1, <1>3, <1>4, NameFacts
<1>6. /\ cmd \in Seq(Printed) /\ Len(cmd) = Len(t) + 1 /\ cmd[Len(t) + 1] = Space
      /\ \A j \in 1 .. Len(t) : cmd[j] = t[j]
  BY <1>2, <1>3, <1>5, PrintedFacts
<1>7. \A j \in 1 .. Len(s) : s[j] \in Letters /\ s[j] # Space
  BY <1>5, PrintedFacts
<1>8. Len(t) + 1 \in 1 .. Len(s) => s[Len(t) + 1] # cmd[Len(t) + 1]
  BY <1>6, <1>7
<1>9. s # cmd
  BY <1>5, <1>6, <1>8
<1>10. Agree(word, s, Len(word)) /\ Agree(word, t, Len(word))
  BY <1>1, <1>2, <1>3 DEF Match
<1>11. Agree(word, cmd, Len(word))
  <2>1. Len(word) \in Nat
    OBVIOUS
  <2> QED BY <1>5, <1>6, <1>10, <2>1 DEF Agree
<1>12. PICK c : c = StrCmp(s, cmd)
  OBVIOUS
<1>13. PICK u : u = SubSeq(s, 1, c)
  OBVIOUS
<1>14. /\ c \in Nat /\ c <= Len(s) /\ c <= Len(cmd) /\ Len(word) <= c
       /\ u \in Seq(Printed) /\ Len(u) = c
       /\ \A j \in 1 .. c : u[j] = s[j] /\ u[j] = cmd[j]
       /\ c = Len(s) \/ c = Len(cmd) \/ s[c + 1] # cmd[c + 1]
  <2>1. CommonPart(Printed, word, s, cmd, StrCmp(s, cmd), SubSeq(s, 1, StrCmp(s, cmd)))
    BY <1>5, <1>6, <1>9, <1>10, <1>11, Common
  <2>2. CommonPart(Printed, word, s, cmd, c, u)
    BY <1>12, <1>13, <2>1
  <2> QED BY <2>2 DEF CommonPart
<1>15. c <= Len(t)
  <2> SUFFICES ASSUME c = Len(t) + 1 PROVE FALSE
    BY <1>5, <1>6, <1>14
  <2>1. Len(t) + 1 \in 1 .. Len(s) /\ Len(t) + 1 \in 1 .. c
    BY <1>5, <1>14
  <2> QED BY <1>8, <1>14, <2>1
<1>16. ASSUME NEW j \in 1 .. c PROVE u[j] = t[j] /\ u[j] \in Letters
  <2>1. j \in 1 .. Len(s) /\ j \in 1 .. Len(t)
    BY <1>5, <1>14, <1>15
  <2> QED BY <1>6, <1>7, <1>14, <2>1
<1>17. u \in Seq(Letters)
  BY <1>14, <1>16
<1>18. Agree(u, s, c) /\ Agree(u, t, c)
  BY <1>14, <1>15, <1>16 DEF Agree
<1>19. c = Len(s) \/ c = Len(t) \/ s[c + 1] # t[c + 1]
  <2> SUFFICES ASSUME c # Len(t) PROVE c = Len(s) \/ s[c + 1] # t[c + 1]
    OBVIOUS
  <2>1. c + 1 \in 1 .. Len(t) /\ c # Len(cmd)
    BY <1>5, <1>6, <1>14, <1>15
  <2> QED BY <1>6, <1>14, <2>1
<1>20. ASSUME NEW j \in 1 .. k + 1, Match(word, j) PROVE Agree(u, Names[j], Len(u))
  <2>1. j = i \/ j = k + 1
    BY <1>2, <1>4, <1>20
  <2> QED BY <1>1, <1>3, <1>14, <1>18, <2>1
<1>21. Shared(word, k + 1, u)
  BY <1>1, <1>2, <1>3, <1>4, <1>14, <1>17, <1>19, <1>20 DEF Shared
<1> QED BY <1>1, <1>12, <1>13, <1>21

\* One match more.
LEMMA NarrowMore ==
  ASSUME NEW word \in Seq(Printed), NEW k \in Nat, k + 1 <= Len(Names), NEW cmd,
         Shared(word, k, cmd), Match(word, k + 1), cmd # Names[k + 1]
  PROVE  Shared(word, k + 1, SubSeq(Names[k + 1], 1, StrCmp(Names[k + 1], cmd)))
<1>1. PICK s : s = Names[k + 1]
  OBVIOUS
<1>2. PICK i \in 1 .. k, j \in 1 .. k :
          /\ i # j /\ Match(word, i) /\ Match(word, j)
          /\ \/ Len(cmd) = Len(Names[i])
             \/ Len(cmd) = Len(Names[j])
             \/ Names[i][Len(cmd) + 1] # Names[j][Len(cmd) + 1]
  BY DEF Shared
<1>3. PICK t : t = Names[i]
  OBVIOUS
<1>4. /\ k + 1 \in 1 .. Len(Names) /\ i \in 1 .. Len(Names) /\ i # k + 1
      /\ k + 1 \in 1 .. k + 1 /\ i \in 1 .. k + 1 /\ j \in 1 .. k + 1
      /\ \A m \in 1 .. k + 1 : m \in 1 .. k \/ m = k + 1
  BY LineConstants
<1>5. /\ s \in Seq(Letters) /\ t \in Seq(Letters) /\ s \in Seq(Printed) /\ t \in Seq(Printed)
      /\ Len(s) \in Nat /\ Len(t) \in Nat
  BY <1>1, <1>3, <1>4, NameFacts
<1>6. /\ cmd \in Seq(Letters) /\ Len(word) <= Len(cmd)
      /\ \A m \in 1 .. k : Match(word, m) => Agree(cmd, Names[m], Len(cmd))
  BY DEF Shared
<1>7. cmd \in Seq(Printed) /\ Len(cmd) \in Nat
  BY <1>6, PrintedFacts
<1>8. Agree(cmd, t, Len(cmd))
  BY <1>2, <1>3, <1>6
<1>9. Agree(word, s, Len(word)) /\ Agree(word, t, Len(word))
  BY <1>1, <1>2, <1>3 DEF Match
<1>10. Agree(word, cmd, Len(word))
  <2>1. Len(word) \in Nat
    OBVIOUS
  <2>2. ASSUME NEW m \in 1 .. Len(word) PROVE word[m] = cmd[m]
    <3>1. m \in 1 .. Len(cmd)
      BY <1>6, <1>7, <2>1
    <3> QED BY <1>8, <1>9, <3>1 DEF Agree
  <2> QED BY <1>6, <2>1, <2>2 DEF Agree
<1>11. PICK c : c = StrCmp(s, cmd)
  OBVIOUS
<1>12. PICK u : u = SubSeq(s, 1, c)
  OBVIOUS
<1>13. /\ c \in Nat /\ c <= Len(s) /\ c <= Len(cmd) /\ Len(word) <= c
       /\ u \in Seq(Printed) /\ Len(u) = c
       /\ \A m \in 1 .. c : u[m] = s[m] /\ u[m] = cmd[m]
       /\ c = Len(s) \/ c = Len(cmd) \/ s[c + 1] # cmd[c + 1]
  <2>1. CommonPart(Printed, word, s, cmd, StrCmp(s, cmd), SubSeq(s, 1, StrCmp(s, cmd)))
    BY <1>1, <1>5, <1>7, <1>9, <1>10, Common
  <2>2. CommonPart(Printed, word, s, cmd, c, u)
    BY <1>11, <1>12, <2>1
  <2> QED BY <2>2 DEF CommonPart
<1>14. u \in Seq(Letters)
  <2>1. ASSUME NEW m \in 1 .. c PROVE u[m] \in Letters
    <3>1. m \in 1 .. Len(s)
      BY <1>5, <1>13
    <3> QED BY <1>5, <1>13, <3>1
  <2> QED BY <1>13, <2>1
<1>15. ASSUME NEW m \in 1 .. k + 1, Match(word, m) PROVE Agree(u, Names[m], Len(u))
  <2>1. CASE m = k + 1
    BY <1>1, <1>13, <2>1 DEF Agree
  <2>2. CASE m # k + 1
    <3>1. PICK v : v = Names[m]
      OBVIOUS
    <3>2. m \in 1 .. k
      BY <1>4, <2>2
    <3>3. Agree(cmd, v, Len(cmd))
      BY <1>6, <1>15, <3>1, <3>2
    <3>4. m \in 1 .. Len(Names)
      BY <3>2, LineConstants
    <3>5. Len(v) \in Nat
      BY <3>1, <3>4, NameFacts
    <3>6. c <= Len(v) /\ \A x \in 1 .. c : u[x] = v[x]
      BY <1>7, <1>13, <3>3, <3>5 DEF Agree
    <3> QED BY <1>13, <3>1, <3>6 DEF Agree
  <2> QED BY <2>1, <2>2
<1>16. CASE c = Len(cmd)
  <2>1. /\ i # j /\ Match(word, i) /\ Match(word, j)
        /\ \/ Len(u) = Len(Names[i])
           \/ Len(u) = Len(Names[j])
           \/ Names[i][Len(u) + 1] # Names[j][Len(u) + 1]
    BY <1>2, <1>13, <1>16
  <2>2. Shared(word, k + 1, u)
    BY <1>4, <1>13, <1>14, <1>15, <2>1 DEF Shared
  <2> QED BY <1>1, <1>11, <1>12, <2>2
<1>17. CASE c # Len(cmd)
  <2>1. c = Len(s) \/ s[c + 1] # t[c + 1]
    <3>1. c + 1 \in 1 .. Len(cmd)
      BY <1>7, <1>13, <1>17
    <3>2. cmd[c + 1] = t[c + 1]
      BY <1>8, <3>1 DEF Agree
    <3> QED BY <1>13, <1>17, <3>2
  <2>2. /\ k + 1 # i /\ Match(word, k + 1) /\ Match(word, i)
        /\ \/ Len(u) = Len(Names[k + 1])
           \/ Len(u) = Len(Names[i])
           \/ Names[k + 1][Len(u) + 1] # Names[i][Len(u) + 1]
    BY <1>1, <1>2, <1>3, <1>4, <1>13, <2>1
  <2>3. Shared(word, k + 1, u)
    BY <1>4, <1>13, <1>14, <1>15, <2>2 DEF Shared
  <2> QED BY <1>1, <1>11, <1>12, <2>3
<1> QED BY <1>16, <1>17

AccOK(word, k, acc) == acc.bad = TRUE \/ (acc.bad = FALSE /\ Narrow(word, k, acc.cmd))

\* One turn of the loop.
LEMMA TakenKeeps ==
  ASSUME NEW word \in Seq(Printed), NEW k \in Nat, k + 1 <= Len(Names), NEW acc,
         AccOK(word, k, acc)
  PROVE  AccOK(word, k + 1, Taken(word, acc, Names[k + 1]))
<1>1. PICK s : s = Names[k + 1]
  OBVIOUS
<1>2. PICK new : new = Taken(word, acc, s)
  OBVIOUS
<1>3. k + 1 \in 1 .. Len(Names)
  BY LineConstants
<1>4. s \in Seq(Printed) /\ Len(s) \in Nat
  BY <1>1, <1>3, NameFacts
<1>5. IsPrefix(word, s) <=> Match(word, k + 1)
  BY <1>1, <1>4, IsPrefixIs DEF Match
<1>6. CASE ~Match(word, k + 1)
  <2>1. new = acc
    BY <1>2, <1>5, <1>6 DEF Taken
  <2>2. AccOK(word, k + 1, acc)
    BY <1>6, NarrowSkips DEF AccOK
  <2> QED BY <1>1, <1>2, <2>1, <2>2
<1>7. CASE Match(word, k + 1)
  <2>1. new = [cmd |-> Narrowed(acc.cmd, s), bad |-> acc.bad \/ acc.cmd = s]
    BY <1>2, <1>5, <1>7 DEF Taken
  <2>2. new.cmd = Narrowed(acc.cmd, s) /\ new.bad = (acc.bad \/ acc.cmd = s)
    BY <2>1
  <2>3. CASE acc.bad = TRUE \/ acc.cmd = s
    <3>1. new.bad = TRUE
      BY <2>2, <2>3
    <3> QED BY <1>1, <1>2, <3>1 DEF AccOK
  <2>4. CASE ~(acc.bad = TRUE \/ acc.cmd = s)
    <3>1. acc.bad = FALSE /\ Narrow(word, k, acc.cmd) /\ acc.cmd # s
      BY <2>4 DEF AccOK
    <3>2. new.bad = FALSE
      BY <2>2, <3>1
    <3>3. PICK cmd : cmd = acc.cmd
      OBVIOUS
    <3>4. Narrow(word, k, cmd) /\ cmd # s /\ new.cmd = Narrowed(cmd, s)
      BY <2>2, <3>1, <3>3
    <3>5. CASE cmd = <<>>
      <4>1. new.cmd = Append(s, Space)
        BY <3>4, <3>5 DEF Narrowed
      <4>2. Narrow(word, k + 1, Append(Names[k + 1], Space))
        BY <1>7, <3>4, <3>5, NarrowFirst
      <4> QED BY <1>1, <1>2, <3>2, <4>1, <4>2 DEF AccOK
    <3>6. CASE cmd # <<>>
      <4>1. PICK u : u = SubSeq(Names[k + 1], 1, StrCmp(Names[k + 1], cmd))
        OBVIOUS
      <4>2. new.cmd = u
        BY <1>1, <3>4, <3>6, <4>1 DEF Narrowed
      <4>3. cmd \in Seq(Printed)
        <5>1. PICK i \in 1 .. k : \E l \in 0 .. Len(Names[i]) + 1 :
                     cmd = SubSeq(Append(Names[i], Space), 1, l)
          BY <3>4, <3>6 DEF Narrow, Begins
        <5>2. PICK t : t = Append(Names[i], Space)
          OBVIOUS
        <5>3. i \in 1 .. Len(Names)
          BY LineConstants
        <5>4. t \in Seq(Printed) /\ Len(t) = Len(Names[i]) + 1
          BY <5>2, <5>3, NameFacts, PrintedFacts
        <5> QED BY <5>1, <5>2, <5>4, PrefixFacts
      <4>4. StrCmp(s, cmd) \in 0 .. Len(s)
        BY <1>4, <3>4, <4>3, StrCmpFacts
      <4>5. Begins(word, k + 1, u)
        BY <1>1, <1>7, <4>1, <4>4, NarrowBegins
      <4>6. Single(word, k, cmd) \/ Shared(word, k, cmd) => Shared(word, k + 1, u)
        BY <1>1, <1>7, <3>4, <4>1, NarrowSecond, NarrowMore
      <4>7. ~None(word, k, cmd)
        BY <3>6 DEF None
      <4>8. Narrow(word, k + 1, u)
        BY <3>4, <4>5, <4>6, <4>7 DEF Narrow
      <4> QED BY <1>1, <1>2, <3>2, <4>2, <4>8 DEF AccOK
    <3> QED BY <3>5, <3>6
  <2> QED BY <2>3, <2>4
<1> QED BY <1>6, <1>7

\* What the whole loop leaves, unless a length was -1.
LEMMA FoundFacts ==
  ASSUME NEW word \in Seq(Printed)
  PROVE  AccOK(word, Len(Names), Found(word))
<1>1. PICK g : Runs(word, g) /\ Found(word) = g[Len(Names)]
  BY FoundRuns
<1>2. Len(Names) \in Nat
  BY LineConstants
<1>3. g[0] = [cmd |-> <<>>, bad |-> FALSE]
  <2>1. 0 \in 0 .. Len(Names)
    BY <1>2
  <2> QED BY <1>1, <2>1 DEF Runs
<1>4. ASSUME NEW k \in Nat, k + 1 <= Len(Names) PROVE g[k + 1] = Taken(word, g[k], Names[k + 1])
  <2>1. k + 1 \in 0 .. Len(Names) /\ k + 1 # 0 /\ (k + 1) - 1 = k
    BY <1>2, <1>4
  <2>2. g[k + 1] = Taken(word, g[(k + 1) - 1], Names[k + 1])
    BY <1>1, <2>1 DEF Runs
  <2> QED BY <2>1, <2>2
<1> DEFINE Bad == {k \in Nat : k <= Len(Names) /\ ~AccOK(word, k, g[k])}
<1>5. Bad = {}
  <2> SUFFICES ASSUME Bad # {} PROVE FALSE
    OBVIOUS
  <2>1. Bad \in SUBSET Nat
    OBVIOUS
  <2>2. PICK k \in Bad : \A m \in Bad : k <= m
    <3> HIDE DEF Bad
    <3> QED BY <2>1, LeastNat
  <2>3. k \in Nat /\ k <= Len(Names) /\ ~AccOK(word, k, g[k])
    OBVIOUS
  <2>4. CASE k = 0
    <3>1. PICK e : e = <<>>
      OBVIOUS
    <3>2. g[0].cmd = e /\ g[0].bad = FALSE
      BY <1>3, <3>1
    <3>3. None(word, 0, e)
      BY <3>1 DEF None
    <3>4. Narrow(word, 0, e)
      BY <3>1, <3>3 DEF Narrow
    <3> QED BY <2>3, <2>4, <3>2, <3>4 DEF AccOK
  <2>5. CASE k # 0
    <3>1. PICK m \in Nat : m + 1 = k
      <4>1. k - 1 \in Nat /\ (k - 1) + 1 = k
        BY <2>3, <2>5
      <4> QED BY <4>1
    <3>2. m \notin Bad
      <4>1. ~(k <= m)
        BY <2>3, <3>1
      <4> HIDE DEF Bad
      <4> QED BY <2>2, <4>1
    <3>3. AccOK(word, m, g[m])
      <4>1. m <= Len(Names)
        BY <1>2, <2>3, <3>1
      <4> QED BY <3>2, <4>1
    <3>4. AccOK(word, m + 1, Taken(word, g[m], Names[m + 1]))
      BY <2>3, <3>1, <3>3, TakenKeeps
    <3>5. g[m + 1] = Taken(word, g[m], Names[m + 1])
      BY <1>4, <2>3, <3>1
    <3> QED BY <2>3, <3>1, <3>4, <3>5
  <2> QED BY <2>4, <2>5
<1>6. Len(Names) \notin Bad /\ Len(Names) <= Len(Names)
  BY <1>2, <1>5
<1> QED BY <1>1, <1>2, <1>6

\* Where the last blank stands.
LastBlank(s) == Abstract!SelectLastInSeq(s, LAMBDA c : c = Abstract!Space)

\* No blank follows it.
LEMMA LastBlankFacts ==
  ASSUME NEW S, NEW s \in Seq(S)
  PROVE  /\ LastBlank(s) \in 0 .. Len(s)
         /\ LastBlank(s) > 0 => s[LastBlank(s)] = Space
         /\ \A i \in 1 .. Len(s) : i > LastBlank(s) => s[i] # Space
<1> DEFINE I == {i \in 1 .. Len(s) : s[i] = Space}
           m == LastBlank(s)
<1>1. m = Last0(I)
  BY DEF Last0, LastBlank, Abstract!SelectLastInSeq, Abstract!Max, Abstract!Space, Space
<1>2. I \in SUBSET (1 .. Len(s)) /\ Len(s) \in Nat
  OBVIOUS
<1> HIDE DEF I, m
<1>3. m \in 0 .. Len(s) /\ (m > 0 => m \in I) /\ \A i \in I : i <= m
  BY <1>1, <1>2, LastPlace
<1>4. m > 0 => s[m] = Space
  BY <1>3 DEF I
<1>5. \A i \in 1 .. Len(s) : i > m => s[i] # Space
  BY <1>2, <1>3 DEF I
<1> QED BY <1>3, <1>4, <1>5 DEF m

\* tab_complete finds the beginning of the last word.
LEMMA WordStartIs ==
  ASSUME LineInv
  PROVE  WordStart = LastBlank(Line)
<1> DEFINE n == keyboard_buffer_size
           P(w) == /\ w > 0 => keyboard_buffer[w - 1] = Space
                   /\ \A i \in w .. n - 1 : keyboard_buffer[i] # Space
<1>1. n \in Nat
  BY LineConstants DEF LineInv, BufferOK
<1>2. Line \in Seq(Printed) /\ Len(Line) = n /\ \A i \in 1 .. n : Line[i] = keyboard_buffer[i - 1]
  BY LineFacts
<1>3. PICK m : m = LastBlank(Line)
  OBVIOUS
<1>4. m \in 0 .. n /\ (m > 0 => Line[m] = Space) /\ \A i \in 1 .. n : i > m => Line[i] # Space
  BY <1>2, <1>3, LastBlankFacts
<1>5. P(m)
  <2>1. ASSUME m > 0 PROVE keyboard_buffer[m - 1] = Space
    <3>1. m \in 1 .. n
      BY <1>1, <1>4, <2>1
    <3> QED BY <1>2, <1>4, <2>1, <3>1
  <2>2. ASSUME NEW i \in m .. n - 1 PROVE keyboard_buffer[i] # Space
    <3>1. i + 1 \in 1 .. n /\ i + 1 > m /\ (i + 1) - 1 = i
      BY <1>1, <1>4
    <3> QED BY <1>2, <1>4, <3>1
  <2> QED BY <2>1, <2>2
<1>6. ASSUME NEW w \in 0 .. n, P(w) PROVE w = m
  <2>1. ~(w < m)
    <3> SUFFICES ASSUME w < m PROVE FALSE
      OBVIOUS
    <3>1. m - 1 \in w .. n - 1 /\ m > 0
      BY <1>1, <1>4
    <3> QED BY <1>5, <1>6, <3>1
  <2>2. ~(m < w)
    <3> SUFFICES ASSUME m < w PROVE FALSE
      OBVIOUS
    <3>1. w - 1 \in m .. n - 1 /\ w > 0
      BY <1>1, <1>4
    <3> QED BY <1>5, <1>6, <3>1
  <2> QED BY <1>1, <1>4, <2>1, <2>2
<1>7. WordStart = CHOOSE w \in 0 .. n : P(w)
  BY DEF WordStart
<1> HIDE DEF P
<1> QED BY <1>3, <1>4, <1>5, <1>6, <1>7

Matches(word) == {n \in Abstract!ToSet(Names) : Abstract!IsPrefix(word, n)}

Results(word) ==
    IF word # <<>>
    THEN IF Abstract!Cardinality(Matches(word)) = 1
         THEN {Append(n, Abstract!Space) : n \in Matches(word)}
         ELSE {Abstract!LongestCommonPrefix(Matches(word))}
    ELSE UNION {Abstract!Prefixes(Append(n, Abstract!Space)) : n \in Matches(word)}

\* The names that begin with the word are those the loop takes.
LEMMA MatchesAre ==
  ASSUME NEW word \in Seq(Printed)
  PROVE  Matches(word) = {Names[i] : i \in {j \in 1 .. Len(Names) : Match(word, j)}}
<1>1. DOMAIN Names = 1 .. Len(Names)
  BY LineConstants
<1>2. Abstract!ToSet(Names) = {Names[i] : i \in 1 .. Len(Names)}
  BY <1>1 DEF Abstract!ToSet
<1>3. ASSUME NEW i \in 1 .. Len(Names) PROVE Abstract!IsPrefix(word, Names[i]) <=> Match(word, i)
  <2>1. Names[i] \in Seq(Printed)
    BY NameFacts
  <2>2. IsPrefix(word, Names[i]) <=> Match(word, i)
    BY <2>1, IsPrefixIs DEF Match
  <2> QED BY <2>2 DEF Abstract!IsPrefix, IsPrefix
<1> QED BY <1>2, <1>3 DEF Matches

\* Counting is the same in the abstract specification.
LEMMA CountIs ==
  ASSUME NEW S
  PROVE  Abstract!Cardinality(S) = Cardinality(S)
BY DEF Abstract!Cardinality, Cardinality

\* There are finitely many matches.
LEMMA MatchesFinite ==
  ASSUME NEW word \in Seq(Printed)
  PROVE  IsFiniteSet(Matches(word))
<1> DEFINE T == {Names[i] : i \in 1 .. Len(Names)}
<1>1. Names \in Seq(T) /\ \A t \in T : \E i \in 1 .. Len(Names) : Names[i] = t
  <2>1. Len(Names) \in Nat /\ Names \in [1 .. Len(Names) -> T]
    BY LineConstants
  <2>2. Names \in Seq(T)
    BY <2>1
  <2> QED BY <2>2
<1> HIDE DEF T
<1>2. IsFiniteSet(T)
  BY <1>1 DEF IsFiniteSet
<1>3. Matches(word) \in SUBSET T
  BY MatchesAre DEF T
<1> QED BY <1>2, <1>3, FS_Subset

\* What several matches share is their longest common prefix.
LEMMA LongestIs ==
  ASSUME NEW M, NEW S, M \subseteq Seq(S), NEW cmd \in Seq(S),
         NEW s \in M, NEW t \in M,
         \A x \in M : Agree(cmd, x, Len(cmd)),
         Len(cmd) = Len(s) \/ Len(cmd) = Len(t) \/ s[Len(cmd) + 1] # t[Len(cmd) + 1]
  PROVE  cmd = Abstract!LongestCommonPrefix(M)
<1> DEFINE C == Abstract!CommonPrefixes(M)
<1>1. \A x \in M : x \in Seq(S) /\ Len(x) \in Nat
  OBVIOUS
<1>2. ASSUME NEW x \in M, NEW p \in Seq(S)
      PROVE  Abstract!IsPrefix(p, x) <=> Agree(p, x, Len(p))
  <2>1. IsPrefix(p, x) <=> Agree(p, x, Len(p))
    BY IsPrefixIs
  <2> QED BY <2>1 DEF Abstract!IsPrefix, IsPrefix
<1>3. cmd \in C
  <2>1. cmd = SubSeq(s, 1, Len(cmd)) /\ Len(cmd) \in 0 .. Len(s)
    <3>1. Agree(cmd, s, Len(cmd))
      OBVIOUS
    <3>2. Len(cmd) \in Nat /\ Len(cmd) <= Len(s)
      BY <3>1 DEF Agree
    <3>3. SubSeq(cmd, 1, Len(cmd)) = SubSeq(s, 1, Len(cmd))
      <4>1. PICK n \in Nat : n = Len(cmd) /\ n <= Len(cmd) /\ n <= Len(s)
        BY <3>2
      <4>2. Agree(cmd, s, n) /\ s \in Seq(S)
        BY <1>1, <3>1, <4>1
      <4>3. SubSeq(cmd, 1, n) = SubSeq(s, 1, n)
        BY <4>1, <4>2, SamePrefix
      <4> QED BY <4>1, <4>3
    <3>4. SubSeq(cmd, 1, Len(cmd)) = cmd
      OBVIOUS
    <3> QED BY <1>1, <3>2, <3>3, <3>4
  <2>2. cmd \in Abstract!Prefixes(s)
    BY <2>1 DEF Abstract!Prefixes
  <2>3. \A x \in M : Abstract!IsPrefix(cmd, x)
    BY <1>2
  <2> QED BY <2>2, <2>3 DEF Abstract!CommonPrefixes
<1>4. ASSUME NEW p \in C PROVE /\ p \in Seq(S) /\ Len(p) \in Nat /\ Len(p) <= Len(cmd)
                               /\ Agree(p, s, Len(p))
  <2>1. PICK x \in M : p \in Abstract!Prefixes(x)
    BY DEF Abstract!CommonPrefixes
  <2>2. PICK l \in 0 .. Len(x) : p = SubSeq(x, 1, l)
    BY <2>1 DEF Abstract!Prefixes
  <2>3. p \in Seq(S) /\ Len(p) \in Nat
    BY <1>1, <2>2, PrefixFacts
  <2>4. \A y \in M : Abstract!IsPrefix(p, y)
    BY DEF Abstract!CommonPrefixes
  <2>5. Agree(p, s, Len(p)) /\ Agree(p, t, Len(p))
    BY <1>2, <2>3, <2>4
  <2>6. Len(p) <= Len(cmd)
    <3> SUFFICES ASSUME ~(Len(p) <= Len(cmd)) PROVE FALSE
      OBVIOUS
    <3>1. Len(cmd) \in Nat /\ Len(s) \in Nat /\ Len(t) \in Nat
      BY <1>1
    <3>2. Len(cmd) + 1 \in 1 .. Len(p) /\ Len(cmd) # Len(s) /\ Len(cmd) # Len(t)
      BY <2>3, <2>5, <3>1 DEF Agree
    <3>3. p[Len(cmd) + 1] = s[Len(cmd) + 1] /\ p[Len(cmd) + 1] = t[Len(cmd) + 1]
      BY <2>5, <3>2 DEF Agree
    <3> QED BY <3>2, <3>3
  <2> QED BY <2>3, <2>5, <2>6
<1>5. Abstract!LongestCommonPrefix(M) = CHOOSE p \in C : \A q \in C : Len(q) <= Len(p)
  BY DEF Abstract!LongestCommonPrefix
<1> HIDE DEF C
<1>6. ASSUME NEW p \in C, \A q \in C : Len(q) <= Len(p) PROVE p = cmd
  <2>1. Len(cmd) \in Nat /\ Len(p) = Len(cmd) /\ p \in Seq(S)
    BY <1>3, <1>4, <1>6
  <2>2. ASSUME NEW i \in 1 .. Len(p) PROVE p[i] = cmd[i]
    <3>1. Agree(p, s, Len(p)) /\ Agree(cmd, s, Len(cmd))
      BY <1>4
    <3> QED BY <2>1, <3>1 DEF Agree
  <2> QED BY <2>1, <2>2, SeqEqual
<1>7. \A q \in C : Len(q) <= Len(cmd)
  BY <1>4
<1> QED BY <1>3, <1>5, <1>6, <1>7

\* What the loop leaves is a completion that the abstract line allows.
LEMMA CompletionIs ==
  ASSUME NEW word \in Seq(Printed), NEW cmd, Narrow(word, Len(Names), cmd), cmd # <<>>
  PROVE  cmd \in Seq(Printed) /\ Matches(word) # {} /\ cmd \in Results(word)
<1> DEFINE N == Len(Names)
           M == Matches(word)
<1>1. M = {Names[i] : i \in {j \in 1 .. N : Match(word, j)}}
  BY MatchesAre
<1>2. PICK i \in 1 .. N : Match(word, i) /\ \E l \in 0 .. Len(Names[i]) + 1 :
                                              cmd = SubSeq(Append(Names[i], Space), 1, l)
  BY DEF Narrow, Begins
<1>3. PICK l \in 0 .. Len(Names[i]) + 1 : cmd = SubSeq(Append(Names[i], Space), 1, l)
  BY <1>2
<1>4. PICK t : t = Append(Names[i], Space)
  OBVIOUS
<1>5. t \in Seq(Printed) /\ Len(t) = Len(Names[i]) + 1
  BY <1>4, NameFacts, PrintedFacts
<1>6. cmd \in Seq(Printed)
  BY <1>3, <1>4, <1>5, PrefixFacts
<1>7. Names[i] \in M
  BY <1>1, <1>2
<1>8. Abstract!Space = Space
  BY DEF Abstract!Space, Space
<1>9. CASE word = <<>>
  <2>1. cmd \in Abstract!Prefixes(t)
    BY <1>3, <1>4, <1>5 DEF Abstract!Prefixes
  <2>2. cmd \in UNION {Abstract!Prefixes(Append(n, Abstract!Space)) : n \in M}
    <3> HIDE DEF M
    <3> QED BY <1>4, <1>7, <1>8, <2>1
  <2> QED BY <1>6, <1>7, <1>9, <2>2 DEF Results
<1>10. CASE word # <<>> /\ Single(word, N, cmd)
  <2>1. PICK j \in 1 .. N : /\ cmd = Append(Names[j], Space) /\ Match(word, j)
                            /\ \A k \in 1 .. N : Match(word, k) => k = j
    BY <1>10 DEF Single
  <2>2. M = {Names[j]}
    BY <1>1, <2>1
  <2>3. Abstract!Cardinality(M) = 1
    BY <2>2, CountIs, FS_Singleton
  <2>4. cmd \in {Append(n, Abstract!Space) : n \in M}
    BY <1>8, <2>1, <2>2
  <2> QED BY <1>6, <1>7, <1>10, <2>3, <2>4 DEF Results
<1>11. CASE word # <<>> /\ Shared(word, N, cmd)
  <2>1. PICK j \in 1 .. N, k \in 1 .. N :
          /\ j # k /\ Match(word, j) /\ Match(word, k)
          /\ \/ Len(cmd) = Len(Names[j])
             \/ Len(cmd) = Len(Names[k])
             \/ Names[j][Len(cmd) + 1] # Names[k][Len(cmd) + 1]
    BY <1>11 DEF Shared
  <2>2. Names[j] \in M /\ Names[k] \in M /\ Names[j] # Names[k]
    BY <1>1, <2>1, NameFacts
  <2>3. IsFiniteSet(M)
    BY MatchesFinite
  <2> HIDE DEF M
  <2>4. Abstract!Cardinality(M) # 1
    <3>1. ~ \E x : M = {x}
      BY <2>2
    <3>2. Cardinality(M) # 1
      BY <2>3, <3>1, FS_Singleton
    <3> QED BY <3>2, CountIs
  <2>5. M \subseteq Seq(Printed)
    BY <1>1, NameFacts
  <2>6. \A x \in M : Agree(cmd, x, Len(cmd))
    BY <1>1, <1>11 DEF Shared
  <2>7. cmd = Abstract!LongestCommonPrefix(M)
    <3>1. PICK a, b : a = Names[j] /\ b = Names[k]
      OBVIOUS
    <3>2. Len(cmd) = Len(a) \/ Len(cmd) = Len(b) \/ a[Len(cmd) + 1] # b[Len(cmd) + 1]
      BY <2>1, <3>1
    <3>3. a \in M /\ b \in M
      BY <2>2, <3>1
    <3> QED BY <1>6, <2>5, <2>6, <3>2, <3>3, LongestIs
  <2> QED BY <1>6, <1>7, <1>11, <2>4, <2>7 DEF Results, M
<1>12. ~None(word, N, cmd)
  BY DEF None
<1> QED BY <1>9, <1>10, <1>11, <1>12 DEF Narrow

\* The last word is replaced by one of its completions.
LEMMA TextComplete ==
  ASSUME NEW word, word = Abstract!LastWord(Line), NEW r \in Results(word),
         Line # <<>>, Matches(word) # {},
         Line' = SubSeq(Line, 1, Len(Line) - Len(word)) \o r, Len(Line') <= BufferSize - 2,
         keyboard_buffer_pos' = Len(Line'), UNCHANGED <<Log, history_curr, keyboard_read_buffer>>
  PROVE  Abstract!Next
<1>1. Abstract!Complete
  BY DEF Abstract!Complete, Results, Matches, Line, Log
<1> QED BY <1>1 DEF Abstract!Next

\* Tab completes the last word, or ends in the fault and changes nothing of the line.
LEMMA HandleTabKeeps ==
  ASSUME LineInv, HandleTab
  PROVE  LineInv' /\ (Abstract!Next \/ UNCHANGED <<Line, keyboard_buffer_pos, Log, history_curr,
                                                   keyboard_read_buffer>>)
<1> DEFINE n == keyboard_buffer_size
<1>1. n \in Nat /\ n <= BufferSize - 2 /\ BufferSize \in Nat /\ n # 0
  BY LineConstants DEF HandleTab, LineInv, BufferOK
<1>2. Line \in Seq(Printed) /\ Len(Line) = n /\ \A i \in 1 .. n : Line[i] = keyboard_buffer[i - 1]
  BY LineFacts
<1>3. PICK w : w = WordStart
  OBVIOUS
<1>4. w = LastBlank(Line) /\ w \in 0 .. n
  BY <1>2, <1>3, WordStartIs, LastBlankFacts
<1>5. w \in Nat /\ w <= n /\ n - w \in Nat
  BY <1>1, <1>4
<1>6. PICK word : word = [i \in 1 .. n - w |-> keyboard_buffer[w + i - 1]]
  OBVIOUS
<1>7. word = SubSeq(Line, w + 1, n) /\ word \in Seq(Printed) /\ Len(word) = n - w
  <2>1. PICK u : u = SubSeq(Line, w + 1, n)
    OBVIOUS
  <2>2. /\ u \in Seq(Printed) /\ Len(u) = n - (w + 1) + 1
        /\ \A i \in 1 .. n - (w + 1) + 1 : u[i] = Line[(w + 1) + i - 1]
    <3>1. w + 1 \in Nat /\ 1 <= w + 1 /\ w + 1 <= n + 1 /\ n <= Len(Line)
      BY <1>1, <1>2, <1>5
    <3> QED BY <1>1, <1>2, <2>1, <3>1, SliceFacts
  <2>3. n - (w + 1) + 1 = n - w
    BY <1>1, <1>5
  <2>4. ASSUME NEW i \in 1 .. n - w PROVE u[i] = keyboard_buffer[w + i - 1]
    <3>1. (w + 1) + i - 1 = w + i /\ w + i \in 1 .. n
      BY <1>1, <1>5
    <3>2. u[i] = Line[w + i]
      BY <2>2, <2>3, <3>1
    <3>3. PICK k \in 1 .. n : k = w + i
      BY <3>1
    <3>4. Line[k] = keyboard_buffer[k - 1]
      BY <1>2
    <3>5. k - 1 = w + i - 1
      BY <1>5, <3>3
    <3> QED BY <3>2, <3>3, <3>4, <3>5
  <2>5. word \in [1 .. n - w -> Printed]
    BY <1>6, <2>2, <2>3, <2>4
  <2>6. word \in Seq(Printed) /\ Len(word) = n - w
    BY <1>5, <2>5
  <2>7. word = u
    BY <1>6, <2>2, <2>3, <2>4, <2>6, SeqEqual
  <2> QED BY <2>1, <2>6, <2>7
<1>8. word = Abstract!LastWord(Line)
  BY <1>2, <1>4, <1>7 DEF Abstract!LastWord, LastBlank
<1>9. PICK head : head = [i \in 1 .. w |-> keyboard_buffer[i - 1]]
  OBVIOUS
<1>10. head = SubSeq(Line, 1, w) /\ head \in Seq(Printed) /\ Len(head) = w
  <2>1. PICK u : u = SubSeq(Line, 1, w)
    OBVIOUS
  <2>2. u \in Seq(Printed) /\ Len(u) = w /\ \A i \in 1 .. w : u[i] = Line[i]
    BY <1>2, <1>4, <2>1, PrefixFacts
  <2>3. ASSUME NEW i \in 1 .. w PROVE u[i] = keyboard_buffer[i - 1]
    <3>1. i \in 1 .. n
      BY <1>1, <1>5
    <3> QED BY <1>2, <2>2, <3>1
  <2>4. head \in [1 .. w -> Printed]
    BY <1>9, <2>2, <2>3
  <2>5. head \in Seq(Printed) /\ Len(head) = w
    BY <1>5, <2>4
  <2>6. head = u
    BY <1>9, <2>2, <2>3, <2>5, SeqEqual
  <2> QED BY <2>1, <2>5, <2>6
<1>11. PICK found : found = Found(word)
  OBVIOUS
<1>12. PICK line : line = head \o found.cmd
  OBVIOUS
<1>13. /\ found.cmd # <<>> \/ found.bad
       /\ IF found.bad \/ Len(line) > BufferSize - 2
          THEN fault' = TRUE /\ UNCHANGED bufferVars
          ELSE SetLine(Padded(line), Len(line), Len(line)) /\ UNCHANGED fault
       /\ UNCHANGED <<historyVars, keyboard_read_buffer>>
  BY <1>3, <1>6, <1>9, <1>11, <1>12 DEF HandleTab
<1>14. AccOK(word, Len(Names), found)
  BY <1>7, <1>11, FoundFacts
<1>15. CASE found.bad \/ Len(line) > BufferSize - 2
  <2>1. fault' = TRUE /\ UNCHANGED <<bufferVars, historyVars, keyboard_read_buffer>>
    BY <1>13, <1>15
  <2>2. LineInv'
    BY <2>1 DEF LineInv, BufferOK, HistoryOK, ReadOK, bufferVars, historyVars
  <2>3. UNCHANGED <<Line, keyboard_buffer_pos, Log, history_curr, keyboard_read_buffer>>
    BY <2>1 DEF Line, Log, bufferVars, historyVars
  <2> QED BY <2>2, <2>3
<1>16. CASE ~(found.bad \/ Len(line) > BufferSize - 2)
  <2>1. /\ SetLine(Padded(line), Len(line), Len(line))
        /\ UNCHANGED <<historyVars, keyboard_read_buffer, fault>>
    BY <1>13, <1>16
  <2>2. PICK cmd : cmd = found.cmd
    OBVIOUS
  <2>3. Narrow(word, Len(Names), cmd) /\ cmd # <<>>
    BY <1>13, <1>14, <1>16, <2>2 DEF AccOK
  <2>4. cmd \in Seq(Printed) /\ Matches(word) # {} /\ cmd \in Results(word)
    BY <1>7, <2>3, CompletionIs
  <2>5. line \in Seq(Printed)
    BY <1>10, <1>12, <2>2, <2>4
  <2>6. Len(line) \in 0 .. BufferSize - 2 /\ Len(line) <= BufferSize /\ Len(line) \in 0 .. Len(line)
    BY <1>1, <1>16, <2>5
  <2>7. HoldsText(Padded(line), Len(line)) /\ String(Padded(line)) = line
    BY <2>5, <2>6, PaddedFacts
  <2>8. /\ LineInv' /\ keyboard_buffer_pos' = Len(line)
        /\ UNCHANGED <<Log, history_curr, keyboard_read_buffer>>
    BY <2>1, <2>6, <2>7, SetLineKeeps
  <2>9. Line' = line
    BY <2>1, <2>7 DEF SetLine, Line
  <2>10. Len(Line) - Len(word) = w /\ Line # <<>>
    BY <1>1, <1>2, <1>5, <1>7
  <2>11. Line' = SubSeq(Line, 1, Len(Line) - Len(word)) \o cmd
    BY <1>10, <1>12, <2>2, <2>9, <2>10
  <2>12. Abstract!Next
    <3>1. Len(Line') <= BufferSize - 2
      BY <1>1, <2>6, <2>9
    <3> QED BY <1>8, <2>4, <2>8, <2>9, <2>10, <2>11, <3>1, TextComplete
  <2> QED BY <2>8, <2>12
<1> QED BY <1>15, <1>16

-----------------------------------------------------------------------------
(* The theorems.                                                           *)

\* Every step keeps the invariant and is a step of the line of text, or a named departure.
LEMMA LineStep ==
  ASSUME LineInv, KeyNext \/ (LineFits /\ ClickNext)
  PROVE  LineInv' /\ [Abstract!Next \/ LineFeedLost \/ BehindHistoryShown]_Abstract!vars
<1>1. ASSUME NEW c \in Keys, KeyChar(c) PROVE LineInv' /\ Abstract!Next
  BY <1>1, KeyCharKeeps
<1>2. ASSUME LeftArrow \/ RightArrow \/ CtrlA PROVE LineInv' /\ Abstract!Next
  BY <1>2, ArrowsKeep
<1>3. CtrlK => LineInv' /\ Abstract!Next
  BY CtrlKKeepsLine
<1>4. HandleBackspace => LineInv' /\ Abstract!Next
  BY HandleBackspaceKeeps
<1>5. HandleEnterLine => LineInv' /\ (Abstract!Next \/ LineFeedLost)
  BY HandleEnterKeeps
<1>6. HistoryMove(-1) \/ HistoryMove(1) => LineInv' /\ (Abstract!Next \/ BehindHistoryShown)
  BY HistoryMoveKeeps
<1>7. HandleTab => LineInv' /\ [Abstract!Next]_Abstract!vars
  BY HandleTabKeeps DEF Abstract!vars, Line, Log
<1>8. ASSUME LineFits, ClickNext PROVE LineInv' /\ Abstract!Next
  BY <1>8, LineClickKeeps DEF ClickNext
<1> QED BY <1>1, <1>2, <1>3, <1>4, <1>5, <1>6, <1>7, <1>8 DEF KeyNext

\* At first the line, the log and the read buffer are empty.
LEMMA LineStart ==
  ASSUME LineInit
  PROVE  LineInv /\ Abstract!Init
<1>1. PICK s : s = <<>>
  OBVIOUS
<1>2. BufferSize \in Nat /\ BufferSize >= 4 /\ MaxHistory \in Nat
  BY LineConstants
<1>3. s \in Seq(Printed) /\ Len(s) = 0 /\ Len(s) <= BufferSize
  BY <1>1, <1>2
<1>4. HoldsText(Padded(s), Len(s)) /\ String(Padded(s)) = s
  BY <1>3, PaddedFacts
<1>5. Padded(s) = [i \in Index |-> Nul]
  BY <1>2, <1>3 DEF Padded, Index
<1>6. BufferOK
  BY <1>2, <1>3, <1>4, <1>5 DEF LineInit, BufferOK
<1>7. HistoryOK
  <2>1. command_history = [i \in 0 .. MaxHistory - 1 |-> s] /\ history_size = 0 /\ history_curr = 0
    BY <1>1 DEF LineInit
  <2>2. \A i \in 0 .. MaxHistory - 1 : command_history[i] = s
    BY <2>1
  <2>3. command_history \in [0 .. MaxHistory - 1 -> Seq(Printed)]
    BY <1>3, <2>1
  <2> QED BY <1>1, <1>2, <1>3, <2>1, <2>2, <2>3 DEF HistoryOK
<1>8. ReadOK
  BY <1>1, <1>3 DEF LineInit, ReadOK
<1>9. Line = s
  BY <1>4, <1>5 DEF LineInit, Line
<1>10. Log = <<>>
  <2>1. Len(Log) = 0 /\ Log \in Seq(Seq(Printed))
    BY <1>7, LogFacts DEF LineInit
  <2> QED BY <2>1
<1>11. Abstract!Init
  BY <1>1, <1>9, <1>10 DEF LineInit, Abstract!Init, Line, Log
<1> QED BY <1>6, <1>7, <1>8, <1>11 DEF LineInv

\* The invariant holds throughout.
LEMMA LineInvariant == FittingSpec => []LineInv
<1>1. LineInit => LineInv
  BY LineStart
<1>2. LineInv /\ [KeyNext \/ (LineFits /\ ClickNext)]_lineVars => LineInv'
  <2> SUFFICES ASSUME LineInv, UNCHANGED lineVars PROVE LineInv'
    BY LineStep
  <2> QED BY DEF LineInv, BufferOK, HistoryOK, ReadOK, lineVars, bufferVars, historyVars
<1> QED BY <1>1, <1>2, PTL DEF FittingSpec

\* Whatever keys are pressed and wherever a line that fits is clicked, the buffer, the history
\* and the read buffer hold characters only, and the counters stay in their arrays.
THEOREM LineTypes == FittingSpec => []LineTypeOK
<1>1. LineInv => LineTypeOK
  BY LineInvIs
<1> QED BY <1>1, LineInvariant, PTL

\* In particular no loop of the editor reads or writes outside the buffer, and what Up shows
\* fits it: the cursor is in the line, the line leaves two bytes free, and the history holds
\* only lines that were entered.
THEOREM LineSafe == FittingSpec => []LineOK
<1>1. LineInv => LineOK
  BY LineInvIs
<1> QED BY <1>1, LineInvariant, PTL

\* The byte loops of handle_backspace, handle_enter, history_move and tab_complete are the
\* operations of LineText on a line, for every buffer size, history and set of file names,
\* but for the line feed behind trailing blanks and the line below a full history.
THEOREM LineIsText == FittingSpec => ImplementsLineText
<1>1. LineInit => Abstract!Init
  BY LineStart
<1>2. LineInv /\ [KeyNext \/ (LineFits /\ ClickNext)]_lineVars =>
        [Abstract!Next \/ LineFeedLost \/ BehindHistoryShown]_Abstract!vars
  <2> SUFFICES ASSUME LineInv, UNCHANGED lineVars PROVE UNCHANGED Abstract!vars
    BY LineStep
  <2> QED BY DEF Abstract!vars, lineVars, bufferVars, historyVars
<1> QED BY <1>1, <1>2, LineInvariant, PTL DEF FittingSpec, ImplementsLineText

\* So the whole editor is safe and is a line of text with these two departures on a screen on which no line takes up
\* two first rows or more, or when lines begin at the margin.
THEOREM WholeEditor ==
  LineSpec /\ []LineFits => []LineTypeOK /\ []LineOK /\ ImplementsLineText
<1>1. LineFits /\ [LineNext]_lineVars => [KeyNext \/ (LineFits /\ ClickNext)]_lineVars
  BY DEF LineNext
<1>2. LineSpec /\ []LineFits => FittingSpec
  BY <1>1, PTL DEF LineSpec, FittingSpec
<1> QED BY <1>2, LineTypes, LineSafe, LineIsText, PTL
=============================================================================
