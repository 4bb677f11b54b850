------------------------------ MODULE LineText ------------------------------
(***************************************************************************)
(* What the line discipline of a terminal promises: a line of text with a  *)
(* cursor, a log of the latest lines, and a line handed over at Enter.     *)
(***************************************************************************)
EXTENDS Integers, Sequences, SequencesExt, FiniteSets

CONSTANTS
    Letters,      \* printable characters other than the blank
    MaxLine,      \* the longest line
    MaxHistory,   \* lines that are remembered
    Names         \* the sequence of file names that Tab completes to

VARIABLES
    text, cursor, \* the line and how many characters are left of the cursor
    log, place,   \* the remembered lines, oldest first, and how many precede the recalled one
    submitted     \* what read() will find

vars == <<text, cursor, log, place, submitted>>

Space == "space"
NL    == "newline"
Chars == Letters \cup {Space}

Insert(c) ==
    /\ Len(text) < MaxLine
    /\ text' = InsertAt(text, cursor + 1, c)
    /\ cursor' = cursor + 1
    /\ UNCHANGED <<log, place, submitted>>

Erase ==
    /\ cursor > 0
    /\ text' = RemoveAt(text, cursor)
    /\ cursor' = cursor - 1
    /\ UNCHANGED <<log, place, submitted>>

\* Arrow keys, Ctrl-A, a mouse click.
MoveCursor(n) ==
    /\ n \in 0 .. Len(text)
    /\ cursor' = n
    /\ UNCHANGED <<text, log, place, submitted>>

\* Ctrl-K
Kill ==
    /\ text' = SubSeq(text, 1, cursor)
    /\ UNCHANGED <<cursor, log, place, submitted>>

\* Up and Down.  Below the newest line there is an empty one.
Recall(n) ==
    /\ n \in 0 .. Len(log)
    /\ n - place \in {-1, 1}
    /\ place' = n
    /\ text' = IF n < Len(log) THEN log[n + 1] ELSE <<>>
    /\ cursor' = Len(text')
    /\ UNCHANGED <<log, submitted>>

\* Trailing blanks are removed; a line ends in a line feed.
Trimmed(s)   == SubSeq(s, 1, SelectLastInSeq(s, LAMBDA c : c # Space))
Delivered(s) == Append(Trimmed(s), NL)

\* Enter: the line is remembered, and `line' is handed over.
Enter(line) ==
    LET all == Append(log, text) IN
    /\ log' = IF Len(all) <= MaxHistory THEN all ELSE Tail(all)
    /\ place' = Len(log')
    /\ submitted' = line
    /\ text' = <<>> /\ cursor' = 0

Submit == Enter(Delivered(text))

LastWord(s) == SubSeq(s, SelectLastInSeq(s, LAMBDA c : c = Space) + 1, Len(s))

\* Tab.  A word that begins one name becomes that name and a blank, one that begins several
\* grows to what they have in common; after a blank, anything that begins a name may come.
Complete ==
    LET word    == LastWord(text)
        matches == {n \in ToSet(Names) : IsPrefix(word, n)}
        full(n) == Append(n, Space)
        results == IF word # <<>>
                   THEN IF Cardinality(matches) = 1 THEN {full(n) : n \in matches}
                                                    ELSE {LongestCommonPrefix(matches)}
                   ELSE UNION {Prefixes(full(n)) : n \in matches}
    IN
    /\ text # <<>> /\ matches # {}
    /\ \E r \in results :
          /\ text' = SubSeq(text, 1, Len(text) - Len(word)) \o r
          /\ cursor' = Len(text')
    /\ Len(text') <= MaxLine
    /\ UNCHANGED <<log, place, submitted>>

Init == text = <<>> /\ cursor = 0 /\ log = <<>> /\ place = 0 /\ submitted = <<>>

Next ==
    \/ \E c \in Chars : Insert(c)
    \/ Erase
    \/ \E n \in 0 .. MaxLine : MoveCursor(n)
    \/ Kill
    \/ \E n \in 0 .. MaxHistory : Recall(n)
    \/ Submit
    \/ Complete

Spec == Init /\ [][Next]_vars
=============================================================================
