-------------------------------- MODULE Rtc --------------------------------
(***************************************************************************)
(* The real-time clock driver, rtc.c, as its users see it through open,    *)
(* read, write, close and halt: one hardware rate shared by all of them.   *)
(* A file is an open descriptor of some process; a process that waits in   *)
(* rtc_read does nothing else.  Handlers run with interrupts disabled.     *)
(***************************************************************************)
EXTENDS Integers, FiniteSets

CONSTANTS
    MaxFreqLog2,    \* MAX_FREQ_LOG2: the highest rate is 1 << MaxFreqLog2
    Files,          \* descriptors that can be open at a time
    Inputs,         \* numbers that programs write
    MaxTics,        \* bound on the interrupts, and on what a read may wait for
    MaxAbandoned    \* bound on the files left open by an exit

ASSUME RtcConstants ==
    /\ MaxFreqLog2 \in Nat /\ MaxFreqLog2 > 1
    /\ IsFiniteSet(Files)
    /\ Inputs \subseteq Int
    /\ MaxTics \in Nat /\ MaxAbandoned \in Nat

VARIABLES
    current_freq,   \* the rate the hardware runs at
    num_tics,       \* interrupts so far
    freq_users,     \* the array, and the memory behind it
    open, pos,      \* open files, and the frequency each has asked for (0: none)
    reading,        \* files whose read has not returned
    desired_tics,   \* per reading file: the local variable of rtc_read
    began,          \* history: num_tics when the read was called
    abandoned       \* history: per counter, files left open by an exit

userVars == <<freq_users, open, pos, abandoned>>
readVars == <<reading, desired_tics, began>>
rtcVars  == <<current_freq, num_tics, userVars, readVars>>

\* 1 << i
Pow2[i \in Nat] == IF i = 0 THEN 1 ELSE 2 * Pow2[i - 1]

Rates    == {Pow2[i] : i \in 1 .. MaxFreqLog2}   \* what rtc_set_freq accepts
TopRate  == Pow2[MaxFreqLog2]
Counters == 0 .. MaxFreqLog2                     \* freq_users[MAX_FREQ_LOG2 + 1]
Words    == 0 .. TopRate                         \* the array and what follows it

\* log2, for a number that rtc_set_freq accepts: its loop stops short of MaxFreqLog2.
Log2(num) ==
    IF \E i \in 1 .. MaxFreqLog2 - 1 : num = Pow2[i]
    THEN CHOOSE i \in 1 .. MaxFreqLog2 - 1 : num = Pow2[i]
    ELSE TopRate

\* The frequency a file stands for: 2 Hz until one is written.
Freq(p) == IF p = 0 THEN 2 ELSE p

IncUsers(users, p) == [users EXCEPT ![Log2(Freq(p))] = @ + 1]

\* MUTANT of DecUsers: the default rate is not counted down.
DecUsersNotDefault(users, p) == IF p = 0 THEN users ELSE [users EXCEPT ![Log2(p)] = @ - 1]

DecUsers(users, p) == [users EXCEPT ![Log2(Freq(p))] = @ - 1]

\* MUTANT of MaxFreq: the search ends one rate too early.
MaxFreqLow(users) ==
    LET used == {i \in 1 .. MaxFreqLog2 - 2 : users[i] > 0}
    IN  IF used = {} THEN 2 ELSE Pow2[CHOOSE i \in used : \A j \in used : j <= i]

\* max_freq: the highest rate with users, and at least 2.
MaxFreq(users) ==
    LET used == {i \in 1 .. MaxFreqLog2 : users[i] > 0}
    IN  IF used = {} THEN 2 ELSE Pow2[CHOOSE i \in used : \A j \in used : j <= i]

-----------------------------------------------------------------------------
\* syscall_open and rtc_open
Open(f) ==
    LET users == IncUsers(freq_users, 2) IN
    /\ f \in Files \ open
    /\ open' = open \cup {f}
    /\ pos' = [pos EXCEPT ![f] = 0]
    /\ freq_users' = users
    /\ current_freq' = MaxFreq(users)
    /\ UNCHANGED <<num_tics, abandoned, readVars>>

\* MUTANT of Write: pos is assigned before the old frequency is counted down.
WriteAssignsFirst(f, freq) ==
    LET new == IF freq \in Rates THEN freq ELSE 0 IN
    /\ f \in open \ reading
    /\ freq_users' = IncUsers(DecUsers(freq_users, new), new)
    /\ pos' = [pos EXCEPT ![f] = new]
    /\ current_freq' = IF freq \in Rates THEN freq ELSE current_freq
    /\ UNCHANGED <<num_tics, open, abandoned, readVars>>

\* rtc_write of a number: accepted, or refused and the file is back at its default.
Write(f, freq) ==
    LET new == IF freq \in Rates THEN freq ELSE 0 IN
    /\ f \in open \ reading
    /\ freq_users' = IncUsers(DecUsers(freq_users, pos[f]), new)
    /\ pos' = [pos EXCEPT ![f] = new]
    /\ current_freq' = IF freq \in Rates THEN freq ELSE current_freq
    /\ UNCHANGED <<num_tics, open, abandoned, readVars>>

\* syscall_close and rtc_close
Close(f) ==
    LET users == DecUsers(freq_users, pos[f]) IN
    /\ f \in open \ reading
    /\ open' = open \ {f}
    /\ freq_users' = users
    /\ current_freq' = MaxFreq(users)
    /\ UNCHANGED <<num_tics, pos, abandoned, readVars>>

\* The program exits: syscall_halt drops its descriptors without closing them.
Exit(f) ==
    /\ f \in open \ reading
    /\ \A w \in Words : abandoned[w] < MaxAbandoned
    /\ open' = open \ {f}
    /\ abandoned' = IncUsers(abandoned, pos[f])
    /\ UNCHANGED <<current_freq, num_tics, freq_users, pos, readVars>>

\* rtc_read computes from the present rate how many tics to wait.
ReadBegin(f) ==
    LET desired == num_tics + current_freq \div Freq(pos[f]) IN
    /\ f \in open \ reading
    /\ desired <= MaxTics
    /\ reading' = reading \cup {f}
    /\ desired_tics' = [desired_tics EXCEPT ![f] = desired]
    /\ began' = [began EXCEPT ![f] = num_tics]
    /\ UNCHANGED <<current_freq, num_tics, userVars>>

\* MUTANT of ReadDue: the wait is for one exact count.
ReadDueExactly(f) == num_tics = desired_tics[f]

ReadDue(f) == num_tics >= desired_tics[f]

\* The waiting process is scheduled and finds the tics elapsed.
ReadReturn(f) ==
    /\ f \in reading
    /\ ReadDue(f)
    /\ reading' = reading \ {f}
    /\ UNCHANGED <<current_freq, num_tics, userVars, desired_tics, began>>

\* rtc_handler
Tick ==
    /\ num_tics < MaxTics
    /\ num_tics' = num_tics + 1
    /\ UNCHANGED <<current_freq, userVars, readVars>>

\* rtc_init
RtcInit ==
    /\ current_freq = 2
    /\ num_tics = 0
    /\ freq_users = [w \in Words |-> 0]
    /\ open = {}
    /\ pos = [f \in Files |-> 0]
    /\ reading = {}
    /\ desired_tics = [f \in Files |-> 0]
    /\ began = [f \in Files |-> 0]
    /\ abandoned = [w \in Words |-> 0]

RtcNext ==
    \/ Tick
    \/ \E f \in Files :
         \/ Open(f) \/ Close(f) \/ Exit(f)
         \/ \E freq \in Inputs : Write(f, freq)
         \/ ReadBegin(f) \/ ReadReturn(f)

RtcSpec == RtcInit /\ [][RtcNext]_rtcVars

\* The hardware keeps interrupting and schedule() keeps coming back to a waiting process.
RtcFairSpec == RtcSpec /\ WF_rtcVars(Tick) /\ \A f \in Files : WF_rtcVars(ReadReturn(f))

-----------------------------------------------------------------------------
(* Properties.                                                             *)

TypeOK ==
    /\ current_freq \in Rates
    /\ num_tics \in Nat
    /\ freq_users \in [Words -> Nat]
    /\ open \subseteq Files
    /\ pos \in [Files -> Rates \cup {0}]
    /\ reading \subseteq open
    /\ desired_tics \in [Files -> Nat]
    /\ began \in [Files -> Nat]
    /\ abandoned \in [Words -> Nat]

\* However files are opened, given accepted or refused frequencies, closed and abandoned,
\* each counter is the number of its users: the open files and those an exit left behind.
UsersCounted ==
    \A w \in Words :
       freq_users[w] = Cardinality({f \in open : Log2(Freq(pos[f])) = w}) + abandoned[w]

\* An open or a close leaves the clock fast enough for every file open then, the
\* highest rate, which is counted outside the array, excepted.
RateServesOpen ==
    [][(\E f \in Files : Open(f) \/ Close(f)) =>
          \A g \in open' : Freq(pos'[g]) # TopRate => current_freq' >= Freq(pos'[g])]_rtcVars

\* Every read returns, as long as the clock ticks, whatever others do to the rate.
ReadReturns == \A f \in Files : f \in reading ~> f \notin reading

\* A read returns only after an interrupt (mp3.txt:770 "only after an interrupt has
\* occurred"): it never waits for a count that is already reached.
ReadWaitsForTick == \A f \in reading : began[f] < desired_tics[f]
=============================================================================
