------------------------------- MODULE Logger -------------------------------
(***************************************************************************)
(* The logger (log.h, log.cpp): all threads write lines into one file per  *)
(* day through one std::ofstream under a mutex.  The program may be killed *)
(* and started again on the same directory, at any time; only one instance *)
(* of it runs there.                                                       *)
(*                                                                         *)
(* TryLogDaily is one step, because it holds the mutex from its first line *)
(* to its last; the stamp of a line is taken before, without the mutex.    *)
(* An ofstream keeps what it is given in a buffer: it is on disk after a   *)
(* flush, which may happen at any time, or a close.                        *)
(***************************************************************************)
EXTENDS Naturals, Sequences, SequencesExt

CONSTANTS
    Thread,
    LastDay,    \* bound: the last day of the instance
    MaxLines    \* bound: lines of each thread

ASSUME LoggerAssumption == LastDay \in Nat /\ MaxLines \in Nat

Day    == 1 .. LastDay
Closed == 0   \* no file is open
NoLine == 0   \* a thread that is not logging

Line == [by : Thread, no : 1 .. MaxLines, stamp : Day, written : Day]

VARIABLES
    today,
    stamp,     \* per thread: the day in the line it is about to write
    count,     \* history: per thread, how many lines it has begun
    openDay,   \* the day whose file file_ has open
    buffer,    \* lines in the buffer of file_
    files,     \* the files that exist, by day
    entered,   \* history: the lines that came into TryLogDaily
    dropped    \* history: those that a failed open or a kill has cost

vars == <<today, stamp, count, openDay, buffer, files, entered, dropped>>

Init ==
    /\ today \in Day /\ openDay = Closed /\ buffer = <<>> /\ files = <<>>
    /\ stamp = [th \in Thread |-> NoLine] /\ count = [th \in Thread |-> 0]
    /\ entered = {} /\ dropped = {}

Exists(day) == day \in DOMAIN files

\* What is on disk once the buffer has been written out.
Flushed == IF openDay = Closed THEN files ELSE [files EXCEPT ![openDay] = @ \o buffer]

\* RAW_LOG takes the time and puts the line together.
TakeStamp(th) ==
    /\ stamp[th] = NoLine /\ count[th] < MaxLines
    /\ stamp' = [stamp EXCEPT ![th] = today]
    /\ count' = [count EXCEPT ![th] = @ + 1]
    /\ UNCHANGED <<today, openDay, buffer, files, entered, dropped>>

\* Mutant of StillOpen: the file of the day before stays open.
StillOpenAlways == openDay

\* The file is closed when there is none for today.
StillOpen == IF Exists(today) THEN openDay ELSE Closed

\* Mutant of Opened: closing and opening are two branches of one condition.
OpenedLater(ok) ==
    IF StillOpen # Closed THEN StillOpen ELSE IF ok /\ Exists(today) THEN today ELSE Closed

Opened(ok) == IF StillOpen # Closed THEN StillOpen ELSE IF ok THEN today ELSE Closed

\* Mutant of Keep: std::ios::trunc.
Truncate(disk) == [day \in DOMAIN disk \cup {today} |-> IF day = today THEN <<>> ELSE disk[day]]

\* std::ios::app: a file that is there is kept, one that is not is created.
Keep(disk) == [day \in DOMAIN disk \cup {today} |-> IF day \in DOMAIN disk THEN disk[day] ELSE <<>>]

TryLogDaily(th, ok) ==
    /\ stamp[th] # NoLine
    /\ LET line   == [by |-> th, no |-> count[th], stamp |-> stamp[th], written |-> today]
           closes == openDay # Closed /\ StillOpen = Closed
           opens  == StillOpen = Closed /\ Opened(ok) # Closed
           disk   == IF closes THEN Flushed ELSE files
           kept   == IF closes THEN <<>> ELSE buffer
       IN  /\ files' = IF opens THEN Keep(disk) ELSE disk
           /\ buffer' = IF Opened(ok) = Closed THEN <<>> ELSE Append(kept, line)
           /\ entered' = entered \cup {line}
           /\ dropped' = IF StillOpen = Closed /\ ~ok THEN dropped \cup {line} ELSE dropped
    /\ openDay' = Opened(ok)
    /\ stamp' = [stamp EXCEPT ![th] = NoLine]
    /\ UNCHANGED <<today, count>>

Flush ==
    /\ buffer # <<>>
    /\ files' = Flushed /\ buffer' = <<>>
    /\ UNCHANGED <<today, stamp, count, openDay, entered, dropped>>

\* The statics are gone, and the next start finds file_ closed.
Restart == openDay' = Closed /\ buffer' = <<>> /\ stamp' = [th \in Thread |-> NoLine]

\* main returns after the threads; the destructor of file_ closes it.
Exit ==
    /\ \A th \in Thread : stamp[th] = NoLine
    /\ files' = Flushed /\ Restart
    /\ UNCHANGED <<today, count, entered, dropped>>

Kill ==
    /\ dropped' = dropped \cup ToSet(buffer) /\ Restart
    /\ UNCHANGED <<today, count, files, entered>>

Midnight ==
    /\ today < LastDay /\ today' = today + 1
    /\ UNCHANGED <<stamp, count, openDay, buffer, files, entered, dropped>>

Next ==
    \/ \E th \in Thread : TakeStamp(th) \/ \E ok \in BOOLEAN : TryLogDaily(th, ok)
    \/ Flush \/ Exit \/ Kill \/ Midnight

Spec == Init /\ [][Next]_vars

----------------------------------------------------------------------------
(* Properties. *)

\* Type invariant of the stream and the directory.
TypeOK ==
    /\ today \in Day /\ openDay \in Day \cup {Closed}
    /\ stamp \in [Thread -> Day \cup {NoLine}] /\ count \in [Thread -> 0 .. MaxLines]
    /\ buffer \in Seq(Line) /\ DOMAIN files \subseteq Day
    /\ \A day \in DOMAIN files : files[day] \in Seq(Line)
    /\ entered \subseteq Line /\ dropped \subseteq entered

\* A line stands in the file of the day on which it was written: the file that is
\* open is never that of an earlier day when TryLogDaily inserts, although only the
\* absence of a file makes it change.
RightFile ==
    /\ \A day \in DOMAIN files : \A i \in 1 .. Len(files[day]) : files[day][i].written = day
    /\ \A i \in 1 .. Len(buffer) : buffer[i].written = openDay

\* No line is lost but by a kill or by a directory that cannot be written: neither
\* at the change of the day nor at a restart on the same day.
OnlyKillsLose ==
    entered = dropped \cup ToSet(buffer) \cup UNION {ToSet(files[day]) : day \in DOMAIN files}

\* A restart keeps what earlier runs have written; files only grow at their end.
FilesOnlyGrow ==
    [][\A day \in DOMAIN files : day \in DOMAIN files' /\ IsPrefix(files[day], files'[day])]_vars
=============================================================================
