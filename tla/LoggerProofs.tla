---------------------------- MODULE LoggerProofs ----------------------------
(***************************************************************************)
(* Logger for any set of threads, any number of days and of lines: where a *)
(* line ends up and what can be lost, over every order of lines, flushes,  *)
(* kills, restarts and changes of the day.                                 *)
(***************************************************************************)
EXTENDS Logger, TLAPS

\* A thread that has taken the time has begun a line.
StampInv == \A th \in Thread : stamp[th] # NoLine => count[th] \in 1 .. MaxLines

\* The open file exists, and is that of today as soon as there is one for today;
\* no file is of a day that has not come.
StreamInv ==
    /\ DOMAIN files \subseteq 1 .. today
    /\ openDay # Closed => openDay \in DOMAIN files
    /\ openDay # Closed /\ today \in DOMAIN files => openDay = today
    /\ openDay = Closed => buffer = <<>>

LogInv == TypeOK /\ StampInv /\ StreamInv /\ RightFile /\ OnlyKillsLose

\* The lines on a disk.
OnDisk(disk) == UNION {ToSet(disk[day]) : day \in DOMAIN disk}

----------------------------------------------------------------------------
(* Sequences. *)

\* The elements of a concatenation are those of its parts.
LEMMA ToSetConcat ==
  ASSUME NEW S, NEW s \in Seq(S), NEW t \in Seq(S)
  PROVE  ToSet(s \o t) = ToSet(s) \cup ToSet(t)
<1>1. ASSUME NEW i \in DOMAIN (s \o t) PROVE (s \o t)[i] \in ToSet(s) \cup ToSet(t)
  BY DEF ToSet
<1>2. ASSUME NEW i \in DOMAIN s PROVE s[i] \in ToSet(s \o t)
  <2>1. i \in DOMAIN (s \o t) /\ (s \o t)[i] = s[i]
    OBVIOUS
  <2> QED
    BY <2>1 DEF ToSet
<1>3. ASSUME NEW i \in DOMAIN t PROVE t[i] \in ToSet(s \o t)
  <2>1. Len(s) + i \in DOMAIN (s \o t) /\ (s \o t)[Len(s) + i] = t[i]
    OBVIOUS
  <2> QED
    BY <2>1 DEF ToSet
<1> QED
  BY <1>1, <1>2, <1>3 DEF ToSet

\* Appending an element adds it.
LEMMA ToSetAppend ==
  ASSUME NEW S, NEW s \in Seq(S), NEW e \in S
  PROVE  ToSet(Append(s, e)) = ToSet(s) \cup {e}
<1>1. ASSUME NEW i \in DOMAIN Append(s, e) PROVE Append(s, e)[i] \in ToSet(s) \cup {e}
  BY DEF ToSet
<1>2. ASSUME NEW i \in DOMAIN s PROVE s[i] \in ToSet(Append(s, e))
  <2>1. i \in DOMAIN Append(s, e) /\ Append(s, e)[i] = s[i]
    OBVIOUS
  <2> QED
    BY <2>1 DEF ToSet
<1>3. e \in ToSet(Append(s, e))
  <2>1. Len(s) + 1 \in DOMAIN Append(s, e) /\ Append(s, e)[Len(s) + 1] = e
    OBVIOUS
  <2> QED
    BY <2>1 DEF ToSet
<1> QED
  BY <1>1, <1>2, <1>3 DEF ToSet

\* A sequence is a prefix of itself and of what is concatenated to it.
LEMMA PrefixConcat ==
  ASSUME NEW S, NEW s \in Seq(S), NEW t \in Seq(S)
  PROVE  IsPrefix(s, s) /\ IsPrefix(s, s \o t)
<1>1. SubSeq(s, 1, Len(s)) = SubSeq(s \o t, 1, Len(s))
  OBVIOUS
<1>2. Len(s) <= Len(s) /\ Len(s) <= Len(s \o t)
  OBVIOUS
<1> QED
  BY <1>1, <1>2 DEF IsPrefix

----------------------------------------------------------------------------
(* What the disk holds after a flush and after an open. *)

\* The buffer goes to the end of the open file and of no other.
LEMMA FlushedFile ==
  ASSUME LogInv
  PROVE  /\ DOMAIN Flushed = DOMAIN files
         /\ \A day \in DOMAIN files :
               Flushed[day] = IF day = openDay THEN files[day] \o buffer ELSE files[day]
         /\ openDay = Closed => \A day \in DOMAIN files : day # openDay
<1>1. openDay = Closed => \A day \in DOMAIN files : day # openDay
  BY DEF LogInv, TypeOK, Day, Closed
<1> QED
  BY <1>1 DEF Flushed, LogInv, StreamInv

\* A flush loses nothing, and leaves every line in the file of its day.
LEMMA FlushedLines ==
  ASSUME LogInv
  PROVE  /\ OnDisk(Flushed) = OnDisk(files) \cup ToSet(buffer)
         /\ \A day \in DOMAIN files : /\ Flushed[day] \in Seq(Line)
                                      /\ IsPrefix(files[day], Flushed[day])
                                      /\ \A k \in 1 .. Len(Flushed[day]) :
                                            Flushed[day][k].written = day
<1>1. buffer \in Seq(Line) /\ \A day \in DOMAIN files : files[day] \in Seq(Line)
  BY DEF LogInv, TypeOK
<1>2. ASSUME NEW day \in DOMAIN files
      PROVE  /\ Flushed[day] \in Seq(Line)
             /\ IsPrefix(files[day], Flushed[day])
             /\ \A k \in 1 .. Len(Flushed[day]) : Flushed[day][k].written = day
             /\ ToSet(Flushed[day]) = IF day = openDay THEN ToSet(files[day]) \cup ToSet(buffer)
                                                       ELSE ToSet(files[day])
  <2>1. /\ \A k \in 1 .. Len(files[day]) : files[day][k].written = day
        /\ \A k \in 1 .. Len(buffer) : buffer[k].written = openDay
    BY DEF LogInv, RightFile
  <2>2. IsPrefix(files[day], files[day]) /\ IsPrefix(files[day], files[day] \o buffer)
    BY <1>1, PrefixConcat
  <2>3. ToSet(files[day] \o buffer) = ToSet(files[day]) \cup ToSet(buffer)
    BY <1>1, ToSetConcat
  <2>4. CASE day = openDay
    <3>1. Flushed[day] = files[day] \o buffer
      BY <2>4, FlushedFile
    <3>2. files[day] \o buffer \in Seq(Line)
      BY <1>1
    <3>3. ASSUME NEW k \in 1 .. Len(files[day] \o buffer)
          PROVE  (files[day] \o buffer)[k].written = day
      <4>1. CASE k <= Len(files[day])
        <5>1. (files[day] \o buffer)[k] = files[day][k] /\ k \in 1 .. Len(files[day])
          BY <1>1, <4>1
        <5> QED
          BY <5>1, <2>1
      <4>2. CASE ~(k <= Len(files[day]))
        <5>1. /\ (files[day] \o buffer)[k] = buffer[k - Len(files[day])]
              /\ k - Len(files[day]) \in 1 .. Len(buffer)
          BY <1>1, <4>2
        <5> QED
          BY <5>1, <2>1, <2>4
      <4> QED
        BY <4>1, <4>2
    <3> QED
      BY <2>2, <2>3, <2>4, <3>1, <3>2, <3>3
  <2>5. CASE day # openDay
    <3>1. Flushed[day] = files[day]
      BY <2>5, FlushedFile
    <3> QED
      BY <1>1, <2>1, <2>2, <2>5, <3>1
  <2> QED
    BY <2>4, <2>5
<1>3. openDay = Closed => ToSet(buffer) = {}
  BY DEF LogInv, StreamInv, ToSet
<1>4. openDay # Closed => openDay \in DOMAIN files
  BY DEF LogInv, StreamInv
<1>5. OnDisk(Flushed) = OnDisk(files) \cup ToSet(buffer)
  <2>1. ASSUME NEW l \in OnDisk(Flushed) PROVE l \in OnDisk(files) \cup ToSet(buffer)
    <3>1. PICK day \in DOMAIN files : l \in ToSet(Flushed[day])
      BY FlushedFile DEF OnDisk
    <3> QED
      BY <3>1, <1>2 DEF OnDisk
  <2>2. ASSUME NEW l \in OnDisk(files) PROVE l \in OnDisk(Flushed)
    <3>1. PICK day \in DOMAIN files : l \in ToSet(files[day])
      BY DEF OnDisk
    <3>2. l \in ToSet(Flushed[day])
      BY <3>1, <1>2
    <3> QED
      BY <3>2, FlushedFile DEF OnDisk
  <2>3. ASSUME NEW l \in ToSet(buffer) PROVE l \in OnDisk(Flushed)
    <3>1. openDay \in DOMAIN files
      BY <1>3, <1>4
    <3>2. l \in ToSet(Flushed[openDay])
      BY <3>1, <1>2
    <3> QED
      BY <3>1, <3>2, FlushedFile DEF OnDisk
  <2> QED
    BY <2>1, <2>2, <2>3
<1> QED
  BY <1>2, <1>5

\* Opening for appending changes no line on the disk.
LEMMA KeepLines ==
  ASSUME NEW disk
  PROVE  /\ DOMAIN Keep(disk) = DOMAIN disk \cup {today}
         /\ \A day \in DOMAIN disk : Keep(disk)[day] = disk[day]
         /\ \A day \in DOMAIN Keep(disk) : day \notin DOMAIN disk => Keep(disk)[day] = <<>>
         /\ OnDisk(Keep(disk)) = OnDisk(disk)
<1>1. /\ DOMAIN Keep(disk) = DOMAIN disk \cup {today}
      /\ \A day \in DOMAIN disk : Keep(disk)[day] = disk[day]
      /\ \A day \in DOMAIN Keep(disk) : day \notin DOMAIN disk => Keep(disk)[day] = <<>>
  BY DEF Keep
<1>2. ToSet(<<>>) = {}
  BY DEF ToSet
<1>3. \A day \in DOMAIN Keep(disk) :
         ToSet(Keep(disk)[day]) = IF day \in DOMAIN disk THEN ToSet(disk[day]) ELSE {}
  BY <1>1, <1>2
<1>4. OnDisk(Keep(disk)) = OnDisk(disk)
  BY <1>1, <1>3, Zenon DEF OnDisk
<1> QED
  BY <1>1, <1>4

----------------------------------------------------------------------------
(* The steps. *)

\* The line that a thread brings into TryLogDaily.
LineOf(th) == [by |-> th, no |-> count[th], stamp |-> stamp[th], written |-> today]

\* At first there is neither a file nor a line.
LEMMA InitLogInv == Init => LogInv
<1> SUFFICES ASSUME Init PROVE LogInv
  OBVIOUS
<1>1. /\ DOMAIN files = {} /\ buffer = <<>> /\ ToSet(buffer) = {}
      /\ openDay = Closed /\ today \in Day
  BY DEF Init, ToSet
<1>2. TypeOK
  BY <1>1, LoggerAssumption DEF Init, TypeOK, NoLine, Day
<1>3. StampInv /\ StreamInv /\ RightFile
  BY <1>1 DEF Init, StampInv, StreamInv, RightFile
<1>4. OnlyKillsLose
  BY <1>1 DEF Init, OnlyKillsLose
<1> QED
  BY <1>2, <1>3, <1>4 DEF LogInv

\* The three ways through TryLogDaily: the file that is open is that of today, the
\* file of today is opened, or it cannot be.
LEMMA TryLogDailyEffect ==
  ASSUME LogInv, NEW th \in Thread, NEW ok \in BOOLEAN, TryLogDaily(th, ok)
  PROVE  /\ LineOf(th) \in Line
         /\ entered' = entered \cup {LineOf(th)}
         /\ \/ /\ openDay = today /\ today \in DOMAIN files /\ openDay' = today
               /\ files' = files /\ buffer' = Append(buffer, LineOf(th)) /\ dropped' = dropped
            \/ /\ openDay' = today /\ files' = Keep(Flushed)
               /\ buffer' = Append(<<>>, LineOf(th)) /\ dropped' = dropped
            \/ /\ openDay' = Closed /\ files' = Flushed
               /\ buffer' = <<>> /\ dropped' = dropped \cup {LineOf(th)}
<1>1. LineOf(th) \in Line
  BY DEF LineOf, Line, TryLogDaily, LogInv, TypeOK, StampInv
<1>2. today # Closed
  BY DEF LogInv, TypeOK, Day, Closed
<1>3. CASE StillOpen # Closed
  <2>1. openDay = today /\ today \in DOMAIN files /\ Opened(ok) = today /\ StillOpen = openDay
    BY <1>3 DEF StillOpen, Opened, Exists, LogInv, StreamInv
  <2> QED
    BY <1>1, <1>2, <1>3, <2>1 DEF TryLogDaily, LineOf
<1>4. CASE StillOpen = Closed
  <2>1. openDay = Closed => files = Flushed /\ buffer = <<>>
    BY DEF Flushed, LogInv, StreamInv
  <2>2. Opened(ok) = IF ok THEN today ELSE Closed
    BY <1>4 DEF Opened
  <2>3. CASE ok
    BY <1>1, <1>2, <1>4, <2>1, <2>2, <2>3 DEF TryLogDaily, LineOf
  <2>4. CASE ~ok
    BY <1>1, <1>2, <1>4, <2>1, <2>2, <2>4 DEF TryLogDaily, LineOf
  <2> QED
    BY <2>3, <2>4
<1> QED
  BY <1>3, <1>4

\* A line is written, into the file of its day.
LEMMA TryLogDailyLogInv ==
  ASSUME LogInv, NEW th \in Thread, NEW ok \in BOOLEAN, TryLogDaily(th, ok)
  PROVE  LogInv'
<1>1. /\ today' = today /\ count' = count /\ stamp' = [stamp EXCEPT ![th] = NoLine]
      /\ today \in Day /\ Closed \notin Day
  BY DEF TryLogDaily, LogInv, TypeOK, Day, Closed
<1>2. /\ stamp' \in [Thread -> Day \cup {NoLine}] /\ count' \in [Thread -> 0 .. MaxLines]
      /\ StampInv'
  BY <1>1 DEF LogInv, TypeOK, StampInv
<1>3. LineOf(th) \in Line /\ LineOf(th).written = today
  BY TryLogDailyEffect DEF LineOf
<1>4. entered' = entered \cup {LineOf(th)} /\ entered' \subseteq Line
  BY TryLogDailyEffect, <1>3 DEF LogInv, TypeOK
<1>5. entered = dropped \cup ToSet(buffer) \cup OnDisk(files)
  BY DEF LogInv, OnlyKillsLose, OnDisk
<1>6. OnlyKillsLose' <=> entered' = dropped' \cup ToSet(buffer') \cup OnDisk(files')
  BY DEF OnlyKillsLose, OnDisk
<1>7. CASE /\ openDay = today /\ today \in DOMAIN files /\ openDay' = today
           /\ files' = files /\ buffer' = Append(buffer, LineOf(th)) /\ dropped' = dropped
  <2>1. buffer \in Seq(Line) /\ buffer' \in Seq(Line)
    BY <1>3, <1>7 DEF LogInv, TypeOK
  <2>2. TypeOK'
    BY <1>1, <1>2, <1>4, <1>7, <2>1 DEF LogInv, TypeOK
  <2>3. StreamInv'
    BY <1>1, <1>7 DEF LogInv, StreamInv, Closed
  <2>4. RightFile'
    <3>1. ASSUME NEW k \in 1 .. Len(buffer') PROVE buffer'[k].written = today
      <4>1. CASE k \in 1 .. Len(buffer)
        BY <1>7, <2>1, <4>1 DEF LogInv, RightFile
      <4>2. CASE k = Len(buffer) + 1
        BY <1>3, <1>7, <2>1, <4>2
      <4> QED
        BY <4>1, <4>2, <1>7, <2>1
    <3> QED
      BY <1>7, <3>1 DEF LogInv, RightFile
  <2>5. ToSet(buffer') = ToSet(buffer) \cup {LineOf(th)}
    BY <1>3, <1>7, <2>1, ToSetAppend
  <2>6. OnlyKillsLose'
    BY <1>4, <1>5, <1>6, <1>7, <2>5
  <2> QED
    BY <1>2, <2>2, <2>3, <2>4, <2>6 DEF LogInv
<1>8. CASE /\ openDay' = today /\ files' = Keep(Flushed)
           /\ buffer' = Append(<<>>, LineOf(th)) /\ dropped' = dropped
  <2>1. /\ buffer' \in Seq(Line) /\ ToSet(buffer') = {LineOf(th)}
        /\ \A k \in 1 .. Len(buffer') : buffer'[k].written = today
    <3>1. buffer' = <<LineOf(th)>>
      BY <1>8
    <3>2. <<LineOf(th)>> \in Seq(Line) /\ DOMAIN <<LineOf(th)>> = {1} /\ Len(<<LineOf(th)>>) = 1
      BY <1>3
    <3>3. <<LineOf(th)>>[1] = LineOf(th)
      OBVIOUS
    <3>4. ToSet(buffer') = {LineOf(th)}
      BY <3>1, <3>2, <3>3 DEF ToSet
    <3>5. ASSUME NEW k \in 1 .. Len(buffer') PROVE buffer'[k].written = today
      <4>1. k = 1
        BY <3>1, <3>2
      <4> QED
        BY <4>1, <1>3, <3>1, <3>3
    <3> QED
      BY <3>1, <3>2, <3>4, <3>5
  <2>2. /\ DOMAIN files' = DOMAIN files \cup {today}
        /\ \A day \in DOMAIN files : files'[day] = Flushed[day]
        /\ \A day \in DOMAIN files' : day \notin DOMAIN files => files'[day] = <<>>
    BY <1>8, KeepLines, FlushedFile
  <2>3. ASSUME NEW day \in DOMAIN files'
        PROVE  /\ files'[day] \in Seq(Line)
               /\ \A k \in 1 .. Len(files'[day]) : files'[day][k].written = day
    <3>1. CASE day \in DOMAIN files
      BY <2>2, <3>1, FlushedLines
    <3>2. CASE day \notin DOMAIN files
      <4>1. files'[day] = <<>> /\ <<>> \in Seq(Line) /\ 1 .. Len(<<>>) = {}
        BY <2>2, <3>2
      <4> QED
        BY <4>1
    <3> QED
      BY <3>1, <3>2
  <2>4. TypeOK'
    BY <1>1, <1>2, <1>4, <1>8, <2>1, <2>2, <2>3 DEF LogInv, TypeOK
  <2>5. StreamInv'
    BY <1>1, <1>8, <2>2 DEF LogInv, StreamInv, Closed, Day
  <2>6. RightFile'
    BY <1>8, <2>1, <2>3 DEF RightFile
  <2>7. OnDisk(files') = OnDisk(files) \cup ToSet(buffer)
    BY <1>8, KeepLines, FlushedLines
  <2>8. OnlyKillsLose'
    BY <1>4, <1>5, <1>6, <1>8, <2>1, <2>7
  <2> QED
    BY <1>2, <2>4, <2>5, <2>6, <2>8 DEF LogInv
<1>9. CASE /\ openDay' = Closed /\ files' = Flushed
           /\ buffer' = <<>> /\ dropped' = dropped \cup {LineOf(th)}
  <2>1. DOMAIN files' = DOMAIN files
    BY <1>9, FlushedFile
  <2>2. \A day \in DOMAIN files' : /\ files'[day] \in Seq(Line)
                                   /\ \A k \in 1 .. Len(files'[day]) : files'[day][k].written = day
    BY <1>9, <2>1, FlushedLines
  <2>3. TypeOK'
    BY <1>1, <1>2, <1>4, <1>9, <2>1, <2>2 DEF LogInv, TypeOK
  <2>4. StreamInv'
    BY <1>1, <1>9, <2>1 DEF LogInv, StreamInv
  <2>5. RightFile'
    BY <1>9, <2>2 DEF RightFile
  <2>6. OnDisk(files') = OnDisk(files) \cup ToSet(buffer) /\ ToSet(buffer') = {}
    BY <1>9, FlushedLines DEF ToSet
  <2>7. OnlyKillsLose'
    BY <1>4, <1>5, <1>6, <1>9, <2>6
  <2> QED
    BY <1>2, <2>3, <2>4, <2>5, <2>7 DEF LogInv
<1> QED
  BY <1>7, <1>8, <1>9, TryLogDailyEffect

\* Whatever else happens: the day changes, the buffer is flushed, or the program
\* ends or is killed and starts again.
LEMMA OtherLogInv ==
  ASSUME LogInv,
         Flush \/ Exit \/ Kill \/ Midnight \/ \E th \in Thread : TakeStamp(th)
  PROVE  LogInv'
<1>1. /\ DOMAIN Flushed = DOMAIN files
      /\ OnDisk(Flushed) = OnDisk(files) \cup ToSet(buffer)
      /\ \A day \in DOMAIN files : /\ Flushed[day] \in Seq(Line)
                                   /\ \A k \in 1 .. Len(Flushed[day]) :
                                         Flushed[day][k].written = day
  BY FlushedFile, FlushedLines
<1>2. ToSet(<<>>) = {} /\ Len(<<>>) = 0 /\ <<>> \in Seq(Line)
  BY DEF ToSet
<1>3. entered = dropped \cup ToSet(buffer) \cup OnDisk(files)
  BY DEF LogInv, OnlyKillsLose, OnDisk
<1>4. OnlyKillsLose' <=> entered' = dropped' \cup ToSet(buffer') \cup OnDisk(files')
  BY DEF OnlyKillsLose, OnDisk
<1>5. CASE Flush
  <2>1. /\ files' = Flushed /\ buffer' = <<>> /\ UNCHANGED <<today, stamp, count, openDay, entered, dropped>>
    BY <1>5 DEF Flush
  <2>2. TypeOK' /\ StampInv'
    BY <1>1, <1>2, <2>1 DEF LogInv, TypeOK, StampInv
  <2>3. StreamInv' /\ RightFile'
    BY <1>1, <1>2, <2>1 DEF LogInv, StreamInv, RightFile
  <2>4. OnlyKillsLose'
    BY <1>1, <1>2, <1>3, <1>4, <2>1
  <2> QED
    BY <2>2, <2>3, <2>4 DEF LogInv
<1>6. CASE Exit
  <2>1. /\ files' = Flushed /\ buffer' = <<>> /\ openDay' = Closed
        /\ stamp' = [th \in Thread |-> NoLine] /\ UNCHANGED <<today, count, entered, dropped>>
    BY <1>6 DEF Exit, Restart
  <2>2. TypeOK' /\ StampInv'
    BY <1>1, <1>2, <2>1 DEF LogInv, TypeOK, StampInv
  <2>3. StreamInv' /\ RightFile'
    BY <1>1, <1>2, <2>1 DEF LogInv, StreamInv, RightFile
  <2>4. OnlyKillsLose'
    BY <1>1, <1>2, <1>3, <1>4, <2>1
  <2> QED
    BY <2>2, <2>3, <2>4 DEF LogInv
<1>7. CASE Kill
  <2>1. /\ dropped' = dropped \cup ToSet(buffer) /\ buffer' = <<>> /\ openDay' = Closed
        /\ stamp' = [th \in Thread |-> NoLine] /\ UNCHANGED <<today, count, files, entered>>
    BY <1>7 DEF Kill, Restart
  <2>2. TypeOK' /\ StampInv'
    BY <1>2, <1>3, <2>1 DEF LogInv, TypeOK, StampInv
  <2>3. StreamInv' /\ RightFile'
    BY <1>2, <2>1 DEF LogInv, StreamInv, RightFile
  <2>4. OnlyKillsLose'
    BY <1>2, <1>3, <1>4, <2>1
  <2> QED
    BY <2>2, <2>3, <2>4 DEF LogInv
<1>8. CASE Midnight
  <2>1. /\ today' = today + 1 /\ today' \in Day /\ today \in Day
        /\ UNCHANGED <<stamp, count, openDay, buffer, files, entered, dropped>>
    BY <1>8, LoggerAssumption DEF Midnight, LogInv, TypeOK, Day
  <2>2. TypeOK' /\ StampInv' /\ RightFile' /\ OnlyKillsLose'
    BY <2>1 DEF LogInv, TypeOK, StampInv, RightFile, OnlyKillsLose
  <2>3. StreamInv'
    BY <2>1 DEF LogInv, StreamInv, Day
  <2> QED
    BY <2>2, <2>3 DEF LogInv
<1>9. CASE \E th \in Thread : TakeStamp(th)
  <2>1. PICK th \in Thread : TakeStamp(th)
    BY <1>9
  <2>2. /\ stamp' \in [Thread -> Day \cup {NoLine}] /\ count' \in [Thread -> 0 .. MaxLines]
        /\ StampInv'
    BY <2>1, LoggerAssumption DEF TakeStamp, LogInv, TypeOK, StampInv
  <2>3. TypeOK' /\ StreamInv' /\ RightFile' /\ OnlyKillsLose'
    BY <2>1, <2>2 DEF TakeStamp, LogInv, TypeOK, StreamInv, RightFile, OnlyKillsLose
  <2> QED
    BY <2>2, <2>3 DEF LogInv
<1> QED
  BY <1>5, <1>6, <1>7, <1>8, <1>9

\* LogInv is inductive.
LEMMA NextLogInv == LogInv /\ [Next]_vars => LogInv'
<1> SUFFICES ASSUME LogInv, [Next]_vars PROVE LogInv'
  OBVIOUS
<1>1. CASE UNCHANGED vars
  BY <1>1 DEF vars, LogInv, TypeOK, StampInv, StreamInv, RightFile, OnlyKillsLose
<1>2. ASSUME NEW th \in Thread, NEW ok \in BOOLEAN, TryLogDaily(th, ok) PROVE LogInv'
  BY <1>2, TryLogDailyLogInv
<1> QED
  BY <1>1, <1>2, OtherLogInv DEF Next

\* A step leaves every file as it is, or appends to it.
LEMMA StepOnlyGrows ==
  ASSUME LogInv, [Next]_vars
  PROVE  \A day \in DOMAIN files : day \in DOMAIN files' /\ IsPrefix(files[day], files'[day])
<1>1. \A day \in DOMAIN files : IsPrefix(files[day], files[day])
  BY PrefixConcat DEF LogInv, TypeOK
<1>2. CASE files' = files
  BY <1>1, <1>2
<1>3. CASE files' = Flushed
  BY <1>3, FlushedFile, FlushedLines
<1>4. CASE files' = Keep(Flushed)
  BY <1>4, FlushedFile, FlushedLines, KeepLines
<1>5. ASSUME NEW th \in Thread, NEW ok \in BOOLEAN, TryLogDaily(th, ok)
      PROVE  files' = files \/ files' = Flushed \/ files' = Keep(Flushed)
  BY <1>5, TryLogDailyEffect
<1> QED
  BY <1>2, <1>3, <1>4, <1>5 DEF Next, vars, Flush, Exit, Kill, Midnight, TakeStamp

----------------------------------------------------------------------------
(* The theorems. *)

\* The stream, the directory and the history hang together as LogInv says.
THEOREM LoggerInvariant == Spec => []LogInv
<1> QED
  BY InitLogInv, NextLogInv, PTL DEF Spec

\* The variables of the logger keep their types.
THEOREM LoggerTypeCorrect == Spec => []TypeOK
<1>1. LogInv => TypeOK
  BY DEF LogInv
<1> QED
  BY <1>1, LoggerInvariant, PTL

\* A line stands in the file of the day on which it was written.
THEOREM LinesInFileOfTheirDay == Spec => []RightFile
<1>1. LogInv => RightFile
  BY DEF LogInv
<1> QED
  BY <1>1, LoggerInvariant, PTL

\* Only a kill, or a file that cannot be opened, loses a line.
THEOREM NoLineLost == Spec => []OnlyKillsLose
<1>1. LogInv => OnlyKillsLose
  BY DEF LogInv
<1> QED
  BY <1>1, LoggerInvariant, PTL

\* No run of the program overwrites what an earlier one has logged.
THEOREM FilesAreKept == Spec => FilesOnlyGrow
<1>1. LogInv /\ [Next]_vars =>
         [\A day \in DOMAIN files : day \in DOMAIN files' /\ IsPrefix(files[day], files'[day])]_vars
  BY StepOnlyGrows
<1> QED
  BY <1>1, LoggerInvariant, PTL DEF Spec, FilesOnlyGrow
=============================================================================
