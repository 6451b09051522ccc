---------------------------- MODULE MCLocateBase ----------------------------
(* Instances of LocateBase for TLC. *)
EXTENDS LocateBase

T(time, station, value) == [time |-> time, stationID |-> station, Value |-> value]

\* Stations 3 ms apart, but for 1 and 9, and 2 and 5, which are 1 ms apart: the
\* second trigger of 2 is incoherent with that of 5.
MCStation  == 1 .. 9
MCSiteTime == [s \in MCStation |-> [r \in MCStation |->
                 IF s = r THEN 0 ELSE IF {s, r} \in {{1, 9}, {2, 5}} THEN 10 ELSE 30]]

\* One lightning seen by nine stations.  Station 2 triggers twice, station 3 sees a
\* pulse of the other polarity, station 9 triggers close to the base and too late
\* for it, and two triggers follow after the full minute, one of them within the
\* baseline.
MCTrigger ==
    {T(599960, 1, 1), T(599964, 2, 1), T(599986, 2, 1), T(599966, 3, -1), T(599968, 4, 1),
     T(599970, 9, 1), T(599972, 5, 1), T(599974, 6, 1), T(599976, 7, 1), T(599978, 8, 1),
     T(599980, 3, 1), T(599985, 9, 1), T(600002, 4, 1), T(600030, 5, 1)}

\* A lightning whose first arrival is 0.4 ms after a full minute, and one whose
\* arrivals lie on both sides of it.
AfterMinute  == {T(1200002 + 2 * s, s, 1) : s \in 1 .. 7}
AroundMinute == {T(1199992 + 2 * s, s, 1) : s \in 1 .. 7}

\* The deque lacks one or two of the triggers, or ends early.
MCDeques ==
    {MCTrigger \ {t} : t \in MCTrigger} \cup {MCTrigger \ {Front(MCTrigger), t} : t \in MCTrigger}
      \cup {{t \in MCTrigger : t.time <= last.time} : last \in MCTrigger}
      \cup {AfterMinute, AroundMinute}
AllTrigger == MCTrigger \cup AfterMinute \cup AroundMinute

\* Three stations share a bucket of eight, two of them one of sixteen, and the last
\* bucket overflows to the first.
MCHash == <<15, 7, 23, 14, 0, 31, 30, 2, 47>>

\* At once, and 0.6 ms.
MCDelays == {0, 6}

\* Not the stations of the first triggers.
MCGains == {2, 3, 5, 6}
=============================================================================
