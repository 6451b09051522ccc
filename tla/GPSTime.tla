------------------------------ MODULE GPSTime ------------------------------
(***************************************************************************)
(* The time arithmetic of struct GPSTime (include/DataStruct.h) and of     *)
(* CGPSTimeAlgorithm (include/GPSTimeAlgorithm.h).                         *)
(*                                                                         *)
(* A GPSTime is a natural number of ticks of 0.1 ms, the tolerance that    *)
(* the program adds to every comparison of arrival times.  The broken-down *)
(* fields that the source stores are recovered by division; m_Day counts   *)
(* whole days, so the month and year fields (whose weights 1e8 and 1e10    *)
(* have the same shape) are folded into it.  The zero GPSTime() is 0.      *)
(***************************************************************************)
EXTENDS Integers

TicksPerSecond == 10000

\* The fields of a GPSTime that counts sec whole seconds.
m_Sec(sec)  == sec % 60
m_Min(sec)  == (sec \div 60) % 60
m_Hour(sec) == (sec \div 3600) % 24
m_Day(sec)  == sec \div 86400

m_ActPointSec(t) == t % TicksPerSecond

\* The fields of a time up to m_Sec, as whole seconds.
WholeSeconds(t) == t \div TicksPerSecond

\* The sum of the fields with the weights that operator- gives them.
Weighted(sec) ==
    m_Day(sec) * 1000000 + m_Hour(sec) * 10000 + m_Min(sec) * 100 + m_Sec(sec)

\* Mutant of Minus: the real difference.
MinusExact(t1, t2) == t1 - t2

\* operator-: "seconds" between two times, here in ticks.  The two branches of
\* the source (same second or not) are this one formula.
Minus(t1, t2) ==
    (Weighted(WholeSeconds(t1)) - Weighted(WholeSeconds(t2)))
        * TicksPerSecond
    + m_ActPointSec(t1) - m_ActPointSec(t2)

\* A GPSTime from whole seconds and a fraction.
FromFields(sec, act) == sec * TicksPerSecond + act

\* Normalises a fraction that left [0, 1): (int) truncates towards zero and
\* fmod keeps the sign, hence the separate branch for a negative fraction.
GPSTimeCarrtOneSecond(sec, act) ==
    IF act >= TicksPerSecond
    THEN FromFields(sec + (act \div TicksPerSecond), act % TicksPerSecond)
    ELSE IF act < 0
    THEN LET fraction == TicksPerSecond - ((-act) % TicksPerSecond)
             DSeconds == -((-act) \div TicksPerSecond) - 1
         IN  IF fraction = TicksPerSecond
             THEN FromFields(sec + DSeconds + 1, 0)
             ELSE FromFields(sec + DSeconds, fraction)
    ELSE FromFields(sec, act)

\* The carry is taken only when the fraction left [0, 1); otherwise the carry
\* function is the identity, so one call stands for both branches.
AddActPointSec(t, ticks) ==
    GPSTimeCarrtOneSecond(WholeSeconds(t), m_ActPointSec(t) + ticks)

\* operator+= with a Duration of whole minutes.
AddMinutes(t, minutes) ==
    FromFields(WholeSeconds(t) + 60 * minutes, m_ActPointSec(t))

\* m_Sec + m_ActPointSec, what the solver gets of a time.
SecondsOfMinute(t) == t % (60 * TicksPerSecond)

\* Mutant of set_second: the fraction is corrected, the second is not.
set_second_in_place(t, sec) ==
    IF sec < 0
    THEN FromFields(WholeSeconds(t), sec + TicksPerSecond)
    ELSE FromFields(WholeSeconds(t - SecondsOfMinute(t)) + sec \div TicksPerSecond,
                    sec % TicksPerSecond)

\* The second of t becomes sec.  A negative sec goes back one second from t, via
\* mktime and localtime, which undo each other.  (int) truncates; at 60 and above
\* m_Sec would leave its range, which no caller reaches.
set_second(t, sec) ==
    IF sec < 0
    THEN FromFields(WholeSeconds(t) - 1, sec + TicksPerSecond)
    ELSE FromFields(WholeSeconds(t - SecondsOfMinute(t)) + sec \div TicksPerSecond,
                    sec % TicksPerSecond)
=============================================================================
