--------------------------- MODULE MCLigPipeline ---------------------------
(* Instances of LigPipeline for TLC. *)
EXTENDS LigPipeline

T(time, station, value) == [time |-> time, stationID |-> station, Value |-> value]

\* Every pair of distinct stations is 2 ms (20 ticks) apart.
MCStation  == 1 .. 3
MCSiteTime == [s \in MCStation |-> [r \in MCStation |-> IF s = r THEN 0 ELSE 20]]

\* One lightning seen by three stations, station 2 twice, and a trigger exactly
\* one baseline (50 ticks) after the first.
MCTrigger ==
    {T(300000, 1, 1), T(300010, 2, 1), T(300012, 3, 1), T(300018, 2, 1), T(300050, 1, 1)}
MCBatches == {{}, MCTrigger,
    {T(300000, 1, 1)},
    {T(300010, 2, 1), T(300050, 1, 1)},
    {T(300000, 1, 1), T(300012, 3, 1), T(300018, 2, 1)}}

\* Two stations see one lightning on either side of a full minute.
MinuteTrigger == {T(599995, 1, 1), T(600005, 2, 1), T(600012, 3, 1)}
MinuteBatches == {{}, MinuteTrigger}

\* One lightning seen by two stations.
PairTrigger == {T(300000, 1, 1), T(300010, 2, 1)}
PairBatches == {{}, PairTrigger}

\* Five stations see two lightnings 1 ms apart; the first station sees one of them twice,
\* within the tolerance.
FiveStations == 1 .. 5
FiveSiteTime == [s \in FiveStations |-> [r \in FiveStations |-> IF s = r THEN 0 ELSE 30]]
FiveTrigger  == {T(300000 + s, s, 1) : s \in FiveStations}
                  \cup {T(300010 + s, s, 1) : s \in FiveStations} \cup {T(300002, 1, 1)}
FiveBatches  == {{}, FiveTrigger}

\* Historical windows of 20 minutes from 00:10:30 to 00:55:00: triggers at the
\* start, around the end of the first window, at the end, and beyond it.
ReTrigger ==
    {T(6300000, 1, 1), T(18299990, 1, 1), T(18300000, 2, 1), T(33000000, 3, 0),
     T(33000001, 1, 1)}
ReBatches ==
    {{}, {T(6300000, 1, 1)}, {T(18300000, 2, 1)}, {T(18299990, 1, 1), T(18300000, 2, 1)},
     {T(6300000, 1, 1), T(18300000, 2, 1)}, {T(33000000, 3, 0), T(33000001, 1, 1)}}
=============================================================================
