------------------------- MODULE MCResultPublisher -------------------------
(* Instances of ResultPublisher for TLC. *)
EXTENDS ResultPublisher

CONSTANTS t1, t2
MCTask == {t1, t2}

Config(mode, db, mqtt, warning) ==
    [mode |-> mode, OutputDataBase |-> db, OutputMQTT |-> mqtt, OutputWarningMQTT |-> warning]

\* Both modes with every output, and each mode without some of them.
MCConfigs ==
    {Config("realTime", TRUE, TRUE, TRUE), Config("realTime", TRUE, FALSE, TRUE),
     Config("realTime", FALSE, TRUE, FALSE), Config("reProcess", TRUE, TRUE, TRUE),
     Config("reProcess", FALSE, FALSE, TRUE)}
=============================================================================
