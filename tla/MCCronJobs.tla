----------------------------- MODULE MCCronJobs -----------------------------
(* Small instances of CronJobs for TLC.                                    *)
EXTENDS CronJobs, TLC

CONSTANTS p1, p2, s1, d1, d2, d3, j1, j2

\* d1 is the better device; every process has a device id of its own.
MCIdOf == [p \in Processes |-> ((p1 :> d1) @@ (p2 :> d2) @@ (s1 :> d3))[p]]

MCRank == [d \in Devices |-> ((d1 :> 1) @@ (d2 :> 2) @@ (d3 :> 3))[d]]

\* An interval that a run in the first minute does not let elapse, a minute that
\* may pass before a claim, and the last minute, before which a session may run it.
MCSchedules == {[every |-> 2], [minutes |-> {1}], [minutes |-> {2}]}

MCAnyDevice == [j \in Jobs |-> {}]
=============================================================================
