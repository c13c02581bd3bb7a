-------------------------- MODULE MCCronSchedule --------------------------
(* A small instance of CronSchedule: a tick is two minutes.                *)
EXTENDS CronSchedule, TLC

CONSTANTS hourly, often, b1, b2

MCSchedules == {hourly, often}
MCOccurrences == [s \in MCSchedules |-> IF s = hourly THEN {4} ELSE {6, 8}]
MCBuilds == {b1, b2}
MCSymmetry == Permutations(MCBuilds)

=============================================================================
