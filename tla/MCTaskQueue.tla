---------------------------- MODULE MCTaskQueue ----------------------------
(***************************************************************************)
(* Small instances of TaskQueue: days of three hours of two units and a    *)
(* task that is hourly or daily; and days of 24 hours of a unit each, with *)
(* a task for 3 o'clock.                                                   *)
(***************************************************************************)
EXTENDS TaskQueue

MCHours == {Every, 1}
MCThree == {3}
MCHourly == {Every}
=============================================================================
