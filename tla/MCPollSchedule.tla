---------------------------- MODULE MCPollSchedule ----------------------------
(***************************************************************************)
(* Instances of PollSchedule for TLC.  Timeout and FastFor are shorter     *)
(* than in the code, the times that must fit the window are the code's.    *)
(***************************************************************************)
EXTENDS PollSchedule, TLC

\* The times of the code, which are related the way the theorems of
\* PollScheduleProofs ask for; so are those of the instance.
InCode == INSTANCE PollSchedule WITH
    Window <- 10, Timeout <- 180, Fast <- 2, Slow <- 10, FastFor <- 300,
    PageEvery <- 2, Boot <- 1, Latency <- 3
ASSUME TimesOfTheCode == InCode!FastUntilDone /\ InCode!ChecksOften
ASSUME TimesOfTheInstance == FastUntilDone /\ ChecksOften

\* The commands are started and work alike.
Symmetry == Permutations(Cmds)
=============================================================================
