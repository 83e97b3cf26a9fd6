--------------------------- MODULE MCTaskControl ---------------------------
(* TaskControl as the .cfg files of its runs instantiate it. *)
EXTENDS TaskControl, TLC

\* Every task, schedule and manual run of these instances collects one source.
OneSource == [k \in Keys |-> "source"]

\* Workers are interchangeable; only used where no liveness is checked.
WorkerSymmetry == Permutations(Workers)
=============================================================================
