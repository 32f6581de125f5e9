--------------------------- MODULE MCParallelFetch ---------------------------
(* Constants for the runs of ParallelFetch. *)
EXTENDS ParallelFetch

\* Background workers are numbered from 1; 0 is worker 0, on the main thread.
MCWorkers == {1}
=============================================================================
