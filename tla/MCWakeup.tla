----------------------------- MODULE MCWakeup -------------------------------
(***************************************************************************)
(* Small instances of WorkerWakeup.                                        *)
(***************************************************************************)
EXTENDS WorkerWakeup

Shape(schedulers, workers, location) ==
    [schedulers |-> schedulers, workers |-> workers, location |-> location]

\* Two schedulers side by side, and one with two workers, both with buffers on
\* the DPA heap and in host memory.
SmallShapes == {Shape(2, 1, 0), Shape(1, 2, 0), Shape(2, 1, 1), Shape(1, 2, 1)}

OneOnHost == {Shape(1, 1, 1)}
=============================================================================
