------------------------------ MODULE MCHost --------------------------------
(***************************************************************************)
(* Small instances of HostLifecycle.                                       *)
(***************************************************************************)
EXTENDS HostLifecycle

Opt(schedulers, workers, location, copy) ==
    [scheduler_num |-> schedulers, threads_num_per_scheduler |-> workers,
     begin_schedr |-> 0, begin_worker |-> 2, worker_given |-> TRUE,
     buffer_location |-> location, use_copy |-> copy]

AllPlaces == {Opt(1, 1, l, u) : l \in {0, 1}, u \in {0, 1}}

\* Schedulers and workers side by side; more workers than a scheduler has queues
\* for; workers told to begin where a scheduler may be; schedulers that begin
\* where the workers do.
SmallHosts ==
    AllPlaces
    \cup {Opt(2, 1, 0, 1), Opt(1, 2, 1, 1), Opt(1, 3, 0, 1)}
    \cup {[Opt(1, 1, 0, 1) EXCEPT !.begin_worker = w] : w \in {0, 1}}
    \cup {[Opt(1, 1, 0, 1) EXCEPT !.begin_schedr = 2, !.worker_given = FALSE]}
=============================================================================
