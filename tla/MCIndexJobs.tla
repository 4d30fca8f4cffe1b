---------------------------- MODULE MCIndexJobs ----------------------------
(* Two sources, two workers: a project job or a source's job at a time. *)
EXTENDS IndexJobs

CONSTANTS w1, w2

TwoWorkers == {w1, w2}
TwoSources == {1, 2}

=============================================================================
