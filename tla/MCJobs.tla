------------------------------- MODULE MCJobs -------------------------------
(* Constants of the runs of Jobs.                                          *)
EXTENDS Jobs

CONSTANTS j1, j2, j3, v1

MCJob == {j1, j2, j3}
MCVendor == {v1}
=============================================================================
