------------------------------- MODULE MCUiJobs -------------------------------
(* Instances of UiJobs.                                                    *)
EXTENDS UiJobs
CONSTANTS j1, j2, j3, s1, s2, q1
=============================================================================
