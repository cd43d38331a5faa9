-------------------------------- MODULE MCResume --------------------------------
(* Resume on a small instance: three steps, three launches, so that a run   *)
(* may go down twice, the second time while it repairs the first.           *)
EXTENDS Resume

MCIntervals == {1, 2}
MCKeepLasts == {0, 1, 2}
=============================================================================
