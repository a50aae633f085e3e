------------------------------ MODULE MCMirror ------------------------------
(* A small instance of Mirror for TLC.  With room for one item, three files *)
(* make the walk stand at a full channel; one file written to twice, or     *)
(* once under two calls, shows torn and regressed copies; two calls over    *)
(* two files meet, are stopped and leave copies behind.                     *)
EXTENDS Mirror

CONSTANTS f1, f2, f3

MCPlays ==
    { [files |-> {f1, f2, f3}, edited |-> {f1}, writes |-> 1, starts |-> 1, troubles |-> 1],
      [files |-> {f1}, edited |-> {f1}, writes |-> 2, starts |-> 1, troubles |-> 1],
      [files |-> {f1}, edited |-> {f1}, writes |-> 1, starts |-> 2, troubles |-> 1],
      [files |-> {f1, f2}, edited |-> {}, writes |-> 0, starts |-> 2, troubles |-> 1] }
=============================================================================
