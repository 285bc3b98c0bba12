----------------------------- MODULE MCServeRun -----------------------------
(* A run on a clock whose unit stands for about half a minute: one that is *)
(* to be restarted, one that also stops when idle, one that only does, and *)
(* one whose limit was set below 0, which is no 0.                         *)
EXTENDS ServeRun

MCLimits ==
    {[max_runtime |-> 4, idle_timeout |-> 0],
     [max_runtime |-> 4, idle_timeout |-> 2],
     [max_runtime |-> 0, idle_timeout |-> 2],
     [max_runtime |-> -1, idle_timeout |-> 0]}

=============================================================================
