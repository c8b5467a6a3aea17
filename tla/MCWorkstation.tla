---------------------------- MODULE MCWorkstation ----------------------------
(* Instances of Workstation for TLC: one terminal and three daemons, and a   *)
(* launch of two profiles next to every other command on one of them.        *)
EXTENDS Workstation

CONSTANTS c1, d1, d2, d3, p1, p2

Run(kind, profiles) ==
    [kind |-> kind, profiles |-> profiles, strict |-> TRUE, skipAuth |-> FALSE, wait |-> TRUE,
     replace |-> TRUE]

Commands ==
    {Run("launch", <<p1, p2>>), [Run("launch", <<p1>>) EXCEPT !.strict = FALSE],
     [Run("launch", <<p2>>) EXCEPT !.skipAuth = TRUE],
     Run("up", <<p1>>), [Run("up", <<p2, p1>>) EXCEPT !.wait = FALSE],
     Run("down", <<p1, p2>>), Run("register", <<p1>>),
     [Run("register", <<p2>>) EXCEPT !.replace = FALSE]}
=============================================================================
