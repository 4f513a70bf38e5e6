---------------------------- MODULE SingleDaemon ----------------------------
(***************************************************************************)
(* What the daemon's start promises to the frontends, whoever starts how   *)
(* many daemons when: at most one of them serves the D-Bus name, and it    *)
(* does so on a database that has every column its statements name. A      *)
(* database that has them keeps them.                                      *)
(***************************************************************************)
CONSTANT Daemons

VARIABLES
    serving,        \* the daemons that serve
    complete        \* the database has every column

vars == <<serving, complete>>

Init == serving = {} /\ complete \in BOOLEAN

Complete ==
    /\ ~complete
    /\ complete' = TRUE
    /\ UNCHANGED serving

Serve(d) ==
    /\ serving = {} /\ complete
    /\ serving' = {d}
    /\ UNCHANGED complete

Stop(d) ==
    /\ serving = {d}
    /\ serving' = {}
    /\ UNCHANGED complete

Next == Complete \/ \E d \in Daemons : Serve(d) \/ Stop(d)

Spec == Init /\ [][Next]_vars

=============================================================================
