---------------------------- MODULE RetryPolicy ----------------------------
(***************************************************************************)
(* What the retry machinery of protocol.WAClient promises, without locks,  *)
(* contexts or a slot: retry goroutines come and go, and at most one of    *)
(* them is in charge of the connection. A goroutine that was relieved may  *)
(* still run for a while, but it is never put in charge again, and the     *)
(* next one is put in charge only when nobody is.                          *)
(***************************************************************************)
CONSTANT Loops

VARIABLE role       \* role[l]: what retry goroutine l is

Roles == {"absent", "inCharge", "relieved"}

InCharge == {l \in Loops : role[l] = "inCharge"}

Init == role = [l \in Loops |-> "absent"]

(* A lost connection: somebody takes charge if nobody is in charge *)
Appoint(l) ==
    /\ role[l] = "absent"
    /\ InCharge = {}
    /\ role' = [role EXCEPT ![l] = "inCharge"]

(* StopReconnect: whoever is in charge is relieved *)
Relieve(l) ==
    /\ role[l] = "inCharge"
    /\ role' = [role EXCEPT ![l] = "relieved"]

(* A goroutine returns, and relieves whoever is in charge by then *)
Leave(l) ==
    /\ role[l] # "absent"
    /\ role' = [m \in Loops |-> IF m = l THEN "absent"
                                ELSE IF role[m] = "inCharge" THEN "relieved" ELSE role[m]]

Next == \E l \in Loops : Appoint(l) \/ Relieve(l) \/ Leave(l)

Spec == Init /\ [][Next]_role

=============================================================================
