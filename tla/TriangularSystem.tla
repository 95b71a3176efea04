-------------------------- MODULE TriangularSystem --------------------------
(***************************************************************************)
(* What a solve with a factored matrix promises, however many threads      *)
(* carry it out: the unknowns of a supernode are eliminated forward after  *)
(* those of every supernode that updates them, and substituted backward    *)
(* after those of every supernode they depend on, each exactly once.       *)
(***************************************************************************)
CONSTANTS
    Supernode,
    Structure           \* Structure[s]: the supernodes that s updates

VARIABLES
    x,                  \* per supernode: given, forward, scaled, solved
    busy                \* a solve is in progress

absVars == <<x, busy>>

AbsInit == x = [s \in Supernode |-> "solved"] /\ busy = FALSE

\* A right-hand side is handed in.
Begin ==
    /\ ~busy
    /\ busy' = TRUE
    /\ x' = [s \in Supernode |-> "given"]

Forward(s) ==
    /\ busy
    /\ x[s] = "given"
    /\ \A d \in Supernode : s \in Structure[d] => x[d] = "forward"
    /\ x' = [x EXCEPT ![s] = "forward"]
    /\ UNCHANGED busy

Scale ==
    /\ busy
    /\ \A s \in Supernode : x[s] = "forward"
    /\ x' = [s \in Supernode |-> "scaled"]
    /\ UNCHANGED busy

Backward(s) ==
    /\ busy
    /\ x[s] = "scaled"
    /\ \A t \in Structure[s] : x[t] = "solved"
    /\ x' = [x EXCEPT ![s] = "solved"]
    /\ UNCHANGED busy

Return ==
    /\ busy
    /\ \A s \in Supernode : x[s] = "solved"
    /\ busy' = FALSE
    /\ UNCHANGED x

AbsNext ==
    Begin \/ Scale \/ Return \/ \E s \in Supernode : Forward(s) \/ Backward(s)

AbsSpec == AbsInit /\ [][AbsNext]_absVars
=============================================================================
