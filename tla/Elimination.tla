----------------------------- MODULE Elimination -----------------------------
(***************************************************************************)
(* What a numeric factorization of the assembly forest promises, whichever *)
(* algorithm and however many threads carry it out: a supernode is         *)
(* eliminated at most once per factorization and only after all of its     *)
(* children; success is reported only when every supernode is eliminated,  *)
(* failure only for an input that has a supernode without a Cholesky       *)
(* factor.  The values of the matrix are abstracted to the set of          *)
(* supernodes whose diagonal block is found not to be positive definite.   *)
(***************************************************************************)
EXTENDS FiniteSets

CONSTANTS Supernode, Children(_)

VARIABLES
    eliminated,         \* the supernodes whose front is complete
    indefinite,         \* the supernodes on which this input breaks down
    outcome             \* "none" before the first call, then its result

absVars == <<eliminated, indefinite, outcome>>

AbsInit ==
    /\ eliminated = {}
    /\ indefinite = {}
    /\ outcome = "none"

\* A new matrix with the same sparsity pattern is handed in.
Begin ==
    /\ outcome # "running"
    /\ outcome' = "running"
    /\ indefinite' \in SUBSET Supernode
    /\ eliminated' = {}

Eliminate(s) ==
    /\ outcome = "running"
    /\ s \notin eliminated \cup indefinite
    /\ Children(s) \subseteq eliminated
    /\ eliminated' = eliminated \cup {s}
    /\ UNCHANGED <<indefinite, outcome>>

Succeed ==
    /\ outcome = "running"
    /\ eliminated = Supernode
    /\ outcome' = "success"
    /\ UNCHANGED <<eliminated, indefinite>>

Fail ==
    /\ outcome = "running"
    /\ indefinite # {}
    /\ outcome' = "failure"
    /\ UNCHANGED <<eliminated, indefinite>>

AbsNext == Begin \/ (\E s \in Supernode : Eliminate(s)) \/ Succeed \/ Fail

AbsSpec == AbsInit /\ [][AbsNext]_absVars

\* Every call of the factorization routine returns.
Returns == outcome = "running" ~> outcome # "running"
=============================================================================
