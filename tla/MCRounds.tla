------------------------------ MODULE MCRounds ------------------------------
(***************************************************************************)
(* Rounds on small sets of clients.  The clients are interchangeable: no   *)
(* property of the runs that use Symmetry is a liveness property.          *)
(***************************************************************************)
EXTENDS Rounds, TLC

Symmetry == Permutations(Client)

NoLimit == -1

=============================================================================
