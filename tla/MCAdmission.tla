---------------------------- MODULE MCAdmission -----------------------------
(* A small instance of Admission for TLC. *)
EXTENDS Admission, TLC

Symmetry == Permutations(Ids) \cup Permutations(Permits)
              \cup Permutations(PermitCalls)
=============================================================================
