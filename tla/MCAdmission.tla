----------------------------- MODULE MCAdmission -----------------------------
(* Two people, each founding a company and able to join the other's, and   *)
(* operators throwing the switches meanwhile.                              *)
EXTENDS Admission, TLC

Interchangeable == Permutations(Users) \cup Permutations(Requests) \cup Permutations(Operators)

=============================================================================
