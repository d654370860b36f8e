-------------------------- MODULE MCKycVerification --------------------------
(* Small instances of KycVerification for TLC.                             *)
EXTENDS KycVerification, TLC

\* Requests, goroutines and outside deliveries are interchangeable. Used only
\* where no liveness property is checked.
Symmetry == Permutations(Requests) \cup Permutations(Goroutines)

=============================================================================
