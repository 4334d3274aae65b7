-------------------------- MODULE MCCertLifecycle --------------------------
(***************************************************************************)
(* Instances of CertLifecycle for TLC.                                     *)
(***************************************************************************)
EXTENDS CertLifecycle, TLC

\* Handlers and bundle names are interchangeable in every safety property.
Symmetry == Permutations(Threads) \cup Permutations(Names)
=============================================================================
