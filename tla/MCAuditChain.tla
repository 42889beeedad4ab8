----------------------------- MODULE MCAuditChain -----------------------------
(* Instances of AuditChain for TLC.                                           *)
EXTENDS AuditChain, TLC

CONSTANTS w1, w2, d1

\* Sessions of one kind are interchangeable.
Symmetry == Permutations(Sessions \ Direct)
================================================================================
