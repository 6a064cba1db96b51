------------------------------- MODULE MCSap -------------------------------
(* Small instances of Sap: threads of the vendor RIL are alike, and tokens.*)
EXTENDS Sap

Symmetry == Permutations(Vendors) \cup Permutations(Tokens)
=============================================================================
