--------------------------- MODULE MCCredentials ---------------------------
(* Two DatabaseInstances share one directory.  The identities are          *)
(* interchangeable.                                                        *)
EXTENDS CredentialStorage, TLC

MCSymmetry == Permutations(Ids)
=============================================================================
