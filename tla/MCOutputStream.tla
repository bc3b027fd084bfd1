--------------------------- MODULE MCOutputStream ---------------------------
(* Small instances of OutputStream for TLC.                                *)
EXTENDS OutputStreamClaims, TLC

\* StreamOutput calls are interchangeable.
ReaderSymmetry == Permutations(Readers)
==============================================================================
