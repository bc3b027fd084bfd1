----------------------------- MODULE MCServerRun -----------------------------
(* Small instances of ServerRun for TLC.                                   *)
EXTENDS ServerRunClaims, TLC

\* Job IDs are interchangeable, and so are clients.
JobClientSymmetry == Permutations(Jobs) \cup Permutations(Clients)
==============================================================================
