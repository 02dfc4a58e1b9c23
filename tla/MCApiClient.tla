---------------------------- MODULE MCApiClient -----------------------------
(* Small instances of ApiClient for TLC.                                   *)
EXTENDS ApiClient

CONSTANTS c1, c2, s404, s500

=============================================================================
