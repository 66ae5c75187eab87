--------------------------- MODULE MCMappingLoader ---------------------------
(* One URL with a broken release between good ones, and two further starts   *)
(* of the process; or two URLs, between which the configuration changes.     *)
EXTENDS MappingLoader

CONSTANTS u1, u2

OneUrl == {u1}
TwoUrls == {u1, u2}
=============================================================================
