----------------------- MODULE MCSigningBlockReader -----------------------
(***************************************************************************)
(* Small widths for TLC: a field is 1 or 2 bytes long and 2^63 is 32, so   *)
(* that the sizes that wrap are among the values read.                     *)
(***************************************************************************)
EXTENDS SigningBlockReader, TLC

mcBaseOf == ("a/" :> "a")
mcAuditOf == [n \in Name |-> << >>]
============================================================================
