---------------------------- MODULE MCAxmlWalk ----------------------------
(***************************************************************************)
(* Short data for TLC: a chunk header is 2 bytes, a pool header 3, an      *)
(* element 4, an offset 1; sizes and offsets reach past the data.          *)
(***************************************************************************)
EXTENDS AxmlWalk, TLC

mcBaseOf == ("a/" :> "a")
mcAuditOf == [n \in Name |-> << >>]
============================================================================
