-------------------------- MODULE MCPmTableWindows --------------------------
(* An instance of PmTableWindows: one version is in TABLE_SIZES, the other *)
(* is not.                                                                 *)
EXTENDS PmTableWindows

MCSize == [v \in Version |-> IF v = 1 THEN 7 ELSE Default]
=============================================================================
