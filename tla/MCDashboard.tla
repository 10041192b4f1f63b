---------------------------- MODULE MCDashboard ----------------------------
(***************************************************************************)
(* Dashboard with files of one name in different directories.              *)
(***************************************************************************)
EXTENDS Dashboard

CONSTANT shared

MCName == [f \in Files |-> shared]
=============================================================================
