---------------------------- MODULE MCCloudWorker ----------------------------
(***************************************************************************)
(* Instances of CloudWorker for TLC.                                       *)
(***************************************************************************)
EXTENDS CloudWorker, TLC

\* The jobs of an instance are interchangeable unless one is Unsupported, and so
\* are its requests; symmetry is used where only safety is checked.
JobSymmetry == Permutations(Jobs)
RequestSymmetry == Permutations(Requests)

AllFaults == {"process", "api", "db", "terminate", "launch"}
=============================================================================
