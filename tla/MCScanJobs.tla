----------------------------- MODULE MCScanJobs -----------------------------
(***************************************************************************)
(* ScanJobs on small instances.  No symmetry: EveryJobTaken is a liveness  *)
(* property.                                                               *)
(***************************************************************************)
EXTENDS ScanJobs
=============================================================================
