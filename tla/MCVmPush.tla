------------------------------ MODULE MCVmPush ------------------------------
(* The Victoria Metrics exporter on small instances.                       *)
EXTENDS VmPush
=============================================================================
