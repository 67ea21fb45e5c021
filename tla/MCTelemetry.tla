---------------------------- MODULE MCTelemetry -----------------------------
(***************************************************************************)
(* An instance of Telemetry and HkEpoch for TLC: two uses of the packets   *)
(* the sniffer receives that have no state in common.  A behaviour of this *)
(* module is one of the two.                                               *)
(***************************************************************************)
EXTENDS Telemetry

CONSTANTS Nodes, Params, MAX_HKS, Y2020, DAY, HkStamps, Values, EpochArgs, Now0, MaxNow

VARIABLES hks, timesync_nodes, pc, arg, row, hk_stamp, local_epoch, logged, set_by, hk_raced, now

H == INSTANCE HkEpoch WITH Stamps <- HkStamps, stamp <- hk_stamp, raced <- hk_raced

ASSUME HkAssumption == H!HkAssumption

hkVars == <<hks, timesync_nodes, pc, arg, row, hk_stamp, local_epoch, logged, set_by, hk_raced, now>>

MCNext ==
  \/ H!Init /\ Next /\ UNCHANGED hkVars
  \/ Init /\ H!Next /\ UNCHANGED vars

MCInit == Init /\ H!Init

MCSpec == MCInit /\ [][MCNext]_<<vars, hkVars>>

(* The properties of HkEpoch.                                              *)
(* The epoch table is right unless two threads met in hk_set_epoch.        *)
TableRightUnlessRaced == H!TableRightUnlessRaced

(* No illegal epoch is stored by hk_set_epoch, no sample logged before     *)
(* 2020 by hk_param_sniffer.                                               *)
TableLegal == H!TableLegal

(* hk_set_epoch never moves an epoch back by more than a day on its own.   *)
AutoSyncNeverBack == H!AutoSyncNeverBack

(* bound: TLC does not look beyond the state in which a race of the two    *)
(* threads has overflowed the table.                                       *)
WithinTable == Len(hks) <= MAX_HKS
=============================================================================
