------------------------------ MODULE MCFiles -------------------------------
(***************************************************************************)
(* An instance of VmemFtp and Environment for TLC: two parts of a shell    *)
(* session that leave files behind, which a later command or the next      *)
(* start of csh reads.  They have no state in common; a behaviour of this  *)
(* module is one of the two.                                               *)
(***************************************************************************)
EXTENDS VmemFtp

CONSTANTS Nodes, HostNames, UserVars, UserValues, Scripts, DirOf(_), MaxDepth, MaxFailures

VARIABLES csh_env, known_hosts, slash_dfl_node, runs, hosts_file, saved, saved_hosts,
          phase, changed, failures

E == INSTANCE Environment

ASSUME EnvironmentAssumption == E!EnvironmentAssumption

envVars == <<csh_env, known_hosts, slash_dfl_node, runs, hosts_file, saved, saved_hosts,
             phase, changed, failures>>

-----------------------------------------------------------------------------
MCInit == FtpInit /\ E!Init

MCNext ==
  \/ E!Init /\ FtpNext /\ UNCHANGED envVars
  \/ FtpInit /\ E!Next /\ UNCHANGED ftpVars

MCSpec == MCInit /\ [][MCNext]_<<ftpVars, envVars>>

(* The properties of Environment.                                          *)
(* A node has one name (known_hosts_add), and the names of nodes survive a *)
(* save and a restart (node_save, main).                                   *)
NodesSurviveRestart == E!NodesSurviveRestart

(* __FILE__ names the innermost running script (slash_on_run_pre_hook).    *)
FileIsInnermost == E!FileIsInnermost

-----------------------------------------------------------------------------
(* The directory of a script.                                              *)
Directory(script) == IF script = "" THEN "" ELSE "dir_of_" \o script

(* bound: how long the file may grow when a stale status file makes the    *)
(* same bytes be appended again and again                                  *)
MaxFile   == 4
ShortFile == Len(file) <= MaxFile
=============================================================================
