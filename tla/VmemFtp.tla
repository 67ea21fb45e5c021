------------------------------ MODULE VmemFtp -------------------------------
(***************************************************************************)
(* Downloads and uploads of one shell session                              *)
(* (src/vmem_client_slash_ftp.c): the shell runs one command at a time,    *)
(* and the commands meet in the RDP options, which each of them sets,      *)
(* restores or leaves behind.                                              *)
(***************************************************************************)
EXTENDS VmemDownload

CONSTANTS
  FileSize,          (* bytes of the file that is uploaded                 *)
  VMEM_SERVER_MTU    (* bytes per packet                                   *)

ASSUME UploadAssumption == FileSize \in Nat /\ VMEM_SERVER_MTU \in Nat \ {0}

VARIABLES written, up_offset, suggested, up_pc, up_result, used

U == INSTANCE VmemUpload WITH offset <- up_offset, pc <- up_pc, result <- up_result

upVars  == <<written, up_offset, suggested, up_pc, up_result, used>>
ftpVars == <<vars, upVars>>

FtpInit == Init /\ U!Init

FtpNext ==
  \/ up_pc = "idle" /\ Next /\ UNCHANGED upVars
  \/ pc = "idle" /\ U!Next /\ UNCHANGED <<fileVars, cmdVars>>

FtpSpec == FtpInit /\ [][FtpNext]_ftpVars

-----------------------------------------------------------------------------
(* Properties of the uploads of a session.                                 *)

(* Resuming an upload where the previous one suggested leaves no hole, and *)
(* one that reports success leaves only its own last window in doubt, also *)
(* when downloads and `rdp opt` have changed the options in between        *)
(* (slash_vmem upload computes the offset from the options in force).      *)
NoHole == U!NoHole
=============================================================================
