----------------------------- MODULE VmemUpload -----------------------------
(***************************************************************************)
(* The upload command and its advice where to resume                       *)
(* (src/vmem_client_slash_ftp.c).  vmem_upload returns how many bytes it   *)
(* handed to RDP; of those the last ones may still be in flight when the   *)
(* connection breaks, so the command suggests an offset one window and one *)
(* packet earlier.                                                         *)
(*                                                                         *)
(* The transfer is external: packets of at most VMEM_SERVER_MTU bytes,     *)
(* delivered in order, with at most a window of them unacknowledged.       *)
(***************************************************************************)
EXTENDS RdpOptions, FiniteSets

CONSTANTS
  FileSize,          (* bytes of the file                                  *)
  VMEM_SERVER_MTU    (* bytes per packet                                   *)

VARIABLES
  written,    (* bytes of the file the node has stored, as positions       *)
  offset,     (* -o of the command being run                               *)
  suggested,  (* the offset the last broken upload suggested               *)
  pc,         (* where the command is                                      *)
  result,     (* what the last command returned                            *)
  used        (* history: the window of the last transfer                  *)

vars == <<written, offset, suggested, pc, result, used, rdpVars>>

Init ==
  /\ written = {} /\ offset = 0 /\ suggested = 0
  /\ pc = "idle" /\ result = "none" /\ used = 0
  /\ RdpInit

(* Returns before the transfer: an unknown option leaves csp alone, a      *)
(* missing or malformed argument or file leaves the options in force.      *)
EarlyReturn(given) ==
  /\ pc = "idle"
  /\ rdp_opt_add(given) /\ UNCHANGED rdp_dfl
  /\ rdp_opt_set \/ UNCHANGED rdp_active
  /\ result' = "einval"
  /\ UNCHANGED <<written, offset, suggested, pc, used>>

(* `upload [-o offset] <file> <address>`; the user starts from the         *)
(* beginning or where the previous upload suggested.                       *)
Upload(off, given) ==
  /\ pc = "idle"
  /\ rdp_opt_add(given) /\ rdp_opt_set /\ UNCHANGED rdp_dfl
  /\ offset' = off /\ used' = rdp_active'
  /\ pc' = "transfer" /\ result' = "none"
  /\ UNCHANGED <<written, suggested>>

InFlight == rdp_active * VMEM_SERVER_MTU

(* Bytes that reached the node when `count` were handed to RDP (external). *)
Delivered(count) == {n \in 0 .. count : count <= n + InFlight}

(* The offset to suggest when `count` bytes of the rest were sent.  (A     *)
(* name ending in Mut is a deliberately wrong variant.)                    *)
Margin == (rdp_active + 1) * VMEM_SERVER_MTU

SuggestMut(count) ==
  IF offset + count > VMEM_SERVER_MTU THEN offset + count - VMEM_SERVER_MTU ELSE 0
Suggest(count) == IF offset + count > Margin THEN offset + count - Margin ELSE 0

Stored(n) == (offset + 1) .. (offset + n)

(* The transfer ends after `count` bytes, `n` of which arrived.            *)
TransferReturns(count, n) ==
  /\ pc = "transfer"
  /\ written' = written \cup Stored(n)
  /\ IF count = FileSize - offset
     THEN result' = "success" /\ UNCHANGED suggested
     ELSE result' = "eio" /\ suggested' = Suggest(count)
  /\ pc' = "idle"
  /\ rdp_opt_reset /\ UNCHANGED <<rdp_dfl, rdp_tmp, offset, used>>

(* No connection, or no more csp buffers: nothing is suggested.            *)
TransferFails(count, n) ==
  /\ pc = "transfer"
  /\ written' = written \cup Stored(n)
  /\ result' = "eio" /\ pc' = "idle"
  /\ rdp_opt_reset /\ UNCHANGED <<rdp_dfl, rdp_tmp, offset, suggested, used>>

(* `rdp opt`.                                                              *)
RdpOpt(given, parsed) ==
  /\ pc = "idle"
  /\ vmem_client_rdp_options(given, parsed)
  /\ UNCHANGED <<written, offset, suggested, pc, result, used>>

(* A transfer stops at the end of a packet or of the file.                 *)
Counts == {c \in 0 .. FileSize - offset : c % VMEM_SERVER_MTU = 0 \/ c = FileSize - offset}

Next ==
  \/ \E given \in Windows : EarlyReturn(given)
  \/ \E off \in {0, suggested}, given \in Windows : Upload(off, given)
  \/ \E count \in Counts : \E n \in Delivered(count) :
       TransferReturns(count, n) \/ TransferFails(count, n)
  \/ \E given \in Windows, parsed \in BOOLEAN : RdpOpt(given, parsed)

Spec == Init /\ [][Next]_vars

-----------------------------------------------------------------------------
(* Properties.                                                             *)

(* Types of all variables.                                                 *)
TypeOK ==
  /\ written \subseteq 1 .. FileSize
  /\ offset \in 0 .. FileSize /\ suggested \in 0 .. FileSize
  /\ pc \in {"idle", "transfer"}
  /\ result \in {"none", "success", "einval", "eio"} /\ used \in Nat
  /\ RdpTypeOK

(* All variables have their types; resuming where the command suggests     *)
(* leaves no hole: every byte below the suggested offset has been stored   *)
(* by the node, whatever windows the uploads of the chain used and         *)
(* wherever they broke off; and an upload that reports success, alone or   *)
(* as the end of a chain of resumed ones, leaves at most the packets of    *)
(* its own window in doubt.                                                *)
NoHole ==
  /\ TypeOK
  /\ 1 .. suggested \subseteq written
  /\ (result = "success" /\ pc = "idle") =>
       \A i \in 1 .. FileSize : i + used * VMEM_SERVER_MTU <= FileSize => i \in written
=============================================================================
