---------------------------- MODULE VmemDownload ----------------------------
(***************************************************************************)
(* The download command with its resumable transfers                       *)
(* (src/vmem_client_slash_ftp.c): a VMEM area of a node is copied to a     *)
(* file; a transfer that breaks off leaves a status file with the number   *)
(* of bytes fetched so far, from which a later command may continue.       *)
(*                                                                         *)
(* One area and one file.  Byte i of the area is represented by i, so the  *)
(* file is right when it is 1, 2, 3, ...  The transfer (vmem_download,     *)
(* external) yields a prefix of what was asked, or an error.               *)
(***************************************************************************)
EXTENDS RdpOptions, Sequences, Integers

CONSTANTS
  Lengths,     (* lengths typed on the command line                        *)
  Answers,     (* to "Type 'yes' + enter to continue": TRUE is yes         *)
  StatWrites   (* can the status file be written?  {TRUE}, or BOOLEAN      *)

ASSUME DownloadAssumption ==
  /\ Lengths \subseteq Nat
  /\ Answers \subseteq BOOLEAN /\ StatWrites \subseteq BOOLEAN

VARIABLES
  file,      (* contents of the local file                                 *)
  has_stat,  (* does the status file exist?                                *)
  stat,      (* the offset it holds                                        *)
  length,    (* length asked for by the command being run                  *)
  offset,    (* where its transfer starts                                  *)
  pc,        (* where it is                                                *)
  finished,  (* did the last command complete the file?                    *)
  stale      (* history: a transfer ended without bringing the status file *)
             (* up to date, and the file was not begun anew since          *)

fileVars == <<file, has_stat, stat, stale>>
cmdVars  == <<length, offset, pc, finished>>
vars     == <<fileVars, cmdVars, rdpVars>>

Init ==
  /\ file = << >> /\ has_stat = FALSE /\ stat = 0 /\ stale = FALSE
  /\ length = 0 /\ offset = 0 /\ pc = "idle" /\ finished = FALSE
  /\ RdpInit

-----------------------------------------------------------------------------
(* An unknown option: nothing was passed to csp yet.                       *)
Refused(given) ==
  /\ pc = "idle"
  /\ rdp_opt_add(given) /\ UNCHANGED <<rdp_dfl, rdp_active>>
  /\ finished' = FALSE
  /\ UNCHANGED <<fileVars, length, offset, pc>>

(* A missing or malformed argument, an unreadable status file, a file that *)
(* cannot be opened: the command returns with its options still in force.  *)
EarlyReturn(given) ==
  /\ pc = "idle"
  /\ rdp_opt_add(given) /\ rdp_opt_set /\ UNCHANGED rdp_dfl
  /\ finished' = FALSE
  /\ UNCHANGED <<fileVars, length, offset, pc>>

(* Without a status file the file is truncated and fetched from the start; *)
(* with one, the user is asked.                                            *)
Open(len, given) ==
  /\ pc = "idle"
  /\ rdp_opt_add(given) /\ rdp_opt_set /\ UNCHANGED rdp_dfl
  /\ length' = len /\ finished' = FALSE
  /\ IF has_stat
     THEN offset' = stat /\ pc' = "ask" /\ UNCHANGED <<file, stale>>
     ELSE offset' = 0 /\ pc' = "transfer" /\ file' = << >> /\ stale' = FALSE
  /\ UNCHANGED <<has_stat, stat>>

(* Is the offset of the status file usable for this length?                *)
OffsetOK == offset <= length

(* yes: append from the offset, unless it lies beyond the length.          *)
AnswerYes ==
  /\ pc = "ask" /\ TRUE \in Answers
  /\ pc' = IF OffsetOK THEN "transfer" ELSE "idle"
  /\ UNCHANGED <<fileVars, length, offset, finished, rdpVars>>

(* Anything else: truncate, and start over; the status file stays.         *)
AnswerNo ==
  /\ pc = "ask" /\ FALSE \in Answers
  /\ file' = << >> /\ offset' = 0 /\ stale' = FALSE
  /\ pc' = "transfer"
  /\ UNCHANGED <<has_stat, stat, length, finished, rdpVars>>

(* vmem_download reports an error: "Connection failed".                    *)
TransferFails ==
  /\ pc = "transfer"
  /\ pc' = "idle"
  /\ stale' = (stale \/ (has_stat /\ stat # offset))
  /\ UNCHANGED <<file, has_stat, stat, length, offset, finished, rdpVars>>

(* What the status file says after `count` more bytes.                     *)
NewStatMut(count) == count
NewStat(count) == count + offset

(* It returns `count` bytes, which are written behind what the file holds; *)
(* the status file is written when bytes are missing and removed otherwise. *)
Fetched(count) == [i \in 1 .. count |-> offset + i]

Written(count) == file \o Fetched(count)

TransferReturns(count, stored) ==
  /\ pc = "transfer"
  /\ file' = Written(count)
  /\ IF count # length - offset
     THEN /\ IF stored
             THEN has_stat' = TRUE /\ stat' = NewStat(count) /\ UNCHANGED stale
             ELSE /\ stale' = (stale \/ (has_stat /\ stat # offset + count))
                  /\ UNCHANGED <<has_stat, stat>>
          /\ finished' = FALSE
     ELSE has_stat' = FALSE /\ stat' = 0 /\ finished' = TRUE /\ UNCHANGED stale
  /\ pc' = "idle"
  /\ rdp_opt_reset /\ UNCHANGED <<rdp_dfl, rdp_tmp>>
  /\ UNCHANGED <<length, offset>>

(* `rdp opt`.                                                              *)
RdpOpt(given, parsed) ==
  /\ pc = "idle"
  /\ vmem_client_rdp_options(given, parsed)
  /\ UNCHANGED <<fileVars, cmdVars>>

Next ==
  \/ \E given \in Windows : Refused(given) \/ EarlyReturn(given)
  \/ \E len \in Lengths, given \in Windows : Open(len, given)
  \/ AnswerYes
  \/ AnswerNo
  \/ TransferFails
  \/ \E count \in 0 .. length - offset, stored \in StatWrites : TransferReturns(count, stored)
  \/ \E given \in Windows, parsed \in BOOLEAN : RdpOpt(given, parsed)

Spec == Init /\ [][Next]_vars

-----------------------------------------------------------------------------
(* Properties.                                                             *)

(* Types of all variables.                                                 *)
TypeOK ==
  /\ file \in Seq(Nat) /\ has_stat \in BOOLEAN /\ stat \in Nat
  /\ length \in Nat /\ offset \in Nat
  /\ pc \in {"idle", "ask", "transfer"} /\ finished \in BOOLEAN /\ stale \in BOOLEAN
  /\ RdpTypeOK

(* The first n bytes of the area.                                          *)
Area(n) == [i \in 1 .. n |-> i]

(* When a command has completed the file, over however many resumed        *)
(* transfers, the file holds the first `length` bytes of the area, each    *)
(* once and in order ("Download from VMEM to FILE").                       *)
CompleteMeansCopied == finished => file = Area(length)

(* ... and the one way to a wrong copy is a transfer that broke off        *)
(* without updating the status file: a connection that failed after the    *)
(* user had declined to resume, or a status file that cannot be written.   *)
(* Otherwise the completed file is the area, and before that the status    *)
(* file and the file agree at every step: the file is the area up to that  *)
(* offset.  All variables have their types, and a transfer never starts    *)
(* beyond the length, where the unsigned length - offset would wrap to     *)
(* almost 4 GB.                                                            *)
StatMatchesFile ==
  /\ TypeOK
  /\ (pc = "transfer") => offset <= length
  /\ ~stale => /\ finished => file = Area(length)
               /\ (pc = "idle" /\ has_stat) => file = Area(stat)
               /\ (pc = "ask") => has_stat /\ offset = stat /\ file = Area(stat)
               /\ (pc = "transfer") => file = Area(offset)
=============================================================================
