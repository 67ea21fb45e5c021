----------------------------- MODULE SpaceBoot ------------------------------
(***************************************************************************)
(* Firmware updates: the commands `switch`, `program` and `sps`            *)
(* (src/spaceboot_slash.c) against one node with several flash slots.      *)
(*                                                                         *)
(* The shell runs one command at a time; every request over the network    *)
(* may be lost, and the node may reboot by itself at any moment.  What the *)
(* node does is external: its boot loader starts the slot whose boot_img   *)
(* counter is not zero and decrements it, and otherwise the default slot.  *)
(*                                                                         *)
(* A firmware file is a record of what is_valid_binary looks at; flash     *)
(* holds a file, or Partial where a transfer left neither.                 *)
(***************************************************************************)
EXTENDS RdpOptions, Sequences, FiniteSets

CONSTANTS
  NUM_SLOTS,            (* slots of the node                               *)
  SlotSize,             (* bytes per slot; slot s begins at Base(s)        *)
  Files,                (* firmware files on disk                          *)
  WALKDIR_MAX_ENTRIES,  (* entries of bin_info.files                       *)
  FileOptions,          (* values of -f: files, or NoFile                  *)
  SlotArgs,             (* slot numbers typed for program, and sps `to`    *)
  FromArgs,             (* slot numbers typed for switch, and sps `from`   *)
  CrcOptions,           (* whether -C is given                             *)
  Times,                (* values of -c of the switch command              *)
  Delivery,             (* {TRUE}: a reliable link; BOOLEAN: a lossy one   *)
  SelfReboots,          (* may the node reboot by itself?                  *)
  KnownParams           (* sets of slots whose boot_img parameter may be   *)
                        (* in the list when the session begins             *)

NoFile  == [name |-> "none", bin |-> FALSE, len |-> 0, magic |-> FALSE,
            strings |-> FALSE, stext |-> 0, entry |-> <<0, 0>>]
Partial == [NoFile EXCEPT !.name = "partial"]
Factory == [NoFile EXCEPT !.name = "factory"]

FileRecords == [name : STRING, bin : BOOLEAN, len : Nat, magic : BOOLEAN,
                strings : BOOLEAN, stext : Nat, entry : Nat \X Nat]

ASSUME SpaceBootAssumption ==
  /\ NUM_SLOTS \in Nat \ {0} /\ SlotSize \in Nat \ {0}
  /\ WALKDIR_MAX_ENTRIES \in Nat \ {0}
  /\ SlotArgs \subseteq Nat /\ FromArgs \subseteq Nat /\ Times \subseteq Nat
  /\ CrcOptions \subseteq BOOLEAN /\ Delivery \subseteq BOOLEAN
  /\ SelfReboots \in BOOLEAN /\ KnownParams \subseteq SUBSET (0 .. NUM_SLOTS - 1)
  /\ Files \subseteq FileRecords /\ FileOptions \subseteq Files \cup {NoFile}

Slots   == 0 .. NUM_SLOTS - 1
Entries == 1 .. WALKDIR_MAX_ENTRIES
Base(slot) == (slot + 1) * SlotSize
DefaultSlot == 0

VARIABLES
  flash,       (* node: contents of each slot                              *)
  boot_img,    (* node: the boot counters, one byte each                   *)
  running,     (* node: the slot it booted                                 *)
  param_list,  (* csh: slots whose boot_img parameter is in the list       *)
  files,       (* csh: bin_info.files, which outlives the command          *)
  count,       (* csh: bin_info.count                                      *)
  cmd,         (* csh: the command being run                               *)
  pc,          (* csh: where it is                                         *)
  path,        (* csh: the file about to be programmed                     *)
  result,      (* csh: what the last command returned                      *)
  report       (* history: what the last reset_to_flash announced, if its  *)
               (* push and its reboot reached the node and the node has    *)
               (* not rebooted by itself since                             *)

nodeVars == <<flash, boot_img, running>>
binVars  == <<files, count>>
cshVars  == <<cmd, pc, path, result>>
vars == <<nodeVars, param_list, binVars, cshVars, report, rdpVars>>

NoCmd == [name |-> "none", slot |-> 0, crc |-> FALSE, file |-> NoFile, asked |-> 0]

NoReport == [slot |-> 0, times |-> 0]

Init ==
  /\ flash = [s \in Slots |-> Factory]
  /\ boot_img = [s \in Slots |-> 0]
  /\ running \in Slots
  /\ param_list \in KnownParams
  /\ files = [i \in Entries |-> NoFile] /\ count = 0
  /\ cmd = NoCmd /\ pc = "idle" /\ path = NoFile /\ result = "none"
  /\ report = NoReport
  /\ RdpInit

-----------------------------------------------------------------------------
(* Is the file a firmware image for the area [addr_min, addr_max]?  With   *)
(* the magic marker its stext decides; without ident strings one of the    *)
(* two candidate entry points must lie in the area.  The image must fit.   *)
InArea(addr, addr_min, addr_max) == addr_min <= addr /\ addr <= addr_max

is_valid_binaryMut(f, addr_min, addr_max) ==
  /\ f.bin /\ f.len >= 4
  /\ \/ f.magic /\ InArea(f.stext, addr_min, addr_max) /\ f.strings
     \/ \E i \in {1, 2} : InArea(f.entry[i], addr_min, addr_max)
is_valid_binary(f, addr_min, addr_max) ==
  /\ f.bin /\ f.len >= 4
  /\ addr_min + f.len <= addr_max
  /\ f.magic => InArea(f.stext, addr_min, addr_max)
  /\ \/ f.magic /\ f.strings
     \/ \E i \in {1, 2} : InArea(f.entry[i], addr_min, addr_max)

ValidFor(slot) == {f \in Files : is_valid_binary(f, Base(slot), Base(slot) + SlotSize - 1)}

(* walkdir with file_callback: some valid files in directory order, as     *)
(* many as bin_info has room for.                                          *)
Found(slot) ==
  UNION {{s \in [1 .. n -> ValidFor(slot)] : \A i, j \in 1 .. n : s[i] = s[j] => i = j} :
           n \in 0 .. WALKDIR_MAX_ENTRIES}

-----------------------------------------------------------------------------
(* The boot loader (external).                                             *)
Bootable(counters) == {s \in Slots : counters[s] > 0}

BootInto(counters) ==
  /\ running' = IF Bootable(counters) = {} THEN DefaultSlot
                ELSE CHOOSE s \in Bootable(counters) : TRUE
  /\ boot_img' = IF Bootable(counters) = {} THEN counters
                 ELSE [counters EXCEPT ![running'] = @ - 1]

(* What reset_to_flash queues for the node: all counters zero, then the    *)
(* low byte of `times` for the chosen slot (boot_img0 is parameter 21 and  *)
(* boot_img1 is parameter 20).                                             *)
CountersMut(flash_, times) ==
  [[s \in Slots |-> 0] EXCEPT ![IF flash_ < 2 THEN 1 - flash_ ELSE flash_] = times % 256]
Counters(flash_, times) == [[s \in Slots |-> 0] EXCEPT ![flash_] = times % 256]

(* The boot_img parameters in the list afterwards: those that were added   *)
(* for the push are removed again, but not after an invalid slot.          *)
NextParams(flash_) == IF flash_ \in Slots THEN param_list ELSE Slots

(* reset_to_flash: unknown boot_img parameters are added to the list, an   *)
(* invalid slot returns at that point; otherwise the counters are pushed   *)
(* in one queue, the node is told to reboot, and the added parameters are  *)
(* removed.  Neither the push, nor the reboot, nor the ping that follows   *)
(* is checked.                                                             *)
reset_to_flash(flash_, times, pushed, rebooted) ==
  /\ param_list' = NextParams(flash_)
  /\ LET counters == IF pushed THEN Counters(flash_, times) ELSE boot_img
     IN  \/ flash_ \notin Slots /\ UNCHANGED <<boot_img, running>>
         \/ flash_ \in Slots /\ rebooted /\ BootInto(counters)
         \/ flash_ \in Slots /\ ~rebooted /\ boot_img' = counters /\ UNCHANGED running
  /\ report' = IF flash_ \in Slots /\ pushed /\ rebooted
               THEN [slot |-> flash_, times |-> times] ELSE NoReport

(* The node reboots by itself.                                             *)
NodeReboots ==
  /\ SelfReboots
  /\ BootInto(boot_img)
  /\ report' = NoReport
  /\ UNCHANGED <<flash, param_list, binVars, cshVars, rdpVars>>

-----------------------------------------------------------------------------
(* Commands begin.                                                         *)

(* `switch <slot>`.                                                        *)
slash_csp_switch(slot, times, pushed, rebooted) ==
  /\ pc = "idle"
  /\ reset_to_flash(slot, times, pushed, rebooted)
  /\ result' = "success" /\ cmd' = [NoCmd EXCEPT !.name = "switch"]
  /\ UNCHANGED <<flash, binVars, pc, path, rdpVars>>

(* `program <slot>`: the RDP options are parsed but not passed to csp.     *)
slash_csp_program(slot, file, crc, given) ==
  /\ pc = "idle"
  /\ rdp_opt_add(given) /\ UNCHANGED <<rdp_dfl, rdp_active>>
  /\ cmd' = [name |-> "program", slot |-> slot, crc |-> crc, file |-> file,
             asked |-> rdp_tmp']
  /\ pc' = "find" /\ result' = "none"
  /\ UNCHANGED <<nodeVars, param_list, binVars, path, report>>

(* `sps <from> <to>`: options in force, and the node is sent to `from`.    *)
slash_sps(from, to, file, crc, given, pushed, rebooted) ==
  /\ pc = "idle"
  /\ rdp_opt_add(given) /\ rdp_opt_set /\ UNCHANGED rdp_dfl
  /\ reset_to_flash(from, 1, pushed, rebooted)
  /\ cmd' = [name |-> "sps", slot |-> to, crc |-> crc, file |-> file,
             asked |-> rdp_tmp']
  /\ pc' = "find" /\ result' = "none"
  /\ UNCHANGED <<flash, binVars, path>>

(* A command line that is refused: `program` and `sps` without a slot, and *)
(* `sps` with an unknown option, restore the options; `program` with an    *)
(* unknown option leaves them.                                             *)
CommandRefused(given) ==
  /\ pc = "idle"
  /\ rdp_opt_add(given) /\ UNCHANGED rdp_dfl
  /\ rdp_opt_reset \/ UNCHANGED rdp_active
  /\ result' = "einval"
  /\ UNCHANGED <<nodeVars, param_list, binVars, cmd, pc, path, report>>

(* `rdp opt`.                                                              *)
RdpOpt(given, parsed) ==
  /\ pc = "idle"
  /\ vmem_client_rdp_options(given, parsed)
  /\ UNCHANGED <<nodeVars, param_list, binVars, cshVars, report>>

-----------------------------------------------------------------------------
(* The common body of program and sps.                                     *)

(* The command returns; its options go out of scope.                       *)
Leave(res) ==
  /\ pc' = "idle" /\ result' = res
  /\ cmd' = [cmd EXCEPT !.file = NoFile, !.asked = 0]

(* A return through rdp_opt_reset.                                         *)
Return(res) ==
  /\ rdp_opt_reset /\ UNCHANGED <<rdp_dfl, rdp_tmp>>
  /\ Leave(res)

(* The vmem area fl<slot> is looked up; no answer and no such area give up. *)
FindVmem(answered) ==
  /\ pc = "find"
  /\ IF answered /\ cmd.slot \in Slots
     THEN pc' = "select" /\ UNCHANGED <<cmd, result, rdpVars>>
     ELSE Return("einval")
  /\ UNCHANGED <<nodeVars, param_list, binVars, path, report>>

(* -f: the file goes to files[0], unexamined.                              *)
SelectGiven ==
  /\ pc = "select" /\ cmd.file # NoFile
  /\ files' = [files EXCEPT ![1] = cmd.file]
  /\ count' = 0
  /\ path' = cmd.file
  /\ pc' = "ping"
  /\ UNCHANGED <<nodeVars, param_list, cmd, result, report, rdpVars>>

(* Otherwise the search overwrites the first entries of bin_info.          *)
Overwritten(found) ==
  [i \in Entries |-> IF i \in DOMAIN found THEN found[i] ELSE files[i]]

(* With more than one hit the user types an index, which is not compared   *)
(* with the number of hits: any entry of bin_info.files can be chosen.     *)
Choice(found) == IF Len(found) > 1 THEN Entries ELSE {1}

SelectSearched(found) ==
  /\ pc = "select" /\ cmd.file = NoFile /\ found # << >>
  /\ files' = Overwritten(found)
  /\ count' = Len(found)
  /\ \E index \in Choice(found) : path' = files'[index]
  /\ pc' = "ping"
  /\ UNCHANGED <<nodeVars, param_list, cmd, result, report, rdpVars>>

(* Nothing found, the search interrupted, or an empty answer.              *)
SelectAborted(found) ==
  /\ pc = "select" /\ cmd.file = NoFile
  /\ files' = Overwritten(found)
  /\ count' = Len(found)
  /\ Return("einval")
  /\ UNCHANGED <<nodeVars, param_list, path, report>>

(* ping answers, the user confirms (program without -F), and image_get can *)
(* read the file: it is there (an entry never written names none) and has  *)
(* at least four bytes.                                                    *)
Proceed(answered) ==
  /\ pc = "ping"
  /\ IF answered /\ path.len >= 4
     THEN pc' = "upload" /\ UNCHANGED <<cmd, result, rdpVars>>
     ELSE Return("einval")
  /\ UNCHANGED <<nodeVars, param_list, binVars, path, report>>

(* do_upload: the transfer ends.  `arrived` tells how much of the image    *)
(* reached the flash; an incomplete or refused transfer is an error, which *)
(* with -C returns without rdp_opt_reset.                                  *)
do_upload(arrived, complete) ==
  /\ pc = "upload"
  /\ arrived \in {"none", "some", "all"}
  /\ flash' = CASE arrived = "none" -> flash
                [] arrived = "some" -> [flash EXCEPT ![cmd.slot] = Partial]
                [] arrived = "all"  -> [flash EXCEPT ![cmd.slot] = path]
  /\ IF complete THEN pc' = "verify" /\ UNCHANGED <<cmd, result, rdpVars>>
     ELSE IF cmd.crc THEN Leave("eio") /\ UNCHANGED rdpVars
     ELSE Return("eio")
  /\ UNCHANGED <<boot_img, running, param_list, binVars, path, report>>

(* The comparison that decides about success.  With -C the node's CRC of   *)
(* the area must have been answered and must match.  Otherwise the area is *)
(* downloaded into fresh memory and compared, and the result of            *)
(* vmem_download is ignored: without an answer the comparison reads what   *)
(* malloc returned, which may be an earlier copy of the same image (the    *)
(* search reads and frees every candidate, the previous command its file). *)
MatchesMut(answered) ==
  IF cmd.crc THEN {~answered \/ flash[cmd.slot] = path}
  ELSE IF answered THEN {flash[cmd.slot] = path} ELSE BOOLEAN
Matches(answered) ==
  IF cmd.crc THEN {answered /\ flash[cmd.slot] = path}
  ELSE IF answered THEN {flash[cmd.slot] = path} ELSE BOOLEAN

Verify(answered) ==
  /\ pc = "verify"
  /\ \E same \in Matches(answered) :
       IF same /\ cmd.name = "sps" THEN pc' = "switch" /\ UNCHANGED <<cmd, result, rdpVars>>
       ELSE Return(IF same THEN "success" ELSE "enospc")
  /\ UNCHANGED <<nodeVars, param_list, binVars, path, report>>

(* sps ends by rebooting into the slot just programmed.                    *)
SpsSwitch(pushed, rebooted) ==
  /\ pc = "switch"
  /\ reset_to_flash(cmd.slot, 1, pushed, rebooted)
  /\ Return("success")
  /\ UNCHANGED <<flash, binVars, path>>

-----------------------------------------------------------------------------
Begin ==
  \/ \E slot \in FromArgs, times \in Times, pushed, rebooted \in Delivery :
       slash_csp_switch(slot, times, pushed, rebooted)
  \/ \E slot \in SlotArgs, file \in FileOptions, crc \in CrcOptions, given \in Windows :
       slash_csp_program(slot, file, crc, given)
  \/ \E from \in FromArgs, to \in SlotArgs, file \in FileOptions, crc \in CrcOptions,
        given \in Windows, pushed, rebooted \in Delivery :
       slash_sps(from, to, file, crc, given, pushed, rebooted)
  \/ \E given \in Windows : CommandRefused(given)
  \/ \E given \in Windows, parsed \in BOOLEAN : RdpOpt(given, parsed)

Body ==
  \/ \E answered \in BOOLEAN : FindVmem(answered)
  \/ SelectGiven
  \/ /\ pc = "select"
     /\ \E found \in Found(cmd.slot) : SelectSearched(found) \/ SelectAborted(found)
  \/ \E answered \in BOOLEAN : Proceed(answered)
  \/ \E arrived \in {"none", "some", "all"}, complete \in BOOLEAN : do_upload(arrived, complete)
  \/ \E answered \in BOOLEAN : Verify(answered)
  \/ \E pushed, rebooted \in Delivery : SpsSwitch(pushed, rebooted)

Next == Begin \/ Body \/ NodeReboots

Spec == Init /\ [][Next]_vars

-----------------------------------------------------------------------------
(* Properties.                                                             *)
Images == Files \cup {NoFile, Partial, Factory}

(* Types of all variables.                                                 *)
TypeOK ==
  /\ flash \in [Slots -> Images]
  /\ boot_img \in [Slots -> 0 .. 255]
  /\ running \in Slots
  /\ param_list \subseteq Slots
  /\ files \in [Entries -> Files \cup {NoFile}] /\ count \in 0 .. WALKDIR_MAX_ENTRIES
  /\ cmd \in [name : {"none", "switch", "program", "sps"}, slot : Nat, crc : BOOLEAN,
              file : Files \cup {NoFile}, asked : Nat]
  /\ pc \in {"idle", "find", "select", "ping", "upload", "verify", "switch"}
  /\ path \in Files \cup {NoFile}
  /\ result \in {"none", "success", "einval", "eio", "enospc"}
  /\ report \in [slot : Nat, times : Nat]
  /\ RdpTypeOK

(* All variables have their types, and with -C, sps sends the node into    *)
(* the slot it programmed, and program and sps say success, only when the  *)
(* flash there holds exactly the chosen image, whatever was lost on the    *)
(* way and however often the node rebooted.                                *)
CrcSuccessMeansProgrammed ==
  /\ TypeOK
  /\ (cmd.crc /\ (pc = "switch" \/ (pc = "idle" /\ result = "success")))
       => flash[cmd.slot] = path

(* sps transfers with the options it was given, or the defaults.           *)
SpsUsesOptions ==
  (cmd.name = "sps" /\ pc \in {"upload", "verify"}) => rdp_active = cmd.asked

(* A file that the search offered (first hit, or an index within the list) *)
(* fits into the slot behind its base address.                             *)
OfferedFits ==
  (pc = "upload" /\ cmd.file = NoFile /\ \E i \in 1 .. count : path = files[i])
     => Base(cmd.slot) + path.len < Base(cmd.slot) + SlotSize

(* The help of switch -c: "number of times to boot into this slot": when   *)
(* push and reboot arrived, the node runs the slot that switch or sps told *)
(* it to, unless the low byte of the number is zero.  For sps this means   *)
(* that the slot being programmed is not the one the node runs from.       *)
SwitchBoots ==
  report.times % 256 # 0 => running = report.slot
=============================================================================
