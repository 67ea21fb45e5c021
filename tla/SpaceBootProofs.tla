--------------------------- MODULE SpaceBootProofs ---------------------------
(* Theorems about firmware updates, for every number and size of slots,    *)
(* every set of firmware files and command lines, and every schedule of    *)
(* lost requests and reboots.                                              *)
EXTENDS SpaceBoot, TLAPS, SequenceTheorems

CmdType == [name : {"none", "switch", "program", "sps"}, slot : Nat, crc : BOOLEAN,
            file : Files \cup {NoFile}, asked : Nat]

Busy == {"find", "select", "ping", "upload", "verify"}

(* From its first step on, sps has its own options in force.               *)
OptionsInv == (cmd.name = "sps" /\ pc \in Busy) => rdp_active = cmd.asked

(* After the search, the hits are what bin_info lists.                     *)
FoundInv ==
  (pc \in {"ping", "upload"} /\ cmd.file = NoFile)
     => \A i \in 1 .. count : files[i] \in ValidFor(cmd.slot)

-----------------------------------------------------------------------------
(* Pieces of the commands.                                                 *)

(* The slots and the default slot.                                         *)
LEMMA SlotFacts ==
  /\ DefaultSlot \in Slots /\ Slots \subseteq Nat
  /\ NoFile \in Images /\ Partial \in Images /\ Factory \in Images /\ Files \subseteq Images
  /\ 1 \in Entries
BY SpaceBootAssumption DEF DefaultSlot, Slots, Images, Entries

(* Whatever its counters, the boot loader finds a slot, and what it leaves *)
(* are byte counters.                                                      *)
LEMMA BootIntoType ==
  ASSUME NEW counters \in [Slots -> 0 .. 255], BootInto(counters)
  PROVE  running' \in Slots /\ boot_img' \in [Slots -> 0 .. 255]
<1>1. CASE Bootable(counters) = {}
  BY <1>1, SlotFacts DEF BootInto
<1>2. CASE Bootable(counters) # {}
  <2>1. running' \in Bootable(counters)
    BY <1>2 DEF BootInto
  <2>2. running' \in Slots /\ counters[running'] \in 1 .. 255
    BY <2>1 DEF Bootable
  <2>3. boot_img' = [counters EXCEPT ![running'] = @ - 1]
    BY <1>2 DEF BootInto
  <2> QED BY <2>2, <2>3
<1> QED BY <1>1, <1>2

(* What reset_to_flash pushes are byte counters, ...                       *)
LEMMA CountersType ==
  ASSUME NEW s \in Slots, NEW times \in Nat
  PROVE  /\ Counters(s, times) \in [Slots -> 0 .. 255]
         /\ Counters(s, times)[s] = times % 256
         /\ \A t \in Slots \ {s} : Counters(s, times)[t] = 0
<1>1. times % 256 \in 0 .. 255
  OBVIOUS
<1> QED BY <1>1 DEF Counters

(* ... of which the boot loader chooses the only one that is not zero.     *)
LEMMA BootsChosen ==
  ASSUME NEW s \in Slots, NEW times \in Nat, times % 256 # 0, BootInto(Counters(s, times))
  PROVE  running' = s
<1>1. times % 256 > 0
  OBVIOUS
<1>2. Bootable(Counters(s, times)) = {s}
  <2> DEFINE c == Counters(s, times)
  <2>0. c[s] = times % 256 /\ \A t \in Slots \ {s} : c[t] = 0
    BY SMTT(30), CountersType
  <2>1. \A t \in Slots : c[t] > 0 <=> t = s
    <3> HIDE DEF c
    <3> QED BY <1>1, <2>0
  <2> QED BY <2>1 DEF Bootable
<1>3. running' = CHOOSE t \in {s} : TRUE
  BY <1>2, Zenon DEF BootInto
<1> QED BY <1>3

(* reset_to_flash keeps all types, and what it announces comes true.       *)
LEMMA ResetToFlash ==
  ASSUME TypeOK, NEW s \in Nat, NEW times \in Nat, NEW pushed \in BOOLEAN,
         NEW rebooted \in BOOLEAN, reset_to_flash(s, times, pushed, rebooted)
  PROVE  /\ boot_img' \in [Slots -> 0 .. 255] /\ running' \in Slots
         /\ param_list' \subseteq Slots /\ report' \in [slot : Nat, times : Nat]
         /\ SwitchBoots'
<1> DEFINE counters == IF pushed THEN Counters(s, times) ELSE boot_img
<1>0. boot_img \in [Slots -> 0 .. 255] /\ running \in Slots /\ param_list \subseteq Slots
  BY Zenon DEF TypeOK
<1>1. param_list' \subseteq Slots
  BY <1>0, Zenon DEF reset_to_flash, NextParams
<1>2. report' \in [slot : Nat, times : Nat]
  BY DEF reset_to_flash, NoReport
<1>3. CASE s \notin Slots
  <2>1. UNCHANGED <<boot_img, running>> /\ report' = NoReport
    BY <1>3 DEF reset_to_flash
  <2>2. SwitchBoots'
    BY <2>1 DEF NoReport, SwitchBoots
  <2> QED BY <1>0, <1>1, <1>2, <2>1, <2>2
<1>4. CASE s \in Slots
  <2>1. counters \in [Slots -> 0 .. 255]
    BY <1>0, <1>4, CountersType
  <2>2. CASE rebooted
    <3>1. BootInto(counters) /\ report' = IF pushed THEN [slot |-> s, times |-> times] ELSE NoReport
      BY <1>4, <2>2, Zenon DEF reset_to_flash
    <3>2. running' \in Slots /\ boot_img' \in [Slots -> 0 .. 255]
      <4> HIDE DEF counters
      <4> QED BY <2>1, <3>1, BootIntoType
    <3>3. SwitchBoots'
      <4>1. CASE pushed /\ times % 256 # 0
        <5>1. running' = s
          BY <1>4, <3>1, <4>1, BootsChosen
        <5> QED BY <3>1, <4>1, <5>1 DEF SwitchBoots
      <4>2. CASE pushed /\ times % 256 = 0
        BY <3>1, <4>2 DEF SwitchBoots
      <4>3. CASE ~pushed
        BY <3>1, <4>3 DEF SwitchBoots, NoReport
      <4> QED BY <4>1, <4>2, <4>3
    <3> QED BY <1>1, <1>2, <3>2, <3>3
  <2>3. CASE ~rebooted
    <3>1. boot_img' = counters /\ running' = running /\ report' = NoReport
      BY <1>4, <2>3 DEF reset_to_flash
    <3>2. SwitchBoots'
      BY <3>1 DEF SwitchBoots, NoReport
    <3> QED BY <1>0, <1>1, <1>2, <2>1, <3>1, <3>2
  <2> QED BY <2>2, <2>3
<1> QED BY <1>3, <1>4

(* Returning from program or sps keeps the types of what it touches.       *)
LEMMA LeaveType ==
  ASSUME cmd \in CmdType, NEW res, Leave(res)
  PROVE  /\ pc' = "idle" /\ result' = res /\ cmd' \in CmdType
         /\ cmd'.name = cmd.name /\ cmd'.slot = cmd.slot /\ cmd'.crc = cmd.crc
BY DEF Leave, CmdType

-----------------------------------------------------------------------------
(* Types, and that what sps announces comes true.                          *)
Typed == TypeOK /\ SwitchBoots

(* `switch`, `program` and `sps` begin, or a command line is refused.      *)
LEMMA BeginTyped ==
  ASSUME Typed, Begin
  PROVE  Typed'
<1>0. /\ RdpTypeOK /\ Windows \subseteq Nat /\ SlotArgs \subseteq Nat /\ FromArgs \subseteq Nat
      /\ Times \subseteq Nat /\ CrcOptions \subseteq BOOLEAN /\ Delivery \subseteq BOOLEAN
      /\ FileOptions \subseteq Files \cup {NoFile}
  BY SpaceBootAssumption, WindowsAssumption DEF Typed, TypeOK
<1>1. ASSUME NEW slot \in FromArgs, NEW times \in Times, NEW pushed \in Delivery,
             NEW rebooted \in Delivery, slash_csp_switch(slot, times, pushed, rebooted)
      PROVE  Typed'
  <2>1. /\ boot_img' \in [Slots -> 0 .. 255] /\ running' \in Slots
        /\ param_list' \subseteq Slots /\ report' \in [slot : Nat, times : Nat]
        /\ SwitchBoots'
    BY <1>0, <1>1, ResetToFlash DEF slash_csp_switch, Typed
  <2>2. cmd' \in CmdType
    <3>1. cmd' = [NoCmd EXCEPT !.name = "switch"]
      BY <1>1 DEF slash_csp_switch
    <3> QED BY <3>1 DEF NoCmd, CmdType
  <2>3. result' = "success" /\ UNCHANGED <<flash, binVars, pc, path, rdpVars>>
    BY <1>1 DEF slash_csp_switch
  <2> QED BY <2>1, <2>2, <2>3 DEF Typed, TypeOK, CmdType, binVars, rdpVars, RdpTypeOK
<1>2. ASSUME NEW slot \in SlotArgs, NEW file \in FileOptions, NEW crc \in CrcOptions,
             NEW given \in Windows, slash_csp_program(slot, file, crc, given)
      PROVE  Typed'
  <2>1. rdp_tmp' \in Nat /\ rdp_dfl' = rdp_dfl /\ rdp_active' = rdp_active
    BY <1>0, <1>2 DEF slash_csp_program, rdp_opt_add, Chosen, RdpTypeOK
  <2>2. cmd' \in CmdType
    <3>1. cmd' = [name |-> "program", slot |-> slot, crc |-> crc, file |-> file, asked |-> rdp_tmp']
      BY <1>2 DEF slash_csp_program
    <3> QED BY <1>0, <2>1, <3>1 DEF CmdType
  <2>3. pc' = "find" /\ result' = "none" /\ UNCHANGED <<nodeVars, param_list, binVars, path, report>>
    BY <1>2 DEF slash_csp_program
  <2>4. SwitchBoots'
    BY <2>3 DEF Typed, SwitchBoots, nodeVars
  <2> QED BY <2>1, <2>2, <2>3, <2>4 DEF Typed, TypeOK, CmdType, binVars, nodeVars, RdpTypeOK
<1>3. ASSUME NEW from \in FromArgs, NEW to \in SlotArgs, NEW file \in FileOptions,
             NEW crc \in CrcOptions, NEW given \in Windows, NEW pushed \in Delivery,
             NEW rebooted \in Delivery, slash_sps(from, to, file, crc, given, pushed, rebooted)
      PROVE  Typed'
  <2>1. rdp_tmp' \in Nat /\ rdp_dfl' = rdp_dfl /\ rdp_active' = rdp_tmp'
    BY <1>0, <1>3 DEF slash_sps, rdp_opt_add, rdp_opt_set, Chosen, RdpTypeOK
  <2>2. cmd' \in CmdType
    <3>1. cmd' = [name |-> "sps", slot |-> to, crc |-> crc, file |-> file, asked |-> rdp_tmp']
      BY <1>3 DEF slash_sps
    <3> QED BY <1>0, <2>1, <3>1 DEF CmdType
  <2>3. /\ boot_img' \in [Slots -> 0 .. 255] /\ running' \in Slots
        /\ param_list' \subseteq Slots /\ report' \in [slot : Nat, times : Nat]
        /\ SwitchBoots'
    BY <1>0, <1>3, ResetToFlash DEF slash_sps, Typed
  <2>4. pc' = "find" /\ result' = "none" /\ UNCHANGED <<flash, binVars, path>>
    BY <1>3 DEF slash_sps
  <2> QED BY <2>1, <2>2, <2>3, <2>4 DEF Typed, TypeOK, CmdType, binVars, RdpTypeOK
<1>4. ASSUME NEW given \in Windows, CommandRefused(given)
      PROVE  Typed'
  <2>1. RdpTypeOK'
    BY <1>0, <1>4 DEF CommandRefused, rdp_opt_add, rdp_opt_reset, Chosen, RdpTypeOK
  <2>2. result' = "einval" /\ UNCHANGED <<nodeVars, param_list, binVars, cmd, pc, path, report>>
    BY <1>4 DEF CommandRefused
  <2> QED BY <2>1, <2>2 DEF Typed, TypeOK, binVars, nodeVars, SwitchBoots
<1>5. ASSUME NEW given \in Windows, NEW parsed \in BOOLEAN, RdpOpt(given, parsed)
      PROVE  Typed'
  <2>1. RdpTypeOK'
    BY <1>0, <1>5 DEF RdpOpt, vmem_client_rdp_options, Chosen, RdpTypeOK
  <2>2. UNCHANGED <<nodeVars, param_list, binVars, cshVars, report>>
    BY <1>5 DEF RdpOpt
  <2> QED BY <2>1, <2>2 DEF Typed, TypeOK, binVars, nodeVars, cshVars, SwitchBoots
<1> QED BY <1>1, <1>2, <1>3, <1>4, <1>5, Zenon DEF Begin

(* The search and its choice: what is offered comes from the disk.         *)
LEMMA FoundFacts ==
  ASSUME NEW slot, NEW found \in Found(slot)
  PROVE  /\ found \in Seq(ValidFor(slot)) /\ Len(found) \in 0 .. WALKDIR_MAX_ENTRIES
         /\ DOMAIN found = 1 .. Len(found)
         /\ \A i \in 1 .. Len(found) : found[i] \in ValidFor(slot) /\ found[i] \in Files
<1>1. PICK n \in 0 .. WALKDIR_MAX_ENTRIES : found \in [1 .. n -> ValidFor(slot)]
  BY DEF Found
<1>2. n \in Nat /\ WALKDIR_MAX_ENTRIES \in Nat
  BY <1>1, SpaceBootAssumption
<1>3. ValidFor(slot) \subseteq Files
  BY DEF ValidFor
<1>4. found \in Seq(ValidFor(slot)) /\ Len(found) = n
  <2> HIDE DEF ValidFor
  <2> QED BY <1>1, <1>2
<1> QED BY <1>1, <1>2, <1>3, <1>4

(* ... and so do the entries of bin_info it leaves, the old ones included. *)
LEMMA OverwrittenType ==
  ASSUME TypeOK, NEW slot, NEW found \in Found(slot)
  PROVE  /\ Overwritten(found) \in [Entries -> Files \cup {NoFile}]
         /\ \A i \in 1 .. Len(found) : i \in Entries /\ Overwritten(found)[i] \in ValidFor(slot)
         /\ Len(found) \in 0 .. WALKDIR_MAX_ENTRIES
<1>1. /\ Len(found) \in 0 .. WALKDIR_MAX_ENTRIES /\ DOMAIN found = 1 .. Len(found)
      /\ \A i \in 1 .. Len(found) : found[i] \in ValidFor(slot) /\ found[i] \in Files
  BY FoundFacts
<1>2. files \in [Entries -> Files \cup {NoFile}]
  BY DEF TypeOK
<1>3. \A i \in 1 .. Len(found) : i \in Entries
  BY <1>1, SpaceBootAssumption DEF Entries
<1> HIDE DEF ValidFor, Entries, NoFile
<1> QED BY <1>1, <1>2, <1>3, Zenon DEF Overwritten

(* The body of program and sps.                                            *)
LEMMA BodyTyped ==
  ASSUME Typed, Body
  PROVE  Typed'
<1>0. /\ cmd \in CmdType /\ path \in Files \cup {NoFile} /\ RdpTypeOK /\ TypeOK
      /\ files \in [Entries -> Files \cup {NoFile}] /\ Delivery \subseteq BOOLEAN
  BY SpaceBootAssumption, Zenon DEF Typed, TypeOK, CmdType
<1>1. ASSUME NEW res \in {"success", "einval", "eio", "enospc"}, Return(res)
      PROVE  RdpTypeOK' /\ cmd' \in CmdType /\ pc' = "idle" /\ result' = res
  BY <1>0, <1>1, LeaveType DEF Return, rdp_opt_reset, RdpTypeOK
<1>2. ASSUME NEW answered \in BOOLEAN, FindVmem(answered)
      PROVE  Typed'
  <2>1. /\ RdpTypeOK' /\ cmd' \in CmdType /\ pc' \in {"idle", "select"}
        /\ result' \in {"none", "success", "einval", "eio", "enospc"}
    BY <1>0, <1>1, <1>2 DEF FindVmem, rdpVars, RdpTypeOK, Typed, TypeOK
  <2>2. UNCHANGED <<nodeVars, param_list, binVars, path, report>>
    BY <1>2 DEF FindVmem
  <2> QED BY <2>1, <2>2 DEF Typed, TypeOK, CmdType, binVars, nodeVars, SwitchBoots
<1>3. CASE SelectGiven
  <2>1. files' \in [Entries -> Files \cup {NoFile}] /\ path' \in Files \cup {NoFile}
    <3>1. files' = [files EXCEPT ![1] = cmd.file] /\ path' = cmd.file
      BY <1>3 DEF SelectGiven
    <3>2. cmd.file \in Files \cup {NoFile}
      BY <1>0 DEF CmdType
    <3> QED BY <1>0, <3>1, <3>2
  <2>2. count' \in 0 .. WALKDIR_MAX_ENTRIES /\ pc' = "ping"
    BY <1>3, SpaceBootAssumption DEF SelectGiven
  <2>3. UNCHANGED <<nodeVars, param_list, cmd, result, report, rdpVars>>
    BY <1>3 DEF SelectGiven
  <2> QED BY <2>1, <2>2, <2>3 DEF Typed, TypeOK, nodeVars, rdpVars, RdpTypeOK, SwitchBoots
<1>4. ASSUME NEW found \in Found(cmd.slot), SelectSearched(found)
      PROVE  Typed'
  <2>1. files' \in [Entries -> Files \cup {NoFile}] /\ count' \in 0 .. WALKDIR_MAX_ENTRIES
    BY <1>0, <1>4, OverwrittenType DEF SelectSearched
  <2>2. path' \in Files \cup {NoFile}
    <3>1. PICK index \in Choice(found) : path' = files'[index]
      BY <1>4 DEF SelectSearched
    <3>2. index \in Entries
      BY SlotFacts DEF Choice
    <3> QED BY <2>1, <3>1, <3>2, Zenon
  <2>3. UNCHANGED <<nodeVars, param_list, cmd, result, report, rdpVars>> /\ pc' = "ping"
    BY <1>4 DEF SelectSearched
  <2> QED BY <2>1, <2>2, <2>3 DEF Typed, TypeOK, nodeVars, rdpVars, RdpTypeOK, SwitchBoots
<1>5. ASSUME NEW found \in Found(cmd.slot), SelectAborted(found)
      PROVE  Typed'
  <2>1. files' \in [Entries -> Files \cup {NoFile}] /\ count' \in 0 .. WALKDIR_MAX_ENTRIES
    BY <1>0, <1>5, OverwrittenType DEF SelectAborted
  <2>2. RdpTypeOK' /\ cmd' \in CmdType /\ pc' = "idle" /\ result' = "einval"
    BY <1>1, <1>5 DEF SelectAborted
  <2>3. UNCHANGED <<nodeVars, param_list, path, report>>
    BY <1>5 DEF SelectAborted
  <2> QED BY <2>1, <2>2, <2>3 DEF Typed, TypeOK, CmdType, nodeVars, SwitchBoots
<1>6. ASSUME NEW answered \in BOOLEAN, Proceed(answered)
      PROVE  Typed'
  <2>1. /\ RdpTypeOK' /\ cmd' \in CmdType /\ pc' \in {"idle", "upload"}
        /\ result' \in {"none", "success", "einval", "eio", "enospc"}
    BY <1>0, <1>1, <1>6 DEF Proceed, rdpVars, RdpTypeOK, Typed, TypeOK
  <2>2. UNCHANGED <<nodeVars, param_list, binVars, path, report>>
    BY <1>6 DEF Proceed
  <2> QED BY <2>1, <2>2 DEF Typed, TypeOK, CmdType, binVars, nodeVars, SwitchBoots
<1>7. ASSUME NEW arrived \in {"none", "some", "all"}, NEW complete \in BOOLEAN,
             do_upload(arrived, complete)
      PROVE  Typed'
  <2>1. flash' \in [Slots -> Images]
    <3>1. flash \in [Slots -> Images] /\ path \in Images /\ Partial \in Images
      BY <1>0, SlotFacts, Zenon DEF TypeOK
    <3>2. \/ flash' = flash
          \/ flash' = [flash EXCEPT ![cmd.slot] = Partial]
          \/ flash' = [flash EXCEPT ![cmd.slot] = path]
      BY <1>7 DEF do_upload
    <3> HIDE DEF Images, Partial, Slots
    <3> QED BY <3>1, <3>2
  <2>2. /\ RdpTypeOK' /\ cmd' \in CmdType /\ pc' \in {"idle", "verify"}
        /\ result' \in {"none", "success", "einval", "eio", "enospc"}
    <3>1. CASE complete
      BY <1>0, <1>7, <3>1 DEF do_upload, rdpVars, RdpTypeOK, Typed, TypeOK
    <3>2. CASE ~complete /\ cmd.crc
      BY <1>0, <1>7, <3>2, LeaveType DEF do_upload, rdpVars, RdpTypeOK
    <3>3. CASE ~complete /\ ~cmd.crc
      BY <1>1, <1>7, <3>3 DEF do_upload
    <3> QED BY <3>1, <3>2, <3>3
  <2>3. UNCHANGED <<boot_img, running, param_list, binVars, path, report>>
    BY <1>7 DEF do_upload
  <2> QED BY <2>1, <2>2, <2>3 DEF Typed, TypeOK, CmdType, binVars, SwitchBoots
<1>8. ASSUME NEW answered \in BOOLEAN, Verify(answered)
      PROVE  Typed'
  <2>1. PICK same \in Matches(answered) :
           IF same /\ cmd.name = "sps" THEN pc' = "switch" /\ UNCHANGED <<cmd, result, rdpVars>>
           ELSE Return(IF same THEN "success" ELSE "enospc")
    BY <1>8, Zenon DEF Verify
  <2>2. /\ RdpTypeOK' /\ cmd' \in CmdType /\ pc' \in {"idle", "switch"}
        /\ result' \in {"none", "success", "einval", "eio", "enospc"}
    <3>1. CASE same /\ cmd.name = "sps"
      BY <1>0, <2>1, <3>1 DEF rdpVars, RdpTypeOK, Typed, TypeOK
    <3>2. CASE ~(same /\ cmd.name = "sps")
      <4>1. Return("success") \/ Return("enospc")
        BY <2>1, <3>2
      <4> QED BY <1>1, <4>1
    <3> QED BY <3>1, <3>2
  <2>3. UNCHANGED <<nodeVars, param_list, binVars, path, report>>
    BY <1>8 DEF Verify
  <2> QED BY <2>2, <2>3 DEF Typed, TypeOK, CmdType, binVars, nodeVars, SwitchBoots
<1>9. ASSUME NEW pushed \in Delivery, NEW rebooted \in Delivery, SpsSwitch(pushed, rebooted)
      PROVE  Typed'
  <2>1. /\ boot_img' \in [Slots -> 0 .. 255] /\ running' \in Slots
        /\ param_list' \subseteq Slots /\ report' \in [slot : Nat, times : Nat]
        /\ SwitchBoots'
    <3>1. cmd.slot \in Nat /\ 1 \in Nat
      BY <1>0 DEF CmdType
    <3> QED BY <1>0, <1>9, <3>1, ResetToFlash DEF SpsSwitch
  <2>2. RdpTypeOK' /\ cmd' \in CmdType /\ pc' = "idle" /\ result' = "success"
    BY <1>1, <1>9 DEF SpsSwitch
  <2>3. UNCHANGED <<flash, binVars, path>>
    BY <1>9 DEF SpsSwitch
  <2> QED BY <2>1, <2>2, <2>3 DEF Typed, TypeOK, CmdType, binVars
<1> QED BY <1>2, <1>3, <1>4, <1>5, <1>6, <1>7, <1>8, <1>9, Zenon DEF Body

(* A reboot by itself only changes what the node runs.                     *)
LEMMA RebootTyped ==
  ASSUME Typed, NodeReboots
  PROVE  Typed'
<1>1. boot_img \in [Slots -> 0 .. 255] /\ BootInto(boot_img)
  BY Zenon DEF Typed, TypeOK, NodeReboots
<1>2. running' \in Slots /\ boot_img' \in [Slots -> 0 .. 255]
  BY <1>1, BootIntoType
<1>3. report' = NoReport /\ UNCHANGED <<flash, param_list, binVars, cshVars, rdpVars>>
  BY DEF NodeReboots
<1>4. SwitchBoots' /\ report' \in [slot : Nat, times : Nat]
  BY <1>3 DEF SwitchBoots, NoReport
<1> QED BY <1>2, <1>3, <1>4 DEF Typed, TypeOK, binVars, cshVars, rdpVars, RdpTypeOK

(* Of all firmware updates, at all times.                                  *)
LEMMA TypedAlways == Spec => []Typed
<1>1. Init => Typed
  <2> SUFFICES ASSUME Init PROVE Typed
    OBVIOUS
  <2>1. param_list \subseteq Slots
    BY SpaceBootAssumption DEF Init, Slots
  <2>2. cmd \in CmdType /\ report \in [slot : Nat, times : Nat] /\ RdpTypeOK
    BY DEF Init, NoCmd, NoReport, CmdType, RdpInit, RdpTypeOK, DflWindow
  <2>3. flash \in [Slots -> Images] /\ files \in [Entries -> Files \cup {NoFile}]
    <3>1. Factory \in Images
      BY SlotFacts
    <3> QED BY <3>1, Zenon DEF Init
  <2>4. SwitchBoots
    BY DEF Init, SwitchBoots, NoReport
  <2>5. count \in 0 .. WALKDIR_MAX_ENTRIES /\ boot_img \in [Slots -> 0 .. 255]
    BY SpaceBootAssumption DEF Init
  <2> QED BY <2>1, <2>2, <2>3, <2>4, <2>5 DEF Init, Typed, TypeOK, CmdType
<1>2. Typed /\ [Next]_vars => Typed'
  <2>1. Typed /\ UNCHANGED vars => Typed'
    BY DEF Typed, TypeOK, SwitchBoots, vars, nodeVars, binVars, cshVars, rdpVars, RdpTypeOK
  <2> QED BY <2>1, BeginTyped, BodyTyped, RebootTyped DEF Next
<1> QED BY <1>1, <1>2, PTL DEF Spec

(* When push and reboot arrived, the node runs the slot that switch or sps *)
(* told it to, for every number of slots and of boots, unless the number's *)
(* low byte is zero.                                                       *)
THEOREM SpaceSwitchBoots == Spec => []SwitchBoots
<1>1. Typed => SwitchBoots
  BY DEF Typed
<1> QED BY <1>1, TypedAlways, PTL

-----------------------------------------------------------------------------
(* What program and sps say and do.                                        *)

(* With -C, success is only said after the comparison, and what was        *)
(* compared stays in the flash until the next transfer.                    *)
LEMMA CrcStep ==
  ASSUME TypeOK, TypeOK', CrcSuccessMeansProgrammed, [Next]_vars
  PROVE  CrcSuccessMeansProgrammed'
<1> DEFINE Said == cmd.crc /\ (pc = "switch" \/ (pc = "idle" /\ result = "success"))
<1>0. Said => flash[cmd.slot] = path
  BY DEF CrcSuccessMeansProgrammed
<1> SUFFICES ASSUME Said' PROVE flash'[cmd'.slot] = path'
  BY DEF CrcSuccessMeansProgrammed
<1>00. cmd \in CmdType
  BY Zenon DEF TypeOK, CmdType
<1>a. CASE UNCHANGED <<flash, cmd, pc, path, result>>
  BY <1>0, <1>a
<1>1. ASSUME NEW slot, NEW times, NEW pushed, NEW rebooted,
             slash_csp_switch(slot, times, pushed, rebooted)
      PROVE  FALSE
  BY <1>1 DEF slash_csp_switch, NoCmd
<1>2. ASSUME NEW slot, NEW file, NEW crc, NEW given, slash_csp_program(slot, file, crc, given)
      PROVE  FALSE
  BY <1>2 DEF slash_csp_program
<1>3. ASSUME NEW from, NEW to, NEW file, NEW crc, NEW given, NEW pushed, NEW rebooted,
             slash_sps(from, to, file, crc, given, pushed, rebooted)
      PROVE  FALSE
  BY <1>3 DEF slash_sps
<1>4. ASSUME NEW given, CommandRefused(given)
      PROVE  FALSE
  BY <1>4 DEF CommandRefused
<1>5. CASE (\E given \in Windows, parsed \in BOOLEAN : RdpOpt(given, parsed)) \/ NodeReboots
           \/ UNCHANGED vars
  BY <1>a, <1>5 DEF RdpOpt, NodeReboots, vars, nodeVars, cshVars
<1>6. ASSUME NEW res, Return(res) \/ Leave(res), res # "success" PROVE FALSE
  BY <1>6 DEF Return, Leave
<1>7. CASE \E answered \in BOOLEAN : FindVmem(answered) \/ Proceed(answered)
  BY <1>6, <1>7 DEF FindVmem, Proceed
<1>8. CASE \E found \in Found(cmd.slot) : SelectSearched(found) \/ SelectAborted(found)
  BY <1>6, <1>8 DEF SelectSearched, SelectAborted
<1>9. CASE SelectGiven
  BY <1>9 DEF SelectGiven
<1>10. ASSUME NEW arrived, NEW complete, do_upload(arrived, complete) PROVE FALSE
  BY <1>6, <1>10 DEF do_upload
<1>11. ASSUME NEW answered \in BOOLEAN, Verify(answered) PROVE flash'[cmd'.slot] = path'
  <2>1. PICK same \in Matches(answered) :
           IF same /\ cmd.name = "sps" THEN pc' = "switch" /\ UNCHANGED <<cmd, result, rdpVars>>
           ELSE Return(IF same THEN "success" ELSE "enospc")
    BY <1>11, Zenon DEF Verify
  <2>2. cmd'.crc = cmd.crc /\ cmd'.slot = cmd.slot /\ same
    <3>1. CASE same /\ cmd.name = "sps"
      BY <2>1, <3>1
    <3>2. CASE same /\ ~(cmd.name = "sps")
      BY <1>00, <2>1, <3>2, LeaveType DEF Return
    <3>3. CASE ~same
      <4>1. Return("enospc")
        BY <2>1, <3>3
      <4> QED BY <1>6, <4>1
    <3> QED BY <3>1, <3>2, <3>3
  <2>3. flash[cmd.slot] = path
    BY <2>1, <2>2 DEF Matches
  <2> QED BY <1>11, <2>2, <2>3 DEF Verify, nodeVars
<1>12. ASSUME NEW pushed, NEW rebooted, SpsSwitch(pushed, rebooted) PROVE flash'[cmd'.slot] = path'
  <2>1. cmd'.crc = cmd.crc /\ cmd'.slot = cmd.slot /\ pc = "switch"
    BY <1>00, <1>12, LeaveType DEF SpsSwitch, Return
  <2> QED BY <1>0, <1>12, <2>1 DEF SpsSwitch
<1>13. CASE Begin
  BY <1>1, <1>2, <1>3, <1>4, <1>5, <1>13, Zenon DEF Begin
<1>14. CASE Body
  BY <1>7, <1>8, <1>9, <1>10, <1>11, <1>12, <1>14, Zenon DEF Body
<1> QED BY <1>5, <1>13, <1>14, Zenon DEF Next

(* With -C, for every set of images and slots: what program and sps call a *)
(* success is in the flash, whatever was lost on the way.                  *)
THEOREM SpaceCrcMeansProgrammed == Spec => []CrcSuccessMeansProgrammed
<1>1. Init /\ Typed => CrcSuccessMeansProgrammed
  BY DEF Init, Typed, CrcSuccessMeansProgrammed, NoCmd
<1>2. Typed /\ Typed' /\ CrcSuccessMeansProgrammed /\ [Next]_vars => CrcSuccessMeansProgrammed'
  BY CrcStep DEF Typed
<1> QED BY <1>1, <1>2, TypedAlways, PTL DEF Spec

(* sps sets its options before its first request and nothing touches them  *)
(* until it returns: no command runs in between.                           *)
LEMMA OptionsStep ==
  ASSUME cmd \in CmdType, OptionsInv, [Next]_vars
  PROVE  OptionsInv'
<1>a. CASE UNCHANGED <<rdp_active, cmd>> /\ pc \in Busy
  BY <1>a DEF OptionsInv
<1>b. CASE pc' \notin Busy
  BY <1>b DEF OptionsInv
<1>1. ASSUME NEW slot, NEW times, NEW pushed, NEW rebooted,
             slash_csp_switch(slot, times, pushed, rebooted)
      PROVE  OptionsInv'
  BY <1>b, <1>1 DEF slash_csp_switch, Busy
<1>2. ASSUME NEW slot, NEW file, NEW crc, NEW given, slash_csp_program(slot, file, crc, given)
      PROVE  OptionsInv'
  BY <1>2 DEF slash_csp_program, OptionsInv
<1>3. ASSUME NEW from, NEW to, NEW file, NEW crc, NEW given, NEW pushed, NEW rebooted,
             slash_sps(from, to, file, crc, given, pushed, rebooted)
      PROVE  OptionsInv'
  BY <1>3 DEF slash_sps, OptionsInv, rdp_opt_set
<1>4. ASSUME NEW given, CommandRefused(given)
      PROVE  OptionsInv'
  BY <1>b, <1>4 DEF CommandRefused, Busy
<1>5. ASSUME NEW given, NEW parsed, RdpOpt(given, parsed)
      PROVE  OptionsInv'
  BY <1>b, <1>5 DEF RdpOpt, cshVars, Busy
<1>6. CASE NodeReboots \/ UNCHANGED vars
  BY <1>6 DEF NodeReboots, vars, cshVars, rdpVars, OptionsInv
<1>7. ASSUME NEW res, Return(res) \/ Leave(res) PROVE OptionsInv'
  BY <1>b, <1>7 DEF Return, Leave, Busy
<1>8. CASE \E answered \in BOOLEAN : FindVmem(answered) \/ Proceed(answered)
  <2>1. PICK answered \in BOOLEAN : FindVmem(answered) \/ Proceed(answered)
    BY <1>8
  <2>2. CASE UNCHANGED <<cmd, result, rdpVars>>
    BY <1>a, <2>1, <2>2 DEF FindVmem, Proceed, rdpVars, Busy
  <2>3. CASE Return("einval")
    BY <1>7, <2>3
  <2> QED BY <2>1, <2>2, <2>3 DEF FindVmem, Proceed
<1>9. CASE SelectGiven \/ \E found \in Found(cmd.slot) : SelectSearched(found)
  BY <1>a, <1>9 DEF SelectGiven, SelectSearched, rdpVars, Busy
<1>10. CASE \E found \in Found(cmd.slot) : SelectAborted(found)
  BY <1>7, <1>10, Zenon DEF SelectAborted
<1>11. ASSUME NEW arrived, NEW complete, do_upload(arrived, complete) PROVE OptionsInv'
  BY <1>a, <1>7, <1>11 DEF do_upload, rdpVars, Busy
<1>12. ASSUME NEW answered, Verify(answered) PROVE OptionsInv'
  BY <1>b, <1>7, <1>12 DEF Verify, Busy
<1>13. ASSUME NEW pushed, NEW rebooted, SpsSwitch(pushed, rebooted) PROVE OptionsInv'
  BY <1>7, <1>13, Zenon DEF SpsSwitch
<1>14. CASE Begin
  BY <1>1, <1>2, <1>3, <1>4, <1>5, <1>14, Zenon DEF Begin
<1>15. CASE Body
  BY <1>8, <1>9, <1>10, <1>11, <1>12, <1>13, <1>15, Zenon DEF Body
<1> QED BY <1>6, <1>14, <1>15, Zenon DEF Next

(* sps transfers with the options it was given, or the defaults, for every *)
(* sequence of commands and of values of -w.                               *)
THEOREM SpaceSpsUsesOptions == Spec => []SpsUsesOptions
<1>1. Init => OptionsInv
  BY DEF Init, OptionsInv, Busy
<1>2. Typed /\ OptionsInv /\ [Next]_vars => OptionsInv'
  BY OptionsStep DEF Typed, TypeOK, CmdType
<1>3. OptionsInv => SpsUsesOptions
  BY DEF OptionsInv, SpsUsesOptions, Busy
<1> QED BY <1>1, <1>2, <1>3, TypedAlways, PTL DEF Spec

(* The first entries of bin_info are the hits of the last search, from the *)
(* search until the transfer.                                              *)
LEMMA FoundStep ==
  ASSUME TypeOK, FoundInv, [Next]_vars
  PROVE  FoundInv'
<1>a. CASE UNCHANGED <<binVars, cmd>> /\ pc \in {"ping", "upload"}
  BY <1>a DEF FoundInv, binVars
<1>b. CASE pc' \notin {"ping", "upload"}
  BY <1>b DEF FoundInv
<1>1. CASE Begin
  BY <1>b, <1>1 DEF Begin, TypeOK, slash_csp_switch, slash_csp_program, slash_sps,
     CommandRefused, RdpOpt, cshVars
<1>2. CASE NodeReboots \/ UNCHANGED vars
  BY <1>2 DEF NodeReboots, vars, cshVars, binVars, FoundInv
<1>3. ASSUME NEW res, Return(res) \/ Leave(res) PROVE FoundInv'
  BY <1>b, <1>3 DEF Return, Leave
<1>4. ASSUME NEW answered, FindVmem(answered) PROVE FoundInv'
  BY <1>b, <1>3, <1>4 DEF FindVmem
<1>5. CASE SelectGiven
  <2>1. cmd'.file # NoFile
    BY <1>5 DEF SelectGiven
  <2> QED BY <2>1, Zenon DEF FoundInv
<1>6. ASSUME NEW found \in Found(cmd.slot), SelectSearched(found) PROVE FoundInv'
  <2>1. files' = Overwritten(found) /\ count' = Len(found) /\ cmd' = cmd
    BY <1>6 DEF SelectSearched
  <2>2. \A i \in 1 .. Len(found) : Overwritten(found)[i] \in ValidFor(cmd.slot)
    BY OverwrittenType
  <2> HIDE DEF ValidFor
  <2>3. \A i \in 1 .. count' : files'[i] \in ValidFor(cmd'.slot)
    BY <2>1, <2>2, Zenon
  <2> QED BY <2>3, Zenon DEF FoundInv
<1>7. CASE \E found \in Found(cmd.slot) : SelectAborted(found)
  BY <1>3, <1>7, Zenon DEF SelectAborted
<1>8. ASSUME NEW answered, Proceed(answered) PROVE FoundInv'
  BY <1>a, <1>3, <1>8 DEF Proceed
<1>9. ASSUME NEW arrived, NEW complete, do_upload(arrived, complete) PROVE FoundInv'
  BY <1>b, <1>3, <1>9 DEF do_upload
<1>10. ASSUME NEW answered, Verify(answered) PROVE FoundInv'
  BY <1>b, <1>3, <1>10 DEF Verify
<1>11. ASSUME NEW pushed, NEW rebooted, SpsSwitch(pushed, rebooted) PROVE FoundInv'
  BY <1>3, <1>11, Zenon DEF SpsSwitch
<1>12. CASE Body
  BY <1>4, <1>5, <1>6, <1>7, <1>8, <1>9, <1>10, <1>11, <1>12, Zenon DEF Body
<1> QED BY <1>1, <1>2, <1>12, Zenon DEF Next

(* For every size of slots and of files: a file that the search offered    *)
(* ends before the slot does.                                              *)
THEOREM SpaceOfferedFits == Spec => []OfferedFits
<1>1. Init => FoundInv
  BY DEF Init, FoundInv
<1>2. Typed /\ FoundInv /\ [Next]_vars => FoundInv'
  BY FoundStep DEF Typed
<1>3. Typed /\ FoundInv => OfferedFits
  <2> SUFFICES ASSUME Typed, FoundInv, pc = "upload", cmd.file = NoFile,
                      NEW i \in 1 .. count, path = files[i]
               PROVE  Base(cmd.slot) + path.len < Base(cmd.slot) + SlotSize
    BY Zenon DEF OfferedFits
  <2>1. path \in ValidFor(cmd.slot)
    BY DEF FoundInv
  <2>2. /\ path \in Files /\ path.len \in Nat /\ cmd.slot \in Nat /\ SlotSize \in Nat
        /\ is_valid_binary(path, Base(cmd.slot), Base(cmd.slot) + SlotSize - 1)
    BY <2>1, SpaceBootAssumption DEF ValidFor, Typed, TypeOK, FileRecords
  <2>3. Base(cmd.slot) \in Nat
    BY <2>2 DEF Base
  <2>4. Base(cmd.slot) + path.len <= Base(cmd.slot) + SlotSize - 1
    BY <2>2 DEF is_valid_binary
  <2> QED BY <2>2, <2>3, <2>4
<1> QED BY <1>1, <1>2, <1>3, TypedAlways, PTL DEF Spec
=============================================================================
