----------------------------- MODULE FilesProofs -----------------------------
(* Theorems about the files a session leaves behind, for every length and  *)
(* every sequence of downloads, uploads and `rdp opt`; about the variables *)
(* that tell a script its own file; and about the names of nodes, which a  *)
(* restart brings back from the hosts file.                                *)
EXTENDS MCFiles, TLAPS, SequenceTheorems, FiniteSetTheorems, WellFoundedInduction

-----------------------------------------------------------------------------
(* Downloads.                                                              *)

(* StatMatchesFile, and a command that begins has not completed a file.    *)
DownloadInv == StatMatchesFile /\ (finished => pc = "idle")

(* The area as a sequence.                                                 *)
LEMMA AreaSeq ==
  ASSUME NEW n \in Nat
  PROVE  /\ Area(n) \in Seq(Nat) /\ Len(Area(n)) = n
         /\ \A i \in 1 .. n : Area(n)[i] = i
         /\ Area(0) = << >>
BY DEF Area

(* Two sequences, one behind the other.                                    *)
LEMMA Behind ==
  ASSUME NEW s \in Seq(Nat), NEW t \in Seq(Nat)
  PROVE  /\ s \o t \in Seq(Nat) /\ Len(s \o t) = Len(s) + Len(t)
         /\ \A i \in 1 .. Len(s) + Len(t) :
              (s \o t)[i] = IF i <= Len(s) THEN s[i] ELSE t[i - Len(s)]
BY ConcatProperties

(* What fwrite appends continues the area.                                 *)
LEMMA AreaGrows ==
  ASSUME offset \in Nat, NEW count \in Nat
  PROVE  Area(offset) \o Fetched(count) = Area(offset + count)
<1>0. Fetched(count) \in Seq(Nat)
  BY DEF Fetched
<1>1. PICK F \in Seq(Nat) : F = Fetched(count)
  BY <1>0, Zenon
<1>2. Len(F) = count /\ \A i \in 1 .. count : F[i] = offset + i
  BY <1>1 DEF Fetched
<1>3. PICK A \in Seq(Nat) : A = Area(offset)
  BY AreaSeq
<1>4. Len(A) = offset /\ \A i \in 1 .. offset : A[i] = i
  BY <1>3, AreaSeq
<1>a. PICK m \in Nat : m = offset + count
  OBVIOUS
<1>5. PICK B \in Seq(Nat) : B = Area(m)
  BY AreaSeq
<1>6. Len(B) = m /\ \A i \in 1 .. m : B[i] = i
  BY <1>5, AreaSeq
<1>7. PICK C \in Seq(Nat) : /\ C = A \o F /\ Len(C) = Len(A) + Len(F)
                            /\ \A i \in 1 .. Len(A) + Len(F) :
                                 C[i] = IF i <= Len(A) THEN A[i] ELSE F[i - Len(A)]
  BY Behind, Zenon
<1>8. Len(C) = Len(B)
  BY <1>2, <1>4, <1>6, <1>7, <1>a
<1>9. ASSUME NEW i \in 1 .. Len(C) PROVE C[i] = B[i]
  <2>1. CASE i <= offset
    BY <1>2, <1>4, <1>6, <1>7, <1>a, <2>1
  <2>2. CASE i > offset
    <3>1. i - offset \in 1 .. count
      BY <1>2, <1>4, <1>7, <2>2
    <3>2. C[i] = F[i - offset] /\ B[i] = i
      BY <1>2, <1>4, <1>6, <1>7, <1>a, <2>2
    <3> QED BY <1>2, <3>1, <3>2
  <2> QED BY <2>1, <2>2
<1>10. C = B
  BY <1>8, <1>9, SeqEqual
<1> QED BY <1>1, <1>3, <1>5, <1>7, <1>10, <1>a

(* The RDP options stay numbers.                                           *)
LEMMA RdpTypes ==
  ASSUME RdpTypeOK, NEW given \in Windows, NEW parsed \in BOOLEAN,
         \/ rdp_opt_add(given) /\ UNCHANGED <<rdp_dfl, rdp_active>>
         \/ rdp_opt_add(given) /\ rdp_opt_set /\ UNCHANGED rdp_dfl
         \/ rdp_opt_reset /\ UNCHANGED <<rdp_dfl, rdp_tmp>>
         \/ vmem_client_rdp_options(given, parsed)
         \/ UNCHANGED rdpVars
  PROVE  RdpTypeOK'
BY WindowsAssumption DEF RdpTypeOK, rdp_opt_add, rdp_opt_set, rdp_opt_reset,
   vmem_client_rdp_options, Chosen, rdpVars

(* The transfer returns: the file and the status file go on together, or   *)
(* the status file is removed, or known not to be written.                 *)
LEMMA ReturnKeeps ==
  ASSUME DownloadInv, NEW count \in 0 .. length - offset, NEW stored \in StatWrites,
         TransferReturns(count, stored)
  PROVE  DownloadInv'
<1>0. /\ pc = "transfer" /\ offset \in Nat /\ length \in Nat /\ offset <= length /\ stat \in Nat
      /\ count \in Nat /\ file \in Seq(Nat) /\ stored \in BOOLEAN /\ has_stat \in BOOLEAN
      /\ stale \in BOOLEAN /\ RdpTypeOK
  BY DownloadAssumption DEF TransferReturns, DownloadInv, StatMatchesFile, TypeOK
<1>1. /\ file' = file \o Fetched(count) /\ pc' = "idle" /\ length' = length /\ offset' = offset
      /\ rdp_opt_reset /\ UNCHANGED <<rdp_dfl, rdp_tmp>>
  BY DEF TransferReturns, Written
<1>2. file' \in Seq(Nat)
  <2>1. Fetched(count) \in Seq(Nat)
    BY <1>0 DEF Fetched
  <2> QED BY <1>0, <1>1, <2>1, Behind
<1>3. ~stale => file' = Area(offset + count)
  <2> SUFFICES ASSUME ~stale PROVE file' = Area(offset + count)
    OBVIOUS
  <2>1. file = Area(offset)
    BY <1>0 DEF DownloadInv, StatMatchesFile
  <2> QED BY <1>0, <1>1, <2>1, AreaGrows, Zenon
<1>4. RdpTypeOK'
  BY <1>0, <1>1 DEF RdpTypeOK, rdp_opt_reset
<1>5. CASE count # length - offset /\ stored
  <2>1. has_stat' = TRUE /\ stat' = offset + count /\ stale' = stale /\ finished' = FALSE
    BY <1>0, <1>5 DEF TransferReturns, NewStat
  <2>2. TypeOK'
    <3>0. stat' = offset + count /\ stat' \in Nat
      BY <1>0, <2>1
    <3>1. stat' \in Nat /\ has_stat' \in BOOLEAN /\ stale' \in BOOLEAN /\ finished' \in BOOLEAN
      BY <1>0, <2>1, <3>0, Zenon
    <3>2. length' \in Nat /\ offset' \in Nat /\ pc' \in {"idle", "ask", "transfer"}
      BY <1>0, <1>1
    <3> QED BY <1>2, <1>4, <3>1, <3>2, Zenon DEF TypeOK
  <2> QED BY <1>0, <1>1, <1>3, <2>1, <2>2 DEF DownloadInv, StatMatchesFile
<1>6. CASE count # length - offset /\ ~stored
  <2>1. /\ has_stat' = has_stat /\ stat' = stat /\ finished' = FALSE
        /\ stale' = (stale \/ (has_stat /\ stat # offset + count))
    BY <1>6 DEF TransferReturns
  <2>2. stale' \in BOOLEAN
    BY <2>1
  <2>3. TypeOK'
    BY <1>0, <1>1, <1>2, <1>4, <2>1, <2>2 DEF TypeOK
  <2>4. ~stale' => ~stale /\ (has_stat => stat = offset + count)
    BY <2>1
  <2> QED BY <1>1, <1>3, <2>1, <2>3, <2>4 DEF DownloadInv, StatMatchesFile
<1>7. CASE count = length - offset
  <2>1. has_stat' = FALSE /\ stat' = 0 /\ stale' = stale /\ finished' = TRUE
    BY <1>7 DEF TransferReturns
  <2>2. TypeOK'
    BY <1>0, <1>1, <1>2, <1>4, <2>1 DEF TypeOK
  <2>3. offset + count = length'
    BY <1>0, <1>1, <1>7
  <2> QED BY <1>1, <1>3, <2>1, <2>2, <2>3 DEF DownloadInv, StatMatchesFile
<1> QED BY <1>5, <1>6, <1>7

(* A download begins: without a status file anew, with one the user is     *)
(* asked.                                                                  *)
LEMMA OpenKeeps ==
  ASSUME DownloadInv, NEW len \in Lengths, NEW given \in Windows, Open(len, given)
  PROVE  DownloadInv'
<1>0. /\ pc = "idle" /\ len \in Nat /\ stat \in Nat /\ file \in Seq(Nat) /\ has_stat \in BOOLEAN
      /\ stale \in BOOLEAN /\ RdpTypeOK
  BY DownloadAssumption DEF Open, DownloadInv, StatMatchesFile, TypeOK
<1>1. RdpTypeOK' /\ length' = len /\ finished' = FALSE /\ has_stat' = has_stat /\ stat' = stat
  BY <1>0, RdpTypes DEF Open
<1>2. CASE has_stat
  <2>1. offset' = stat /\ pc' = "ask" /\ file' = file /\ stale' = stale
    BY <1>2 DEF Open
  <2> QED BY <1>0, <1>1, <1>2, <2>1 DEF DownloadInv, StatMatchesFile, TypeOK
<1>3. CASE ~has_stat
  <2>1. offset' = 0 /\ pc' = "transfer" /\ file' = << >> /\ stale' = FALSE
    BY <1>3 DEF Open
  <2>2. << >> \in Seq(Nat) /\ Area(0) = << >>
    BY AreaSeq
  <2>3. TypeOK'
    BY <1>0, <1>1, <2>1, <2>2 DEF TypeOK
  <2> QED BY <1>0, <1>1, <2>1, <2>2, <2>3 DEF DownloadInv, StatMatchesFile
<1> QED BY <1>2, <1>3

(* The steps of a download, and those that leave its variables alone.      *)
LEMMA DownloadStep ==
  ASSUME DownloadInv, Next \/ (UNCHANGED <<fileVars, cmdVars>> /\ RdpTypeOK')
  PROVE  DownloadInv'
<1>0. TypeOK /\ RdpTypeOK /\ stale \in BOOLEAN
  BY DEF DownloadInv, StatMatchesFile, TypeOK
<1>1. ASSUME NEW given \in Windows, Refused(given) \/ EarlyReturn(given)
      PROVE  DownloadInv'
  <2>1. RdpTypeOK' /\ finished' = FALSE /\ UNCHANGED <<fileVars, length, offset, pc>>
    BY <1>0, <1>1, RdpTypes DEF Refused, EarlyReturn
  <2> QED BY <2>1 DEF DownloadInv, StatMatchesFile, TypeOK, fileVars
<1>2. CASE AnswerYes
  <2>1. pc' = IF offset <= length THEN "transfer" ELSE "idle"
    BY <1>2 DEF AnswerYes, OffsetOK
  <2>2. pc = "ask" /\ RdpTypeOK' /\ UNCHANGED <<fileVars, length, offset, finished>>
    BY <1>0, <1>2, RdpTypes DEF AnswerYes, rdpVars, RdpTypeOK
  <2> QED BY <2>1, <2>2 DEF DownloadInv, StatMatchesFile, TypeOK, fileVars
<1>3. CASE AnswerNo
  <2>1. /\ pc = "ask" /\ file' = << >> /\ offset' = 0 /\ stale' = FALSE /\ pc' = "transfer"
        /\ RdpTypeOK' /\ UNCHANGED <<has_stat, stat, length, finished>>
    BY <1>0, <1>3 DEF AnswerNo, rdpVars, RdpTypeOK
  <2>2. << >> \in Seq(Nat) /\ Area(0) = << >>
    BY AreaSeq
  <2>3. TypeOK'
    BY <1>0, <2>1, <2>2 DEF TypeOK
  <2> QED BY <1>0, <2>1, <2>2, <2>3 DEF DownloadInv, StatMatchesFile, TypeOK
<1>4. CASE TransferFails
  <2>1. /\ pc = "transfer" /\ pc' = "idle" /\ stale' = (stale \/ (has_stat /\ stat # offset))
        /\ RdpTypeOK' /\ UNCHANGED <<file, has_stat, stat, length, offset, finished>>
    BY <1>0, <1>4 DEF TransferFails, rdpVars, RdpTypeOK
  <2>2. stale' \in BOOLEAN /\ (~stale' => ~stale /\ (has_stat => stat = offset))
    BY <2>1
  <2>3. TypeOK'
    BY <1>0, <2>1, <2>2 DEF TypeOK
  <2>4. ~finished
    BY <2>1 DEF DownloadInv
  <2> HIDE DEF TypeOK
  <2> QED BY <2>1, <2>2, <2>3, <2>4 DEF DownloadInv, StatMatchesFile
<1>5. CASE UNCHANGED <<fileVars, cmdVars>> /\ RdpTypeOK'
  BY <1>5 DEF DownloadInv, StatMatchesFile, TypeOK, fileVars, cmdVars
<1>6. ASSUME NEW given \in Windows, NEW parsed \in BOOLEAN, RdpOpt(given, parsed)
      PROVE  DownloadInv'
  BY <1>0, <1>5, <1>6, RdpTypes DEF RdpOpt
<1> QED BY <1>1, <1>2, <1>3, <1>4, <1>5, <1>6, OpenKeeps, ReturnKeeps, Zenon DEF Next

-----------------------------------------------------------------------------
(* Uploads.                                                                *)

(* NoHole, and while a transfer runs, what it relies on: nothing is        *)
(* missing before its offset, and its window is the one in force.          *)
UploadInv ==
  /\ NoHole
  /\ up_pc = "transfer" => 1 .. up_offset \subseteq written /\ used = rdp_active
  /\ up_result = "success" => up_pc = "idle"

(* What a transfer of `count` bytes delivers: all but a window of packets. *)
LEMMA Arrives ==
  ASSUME UploadInv, up_pc = "transfer", NEW count \in U!Counts, NEW n \in U!Delivered(count)
  PROVE  /\ count \in Nat /\ up_offset + count <= FileSize
         /\ n \in Nat /\ n <= count /\ count <= n + used * VMEM_SERVER_MTU
         /\ used * VMEM_SERVER_MTU \in Nat /\ used \in Nat
         /\ up_offset \in Nat /\ FileSize \in Nat /\ VMEM_SERVER_MTU \in Nat
<1>1. up_offset \in 0 .. FileSize /\ used \in Nat /\ used = rdp_active
  BY DEF UploadInv, NoHole, U!NoHole, U!TypeOK
<1>2. FileSize \in Nat /\ VMEM_SERVER_MTU \in Nat
  BY UploadAssumption
<1>3. count \in 0 .. FileSize - up_offset
  BY DEF U!Counts
<1>4. n \in 0 .. count /\ count <= n + used * VMEM_SERVER_MTU
  BY <1>1 DEF U!Delivered, U!InFlight
<1>5. used * VMEM_SERVER_MTU \in Nat
  BY <1>1, <1>2
<1> QED BY <1>1, <1>2, <1>3, <1>4, <1>5

(* The bytes it stores continue those before its offset.                   *)
LEMMA Stores ==
  ASSUME UploadInv, up_pc = "transfer", NEW count \in U!Counts, NEW n \in U!Delivered(count),
         written' = written \cup U!Stored(n)
  PROVE  /\ written' \subseteq 1 .. FileSize /\ 1 .. up_offset + n \subseteq written'
         /\ written \subseteq written'
<1>1. /\ n \in Nat /\ n <= count /\ count \in Nat /\ up_offset + count <= FileSize
      /\ up_offset \in Nat /\ FileSize \in Nat
  BY Arrives
<1>2. written \subseteq 1 .. FileSize /\ 1 .. up_offset \subseteq written
  BY DEF UploadInv, NoHole, U!NoHole, U!TypeOK
<1>3. U!Stored(n) = up_offset + 1 .. up_offset + n
  BY DEF U!Stored
<1> QED BY <1>1, <1>2, <1>3

(* An upload that comes to the end of the file has handed all of it to RDP *)
(* and leaves its last window in doubt; one that breaks off suggests an    *)
(* offset a window and a packet before what it handed over.                *)
LEMMA UploadReturns ==
  ASSUME UploadInv, NEW count \in U!Counts, NEW n \in U!Delivered(count),
         U!TransferReturns(count, n) \/ U!TransferFails(count, n), RdpTypeOK'
  PROVE  UploadInv'
<1>0. /\ up_pc = "transfer" /\ written' = written \cup U!Stored(n) /\ up_pc' = "idle"
      /\ up_offset' = up_offset /\ used' = used
  BY DEF U!TransferReturns, U!TransferFails
<1>1. /\ count \in Nat /\ up_offset + count <= FileSize
      /\ n \in Nat /\ n <= count /\ count <= n + used * VMEM_SERVER_MTU
      /\ used * VMEM_SERVER_MTU \in Nat /\ used \in Nat
      /\ up_offset \in Nat /\ FileSize \in Nat /\ VMEM_SERVER_MTU \in Nat
  BY <1>0, Arrives
<1>2. /\ written' \subseteq 1 .. FileSize /\ 1 .. up_offset + n \subseteq written'
      /\ written \subseteq written'
  BY <1>0, Stores
<1>3. /\ suggested \in 0 .. FileSize /\ 1 .. suggested \subseteq written /\ up_offset \in 0 .. FileSize
      /\ used = rdp_active
  BY <1>0 DEF UploadInv, NoHole, U!NoHole, U!TypeOK
<1>4. suggested' \in 0 .. FileSize /\ 1 .. suggested' \subseteq written'
  <2>1. CASE suggested' = suggested
    BY <1>2, <1>3, <2>1
  <2>2. CASE suggested' = U!Suggest(count)
    <3> DEFINE w == used * VMEM_SERVER_MTU
    <3>1. U!Margin = w + VMEM_SERVER_MTU
      BY <1>1, <1>3 DEF U!Margin
    <3>2. w \in Nat /\ count <= n + w
      BY <1>1
    <3> HIDE DEF w
    <3>3. suggested' = IF up_offset + count > w + VMEM_SERVER_MTU
                       THEN up_offset + count - (w + VMEM_SERVER_MTU) ELSE 0
      BY <2>2, <3>1 DEF U!Suggest
    <3>4. suggested' \in Nat /\ suggested' <= up_offset + n /\ suggested' <= FileSize
      BY <1>1, <3>2, <3>3
    <3> QED BY <1>1, <1>2, <3>4
  <2> QED BY <2>1, <2>2 DEF U!TransferReturns, U!TransferFails
<1>5. up_result' \in {"success", "eio"}
  BY DEF U!TransferReturns, U!TransferFails
<1>6. ASSUME up_result' = "success", NEW i \in 1 .. FileSize, i + used * VMEM_SERVER_MTU <= FileSize
      PROVE  i \in written'
  <2>1. count = FileSize - up_offset
    BY <1>6 DEF U!TransferReturns, U!TransferFails
  <2> DEFINE w == used * VMEM_SERVER_MTU
  <2>2. w \in Nat /\ count <= n + w /\ i + w <= FileSize
    BY <1>1, <1>6
  <2> HIDE DEF w
  <2>3. i <= up_offset + n
    BY <1>1, <2>1, <2>2
  <2> QED BY <1>1, <1>2, <2>3
<1>7. U!TypeOK'
  BY <1>0, <1>1, <1>2, <1>3, <1>4, <1>5 DEF U!TypeOK, U!RdpTypeOK, RdpTypeOK
<1>8. U!NoHole'
  BY <1>0, <1>4, <1>6, <1>7 DEF U!NoHole
<1> QED BY <1>0, <1>8 DEF UploadInv, NoHole

(* The steps of an upload, and those that leave its variables alone; the   *)
(* options only change between transfers.                                  *)
LEMMA UploadStep ==
  ASSUME UploadInv, RdpTypeOK',
         \/ U!Next
         \/ UNCHANGED upVars /\ (up_pc = "idle" \/ UNCHANGED rdp_active)
  PROVE  UploadInv'
<1>0. U!TypeOK /\ 1 .. suggested \subseteq written
  BY DEF UploadInv, NoHole, U!NoHole
<1>1. ASSUME NEW given \in Windows, U!EarlyReturn(given)
      PROVE  UploadInv'
  <2>1. /\ up_pc = "idle" /\ up_result' = "einval"
        /\ UNCHANGED <<written, up_offset, suggested, up_pc, used>>
    BY <1>1 DEF U!EarlyReturn
  <2>2. U!TypeOK'
    BY <1>0, <2>1 DEF U!TypeOK, U!RdpTypeOK, RdpTypeOK
  <2> QED BY <1>0, <2>1, <2>2 DEF UploadInv, NoHole, U!NoHole
<1>2. ASSUME NEW off \in {0, suggested}, NEW given \in Windows, U!Upload(off, given)
      PROVE  UploadInv'
  <2>1. /\ up_offset' = off /\ used' = rdp_active' /\ up_pc' = "transfer" /\ up_result' = "none"
        /\ UNCHANGED <<written, suggested>>
    BY <1>2 DEF U!Upload
  <2>2. off \in 0 .. FileSize /\ 1 .. off \subseteq written
    BY <1>0, UploadAssumption DEF U!TypeOK
  <2>3. U!TypeOK'
    BY <1>0, <2>1, <2>2 DEF U!TypeOK, U!RdpTypeOK, RdpTypeOK
  <2> QED BY <1>0, <2>1, <2>2, <2>3 DEF UploadInv, NoHole, U!NoHole
<1>3. ASSUME NEW given \in Windows, NEW parsed \in BOOLEAN, U!RdpOpt(given, parsed)
      PROVE  UploadInv'
  <2>1. up_pc = "idle" /\ UNCHANGED <<written, up_offset, suggested, up_pc, up_result, used>>
    BY <1>3 DEF U!RdpOpt
  <2>2. U!TypeOK'
    BY <1>0, <2>1 DEF U!TypeOK, U!RdpTypeOK, RdpTypeOK
  <2> QED BY <2>1, <2>2 DEF UploadInv, NoHole, U!NoHole
<1>4. CASE UNCHANGED upVars /\ (up_pc = "idle" \/ UNCHANGED rdp_active)
  <2>1. UNCHANGED <<written, up_offset, suggested, up_pc, up_result, used>>
    BY <1>4 DEF upVars
  <2>2. U!TypeOK'
    BY <1>0, <2>1 DEF U!TypeOK, U!RdpTypeOK, RdpTypeOK
  <2> QED BY <1>4, <2>1, <2>2 DEF UploadInv, NoHole, U!NoHole
<1> QED BY <1>1, <1>2, <1>3, <1>4, UploadReturns, Zenon DEF U!Next

-----------------------------------------------------------------------------
(* Both in one session.                                                    *)
FtpInv == DownloadInv /\ UploadInv

(* The downloads and uploads of one session keep both invariants in every  *)
(* state: the options that `rdp opt` and a transfer's own -w change are    *)
(* all they share.                                                         *)
LEMMA FtpAlways == FtpSpec => []FtpInv
<1>1. FtpInit => FtpInv
  <2> SUFFICES ASSUME FtpInit PROVE FtpInv
    OBVIOUS
  <2>1. RdpTypeOK /\ U!RdpTypeOK
    BY DEF FtpInit, Init, RdpInit, RdpTypeOK, U!RdpTypeOK, DflWindow
  <2>2. StatMatchesFile /\ DownloadInv
    <3>1. << >> \in Seq(Nat) /\ 0 \in Nat
      OBVIOUS
    <3>2. TypeOK
      BY <2>1, <3>1 DEF FtpInit, Init, TypeOK
    <3>3. /\ pc = "idle" /\ ~has_stat /\ ~finished
          /\ "idle" # "ask" /\ "idle" # "transfer"
      BY DEF FtpInit, Init
    <3> HIDE DEF TypeOK
    <3> QED BY <3>2, <3>3 DEF StatMatchesFile, DownloadInv
  <2>3. U!TypeOK
    BY <2>1, UploadAssumption DEF FtpInit, U!Init, U!TypeOK
  <2>4. UploadInv
    BY <2>3 DEF FtpInit, U!Init, UploadInv, NoHole, U!NoHole
  <2> QED BY <2>2, <2>4 DEF FtpInv
<1>2. FtpInv /\ [FtpNext]_ftpVars => FtpInv'
  <2> SUFFICES ASSUME FtpInv, [FtpNext]_ftpVars PROVE FtpInv'
    OBVIOUS
  <2>0. DownloadInv /\ UploadInv
    BY DEF FtpInv
  <2>1. CASE up_pc = "idle" /\ Next /\ UNCHANGED upVars
    <3>1. DownloadInv'
      BY <2>0, <2>1, DownloadStep
    <3>2. RdpTypeOK'
      BY <3>1 DEF DownloadInv, StatMatchesFile, TypeOK
    <3> QED BY <2>0, <2>1, <3>1, <3>2, UploadStep DEF FtpInv
  <2>2. CASE U!Next /\ UNCHANGED <<fileVars, cmdVars>>
    <3>1. RdpTypeOK
      BY <2>0 DEF DownloadInv, StatMatchesFile, TypeOK
    <3>2. RdpTypeOK'
      BY <2>2, <3>1, WindowsAssumption
         DEF U!Next, U!EarlyReturn, U!Upload, U!TransferReturns, U!TransferFails, U!RdpOpt,
             U!rdp_opt_add, U!rdp_opt_set, U!rdp_opt_reset, U!vmem_client_rdp_options, U!Chosen,
             RdpTypeOK
    <3>3. DownloadInv'
      BY <2>0, <2>2, <3>2, DownloadStep
    <3>4. UploadInv'
      BY <2>0, <2>2, <3>2, UploadStep
    <3> QED BY <3>3, <3>4 DEF FtpInv
  <2>3. CASE UNCHANGED ftpVars
    <3>1. UNCHANGED <<fileVars, cmdVars>> /\ RdpTypeOK' /\ UNCHANGED upVars /\ UNCHANGED rdp_active
      BY <2>0, <2>3 DEF ftpVars, vars, rdpVars, RdpTypeOK, DownloadInv, StatMatchesFile, TypeOK
    <3> QED BY <2>0, <3>1, DownloadStep, UploadStep DEF FtpInv
  <2> QED BY <2>1, <2>2, <2>3 DEF FtpNext
<1> QED BY <1>1, <1>2, PTL DEF FtpSpec

(* For every length and every chain of broken, declined and resumed        *)
(* downloads: unless a status file was left behind out of date, a          *)
(* completed file is the area, and a transfer starts where the file ends.  *)
THEOREM FtpStatMatchesFile == FtpSpec => []StatMatchesFile
<1>1. FtpInv => StatMatchesFile
  BY DEF FtpInv, DownloadInv
<1> QED BY <1>1, FtpAlways, PTL

(* For every file size, packet size and window: resuming an upload where   *)
(* the command suggests leaves no hole, also when the options change       *)
(* between the uploads.                                                    *)
THEOREM FtpNoHole == FtpSpec => []NoHole
<1>1. FtpInv => NoHole
  BY DEF FtpInv, UploadInv
<1> QED BY <1>1, FtpAlways, PTL

-----------------------------------------------------------------------------
(* Variables.                                                              *)

(* The environment defines a variable once.                                *)
IsEnv(env) ==
  /\ env \in Seq(Range(env))
  /\ \A i, j \in DOMAIN env : env[i].name = env[j].name => i = j
  /\ \A i \in DOMAIN env : DOMAIN env[i] = {"name", "value"}

(* csh_get_env_entry finds the entry of that name, if there is one.        *)
LEMMA FirstEntry ==
  ASSUME NEW env, IsEnv(env), NEW name
  PROVE  \/ /\ E!csh_get_env_entry(env, name) = 0
            /\ \A j \in DOMAIN env : env[j].name # name
         \/ /\ E!csh_get_env_entry(env, name) \in DOMAIN env
            /\ E!csh_get_env_entry(env, name) # 0
            /\ env[E!csh_get_env_entry(env, name)].name = name
<1> DEFINE I == {i \in 1 .. Len(env) : env[i].name = name}
<1>1. DOMAIN env = 1 .. Len(env) /\ Len(env) \in Nat
  BY LenProperties DEF IsEnv
<1>2. E!csh_get_env_entry(env, name) = IF I # {} THEN E!Min(I) ELSE 0
  BY Zenon DEF E!csh_get_env_entry, E!SelectInSeq
<1>3. CASE I = {}
  BY <1>1, <1>2, <1>3
<1>4. ASSUME NEW i \in I PROVE E!Min(I) = i /\ i # 0
  <2>1. \A j \in I : j = i
    BY <1>1, Zenon DEF IsEnv
  <2>2. i <= i /\ i # 0
    BY <1>1
  <2> QED BY <1>4, <2>1, <2>2, Zenon DEF E!Min
<1> QED BY <1>1, <1>2, <1>3, <1>4, Zenon

(* csh_getvar returns the value of the entry of that name.                 *)
LEMMA ValueOf ==
  ASSUME NEW env, IsEnv(env), NEW name
  PROVE  /\ \A i \in DOMAIN env : env[i].name = name => E!csh_getvar(env, name) = env[i].value
         /\ (\A i \in DOMAIN env : env[i].name # name) => E!csh_getvar(env, name) = E!Undefined
<1>1. E!csh_getvar(env, name) = IF E!csh_get_env_entry(env, name) = 0 THEN E!Undefined
                                ELSE env[E!csh_get_env_entry(env, name)].value
  BY Zenon DEF E!csh_getvar
<1>2. PICK k : k = E!csh_get_env_entry(env, name)
  OBVIOUS
<1>3. \/ k = 0 /\ \A j \in DOMAIN env : env[j].name # name
      \/ k \in DOMAIN env /\ k # 0 /\ env[k].name = name
  BY <1>2, FirstEntry, Zenon
<1>4. ASSUME NEW i \in DOMAIN env, env[i].name = name PROVE E!csh_getvar(env, name) = env[i].value
  <2>1. k = i /\ k # 0
    BY <1>3, <1>4, Zenon DEF IsEnv
  <2> QED BY <1>1, <1>2, <2>1, Zenon
<1>5. ASSUME \A i \in DOMAIN env : env[i].name # name PROVE E!csh_getvar(env, name) = E!Undefined
  BY <1>1, <1>2, <1>3, <1>5, Zenon
<1> QED BY <1>4, <1>5

(* Where the entries of two environments have the same values, so have     *)
(* their variables.                                                        *)
LEMMA SameValue ==
  ASSUME NEW env, NEW new, IsEnv(env), IsEnv(new), NEW name,
         \A i \in DOMAIN env : env[i].name = name => \E j \in DOMAIN new : new[j] = env[i],
         \A j \in DOMAIN new : new[j].name = name => \E i \in DOMAIN env : new[j] = env[i]
  PROVE  E!csh_getvar(new, name) = E!csh_getvar(env, name)
<1>1. CASE \E i \in DOMAIN env : env[i].name = name
  <2>1. PICK i \in DOMAIN env : env[i].name = name
    BY <1>1
  <2>2. PICK j \in DOMAIN new : new[j] = env[i]
    BY <2>1
  <2>3. E!csh_getvar(env, name) = env[i].value
    BY <2>1, ValueOf
  <2>4. new[j].name = name /\ E!csh_getvar(new, name) = new[j].value
    BY <2>1, <2>2, ValueOf
  <2> QED BY <2>2, <2>3, <2>4
<1>2. CASE ~\E i \in DOMAIN env : env[i].name = name
  <2>1. \A j \in DOMAIN new : new[j].name # name
    BY <1>2, Zenon
  <2>2. E!csh_getvar(new, name) = E!Undefined /\ E!csh_getvar(env, name) = E!Undefined
    BY <1>2, <2>1, ValueOf
  <2> QED BY <2>2
<1> QED BY <1>1, <1>2

(* What csh_putvar makes of the environment, with memory for an entry.     *)
Put(env, name, value) ==
  LET i == E!csh_get_env_entry(env, name)
      e == [name |-> name, value |-> value]
  IN  IF i # 0 THEN [env EXCEPT ![i] = e] ELSE <<e>> \o env

(* It replaces the entry of that name, or adds one when there is none, and *)
(* touches no other variable.                                              *)
LEMMA PutIs ==
  ASSUME NEW env, IsEnv(env), NEW name, NEW value
  PROVE  /\ IsEnv(Put(env, name, value)) /\ E!csh_getvar(Put(env, name, value), name) = value
         /\ \A n : n # name => E!csh_getvar(Put(env, name, value), n) = E!csh_getvar(env, n)
<1> DEFINE i == E!csh_get_env_entry(env, name)
           e == [name |-> name, value |-> value]
           S == Range(env) \cup {e}
<1>1. /\ Put(env, name, value) = IF i # 0 THEN [env EXCEPT ![i] = e] ELSE <<e>> \o env
      /\ e.name = name /\ e.value = value /\ e \in S /\ DOMAIN e = {"name", "value"}
  BY DEF Put
<1>2. env \in Seq(S) /\ Len(env) \in Nat /\ DOMAIN env = 1 .. Len(env)
  BY SeqMonotonic, LenProperties DEF IsEnv
<1>3. \/ i = 0 /\ \A j \in DOMAIN env : env[j].name # name
      \/ i \in DOMAIN env /\ i # 0 /\ env[i].name = name
  BY FirstEntry, Zenon
<1> HIDE DEF i, e, S
<1>4. ASSUME i \in DOMAIN env, i # 0, env[i].name = name, NEW new, new = [env EXCEPT ![i] = e]
      PROVE  /\ IsEnv(new) /\ E!csh_getvar(new, name) = value
             /\ \A n : n # name => E!csh_getvar(new, n) = E!csh_getvar(env, n)
  <2>1. /\ new \in Seq(S) /\ Len(new) = Len(env) /\ DOMAIN new = DOMAIN env
        /\ \A j \in DOMAIN env : new[j] = IF j = i THEN e ELSE env[j]
    BY <1>1, <1>2, <1>4, ExceptSeq
  <2>2. \A j \in DOMAIN env : new[j].name = env[j].name
    BY <1>1, <1>4, <2>1
  <2>a. \A j \in DOMAIN new : DOMAIN new[j] = {"name", "value"}
    BY <1>1, <2>1 DEF IsEnv
  <2>3. IsEnv(new)
    BY <2>1, <2>2, <2>a, SeqOfRange, Zenon DEF IsEnv
  <2>4. new[i].name = name /\ new[i].value = value
    BY <1>1, <1>4, <2>1
  <2>5. ASSUME NEW n, n # name PROVE E!csh_getvar(new, n) = E!csh_getvar(env, n)
    <3>1. \A j \in DOMAIN env : env[j].name = n => new[j] = env[j]
      BY <1>4, <2>1, <2>5
    <3>2. \A j \in DOMAIN env : env[j].name = n => \E k \in DOMAIN new : new[k] = env[j]
      BY <2>1, <3>1, Zenon
    <3>3. \A j \in DOMAIN new : new[j].name = n => \E k \in DOMAIN env : new[j] = env[k]
      BY <2>1, <2>2, <3>1, Zenon
    <3> QED BY <2>3, <3>2, <3>3, SameValue
  <2> QED BY <1>4, <2>1, <2>3, <2>4, <2>5, ValueOf, Zenon
<1>5. ASSUME \A j \in DOMAIN env : env[j].name # name, NEW new, new = <<e>> \o env
      PROVE  /\ IsEnv(new) /\ E!csh_getvar(new, name) = value
             /\ \A n : n # name => E!csh_getvar(new, n) = E!csh_getvar(env, n)
  <2>1. <<e>> \in Seq(S) /\ Len(<<e>>) = 1 /\ <<e>>[1] = e
    BY <1>1
  <2>2. /\ new \in Seq(S) /\ Len(new) = 1 + Len(env)
        /\ \A j \in 1 .. 1 + Len(env) : new[j] = IF j <= 1 THEN <<e>>[j] ELSE env[j - 1]
    <3> DEFINE h == <<e>>
    <3>1. h \in Seq(S) /\ Len(h) = 1 /\ new = h \o env
      BY <1>1, <1>5, <2>1
    <3> HIDE DEF h
    <3>2. /\ h \o env \in Seq(S) /\ Len(h \o env) = Len(h) + Len(env)
          /\ \A j \in 1 .. Len(h) + Len(env) : (h \o env)[j] = IF j <= Len(h) THEN h[j]
               ELSE env[j - Len(h)]
      BY <1>2, <3>1, ConcatProperties
    <3>3. \A j \in 1 .. 1 + Len(env) : new[j] = IF j <= 1 THEN h[j] ELSE env[j - 1]
      BY <1>2, <3>1, <3>2
    <3> QED BY <3>1, <3>2, <3>3 DEF h
  <2>3. /\ DOMAIN new = 1 .. 1 + Len(env) /\ 1 \in DOMAIN new /\ new[1] = e
        /\ \A j \in DOMAIN env : j + 1 \in DOMAIN new /\ new[j + 1] = env[j]
        /\ \A j \in DOMAIN new : j # 1 => j - 1 \in DOMAIN env /\ new[j] = env[j - 1]
    <3>1. DOMAIN new = 1 .. 1 + Len(env)
      BY <2>2, LenProperties
    <3> QED BY <1>2, <2>1, <2>2, <3>1
  <2>4. ASSUME NEW j \in DOMAIN new, NEW k \in DOMAIN new, new[j].name = new[k].name PROVE j = k
    <3>1. CASE j = 1 \/ k = 1
      <4>1. \A k1 \in DOMAIN new : k1 # 1 => new[k1].name # name
        BY <1>5, <2>3
      <4> QED BY <1>1, <2>3, <2>4, <3>1, <4>1, Zenon
    <3>2. CASE j # 1 /\ k # 1
      <4>1. j - 1 \in DOMAIN env /\ k - 1 \in DOMAIN env /\ env[j - 1].name = env[k - 1].name
        BY <2>3, <2>4, <3>2
      <4>2. j - 1 = k - 1
        BY <4>1, Zenon DEF IsEnv
      <4> QED BY <1>2, <2>3, <4>2
    <3> QED BY <3>1, <3>2
  <2>a. \A j \in DOMAIN new : DOMAIN new[j] = {"name", "value"}
    <3> SUFFICES ASSUME NEW j \in DOMAIN new PROVE DOMAIN new[j] = {"name", "value"}
      OBVIOUS
    <3>1. CASE j = 1
      BY <1>1, <2>3, <3>1
    <3>2. CASE j # 1
      <4>1. PICK k \in DOMAIN env : new[j] = env[k]
        BY <2>3, <3>2, Zenon
      <4> QED BY <4>1, Zenon DEF IsEnv
    <3> QED BY <3>1, <3>2
  <2>5. IsEnv(new)
    BY <2>2, <2>4, <2>a, SeqOfRange, Zenon DEF IsEnv
  <2>6. ASSUME NEW n, n # name PROVE E!csh_getvar(new, n) = E!csh_getvar(env, n)
    <3>1. \A j \in DOMAIN new : new[j].name = n => \E k \in DOMAIN env : new[j] = env[k]
      BY <1>1, <2>3, <2>6, Zenon
    <3>2. \A k \in DOMAIN env : \E j \in DOMAIN new : new[j] = env[k]
      BY <2>3, Zenon
    <3> QED BY <2>5, <3>1, <3>2, SameValue, Zenon
  <2>7. E!csh_getvar(new, name) = value
    BY <1>1, <2>3, <2>5, ValueOf
  <2> QED BY <2>5, <2>6, <2>7
<1> QED BY <1>1, <1>3, <1>4, <1>5, Zenon

(* csh_putvar, with memory for an entry or without.                        *)
LEMMA PutKeeps ==
  ASSUME NEW env, IsEnv(env), NEW name, NEW value, NEW alloc
  PROVE  /\ IsEnv(E!csh_putvar(env, name, value, alloc))
         /\ \A n : n # name =>
              E!csh_getvar(E!csh_putvar(env, name, value, alloc), n) = E!csh_getvar(env, n)
<1>1. \/ E!csh_putvar(env, name, value, alloc) = env
      \/ E!csh_putvar(env, name, value, alloc) = Put(env, name, value)
  BY DEF E!csh_putvar, Put
<1> QED BY <1>1, PutIs

(* csh_delvar removes the variable: it has no older value, and no other is *)
(* touched.                                                                *)
LEMMA DelKeeps ==
  ASSUME NEW env, IsEnv(env), NEW name
  PROVE  /\ IsEnv(E!csh_delvar(env, name))
         /\ E!csh_getvar(E!csh_delvar(env, name), name) = E!Undefined
         /\ \A n : n # name => E!csh_getvar(E!csh_delvar(env, name), n) = E!csh_getvar(env, n)
<1> DEFINE i == E!csh_get_env_entry(env, name)
           S == Range(env)
<1>1. E!csh_delvar(env, name) = IF i = 0 THEN env
        ELSE SubSeq(env, 1, i - 1) \o SubSeq(env, i + 1, Len(env))
  BY Zenon DEF E!csh_delvar, E!RemoveAt
<1>2. env \in Seq(S) /\ Len(env) \in Nat /\ DOMAIN env = 1 .. Len(env)
        /\ \A j \in DOMAIN env : env[j] \in S
  BY LenProperties, ElementOfSeq DEF IsEnv
<1>3. \/ i = 0 /\ \A j \in DOMAIN env : env[j].name # name
      \/ i \in DOMAIN env /\ i # 0 /\ env[i].name = name
  BY FirstEntry, Zenon
<1> HIDE DEF i, S
<1>4. ASSUME i \in DOMAIN env, env[i].name = name, NEW new,
             new = SubSeq(env, 1, i - 1) \o SubSeq(env, i + 1, Len(env))
      PROVE  /\ IsEnv(new) /\ E!csh_getvar(new, name) = E!Undefined
             /\ \A n : n # name => E!csh_getvar(new, n) = E!csh_getvar(env, n)
  <2>a. PICK m \in Nat : m = Len(env)
    BY <1>2
  <2>b. DOMAIN env = 1 .. m /\ i \in 1 .. m /\ i \in Int
    BY <1>2, <1>4, <2>a
  <2>1. PICK l, r : l = SubSeq(env, 1, i - 1) /\ r = SubSeq(env, i + 1, m)
    OBVIOUS
  <2>2. /\ l \in Seq(S) /\ Len(l) = i - 1 /\ \A j \in 1 .. i - 1 : l[j] = env[j]
    BY <1>2, <2>a, <2>b, <2>1, SubSeqProperties
  <2>3. /\ r \in Seq(S) /\ Len(r) = m - i /\ \A j \in 1 .. m - i : r[j] = env[j + i]
    <3>1. \A j \in i + 1 .. m : env[j] \in S
      BY <1>2, <2>b
    <3>2. /\ r \in Seq(S) /\ Len(r) = IF i + 1 <= m THEN m - (i + 1) + 1 ELSE 0
          /\ \A j \in 1 .. m - (i + 1) + 1 : r[j] = env[(i + 1) + j - 1]
      BY <2>a, <2>b, <2>1, <3>1, SubSeqProperties
    <3>3. \A j \in 1 .. m - i : (i + 1) + j - 1 = j + i
      BY <2>a, <2>b
    <3> QED BY <2>a, <2>b, <3>2, <3>3
  <2>4. /\ new \in Seq(S) /\ Len(new) = m - 1
        /\ \A j \in 1 .. m - 1 : new[j] = IF j < i THEN env[j] ELSE env[j + 1]
    <3>1. /\ l \o r \in Seq(S) /\ Len(l \o r) = Len(l) + Len(r)
          /\ \A j \in 1 .. Len(l) + Len(r) : (l \o r)[j] = IF j <= Len(l) THEN l[j] ELSE r[j - Len(l)]
      BY <2>2, <2>3, ConcatProperties
    <3>2. new = l \o r
      BY <1>4, <2>a, <2>1
    <3>3. Len(l) + Len(r) = m - 1
      BY <2>a, <2>b, <2>2, <2>3
    <3>4. ASSUME NEW j \in 1 .. m - 1 PROVE new[j] = IF j < i THEN env[j] ELSE env[j + 1]
      <4>1. new[j] = IF j <= i - 1 THEN l[j] ELSE r[j - (i - 1)]
        BY <2>2, <3>1, <3>2, <3>3
      <4>2. CASE j < i
        BY <2>b, <2>2, <4>1, <4>2
      <4>3. CASE j >= i
        <5>1. j - (i - 1) \in 1 .. m - i /\ (j - (i - 1)) + i = j + 1 /\ ~(j <= i - 1)
          BY <2>a, <2>b, <4>3
        <5>2. PICK k \in 1 .. m - i : k = j - (i - 1)
          BY <5>1
        <5>3. r[k] = env[k + i]
          BY <2>3, <5>2
        <5>4. k + i = j + 1 /\ ~(j < i)
          BY <2>a, <2>b, <4>3, <5>2
        <5>5. new[j] = r[k]
          BY <4>1, <5>1, <5>2
        <5> QED BY <5>3, <5>4, <5>5
      <4> QED BY <2>b, <4>2, <4>3
    <3> QED BY <3>1, <3>2, <3>3, <3>4
  <2>5. DOMAIN new = 1 .. m - 1
    BY <2>4, LenProperties
  <2>6. \A j \in DOMAIN new : \E k \in DOMAIN env : k = (IF j < i THEN j ELSE j + 1) /\ k # i
          /\ new[j] = env[k]
    BY <2>a, <2>b, <2>4, <2>5
  <2>7. \A k \in DOMAIN env : k # i => \E j \in DOMAIN new : new[j] = env[k]
    <3> SUFFICES ASSUME NEW k \in DOMAIN env, k # i PROVE \E j \in DOMAIN new : new[j] = env[k]
      OBVIOUS
    <3>1. CASE k < i
      BY <2>a, <2>b, <2>4, <2>5, <3>1
    <3>2. CASE k > i
      <4>1. k - 1 \in DOMAIN new /\ new[k - 1] = env[k]
        BY <2>a, <2>b, <2>4, <2>5, <3>2
      <4> QED BY <4>1
    <3> QED BY <2>a, <2>b, <3>1, <3>2
  <2>8. ASSUME NEW j \in DOMAIN new, NEW k \in DOMAIN new, new[j].name = new[k].name PROVE j = k
    <3>1. PICK u \in DOMAIN env : u = (IF j < i THEN j ELSE j + 1) /\ new[j] = env[u]
      BY <2>6
    <3>2. PICK v \in DOMAIN env : v = (IF k < i THEN k ELSE k + 1) /\ new[k] = env[v]
      BY <2>6
    <3>3. u = v
      BY <2>8, <3>1, <3>2, Zenon DEF IsEnv
    <3> QED BY <2>a, <2>b, <2>5, <3>1, <3>2, <3>3
  <2>c. \A j \in DOMAIN new : DOMAIN new[j] = {"name", "value"}
    BY <2>6, Zenon DEF IsEnv
  <2>9. IsEnv(new)
    BY <2>4, <2>8, <2>c, SeqOfRange, Zenon DEF IsEnv
  <2>10. \A j \in DOMAIN new : new[j].name # name
    BY <1>4, <2>6, Zenon DEF IsEnv
  <2>11. ASSUME NEW n, n # name PROVE E!csh_getvar(new, n) = E!csh_getvar(env, n)
    <3>1. \A k \in DOMAIN env : env[k].name = n => k # i
      BY <1>4, <2>11
    <3> QED BY <2>6, <2>7, <2>9, <3>1, SameValue, Zenon
  <2> QED BY <2>9, <2>10, <2>11, ValueOf, Zenon
<1>5. CASE i = 0
  <2>1. \A j \in DOMAIN env : env[j].name # name
    BY <1>3, <1>5
  <2> QED BY <1>1, <1>5, <2>1, ValueOf
<1> QED BY <1>1, <1>3, <1>4, <1>5, Zenon

-----------------------------------------------------------------------------
(* Scripts that run scripts.  Level 1 is the innermost script, the last    *)
(* level the prompt.                                                       *)

FileAt(k)    == IF k > Len(runs) THEN E!Undefined ELSE runs[k].file
DirAt(k)     == IF k > Len(runs) THEN E!Undefined ELSE DirOf(runs[k].file)
ChangedAt(k) == IF k > Len(runs) THEN changed ELSE runs[k].changed

RunsTyped ==
  /\ changed \in BOOLEAN
  /\ runs \in Seq(Range(runs))
  /\ \A k \in DOMAIN runs : DOMAIN runs[k] = {"file", "ctx", "kept", "changed", "todo"}

(* A script's context holds what the level that ran it will find again.    *)
ContextsRight ==
  \A k \in 1 .. Len(runs) : runs[k].kept /\ ~ChangedAt(k + 1) =>
    runs[k].ctx.old_file = FileAt(k + 1) /\ runs[k].ctx.old_file_dir = DirAt(k + 1)

FileOf(env) == E!csh_getvar(env, "__FILE__")
FileDirOf(env) == E!csh_getvar(env, "__FILE_DIR__")
InnermostRight == ~ChangedAt(1) => FileOf(csh_env) = FileAt(1) /\ FileDirOf(csh_env) = DirAt(1)

NothingYet == phase = "start" => runs = << >> /\ ~changed /\ csh_env = << >>

EnvInv == IsEnv(csh_env) /\ RunsTyped /\ ContextsRight /\ InnermostRight /\ NothingYet

(* At level 1 stands the innermost script, or the prompt.                  *)
LEMMA InnermostIs == RunsTyped => (InnermostRight <=> E!FileIsInnermost)
<1> SUFFICES ASSUME RunsTyped PROVE InnermostRight <=> E!FileIsInnermost
  OBVIOUS
<1>1. Len(runs) \in Nat /\ (runs = << >> <=> Len(runs) = 0)
  BY EmptySeq, LenProperties DEF RunsTyped
<1>2. runs # << >> => Head(runs) = runs[1]
  BY DEF RunsTyped
<1>3. 1 > Len(runs) <=> runs = << >>
  BY <1>1
<1> QED BY <1>2, <1>3, Zenon DEF InnermostRight, ChangedAt, FileAt, DirAt, FileOf, FileDirOf,
      E!FileIsInnermost

(* Nothing about the running scripts changes but what is left of them.     *)
LEMMA RunsStay ==
  ASSUME EnvInv, RunsTyped', IsEnv(csh_env)', phase' # "start", changed' = changed,
         Len(runs') = Len(runs),
         \A k \in 1 .. Len(runs) : /\ runs'[k].file = runs[k].file /\ runs'[k].ctx = runs[k].ctx
                                   /\ runs'[k].kept = runs[k].kept
                                   /\ runs[k].changed => runs'[k].changed
                                   /\ k > 1 => runs'[k].changed = runs[k].changed,
         ~ChangedAt(1)' =>
           FileOf(csh_env') = FileOf(csh_env) /\ FileDirOf(csh_env') = FileDirOf(csh_env)
  PROVE  EnvInv'
<1>1. PICK n \in Nat : n = Len(runs) /\ n = Len(runs')
  BY LenProperties DEF EnvInv, RunsTyped
<1>2. \A k \in 1 .. n + 1 : /\ FileAt(k)' = FileAt(k) /\ DirAt(k)' = DirAt(k)
                            /\ ChangedAt(k) => ChangedAt(k)'
  BY <1>1 DEF FileAt, DirAt, ChangedAt
<1>3. ContextsRight'
  <2> SUFFICES ASSUME NEW k \in 1 .. n, runs'[k].kept, ~ChangedAt(k + 1)'
               PROVE  runs'[k].ctx.old_file = FileAt(k + 1)'
                        /\ runs'[k].ctx.old_file_dir = DirAt(k + 1)'
    BY <1>1 DEF ContextsRight
  <2>1. k + 1 \in 1 .. n + 1
    BY <1>1
  <2> QED BY <1>1, <1>2, <2>1 DEF EnvInv, ContextsRight
<1>4. InnermostRight'
  <2>1. 1 \in 1 .. n + 1
    BY <1>1
  <2> QED BY <1>2, <2>1 DEF EnvInv, InnermostRight
<1> QED BY <1>3, <1>4 DEF EnvInv, NothingYet

(* A variable is set, cleared or named by a node: if it is one of the      *)
(* hooks', this is noted.                                                  *)
LEMMA VariableTouched ==
  ASSUME EnvInv, NEW names, E!Touch(names), IsEnv(csh_env)', phase' # "start",
         \A n \in E!FileVars \ names : E!csh_getvar(csh_env', n) = E!csh_getvar(csh_env, n)
  PROVE  EnvInv'
<1>1. CASE names \cap E!FileVars = {}
  <2>1. runs' = runs /\ changed' = changed
    BY <1>1 DEF E!Touch
  <2>2. "__FILE__" \in E!FileVars \ names /\ "__FILE_DIR__" \in E!FileVars \ names
    BY <1>1 DEF E!FileVars
  <2>3. FileOf(csh_env') = FileOf(csh_env) /\ FileDirOf(csh_env') = FileDirOf(csh_env)
    BY <2>2, Zenon DEF FileOf, FileDirOf
  <2>4. RunsTyped'
    BY <2>1 DEF EnvInv, RunsTyped
  <2> QED BY <2>1, <2>3, <2>4, RunsStay
<1>2. CASE names \cap E!FileVars # {} /\ runs = << >>
  <2>1. runs' = << >> /\ changed' = TRUE
    BY <1>2 DEF E!Touch
  <2>2. RunsTyped' /\ ContextsRight' /\ InnermostRight'
    BY <1>2, <2>1 DEF EnvInv, RunsTyped, ContextsRight, InnermostRight, ChangedAt
  <2> QED BY <2>1, <2>2 DEF EnvInv, NothingYet
<1>3. CASE names \cap E!FileVars # {} /\ runs # << >>
  <2>1. runs' = [runs EXCEPT ![1].changed = TRUE] /\ changed' = changed
    BY <1>3 DEF E!Touch
  <2>2. RunsTyped' /\ Len(runs') = Len(runs) /\ Len(runs) \in Nat \ {0} /\ ChangedAt(1)'
        /\ \A k \in 1 .. Len(runs) : /\ runs'[k].file = runs[k].file /\ runs'[k].ctx = runs[k].ctx
                                     /\ runs'[k].kept = runs[k].kept
                                     /\ runs[k].changed => runs'[k].changed
                                     /\ k > 1 => runs'[k].changed = runs[k].changed
    <3> DEFINE e == [runs[1] EXCEPT !.changed = TRUE]
               S == Range(runs) \cup {e}
    <3>1. runs \in Seq(S) /\ e \in S /\ Len(runs) \in Nat \ {0} /\ DOMAIN runs = 1 .. Len(runs)
          /\ runs' = [runs EXCEPT ![1] = e]
      BY <1>3, <2>1, SeqMonotonic, EmptySeq, LenProperties DEF EnvInv, RunsTyped
    <3>2. DOMAIN runs[1] = {"file", "ctx", "kept", "changed", "todo"}
      BY <3>1 DEF EnvInv, RunsTyped
    <3>3. /\ e.file = runs[1].file /\ e.ctx = runs[1].ctx /\ e.kept = runs[1].kept /\ e.changed
          /\ DOMAIN e = {"file", "ctx", "kept", "changed", "todo"}
      BY <3>2
    <3> HIDE DEF e, S
    <3>4. /\ runs' \in Seq(S) /\ Len(runs') = Len(runs) /\ DOMAIN runs' = 1 .. Len(runs)
          /\ \A k \in 1 .. Len(runs) : runs'[k] = IF k = 1 THEN e ELSE runs[k]
      BY <3>1, ExceptSeq
    <3>5. runs' \in Seq(Range(runs'))
      BY <3>4, SeqOfRange
    <3>6. RunsTyped'
      <4>1. changed' \in BOOLEAN
        BY <2>1, Zenon DEF EnvInv, RunsTyped
      <4> QED BY <3>1, <3>3, <3>4, <3>5, <4>1 DEF EnvInv, RunsTyped
    <3> QED BY <3>1, <3>3, <3>4, <3>6 DEF ChangedAt
  <2> QED BY <2>1, <2>2, RunsStay
<1> QED BY <1>1, <1>2, <1>3

(* slash_on_run_pre_hook: a script begins, at the prompt or in another.    *)
LEMMA ScriptBegins ==
  ASSUME EnvInv, NEW script, NEW alloc \in BOOLEAN, E!slash_on_run_pre_hook(script, alloc),
         changed' = changed, phase' # "start"
  PROVE  EnvInv'
<1> DEFINE first == Put(csh_env, "__FILE__", script)
           r == [file |-> script, ctx |-> E!Context(csh_env), kept |-> alloc, changed |-> FALSE,
                 todo |-> IF script = E!HOSTS THEN hosts_file ELSE << >>]
           S == Range(runs) \cup {r}
<1>1. /\ runs' = <<r>> \o runs /\ r \in S
      /\ csh_env' = Put(first, "__FILE_DIR__", DirOf(script))
  BY Zenon DEF E!slash_on_run_pre_hook, E!csh_putvar, Put
<1>2. /\ r.file = script /\ r.kept = alloc /\ r.changed = FALSE /\ r.ctx = E!Context(csh_env)
      /\ DOMAIN r = {"file", "ctx", "kept", "changed", "todo"}
  OBVIOUS
<1>3. r.ctx.old_file = FileOf(csh_env) /\ r.ctx.old_file_dir = FileDirOf(csh_env)
  BY <1>2 DEF E!Context, FileOf, FileDirOf
<1>4. IsEnv(first) /\ FileOf(first) = script
  BY PutIs DEF EnvInv, FileOf
<1> HIDE DEF first, r, S
<1>5. IsEnv(csh_env)' /\ FileOf(csh_env') = script /\ FileDirOf(csh_env') = DirOf(script)
  <2>1. /\ IsEnv(csh_env') /\ E!csh_getvar(csh_env', "__FILE_DIR__") = DirOf(script)
        /\ \A n : n # "__FILE_DIR__" => E!csh_getvar(csh_env', n) = E!csh_getvar(first, n)
    BY <1>1, <1>4, PutIs
  <2>2. "__FILE__" # "__FILE_DIR__"
    OBVIOUS
  <2> QED BY <1>4, <2>1, <2>2, Zenon DEF FileOf, FileDirOf, IsEnv
<1>6. PICK n \in Nat : n = Len(runs)
  BY LenProperties DEF EnvInv, RunsTyped
<1>7. /\ runs' \in Seq(S) /\ Len(runs') = n + 1 /\ DOMAIN runs' = 1 .. n + 1 /\ runs'[1] = r
      /\ \A k \in 1 .. n : runs'[k + 1] = runs[k]
  <2>1. PICK h : h = <<r>>
    OBVIOUS
  <2>2. runs \in Seq(S) /\ h \in Seq(S) /\ Len(h) = 1 /\ h[1] = r
    BY <1>1, <2>1, SeqMonotonic DEF EnvInv, RunsTyped, S
  <2>3. /\ h \o runs \in Seq(S) /\ Len(h \o runs) = Len(h) + Len(runs)
        /\ \A j \in 1 .. Len(h) + Len(runs) : (h \o runs)[j] = IF j <= Len(h) THEN h[j]
             ELSE runs[j - Len(h)]
    BY <2>2, ConcatProperties
  <2>4. runs' = h \o runs
    BY <1>1, <2>1
  <2>5. ASSUME NEW k \in 1 .. n PROVE runs'[k + 1] = runs[k]
    <3>1. k + 1 \in 1 .. n + 1 /\ ~(k + 1 <= 1) /\ k + 1 - 1 = k /\ n + 1 = 1 + n
      BY <1>6
    <3> QED BY <1>6, <2>2, <2>3, <2>4, <3>1
  <2> QED BY <1>6, <2>2, <2>3, <2>4, <2>5, LenProperties
<1>8. \A k \in 1 .. n + 1 : k # 1 => k - 1 \in 1 .. n /\ runs'[k] = runs[k - 1]
  <2> SUFFICES ASSUME NEW k \in 1 .. n + 1, k # 1 PROVE k - 1 \in 1 .. n /\ runs'[k] = runs[k - 1]
    OBVIOUS
  <2>1. PICK j \in 1 .. n : j = k - 1 /\ k = j + 1
    BY <1>6
  <2> QED BY <1>7, <2>1
<1>9. RunsTyped'
  <2>1. runs' \in Seq(Range(runs'))
    BY <1>7, SeqOfRange
  <2>2. DOMAIN runs = 1 .. n
    BY <1>6, LenProperties DEF EnvInv, RunsTyped
  <2>3. \A k \in 1 .. n : DOMAIN runs[k] = {"file", "ctx", "kept", "changed", "todo"}
    BY <2>2 DEF EnvInv, RunsTyped
  <2>4. ASSUME NEW k \in 1 .. n + 1 PROVE DOMAIN runs'[k] = {"file", "ctx", "kept", "changed", "todo"}
    <3>1. CASE k = 1
      BY <1>2, <1>7, <3>1
    <3>2. CASE k # 1
      BY <1>8, <2>3, <3>2
    <3> QED BY <3>1, <3>2
  <2>5. changed' \in BOOLEAN
    BY Zenon DEF EnvInv, RunsTyped
  <2> QED BY <1>7, <2>1, <2>4, <2>5, Zenon DEF RunsTyped
<1>10. \A k \in 1 .. n + 1 : /\ FileAt(k + 1)' = FileAt(k) /\ DirAt(k + 1)' = DirAt(k)
                             /\ ChangedAt(k + 1)' = ChangedAt(k)
  <2> SUFFICES ASSUME NEW k \in 1 .. n + 1
               PROVE /\ FileAt(k + 1)' = FileAt(k) /\ DirAt(k + 1)' = DirAt(k)
                     /\ ChangedAt(k + 1)' = ChangedAt(k)
    OBVIOUS
  <2>1. (k + 1 > n + 1 <=> k > n) /\ (~(k > n) => k \in 1 .. n)
    BY <1>6
  <2> QED BY <1>6, <1>7, <2>1 DEF FileAt, DirAt, ChangedAt
<1>11. ContextsRight'
  <2> SUFFICES ASSUME NEW k \in 1 .. n + 1, runs'[k].kept, ~ChangedAt(k + 1)'
               PROVE  runs'[k].ctx.old_file = FileAt(k + 1)'
                        /\ runs'[k].ctx.old_file_dir = DirAt(k + 1)'
    BY <1>7 DEF ContextsRight
  <2>1. CASE k = 1
    <3>1. 1 \in 1 .. n + 1
      BY <1>6
    <3>2. ~ChangedAt(1)
      BY <1>10, <2>1, <3>1
    <3> QED BY <1>3, <1>7, <1>10, <2>1, <3>1, <3>2 DEF EnvInv, InnermostRight
  <2>2. CASE k # 1
    <3>1. PICK j \in 1 .. n : j + 1 = k /\ runs'[k] = runs[j]
      BY <1>6, <1>8, <2>2
    <3>2. j + 1 \in 1 .. n + 1 /\ k + 1 = (j + 1) + 1
      BY <1>6, <3>1
    <3>3. FileAt(k + 1)' = FileAt(j + 1) /\ DirAt(k + 1)' = DirAt(j + 1) /\ ~ChangedAt(j + 1)
      BY <1>10, <3>1, <3>2
    <3> QED BY <1>6, <3>1, <3>3 DEF EnvInv, ContextsRight
  <2> QED BY <2>1, <2>2
<1>12. InnermostRight'
  <2>1. FileAt(1)' = script /\ DirAt(1)' = DirOf(script)
    BY <1>2, <1>6, <1>7 DEF FileAt, DirAt
  <2> QED BY <1>5, <2>1 DEF InnermostRight
<1> QED BY <1>5, <1>9, <1>11, <1>12 DEF EnvInv, NothingYet

(* What the post hook puts back is what the context kept.                  *)
LEMMA RestoreKeeps ==
  ASSUME NEW env, IsEnv(env), NEW name, NEW old
  PROVE  /\ IsEnv(E!Restore(env, name, old)) /\ E!csh_getvar(E!Restore(env, name, old), name) = old
         /\ \A n : n # name => E!csh_getvar(E!Restore(env, name, old), n) = E!csh_getvar(env, n)
<1>1. E!Restore(env, name, old) = IF old = E!Undefined THEN E!csh_delvar(env, name)
                                  ELSE Put(env, name, old)
  BY DEF E!Restore, E!csh_putvar, Put
<1>2. CASE old = E!Undefined
  BY <1>1, <1>2, DelKeeps
<1>3. CASE old # E!Undefined
  BY <1>1, <1>3, PutIs
<1> QED BY <1>2, <1>3

(* slash_on_run_post_hook: the innermost script ends.                      *)
LEMMA ScriptEnds ==
  ASSUME EnvInv, runs # << >>, E!slash_on_run_post_hook, phase' # "start"
  PROVE  EnvInv'
<1> DEFINE S == Range(runs)
           r == runs[1]
<1>1. PICK n \in Nat : Len(runs) = n + 1
  <2>1. Len(runs) \in Nat \ {0}
    BY EmptySeq DEF EnvInv, RunsTyped
  <2>2. PICK n \in Nat : n = Len(runs) - 1
    BY <2>1
  <2> QED BY <2>1, <2>2
<1>2. PICK rest : rest = Tail(runs)
  OBVIOUS
<1>3. /\ rest \in Seq(S) /\ Len(rest) = n /\ DOMAIN rest = 1 .. n /\ Head(runs) = r
      /\ \A k \in 1 .. n : rest[k] = runs[k + 1]
      /\ DOMAIN runs = 1 .. n + 1 /\ 1 \in DOMAIN runs
  <2>1. /\ Tail(runs) \in Seq(S) /\ Len(Tail(runs)) = Len(runs) - 1
        /\ \A k \in 1 .. Len(Tail(runs)) : Tail(runs)[k] = runs[k + 1]
    BY HeadTailProperties DEF EnvInv, RunsTyped
  <2>2. DOMAIN runs = 1 .. n + 1 /\ Head(runs) = r
    BY <1>1, LenProperties DEF EnvInv, RunsTyped
  <2> QED BY <1>1, <1>2, <2>1, <2>2, LenProperties
<1>4. \A k \in 1 .. n : k + 1 \in 1 .. n + 1 /\ k + 1 \in DOMAIN runs
  BY <1>1, <1>3
<1>5. CASE r.kept
  <2> DEFINE first == E!Restore(csh_env, "__FILE__", r.ctx.old_file)
  <2>1. /\ csh_env' = E!Restore(first, "__FILE_DIR__", r.ctx.old_file_dir)
        /\ runs' = rest /\ changed' = changed
    BY <1>2, <1>3, <1>5, Zenon DEF E!slash_on_run_post_hook
  <2>2. IsEnv(first) /\ FileOf(first) = r.ctx.old_file
    BY RestoreKeeps DEF EnvInv, FileOf
  <2> HIDE DEF first
  <2>3. IsEnv(csh_env)' /\ FileOf(csh_env') = r.ctx.old_file /\ FileDirOf(csh_env') = r.ctx.old_file_dir
    <3>1. /\ IsEnv(csh_env') /\ E!csh_getvar(csh_env', "__FILE_DIR__") = r.ctx.old_file_dir
          /\ \A m : m # "__FILE_DIR__" => E!csh_getvar(csh_env', m) = E!csh_getvar(first, m)
      BY <2>1, <2>2, RestoreKeeps
    <3>2. "__FILE__" # "__FILE_DIR__"
      OBVIOUS
    <3> QED BY <2>2, <3>1, <3>2, Zenon DEF FileOf, FileDirOf, IsEnv
  <2>4. RunsTyped'
    <3>1. runs' \in Seq(Range(runs'))
      BY <1>3, <2>1, SeqOfRange
    <3> QED BY <1>3, <1>4, <2>1, <3>1 DEF EnvInv, RunsTyped
  <2>5. \A k \in 1 .. n + 1 : /\ FileAt(k)' = FileAt(k + 1) /\ DirAt(k)' = DirAt(k + 1)
                              /\ ChangedAt(k)' = ChangedAt(k + 1)
    <3> SUFFICES ASSUME NEW k \in 1 .. n + 1
                 PROVE /\ FileAt(k)' = FileAt(k + 1) /\ DirAt(k)' = DirAt(k + 1)
                       /\ ChangedAt(k)' = ChangedAt(k + 1)
      OBVIOUS
    <3>1. (k + 1 > n + 1 <=> k > n) /\ (~(k > n) => k \in 1 .. n)
      BY <1>1
    <3> QED BY <1>1, <1>3, <2>1, <3>1 DEF FileAt, DirAt, ChangedAt
  <2>6. ContextsRight'
    <3> SUFFICES ASSUME NEW k \in 1 .. n, runs'[k].kept, ~ChangedAt(k + 1)'
                 PROVE  runs'[k].ctx.old_file = FileAt(k + 1)'
                          /\ runs'[k].ctx.old_file_dir = DirAt(k + 1)'
      BY <1>3, <2>1 DEF ContextsRight
    <3>1. runs'[k] = runs[k + 1] /\ k + 1 \in 1 .. Len(runs)
      BY <1>1, <1>3, <1>4, <2>1
    <3>2. FileAt(k + 1)' = FileAt((k + 1) + 1) /\ DirAt(k + 1)' = DirAt((k + 1) + 1)
            /\ ~ChangedAt((k + 1) + 1)
      BY <1>4, <2>5
    <3> QED BY <3>1, <3>2, Zenon DEF EnvInv, ContextsRight
  <2>7. InnermostRight'
    <3>1. 1 \in 1 .. n + 1 /\ 1 \in 1 .. Len(runs)
      BY <1>1
    <3>2. FileAt(1)' = FileAt(1 + 1) /\ DirAt(1)' = DirAt(1 + 1) /\ ChangedAt(1)' = ChangedAt(1 + 1)
      BY <2>5, <3>1
    <3>3. ~ChangedAt(1 + 1) => r.ctx.old_file = FileAt(1 + 1) /\ r.ctx.old_file_dir = DirAt(1 + 1)
      BY <1>5, <3>1, Zenon DEF EnvInv, ContextsRight
    <3> QED BY <2>3, <3>2, <3>3, Zenon DEF InnermostRight
  <2> QED BY <2>3, <2>4, <2>6, <2>7 DEF EnvInv, NothingYet
<1>6. CASE ~r.kept
  <2>1. /\ csh_env' = csh_env
             /\ runs' = IF rest = << >> THEN rest ELSE [rest EXCEPT ![1].changed = TRUE]
        /\ changed' = (changed \/ rest = << >>)
    BY <1>2, <1>3, <1>6, Zenon DEF E!slash_on_run_post_hook
  <2>2. rest = << >> <=> n = 0
    BY <1>1, <1>3, EmptySeq
  <2>3. IsEnv(csh_env)'
    BY <2>1 DEF EnvInv
  <2>4. CASE n = 0
    <3>1. runs' = << >> /\ changed'
      BY <2>1, <2>2, <2>4
    <3> QED BY <2>3, <3>1 DEF EnvInv, RunsTyped, ContextsRight, InnermostRight, ChangedAt, NothingYet
  <2>5. CASE n # 0
    <3> DEFINE e == [rest[1] EXCEPT !.changed = TRUE]
               T == S \cup {e}
    <3>1. /\ rest \in Seq(T) /\ e \in T /\ runs' = [rest EXCEPT ![1] = e] /\ changed' = changed
          /\ 1 \in 1 .. n
      <4>1. e \in T /\ S \subseteq T
        OBVIOUS
      <4> HIDE DEF e, T
      <4>2. rest \in Seq(T)
        BY <1>3, <4>1, SeqMonotonic
      <4>3. runs' = [rest EXCEPT ![1] = e] /\ changed' = changed
        BY <2>1, <2>2, <2>5 DEF e, EnvInv, RunsTyped
      <4>4. 1 \in 1 .. n
        BY <1>1, <2>5
      <4> QED BY <4>1, <4>2, <4>3, <4>4
    <3>2. DOMAIN rest[1] = {"file", "ctx", "kept", "changed", "todo"}
      BY <1>3, <1>4, <3>1 DEF EnvInv, RunsTyped
    <3>3. /\ e.file = rest[1].file /\ e.ctx = rest[1].ctx /\ e.kept = rest[1].kept /\ e.changed
          /\ DOMAIN e = {"file", "ctx", "kept", "changed", "todo"}
      BY <3>2
    <3> HIDE DEF e, T
    <3>4. /\ runs' \in Seq(T) /\ Len(runs') = n /\ DOMAIN runs' = 1 .. n
          /\ \A k \in 1 .. n : runs'[k] = IF k = 1 THEN e ELSE rest[k]
      BY <1>3, <3>1, ExceptSeq
    <3>5. \A k \in 1 .. n : /\ runs'[k].file = runs[k + 1].file /\ runs'[k].ctx = runs[k + 1].ctx
                            /\ runs'[k].kept = runs[k + 1].kept
                            /\ runs[k + 1].changed => runs'[k].changed
                            /\ DOMAIN runs'[k] = {"file", "ctx", "kept", "changed", "todo"}
      <4> SUFFICES ASSUME NEW k \in 1 .. n
                   PROVE /\ runs'[k].file = runs[k + 1].file /\ runs'[k].ctx = runs[k + 1].ctx
                         /\ runs'[k].kept = runs[k + 1].kept
                         /\ runs[k + 1].changed => runs'[k].changed
                         /\ DOMAIN runs'[k] = {"file", "ctx", "kept", "changed", "todo"}
        OBVIOUS
      <4>1. rest[k] = runs[k + 1]
        BY <1>3
      <4>2. DOMAIN runs[k + 1] = {"file", "ctx", "kept", "changed", "todo"}
        BY <1>4, Zenon DEF EnvInv, RunsTyped
      <4>3. CASE k = 1
        BY <3>3, <3>4, <4>1, <4>3
      <4>4. CASE k # 1
        BY <3>4, <4>1, <4>2, <4>4
      <4> QED BY <4>3, <4>4
    <3>6. RunsTyped'
      <4>1. runs' \in Seq(Range(runs'))
        BY <3>4, SeqOfRange
      <4>2. changed' \in BOOLEAN
        BY <3>1, Zenon DEF EnvInv, RunsTyped
      <4> QED BY <3>4, <3>5, <4>1, <4>2, Zenon DEF RunsTyped
    <3>7. \A k \in 1 .. n + 1 : /\ FileAt(k)' = FileAt(k + 1) /\ DirAt(k)' = DirAt(k + 1)
                                /\ ChangedAt(k + 1) => ChangedAt(k)'
      <4> SUFFICES ASSUME NEW k \in 1 .. n + 1
                   PROVE /\ FileAt(k)' = FileAt(k + 1) /\ DirAt(k)' = DirAt(k + 1)
                         /\ ChangedAt(k + 1) => ChangedAt(k)'
        OBVIOUS
      <4>1. (k + 1 > n + 1 <=> k > n) /\ (~(k > n) => k \in 1 .. n)
        BY <1>1
      <4> QED BY <1>1, <3>1, <3>4, <3>5, <4>1 DEF FileAt, DirAt, ChangedAt
    <3>8. ContextsRight'
      <4> SUFFICES ASSUME NEW k \in 1 .. n, runs'[k].kept, ~ChangedAt(k + 1)'
                   PROVE  runs'[k].ctx.old_file = FileAt(k + 1)'
                            /\ runs'[k].ctx.old_file_dir = DirAt(k + 1)'
        BY <3>4 DEF ContextsRight
      <4>1. runs'[k].ctx = runs[k + 1].ctx /\ runs[k + 1].kept /\ k + 1 \in 1 .. Len(runs)
        BY <1>1, <1>4, <3>5
      <4>2. FileAt(k + 1)' = FileAt((k + 1) + 1) /\ DirAt(k + 1)' = DirAt((k + 1) + 1)
              /\ ~ChangedAt((k + 1) + 1)
        BY <1>4, <3>7
      <4> QED BY <4>1, <4>2, Zenon DEF EnvInv, ContextsRight
    <3>9. InnermostRight'
      BY <3>1, <3>3, <3>4 DEF InnermostRight, ChangedAt
    <3> QED BY <2>3, <3>6, <3>8, <3>9 DEF EnvInv, NothingYet
  <2> QED BY <2>4, <2>5
<1> QED BY <1>5, <1>6

(* A host is named: at most the variable of its name changes.              *)
LEMMA HostNamed ==
  ASSUME IsEnv(csh_env), NEW addr, NEW name, NEW override, NEW alloc,
         E!known_hosts_add(addr, name, override, alloc)
  PROVE  /\ IsEnv(csh_env)'
         /\ \A n \in E!FileVars \ {name} : E!csh_getvar(csh_env', n) = E!csh_getvar(csh_env, n)
<1>1. csh_env' = csh_env \/ csh_env' = Put(csh_env, name, addr)
  BY DEF E!known_hosts_add, E!csh_putvar, Put
<1>2. IsEnv(csh_env') /\ \A n : n # name => E!csh_getvar(csh_env', n) = E!csh_getvar(csh_env, n)
  BY <1>1, PutIs
<1> QED BY <1>2 DEF IsEnv

(* Where no script runs and nothing is defined.                            *)
LEMMA EnvStart == csh_env = << >> /\ runs = << >> /\ changed = FALSE => EnvInv
<1> SUFFICES ASSUME csh_env = << >>, runs = << >>, changed = FALSE PROVE EnvInv
  OBVIOUS
<1>1. Len(runs) = 0 /\ runs \in Seq(Range(runs)) /\ csh_env \in Seq(Range(csh_env))
      /\ DOMAIN runs = {} /\ DOMAIN csh_env = {}
  <2>1. \A S : << >> \in Seq(S)
    BY EmptySeq
  <2> QED BY <2>1
<1>2. IsEnv(csh_env)
  BY <1>1, Zenon DEF IsEnv
<1>3. FileOf(csh_env) = E!Undefined /\ FileDirOf(csh_env) = E!Undefined
  BY <1>1, <1>2, ValueOf, Zenon DEF FileOf, FileDirOf
<1>4. RunsTyped /\ ContextsRight
  <2>1. changed \in BOOLEAN
    OBVIOUS
  <2>2. 1 .. Len(runs) = {}
    BY <1>1
  <2> QED BY <1>1, <2>1, <2>2, Zenon DEF RunsTyped, ContextsRight
<1>5. InnermostRight
  BY <1>1, <1>3 DEF InnermostRight, FileAt, DirAt
<1> QED BY <1>2, <1>4, <1>5 DEF EnvInv, NothingYet

(* Every command, hook, restart and step of main keeps EnvInv.             *)
LEMMA EnvStep == EnvInv /\ [E!Next]_(E!vars) => EnvInv'
<1> SUFFICES ASSUME EnvInv, [E!Next]_(E!vars) PROVE EnvInv'
  OBVIOUS
<1>0. IsEnv(csh_env) /\ (phase # "start" \/ runs = << >>)
  BY DEF EnvInv, NothingYet
<1>1. ASSUME NEW name, NEW value, NEW alloc, E!slash_var_set(name, value, alloc) PROVE EnvInv'
  <2>1. csh_env' = E!csh_putvar(csh_env, name, value, alloc) /\ E!Touch({name}) /\ phase' # "start"
    BY <1>1 DEF E!slash_var_set, E!Typed
  <2>2. IsEnv(csh_env)'
          /\ \A n \in E!FileVars \ {name} : E!csh_getvar(csh_env', n) = E!csh_getvar(csh_env, n)
    BY <1>0, <2>1, PutKeeps DEF IsEnv
  <2> QED BY <2>1, <2>2, VariableTouched
<1>2. ASSUME NEW name, E!slash_var_unset(name) PROVE EnvInv'
  <2>1. csh_env' = E!csh_delvar(csh_env, name) /\ E!Touch({name}) /\ phase' # "start"
    BY <1>2 DEF E!slash_var_unset, E!Typed
  <2>2. IsEnv(csh_env)'
          /\ \A n \in E!FileVars \ {name} : E!csh_getvar(csh_env', n) = E!csh_getvar(csh_env, n)
    BY <1>0, <2>1, DelKeeps DEF IsEnv
  <2> QED BY <2>1, <2>2, VariableTouched
<1>3. CASE E!slash_var_clear
  <2>1. csh_env' = << >> /\ E!Touch(E!FileVars) /\ phase' # "start"
    BY <1>3 DEF E!slash_var_clear, E!Typed, E!csh_clearenv
  <2>2. IsEnv(csh_env)'
    BY <2>1, EmptySeq DEF IsEnv
  <2> QED BY <2>1, <2>2, VariableTouched
<1>4. ASSUME UNCHANGED <<csh_env, runs, changed>>, phase' # "start"
      PROVE  EnvInv'
  <2>1. E!Touch({})
    BY <1>4 DEF E!Touch
  <2>2. IsEnv(csh_env)'
    BY <1>0, <1>4 DEF IsEnv
  <2> QED BY <1>4, <2>1, <2>2, VariableTouched
<1>5. ASSUME NEW addr, NEW name, NEW override, NEW alloc,
             E!known_hosts_add(addr, name, override, alloc),
             E!Touch({name}), E!Typed, phase' = phase
      PROVE  EnvInv'
  <2>1. /\ IsEnv(csh_env)' /\ phase' # "start"
        /\ \A n \in E!FileVars \ {name} : E!csh_getvar(csh_env', n) = E!csh_getvar(csh_env, n)
    BY <1>0, <1>5, HostNamed DEF E!Typed
  <2> QED BY <1>5, <2>1, VariableTouched
<1>6. ASSUME NEW script, NEW alloc \in BOOLEAN, E!Run(script, alloc) PROVE EnvInv'
  <2>1. E!slash_on_run_pre_hook(script, alloc) /\ changed' = changed /\ phase' # "start"
    BY <1>6 DEF E!Run, E!Typed
  <2> QED BY <2>1, ScriptBegins
<1>7. ASSUME NEW alloc, E!HostsLine(alloc) PROVE EnvInv'
  <2> DEFINE line == Head(Head(runs).todo)
  <2>1. /\ runs # << >> /\ E!known_hosts_add(line.node, line.name, TRUE, alloc)
        /\ runs' = [runs EXCEPT ![1].todo = Tail(@), ![1].changed = @ \/ line.name \in E!FileVars]
        /\ changed' = changed /\ phase' = phase
    BY <1>7 DEF E!HostsLine
  <2> HIDE DEF line
  <2>2. /\ IsEnv(csh_env)' /\ phase' # "start"
        /\ \A n \in E!FileVars \ {line.name} : E!csh_getvar(csh_env', n) = E!csh_getvar(csh_env, n)
    BY <1>0, <2>1, HostNamed
  <2>3. Len(runs) \in Nat \ {0} /\ DOMAIN runs = 1 .. Len(runs) /\ 1 \in DOMAIN runs
    BY <2>1, EmptySeq, LenProperties DEF EnvInv, RunsTyped
  <2> DEFINE todo == Tail(runs[1].todo)
             touched == runs[1].changed \/ line.name \in E!FileVars
             e == [runs[1] EXCEPT !.todo = todo, !.changed = touched]
             S == Range(runs) \cup {e}
  <2>4. runs' = [runs EXCEPT ![1] = e] /\ runs \in Seq(S) /\ e \in S
    BY <2>1, <2>3, SeqMonotonic DEF EnvInv, RunsTyped
  <2>5. DOMAIN runs[1] = {"file", "ctx", "kept", "changed", "todo"}
    BY <2>3 DEF EnvInv, RunsTyped
  <2>6. /\ e.file = runs[1].file /\ e.ctx = runs[1].ctx /\ e.kept = runs[1].kept
        /\ e.changed = touched /\ DOMAIN e = {"file", "ctx", "kept", "changed", "todo"}
    BY <2>5
  <2> HIDE DEF e, S, todo
  <2>a. (runs[1].changed => e.changed) /\ (line.name \in E!FileVars => e.changed)
    BY <2>6, Zenon
  <2> HIDE DEF touched
  <2>7. /\ runs' \in Seq(S) /\ Len(runs') = Len(runs) /\ DOMAIN runs' = 1 .. Len(runs)
        /\ \A k \in 1 .. Len(runs) : runs'[k] = IF k = 1 THEN e ELSE runs[k]
    BY <2>3, <2>4, ExceptSeq, LenProperties
  <2>8. RunsTyped'
    <3>1. runs' \in Seq(Range(runs')) /\ changed' \in BOOLEAN
      BY <2>1, <2>7, SeqOfRange DEF EnvInv, RunsTyped
    <3> QED BY <2>3, <2>6, <2>7, <3>1 DEF EnvInv, RunsTyped
  <2>9. \A k \in 1 .. Len(runs) : /\ runs'[k].file = runs[k].file /\ runs'[k].ctx = runs[k].ctx
                                  /\ runs'[k].kept = runs[k].kept
                                  /\ runs[k].changed => runs'[k].changed
                                  /\ k > 1 => runs'[k].changed = runs[k].changed
    BY <2>3, <2>6, <2>7, <2>a
  <2>10. ~ChangedAt(1)' =>
           FileOf(csh_env') = FileOf(csh_env) /\ FileDirOf(csh_env') = FileDirOf(csh_env)
    <3>1. ~ChangedAt(1)' => line.name \notin E!FileVars
      <4>1. ChangedAt(1)' <=> e.changed
        BY <2>3, <2>7 DEF ChangedAt
      <4> QED BY <2>a, <4>1
    <3>2. "__FILE__" \in E!FileVars /\ "__FILE_DIR__" \in E!FileVars
      BY DEF E!FileVars
    <3> QED BY <2>2, <3>1, <3>2, Zenon DEF FileOf, FileDirOf
  <2> QED BY <2>1, <2>2, <2>7, <2>8, <2>9, <2>10, RunsStay
<1>8. CASE E!RunEnds
  <2>1. E!slash_on_run_post_hook /\ runs # << >> /\ phase' # "start"
    BY <1>0, <1>8 DEF E!RunEnds
  <2> QED BY <2>1, ScriptEnds
<1>9. CASE E!PersistHosts
  <2>1. E!slash_on_run_pre_hook(E!HOSTS, TRUE) /\ changed' = changed /\ phase' # "start"
    BY <1>9 DEF E!PersistHosts
  <2> QED BY <2>1, ScriptBegins
<1>10. CASE E!InitFile
  <2> DEFINE first == Put(csh_env, "INIT_FILE", E!INITFILE)
  <2>1. /\ csh_env' = Put(first, "INIT_DIR", DirOf(E!INITFILE))
        /\ UNCHANGED <<runs, changed>> /\ phase' # "start"
    BY <1>10 DEF E!InitFile, E!csh_putvar, Put
  <2>2. IsEnv(first) /\ \A n : n # "INIT_FILE" => E!csh_getvar(first, n) = E!csh_getvar(csh_env, n)
    BY <1>0, PutIs
  <2> HIDE DEF first
  <2>3. IsEnv(csh_env') /\ \A n : n # "INIT_DIR" => E!csh_getvar(csh_env', n) = E!csh_getvar(first, n)
    BY <2>1, <2>2, PutIs
  <2>4. E!Touch({}) /\ \A n \in E!FileVars \ {} : n # "INIT_FILE" /\ n # "INIT_DIR"
    BY <2>1 DEF E!Touch, E!FileVars
  <2>5. \A n \in E!FileVars \ {} : E!csh_getvar(csh_env', n) = E!csh_getvar(csh_env, n)
    BY <2>2, <2>3, <2>4, Zenon
  <2>6. IsEnv(csh_env)'
    BY <2>3 DEF IsEnv
  <2> QED BY <2>1, <2>4, <2>5, <2>6, VariableTouched
<1>11. CASE E!Restart
  <2>1. csh_env' = << >> /\ runs' = << >> /\ changed' = FALSE
    BY <1>11 DEF E!Restart, E!csh_clearenv
  <2>2. (csh_env = << >> /\ runs = << >> /\ changed = FALSE)'
    BY <2>1
  <2> QED BY <2>2, EnvStart, PTL
<1>12. CASE UNCHANGED E!vars
  BY <1>12 DEF E!vars, EnvInv, IsEnv, RunsTyped, ContextsRight, InnermostRight, NothingYet, FileAt,
     DirAt, ChangedAt, FileOf, FileDirOf
<1>13. ASSUME NEW arg, E!cmd_node(arg) PROVE EnvInv'
  <2>1. UNCHANGED <<csh_env, runs, changed>> /\ phase' # "start"
    BY <1>13 DEF E!cmd_node, E!Typed
  <2> QED BY <1>4, <2>1
<1>14. ASSUME NEW opens, E!cmd_node_save(opens) PROVE EnvInv'
  <2>1. UNCHANGED <<csh_env, runs, changed>> /\ phase' # "start"
    BY <1>14 DEF E!cmd_node_save, E!Typed
  <2> QED BY <1>4, <2>1
<1>15. ASSUME NEW addr, NEW name, NEW alloc, E!cmd_node_add(addr, name, alloc) PROVE EnvInv'
  <2>1. PICK override : override = TRUE
    OBVIOUS
  <2>2. E!known_hosts_add(addr, name, override, alloc) /\ E!Touch({name}) /\ E!Typed /\ phase' = phase
    BY <1>15, <2>1 DEF E!cmd_node_add
  <2> QED BY <1>5, <2>2
<1>16. ASSUME NEW addr, NEW name, NEW override, NEW alloc, E!IdentAnswer(addr, name, override, alloc)
       PROVE  EnvInv'
  <2>1. E!known_hosts_add(addr, name, override, alloc) /\ E!Touch({name}) /\ E!Typed /\ phase' = phase
    BY <1>16 DEF E!IdentAnswer
  <2> QED BY <1>5, <2>1
<1> QED BY <1>1, <1>2, <1>3, <1>6, <1>7, <1>8, <1>9, <1>10, <1>11, <1>12, <1>13, <1>14, <1>15,
      <1>16, Zenon
        DEF E!Next, E!slash_csp_cmp_ident, E!csp_scan

(* For every set of scripts, variables and hosts and however deep scripts  *)
(* run scripts: __FILE__ and __FILE_DIR__ name the innermost one, unless   *)
(* it, the user or a node's name changed them.                             *)
THEOREM FilesInnermost == E!Spec => []FileIsInnermost
<1>1. E!Init => EnvInv
  BY EnvStart DEF E!Init
<1>2. EnvInv => FileIsInnermost
  BY InnermostIs DEF EnvInv, FileIsInnermost
<1> QED BY <1>1, <1>2, EnvStep, PTL DEF E!Spec
-----------------------------------------------------------------------------
(* A nonempty set of numbers has a smallest one, the one Min chooses: the  *)
(* intervals up to its numbers have a minimal one.                         *)
LEMMA LeastOf ==
  ASSUME NEW S, S \subseteq Nat, S # {}
  PROVE  E!Min(S) \in S /\ \A y \in S : E!Min(S) <= y
<1> DEFINE upTo == {0 .. x : x \in S}
<1>1. upTo \subseteq FiniteSubsetsOf(Nat)
  <2> SUFFICES ASSUME NEW x \in S PROVE 0 .. x \in FiniteSubsetsOf(Nat)
    BY Zenon
  <2>1. IsFiniteSet(0 .. x) /\ 0 .. x \subseteq Nat
    BY FS_Interval, SMT
  <2> QED BY <2>1, Zenon DEF FiniteSubsetsOf
<1>2. upTo # {}
  OBVIOUS
<1>3. PICK W \in upTo : \A V \in upTo : ~ (<<V, W>> \in StrictSubsetOrdering(Nat))
  <2> HIDE DEF upTo
  <2> QED BY <1>1, <1>2, FS_StrictSubsetOrderingWellFounded, WFMin, Zenon
<1>4. PICK x \in S : W = 0 .. x
  OBVIOUS
<1>5. ASSUME NEW y \in S, ~(x <= y) PROVE FALSE
  <2>1. 0 .. y \in upTo
    OBVIOUS
  <2>2. 0 .. y \subseteq 0 .. x /\ 0 .. y # 0 .. x /\ 0 .. x \subseteq Nat
    <3>1. x \in 0 .. x /\ x \notin 0 .. y
      BY <1>5, SMT
    <3> QED BY <1>5, <3>1, SMT
  <2>3. <<0 .. y, 0 .. x>> \in StrictSubsetOrdering(Nat)
    BY <2>2, Zenon DEF StrictSubsetOrdering
  <2> QED BY <1>3, <1>4, <2>1, <2>3, Zenon
<1> QED BY <1>5, Zenon DEF E!Min

(* Induction up to a number: a set that holds 0 and the successor of each  *)
(* of its numbers below n holds all up to n, for the smallest it lacks     *)
(* would have a predecessor.                                               *)
LEMMA UpTo ==
  ASSUME NEW n \in Nat, NEW T, 0 \in T, \A i \in 0 .. n - 1 : i \in T => i + 1 \in T
  PROVE  \A i \in 0 .. n : i \in T
<1> SUFFICES ASSUME NEW m \in 0 .. n, m \notin T PROVE FALSE
  OBVIOUS
<1> DEFINE lacks == {y \in 0 .. n : y \notin T}
<1>1. PICK x \in lacks : \A y \in lacks : x <= y
  <2>1. lacks \subseteq Nat /\ lacks # {}
    OBVIOUS
  <2> HIDE DEF lacks
  <2> QED BY <2>1, LeastOf, Zenon
<1>2. x # 0 /\ x - 1 \in 0 .. n - 1 /\ (x - 1) + 1 = x
  BY <1>1
<1>3. x - 1 \in lacks
  BY <1>2
<1> QED BY <1>1, <1>2, <1>3

-----------------------------------------------------------------------------
(* Names of nodes.                                                         *)

OneName(hosts) == \A i, j \in DOMAIN hosts : hosts[i].node = hosts[j].node => i = j

(* A table of hosts in which a node has one name.                          *)
IsTable(hosts) == hosts \in Seq(E!HostLine) /\ OneName(hosts)

(* What the loop of known_hosts_del keeps of the first i entries, for all  *)
(* i up to n.                                                              *)
KeptOf(hosts, addr, kept, i) ==
  IF i = 0 THEN << >>
  ELSE IF hosts[i].node = addr THEN kept[i - 1] ELSE Append(kept[i - 1], hosts[i])
IsKept(hosts, addr, kept, n) == kept = [i \in 0 .. n |-> KeptOf(hosts, addr, kept, i)]

(* There is such a function for every table.                               *)
LEMMA KeptExists ==
  ASSUME NEW hosts, NEW addr, NEW n \in Nat
  PROVE  \E kept : IsKept(hosts, addr, kept, n)
<1> DEFINE T == {m \in 0 .. n : \E kept : IsKept(hosts, addr, kept, m)}
<1>1. 0 \in T
  <2> DEFINE kept == [i \in 0 .. 0 |-> << >>]
  <2>1. \A i \in 0 .. 0 : KeptOf(hosts, addr, kept, i) = << >>
    BY DEF KeptOf
  <2>2. IsKept(hosts, addr, kept, 0)
    BY <2>1, Zenon DEF IsKept
  <2> QED BY <2>2
<1>2. ASSUME NEW m \in 0 .. n - 1, m \in T PROVE m + 1 \in T
  <2>1. PICK kept : IsKept(hosts, addr, kept, m)
    BY <1>2
  <2> DEFINE last == KeptOf(hosts, addr, kept, m + 1)
             next == [i \in 0 .. m + 1 |-> IF i = m + 1 THEN last ELSE kept[i]]
  <2>2. \A i \in 0 .. m : next[i] = kept[i] /\ kept[i] = KeptOf(hosts, addr, kept, i)
    BY <2>1 DEF IsKept
  <2>3. next[m + 1] = last
    OBVIOUS
  <2> HIDE DEF next
  <2>4. ASSUME NEW i \in 0 .. m + 1 PROVE KeptOf(hosts, addr, next, i) = KeptOf(hosts, addr, kept, i)
    <3>1. CASE i = 0
      BY <3>1, Zenon DEF KeptOf
    <3>2. CASE i # 0
      <4>1. i - 1 \in 0 .. m
        BY <3>2
      <4>2. next[i - 1] = kept[i - 1]
        BY <2>2, <4>1
      <4> QED BY <3>2, <4>2, Zenon DEF KeptOf
    <3> QED BY <3>1, <3>2
  <2>5. \A i \in 0 .. m + 1 : next[i] = KeptOf(hosts, addr, next, i)
    <3> HIDE DEF last
    <3> SUFFICES ASSUME NEW i \in 0 .. m + 1 PROVE next[i] = KeptOf(hosts, addr, next, i)
      OBVIOUS
    <3>1. CASE i = m + 1
      BY <2>3, <2>4, <3>1, Zenon DEF last
    <3>2. CASE i # m + 1
      <4>1. i \in 0 .. m
        BY <3>2
      <4> QED BY <2>2, <2>4, <4>1, Zenon
    <3> QED BY <3>1, <3>2
  <2>6. next = [i \in 0 .. m + 1 |-> next[i]]
    BY DEF next
  <2>7. IsKept(hosts, addr, next, m + 1)
    BY <2>5, <2>6, Zenon DEF IsKept
  <2>8. m + 1 \in 0 .. n
    OBVIOUS
  <2> QED BY <2>7, <2>8, Zenon
<1>3. n \in T
  <2> HIDE DEF T
  <2> QED BY <1>1, <1>2, UpTo
<1> QED BY <1>3

(* known_hosts_del removes the node's entries, and leaves a table without  *)
(* them as it is.                                                          *)
LEMMA DelIs ==
  ASSUME NEW hosts, IsTable(hosts), NEW addr
  PROVE  /\ IsTable(E!known_hosts_del(hosts, addr))
         /\ \A j \in DOMAIN E!known_hosts_del(hosts, addr) :
              E!known_hosts_del(hosts, addr)[j].node # addr
         /\ (\A j \in DOMAIN hosts : hosts[j].node # addr) => E!known_hosts_del(hosts, addr) = hosts
<1> DEFINE kept == CHOOSE kept : IsKept(hosts, addr, kept, Len(hosts))
<1>1. E!known_hosts_del(hosts, addr) = kept[Len(hosts)]
  BY Zenon DEF E!known_hosts_del, IsKept, KeptOf
<1>2. PICK n \in Nat : n = Len(hosts) /\ DOMAIN hosts = 1 .. n
  BY LenProperties DEF IsTable
<1>3. IsKept(hosts, addr, kept, n)
  BY <1>2, KeptExists, Zenon
<1> HIDE DEF kept
<1>4. /\ kept[0] = << >>
      /\ \A i \in 1 .. n : kept[i] = IF hosts[i].node = addr THEN kept[i - 1]
                                     ELSE Append(kept[i - 1], hosts[i])
  <2>1. \A i \in 0 .. n : kept[i] = KeptOf(hosts, addr, kept, i)
    BY <1>3 DEF IsKept
  <2> QED BY <2>1 DEF KeptOf
(* Of the first i entries are kept some, in a table, none of the node, and *)
(* all if none is.                                                         *)
<1> DEFINE Right(i) ==
      /\ IsTable(kept[i])
      /\ \A j \in DOMAIN kept[i] : kept[i][j].node # addr /\ \E k \in 1 .. i : kept[i][j] = hosts[k]
      /\ (\A j \in 1 .. i : hosts[j].node # addr) => kept[i] = SubSeq(hosts, 1, i)
<1>5. Right(0)
  <2>1. << >> \in Seq(E!HostLine) /\ DOMAIN << >> = {}
    BY EmptySeq
  <2>2. SubSeq(hosts, 1, 0) = << >>
    BY SubSeqEmpty
  <2> QED BY <1>4, <2>1, <2>2 DEF IsTable, OneName
<1>6. ASSUME NEW i \in 0 .. n - 1, Right(i) PROVE Right(i + 1)
  <2>0. i + 1 \in 1 .. n /\ (i + 1) - 1 = i
    OBVIOUS
  <2>1. CASE hosts[i + 1].node = addr
    <3>1. kept[i + 1] = kept[i]
      BY <1>4, <2>0, <2>1
    <3>2. \A k \in 1 .. i : k \in 1 .. i + 1
      OBVIOUS
    <3>3. i + 1 \in 1 .. i + 1
      OBVIOUS
    <3> QED BY <1>6, <2>1, <3>1, <3>2, <3>3, Zenon
  <2>2. CASE hosts[i + 1].node # addr
    <3> DEFINE e == hosts[i + 1]
    <3>1. PICK s : s = kept[i]
      OBVIOUS
    <3>2. e \in E!HostLine
      BY <1>2, <2>0, ElementOfSeq DEF IsTable
    <3>3. kept[i + 1] = Append(s, e)
      BY <1>4, <2>0, <2>2, <3>1
    <3> HIDE DEF e
    <3>4. PICK m \in Nat : m = Len(s) /\ DOMAIN s = 1 .. m /\ s \in Seq(E!HostLine) /\ OneName(s)
      BY <1>6, <3>1, LenProperties DEF IsTable
    <3>5. PICK t : t = Append(s, e)
      OBVIOUS
    <3>6. /\ t \in Seq(E!HostLine) /\ Len(t) = m + 1 /\ DOMAIN t = 1 .. m + 1
          /\ \A j \in 1 .. m : t[j] = s[j]
          /\ t[m + 1] = e
      BY <3>2, <3>4, <3>5, AppendProperties, LenProperties
    <3>7. \A j \in 1 .. m : s[j].node # addr /\ \E k \in 1 .. i : s[j] = hosts[k]
      BY <1>6, <3>1, <3>4
    <3>8. \A j \in 1 .. m : s[j].node # e.node
      BY <1>2, <2>0, <3>7 DEF e, IsTable, OneName
    <3>9. OneName(t)
      <4> SUFFICES ASSUME NEW j \in 1 .. m + 1, NEW k \in 1 .. m + 1, t[j].node = t[k].node PROVE j = k
        BY <3>6 DEF OneName
      <4>1. CASE j = m + 1 \/ k = m + 1
        BY <3>6, <3>8, <4>1
      <4>2. CASE j \in 1 .. m /\ k \in 1 .. m
        BY <3>4, <3>6, <4>2 DEF OneName
      <4> QED BY <4>1, <4>2
    <3>10. \A j \in 1 .. m + 1 : t[j].node # addr /\ \E k \in 1 .. i + 1 : t[j] = hosts[k]
      BY <2>2, <3>6, <3>7 DEF e
    <3>11. ASSUME \A j \in 1 .. i + 1 : hosts[j].node # addr PROVE t = SubSeq(hosts, 1, i + 1)
      <4>1. s = SubSeq(hosts, 1, i)
        BY <1>6, <3>1, <3>11
      <4>2. SubSeq(hosts, 1, i + 1) = SubSeq(hosts, 1, i) \o <<hosts[i + 1]>>
        <5>1. 1 \in 1 .. Len(hosts) /\ i + 1 \in 1 .. Len(hosts)
          BY <1>2
        <5> QED BY <2>0, <5>1, SubSeqRecursiveSecond DEF IsTable
      <4>3. t = s \o <<e>>
        BY <3>2, <3>4, <3>5, AppendIsConcat
      <4> QED BY <4>1, <4>2, <4>3 DEF e
    <3> QED BY <3>3, <3>5, <3>6, <3>9, <3>10, <3>11, Zenon DEF IsTable
  <2> QED BY <2>1, <2>2
<1>7. Right(n)
  <2> DEFINE T == {i \in 0 .. n : Right(i)}
  <2> HIDE DEF Right
  <2>1. 0 \in T
    BY <1>5
  <2>2. \A i \in 0 .. n - 1 : i \in T => i + 1 \in T
    <3> SUFFICES ASSUME NEW i \in 0 .. n - 1, i \in T PROVE i + 1 \in T
      OBVIOUS
    <3>1. Right(i + 1) /\ i + 1 \in 0 .. n
      BY <1>6
    <3> QED BY <3>1
  <2>3. n \in T
    <3> HIDE DEF T
    <3> QED BY <2>1, <2>2, UpTo
  <2> QED BY <2>3
<1>8. SubSeq(hosts, 1, n) = hosts
  BY <1>2, SubSeqFull DEF IsTable
<1> QED BY <1>1, <1>2, <1>7, <1>8, Zenon
(* A host is put in front of a table that does not have its node.          *)
LEMMA InFront ==
  ASSUME NEW rest, IsTable(rest), NEW e \in E!HostLine, \A j \in DOMAIN rest : rest[j].node # e.node
  PROVE  /\ IsTable(<<e>> \o rest) /\ Len(<<e>> \o rest) = Len(rest) + 1
         /\ (<<e>> \o rest)[1] = e
         /\ \A j \in 1 .. Len(rest) : (<<e>> \o rest)[j + 1] = rest[j]
<1>1. PICK m \in Nat : m = Len(rest) /\ DOMAIN rest = 1 .. m /\ rest \in Seq(E!HostLine)
  BY LenProperties DEF IsTable
<1>2. PICK h : h = <<e>>
  OBVIOUS
<1>3. h \in Seq(E!HostLine) /\ Len(h) = 1 /\ h[1] = e
  BY <1>2
<1>4. PICK t : t = h \o rest
  OBVIOUS
<1>5. /\ t \in Seq(E!HostLine) /\ Len(t) = 1 + m /\ DOMAIN t = 1 .. 1 + m
      /\ \A j \in 1 .. 1 + m : t[j] = IF j <= 1 THEN h[j] ELSE rest[j - 1]
  <2>1. /\ h \o rest \in Seq(E!HostLine) /\ Len(h \o rest) = Len(h) + Len(rest)
        /\ \A j \in 1 .. Len(h) + Len(rest) :
             (h \o rest)[j] = IF j <= Len(h) THEN h[j] ELSE rest[j - Len(h)]
    BY <1>1, <1>3, ConcatProperties
  <2>2. /\ t \in Seq(E!HostLine) /\ Len(t) = 1 + m
        /\ \A j \in 1 .. 1 + m : t[j] = IF j <= 1 THEN h[j] ELSE rest[j - 1]
    BY <1>1, <1>3, <1>4, <2>1
  <2> QED BY <2>2, LenProperties
<1>6. t[1] = e /\ \A j \in 1 .. m : t[j + 1] = rest[j]
  BY <1>1, <1>3, <1>5
<1>7. ASSUME NEW j \in 1 .. 1 + m, NEW k \in 1 .. 1 + m, t[j].node = t[k].node PROVE j = k
  <2>1. CASE j = 1 \/ k = 1
    <3>1. ASSUME NEW i \in 1 .. 1 + m, i # 1 PROVE t[i].node # e.node
      <4>1. i - 1 \in DOMAIN rest /\ t[i] = rest[i - 1]
        BY <1>1, <1>5, <3>1
      <4> QED BY <4>1
    <3> QED BY <1>6, <1>7, <2>1, <3>1, Zenon
  <2>2. CASE j # 1 /\ k # 1
    <3>1. j - 1 \in DOMAIN rest /\ k - 1 \in DOMAIN rest /\ rest[j - 1].node = rest[k - 1].node
      BY <1>1, <1>5, <1>7, <2>2
    <3>2. j - 1 = k - 1
      BY <3>1, Zenon DEF IsTable, OneName
    <3> QED BY <3>2
  <2> QED BY <2>1, <2>2
<1>8. IsTable(t)
  BY <1>5, <1>7, Zenon DEF IsTable, OneName
<1>9. Len(t) = Len(rest) + 1 /\ \A j \in 1 .. Len(rest) : t[j + 1] = rest[j]
  BY <1>1, <1>5, <1>6
<1> QED BY <1>2, <1>4, <1>6, <1>8, <1>9, Zenon

(* known_hosts_add keeps the table one; a node that has no name yet gets   *)
(* one in front, when there is memory.                                     *)
LEMMA AddIs ==
  ASSUME IsTable(known_hosts), NEW addr \in Nodes \cup {E!Node0}, NEW name \in HostNames,
         NEW override \in BOOLEAN, NEW alloc \in BOOLEAN,
         E!known_hosts_add(addr, name, override, alloc)
  PROVE  /\ IsTable(known_hosts')
         /\ (/\ override /\ alloc /\ addr # E!Node0
             /\ \A j \in DOMAIN known_hosts : known_hosts[j].node # addr)
               => known_hosts' = <<[node |-> addr, name |-> name]>> \o known_hosts
<1> DEFINE rest == IF override THEN E!known_hosts_del(known_hosts, addr) ELSE known_hosts
           e == [node |-> addr, name |-> name]
<1>1. CASE E!AddRefused(addr, override)
  BY <1>1 DEF E!known_hosts_add, E!AddRefused
<1>2. CASE ~E!AddRefused(addr, override)
  <2>1. known_hosts' = IF alloc THEN <<e>> \o rest ELSE rest
    BY <1>2 DEF E!known_hosts_add
  <2>2. e \in E!HostLine /\ e.node = addr
    BY <1>2 DEF E!AddRefused, E!HostLine
  <2>3. IsTable(rest) /\ \A j \in DOMAIN rest : rest[j].node # addr
    <3>1. CASE override
      BY <3>1, DelIs, Zenon
    <3>2. CASE ~override
      BY <1>2, <3>2, Zenon DEF E!AddRefused
    <3> QED BY <3>1, <3>2, Zenon
  <2>4. (override /\ \A j \in DOMAIN known_hosts : known_hosts[j].node # addr) => rest = known_hosts
    BY DelIs, Zenon
  <2> HIDE DEF rest, e
  <2>5. IsTable(<<e>> \o rest)
    BY <2>2, <2>3, InFront
  <2> QED BY <2>1, <2>3, <2>4, <2>5, Zenon DEF e
<1> QED BY <1>1, <1>2

(* Lookups in a table by the node, ...                                     *)
LEMMA NameOf ==
  ASSUME NEW hosts, IsTable(hosts), NEW node_
  PROVE  /\ \A i \in DOMAIN hosts : hosts[i].node = node_ =>
              E!known_hosts_get_name(hosts, node_) = hosts[i].name
         /\ (\A i \in DOMAIN hosts : hosts[i].node # node_) =>
              E!known_hosts_get_name(hosts, node_) = E!Undefined
<1> DEFINE I == {i \in 1 .. Len(hosts) : hosts[i].node = node_}
           k == IF I # {} THEN E!Min(I) ELSE 0
<1>1. DOMAIN hosts = 1 .. Len(hosts) /\ Len(hosts) \in Nat
  BY LenProperties DEF IsTable
<1>2. E!known_hosts_get_name(hosts, node_) = IF k = 0 THEN E!Undefined ELSE hosts[k].name
  BY Zenon DEF E!known_hosts_get_name, E!SelectInSeq
<1>3. ASSUME NEW i \in DOMAIN hosts, hosts[i].node = node_ PROVE k = i /\ k # 0
  <2>1. i \in I /\ \A j \in I : j = i
    BY <1>1, <1>3, Zenon DEF IsTable, OneName
  <2>2. i <= i /\ i # 0
    BY <1>1
  <2>3. E!Min(I) = i
    BY <2>1, <2>2, Zenon DEF E!Min
  <2> QED BY <2>1, <2>2, <2>3
<1>4. ASSUME \A i \in DOMAIN hosts : hosts[i].node # node_ PROVE k = 0
  <2>1. I = {}
    BY <1>1, <1>4
  <2> QED BY <2>1
<1> HIDE DEF k
<1> QED BY <1>2, <1>3, <1>4, Zenon

(* ... and by a name that one node has.                                    *)
LEMMA NodeOf ==
  ASSUME NEW hosts, IsTable(hosts), NEW i \in DOMAIN hosts,
         \A j \in DOMAIN hosts : hosts[j].name = hosts[i].name => j = i
  PROVE  E!known_hosts_get_node(hosts, hosts[i].name) = hosts[i].node
<1> DEFINE I == {j \in 1 .. Len(hosts) : hosts[j].name = hosts[i].name}
           k == IF I # {} THEN E!Min(I) ELSE 0
<1>1. DOMAIN hosts = 1 .. Len(hosts) /\ Len(hosts) \in Nat
  BY LenProperties DEF IsTable
<1>2. E!known_hosts_get_node(hosts, hosts[i].name) = IF k = 0 THEN E!Undefined ELSE hosts[k].node
  BY Zenon DEF E!known_hosts_get_node, E!SelectInSeq
<1>3. i \in I /\ \A j \in I : j = i
  BY <1>1, Zenon
<1>4. i <= i /\ i # 0
  BY <1>1
<1>5. E!Min(I) = i
  BY <1>3, <1>4, Zenon DEF E!Min
<1> QED BY <1>2, <1>3, <1>4, <1>5
(* What is left of the scripts that are run are lines of the hosts file.   *)
TodoTyped == \A k \in DOMAIN runs : runs[k].todo \in Seq(E!HostLine)

(* k lines of the hosts file have been run since the start, and have put   *)
(* their hosts into the table, the last one first.                         *)
Loaded(k) ==
  /\ Len(known_hosts) = k /\ \A i \in 1 .. k : known_hosts[i] = saved_hosts[(k + 1) - i]
  /\ IF runs = << >> THEN k = Len(saved_hosts)
     ELSE /\ Len(runs[1].todo) = Len(saved_hosts) - k
          /\ \A i \in 1 .. Len(saved_hosts) - k : runs[1].todo[i] = saved_hosts[k + i]

Loading ==
  /\ phase = "start" => known_hosts = << >>
  /\ phase = "hosts" => /\ Len(runs) <= 1
                        /\ failures = 0 => \E k \in 0 .. Len(saved_hosts) : Loaded(k)

(* The variables that are plain values.                                    *)
PlainTyped ==
  /\ slash_dfl_node \in Nodes \cup {E!Node0} /\ Len(runs) <= MaxDepth
  /\ saved \in BOOLEAN /\ changed \in BOOLEAN /\ failures \in 0 .. MaxFailures
  /\ phase \in {"start", "hosts", "up"}

(* The table and the file have one name for a node, and until the shell is *)
(* up, the table holds what has been reloaded of the file.                 *)
HostsInv ==
  /\ EnvInv /\ PlainTyped /\ TodoTyped /\ Loading
  /\ IsTable(known_hosts) /\ IsTable(saved_hosts) /\ hosts_file = saved_hosts

(* It says that the names of nodes survive a restart.                      *)
LEMMA NamesSurvive == HostsInv => NodesSurviveRestart
<1> SUFFICES ASSUME HostsInv PROVE NodesSurviveRestart
  OBVIOUS
<1>1. E!OneNamePerNode
  BY DEF HostsInv, EnvInv, IsEnv, PlainTyped, IsTable, OneName, E!OneNamePerNode, E!TypeOK
<1>2. ASSUME E!Reloaded
      PROVE  /\ \A n \in Nodes : E!known_hosts_get_name(known_hosts, n)
                                   = E!known_hosts_get_name(saved_hosts, n)
             /\ \A i \in DOMAIN saved_hosts :
                  (\A j \in DOMAIN saved_hosts : saved_hosts[j].name = saved_hosts[i].name => j = i)
                    => E!known_hosts_get_node(known_hosts, saved_hosts[i].name) = saved_hosts[i].node
  <2>1. PICK k \in Nat : /\ k = Len(saved_hosts) /\ Len(known_hosts) = k
                         /\ \A i \in 1 .. k : known_hosts[i] = saved_hosts[(k + 1) - i]
    <3>1. Len(saved_hosts) \in Nat
      BY LenProperties DEF HostsInv, IsTable
    <3> QED BY <1>2, <3>1 DEF E!Reloaded, HostsInv, Loading, Loaded
  <2>2. DOMAIN known_hosts = 1 .. k /\ DOMAIN saved_hosts = 1 .. k
    BY <2>1, LenProperties DEF HostsInv, IsTable
  <2>3. IsTable(known_hosts) /\ IsTable(saved_hosts)
    BY DEF HostsInv
  <2>4. \A i \in 1 .. k : (k + 1) - i \in 1 .. k /\ known_hosts[(k + 1) - i] = saved_hosts[i]
    <3> SUFFICES ASSUME NEW i \in 1 .. k
                 PROVE  (k + 1) - i \in 1 .. k /\ known_hosts[(k + 1) - i] = saved_hosts[i]
      OBVIOUS
    <3>1. PICK j \in 1 .. k : j = (k + 1) - i /\ (k + 1) - j = i
      BY <2>1
    <3> QED BY <2>1, <3>1
  <2>5. ASSUME NEW n \in Nodes
        PROVE  E!known_hosts_get_name(known_hosts, n) = E!known_hosts_get_name(saved_hosts, n)
    <3>1. CASE \E i \in 1 .. k : saved_hosts[i].node = n
      <4>1. PICK i \in 1 .. k : saved_hosts[i].node = n
        BY <3>1
      <4>2. PICK j \in 1 .. k : known_hosts[j] = saved_hosts[i]
        BY <2>4
      <4>3. E!known_hosts_get_name(saved_hosts, n) = saved_hosts[i].name
        BY <2>2, <2>3, <4>1, NameOf, Zenon
      <4>4. E!known_hosts_get_name(known_hosts, n) = known_hosts[j].name
        BY <2>2, <2>3, <4>1, <4>2, NameOf, Zenon
      <4> QED BY <4>2, <4>3, <4>4
    <3>2. CASE \A i \in 1 .. k : saved_hosts[i].node # n
      <4>1. \A i \in 1 .. k : known_hosts[i].node # n
        <5> SUFFICES ASSUME NEW i \in 1 .. k PROVE known_hosts[i].node # n
          OBVIOUS
        <5>1. PICK j \in 1 .. k : j = (k + 1) - i
          BY <2>1
        <5> QED BY <2>1, <3>2, <5>1
      <4>2. E!known_hosts_get_name(saved_hosts, n) = E!Undefined
        BY <2>2, <2>3, <3>2, NameOf, Zenon
      <4>3. E!known_hosts_get_name(known_hosts, n) = E!Undefined
        BY <2>2, <2>3, <4>1, NameOf, Zenon
      <4> QED BY <4>2, <4>3
    <3> QED BY <3>1, <3>2
  <2>6. ASSUME NEW i \in 1 .. k,
               \A j \in 1 .. k : saved_hosts[j].name = saved_hosts[i].name => j = i
        PROVE  E!known_hosts_get_node(known_hosts, saved_hosts[i].name) = saved_hosts[i].node
    <3>1. PICK u \in 1 .. k : u = (k + 1) - i /\ known_hosts[u] = saved_hosts[i]
      BY <2>4
    <3>2. ASSUME NEW v \in 1 .. k, known_hosts[v].name = known_hosts[u].name PROVE v = u
      <4>1. PICK j \in 1 .. k : j = (k + 1) - v /\ known_hosts[v] = saved_hosts[j]
        BY <2>1
      <4>2. j = i
        BY <2>6, <3>1, <3>2, <4>1
      <4> QED BY <2>1, <3>1, <4>1, <4>2
    <3>3. E!known_hosts_get_node(known_hosts, known_hosts[u].name) = known_hosts[u].node
      BY <2>2, <2>3, <3>2, NodeOf, Zenon
    <3> QED BY <3>1, <3>3
  <2> QED BY <2>2, <2>5, <2>6
<1> QED BY <1>1, <1>2 DEF NodesSurviveRestart, E!NodesSurviveRestart

(* A command or a line of a script, typed after the start.                 *)
LEMMA AfterStart ==
  ASSUME EnvInv', PlainTyped', TodoTyped', phase' = "up", IsTable(known_hosts'),
         IsTable(saved_hosts'), hosts_file' = saved_hosts'
  PROVE  HostsInv'
BY DEF HostsInv, Loading, IsTable, OneName

(* A variable changes: what is left of the scripts does not.               *)
LEMMA TouchKeepsTodo ==
  ASSUME EnvInv, TodoTyped, NEW names, E!Touch(names)
  PROVE  TodoTyped' /\ Len(runs') = Len(runs)
<1>1. CASE runs' = runs
  BY <1>1 DEF TodoTyped
<1>2. CASE runs # << >> /\ runs' = [runs EXCEPT ![1].changed = TRUE]
  <2> DEFINE e == [runs[1] EXCEPT !.changed = TRUE]
             S == Range(runs) \cup {e}
  <2>1. runs \in Seq(S) /\ e \in S /\ Len(runs) \in Nat \ {0} /\ DOMAIN runs = 1 .. Len(runs)
        /\ runs' = [runs EXCEPT ![1] = e]
    BY <1>2, SeqMonotonic, EmptySeq, LenProperties DEF EnvInv, RunsTyped
  <2>2. e.todo = runs[1].todo
    BY <2>1 DEF EnvInv, RunsTyped
  <2> HIDE DEF e, S
  <2>3. /\ runs' \in Seq(S) /\ Len(runs') = Len(runs) /\ DOMAIN runs' = 1 .. Len(runs)
        /\ \A k \in 1 .. Len(runs) : runs'[k] = IF k = 1 THEN e ELSE runs[k]
    BY <2>1, ExceptSeq, LenProperties
  <2> QED BY <2>1, <2>2, <2>3 DEF TodoTyped
<1> QED BY <1>1, <1>2 DEF E!Touch

(* A node is named, by node add, ident or csp scan.                        *)
LEMMA NamedKeeps ==
  ASSUME HostsInv, EnvInv', NEW addr \in Nodes \cup {E!Node0}, NEW name \in HostNames,
         NEW override \in BOOLEAN, NEW alloc \in BOOLEAN,
         E!known_hosts_add(addr, name, override, alloc), E!Typed, E!Touch({name}), E!Calloc(alloc),
         UNCHANGED <<slash_dfl_node, hosts_file, saved, saved_hosts, phase>>
  PROVE  HostsInv'
<1>1. IsTable(known_hosts')
  BY AddIs, Zenon DEF HostsInv
<1>2. TodoTyped' /\ Len(runs') = Len(runs)
  BY TouchKeepsTodo DEF HostsInv
<1>3. failures' \in 0 .. MaxFailures
  BY EnvironmentAssumption DEF HostsInv, PlainTyped, E!Calloc, E!EnvironmentAssumption
<1>4. PlainTyped' /\ phase' = "up"
  BY <1>2, <1>3 DEF HostsInv, EnvInv, RunsTyped, PlainTyped, E!Typed
<1> QED BY <1>1, <1>2, <1>4, AfterStart DEF HostsInv
(* A script begins: what is left of it are the lines of the hosts file,    *)
(* and none for another script.                                            *)
LEMMA BeginKeepsTodo ==
  ASSUME HostsInv, NEW script, NEW alloc, E!slash_on_run_pre_hook(script, alloc)
  PROVE  /\ TodoTyped' /\ Len(runs') = Len(runs) + 1
         /\ script = E!HOSTS => runs'[1].todo = hosts_file
<1> DEFINE e == [file |-> script, ctx |-> E!Context(csh_env), kept |-> alloc, changed |-> FALSE,
                 todo |-> IF script = E!HOSTS THEN hosts_file ELSE << >>]
           S == Range(runs) \cup {e}
<1>1. runs' = <<e>> \o runs
  BY DEF E!slash_on_run_pre_hook
<1>2. e \in S /\ e.todo = IF script = E!HOSTS THEN hosts_file ELSE << >>
  OBVIOUS
<1>3. e.todo \in Seq(E!HostLine)
  BY <1>2, EmptySeq DEF HostsInv, IsTable
<1>4. PICK n \in Nat : Len(runs) = n /\ DOMAIN runs = 1 .. n /\ runs \in Seq(S)
  BY SeqMonotonic, LenProperties DEF HostsInv, EnvInv, RunsTyped
<1> HIDE DEF e, S
<1>5. PICK h : h = <<e>>
  OBVIOUS
<1>6. h \in Seq(S) /\ Len(h) = 1 /\ h[1] = e
  BY <1>2, <1>5
<1>7. /\ h \o runs \in Seq(S) /\ Len(h \o runs) = Len(h) + Len(runs)
      /\ \A j \in 1 .. Len(h) + Len(runs) :
           (h \o runs)[j] = IF j <= Len(h) THEN h[j] ELSE runs[j - Len(h)]
  BY <1>4, <1>6, ConcatProperties
<1>8. PICK t : t = runs'
  OBVIOUS
<1>9. /\ t \in Seq(S) /\ Len(t) = 1 + n
      /\ \A j \in 1 .. 1 + n : t[j] = IF j <= 1 THEN h[j] ELSE runs[j - 1]
  BY <1>1, <1>4, <1>5, <1>6, <1>7, <1>8
<1>10. DOMAIN t = 1 .. 1 + n
  BY <1>9, LenProperties
<1>11. ASSUME NEW j \in 1 .. 1 + n PROVE t[j].todo \in Seq(E!HostLine)
  <2>1. CASE j = 1
    BY <1>3, <1>6, <1>9, <2>1
  <2>2. CASE j # 1
    <3>1. j - 1 \in DOMAIN runs /\ t[j] = runs[j - 1]
      BY <1>4, <1>9, <2>2
    <3> QED BY <3>1 DEF HostsInv, TodoTyped
  <2> QED BY <2>1, <2>2
<1>12. t[1] = e
  BY <1>6, <1>9
<1> QED BY <1>2, <1>4, <1>8, <1>9, <1>10, <1>11, <1>12 DEF TodoTyped

(* A script ends: those that ran it have as much left as before.           *)
LEMMA EndKeepsTodo ==
  ASSUME HostsInv, runs # << >>, E!slash_on_run_post_hook
  PROVE  TodoTyped' /\ Len(runs') = Len(runs) - 1
<1> DEFINE S == Range(runs)
<1>1. PICK n \in Nat : Len(runs) = n + 1 /\ DOMAIN runs = 1 .. n + 1
  <2>1. Len(runs) \in Nat \ {0}
    BY EmptySeq DEF HostsInv, EnvInv, RunsTyped
  <2>2. DOMAIN runs = 1 .. Len(runs)
    BY LenProperties DEF HostsInv, EnvInv, RunsTyped
  <2>3. PICK n \in Nat : n = Len(runs) - 1
    BY <2>1
  <2>4. Len(runs) = n + 1
    BY <2>1, <2>3
  <2> QED BY <2>2, <2>4
<1>2. PICK rest : rest = Tail(runs)
  OBVIOUS
<1>3. /\ rest \in Seq(S) /\ Len(rest) = n /\ DOMAIN rest = 1 .. n
      /\ \A k \in 1 .. n : rest[k] = runs[k + 1]
  <2>1. /\ Tail(runs) \in Seq(S) /\ Len(Tail(runs)) = Len(runs) - 1
        /\ \A k \in 1 .. Len(Tail(runs)) : Tail(runs)[k] = runs[k + 1]
    BY HeadTailProperties DEF HostsInv, EnvInv, RunsTyped
  <2> QED BY <1>1, <1>2, <2>1, LenProperties
<1>4. \A k \in 1 .. n : rest[k].todo \in Seq(E!HostLine) /\ DOMAIN rest[k] = DOMAIN runs[1]
  <2> SUFFICES ASSUME NEW k \in 1 .. n
               PROVE  rest[k].todo \in Seq(E!HostLine) /\ DOMAIN rest[k] = DOMAIN runs[1]
    OBVIOUS
  <2>1. k + 1 \in DOMAIN runs /\ 1 \in DOMAIN runs
    BY <1>1
  <2> QED BY <1>3, <2>1 DEF HostsInv, TodoTyped, EnvInv, RunsTyped
<1>5. CASE runs' = rest
  BY <1>1, <1>3, <1>4, <1>5 DEF TodoTyped
<1>6. CASE rest # << >> /\ runs' = [rest EXCEPT ![1].changed = TRUE]
  <2> DEFINE e == [rest[1] EXCEPT !.changed = TRUE]
             Z == S \cup {e}
  <2>1. rest \in Seq(Z) /\ e \in Z /\ runs' = [rest EXCEPT ![1] = e]
    BY <1>3, <1>6, SeqMonotonic
  <2>2. Len(rest) \in Nat \ {0}
    BY <1>3, <1>6, EmptySeq
  <2>3. 1 \in 1 .. n
    BY <1>3, <2>2
  <2>4. e.todo = rest[1].todo
    BY <1>1, <1>4, <2>3 DEF HostsInv, EnvInv, RunsTyped
  <2> HIDE DEF e, Z
  <2>5. /\ runs' \in Seq(Z) /\ Len(runs') = n /\ DOMAIN runs' = 1 .. n
        /\ \A k \in 1 .. n : runs'[k] = IF k = 1 THEN e ELSE rest[k]
    BY <1>3, <2>1, <2>3, ExceptSeq, LenProperties
  <2> QED BY <1>1, <1>4, <2>4, <2>5 DEF TodoTyped
<1> QED BY <1>2, <1>5, <1>6 DEF E!slash_on_run_post_hook

(* A line of the hosts file is run: at the prompt like any command, and    *)
(* while main loads the file, the next host is put into the table.         *)
LEMMA LineKeeps ==
  ASSUME HostsInv, EnvInv', NEW alloc \in BOOLEAN, E!HostsLine(alloc)
  PROVE  HostsInv'
<1> DEFINE line == Head(Head(runs).todo)
<1>1. /\ runs # << >> /\ Head(runs).todo # << >>
      /\ E!known_hosts_add(line.node, line.name, TRUE, alloc)
      /\ runs' = [runs EXCEPT ![1].todo = Tail(@), ![1].changed = @ \/ line.name \in E!FileVars]
      /\ E!Calloc(alloc) /\ UNCHANGED <<slash_dfl_node, hosts_file, saved, saved_hosts, phase, changed>>
  BY DEF E!HostsLine, E!fileVars
<1>2. /\ Len(runs) \in Nat \ {0} /\ DOMAIN runs = 1 .. Len(runs) /\ 1 \in DOMAIN runs
      /\ Head(runs) = runs[1]
  BY <1>1, EmptySeq, LenProperties DEF HostsInv, EnvInv, RunsTyped
<1>3. PICK todo : todo = runs[1].todo
  OBVIOUS
<1>4. PICK m \in Nat : /\ todo \in Seq(E!HostLine) /\ Len(todo) = m + 1
                       /\ Tail(todo) \in Seq(E!HostLine)
                       /\ line = todo[1] /\ line \in E!HostLine /\ Len(Tail(todo)) = m
                       /\ \A i \in 1 .. m : Tail(todo)[i] = todo[i + 1]
  <2>1. todo \in Seq(E!HostLine) /\ todo # << >> /\ line = Head(todo)
    BY <1>1, <1>2, <1>3 DEF HostsInv, TodoTyped
  <2>2. Len(todo) \in Nat \ {0}
    BY <2>1, EmptySeq
  <2>3. PICK m \in Nat : m = Len(todo) - 1
    BY <2>2
  <2>4. /\ Head(todo) \in E!HostLine /\ Tail(todo) \in Seq(E!HostLine)
        /\ Len(Tail(todo)) = Len(todo) - 1
        /\ \A i \in 1 .. Len(Tail(todo)) : Tail(todo)[i] = todo[i + 1]
    BY <2>1, HeadTailProperties
  <2>5. Head(todo) = todo[1]
    BY <2>1
  <2> QED BY <2>1, <2>2, <2>3, <2>4, <2>5
<1>5. /\ line.node \in Nodes /\ line.name \in HostNames
      /\ line = [node |-> line.node, name |-> line.name]
  BY <1>4 DEF E!HostLine
<1> HIDE DEF line
<1>6. PICK override \in BOOLEAN, addr \in Nodes \cup {E!Node0} : override = TRUE /\ addr = line.node
  BY <1>5
<1>7. /\ IsTable(known_hosts')
      /\ alloc /\ (\A j \in DOMAIN known_hosts : known_hosts[j].node # line.node)
           => known_hosts' = <<line>> \o known_hosts
  <2>1. E!known_hosts_add(addr, line.name, override, alloc)
    BY <1>1, <1>6
  <2>2. IsTable(known_hosts)
    BY DEF HostsInv
  <2>3. addr # E!Node0
    BY <1>5, <1>6, EnvironmentAssumption DEF E!EnvironmentAssumption
  <2> QED BY <1>5, <1>6, <2>1, <2>2, <2>3, AddIs, Zenon
<1>8. /\ Len(runs') = Len(runs) /\ DOMAIN runs' = DOMAIN runs /\ runs'[1].todo = Tail(todo)
      /\ \A k \in DOMAIN runs : k # 1 => runs'[k] = runs[k]
  <2> DEFINE rest == Tail(runs[1].todo)
             touched == runs[1].changed \/ line.name \in E!FileVars
             e == [runs[1] EXCEPT !.todo = rest, !.changed = touched]
             S == Range(runs) \cup {e}
  <2>1. runs' = [runs EXCEPT ![1] = e] /\ runs \in Seq(S) /\ e \in S
    BY <1>1, <1>2, SeqMonotonic DEF HostsInv, EnvInv, RunsTyped
  <2>2. DOMAIN runs[1] = {"file", "ctx", "kept", "changed", "todo"}
    BY <1>2 DEF HostsInv, EnvInv, RunsTyped
  <2>3. e.todo = Tail(todo)
    BY <1>3, <2>2
  <2> HIDE DEF e, S
  <2>4. /\ runs' \in Seq(S) /\ Len(runs') = Len(runs) /\ DOMAIN runs' = 1 .. Len(runs)
        /\ \A k \in 1 .. Len(runs) : runs'[k] = IF k = 1 THEN e ELSE runs[k]
    BY <1>2, <2>1, ExceptSeq, LenProperties
  <2> QED BY <1>2, <2>3, <2>4
<1>9. TodoTyped'
  BY <1>2, <1>4, <1>8 DEF HostsInv, TodoTyped
<1>10. PlainTyped'
  <2>1. failures' \in 0 .. MaxFailures
    BY <1>1, EnvironmentAssumption DEF HostsInv, PlainTyped, E!Calloc, E!EnvironmentAssumption
  <2> QED BY <1>1, <1>8, <2>1 DEF HostsInv, PlainTyped
<1>11. Loading'
  <2>1. phase # "start"
    BY <1>1 DEF HostsInv, EnvInv, NothingYet
  <2>2. ASSUME phase = "hosts", failures' = 0 PROVE \E k \in 0 .. Len(saved_hosts) : Loaded(k)'
    <3>1. alloc /\ failures = 0
      BY <1>1, <2>2, EnvironmentAssumption
         DEF HostsInv, PlainTyped, E!Calloc, E!EnvironmentAssumption
    <3>2. PICK k \in 0 .. Len(saved_hosts) : Loaded(k)
      BY <2>2, <3>1 DEF HostsInv, Loading
    <3>3. PICK n \in Nat : n = Len(saved_hosts) /\ DOMAIN saved_hosts = 1 .. n /\ k \in 0 .. n
      BY LenProperties DEF HostsInv, IsTable
    <3>4. /\ Len(known_hosts) = k /\ \A i \in 1 .. k : known_hosts[i] = saved_hosts[(k + 1) - i]
          /\ m + 1 = n - k /\ \A i \in 1 .. m + 1 : todo[i] = saved_hosts[k + i]
      BY <1>1, <1>3, <1>4, <3>2, <3>3 DEF Loaded
    <3>5. k + 1 \in 1 .. n /\ line = saved_hosts[k + 1]
      BY <1>4, <3>3, <3>4
    <3>6. DOMAIN known_hosts = 1 .. k
      BY <3>4, LenProperties DEF HostsInv, IsTable
    <3>7. ASSUME NEW j \in 1 .. k PROVE known_hosts[j].node # line.node
      <4>1. (k + 1) - j \in 1 .. n /\ (k + 1) - j # k + 1
        BY <3>3, <3>4
      <4>2. PICK u \in 1 .. n : u = (k + 1) - j /\ u # k + 1
        BY <4>1
      <4>3. saved_hosts[u].node # saved_hosts[k + 1].node
        BY <3>3, <3>5, <4>2, Zenon DEF HostsInv, IsTable, OneName
      <4> QED BY <3>4, <3>5, <4>2, <4>3
    <3>8. known_hosts' = <<line>> \o known_hosts
      BY <1>7, <3>1, <3>6, <3>7
    <3>9. PICK t : t = <<line>> \o known_hosts
      OBVIOUS
    <3>10. Len(t) = k + 1 /\ t[1] = line /\ \A j \in 1 .. k : t[j + 1] = known_hosts[j]
      <4>1. IsTable(known_hosts) /\ \A j \in DOMAIN known_hosts : known_hosts[j].node # line.node
        BY <3>6, <3>7 DEF HostsInv
      <4> QED BY <1>4, <3>4, <3>9, <4>1, InFront
    <3>11. ASSUME NEW i \in 1 .. k + 1 PROVE t[i] = saved_hosts[((k + 1) + 1) - i]
      <4>1. CASE i = 1
        BY <3>3, <3>5, <3>10, <4>1
      <4>2. CASE i # 1
        <5>1. PICK j \in 1 .. k : i = j + 1 /\ ((k + 1) + 1) - i = (k + 1) - j
          <6>1. i - 1 \in 1 .. k /\ i = (i - 1) + 1 /\ ((k + 1) + 1) - i = (k + 1) - (i - 1)
            BY <3>3, <4>2
          <6> QED BY <6>1
        <5> QED BY <3>4, <3>10, <5>1
      <4> QED BY <4>1, <4>2
    <3>12. /\ Len(Tail(todo)) = n - (k + 1)
           /\ \A i \in 1 .. n - (k + 1) : Tail(todo)[i] = saved_hosts[(k + 1) + i]
      <4>1. m = n - (k + 1)
        BY <3>3, <3>4
      <4>2. ASSUME NEW i \in 1 .. m PROVE Tail(todo)[i] = saved_hosts[(k + 1) + i]
        <5>1. i + 1 \in 1 .. m + 1 /\ k + (i + 1) = (k + 1) + i
          BY <3>3
        <5>2. Tail(todo)[i] = todo[i + 1] /\ todo[i + 1] = saved_hosts[k + (i + 1)]
          BY <1>4, <3>4, <5>1
        <5> QED BY <5>1, <5>2
      <4> QED BY <1>4, <4>1, <4>2
    <3>13. runs' # << >>
      BY <1>2, <1>8
    <3>14. PICK l \in 0 .. n : l = k + 1
      BY <3>5
    <3>15. Loaded(l)'
      <4>1. Len(known_hosts') = l /\ \A i \in 1 .. l : known_hosts'[i] = saved_hosts'[(l + 1) - i]
        BY <1>1, <3>8, <3>9, <3>10, <3>11, <3>14
      <4>2. /\ Len(runs'[1].todo) = Len(saved_hosts') - l
            /\ \A i \in 1 .. Len(saved_hosts') - l : runs'[1].todo[i] = saved_hosts'[l + i]
        BY <1>1, <1>8, <3>3, <3>12, <3>14
      <4> QED BY <3>13, <4>1, <4>2, Zenon DEF Loaded
    <3> QED BY <3>3, <3>14, <3>15
  <2> QED BY <1>1, <1>8, <2>1, <2>2 DEF HostsInv, Loading
<1> QED BY <1>1, <1>7, <1>9, <1>10, <1>11 DEF HostsInv, IsTable, OneName
(* Every command, hook, restart and step of main keeps HostsInv.           *)
LEMMA HostsStep == HostsInv /\ [E!Next]_(E!vars) => HostsInv'
<1> SUFFICES ASSUME HostsInv, [E!Next]_(E!vars) PROVE HostsInv'
  OBVIOUS
<1>0. EnvInv'
  BY EnvStep DEF HostsInv
<1>1. EnvInv /\ PlainTyped /\ TodoTyped /\ IsTable(known_hosts) /\ IsTable(saved_hosts)
        /\ hosts_file = saved_hosts
  BY DEF HostsInv
(* What leaves the tables alone and touches no script but a variable.      *)
<1>2. ASSUME NEW names, E!Touch(names), phase = "up", phase' = "up",
             UNCHANGED <<known_hosts, hosts_file, saved, saved_hosts>>,
             slash_dfl_node' \in Nodes \cup {E!Node0}, failures' \in 0 .. MaxFailures
      PROVE  HostsInv'
  <2>1. TodoTyped' /\ Len(runs') = Len(runs)
    BY <1>1, <1>2, TouchKeepsTodo
  <2>2. PlainTyped'
    BY <1>0, <1>1, <1>2, <2>1 DEF PlainTyped, EnvInv, RunsTyped
  <2>3. IsTable(known_hosts') /\ IsTable(saved_hosts') /\ hosts_file' = saved_hosts'
    BY <1>1, <1>2
  <2> QED BY <1>0, <1>2, <2>1, <2>2, <2>3, AfterStart
<1>3. ASSUME NEW alloc \in BOOLEAN, E!Calloc(alloc) PROVE failures' \in 0 .. MaxFailures
  BY <1>1, <1>3, EnvironmentAssumption DEF PlainTyped, E!Calloc, E!EnvironmentAssumption
<1>4. ASSUME NEW name, NEW value, NEW alloc \in BOOLEAN, E!slash_var_set(name, value, alloc)
      PROVE  HostsInv'
  <2>1. /\ E!Touch({name}) /\ phase = "up" /\ phase' = "up" /\ E!Calloc(alloc)
        /\ UNCHANGED <<known_hosts, hosts_file, saved, saved_hosts, slash_dfl_node>>
    BY <1>4 DEF E!slash_var_set, E!Typed, E!fileVars
  <2> QED BY <1>1, <1>2, <1>3, <2>1 DEF PlainTyped
<1>5. ASSUME NEW name, E!slash_var_unset(name) PROVE HostsInv'
  <2>1. /\ E!Touch({name}) /\ phase = "up" /\ phase' = "up"
        /\ UNCHANGED <<known_hosts, hosts_file, saved, saved_hosts, slash_dfl_node, failures>>
    BY <1>5 DEF E!slash_var_unset, E!Typed, E!fileVars
  <2> QED BY <1>1, <1>2, <2>1 DEF PlainTyped
<1>6. CASE E!slash_var_clear
  <2>1. /\ E!Touch(E!FileVars) /\ phase = "up" /\ phase' = "up"
        /\ UNCHANGED <<known_hosts, hosts_file, saved, saved_hosts, slash_dfl_node, failures>>
    BY <1>6 DEF E!slash_var_clear, E!Typed, E!fileVars
  <2> QED BY <1>1, <1>2, <2>1 DEF PlainTyped
<1>7. ASSUME NEW arg \in E!Args \cup {E!Node0, slash_dfl_node}
      PROVE  E!get_host_by_addr_or_name(arg) \in Nodes \cup {E!Node0, E!Undefined}
  <2>1. E!known_hosts_get_node(known_hosts, arg) \in Nodes \cup {E!Undefined}
    <3> DEFINE I == {j \in 1 .. Len(known_hosts) : known_hosts[j].name = arg}
               k == IF I # {} THEN E!Min(I) ELSE 0
    <3>1. E!known_hosts_get_node(known_hosts, arg) = IF k = 0 THEN E!Undefined ELSE known_hosts[k].node
      BY Zenon DEF E!known_hosts_get_node, E!SelectInSeq
    <3>2. I # {} => E!Min(I) \in I
      <4>1. I \subseteq Nat
        OBVIOUS
      <4> HIDE DEF I
      <4> QED BY <4>1, LeastOf
    <3>3. k # 0 => k \in 1 .. Len(known_hosts)
      BY <3>2
    <3> HIDE DEF k
    <3>4. k # 0 => known_hosts[k] \in E!HostLine
      BY <1>1, <3>3, ElementOfSeq DEF IsTable
    <3> QED BY <3>1, <3>4 DEF E!HostLine
  <2> QED BY <2>1 DEF E!get_host_by_addr_or_name
<1>8. ASSUME NEW arg \in E!Args \cup {E!Node0}, E!cmd_node(arg) PROVE HostsInv'
  <2>1. /\ E!Touch({}) /\ phase = "up" /\ phase' = "up"
        /\ UNCHANGED <<known_hosts, hosts_file, saved, saved_hosts, failures>>
    BY <1>8 DEF E!cmd_node, E!Typed, E!fileVars, E!Touch
  <2>2. slash_dfl_node' \in Nodes \cup {E!Node0}
    BY <1>1, <1>7, <1>8 DEF E!cmd_node, PlainTyped
  <2> QED BY <1>1, <1>2, <2>1, <2>2 DEF PlainTyped
<1>9. ASSUME NEW arg \in E!Args \cup {slash_dfl_node}, NEW name \in HostNames, NEW alloc \in BOOLEAN,
             E!cmd_node_add(E!get_host_by_addr_or_name(arg), name, alloc)
      PROVE  HostsInv'
  <2>1. PICK addr : addr = E!get_host_by_addr_or_name(arg)
    OBVIOUS
  <2>2. PICK override \in BOOLEAN : override = TRUE
    OBVIOUS
  <2>3. /\ addr \notin {E!Node0, E!Undefined} /\ E!Typed
        /\ E!known_hosts_add(addr, name, override, alloc)
        /\ E!Touch({name}) /\ E!Calloc(alloc)
        /\ UNCHANGED <<slash_dfl_node, hosts_file, saved, saved_hosts, phase>>
    BY <1>9, <2>1, <2>2, Zenon DEF E!cmd_node_add, E!fileVars
  <2>4. addr \in Nodes \cup {E!Node0}
    BY <1>7, <2>1, <2>3
  <2> QED BY <1>0, <2>3, <2>4, NamedKeeps
<1>10. ASSUME NEW opens \in BOOLEAN, E!cmd_node_save(opens) PROVE HostsInv'
  <2>1. /\ phase' = "up" /\ UNCHANGED <<known_hosts, slash_dfl_node, runs, failures>>
        /\ hosts_file' = IF opens THEN known_hosts ELSE hosts_file
        /\ saved_hosts' = IF opens THEN known_hosts ELSE saved_hosts
        /\ saved' = (saved \/ opens)
    BY <1>10 DEF E!cmd_node_save, E!node_save, E!Typed
  <2>2. IsTable(known_hosts') /\ IsTable(saved_hosts') /\ hosts_file' = saved_hosts'
    BY <1>1, <2>1
  <2>3. TodoTyped'
    BY <1>1, <2>1 DEF TodoTyped
  <2>4. PlainTyped'
    BY <1>0, <1>1, <2>1 DEF PlainTyped, EnvInv, RunsTyped
  <2> QED BY <1>0, <2>1, <2>2, <2>3, <2>4, AfterStart
<1>11. ASSUME NEW addr \in Nodes \cup {E!Node0}, NEW name \in HostNames, NEW override \in BOOLEAN,
              NEW alloc \in BOOLEAN, E!IdentAnswer(addr, name, override, alloc)
       PROVE  HostsInv'
  <2>1. /\ E!Typed /\ E!known_hosts_add(addr, name, override, alloc)
        /\ E!Touch({name}) /\ E!Calloc(alloc)
        /\ UNCHANGED <<slash_dfl_node, hosts_file, saved, saved_hosts, phase>>
    BY <1>11 DEF E!IdentAnswer, E!fileVars
  <2> QED BY <1>0, <2>1, NamedKeeps
<1>12. ASSUME NEW script, NEW alloc \in BOOLEAN, E!Run(script, alloc) PROVE HostsInv'
  <2>1. /\ phase = "up" /\ phase' = "up" /\ Len(runs) < MaxDepth
        /\ E!slash_on_run_pre_hook(script, alloc) /\ E!Calloc(alloc)
        /\ UNCHANGED <<known_hosts, slash_dfl_node, hosts_file, saved, saved_hosts, changed>>
    BY <1>12 DEF E!Run, E!Typed, E!fileVars
  <2>2. TodoTyped' /\ Len(runs') = Len(runs) + 1
    BY <2>1, BeginKeepsTodo
  <2>3. PlainTyped'
    <3>1. Len(runs) \in Nat
      BY <1>1, LenProperties DEF EnvInv, RunsTyped
    <3>2. failures' \in 0 .. MaxFailures
      BY <1>3, <2>1
    <3> QED BY <1>1, <2>1, <2>2, <3>1, <3>2, EnvironmentAssumption
            DEF PlainTyped, E!EnvironmentAssumption
  <2>4. IsTable(known_hosts') /\ IsTable(saved_hosts') /\ hosts_file' = saved_hosts'
    BY <1>1, <2>1
  <2> QED BY <1>0, <2>1, <2>2, <2>3, <2>4, AfterStart
<1>13. CASE E!RunEnds
  <2>1. /\ runs # << >> /\ Head(runs).todo = << >> /\ E!slash_on_run_post_hook
        /\ UNCHANGED <<known_hosts, slash_dfl_node, hosts_file, saved, saved_hosts, phase, failures>>
    BY <1>13 DEF E!RunEnds, E!fileVars
  <2>2. TodoTyped' /\ Len(runs') = Len(runs) - 1
    BY <2>1, EndKeepsTodo
  <2>3. Len(runs) \in Nat \ {0} /\ Head(runs) = runs[1] /\ Len(runs') \in Nat
          /\ (Len(runs') = 0 => runs' = << >>) /\ DOMAIN runs = 1 .. Len(runs)
    BY <1>0, <1>1, <2>1, EmptySeq, LenProperties DEF EnvInv, RunsTyped
  <2>4. PlainTyped'
    BY <1>0, <1>1, <2>1, <2>2, <2>3, EnvironmentAssumption
       DEF PlainTyped, EnvInv, RunsTyped, E!EnvironmentAssumption
  <2>5. Loading'
    <3>1. phase # "start"
      BY <1>1, <2>1 DEF EnvInv, NothingYet
    <3>2. ASSUME phase = "hosts" PROVE runs' = << >> /\ Len(runs') <= 1
      BY <2>2, <2>3, <3>2 DEF HostsInv, Loading
    <3>3. ASSUME phase = "hosts", failures = 0 PROVE \E k \in 0 .. Len(saved_hosts) : Loaded(k)'
      <4>1. PICK k \in 0 .. Len(saved_hosts) : Loaded(k)
        BY <3>3 DEF HostsInv, Loading
      <4>2. Len(saved_hosts) \in Nat
        BY <1>1, LenProperties DEF IsTable
      <4>3. k = Len(saved_hosts)
        <5>1. Len(runs[1].todo) = 0
          BY <2>1, <2>3, EmptySeq
        <5> QED BY <2>1, <4>1, <4>2, <5>1 DEF Loaded
      <4>4. Loaded(k)'
        BY <2>1, <3>2, <3>3, <4>1, <4>3 DEF Loaded
      <4> QED BY <4>4
    <3> QED BY <2>1, <3>1, <3>2, <3>3 DEF Loading
  <2>6. IsTable(known_hosts') /\ IsTable(saved_hosts') /\ hosts_file' = saved_hosts'
    BY <1>1, <2>1
  <2> QED BY <1>0, <2>2, <2>4, <2>5, <2>6 DEF HostsInv, IsTable, OneName
<1>14. CASE E!PersistHosts
  <2>1. /\ phase = "start" /\ phase' = "hosts" /\ E!slash_on_run_pre_hook(E!HOSTS, TRUE)
        /\ UNCHANGED <<known_hosts, slash_dfl_node, hosts_file, saved, saved_hosts, changed, failures>>
    BY <1>14 DEF E!PersistHosts, E!fileVars
  <2>2. TodoTyped' /\ Len(runs') = Len(runs) + 1 /\ runs'[1].todo = hosts_file
    BY <2>1, BeginKeepsTodo
  <2>3. Len(runs) = 0 /\ known_hosts = << >>
    BY <1>1, <2>1, EmptySeq DEF HostsInv, Loading, EnvInv, NothingYet
  <2>4. PlainTyped'
    BY <1>1, <2>1, <2>2, <2>3, EnvironmentAssumption DEF PlainTyped, E!EnvironmentAssumption
  <2>5. Loading'
    <3>1. PICK n \in Nat : n = Len(saved_hosts)
      BY <1>1, LenProperties DEF IsTable
    <3>2. Len(known_hosts') = 0 /\ 1 .. 0 = {}
      BY <2>1, <2>3, EmptySeq
    <3>3. runs' # << >>
      BY <2>2, <2>3, EmptySeq
    <3>4. PICK z \in 0 .. n : z = 0
      BY <3>1
    <3>5. Len(runs'[1].todo) = n - z /\ \A i \in 1 .. n - z : runs'[1].todo[i] = saved_hosts[z + i]
      BY <1>1, <2>2, <3>1, <3>4
    <3>6. Loaded(z)'
      BY <2>1, <3>1, <3>2, <3>3, <3>4, <3>5 DEF Loaded
    <3> QED BY <2>1, <2>2, <2>3, <3>1, <3>6 DEF Loading
  <2>6. IsTable(known_hosts') /\ IsTable(saved_hosts') /\ hosts_file' = saved_hosts'
    BY <1>1, <2>1
  <2> QED BY <1>0, <2>2, <2>4, <2>5, <2>6 DEF HostsInv, IsTable, OneName
<1>15. CASE E!InitFile
  <2>1. /\ phase' = "up"
        /\ UNCHANGED <<known_hosts, slash_dfl_node, runs, hosts_file, saved, saved_hosts>>
        /\ UNCHANGED <<changed, failures>>
    BY <1>15 DEF E!InitFile, E!fileVars
  <2>2. PlainTyped' /\ TodoTyped'
    BY <1>1, <2>1 DEF PlainTyped, TodoTyped
  <2>3. IsTable(known_hosts') /\ IsTable(saved_hosts') /\ hosts_file' = saved_hosts'
    BY <1>1, <2>1
  <2> QED BY <1>0, <2>1, <2>2, <2>3, AfterStart
<1>16. CASE E!Restart
  <2>1. /\ known_hosts' = << >> /\ slash_dfl_node' = E!Node0 /\ runs' = << >> /\ changed' = FALSE
        /\ failures' = 0 /\ phase' = "start" /\ UNCHANGED <<hosts_file, saved, saved_hosts>>
    BY <1>16 DEF E!Restart, E!fileVars
  <2>a. Len(runs') = 0 /\ DOMAIN runs' = {} /\ 0 \in 0 .. MaxFailures /\ 0 <= MaxDepth
    BY <2>1, EmptySeq, EnvironmentAssumption DEF E!EnvironmentAssumption
  <2>2. PlainTyped' /\ TodoTyped' /\ Loading'
    BY <1>1, <2>1, <2>a DEF PlainTyped, TodoTyped, Loading
  <2>3. IsTable(known_hosts') /\ IsTable(saved_hosts') /\ hosts_file' = saved_hosts'
    BY <1>1, <2>1, EmptySeq DEF IsTable, OneName
  <2> QED BY <1>0, <2>2, <2>3 DEF HostsInv, IsTable, OneName
<1>17. CASE UNCHANGED E!vars
  <2>1. PlainTyped' /\ TodoTyped' /\ Loading'
    BY <1>17 DEF HostsInv, E!vars, E!fileVars, PlainTyped, TodoTyped, Loading, Loaded
  <2> QED BY <1>0, <1>1, <1>17, <2>1 DEF HostsInv, E!vars, IsTable, OneName
<1>18. ASSUME NEW alloc \in BOOLEAN, E!HostsLine(alloc) PROVE HostsInv'
  BY <1>0, <1>18, LineKeeps
<1> QED BY <1>4, <1>5, <1>6, <1>8, <1>9, <1>10, <1>11, <1>12, <1>13, <1>14, <1>15, <1>16, <1>17,
      <1>18, Zenon
        DEF E!Next, E!slash_csp_cmp_ident, E!csp_scan

(* For every set of nodes, names and scripts, and however hosts are named, *)
(* saved and reloaded: a node has one name, a variable is defined once,    *)
(* and a restart brings the names back (node_save, main).                  *)
THEOREM FilesNodesSurvive == E!Spec => []NodesSurviveRestart
<1>1. E!Init => HostsInv
  <2> SUFFICES ASSUME E!Init PROVE HostsInv
    OBVIOUS
  <2>1. EnvInv
    BY EnvStart DEF E!Init
  <2>2. IsTable(known_hosts) /\ IsTable(saved_hosts) /\ hosts_file = saved_hosts
    BY EmptySeq DEF E!Init, IsTable, OneName
  <2>a. Len(runs) = 0 /\ DOMAIN runs = {} /\ 0 \in 0 .. MaxFailures /\ 0 <= MaxDepth
    BY EmptySeq, EnvironmentAssumption DEF E!Init, E!EnvironmentAssumption
  <2>3. PlainTyped /\ TodoTyped /\ Loading
    BY <2>a DEF E!Init, PlainTyped, TodoTyped, Loading
  <2> QED BY <2>1, <2>2, <2>3 DEF HostsInv
<1> QED BY <1>1, HostsStep, NamesSurvive, PTL DEF E!Spec
=============================================================================
