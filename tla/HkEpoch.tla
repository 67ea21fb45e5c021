------------------------------ MODULE HkEpoch -------------------------------
(***************************************************************************)
(* Housekeeping samples and the clock of the node they come from:          *)
(* src/hk_param_sniffer.c.                                                 *)
(*                                                                         *)
(* A node without UTC stamps its samples with the seconds since its boot.  *)
(* The shell keeps a table hks of the epoch of each node, filled by the    *)
(* command `hk timeoffset` on the shell's thread and, for the parameters   *)
(* named with `hk utcparam`, by the sniffer's thread.  No lock guards the  *)
(* table: hk_set_epoch decides (HkSetEpochCheck) and then writes           *)
(* (HkSetEpochWrite), and the other thread may run in between; it may also *)
(* see a new row before the epoch is in it (RowAppears).                   *)
(***************************************************************************)
EXTENDS Integers, Sequences, FiniteSetsExt

CONSTANTS
  Nodes,        (* CSP addresses, also of the nodes that own parameters    *)
  Params,       (* parameter ids                                           *)
  MAX_HKS,      (* rows of hks and of timesync_nodes                       *)
  Y2020, DAY,   (* 1577836800 and 86400 in the code                        *)
  Stamps,       (* tv_sec of samples: 0 (missing), since boot, or UTC      *)
  Values,       (* values of the parameter that holds UNIX time            *)
  EpochArgs,    (* epochs given to `hk timeoffset`                         *)
  Now0, MaxNow  (* the ground station's clock, and its bound               *)

(* What the constants must satisfy; the MC module assumes it.              *)
HkAssumption ==
  /\ Nodes # {} /\ MAX_HKS \in Nat \ {0} /\ Y2020 \in Nat /\ DAY \in Nat
  /\ Stamps \subseteq Nat /\ Values \subseteq Nat /\ EpochArgs \subseteq Nat \ {0}
  /\ Now0 \in Nat /\ MaxNow \in Nat /\ Y2020 <= Now0

Threads == {"sniffer", "shell"}
NewRow == 0   (* the decision to append, where a row number is expected   *)

VARIABLES
  hks,             (* sequence of [node, epoch]; its length is hks.count   *)
  timesync_nodes,  (* sequence of [node, paramid]                          *)
  pc,              (* where each thread is                                 *)
  arg,             (* [node, epoch] hk_set_epoch works on, per thread      *)
  row,             (* the row hk_set_epoch chose, or NewRow, per thread   *)
  stamp,           (* the sample's stamp                                   *)
  local_epoch,     (* the sniffer's local_epoch, -1 when there is none     *)
  logged,          (* tv_sec of the sample just logged, -1 if there is     *)
                   (* none in this packet                                  *)
  set_by,          (* history: epoch last stored for a node, -1 if none    *)
  raced,           (* history: did a thread store between check and write  *)
                   (* of the other, or read the table during the write?    *)
  now

(* The locals of a thread that has returned are set back to these.         *)
NoArg == [node |-> CHOOSE n \in Nodes : TRUE, epoch |-> 0]
ArgAfter(t) == IF t = "sniffer" THEN arg[t] ELSE NoArg

tabVars  == <<hks, set_by, raced>>
vars == <<tabVars, timesync_nodes, pc, arg, row, stamp, local_epoch, logged, now>>

Init ==
  /\ hks = << >> /\ timesync_nodes = << >>
  /\ pc = [t \in Threads |-> "idle"]
  /\ arg = [t \in Threads |-> NoArg]
  /\ row = [t \in Threads |-> NewRow]
  /\ stamp = 0 /\ local_epoch = -1 /\ logged = -1
  /\ set_by = [n \in Nodes |-> -1] /\ raced = FALSE
  /\ now = Now0

(* The rows of node n.  (A name ending in Mut is a deliberately wrong      *)
(* variant, here and below.)                                               *)
RowsOfMut(table, n) == {i \in 1 .. Len(table) - 1 : table[i].node = n}
RowsOf(table, n) == {i \in DOMAIN table : table[i].node = n}

(* hk_get_epoch: the first row of the node, -1 if there is none.           *)
hk_get_epoch(n) ==
  IF RowsOf(hks, n) = {} THEN -1 ELSE hks[Min(RowsOf(hks, n))].epoch

-----------------------------------------------------------------------------
(* hk_set_epoch, on either thread.                                         *)

IllegalMut(epoch) == epoch < Y2020
Illegal(epoch) == epoch > now \/ epoch < Y2020

(* Automatic synchronisation does not move a clock back by more than a day.*)
SkippedMut(i, epoch, auto_sync) == FALSE
Skipped(i, epoch, auto_sync) == auto_sync /\ hks[i].epoch - epoch > DAY

Full == Len(hks) >= MAX_HKS

(* The row of n that is to be replaced, NewRow for a new row, or nothing. *)
Target(n, epoch, auto_sync) ==
  IF Illegal(epoch) THEN {}
  ELSE IF RowsOf(hks, n) # {}
       THEN {i \in {Min(RowsOf(hks, n))} : ~Skipped(i, epoch, auto_sync)}
       ELSE {i \in {NewRow} : ~Full}

After(t) == IF t = "sniffer" THEN "use" ELSE "idle"

HkSetEpochCheck(t) ==
  /\ pc[t] = "set"
  /\ LET target == Target(arg[t].node, arg[t].epoch, t = "sniffer")
     IN  \/ /\ target = {}
            /\ pc' = [pc EXCEPT ![t] = After(t)]
            /\ arg' = [arg EXCEPT ![t] = ArgAfter(t)]
            /\ UNCHANGED row
         \/ \E i \in target : /\ row' = [row EXCEPT ![t] = i]
                              /\ pc' = [pc EXCEPT ![t] = "write"]
                              /\ UNCHANGED arg
  /\ UNCHANGED <<tabVars, timesync_nodes, stamp, local_epoch, logged, now>>

(* A new row may become visible before its epoch is stored: the increment  *)
(* and the assignment in local_epoch[count++] = epoch have no order.  The  *)
(* arrays are zero before.                                                 *)
RowAppears(t) ==
  /\ pc[t] = "write" /\ row[t] = NewRow
  /\ hks' = Append(hks, [arg[t] EXCEPT !.epoch = 0])
  /\ row' = [row EXCEPT ![t] = Len(hks) + 1]
  /\ raced' = (raced \/ \A u \in Threads : pc[u] = "write")
  /\ UNCHANGED <<set_by, timesync_nodes, pc, arg, stamp, local_epoch, logged, now>>

(* Is there such a row?                                                    *)
Torn == \E t \in Threads : pc[t] = "write" /\ row[t] # NewRow /\ hks[row[t]].epoch = 0

HkSetEpochWrite(t) ==
  /\ pc[t] = "write"
  /\ hks' = IF row[t] = NewRow THEN Append(hks, arg[t])
            ELSE [hks EXCEPT ![row[t]] = arg[t]]
  /\ set_by' = [set_by EXCEPT ![arg[t].node] = arg[t].epoch]
  /\ raced' = (raced \/ \A u \in Threads : pc[u] = "write")
  /\ pc' = [pc EXCEPT ![t] = After(t)]
  /\ arg' = [arg EXCEPT ![t] = ArgAfter(t)]
  /\ row' = [row EXCEPT ![t] = NewRow]
  /\ UNCHANGED <<timesync_nodes, stamp, local_epoch, logged, now>>

-----------------------------------------------------------------------------
(* The shell.                                                              *)

hk_timeoffset(n, epoch) ==
  /\ pc["shell"] = "idle"
  /\ arg' = [arg EXCEPT !["shell"] = [node |-> n, epoch |-> epoch]]
  /\ pc' = [pc EXCEPT !["shell"] = "set"]
  /\ UNCHANGED <<tabVars, timesync_nodes, row, stamp, local_epoch, logged, now>>

(* hk utcparam and hk_set_utcparam.  A command that names no known         *)
(* parameter changes nothing.                                              *)
hk_utcparam(n, id) ==
  /\ pc["shell"] = "idle"
  /\ LET entry == [node |-> n, paramid |-> id]
         known == RowsOf(timesync_nodes, n)
     IN  \/ /\ known # {}
            /\ timesync_nodes' = [timesync_nodes EXCEPT ![Min(known)] = entry]
         \/ /\ known = {} /\ Len(timesync_nodes) < MAX_HKS
            /\ timesync_nodes' = Append(timesync_nodes, entry)
  /\ UNCHANGED <<tabVars, pc, arg, row, stamp, local_epoch, logged, now>>

-----------------------------------------------------------------------------
(* The sniffer: a packet from src, and the samples in it.                  *)

hk_param_sniffer(src) ==
  /\ pc["sniffer"] = "idle"
  /\ arg' = [arg EXCEPT !["sniffer"].node = src]
  /\ pc' = [pc EXCEPT !["sniffer"] = "packet"]
  /\ UNCHANGED <<tabVars, timesync_nodes, row, stamp, local_epoch, logged, now>>

(* The end of the packet, or a sample without a stamp, which ends it.      *)
PacketEnds ==
  /\ pc["sniffer"] = "packet"
  /\ pc' = [pc EXCEPT !["sniffer"] = "idle"]
  /\ arg' = [arg EXCEPT !["sniffer"] = NoArg]
  /\ logged' = -1
  /\ UNCHANGED <<tabVars, timesync_nodes, row, stamp, local_epoch, now>>

(* A UTC stamp is used as it is.                                           *)
UtcSample(ts) ==
  /\ pc["sniffer"] = "packet" /\ ts # 0 /\ ts >= Y2020
  /\ logged' = ts
  /\ UNCHANGED <<tabVars, timesync_nodes, pc, arg, row, stamp, local_epoch, now>>

IsTimesync(n, id) ==
  \E i \in DOMAIN timesync_nodes : timesync_nodes[i] = [node |-> n, paramid |-> id]

(* Parameter id of node n, stamped since boot: if it holds UNIX time, the  *)
(* epoch it implies is offered for the row of the packet's source.         *)
BootSample(n, id, ts, value) ==
  /\ pc["sniffer"] = "packet" /\ ts # 0 /\ ts < Y2020
  /\ stamp' = ts /\ logged' = -1
  /\ IF IsTimesync(n, id)
     THEN /\ local_epoch' = value - ts
          /\ arg' = [arg EXCEPT !["sniffer"].epoch = value - ts]
          /\ pc' = [pc EXCEPT !["sniffer"] = "set"]
     ELSE /\ local_epoch' = -1
          /\ pc' = [pc EXCEPT !["sniffer"] = "use"]
          /\ UNCHANGED arg
  /\ UNCHANGED <<tabVars, timesync_nodes, row, now>>

(* The sample is logged with the offered epoch, taken or not, or with the  *)
(* one in the table; without either it is skipped.                         *)
UseEpoch ==
  /\ pc["sniffer"] = "use"
  /\ LET epoch == IF local_epoch = -1 THEN hk_get_epoch(arg["sniffer"].node)
                                      ELSE local_epoch
     IN  logged' = IF epoch = -1 THEN logged ELSE stamp + epoch
  /\ pc' = [pc EXCEPT !["sniffer"] = "packet"]
  /\ arg' = [arg EXCEPT !["sniffer"].epoch = 0]
  /\ stamp' = 0 /\ local_epoch' = -1
  /\ raced' = (raced \/ (local_epoch = -1 /\ Torn))
  /\ UNCHANGED <<hks, set_by, timesync_nodes, row, now>>

Tick ==
  /\ now < MaxNow
  /\ now' = now + 1
  /\ UNCHANGED <<tabVars, timesync_nodes, pc, arg, row, stamp, local_epoch, logged>>

-----------------------------------------------------------------------------
Next ==
  \/ \E n \in Nodes, e \in EpochArgs : hk_timeoffset(n, e)
  \/ \E n \in Nodes, id \in Params : hk_utcparam(n, id)
  \/ \E t \in Threads : HkSetEpochCheck(t) \/ RowAppears(t) \/ HkSetEpochWrite(t)
  \/ \E src \in Nodes : hk_param_sniffer(src)
  \/ PacketEnds
  \/ \E ts \in Stamps : UtcSample(ts)
  \/ \E n \in Nodes, id \in Params, ts \in Stamps, v \in Values : BootSample(n, id, ts, v)
  \/ UseEpoch
  \/ Tick

Spec == Init /\ [][Next]_vars

-----------------------------------------------------------------------------
(* Properties.                                                             *)

(* Types of all variables.                                                 *)
TypeOK ==
  /\ hks \in Seq([node : Nodes, epoch : Int])
  /\ timesync_nodes \in Seq([node : Nodes, paramid : Params])
  /\ pc \in [Threads -> {"idle", "packet", "set", "write", "use"}]
  /\ arg \in [Threads -> [node : Nodes, epoch : Int]]
  /\ row \in [Threads -> 0 .. Len(hks)]
  /\ stamp \in Nat /\ local_epoch \in Int /\ logged \in Nat \cup {-1}
  /\ set_by \in [Nodes -> Nat \cup {-1}] /\ raced \in BOOLEAN /\ now \in Nat

(* Both tables stay within the MAX_HKS rows the arrays have ("Maximum      *)
(* number of HK nodes reached").                                           *)
TableBound == Len(hks) <= MAX_HKS /\ Len(timesync_nodes) <= MAX_HKS

(* Unless the two threads met in hk_set_epoch, the tables fit, every node  *)
(* has one row, and the epoch stored last for a node is the one            *)
(* hk_get_epoch gives to its samples once the row is complete.             *)
TableRightUnlessRaced ==
  ~raced => /\ TableBound
            /\ \A i, j \in DOMAIN hks : hks[i].node = hks[j].node => i = j
            /\ ~Torn => \A n \in Nodes : hk_get_epoch(n) = set_by[n]

(* The parameters named with `hk utcparam` hold the time of a clock that   *)
(* was set: the epochs they imply lie after 2020.                          *)
ClocksSet == \A v \in Values, ts \in Stamps : ts < Y2020 => v - ts >= Y2020

(* All variables have their types; whichever thread stored it, an epoch in *)
(* the table lies between 2020 and the ground station's clock ("Illegal    *)
(* EPOCH"), also when the clock or the table changed between the check and *)
(* the write, and only a row that is just being written may lack it; and   *)
(* no sample is logged with a time before 2020: it is skipped as long as   *)
(* there is no epoch for its source, whatever `hk timeoffset` was given,   *)
(* unless the sniffer read a row while the shell was writing it.           *)
TableLegal ==
  /\ TypeOK
  /\ \A i \in DOMAIN hks : \/ hks[i].epoch \in Y2020 .. now
                            \/ \E t \in Threads : pc[t] = "write" /\ row[t] = i
  /\ (ClocksSet /\ ~raced /\ logged # -1) => logged >= Y2020

(* Automatic synchronisation ("Skipping possible invalid EPOCH") never     *)
(* moves the epoch of a node back by more than a day, unless the shell     *)
(* stored one after the sniffer had checked.                               *)
AutoSyncNeverBack ==
  [][(pc["sniffer"] = "write" /\ pc'["sniffer"] = "use" /\ ~raced')
       => \A n \in Nodes : hk_get_epoch(n) # -1 =>
            hk_get_epoch(n)' >= hk_get_epoch(n) - DAY]_vars
=============================================================================
