----------------------------- MODULE Telemetry ------------------------------
(***************************************************************************)
(* The parameter sniffer and its consumers: src/param_sniffer.c,           *)
(* src/prometheus.c and src/vts.c.                                         *)
(*                                                                         *)
(* The shell starts the consumers (prometheus start, vts init, vm start);  *)
(* the first of them starts the sniffer thread.  The sniffer decodes       *)
(* samples and appends them to the Prometheus buffer, the log file and     *)
(* the VTS socket; the exporter thread answers scrapes from the same       *)
(* buffer without any lock.  (The Victoria Metrics consumer has a module   *)
(* of its own, VmPush.)                                                    *)
(*                                                                         *)
(* A sample is its serial number and occupies one cell of the buffer.      *)
(***************************************************************************)
EXTENDS Integers, Sequences

CONSTANTS
  MaxSamples,   (* bound: samples the sniffer decodes                      *)
  BufCells,     (* samples prometheus_buf has room for, the NUL included   *)
  Stamps,       (* timestamps of samples, in seconds                       *)
  Arrives,      (* outcomes of a send to the scraper: {TRUE} or BOOLEAN    *)
  Consumers     (* commands the shell may use to start the sniffer         *)

ASSUME TelemetryAssumption ==
  /\ MaxSamples \in Nat /\ BufCells \in Nat \ {0}
  /\ Stamps \subseteq Nat /\ Arrives \subseteq BOOLEAN
  /\ Consumers \subseteq {"prometheus", "vm", "vts"}

Cells == 1 .. BufCells

VARIABLES
  sniffer_running, sniffers,   (* the flag, and how many threads exist     *)
  logfile, log,                (* is param_sniffer.log open; its samples   *)
  prometheus_started, exporters,
  buf, buf_len,                (* prometheus_buf and prometheus_buf_len    *)
  exporter,                    (* where the exporter thread is             *)
  vts_running, sockfd,         (* "none", "connected" or "closed"          *)
  last_time, vts_sent,         (* last_q_hat_time; times sent to VTS       *)
  sniffer,                     (* where the sniffer thread is              *)
  sample, stamp, old_len,      (* its sample, and buf_len as it read it    *)
  stored, served,              (* history: samples prometheus_add stored,  *)
                               (* and samples sent to a scraper            *)
  raced                        (* history: a scrape overlapped an add, or  *)
                               (* its answer was lost                      *)

startVars == <<sniffer_running, sniffers, logfile>>
promVars  == <<prometheus_started, exporters>>
bufVars   == <<buf, buf_len, stored, raced>>
vtsVars   == <<vts_running, sockfd>>
sentVars  == <<last_time, vts_sent>>
snifVars  == <<sniffer, sample, stamp, old_len>>
vars == <<startVars, log, promVars, bufVars, exporter, served, vtsVars, sentVars, snifVars>>

Init ==
  /\ sniffer_running = FALSE /\ sniffers = 0
  /\ logfile = FALSE /\ log = {}
  /\ prometheus_started = FALSE /\ exporters = 0
  /\ buf = [c \in Cells |-> 0] /\ buf_len = 0
  /\ exporter = "none" /\ stored = {} /\ served = {} /\ raced = FALSE
  /\ vts_running = FALSE /\ sockfd = "none"
  /\ last_time = 0 /\ vts_sent = << >>
  /\ sniffer = "none" /\ sample = 0 /\ stamp = 0 /\ old_len = 0

-----------------------------------------------------------------------------
(* The shell.                                                              *)

(* param_sniffer_init: does nothing once the sniffer runs, and otherwise   *)
(* opens the log file if asked and starts the thread.                      *)
Already == sniffer_running

param_sniffer_init(add_logfile, opens) ==
  IF Already THEN UNCHANGED <<startVars, sniffer>>
  ELSE /\ logfile' = (add_logfile /\ opens)
       /\ sniffer_running' = TRUE /\ sniffers' = sniffers + 1
       /\ sniffer' = "idle"

(* prometheus start: the exporter thread, the sniffer, then the flag.      *)
prometheus_start_cmd(add_logfile, opens) ==
  /\ "prometheus" \in Consumers /\ ~prometheus_started
  /\ exporters' = exporters + 1 /\ exporter' = "accept"
  /\ param_sniffer_init(add_logfile, opens)
  /\ prometheus_started' = TRUE
  /\ UNCHANGED <<log, bufVars, served, vtsVars, sentVars, sample, stamp, old_len>>

(* vm start, as far as it concerns the sniffer.                            *)
vm_start_cmd(add_logfile, opens) ==
  /\ "vm" \in Consumers
  /\ param_sniffer_init(add_logfile, opens)
  /\ UNCHANGED <<log, promVars, bufVars, exporter, served, vtsVars, sentVars,
                 sample, stamp, old_len>>

(* vts init: the socket is replaced first; on a failure it is closed and   *)
(* vts_running keeps its value.                                            *)
VtsInitOk ==
  /\ "vts" \in Consumers
  /\ sockfd' = "connected" /\ vts_running' = TRUE
  /\ param_sniffer_init(FALSE, FALSE)
  /\ UNCHANGED <<log, promVars, bufVars, exporter, served, sentVars, sample, stamp, old_len>>

VtsInitFails ==
  /\ "vts" \in Consumers
  /\ sockfd' = "closed"
  /\ UNCHANGED <<startVars, log, promVars, bufVars, exporter, served, vts_running,
                 sentVars, snifVars>>

-----------------------------------------------------------------------------
(* The sniffer: one sample of a checked, known parameter.                  *)

Decode(s) ==
  /\ sniffer = "idle" /\ sample < MaxSamples
  /\ sample' = sample + 1 /\ stamp' = s
  /\ sniffer' = IF prometheus_started THEN "prometheus" ELSE "log"
  /\ UNCHANGED <<startVars, log, promVars, bufVars, exporter, served, vtsVars, sentVars, old_len>>

HasRoomMut == buf_len + 1 <= BufCells
HasRoom == buf_len + 1 < BufCells

(* Where prometheus_add copies the sample.                                 *)
CopyAtMut == buf_len + 2
CopyAt == buf_len + 1

(* prometheus_add: strcpy behind the current length ...                    *)
PrometheusCopy ==
  /\ sniffer = "prometheus"
  /\ IF HasRoom
     THEN /\ buf' = [buf EXCEPT ![CopyAt] = sample]
          /\ old_len' = buf_len
          /\ sniffer' = "length"
     ELSE sniffer' = "log" /\ UNCHANGED <<buf, old_len>>
  /\ UNCHANGED <<startVars, log, promVars, buf_len, stored, raced, exporter, served, vtsVars,
                 sentVars, sample, stamp>>

(* ... then `prometheus_buf_len += strlen(str)`, unsynchronised: the       *)
(* length added to may be the one read before.                             *)
PrometheusLength ==
  /\ sniffer = "length"
  /\ \E base \in {buf_len, old_len} : buf_len' = base + 1
  /\ stored' = stored \cup {sample}
  /\ raced' = (raced \/ exporter = "clear")
  /\ sniffer' = "log"
  /\ UNCHANGED <<startVars, log, promVars, buf, exporter, served, vtsVars, sentVars,
                 sample, stamp, old_len>>

(* The log file, and vts_add for the parameters VTS wants: only a later    *)
(* second than the last one is sent.                                       *)
NewerMut == stamp >= last_time
Newer == stamp > last_time

LogAndVts ==
  /\ sniffer = "log"
  /\ log' = IF logfile THEN log \cup {sample} ELSE log
  /\ IF vts_running /\ Newer
     THEN last_time' = stamp
          /\ vts_sent' = IF sockfd = "connected" THEN Append(vts_sent, stamp) ELSE vts_sent
     ELSE UNCHANGED sentVars
  /\ sniffer' = "idle"
  /\ UNCHANGED <<startVars, promVars, bufVars, exporter, served, vtsVars, sample, stamp, old_len>>

-----------------------------------------------------------------------------
(* The exporter thread.                                                    *)

(* accept and recv; anything but GET /metrics is closed at once.           *)
Accept ==
  /\ exporter = "accept"
  /\ exporter' \in {"accept", "send"}
  /\ UNCHANGED <<startVars, log, promVars, bufVars, served, vtsVars, sentVars, snifVars>>

(* send(prometheus_buf, prometheus_buf_len); the result is not checked.    *)
Send(arrives) ==
  /\ exporter = "send"
  /\ served' = IF arrives THEN served \cup {buf[c] : c \in 1 .. buf_len} ELSE served
  /\ raced' = (raced \/ ~arrives \/ sniffer = "length")
  /\ exporter' = "clear"
  /\ UNCHANGED <<startVars, log, promVars, buf, buf_len, stored, vtsVars, sentVars, snifVars>>

(* prometheus_clear, and the connection is closed.                         *)
prometheus_clear ==
  /\ exporter = "clear"
  /\ buf_len' = 0
  /\ raced' = (raced \/ sniffer = "length")
  /\ exporter' = "accept"
  /\ UNCHANGED <<startVars, log, promVars, buf, stored, served, vtsVars, sentVars, snifVars>>

-----------------------------------------------------------------------------
ShellNext ==
  \/ \E add_logfile, opens \in BOOLEAN : prometheus_start_cmd(add_logfile, opens)
  \/ \E add_logfile, opens \in BOOLEAN : vm_start_cmd(add_logfile, opens)
  \/ VtsInitOk
  \/ VtsInitFails

SnifferNext ==
  \/ \E s \in Stamps : Decode(s)
  \/ PrometheusCopy
  \/ PrometheusLength
  \/ LogAndVts

ExporterNext == Accept \/ (\E arrives \in Arrives : Send(arrives)) \/ prometheus_clear

Next == ShellNext \/ SnifferNext \/ ExporterNext

Spec == Init /\ [][Next]_vars

-----------------------------------------------------------------------------
(* Properties.                                                             *)

(* Types of all variables.                                                 *)
TypeOK ==
  /\ sniffer_running \in BOOLEAN /\ sniffers \in Nat
  /\ logfile \in BOOLEAN /\ log \subseteq 1 .. MaxSamples
  /\ prometheus_started \in BOOLEAN /\ exporters \in Nat
  /\ buf \in [Cells -> 0 .. MaxSamples] /\ buf_len \in Nat
  /\ exporter \in {"none", "accept", "send", "clear"}
  /\ stored \subseteq 1 .. MaxSamples /\ served \subseteq 0 .. MaxSamples /\ raced \in BOOLEAN
  /\ vts_running \in BOOLEAN /\ sockfd \in {"none", "connected", "closed"}
  /\ last_time \in Nat /\ vts_sent \in Seq(Nat)
  /\ sniffer \in {"none", "idle", "prometheus", "length", "log"}
  /\ sample \in 0 .. MaxSamples /\ stamp \in Nat /\ old_len \in Nat

(* All variables have their types, and prometheus_buf is never overrun,    *)
(* although the length is changed by two threads: the samples and the NUL  *)
(* behind them fit.                                                        *)
BufferFits ==
  /\ TypeOK
  /\ buf_len + 1 <= BufCells
  /\ (sniffer = "length") => (old_len + 2 <= BufCells /\ buf_len <= old_len)

(* A scrape never sends bytes that are not samples: everything below the   *)
(* length has been written before.  And "Dump queued data" loses nothing   *)
(* but by the race of the two threads or a lost answer: otherwise every    *)
(* sample stored was sent to a scraper or is still in the buffer.          *)
ServedIsWritten ==
  /\ 0 \notin served
  /\ (~raced /\ exporter # "clear") =>
       \A n \in stored : n \in served \/ \E c \in 1 .. buf_len : buf[c] = n

(* However many consumers are started, in whatever order, one sniffer and  *)
(* one exporter thread exist, so that no sample is reported twice; and VTS *)
(* never gets two samples of one stream for the same second, or one that   *)
(* is older than the last, also across a new vts init.                     *)
ReportedOnce ==
  /\ sniffers <= 1 /\ exporters <= 1
  /\ (sniffer # "none") = (sniffers = 1)
  /\ \A i, j \in 1 .. Len(vts_sent) : i < j => vts_sent[i] < vts_sent[j]
=============================================================================
