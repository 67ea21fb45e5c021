-------------------------- MODULE TelemetryProofs ---------------------------
(* Theorems about what MCTelemetry puts side by side: the sniffer with its *)
(* consumers, for every size of the Prometheus buffer and any number of    *)
(* samples, and the housekeeping epochs, for every set of nodes, size of   *)
(* the table and clock.                                                    *)
EXTENDS MCTelemetry, TLAPS, SequenceTheorems, FiniteSetTheorems, WellFoundedInduction

-----------------------------------------------------------------------------
(* The sniffer and its consumers.                                          *)

Handling == {"prometheus", "length", "log"}

(* Where the sniffer is, it has a sample in hand.                          *)
FitsInv ==
  /\ BufferFits
  /\ sniffer \in Handling => sample \in 1 .. MaxSamples

(* Initially prometheus_buf is empty and no thread runs.                   *)
LEMMA FitsInit == Init => FitsInv
<1> SUFFICES ASSUME Init PROVE FitsInv
  OBVIOUS
<1>1. vts_sent \in Seq(Nat)
  BY EmptySeq, Zenon DEF Init
<1>2. buf \in [Cells -> 0 .. MaxSamples]
  BY TelemetryAssumption DEF Init
<1>3. /\ sniffer_running \in BOOLEAN /\ logfile \in BOOLEAN /\ prometheus_started \in BOOLEAN
      /\ raced \in BOOLEAN /\ vts_running \in BOOLEAN
  BY Zenon DEF Init
<1>4. TypeOK
  BY <1>1, <1>2, <1>3, TelemetryAssumption DEF Init, TypeOK
<1> QED BY <1>4, TelemetryAssumption DEF Init, FitsInv, BufferFits, Handling

(* prometheus_add copies only what fits, and prometheus_clear only makes   *)
(* the buffer shorter, between whatever steps of the other thread.         *)
LEMMA FitsStep == FitsInv /\ [Next]_vars => FitsInv'
<1> SUFFICES ASSUME FitsInv, [Next]_vars PROVE FitsInv'
  OBVIOUS
<1> USE TelemetryAssumption DEF Handling
<1>0. TypeOK /\ BufferFits /\ (sniffer \in Handling => sample \in 1 .. MaxSamples)
  BY DEF FitsInv, BufferFits
<1>1. ASSUME NEW a \in BOOLEAN, NEW o \in BOOLEAN, param_sniffer_init(a, o)
      PROVE  /\ sniffer_running' \in BOOLEAN /\ sniffers' \in Nat /\ logfile' \in BOOLEAN
             /\ sniffer' = sniffer \/ sniffer' = "idle"
  <2>1. CASE Already
    BY <1>0, <1>1, <2>1 DEF param_sniffer_init, startVars, TypeOK
  <2>2. CASE ~Already
    <3>1. logfile' \in BOOLEAN /\ sniffer_running' \in BOOLEAN
      BY <1>1, <2>2, Zenon DEF param_sniffer_init
    <3> QED BY <1>0, <1>1, <2>2, <3>1 DEF param_sniffer_init, TypeOK
  <2> QED BY <2>1, <2>2
<1>2. ASSUME ShellNext PROVE FitsInv'
  <2>1. /\ sniffer_running' \in BOOLEAN /\ sniffers' \in Nat /\ logfile' \in BOOLEAN
        /\ sniffer' = sniffer \/ sniffer' = "idle"
    <3>1. FALSE \in BOOLEAN
      OBVIOUS
    <3>2. CASE VtsInitFails
      BY <1>0, <3>2 DEF VtsInitFails, startVars, snifVars, TypeOK
    <3> QED BY <1>1, <1>2, <3>1, <3>2, Zenon
            DEF ShellNext, prometheus_start_cmd, vm_start_cmd, VtsInitOk
  <2>2. UNCHANGED <<log, bufVars, served, sentVars, sample, stamp, old_len>>
    BY <1>2 DEF ShellNext, prometheus_start_cmd, vm_start_cmd, VtsInitOk, VtsInitFails, snifVars
  <2>3. /\ prometheus_started' \in BOOLEAN /\ exporters' \in Nat
        /\ exporter' \in {"none", "accept", "send", "clear"}
        /\ vts_running' \in BOOLEAN /\ sockfd' \in {"none", "connected", "closed"}
    <3>1. /\ exporters' = exporters \/ exporters' = exporters + 1
          /\ exporter' = exporter \/ exporter' = "accept"
          /\ sockfd' = sockfd \/ sockfd' = "connected" \/ sockfd' = "closed"
          /\ vts_running' = vts_running \/ vts_running' = TRUE
          /\ prometheus_started' = prometheus_started \/ prometheus_started' = TRUE
      BY <1>2 DEF ShellNext, prometheus_start_cmd, vm_start_cmd, VtsInitOk,
                  VtsInitFails, promVars, vtsVars
    <3>2. prometheus_started' \in BOOLEAN /\ vts_running' \in BOOLEAN
      BY <1>0, <3>1, Zenon DEF TypeOK
    <3> QED BY <1>0, <3>1, <3>2 DEF TypeOK
  <2>4. TypeOK'
    BY <1>0, <2>1, <2>2, <2>3 DEF TypeOK, bufVars, sentVars
  <2> QED BY <1>0, <2>1, <2>2, <2>4 DEF FitsInv, BufferFits, bufVars
<1>3. ASSUME NEW s \in Stamps, Decode(s) PROVE FitsInv'
  <2>1. TypeOK'
    BY <1>0, <1>3 DEF Decode, TypeOK, startVars, promVars, bufVars, vtsVars, sentVars
  <2> QED BY <1>0, <1>3, <2>1 DEF Decode, TypeOK, FitsInv, BufferFits, bufVars
<1>4. ASSUME PrometheusCopy PROVE FitsInv'
  <2>1. UNCHANGED <<startVars, log, promVars, buf_len, stored, raced, exporter, served, vtsVars,
                    sentVars, sample, stamp>>
    BY <1>4 DEF PrometheusCopy
  <2>2. CASE HasRoom
    <3>1. CopyAt \in Cells /\ buf_len + 2 <= BufCells /\ sample \in 0 .. MaxSamples
      BY <1>0, <2>2 DEF HasRoom, CopyAt, Cells, TypeOK
    <3>2. /\ buf' \in [Cells -> 0 .. MaxSamples] /\ old_len' = buf_len /\ sniffer' = "length"
          /\ sniffer = "prometheus"
      BY <1>0, <1>4, <2>2, <3>1 DEF PrometheusCopy, TypeOK
    <3>3. TypeOK'
      BY <1>0, <2>1, <3>2 DEF TypeOK, startVars, promVars, vtsVars, sentVars
    <3> QED BY <1>0, <2>1, <3>1, <3>2, <3>3 DEF FitsInv, BufferFits, TypeOK
  <2>3. CASE ~HasRoom
    <3>1. buf' = buf /\ old_len' = old_len /\ sniffer' = "log" /\ sniffer = "prometheus"
      BY <1>4, <2>3 DEF PrometheusCopy
    <3>2. TypeOK'
      BY <1>0, <2>1, <3>1 DEF TypeOK, startVars, promVars, vtsVars, sentVars
    <3> QED BY <1>0, <2>1, <3>1, <3>2 DEF FitsInv, BufferFits
  <2> QED BY <2>2, <2>3
<1>5. ASSUME PrometheusLength PROVE FitsInv'
  <2>1. /\ sniffer = "length" /\ sniffer' = "log"
        /\ UNCHANGED <<startVars, log, promVars, buf, exporter, served, vtsVars, sentVars,
                       sample, stamp, old_len>>
    BY <1>5 DEF PrometheusLength
  <2>2. buf_len' \in Nat /\ buf_len' + 1 <= BufCells
    BY <1>0, <1>5 DEF PrometheusLength, BufferFits, TypeOK
  <2>3. raced' \in BOOLEAN
    BY <1>0, <1>5, Zenon DEF PrometheusLength, TypeOK
  <2>4. stored' \subseteq 1 .. MaxSamples
    BY <1>0, <1>5 DEF PrometheusLength, TypeOK
  <2>5. TypeOK'
    BY <1>0, <2>1, <2>2, <2>3, <2>4 DEF TypeOK, startVars, promVars, vtsVars, sentVars
  <2> QED BY <1>0, <2>1, <2>2, <2>5 DEF FitsInv, BufferFits
<1>6. ASSUME LogAndVts PROVE FitsInv'
  <2>1. /\ sniffer = "log" /\ sniffer' = "idle"
        /\ UNCHANGED <<startVars, promVars, bufVars, exporter, served, vtsVars, sample, stamp, old_len>>
    BY <1>6 DEF LogAndVts
  <2>2. log' \subseteq 1 .. MaxSamples
    BY <1>0, <1>6, <2>1 DEF LogAndVts, TypeOK
  <2>3. last_time' \in Nat /\ vts_sent' \in Seq(Nat)
    BY SMTT(30), <1>0, <1>6, AppendProperties DEF LogAndVts, TypeOK, sentVars
  <2>4. TypeOK'
    BY <1>0, <2>1, <2>2, <2>3 DEF TypeOK, startVars, promVars, bufVars, vtsVars
  <2> QED BY <1>0, <2>1, <2>4 DEF FitsInv, BufferFits, bufVars
<1>7. ASSUME Accept PROVE FitsInv'
  <2>1. TypeOK'
    BY <1>0, <1>7 DEF Accept, TypeOK, startVars, promVars, bufVars, vtsVars, sentVars, snifVars
  <2> QED BY <1>0, <1>7, <2>1 DEF Accept, FitsInv, BufferFits, bufVars, snifVars
<1>8. ASSUME NEW arrives \in Arrives, Send(arrives) PROVE FitsInv'
  <2>1. /\ UNCHANGED <<startVars, log, promVars, buf, buf_len, stored, vtsVars, sentVars, snifVars>>
        /\ exporter' = "clear"
    BY <1>8 DEF Send
  <2>2. raced' \in BOOLEAN
    BY <1>0, <1>8, Zenon DEF Send, TypeOK
  <2>3. served' \subseteq 0 .. MaxSamples
    <3>1. \A c \in 1 .. buf_len : buf[c] \in 0 .. MaxSamples
      BY <1>0 DEF BufferFits, TypeOK, Cells
    <3> QED BY <1>0, <1>8, <3>1 DEF Send, TypeOK
  <2>4. TypeOK'
    BY <1>0, <2>1, <2>2, <2>3 DEF TypeOK, startVars, promVars, vtsVars, sentVars, snifVars
  <2> QED BY <1>0, <2>1, <2>4 DEF FitsInv, BufferFits, snifVars
<1>9. ASSUME prometheus_clear PROVE FitsInv'
  <2>1. /\ UNCHANGED <<startVars, log, promVars, buf, stored, served, vtsVars, sentVars, snifVars>>
        /\ exporter' = "accept" /\ buf_len' = 0
    BY <1>9 DEF prometheus_clear
  <2>2. raced' \in BOOLEAN
    BY <1>0, <1>9, Zenon DEF prometheus_clear, TypeOK
  <2>3. TypeOK'
    BY <1>0, <2>1, <2>2 DEF TypeOK, startVars, promVars, vtsVars, sentVars, snifVars
  <2> QED BY <1>0, <2>1, <2>3 DEF FitsInv, BufferFits, TypeOK, snifVars
<1>10. ASSUME UNCHANGED vars PROVE FitsInv'
  BY <1>0, <1>10 DEF vars, startVars, promVars, bufVars, vtsVars, sentVars, snifVars, FitsInv,
                     BufferFits, TypeOK
<1> QED BY <1>2, <1>3, <1>4, <1>5, <1>6, <1>7, <1>8, <1>9, <1>10
        DEF Next, SnifferNext, ExporterNext

(* FitsInv holds in every state.                                           *)
LEMMA FitsAlways == Spec => []FitsInv
BY FitsInit, FitsStep, PTL DEF Spec

(* prometheus_buf is never overrun, although prometheus_add and            *)
(* prometheus_clear change its length from two threads.                    *)
THEOREM TelemetryBufferFits == Spec => []BufferFits
<1>1. FitsInv => BufferFits
  BY DEF FitsInv
<1> QED BY <1>1, FitsAlways, PTL

-----------------------------------------------------------------------------
(* What a scrape sends.                                                    *)

(* Below the length there are samples only; while the sniffer is about to  *)
(* add to the length, also below the length it read, and behind that its   *)
(* own sample, which no cell had to be free of.                            *)
WrittenInv ==
  /\ 0 \notin served
  /\ \A c \in 1 .. buf_len : buf[c] # 0
  /\ sniffer = "length" => /\ buf[old_len + 1] = sample
                           /\ \A c \in 1 .. old_len : buf[c] # 0

(* Without a race nothing stored is lost: the sniffer's view of the length *)
(* is right, and between the answer and prometheus_clear everything stored *)
(* has been sent.                                                          *)
NoneLostInv ==
  ~raced => /\ sniffer = "length" => buf_len = old_len
            /\ \A n \in stored : \/ n \in served
                                 \/ exporter # "clear" /\ \E c \in 1 .. buf_len : buf[c] = n

(* A step of the sniffer or of the exporter keeps the buffer made of       *)
(* stored samples; and one that is no race keeps every stored sample in    *)
(* the buffer or in an answer.                                             *)
LEMMA ServedStep == FitsInv /\ WrittenInv /\ NoneLostInv /\ [Next]_vars => WrittenInv' /\ NoneLostInv'
<1> SUFFICES ASSUME FitsInv, WrittenInv, NoneLostInv, [Next]_vars PROVE WrittenInv' /\ NoneLostInv'
  OBVIOUS
<1> USE TelemetryAssumption
<1>0. TypeOK /\ BufferFits /\ (sniffer \in Handling => sample \in 1 .. MaxSamples)
  BY DEF FitsInv, BufferFits
<1>1. ASSUME PrometheusCopy PROVE WrittenInv' /\ NoneLostInv'
  <2>1. UNCHANGED <<buf_len, stored, raced, exporter, served, sample>> /\ sniffer = "prometheus"
    BY <1>1 DEF PrometheusCopy
  <2>2. CASE HasRoom
    <3>1. /\ buf' = [buf EXCEPT ![buf_len + 1] = sample] /\ old_len' = buf_len
          /\ sniffer' = "length" /\ buf_len + 1 \in Cells
      BY <1>0, <1>1, <2>2 DEF PrometheusCopy, HasRoom, CopyAt, Cells, TypeOK
    <3>2. /\ buf'[buf_len + 1] = sample
          /\ \A c \in 1 .. buf_len : buf'[c] = buf[c]
      BY <1>0, <3>1 DEF TypeOK, Cells
    <3>3. WrittenInv'
      BY <1>0, <2>1, <3>1, <3>2 DEF WrittenInv
    <3>4. NoneLostInv'
      BY <1>0, <2>1, <3>1, <3>2 DEF NoneLostInv
    <3> QED BY <3>3, <3>4
  <2>3. CASE ~HasRoom
    BY <1>1, <2>1, <2>3 DEF PrometheusCopy, WrittenInv, NoneLostInv
  <2> QED BY <2>2, <2>3
<1>2. ASSUME PrometheusLength PROVE WrittenInv' /\ NoneLostInv'
  <2>1. /\ sniffer = "length" /\ sniffer' = "log"
        /\ UNCHANGED <<buf, exporter, served, sample, old_len>>
        /\ stored' = stored \cup {sample}
    BY <1>2 DEF PrometheusLength
  <2>2. PICK base \in {buf_len, old_len} : buf_len' = base + 1
    BY <1>2, Zenon DEF PrometheusLength
  <2>3. /\ buf_len \in Nat /\ old_len \in Nat /\ buf_len <= old_len
        /\ sample \in 1 .. MaxSamples
    BY <1>0, <2>1 DEF BufferFits, TypeOK, Handling
  <2>4. WrittenInv'
    <3>1. \A c \in 1 .. old_len + 1 : buf[c] # 0
      BY <2>1, <2>3 DEF WrittenInv
    <3>2. buf_len' <= old_len + 1 /\ buf_len' \in Nat
      BY <2>2, <2>3
    <3> QED BY <2>1, <2>3, <3>1, <3>2 DEF WrittenInv
  <2>5. NoneLostInv'
    <3> SUFFICES ASSUME ~raced' PROVE NoneLostInv'
      BY Zenon DEF NoneLostInv
    <3>1. ~raced /\ exporter # "clear"
      BY <1>2, Zenon DEF PrometheusLength
    <3>2. buf_len = old_len /\ buf_len' = old_len + 1
      BY <2>1, <2>2, <3>1 DEF NoneLostInv
    <3>3. ASSUME NEW n \in stored' PROVE n \in served \/ \E c \in 1 .. buf_len' : buf[c] = n
      <4>1. CASE n = sample
        <5>1. buf[buf_len'] = n /\ buf_len' \in 1 .. buf_len'
          BY <2>1, <2>3, <3>2, <4>1 DEF WrittenInv
        <5> QED BY <5>1
      <4>2. CASE n \in stored
        <5>1. n \in served \/ \E c \in 1 .. buf_len : buf[c] = n
          BY <3>1, <4>2, Zenon DEF NoneLostInv
        <5> QED BY <2>3, <3>2, <5>1
      <4> QED BY <2>1, <4>1, <4>2
    <3>4. sniffer' # "length" /\ exporter' # "clear"
      BY <2>1, <3>1
    <3> QED BY <2>1, <3>3, <3>4 DEF NoneLostInv
  <2> QED BY <2>4, <2>5
<1>3. ASSUME NEW arrives \in Arrives, Send(arrives) PROVE WrittenInv' /\ NoneLostInv'
  <2>1. /\ UNCHANGED <<buf, buf_len, stored, snifVars>>
        /\ exporter = "send" /\ exporter' = "clear"
        /\ served' = IF arrives THEN served \cup {buf[c] : c \in 1 .. buf_len} ELSE served
    BY <1>3 DEF Send
  <2>2. WrittenInv'
    BY <2>1 DEF WrittenInv, snifVars
  <2>3. ASSUME ~raced' PROVE ~raced /\ arrives /\ sniffer # "length"
    BY <1>3, <2>3, Zenon DEF Send
  <2>4. NoneLostInv'
    BY <2>1, <2>3 DEF NoneLostInv, snifVars
  <2> QED BY <2>2, <2>4
<1>4. ASSUME prometheus_clear PROVE WrittenInv' /\ NoneLostInv'
  <2>1. /\ UNCHANGED <<buf, stored, served, snifVars>>
        /\ exporter = "clear" /\ exporter' = "accept" /\ buf_len' = 0
    BY <1>4 DEF prometheus_clear
  <2>2. WrittenInv'
    BY <2>1 DEF WrittenInv, snifVars
  <2>3. ASSUME ~raced' PROVE ~raced /\ sniffer # "length"
    BY <1>4, <2>3, Zenon DEF prometheus_clear
  <2>4. NoneLostInv'
    <3> SUFFICES ASSUME ~raced' PROVE NoneLostInv'
      BY Zenon DEF NoneLostInv
    <3>1. \A n \in stored' : n \in served'
      BY <2>1, <2>3 DEF NoneLostInv
    <3>2. sniffer' # "length"
      BY <2>1, <2>3 DEF snifVars
    <3> QED BY <3>1, <3>2 DEF NoneLostInv
  <2> QED BY <2>2, <2>4
<1>5. CASE /\ UNCHANGED <<buf, buf_len, stored, served, raced, sample, old_len>>
           /\ sniffer' = "length" => sniffer = "length"
           /\ exporter' = "clear" => exporter = "clear"
  BY <1>5 DEF WrittenInv, NoneLostInv
<1>6. ASSUME ShellNext
      PROVE  /\ UNCHANGED <<buf, buf_len, stored, served, raced, sample, old_len>>
             /\ sniffer' = "length" => sniffer = "length"
             /\ exporter' = "clear" => exporter = "clear"
  BY <1>6 DEF ShellNext, prometheus_start_cmd, vm_start_cmd, VtsInitOk, VtsInitFails,
              param_sniffer_init, bufVars, snifVars
<1>7. ASSUME (\E s \in Stamps : Decode(s)) \/ LogAndVts \/ Accept \/ UNCHANGED vars
      PROVE  \/ \E s \in Stamps : Decode(s)
             \/ /\ UNCHANGED <<buf, buf_len, stored, served, raced, sample, old_len>>
                /\ sniffer' = "length" => sniffer = "length"
                /\ exporter' = "clear" => exporter = "clear"
  BY <1>7 DEF LogAndVts, Accept, vars, bufVars, snifVars
<1>8. ASSUME NEW s \in Stamps, Decode(s) PROVE WrittenInv' /\ NoneLostInv'
  BY <1>8 DEF Decode, WrittenInv, NoneLostInv, bufVars
<1> QED BY <1>1, <1>2, <1>3, <1>4, <1>5, <1>6, <1>7, <1>8, Zenon DEF Next, SnifferNext, ExporterNext

(* A scrape sends samples and nothing else, and "Dump queued data" loses   *)
(* a sample only when an add runs into it or the answer is lost.           *)
THEOREM TelemetryServed == Spec => []ServedIsWritten
<1>1. Init => WrittenInv /\ NoneLostInv
  BY DEF Init, WrittenInv, NoneLostInv
<1>2. FitsInv /\ WrittenInv /\ NoneLostInv /\ [Next]_vars => WrittenInv' /\ NoneLostInv'
  BY ServedStep
<1>3. WrittenInv /\ NoneLostInv => ServedIsWritten
  BY Zenon DEF WrittenInv, NoneLostInv, ServedIsWritten
<1> QED BY <1>1, <1>2, <1>3, FitsAlways, PTL DEF Spec

-----------------------------------------------------------------------------
(* What is started, and what VTS gets.                                     *)

OnceInv ==
  /\ sniffers = IF sniffer_running THEN 1 ELSE 0
  /\ sniffer # "none" <=> sniffer_running
  /\ exporters = IF prometheus_started THEN 1 ELSE 0
  /\ \A i \in 1 .. Len(vts_sent) : vts_sent[i] <= last_time
  /\ \A i, j \in 1 .. Len(vts_sent) : i < j => vts_sent[i] < vts_sent[j]

(* The two init functions and vts_add keep one thread of each kind and the *)
(* reported seconds rising.                                                *)
LEMMA OnceStep == FitsInv /\ OnceInv /\ [Next]_vars => OnceInv'
<1> SUFFICES ASSUME FitsInv, OnceInv, [Next]_vars PROVE OnceInv'
  OBVIOUS
<1>0. TypeOK
  BY DEF FitsInv, BufferFits
<1>1. CASE ShellNext
  <2>1. UNCHANGED sentVars
    BY <1>1 DEF ShellNext, prometheus_start_cmd, vm_start_cmd, VtsInitOk, VtsInitFails
  <2>2. /\ sniffers' = IF sniffer_running' THEN 1 ELSE 0
        /\ sniffer' # "none" <=> sniffer_running'
    <3>1. ASSUME NEW a, NEW o, param_sniffer_init(a, o)
          PROVE  /\ sniffers' = IF sniffer_running' THEN 1 ELSE 0
                 /\ sniffer' # "none" <=> sniffer_running'
      BY <3>1 DEF param_sniffer_init, Already, startVars, OnceInv
    <3>2. CASE VtsInitFails
      BY <3>2 DEF VtsInitFails, startVars, snifVars, OnceInv
    <3> QED BY <1>1, <3>1, <3>2, Zenon DEF ShellNext, prometheus_start_cmd, vm_start_cmd, VtsInitOk
  <2>3. exporters' = IF prometheus_started' THEN 1 ELSE 0
    <3>1. CASE UNCHANGED promVars
      BY <3>1 DEF promVars, OnceInv
    <3>2. CASE ~prometheus_started /\ exporters' = exporters + 1 /\ prometheus_started' = TRUE
      <4>1. exporters = 0
        BY <3>2 DEF OnceInv
      <4> QED BY <3>2, <4>1
    <3> QED BY <1>1, <3>1, <3>2 DEF ShellNext, prometheus_start_cmd, vm_start_cmd, VtsInitOk,
          VtsInitFails
  <2> QED BY <2>1, <2>2, <2>3 DEF OnceInv, sentVars
<1>2. CASE LogAndVts
  <2>1. UNCHANGED <<startVars, promVars>> /\ sniffer = "log" /\ sniffer' = "idle"
    BY <1>2 DEF LogAndVts
  <2>2. last_time \in Nat /\ stamp \in Nat /\ vts_sent \in Seq(Nat) /\ Len(vts_sent) \in Nat
    BY <1>0 DEF TypeOK
  <2>3. /\ \A i \in 1 .. Len(vts_sent') : vts_sent'[i] <= last_time'
        /\ \A i, j \in 1 .. Len(vts_sent') : i < j => vts_sent'[i] < vts_sent'[j]
    <3>0. \A i \in 1 .. Len(vts_sent) : vts_sent[i] \in Nat /\ vts_sent[i] <= last_time
      BY <2>2 DEF OnceInv
    <3>1. CASE UNCHANGED sentVars
      BY <3>1 DEF sentVars, OnceInv
    <3>2. CASE last_time' = stamp /\ stamp > last_time /\ vts_sent' = vts_sent
      BY <2>2, <3>0, <3>2 DEF OnceInv
    <3>3. CASE last_time' = stamp /\ stamp > last_time /\ vts_sent' = Append(vts_sent, stamp)
      <4>1. /\ Len(vts_sent') = Len(vts_sent) + 1 /\ vts_sent'[Len(vts_sent) + 1] = stamp
            /\ \A i \in 1 .. Len(vts_sent) : vts_sent'[i] = vts_sent[i]
        BY <2>2, <3>3, AppendProperties
      <4> QED BY SMTT(30), <2>2, <3>0, <3>3, <4>1 DEF OnceInv
    <3> QED BY <1>2, <3>1, <3>2, <3>3 DEF LogAndVts, Newer
  <2> QED BY <2>1, <2>3 DEF OnceInv, startVars, promVars
<1>3. CASE /\ UNCHANGED <<startVars, promVars, sentVars>>
           /\ sniffer' = "none" <=> sniffer = "none"
  BY <1>3 DEF OnceInv, startVars, promVars, sentVars
<1>4. ASSUME \/ \E s \in Stamps : Decode(s)
             \/ PrometheusCopy \/ PrometheusLength \/ ExporterNext \/ UNCHANGED vars
      PROVE  /\ UNCHANGED <<startVars, promVars, sentVars>>
             /\ sniffer' = "none" <=> sniffer = "none"
  BY <1>4 DEF Decode, PrometheusCopy, PrometheusLength, ExporterNext, Accept, Send,
              prometheus_clear, vars, snifVars
<1> QED BY <1>1, <1>2, <1>3, <1>4, Zenon DEF Next, SnifferNext

(* param_sniffer_init starts one sniffer and prometheus start one exporter *)
(* whatever is started in whatever order, and vts_add sends no second      *)
(* twice and none that is older than the last.                             *)
THEOREM TelemetryReportedOnce == Spec => []ReportedOnce
<1>1. Init => OnceInv
  BY DEF Init, OnceInv
<1>2. FitsInv /\ OnceInv /\ [Next]_vars => OnceInv'
  BY OnceStep
<1>3. OnceInv => ReportedOnce
  BY DEF OnceInv, ReportedOnce
<1> QED BY <1>1, <1>2, <1>3, FitsAlways, PTL DEF Spec

-----------------------------------------------------------------------------
(* The housekeeping epochs.                                                *)

(* A nonempty set of row numbers has a smallest one, the one Min chooses.  *)
LEMMA MinIsLeast ==
  ASSUME NEW S, S \subseteq Nat, S # {}
  PROVE  H!Min(S) \in S /\ \A y \in S : H!Min(S) <= y
<1> DEFINE upTo == {0 .. x : x \in S}
<1>1. upTo \subseteq FiniteSubsetsOf(Nat)
  <2> SUFFICES ASSUME NEW x \in S PROVE 0 .. x \in FiniteSubsetsOf(Nat)
    BY Zenon
  <2>1. IsFiniteSet(0 .. x) /\ 0 .. x \subseteq Nat
    BY FS_Interval, SMT
  <2> QED BY <2>1, Zenon DEF FiniteSubsetsOf
<1>2. upTo # {}
  OBVIOUS
<1>3. PICK T \in upTo : \A U \in upTo : ~ (<<U, T>> \in StrictSubsetOrdering(Nat))
  <2> HIDE DEF upTo
  <2> QED BY <1>1, <1>2, FS_StrictSubsetOrderingWellFounded, WFMin, Zenon
<1>4. PICK x \in S : T = 0 .. x
  OBVIOUS
<1>5. \A y \in S : x <= y
  <2> SUFFICES ASSUME NEW y \in S, y < x PROVE FALSE
    BY SMT
  <2>1. 0 .. y \in upTo
    OBVIOUS
  <2>2. 0 .. y \subseteq 0 .. x /\ 0 .. y # 0 .. x /\ 0 .. x \subseteq Nat
    <3>1. x \in 0 .. x /\ x \notin 0 .. y
      BY SMT
    <3> QED BY <3>1, SMT
  <2>3. <<0 .. y, T>> \in StrictSubsetOrdering(Nat)
    BY <1>4, <2>2, Zenon DEF StrictSubsetOrdering
  <2> QED BY <1>3, <2>1, <2>3, Zenon
<1> QED BY <1>5, Zenon DEF H!Min

-----------------------------------------------------------------------------
(* Every epoch in the table is legal.                                      *)

Writing(t) == pc[t] = "write"

(* A thread that has decided holds a legal epoch, the others no row; and   *)
(* the sniffer's epoch is the value of a sample minus its stamp.           *)
ThreadsRight ==
  /\ pc["shell"] \in {"idle", "set", "write"}
  /\ \A t \in H!Threads : IF Writing(t) THEN arg[t].epoch \in Y2020 .. now
                                      ELSE row[t] = H!NewRow
  /\ local_epoch # -1 => \E v \in Values, ts \in HkStamps :
                            ts < Y2020 /\ hk_stamp = ts /\ local_epoch = v - ts

(* The epoch of a row is legal, or 0 while the row is being written.       *)
RowsRight ==
  \A i \in DOMAIN hks :
     \/ hks[i].epoch \in Y2020 .. now
     \/ hks[i].epoch = 0 /\ \E t \in H!Threads : Writing(t) /\ row[t] = i

LoggedRight == (H!ClocksSet /\ ~hk_raced /\ logged # -1) => logged >= Y2020

LegalInv == H!TypeOK /\ ThreadsRight /\ RowsRight /\ LoggedRight

(* The rows of a node are positions of the table.                          *)
LEMMA RowsAreNumbers ==
  ASSUME NEW table, NEW R, table \in Seq(R), NEW n
  PROVE  H!RowsOf(table, n) \subseteq Nat /\ H!RowsOf(table, n) \subseteq 1 .. Len(table)
BY DEF H!RowsOf

(* The row hk_set_epoch decides on is a new one or one of the table.       *)
LEMMA TargetInTable ==
  ASSUME H!HkAssumption, H!TypeOK, NEW n, NEW epoch \in Int, NEW auto_sync \in BOOLEAN,
         NEW i \in H!Target(n, epoch, auto_sync)
  PROVE  i \in 0 .. Len(hks) /\ epoch \in Y2020 .. now
<1>1. epoch \in Y2020 .. now
  BY DEF H!Target, H!Illegal, H!HkAssumption, H!TypeOK
<1>2. CASE H!RowsOf(hks, n) = {}
  BY <1>1, <1>2, SMT DEF H!Target, H!NewRow, H!TypeOK
<1>3. CASE H!RowsOf(hks, n) # {}
  <2>1. i = H!Min(H!RowsOf(hks, n))
    BY <1>3 DEF H!Target
  <2>2. H!Min(H!RowsOf(hks, n)) \in 1 .. Len(hks)
    BY <1>3, MinIsLeast, RowsAreNumbers, Zenon DEF H!TypeOK
  <2> QED BY <1>1, <2>1, <2>2 DEF H!TypeOK
<1> QED BY <1>1, <1>2, <1>3

(* The argument of a hk_set_epoch that is not running is a node and an     *)
(* epoch like any other.                                                   *)
LEMMA NoArgType == H!HkAssumption => H!NoArg \in [node : Nodes, epoch : Int]
<1> SUFFICES ASSUME H!HkAssumption PROVE H!NoArg \in [node : Nodes, epoch : Int]
  OBVIOUS
<1>1. (CHOOSE n \in Nodes : TRUE) \in Nodes
  BY Zenon DEF H!HkAssumption
<1> QED BY <1>1, SMT DEF H!NoArg

(* Initially both threads are idle and the table of epochs is empty.       *)
LEMMA LegalInit == H!HkAssumption /\ H!Init => LegalInv
<1> SUFFICES ASSUME H!HkAssumption, H!Init PROVE LegalInv
  OBVIOUS
<1>1. H!NoArg \in [node : Nodes, epoch : Int]
  BY NoArgType
<1>2. hks = << >> /\ timesync_nodes = << >> /\ Len(hks) = 0
  BY DEF H!Init
<1>3. hks \in Seq([node : Nodes, epoch : Int])
        /\ timesync_nodes \in Seq([node : Nodes, paramid : Params])
  BY <1>2, EmptySeq, Zenon
<1>4. arg \in [H!Threads -> [node : Nodes, epoch : Int]]
  BY <1>1, Zenon DEF H!Init
<1>5. pc \in [H!Threads -> {"idle", "packet", "set", "write", "use"}]
  BY DEF H!Init
<1>6. row \in [H!Threads -> 0 .. Len(hks)]
  BY <1>2 DEF H!Init, H!NewRow
<1>7. hk_raced \in BOOLEAN
  BY DEF H!Init
<1>8. H!TypeOK
  BY <1>3, <1>4, <1>5, <1>6, <1>7 DEF H!Init, H!TypeOK, H!HkAssumption
<1>9. ThreadsRight
  BY DEF H!Init, ThreadsRight, Writing, H!Threads
<1> QED BY <1>2, <1>8, <1>9 DEF LegalInv, RowsRight, LoggedRight, H!Init

(* No step of the sniffer, of `hk timeoffset` or of the clocks writes      *)
(* outside hks, whoever appended a row between the search and the write.   *)
LEMMA LegalStep == H!HkAssumption /\ LegalInv /\ [H!Next]_(H!vars) => LegalInv'
<1> SUFFICES ASSUME H!HkAssumption, LegalInv, [H!Next]_(H!vars) PROVE LegalInv'
  OBVIOUS
<1> DEFINE Args == [node : Nodes, epoch : Int]
<1>0. H!TypeOK /\ ThreadsRight /\ RowsRight /\ LoggedRight
  BY DEF LegalInv
<1>1. ASSUME NEW n \in Nodes, NEW e \in EpochArgs, H!hk_timeoffset(n, e) PROVE LegalInv'
  <2>1. e \in Int
    BY SMT DEF H!HkAssumption
  <2>2. H!TypeOK'
    BY <1>0, <1>1, <2>1 DEF H!hk_timeoffset, H!TypeOK, H!tabVars, H!Threads
  <2>3. ThreadsRight'
    BY <1>0, <1>1 DEF H!hk_timeoffset, H!TypeOK, ThreadsRight, Writing, H!tabVars, H!Threads
  <2>4. RowsRight'
    BY <1>0, <1>1 DEF H!hk_timeoffset, H!TypeOK, RowsRight, Writing, H!tabVars, H!Threads
  <2>5. LoggedRight'
    BY <1>0, <1>1 DEF H!hk_timeoffset, LoggedRight, H!ClocksSet, H!tabVars
  <2> QED BY <2>2, <2>3, <2>4, <2>5 DEF LegalInv
<1>2. ASSUME NEW n \in Nodes, NEW id \in Params, H!hk_utcparam(n, id) PROVE LegalInv'
  <2> DEFINE entry == [node |-> n, paramid |-> id]
  <2>1. timesync_nodes' \in Seq([node : Nodes, paramid : Params])
    <3>1. entry \in [node : Nodes, paramid : Params]
      OBVIOUS
    <3> HIDE DEF entry
    <3>2. CASE H!RowsOf(timesync_nodes, n) = {}
      <4>1. timesync_nodes' = Append(timesync_nodes, entry)
        BY <1>2, <3>2 DEF H!hk_utcparam, entry
      <4> QED BY <1>0, <3>1, <4>1, AppendProperties, Zenon DEF H!TypeOK
    <3>3. CASE H!RowsOf(timesync_nodes, n) # {}
      <4>1. H!Min(H!RowsOf(timesync_nodes, n)) \in 1 .. Len(timesync_nodes)
        BY <1>0, <3>3, MinIsLeast, RowsAreNumbers, Zenon DEF H!TypeOK
      <4>2. timesync_nodes' = [timesync_nodes EXCEPT ![H!Min(H!RowsOf(timesync_nodes, n))] = entry]
        BY <1>2, <3>3 DEF H!hk_utcparam, entry
      <4> QED BY <1>0, <3>1, <4>1, <4>2, ExceptSeq, Zenon DEF H!TypeOK
    <3> QED BY <3>2, <3>3
  <2>2. UNCHANGED <<H!tabVars, pc, arg, row, hk_stamp, local_epoch, logged, now>>
    BY <1>2 DEF H!hk_utcparam
  <2> QED BY <1>0, <2>1, <2>2 DEF LegalInv, H!TypeOK, ThreadsRight, RowsRight, LoggedRight,
                                  H!ClocksSet, Writing, H!tabVars
<1>3. ASSUME NEW t \in H!Threads, H!HkSetEpochCheck(t) PROVE LegalInv'
  <2> DEFINE target == H!Target(arg[t].node, arg[t].epoch, t = "sniffer")
  <2>1. /\ pc[t] = "set" /\ row[t] = H!NewRow
        /\ UNCHANGED <<hks, set_by, hk_raced, timesync_nodes, hk_stamp, local_epoch, logged, now>>
    BY <1>0, <1>3 DEF H!HkSetEpochCheck, ThreadsRight, Writing, H!tabVars
  <2>2. arg[t] \in Args /\ H!ArgAfter(t) \in Args
    BY <1>0, NoArgType DEF H!TypeOK, H!ArgAfter
  <2>3. CASE /\ pc' = [pc EXCEPT ![t] = H!After(t)]
             /\ arg' = [arg EXCEPT ![t] = H!ArgAfter(t)]
             /\ UNCHANGED row
    <3>1. H!TypeOK'
      BY <1>0, <2>1, <2>2, <2>3 DEF H!TypeOK, H!After, H!Threads
    <3>2. ThreadsRight'
      BY <1>0, <2>1, <2>3 DEF H!TypeOK, ThreadsRight, Writing, H!After, H!Threads
    <3>3. RowsRight'
      BY <1>0, <2>1, <2>3 DEF H!TypeOK, RowsRight, Writing
    <3> QED BY <1>0, <2>1, <3>1, <3>2, <3>3 DEF LegalInv, LoggedRight, H!ClocksSet
  <2>4. ASSUME NEW i \in target,
               row' = [row EXCEPT ![t] = i], pc' = [pc EXCEPT ![t] = "write"], UNCHANGED arg
        PROVE  LegalInv'
    <3>1. i \in 0 .. Len(hks) /\ arg[t].epoch \in Y2020 .. now
      <4>1. arg[t].epoch \in Int /\ (t = "sniffer") \in BOOLEAN
        BY <2>2
      <4> HIDE DEF target
      <4>2. i \in H!Target(arg[t].node, arg[t].epoch, t = "sniffer")
        BY DEF target
      <4> QED BY <1>0, <4>1, <4>2, TargetInTable, Zenon
    <3>2. H!TypeOK'
      BY <1>0, <2>1, <2>4, <3>1 DEF H!TypeOK, H!Threads
    <3>3. ThreadsRight'
      BY <1>0, <2>1, <2>4, <3>1 DEF H!TypeOK, ThreadsRight, Writing, H!Threads
    <3>4. RowsRight'
      BY <1>0, <2>1, <2>4 DEF H!TypeOK, RowsRight, Writing, H!Threads
    <3> QED BY <1>0, <2>1, <3>2, <3>3, <3>4 DEF LegalInv, LoggedRight, H!ClocksSet
  <2> QED BY <1>3, <2>3, <2>4 DEF H!HkSetEpochCheck
<1>4. ASSUME NEW t \in H!Threads, H!RowAppears(t) PROVE LegalInv'
  <2>1. /\ pc[t] = "write" /\ row[t] = H!NewRow
        /\ hks' = Append(hks, [arg[t] EXCEPT !.epoch = 0])
        /\ row' = [row EXCEPT ![t] = Len(hks) + 1]
        /\ UNCHANGED <<set_by, timesync_nodes, pc, arg, hk_stamp, local_epoch, logged, now>>
    BY <1>4 DEF H!RowAppears
  <2>2. hk_raced' \in BOOLEAN /\ (hk_raced => hk_raced')
    BY <1>0, <1>4, Zenon DEF H!RowAppears, H!TypeOK
  <2>3. [arg[t] EXCEPT !.epoch = 0] \in Args
    <3>1. arg[t] \in Args
      BY <1>0, Zenon DEF H!TypeOK
    <3> QED BY <3>1, SMT
  <2>4. /\ hks' \in Seq(Args) /\ Len(hks') = Len(hks) + 1
        /\ \A i \in 1 .. Len(hks) : hks'[i] = hks[i]
        /\ hks'[Len(hks) + 1] = [arg[t] EXCEPT !.epoch = 0]
        /\ Len(hks) \in Nat
    BY <1>0, <2>1, <2>3, AppendProperties DEF H!TypeOK
  <2>5. H!TypeOK'
    BY <1>0, <2>1, <2>2, <2>4 DEF H!TypeOK
  <2>6. ThreadsRight'
    BY <1>0, <2>1 DEF H!TypeOK, ThreadsRight, Writing, H!Threads
  <2>7. RowsRight'
    <3> SUFFICES ASSUME NEW i \in DOMAIN hks'
                 PROVE  \/ hks'[i].epoch \in Y2020 .. now
                        \/ hks'[i].epoch = 0 /\ \E u \in H!Threads : pc[u] = "write" /\ row'[u] = i
      BY <2>1 DEF RowsRight, Writing
    <3>1. CASE i = Len(hks) + 1
      BY <1>0, <2>1, <2>4, <3>1 DEF H!TypeOK
    <3>2. CASE i \in 1 .. Len(hks)
      BY <1>0, <2>1, <2>4, <3>2 DEF RowsRight, Writing, H!TypeOK, H!NewRow
    <3> QED BY <2>4, <3>1, <3>2
  <2> QED BY <1>0, <2>1, <2>2, <2>5, <2>6, <2>7 DEF LegalInv, LoggedRight, H!ClocksSet
<1>5. ASSUME NEW t \in H!Threads, H!HkSetEpochWrite(t) PROVE LegalInv'
  <2>1. /\ pc[t] = "write"
        /\ pc' = [pc EXCEPT ![t] = H!After(t)]
        /\ arg' = [arg EXCEPT ![t] = H!ArgAfter(t)]
        /\ row' = [row EXCEPT ![t] = H!NewRow]
        /\ set_by' = [set_by EXCEPT ![arg[t].node] = arg[t].epoch]
        /\ UNCHANGED <<timesync_nodes, hk_stamp, local_epoch, logged, now>>
    BY <1>5 DEF H!HkSetEpochWrite
  <2>2. hk_raced' \in BOOLEAN /\ (hk_raced => hk_raced')
    BY <1>0, <1>5, Zenon DEF H!HkSetEpochWrite, H!TypeOK
  <2>3. /\ arg[t] \in Args /\ H!ArgAfter(t) \in Args
        /\ arg[t].epoch \in Y2020 .. now /\ row[t] \in 0 .. Len(hks)
        /\ Len(hks) \in Nat /\ arg[t].epoch \in Nat
    BY <1>0, <2>1, NoArgType DEF H!TypeOK, H!ArgAfter, ThreadsRight, Writing, H!HkAssumption
  <2>4. /\ hks' \in Seq(Args) /\ Len(hks') >= Len(hks)
        /\ \A i \in DOMAIN hks' : IF i = row[t] \/ i = Len(hks) + 1 THEN hks'[i] = arg[t]
                                  ELSE i \in DOMAIN hks /\ hks'[i] = hks[i]
    <3>1. CASE row[t] = H!NewRow
      <4>1. hks' = Append(hks, arg[t])
        BY <1>5, <3>1 DEF H!HkSetEpochWrite
      <4> QED BY <1>0, <2>3, <3>1, <4>1, AppendProperties DEF H!TypeOK, H!NewRow
    <3>2. CASE row[t] # H!NewRow
      <4>1. hks' = [hks EXCEPT ![row[t]] = arg[t]] /\ row[t] \in 1 .. Len(hks)
        BY <1>5, <2>3, <3>2 DEF H!HkSetEpochWrite, H!NewRow
      <4> QED BY <1>0, <2>3, <4>1, ExceptSeq DEF H!TypeOK
    <3> QED BY <3>1, <3>2
  <2>5. H!TypeOK'
    <3>1. row' \in [H!Threads -> 0 .. Len(hks')] /\ Len(hks') \in Nat
      BY <1>0, <2>1, <2>3, <2>4 DEF H!TypeOK, H!NewRow
    <3>2. set_by' \in [Nodes -> Nat \cup {-1}]
      BY <1>0, <2>1, <2>3 DEF H!TypeOK
    <3> QED BY <1>0, <2>1, <2>2, <2>3, <2>4, <3>1, <3>2 DEF H!TypeOK, H!After
  <2>6. ThreadsRight'
    BY <1>0, <2>1 DEF H!TypeOK, ThreadsRight, Writing, H!Threads, H!After
  <2>7. RowsRight'
    <3> SUFFICES ASSUME NEW i \in DOMAIN hks'
                 PROVE  \/ hks'[i].epoch \in Y2020 .. now
                        \/ hks'[i].epoch = 0 /\ \E u \in H!Threads : pc'[u] = "write" /\ row'[u] = i
      BY <2>1 DEF RowsRight, Writing
    <3>1. CASE hks'[i] = arg[t]
      BY <2>3, <3>1
    <3>2. CASE i # row[t] /\ i \in DOMAIN hks /\ hks'[i] = hks[i]
      BY <1>0, <2>1, <3>2 DEF RowsRight, Writing, H!TypeOK
    <3> QED BY <2>4, <3>1, <3>2
  <2> QED BY <1>0, <2>1, <2>2, <2>5, <2>6, <2>7 DEF LegalInv, LoggedRight, H!ClocksSet
<1>6. ASSUME NEW src \in Nodes, H!hk_param_sniffer(src) PROVE LegalInv'
  <2>1. H!TypeOK'
    BY <1>0, <1>6 DEF H!hk_param_sniffer, H!TypeOK, H!tabVars, H!Threads
  <2> QED BY <1>0, <1>6, <2>1 DEF H!hk_param_sniffer, H!TypeOK, H!tabVars, H!Threads, Writing,
                     LegalInv, ThreadsRight, RowsRight, LoggedRight, H!ClocksSet
<1>7. ASSUME H!PacketEnds PROVE LegalInv'
  <2>1. H!TypeOK'
    BY <1>0, <1>7, NoArgType DEF H!PacketEnds, H!TypeOK, H!tabVars, H!Threads
  <2> QED BY <1>0, <1>7, <2>1 DEF H!PacketEnds, H!TypeOK, H!tabVars, H!Threads, Writing,
                     LegalInv, ThreadsRight, RowsRight, LoggedRight, H!ClocksSet
<1>8. ASSUME NEW ts \in HkStamps, H!UtcSample(ts) PROVE LegalInv'
  <2>1. ts \in Nat
    BY DEF H!HkAssumption
  <2> QED BY <1>0, <1>8, <2>1 DEF H!UtcSample, H!TypeOK, H!tabVars, H!Threads, Writing,
                     LegalInv, ThreadsRight, RowsRight, LoggedRight, H!ClocksSet
<1>9. ASSUME NEW n \in Nodes, NEW id \in Params, NEW ts \in HkStamps, NEW v \in Values,
             H!BootSample(n, id, ts, v)
      PROVE  LegalInv'
  <2>1. ts \in Nat /\ v \in Nat /\ v - ts \in Int
    BY SMT DEF H!HkAssumption
  <2>2. /\ pc["sniffer"] = "packet" /\ ts < Y2020 /\ hk_stamp' = ts /\ logged' = -1
        /\ UNCHANGED <<hks, set_by, hk_raced, timesync_nodes, row, now>>
    BY <1>9 DEF H!BootSample, H!tabVars
  <2>3. \/ /\ local_epoch' = v - ts
           /\ arg' = [arg EXCEPT !["sniffer"].epoch = v - ts]
           /\ pc' = [pc EXCEPT !["sniffer"] = "set"]
        \/ local_epoch' = -1 /\ pc' = [pc EXCEPT !["sniffer"] = "use"] /\ arg' = arg
    BY <1>9 DEF H!BootSample
  <2>4. H!TypeOK'
    <3>1. /\ arg' \in [H!Threads -> Args]
          /\ pc' \in [H!Threads -> {"idle", "packet", "set", "write", "use"}]
      <4>1. arg["sniffer"] \in Args /\ "sniffer" \in H!Threads
        BY <1>0 DEF H!TypeOK, H!Threads
      <4>2. [arg["sniffer"] EXCEPT !.epoch = v - ts] \in Args
        BY <2>1, <4>1, SMT
      <4>3. arg' \in [H!Threads -> Args]
        BY ZenonT(30), <1>0, <2>3, <4>2 DEF H!TypeOK
      <4>4. pc' \in [H!Threads -> {"idle", "packet", "set", "write", "use"}]
        BY SMTT(30), <1>0, <2>3 DEF H!TypeOK
      <4> QED BY <4>3, <4>4
    <3>2. local_epoch' \in Int /\ hk_stamp' \in Nat /\ logged' \in Nat \cup {-1}
      BY <2>1, <2>2, <2>3
    <3> QED BY <1>0, <2>2, <3>1, <3>2, Zenon DEF H!TypeOK
  <2>5. ThreadsRight'
    BY <1>0, <2>1, <2>2, <2>3 DEF H!TypeOK, H!Threads, ThreadsRight, Writing
  <2>6. RowsRight'
    BY <1>0, <2>2, <2>3 DEF H!TypeOK, H!Threads, RowsRight, Writing
  <2> QED BY <2>2, <2>4, <2>5, <2>6 DEF LegalInv, LoggedRight
<1>10. ASSUME H!UseEpoch PROVE LegalInv'
  <2> DEFINE n == arg["sniffer"].node
             epoch == IF local_epoch = -1 THEN H!hk_get_epoch(n) ELSE local_epoch
  <2>1. /\ pc["sniffer"] = "use"
        /\ logged' = IF epoch = -1 THEN logged ELSE hk_stamp + epoch
        /\ pc' = [pc EXCEPT !["sniffer"] = "packet"]
        /\ arg' = [arg EXCEPT !["sniffer"].epoch = 0]
        /\ hk_stamp' = 0 /\ local_epoch' = -1
        /\ UNCHANGED <<hks, set_by, timesync_nodes, row, now>>
    BY <1>10 DEF H!UseEpoch
  <2>2. /\ hk_raced' \in BOOLEAN /\ (hk_raced => hk_raced')
        /\ (local_epoch = -1 /\ H!Torn) => hk_raced'
    <3>1. hk_raced' = (hk_raced \/ (local_epoch = -1 /\ H!Torn)) /\ hk_raced \in BOOLEAN
      BY <1>0, <1>10 DEF H!UseEpoch, H!TypeOK
    <3> QED BY <3>1, Zenon
  <2>3. /\ logged' \in Nat \cup {-1}
        /\ (H!ClocksSet /\ ~hk_raced' /\ logged' # -1) => logged' >= Y2020
    <3>1. CASE local_epoch # -1
      <4>1. PICK v \in Values, ts \in HkStamps :
                    ts < Y2020 /\ hk_stamp = ts /\ local_epoch = v - ts
        BY <1>0, <3>1 DEF ThreadsRight
      <4>2. v \in Nat /\ ts \in Nat /\ Y2020 \in Nat
        BY DEF H!HkAssumption
      <4>3. logged' = v
        BY <2>1, <3>1, <4>1, <4>2
      <4>4. H!ClocksSet => v - ts >= Y2020
        BY <4>1, Zenon DEF H!ClocksSet
      <4> QED BY <4>2, <4>3, <4>4
    <3>2. CASE local_epoch = -1 /\ H!RowsOf(hks, n) = {}
      <4>1. epoch = -1
        BY <3>2 DEF H!hk_get_epoch
      <4> QED BY <1>0, <2>1, <2>2, <4>1 DEF H!TypeOK, LoggedRight
    <3>3. CASE local_epoch = -1 /\ H!RowsOf(hks, n) # {}
      <4> DEFINE i == H!Min(H!RowsOf(hks, n))
      <4>1. i \in DOMAIN hks /\ epoch = hks[i].epoch
        <5>1. i \in H!RowsOf(hks, n)
          BY <1>0, <3>3, MinIsLeast, RowsAreNumbers, Zenon DEF H!TypeOK
        <5> QED BY <3>3, <5>1, Zenon DEF H!RowsOf, H!hk_get_epoch
      <4> HIDE DEF i, epoch
      <4>2. CASE hks[i].epoch \in Y2020 .. now
        <5>1. hk_stamp \in Nat /\ now \in Nat /\ Y2020 \in Nat
          BY <1>0 DEF H!TypeOK, H!HkAssumption
        <5>2. logged' = hk_stamp + epoch /\ epoch >= Y2020 /\ epoch \in Nat
          BY <2>1, <4>1, <4>2, <5>1
        <5> QED BY <5>1, <5>2
      <4>3. CASE hks[i].epoch = 0 /\ \E t \in H!Threads : Writing(t) /\ row[t] = i
        <5>1. H!Torn
          <6>1. i \in 1 .. Len(hks) /\ i # H!NewRow
            BY <1>0, <4>1 DEF H!TypeOK, H!NewRow
          <6> QED BY <4>3, <6>1, Zenon DEF H!Torn, Writing
        <5>2. logged' \in Nat
          BY <1>0, <2>1, <4>1, <4>3 DEF H!TypeOK
        <5> QED BY <2>2, <3>3, <5>1, <5>2
      <4> QED BY <1>0, <4>1, <4>2, <4>3 DEF RowsRight
    <3> QED BY <3>1, <3>2, <3>3
  <2>4. H!TypeOK'
    BY SMTT(30), <1>0, <2>1, <2>2, <2>3 DEF H!TypeOK, H!Threads
  <2>5. ThreadsRight'
    BY <1>0, <2>1 DEF H!TypeOK, H!Threads, ThreadsRight, Writing
  <2>6. RowsRight'
    BY <1>0, <2>1 DEF H!TypeOK, H!Threads, RowsRight, Writing
  <2> QED BY <2>3, <2>4, <2>5, <2>6 DEF LegalInv, LoggedRight, H!ClocksSet
<1>11. ASSUME H!Tick PROVE LegalInv'
  <2>1. H!TypeOK'
    BY <1>0, <1>11 DEF H!Tick, H!TypeOK, H!tabVars
  <2>2. ThreadsRight' /\ RowsRight'
    BY SMTT(30), <1>0, <1>11
       DEF H!Tick, H!TypeOK, H!tabVars, ThreadsRight, RowsRight, Writing, H!HkAssumption
  <2> QED BY <1>0, <1>11, <2>1, <2>2 DEF H!Tick, H!tabVars, LegalInv, LoggedRight, H!ClocksSet
<1>12. ASSUME UNCHANGED H!vars PROVE LegalInv'
  BY <1>0, <1>12 DEF H!vars, H!tabVars, LegalInv, H!TypeOK, ThreadsRight, RowsRight, LoggedRight,
                     H!ClocksSet, Writing
<1> QED BY <1>1, <1>2, <1>3, <1>4, <1>5, <1>6, <1>7, <1>8, <1>9, <1>10, <1>11, <1>12 DEF H!Next

(* LegalInv holds in every state.                                          *)
LEMMA LegalAlways == H!HkAssumption => (H!Spec => []LegalInv)
<1> SUFFICES ASSUME H!HkAssumption PROVE H!Spec => []LegalInv
  OBVIOUS
<1>1. H!Init => LegalInv
  BY LegalInit
<1>2. LegalInv /\ [H!Next]_(H!vars) => LegalInv'
  BY LegalStep
<1> QED BY <1>1, <1>2, PTL DEF H!Spec

(* Whichever thread stored it, an epoch in the table is legal, and nothing *)
(* is logged with a time before 2020 (hk_set_epoch, hk_param_sniffer).     *)
THEOREM HkTableLegal == H!Spec => []TableLegal
<1>1. LegalInv => TableLegal
  BY DEF LegalInv, TableLegal, H!TableLegal, RowsRight, LoggedRight, Writing
<1> QED BY <1>1, LegalAlways, HkAssumption, PTL

-----------------------------------------------------------------------------
(* As long as the threads have not raced, the table is right.              *)

EpochIn(table, n) ==
  IF H!RowsOf(table, n) = {} THEN -1 ELSE table[H!Min(H!RowsOf(table, n))].epoch

OneRowEach(table) == \A i, j \in DOMAIN table : table[i].node = table[j].node => i = j

(* What HkSetEpochCheck of a thread found is still so: there is room for a *)
(* new row of the node, or its row is the one chosen and, for the sniffer, *)
(* does not lie far ahead.                                                 *)
StillDecided(t) ==
  IF row[t] = H!NewRow
  THEN H!RowsOf(hks, arg[t].node) = {} /\ Len(hks) < MAX_HKS
  ELSE /\ hks[row[t]].node = arg[t].node
       /\ t = "sniffer" => hks[row[t]].epoch - arg[t].epoch <= DAY

(* The row of n is new and its epoch still missing.                        *)
TornFor(n) ==
  \E t \in H!Threads : /\ Writing(t) /\ row[t] # H!NewRow
                       /\ arg[t].node = n /\ hks[row[t]].epoch = 0

RightTable ==
  /\ Len(hks) <= MAX_HKS
  /\ OneRowEach(hks)
  /\ \A t \in H!Threads : Writing(t) => StillDecided(t)
  /\ \A n \in Nodes : EpochIn(hks, n) = set_by[n] \/ TornFor(n)

RightInv == Len(timesync_nodes) <= MAX_HKS /\ (~hk_raced => RightTable)

Table == Seq([node : Nodes, epoch : Int])

(* With one row for each node, the epoch found for it is the one there.    *)
LEMMA EpochOfRow ==
  ASSUME NEW table \in Table, OneRowEach(table), NEW i \in DOMAIN table
  PROVE  EpochIn(table, table[i].node) = table[i].epoch
<1> DEFINE rows == H!RowsOf(table, table[i].node)
<1>1. i \in rows
  BY DEF H!RowsOf
<1>2. rows \subseteq Nat
  BY RowsAreNumbers, Zenon DEF Table
<1>3. H!Min(rows) \in rows
  BY <1>1, <1>2, MinIsLeast, Zenon
<1>4. H!Min(rows) = i
  BY <1>3 DEF OneRowEach, H!RowsOf
<1> QED BY <1>1, <1>4, Zenon DEF EpochIn

(* A row changes what is found for its own node only, whether it is new or *)
(* replaces one of the same node.                                          *)
LEMMA OthersKeepEpoch ==
  ASSUME NEW table \in Table, NEW table2 \in Table, NEW k \in Nat,
         NEW n, table2[k].node # n, k \in DOMAIN table => table[k].node # n,
         DOMAIN table2 = DOMAIN table \cup {k},
         \A i \in DOMAIN table : i # k => table2[i] = table[i]
  PROVE  H!RowsOf(table2, n) = H!RowsOf(table, n) /\ EpochIn(table2, n) = EpochIn(table, n)
<1>1. H!RowsOf(table2, n) = H!RowsOf(table, n)
  BY DEF H!RowsOf
<1>2. CASE H!RowsOf(table, n) = {}
  BY <1>1, <1>2 DEF EpochIn
<1>3. CASE H!RowsOf(table, n) # {}
  <2> DEFINE m == H!Min(H!RowsOf(table, n))
  <2>1. m \in H!RowsOf(table, n)
    BY <1>3, MinIsLeast, RowsAreNumbers, Zenon DEF Table
  <2>2. m \in DOMAIN table /\ m # k
    BY <2>1, Zenon DEF H!RowsOf
  <2>3. table2[m] = table[m]
    BY <2>2, Zenon
  <2> QED BY <1>1, <1>3, <2>3, Zenon DEF EpochIn
<1> QED BY <1>1, <1>2, <1>3

(* A step that leaves the table and the threads in hk_set_epoch alone.     *)
Untouched ==
  /\ hks' = hks /\ set_by' = set_by
  /\ \A t \in H!Threads : /\ Writing(t)' <=> Writing(t)
                          /\ Writing(t) => row'[t] = row[t] /\ arg'[t] = arg[t]

(* A step that leaves the rows, the writers and their history alone keeps  *)
(* a right table right.                                                    *)
LEMMA RightUntouched == RightTable /\ Untouched => RightTable'
<1> SUFFICES ASSUME RightTable, Untouched PROVE RightTable'
  OBVIOUS
<1>1. \A t \in H!Threads : Writing(t)' => StillDecided(t)'
  BY Zenon DEF RightTable, StillDecided, Untouched
<1>2. \A n \in Nodes : TornFor(n) => TornFor(n)'
  BY Zenon DEF TornFor, Untouched
<1> QED BY <1>1, <1>2, Zenon DEF RightTable, Untouched

(* The same for a thread that decides.                                     *)
LEMMA RightCheck ==
  ASSUME H!HkAssumption, LegalInv, RightTable, NEW t \in H!Threads, H!HkSetEpochCheck(t)
  PROVE  RightTable'
<1>0. H!TypeOK /\ t \in {"sniffer", "shell"}
  BY DEF LegalInv, H!Threads
<1>1. /\ ~Writing(t) /\ hks' = hks /\ set_by' = set_by
  BY DEF H!HkSetEpochCheck, Writing, H!tabVars
<1>2. \A u \in H!Threads \ {t} : /\ Writing(u)' <=> Writing(u)
                                 /\ row'[u] = row[u] /\ arg'[u] = arg[u]
  BY <1>0 DEF H!HkSetEpochCheck, Writing, H!TypeOK, H!tabVars
<1>3. CASE pc' = [pc EXCEPT ![t] = H!After(t)]
  <2>1. ~Writing(t)'
    BY <1>0, <1>3 DEF Writing, H!TypeOK, H!After
  <2>2. Untouched
    BY <1>1, <1>2, <2>1, Zenon DEF Untouched
  <2> QED BY <2>2, RightUntouched, Zenon
<1>4. ASSUME NEW i \in H!Target(arg[t].node, arg[t].epoch, t = "sniffer"),
             row' = [row EXCEPT ![t] = i], pc' = [pc EXCEPT ![t] = "write"], UNCHANGED arg
      PROVE  RightTable'
  <2>1. row'[t] = i
    BY <1>0, <1>4 DEF H!TypeOK
  <2>2. StillDecided(t)'
    <3>1. CASE H!RowsOf(hks, arg[t].node) = {}
      <4>1. i = H!NewRow /\ ~H!Full
        BY <1>4, <3>1 DEF H!Target
      <4> QED BY <1>0, <1>1, <1>4, <2>1, <3>1, <4>1 DEF StillDecided, H!Full, H!TypeOK, H!HkAssumption
    <3>2. CASE H!RowsOf(hks, arg[t].node) # {}
      <4>1. i = H!Min(H!RowsOf(hks, arg[t].node)) /\ ~H!Skipped(i, arg[t].epoch, t = "sniffer")
        BY <1>4, <3>2 DEF H!Target
      <4>2. i \in H!RowsOf(hks, arg[t].node)
        BY <1>0, <3>2, <4>1, MinIsLeast, RowsAreNumbers, Zenon DEF H!TypeOK
      <4>3. i \in DOMAIN hks /\ hks[i].node = arg[t].node
        BY <4>2, Zenon DEF H!RowsOf
      <4>4. i # H!NewRow /\ hks[i].epoch \in Int /\ arg[t].epoch \in Int
        <5>1. i \in 1 .. Len(hks)
          BY <1>0, <4>3 DEF H!TypeOK
        <5>2. hks[i] \in [node : Nodes, epoch : Int]
          BY <1>0, <5>1, ElementOfSeq, Zenon DEF H!TypeOK
        <5>3. arg[t] \in [node : Nodes, epoch : Int]
          BY <1>0, Zenon DEF H!TypeOK
        <5> QED BY <5>1, <5>2, <5>3 DEF H!NewRow
      <4>5. t = "sniffer" => hks[i].epoch - arg[t].epoch <= DAY
        BY <4>1, <4>4 DEF H!Skipped, H!HkAssumption
      <4> QED BY <1>1, <1>4, <2>1, <4>3, <4>4, <4>5 DEF StillDecided
    <3> QED BY <3>1, <3>2
  <2>3. \A u \in H!Threads : Writing(u)' => StillDecided(u)'
    <3>1. \A u \in H!Threads \ {t} : Writing(u)' => StillDecided(u)'
      BY <1>1, <1>2, Zenon DEF RightTable, StillDecided
    <3> QED BY <2>2, <3>1, Zenon
  <2>4. \A n \in Nodes : TornFor(n) => TornFor(n)'
    BY <1>1, <1>2, Zenon DEF TornFor
  <2> QED BY <1>1, <2>3, <2>4, Zenon DEF RightTable
<1> QED BY <1>3, <1>4 DEF H!HkSetEpochCheck

(* Only one thread is writing when a step of it does not count as a race.  *)
LEMMA Alone ==
  ASSUME H!TypeOK, NEW t \in H!Threads, Writing(t),
         hk_raced' = (hk_raced \/ \A u \in H!Threads : pc[u] = "write"), ~hk_raced'
  PROVE  ~hk_raced /\ \A u \in H!Threads : Writing(u) => u = t
BY Zenon DEF H!Threads, Writing, H!TypeOK

(* A new row, with its epoch or before it: nothing else about the table is *)
(* disturbed.                                                              *)
LEMMA Appended ==
  ASSUME H!HkAssumption, LegalInv, RightTable, NEW t \in H!Threads, Writing(t), row[t] = H!NewRow,
         NEW e \in Int, hks' = Append(hks, [arg[t] EXCEPT !.epoch = e])
  PROVE  /\ Len(hks') = Len(hks) + 1 /\ Len(hks) \in Nat /\ Len(hks') <= MAX_HKS
         /\ hks'[Len(hks) + 1] = [node |-> arg[t].node, epoch |-> e]
         /\ OneRowEach(hks')
         /\ EpochIn(hks', arg[t].node) = e
         /\ \A n \in Nodes : n # arg[t].node => EpochIn(hks', n) = EpochIn(hks, n)
<1> DEFINE new == [node |-> arg[t].node, epoch |-> e]
           k == Len(hks) + 1
<1>1. /\ hks \in Table /\ Len(hks) \in Nat /\ arg[t] \in [node : Nodes, epoch : Int]
  BY DEF LegalInv, H!TypeOK, Table
<1>2. /\ new \in [node : Nodes, epoch : Int] /\ hks' = Append(hks, new)
  BY <1>1
<1> HIDE DEF new
<1>3. /\ hks' \in Table /\ Len(hks') = k /\ DOMAIN hks' = 1 .. k /\ DOMAIN hks = 1 .. Len(hks)
      /\ \A i \in DOMAIN hks : hks'[i] = hks[i]
      /\ hks'[k] = new
  BY <1>1, <1>2, AppendProperties DEF Table
<1>4. H!RowsOf(hks, arg[t].node) = {} /\ Len(hks) < MAX_HKS
  BY DEF RightTable, StillDecided
<1>5. \A i \in DOMAIN hks : hks'[i].node # arg[t].node
  BY <1>3, <1>4 DEF H!RowsOf
<1>6. k \in DOMAIN hks' /\ DOMAIN hks' = DOMAIN hks \cup {k} /\ k \notin DOMAIN hks /\ k \in Nat
  BY <1>1, <1>3
<1>7. hks'[k].node = arg[t].node /\ hks'[k].epoch = e
  BY <1>3 DEF new
<1>8. OneRowEach(hks')
  <2> SUFFICES ASSUME NEW i \in DOMAIN hks', NEW j \in DOMAIN hks', hks'[i].node = hks'[j].node
               PROVE  i = j
    BY Zenon DEF OneRowEach
  <2>1. (i = k \/ i \in DOMAIN hks) /\ (j = k \/ j \in DOMAIN hks)
    BY <1>6
  <2>2. CASE i \in DOMAIN hks /\ j \in DOMAIN hks
    BY <1>3, <2>2, Zenon DEF RightTable, OneRowEach
  <2> QED BY <1>5, <1>7, <2>1, <2>2, Zenon
<1>9. EpochIn(hks', arg[t].node) = e
  <2>1. OneRowEach(hks')
    BY <1>8
  <2>2. EpochIn(hks', hks'[k].node) = hks'[k].epoch
    BY <1>3, <1>6, <2>1, EpochOfRow, Zenon
  <2> QED BY <1>7, <2>2, Zenon
<1>10. ASSUME NEW n \in Nodes, n # arg[t].node PROVE EpochIn(hks', n) = EpochIn(hks, n)
  <2> HIDE DEF k
  <2>1. hks'[k].node # n
    BY <1>7, <1>10
  <2>2. k \in DOMAIN hks => hks[k].node # n
    BY <1>6
  <2>3. \A i \in DOMAIN hks : i # k => hks'[i] = hks[i]
    BY <1>3
  <2>4. hks' \in Table /\ DOMAIN hks' = DOMAIN hks \cup {k} /\ k \in Nat
    BY <1>3, <1>6
  <2> QED BY <1>1, <2>1, <2>2, <2>3, <2>4, OthersKeepEpoch
<1>11. Len(hks') <= MAX_HKS
  BY <1>1, <1>3, <1>4 DEF H!HkAssumption
<1> QED BY <1>1, <1>3, <1>8, <1>9, <1>10, <1>11, Zenon DEF new

(* hk_set_epoch counts a new row before it fills it in: the row belongs to *)
(* the node it is for and to no other.                                     *)
LEMMA RightAppears ==
  ASSUME H!HkAssumption, LegalInv, RightTable, NEW t \in H!Threads, H!RowAppears(t), ~hk_raced'
  PROVE  RightTable'
<1>0. H!TypeOK /\ arg[t].epoch \in Nat /\ Y2020 \in Nat /\ DAY \in Nat
  BY DEF LegalInv, ThreadsRight, H!RowAppears, Writing, H!TypeOK, H!HkAssumption
<1>1. /\ Writing(t) /\ row[t] = H!NewRow /\ hks' = Append(hks, [arg[t] EXCEPT !.epoch = 0])
      /\ row' = [row EXCEPT ![t] = Len(hks) + 1] /\ set_by' = set_by /\ pc' = pc /\ arg' = arg
      /\ hk_raced' = (hk_raced \/ \A u \in H!Threads : pc[u] = "write")
  BY DEF H!RowAppears, Writing
<1>2. /\ Len(hks') = Len(hks) + 1 /\ Len(hks) \in Nat /\ Len(hks') <= MAX_HKS
      /\ hks'[Len(hks) + 1] = [node |-> arg[t].node, epoch |-> 0]
      /\ OneRowEach(hks')
      /\ \A n \in Nodes : n # arg[t].node => EpochIn(hks', n) = EpochIn(hks, n)
  <2>1. 0 \in Int
    OBVIOUS
  <2> QED BY <1>1, <2>1, Appended, Zenon
<1>3. \A u \in H!Threads : Writing(u) => u = t
  BY <1>0, <1>1, Alone, Zenon
<1>4. row'[t] = Len(hks) + 1 /\ row'[t] # H!NewRow
  BY <1>0, <1>1, <1>2 DEF H!TypeOK, H!NewRow
<1>5. \A u \in H!Threads : Writing(u)' => StillDecided(u)'
  <2>1. StillDecided(t)'
    BY <1>0, <1>1, <1>2, <1>4 DEF StillDecided
  <2> QED BY <1>1, <1>3, <2>1, Zenon DEF Writing
<1>6. ASSUME NEW n \in Nodes PROVE (EpochIn(hks, n) = set_by[n] \/ TornFor(n))'
  <2>1. CASE n = arg[t].node
    <3>1. hks'[row'[t]].epoch = 0
      BY <1>2, <1>4
    <3> QED BY <1>1, <1>4, <2>1, <3>1, Zenon DEF TornFor, Writing
  <2>2. CASE n # arg[t].node
    <3>1. ~TornFor(n)
      BY <1>3, <2>2, Zenon DEF TornFor
    <3> QED BY <1>1, <1>2, <2>2, <3>1, Zenon DEF RightTable
  <2> QED BY <2>1, <2>2
<1> QED BY <1>2, <1>5, <1>6, Zenon DEF RightTable

(* A row that is replaced by one of the same node: nothing else about the  *)
(* table is disturbed.                                                     *)
LEMMA Replaced ==
  ASSUME NEW table \in Table, NEW table2 \in Table, NEW k \in DOMAIN table,
         OneRowEach(table), DOMAIN table2 = DOMAIN table, table2[k].node = table[k].node,
         \A i \in DOMAIN table : i # k => table2[i] = table[i]
  PROVE  /\ OneRowEach(table2)
         /\ EpochIn(table2, table[k].node) = table2[k].epoch
         /\ EpochIn(table, table[k].node) = table[k].epoch
         /\ \A n \in Nodes : n # table[k].node => EpochIn(table2, n) = EpochIn(table, n)
<1>1. OneRowEach(table2)
  <2>1. \A i \in DOMAIN table : table2[i].node = table[i].node
    BY Zenon
  <2> QED BY <2>1, Zenon DEF OneRowEach
<1>2. EpochIn(table2, table[k].node) = table2[k].epoch
  BY <1>1, EpochOfRow, Zenon
<1>3. EpochIn(table, table[k].node) = table[k].epoch
  BY EpochOfRow, Zenon
<1>4. ASSUME NEW n \in Nodes, n # table[k].node PROVE EpochIn(table2, n) = EpochIn(table, n)
  <2>1. DOMAIN table2 = DOMAIN table \cup {k}
    BY Zenon
  <2>2. k \in Nat
    BY DEF Table
  <2> QED BY <1>4, <2>1, <2>2, OthersKeepEpoch, Zenon
<1> QED BY <1>1, <1>2, <1>3, <1>4

(* A write of one thread while the other is not writing.                   *)
LEMMA WriteChanges ==
  ASSUME H!HkAssumption, LegalInv, RightTable, NEW t \in H!Threads, H!HkSetEpochWrite(t), ~hk_raced'
  PROVE  /\ Len(hks') <= MAX_HKS /\ OneRowEach(hks')
         /\ EpochIn(hks', arg[t].node) = arg[t].epoch
         /\ IF row[t] = H!NewRow THEN H!RowsOf(hks, arg[t].node) = {}
                               ELSE EpochIn(hks, arg[t].node) = hks[row[t]].epoch
         /\ \A n \in Nodes : n # arg[t].node => EpochIn(hks', n) = EpochIn(hks, n)
<1>1. Writing(t) /\ arg[t] \in [node : Nodes, epoch : Int]
  BY DEF H!HkSetEpochWrite, Writing, LegalInv, H!TypeOK
<1>2. CASE row[t] = H!NewRow
  <2>1. arg[t].epoch \in Int /\ arg[t] = [arg[t] EXCEPT !.epoch = arg[t].epoch]
    BY <1>1
  <2>2. hks' = Append(hks, [arg[t] EXCEPT !.epoch = arg[t].epoch])
    BY <1>2, <2>1, Zenon DEF H!HkSetEpochWrite
  <2>3. H!RowsOf(hks, arg[t].node) = {}
    BY <1>1, <1>2, Zenon DEF RightTable, StillDecided
  <2> QED BY <1>1, <1>2, <2>1, <2>2, <2>3, Appended, Zenon
<1>3. CASE row[t] # H!NewRow
  <2> DEFINE R == [node : Nodes, epoch : Int]
  <2>1. /\ hks \in Seq(R) /\ hks \in Table /\ row[t] \in 1 .. Len(hks) /\ row[t] \in DOMAIN hks
        /\ arg[t] \in R
    BY <1>1, <1>3 DEF LegalInv, H!TypeOK, H!NewRow, Table
  <2>2. hks' = [hks EXCEPT ![row[t]] = arg[t]]
    BY <1>3, Zenon DEF H!HkSetEpochWrite
  <2>3. hks' \in Table
    <3> HIDE DEF R
    <3>1. hks' \in Seq(R)
      BY <2>1, <2>2, ExceptSeq, Zenon
    <3> QED BY <3>1 DEF R, Table
  <2>4. /\ DOMAIN hks' = DOMAIN hks /\ Len(hks') = Len(hks) /\ hks'[row[t]] = arg[t]
        /\ \A i \in DOMAIN hks : i # row[t] => hks'[i] = hks[i]
    BY <2>1, <2>2, <2>3 DEF Table
  <2>5. Len(hks) <= MAX_HKS /\ OneRowEach(hks) /\ hks[row[t]].node = arg[t].node
    BY <1>1, <1>3, Zenon DEF RightTable, StillDecided
  <2>6. hks'[row[t]].node = hks[row[t]].node
    BY <2>4, <2>5
  <2>7. /\ OneRowEach(hks') /\ EpochIn(hks', hks[row[t]].node) = hks'[row[t]].epoch
        /\ EpochIn(hks, hks[row[t]].node) = hks[row[t]].epoch
        /\ \A n \in Nodes : n # hks[row[t]].node => EpochIn(hks', n) = EpochIn(hks, n)
    BY <2>1, <2>3, <2>4, <2>5, <2>6, Replaced, Zenon
  <2>8. /\ OneRowEach(hks') /\ EpochIn(hks', arg[t].node) = arg[t].epoch
        /\ EpochIn(hks, arg[t].node) = hks[row[t]].epoch
        /\ \A n \in Nodes : n # arg[t].node => EpochIn(hks', n) = EpochIn(hks, n)
    BY <2>4, <2>5, <2>7, Zenon
  <2> QED BY <1>3, <2>4, <2>5, <2>8
<1> QED BY <1>2, <1>3

(* hk_set_epoch writes its row: the table then holds the epoch stored      *)
(* last, or two threads have met there.                                    *)
LEMMA RightWrite ==
  ASSUME H!HkAssumption, LegalInv, RightTable, NEW t \in H!Threads, H!HkSetEpochWrite(t), ~hk_raced'
  PROVE  RightTable'
<1>0. H!TypeOK
  BY DEF LegalInv
<1>1. /\ Writing(t) /\ set_by' = [set_by EXCEPT ![arg[t].node] = arg[t].epoch]
      /\ pc' = [pc EXCEPT ![t] = H!After(t)]
      /\ hk_raced' = (hk_raced \/ \A u \in H!Threads : pc[u] = "write")
  BY DEF H!HkSetEpochWrite, Writing
<1>2. \A u \in H!Threads : Writing(u) => u = t
  BY <1>0, <1>1, Alone, Zenon
<1>3. \A u \in H!Threads : ~Writing(u)'
  <2>1. H!After(t) # "write"
    BY DEF H!After
  <2> QED BY <1>0, <1>1, <1>2, <2>1, Zenon DEF Writing, H!TypeOK
<1>4. ASSUME NEW n \in Nodes PROVE EpochIn(hks', n) = set_by'[n]
  <2>1. CASE n = arg[t].node
    <3>1. set_by'[n] = arg[t].epoch
      BY <1>0, <1>1, <2>1, Zenon DEF H!TypeOK
    <3> QED BY <2>1, <3>1, WriteChanges, Zenon
  <2>2. CASE n # arg[t].node
    <3>1. set_by'[n] = set_by[n]
      BY <1>0, <1>1, <2>2, Zenon DEF H!TypeOK
    <3>2. ~TornFor(n)
      BY <1>2, <2>2, Zenon DEF TornFor
    <3>3. EpochIn(hks', n) = EpochIn(hks, n)
      BY <2>2, WriteChanges, Zenon
    <3> QED BY <3>1, <3>2, <3>3, Zenon DEF RightTable
  <2> QED BY <2>1, <2>2
<1> QED BY <1>3, <1>4, WriteChanges, Zenon DEF RightTable

(* Initially no epoch is stored and no thread writes.                      *)
LEMMA RightInit == H!HkAssumption /\ H!Init => RightInv
<1> SUFFICES ASSUME H!HkAssumption, H!Init PROVE RightInv
  OBVIOUS
<1>1. hks = << >> /\ timesync_nodes = << >> /\ MAX_HKS \in Nat
  BY DEF H!Init, H!HkAssumption
<1>2. \A n \in Nodes : EpochIn(hks, n) = set_by[n]
  BY <1>1 DEF H!Init, EpochIn, H!RowsOf
<1>3. \A t \in H!Threads : ~Writing(t)
  BY DEF H!Init, Writing
<1> QED BY <1>1, <1>2, <1>3 DEF RightInv, RightTable, OneRowEach

(* Every step keeps the table right until two threads meet in              *)
(* hk_set_epoch.                                                           *)
LEMMA RightStep == H!HkAssumption /\ LegalInv /\ RightInv /\ [H!Next]_(H!vars) => RightInv'
<1> SUFFICES ASSUME H!HkAssumption, LegalInv, RightInv, [H!Next]_(H!vars) PROVE RightInv'
  OBVIOUS
<1>0. H!TypeOK
  BY DEF LegalInv
<1>1. Len(timesync_nodes') <= MAX_HKS
  <2>1. ASSUME NEW n \in Nodes, NEW id \in Params, H!hk_utcparam(n, id)
        PROVE  Len(timesync_nodes') <= MAX_HKS
    <3> DEFINE entry == [node |-> n, paramid |-> id]
               known == H!RowsOf(timesync_nodes, n)
    <3>1. \/ timesync_nodes' = [timesync_nodes EXCEPT ![H!Min(known)] = entry]
          \/ timesync_nodes' = Append(timesync_nodes, entry) /\ Len(timesync_nodes) < MAX_HKS
      BY <2>1 DEF H!hk_utcparam
    <3>2. Len(timesync_nodes) <= MAX_HKS /\ Len(timesync_nodes) \in Nat /\ MAX_HKS \in Nat
      BY <1>0 DEF RightInv, H!TypeOK, H!HkAssumption
    <3> HIDE DEF entry, known
    <3> QED BY <1>0, <3>1, <3>2, AppendProperties DEF H!TypeOK
  <2>2. CASE UNCHANGED timesync_nodes
    BY <2>2 DEF RightInv
  <2> QED
    BY <2>1, <2>2 DEF H!Next, H!vars, H!tabVars, H!hk_timeoffset, H!HkSetEpochCheck, H!RowAppears,
         H!HkSetEpochWrite, H!hk_param_sniffer, H!PacketEnds, H!UtcSample, H!BootSample,
         H!UseEpoch, H!Tick
<1>2. ASSUME ~hk_raced' PROVE RightTable'
  <2>1. ~hk_raced
    <3>1. hk_raced' = hk_raced \/ (\E b : hk_raced' = (hk_raced \/ b))
      BY Zenon DEF H!Next, H!vars, H!tabVars, H!hk_timeoffset, H!hk_utcparam, H!HkSetEpochCheck,
           H!RowAppears, H!HkSetEpochWrite, H!hk_param_sniffer, H!PacketEnds, H!UtcSample, H!BootSample,
           H!UseEpoch, H!Tick
    <3> QED BY <1>2, <3>1, Zenon
  <2>2. RightTable
    BY <2>1 DEF RightInv
  <2>3. ASSUME NEW t \in H!Threads, H!HkSetEpochCheck(t) PROVE RightTable'
    BY <2>2, <2>3, RightCheck, Zenon
  <2>4. ASSUME NEW t \in H!Threads, H!RowAppears(t) PROVE RightTable'
    BY <1>2, <2>2, <2>4, RightAppears, Zenon
  <2>5. ASSUME NEW t \in H!Threads, H!HkSetEpochWrite(t) PROVE RightTable'
    BY <1>2, <2>2, <2>5, RightWrite, Zenon
  <2>6. ASSUME NEW n \in Nodes, NEW e \in EpochArgs, H!hk_timeoffset(n, e) PROVE RightTable'
    <3>1. Untouched
      BY <1>0, <2>6 DEF H!hk_timeoffset, Writing, H!TypeOK, H!Threads, H!tabVars, Untouched
    <3> QED BY <2>2, <3>1, RightUntouched
  <2>7. ASSUME NEW src \in Nodes, H!hk_param_sniffer(src) PROVE RightTable'
    <3>1. Untouched
      BY <1>0, <2>7 DEF H!hk_param_sniffer, Writing, H!TypeOK, H!Threads, H!tabVars, Untouched
    <3> QED BY <2>2, <3>1, RightUntouched
  <2>8. ASSUME H!PacketEnds PROVE RightTable'
    <3>1. Untouched
      BY <1>0, <2>8 DEF H!PacketEnds, Writing, H!TypeOK, H!Threads, H!tabVars, Untouched
    <3> QED BY <2>2, <3>1, RightUntouched
  <2>9. ASSUME NEW n \in Nodes, NEW id \in Params, NEW ts \in HkStamps, NEW v \in Values,
               H!BootSample(n, id, ts, v)
        PROVE  RightTable'
    <3>1. Untouched
      BY <1>0, <2>9 DEF H!BootSample, Writing, H!TypeOK, H!Threads, H!tabVars, Untouched
    <3> QED BY <2>2, <3>1, RightUntouched
  <2>10. ASSUME H!UseEpoch PROVE RightTable'
    <3>1. Untouched
      BY <1>0, <2>10 DEF H!UseEpoch, Writing, H!TypeOK, H!Threads, H!tabVars, Untouched
    <3> QED BY <2>2, <3>1, RightUntouched
  <2>11. CASE UNCHANGED <<H!tabVars, pc, arg, row>>
    <3>1. Untouched
      BY <2>11 DEF Writing, H!tabVars, Untouched
    <3> QED BY <2>2, <3>1, RightUntouched
  <2> QED
    BY <2>3, <2>4, <2>5, <2>6, <2>7, <2>8, <2>9, <2>10, <2>11, Zenon
       DEF H!Next, H!vars, H!hk_utcparam, H!UtcSample, H!Tick
<1> QED BY <1>1, <1>2 DEF RightInv

(* RightInv holds in every state.                                          *)
LEMMA RightAlways == H!HkAssumption => (H!Spec => []RightInv)
<1> SUFFICES ASSUME H!HkAssumption PROVE H!Spec => []RightInv
  OBVIOUS
<1>1. H!Init => RightInv
  BY RightInit
<1>2. LegalInv /\ RightInv /\ [H!Next]_(H!vars) => RightInv'
  BY RightStep
<1> QED BY <1>1, <1>2, LegalAlways, PTL DEF H!Spec

(* Two threads without a lock: unless they met in hk_set_epoch the tables  *)
(* fit, a node has one row, and it holds the epoch stored last.            *)
THEOREM HkTableRight == H!Spec => []TableRightUnlessRaced
<1>1. LegalInv /\ RightInv => TableRightUnlessRaced
  <2> SUFFICES ASSUME LegalInv, RightInv, ~hk_raced PROVE
                      /\ H!TableBound
                      /\ OneRowEach(hks)
                      /\ ~H!Torn => \A n \in Nodes : H!hk_get_epoch(n) = set_by[n]
    BY Zenon DEF TableRightUnlessRaced, H!TableRightUnlessRaced, OneRowEach
  <2>1. H!TableBound
    BY DEF H!TableBound, RightInv, RightTable
  <2>2. OneRowEach(hks)
    BY Zenon DEF RightInv, RightTable
  <2>3. ASSUME ~H!Torn, NEW n \in Nodes PROVE H!hk_get_epoch(n) = set_by[n]
    <3>1. ~TornFor(n)
      BY <2>3, Zenon DEF H!Torn, TornFor, Writing
    <3>2. EpochIn(hks, n) = set_by[n]
      BY <3>1, Zenon DEF RightInv, RightTable
    <3> QED BY <3>2, Zenon DEF EpochIn, H!hk_get_epoch
  <2> QED BY <2>1, <2>2, <2>3
<1> QED BY <1>1, LegalAlways, RightAlways, HkAssumption, PTL

(* A synchronisation that the sniffer starts moves no epoch back by more   *)
(* than a day ("Skipping possible invalid EPOCH"), unless it raced with    *)
(* `hk timeoffset`.                                                        *)
THEOREM HkAutoSync == H!Spec => AutoSyncNeverBack
<1> DEFINE Back == (pc["sniffer"] = "write" /\ pc'["sniffer"] = "use" /\ ~hk_raced')
                      => \A n \in Nodes : H!hk_get_epoch(n) # -1 =>
                           H!hk_get_epoch(n)' >= H!hk_get_epoch(n) - DAY
<1>1. LegalInv /\ RightInv /\ [H!Next]_(H!vars) => [Back]_(H!vars)
  <2> SUFFICES ASSUME LegalInv, RightInv, H!Next, Writing("sniffer"),
                      pc'["sniffer"] = "use", ~hk_raced',
                      NEW n \in Nodes, EpochIn(hks, n) # -1
               PROVE  EpochIn(hks', n) >= EpochIn(hks, n) - DAY
    BY Zenon DEF Back, Writing, EpochIn, H!hk_get_epoch
  <2> DEFINE s == "sniffer"
  <2>0. H!TypeOK /\ s \in H!Threads /\ DAY \in Nat
    BY HkAssumption DEF LegalInv, H!Threads, H!HkAssumption
  <2>1. H!HkSetEpochWrite(s)
    BY <2>0 DEF H!Next, Writing, H!TypeOK, H!hk_timeoffset, H!hk_utcparam, H!HkSetEpochCheck,
         H!RowAppears, H!HkSetEpochWrite, H!hk_param_sniffer, H!PacketEnds, H!UtcSample, H!BootSample,
         H!UseEpoch, H!Tick, H!Threads, H!After
  <2>2. RightTable
    BY <2>1, Zenon DEF H!HkSetEpochWrite, RightInv
  <2>3. /\ EpochIn(hks', arg[s].node) = arg[s].epoch
        /\ IF row[s] = H!NewRow THEN H!RowsOf(hks, arg[s].node) = {}
                              ELSE EpochIn(hks, arg[s].node) = hks[row[s]].epoch
        /\ \A m \in Nodes : m # arg[s].node => EpochIn(hks', m) = EpochIn(hks, m)
    BY HkAssumption, <2>0, <2>1, <2>2, WriteChanges, Zenon
  <2>4. EpochIn(hks, n) \in Int
    <3>1. CASE H!RowsOf(hks, n) = {}
      BY <3>1 DEF EpochIn
    <3>2. CASE H!RowsOf(hks, n) # {}
      <4>1. H!Min(H!RowsOf(hks, n)) \in 1 .. Len(hks)
        BY <2>0, <3>2, MinIsLeast, RowsAreNumbers, Zenon DEF H!TypeOK
      <4>2. hks[H!Min(H!RowsOf(hks, n))] \in [node : Nodes, epoch : Int]
        BY <2>0, <4>1, ElementOfSeq, Zenon DEF H!TypeOK
      <4> QED BY <3>2, <4>2 DEF EpochIn
    <3> QED BY <3>1, <3>2
  <2>5. CASE n # arg[s].node
    BY <2>0, <2>3, <2>4, <2>5
  <2>6. CASE n = arg[s].node
    <3>1. row[s] # H!NewRow
      BY <2>3, <2>6 DEF EpochIn
    <3>2. hks[row[s]].epoch - arg[s].epoch <= DAY
      BY <2>0, <2>2, <3>1, Zenon DEF RightTable, StillDecided
    <3>3. arg[s].epoch \in Int
      BY <2>0 DEF H!TypeOK
    <3> QED BY <2>0, <2>3, <2>4, <2>6, <3>1, <3>2, <3>3
  <2> QED BY <2>5, <2>6
<1> QED BY <1>1, LegalAlways, RightAlways, HkAssumption, PTL
         DEF H!Spec, AutoSyncNeverBack, H!AutoSyncNeverBack
=============================================================================
