---------------------------- MODULE VmPushProofs ----------------------------
(* Theorems about the Victoria Metrics exporter, for every number of push  *)
(* threads, of lines, and every buffer size.                               *)
EXTENDS VmPush, TLAPS, SequenceTheorems

(* Every reachable state of the exporter is well typed.                    *)
THEOREM VmTypeCorrect == Spec => []TypeOK
<1> USE VmAssumption DEF Threads, Starts, Free, Looping, Alive
<1>1. Init => TypeOK
  <2>1. << >> \in Seq(Lines)
    BY EmptySeq
  <2>2. Init => /\ pc \in [Threads -> Alive \cup {"none", "cleanup", "done"}]
                /\ target \in [Threads -> Starts]
    BY DEF Init
  <2>3. Init => args \in [server : Starts, port : Nat]
    BY DEF Init
  <2>4. Init => received \subseteq Lines
    BY DEF Init
  <2>5. Init => buffer \in Seq(Lines) /\ accepted \in Seq(Lines) /\ acked \in Seq(Lines)
    BY <2>1, Zenon DEF Init
  <2>6. Init => /\ vm_running \in BOOLEAN /\ buffer_size \in Nat /\ buffer_mutex \in Threads \cup {Free}
                /\ starts \in Starts /\ lines \in 0 .. MaxLines
    <3>1. Init => /\ vm_running = FALSE /\ buffer_size = 0 /\ buffer_mutex = 0
                  /\ starts = 0 /\ lines = 0
      BY Zenon DEF Init, Free
    <3>2. Init => vm_running \in BOOLEAN
      BY <3>1, Zenon
    <3>3. Init => /\ buffer_size \in Nat /\ buffer_mutex \in Threads \cup {Free}
                  /\ starts \in Starts /\ lines \in 0 .. MaxLines
      <4> SUFFICES ASSUME Init
                   PROVE  /\ 0 \in Nat /\ 0 \in Threads \cup {Free}
                          /\ 0 \in Starts /\ 0 \in 0 .. MaxLines
        BY <3>1, Zenon
      <4> QED OBVIOUS
    <3> QED BY <3>2, <3>3
  <2>7. Init => shell = "idle" /\ sniffer = "idle"
    BY DEF Init
  <2> QED BY <2>2, <2>3, <2>4, <2>5, <2>6, <2>7 DEF TypeOK
<1>2. TypeOK /\ [Next]_vars => TypeOK'
  <2> SUFFICES ASSUME TypeOK, [Next]_vars PROVE TypeOK'
    OBVIOUS
  <2> USE DEF TypeOK
  <2>1. ASSUME NEW port \in PortOptions, NEW user \in UserOptions, StartArgs(port, user)
        PROVE  TypeOK'
    <3>1. ArgsPort(port, user) \in Nat
      BY DEF ArgsPort, SERVER_PORT, SERVER_PORT_AUTH
    <3> QED BY <2>1, <3>1 DEF StartArgs, NewServer, bufVars, threadVars, snifVars, histVars
  <2>2. ASSUME NEW port \in PortOptions, StartFails(port)
        PROVE  TypeOK'
    BY <2>2 DEF StartFails, NewServer, bufVars, shellVars, threadVars, snifVars, histVars
  <2>3. ASSUME StartSpawn PROVE TypeOK'
    BY <2>3 DEF StartSpawn, bufVars, snifVars, histVars
  <2>4. ASSUME StartRun PROVE TypeOK'
    BY <2>4 DEF StartRun, bufVars, threadVars, snifVars, histVars
  <2>5. ASSUME StopFree PROVE TypeOK'
    BY <2>5 DEF StopFree, bufVars, threadVars, snifVars, histVars
  <2>6. ASSUME StopFlag PROVE TypeOK'
    BY <2>6 DEF StopFlag, bufVars, threadVars, snifVars, histVars
  <2>7. ASSUME NEW t \in Threads, TestConnection(t) PROVE TypeOK'
    BY <2>7 DEF TestConnection, bufVars, shellVars, snifVars, histVars
  <2>8. ASSUME NEW t \in Threads, BuildUrl(t) PROVE TypeOK'
    BY <2>8 DEF BuildUrl, bufVars, shellVars, snifVars, histVars
  <2>9. ASSUME NEW t \in Threads, LoopTest(t) PROVE TypeOK'
    BY <2>9 DEF LoopTest, bufVars, shellVars, snifVars, histVars
  <2>10. ASSUME NEW t \in Threads, LockBuffer(t) PROVE TypeOK'
    BY <2>10 DEF LockBuffer, MutexWhenEmpty, shellVars, snifVars, histVars
  <2>11. ASSUME NEW t \in Threads, NEW outcome \in Outcomes, PushDone(t, outcome)
         PROVE  TypeOK'
    <3>1. buffer' \in Seq(Lines) /\ acked' \in Seq(Lines) /\ buffer_size' \in Nat
      <4>1. << >> \in Seq(Lines) /\ acked \o buffer \in Seq(Lines)
        BY ConcatProperties, EmptySeq
      <4>2. CASE Confirmed(outcome)
        <5>1. buffer' = << >> /\ acked' = acked \o buffer /\ buffer_size' = 0
          BY <2>11, <4>2 DEF PushDone, SizeAfterPush
        <5> QED BY <4>1, <5>1, Zenon
      <4>3. CASE ~Confirmed(outcome)
        BY <2>11, <4>3 DEF PushDone
      <4> QED BY <4>2, <4>3
    <3>2. received' \subseteq Lines
      <4>1. \A i \in 1 .. Len(buffer) : buffer[i] \in Lines
        BY ElementOfSeq
      <4> QED BY <2>11, <4>1 DEF PushDone
    <3> QED BY <2>11, <3>1, <3>2 DEF PushDone, MutexAfterPush, shellVars, snifVars
  <2>12. ASSUME NEW t \in Threads, Cleanup(t) PROVE TypeOK'
    BY <2>12 DEF Cleanup, bufVars, shellVars, snifVars, histVars
  <2>13. ASSUME SniffSample PROVE TypeOK'
    BY <2>13 DEF Lines, SniffSample, bufVars, shellVars, threadVars, histVars
  <2>14. ASSUME NEW line_len \in LineLens, vm_add(line_len) PROVE TypeOK'
    <3>1. Append(buffer, lines) \in Seq(Lines) /\ Append(accepted, lines) \in Seq(Lines)
      BY <2>14, AppendProperties DEF vm_add
    <3>2. buffer_size + line_len \in Nat
      OBVIOUS
    <3> QED BY <2>14, <3>1, <3>2 DEF vm_add, shellVars, threadVars
  <2>15. ASSUME UNCHANGED vars PROVE TypeOK'
    BY <2>15 DEF vars, bufVars, shellVars, threadVars, snifVars, histVars
  <2> QED
    BY <2>1, <2>2, <2>3, <2>4, <2>5, <2>6, <2>7, <2>8, <2>9, <2>10, <2>11, <2>12,
       <2>13, <2>14, <2>15 DEF Next, ShellNext, ThreadNext, SnifferNext
<1> QED BY <1>1, <1>2, PTL DEF Spec

(* The mutex of the buffer is held exactly while a thread is pushing, by   *)
(* that thread: pushes exclude each other whatever stop/start left alive.  *)
THEOREM VmMutex == Spec => []MutexInv
<1> USE VmAssumption DEF Threads, Free
<1>1. Init => MutexInv
  BY DEF Init, MutexInv
<1>2. TypeOK /\ MutexInv /\ [Next]_vars => MutexInv'
  <2> SUFFICES ASSUME TypeOK, MutexInv, [Next]_vars PROVE MutexInv'
    OBVIOUS
  <2> USE DEF MutexInv
  <2>1. CASE StartSpawn
    <3>1. starts + 1 \in Threads /\ pc[starts + 1] = "none"
      BY <2>1 DEF StartSpawn, TypeOK, Starts
    <3> QED BY <2>1, <3>1 DEF StartSpawn, TypeOK, bufVars, Starts
  <2>2. CASE UNCHANGED <<pc, buffer_mutex, starts>>
    BY <2>2
  <2>3. ASSUME NEW t \in Threads, ThreadNext(t) PROVE MutexInv'
    <3>1. CASE TestConnection(t) \/ BuildUrl(t) \/ LoopTest(t) \/ Cleanup(t)
      BY SMTT(30), <3>1 DEF TestConnection, BuildUrl, LoopTest, Cleanup, TypeOK, bufVars, shellVars
    <3>2. CASE LockBuffer(t)
      BY <3>2 DEF LockBuffer, CanLock, MutexWhenEmpty, TypeOK, shellVars
    <3>3. ASSUME NEW outcome \in Outcomes, PushDone(t, outcome) PROVE MutexInv'
      BY <3>3 DEF PushDone, MutexAfterPush, TypeOK, shellVars
    <3> QED BY <2>3, <3>1, <3>2, <3>3 DEF ThreadNext
  <2>4. (ShellNext \/ SnifferNext \/ UNCHANGED vars)
          => StartSpawn \/ UNCHANGED <<pc, buffer_mutex, starts>>
    BY DEF ShellNext, SnifferNext, StartArgs, StartFails, StartRun, StopFree, StopFlag,
       SniffSample, vm_add, vars, bufVars, shellVars, threadVars
  <2> QED BY <2>1, <2>2, <2>3, <2>4 DEF Next
<1> QED BY <1>1, <1>2, VmTypeCorrect, PTL DEF Spec

-----------------------------------------------------------------------------
(* What the actions do to the buffer and to the history.                   *)
LEMMA VmBufferSteps ==
  ASSUME TypeOK, [Next]_vars
  PROVE  \/ UNCHANGED <<buffer, buffer_size, accepted, acked, received>>
         \/ \E t \in Threads, outcome \in Outcomes : PushDone(t, outcome)
         \/ \E line_len \in LineLens : vm_add(line_len)
  BY DEF Next, ShellNext, ThreadNext, SnifferNext, StartArgs, StartFails, StartSpawn,
     StartRun, StopFree, StopFlag, TestConnection, BuildUrl, LoopTest, LockBuffer,
     Cleanup, SniffSample, vars, bufVars, histVars

(* No stored sample is lost, duplicated in the buffer or reordered: what   *)
(* vm_add stored is what the server confirmed followed by what waits.      *)
THEOREM VmNothingLost == Spec => []NothingLost
<1> USE VmAssumption
<1>1. Init => NothingLost
  BY DEF Init, NothingLost
<1>2. TypeOK /\ NothingLost /\ [Next]_vars => NothingLost'
  <2> SUFFICES ASSUME TypeOK, NothingLost, [Next]_vars PROVE NothingLost'
    OBVIOUS
  <2> USE DEF NothingLost
  <2>1. CASE UNCHANGED <<buffer, buffer_size, accepted, acked, received>>
    BY <2>1
  <2>2. ASSUME NEW t \in Threads, NEW outcome \in Outcomes, PushDone(t, outcome)
        PROVE  NothingLost'
    <3>1. CASE Confirmed(outcome)
      <4>1. /\ acked' = acked \o buffer /\ buffer' = << >> /\ accepted' = accepted
            /\ received' = received \cup {buffer[i] : i \in 1 .. Len(buffer)}
        BY <2>2, <3>1 DEF PushDone, Confirmed
      <4>2. acked \in Seq(Lines) /\ buffer \in Seq(Lines)
        BY DEF TypeOK
      <4>3. accepted' = acked' \o buffer'
        BY <4>1, <4>2
      <4>4. ASSUME NEW i \in 1 .. Len(acked') PROVE acked'[i] \in received'
        <5>1. CASE i <= Len(acked)
          BY <4>1, <4>2, <5>1
        <5>2. CASE i > Len(acked)
          <6>1. i - Len(acked) \in 1 .. Len(buffer) /\ acked'[i] = buffer[i - Len(acked)]
            BY <4>1, <4>2, <5>2
          <6> QED BY <4>1, <6>1
        <5> QED BY <4>2, <5>1, <5>2
      <4> QED BY <4>3, <4>4
    <3>2. CASE ~Confirmed(outcome)
      BY <2>2, <3>2 DEF PushDone
    <3> QED BY <3>1, <3>2
  <2>3. ASSUME NEW line_len \in LineLens, vm_add(line_len) PROVE NothingLost'
    <3>1. CASE Fits(line_len)
      <4>1. /\ buffer' = Append(buffer, lines) /\ accepted' = Append(accepted, lines)
            /\ acked' = acked /\ received' = received
        BY <2>3, <3>1 DEF vm_add
      <4>2. acked \in Seq(Lines) /\ buffer \in Seq(Lines) /\ lines \in Lines
        BY <2>3 DEF TypeOK, vm_add
      <4>3. Append(acked \o buffer, lines) = acked \o Append(buffer, lines)
        <5>1. <<lines>> \in Seq(Lines) /\ acked \o buffer \in Seq(Lines)
          BY <4>2, ConcatProperties
        <5>2. Append(acked \o buffer, lines) = (acked \o buffer) \o <<lines>>
          BY <4>2, <5>1, AppendIsConcat
        <5>3. (acked \o buffer) \o <<lines>> = acked \o (buffer \o <<lines>>)
          BY SMTT(30), <4>2, <5>1, ConcatAssociative
        <5>4. buffer \o <<lines>> = Append(buffer, lines)
          BY <4>2, AppendIsConcat
        <5> QED BY <5>2, <5>3, <5>4
      <4> QED BY <4>1, <4>3
    <3>2. CASE ~Fits(line_len)
      BY <2>3, <3>2 DEF vm_add
    <3> QED BY <3>1, <3>2
  <2> QED BY <2>1, <2>2, <2>3, VmBufferSteps
<1> QED BY <1>1, <1>2, VmTypeCorrect, PTL DEF Spec

(* vm_add stays inside `buffer` for every capacity and all line lengths.   *)
THEOREM VmBufferFits == Spec => []BufferFits
<1> USE VmAssumption
<1>1. Init => BufferFits
  BY DEF Init, BufferFits
<1>2. TypeOK /\ BufferFits /\ [Next]_vars => BufferFits'
  <2> SUFFICES ASSUME TypeOK, BufferFits, [Next]_vars PROVE BufferFits'
    OBVIOUS
  <2> USE DEF BufferFits
  <2>1. CASE UNCHANGED <<buffer, buffer_size, accepted, acked, received>>
    BY <2>1
  <2>2. ASSUME NEW t \in Threads, NEW outcome \in Outcomes, PushDone(t, outcome)
        PROVE  BufferFits'
    BY <2>2 DEF PushDone, SizeAfterPush
  <2>3. ASSUME NEW line_len \in LineLens, vm_add(line_len) PROVE BufferFits'
    BY <2>3 DEF vm_add, Fits, TypeOK
  <2> QED BY <2>1, <2>2, <2>3, VmBufferSteps
<1> QED BY <1>1, <1>2, VmTypeCorrect, PTL DEF Spec

(* The memory curl is reading is never written while a request is in       *)
(* flight.                                                                 *)
THEOREM VmFrozenWhilePushing == Spec => FrozenWhilePushing
<1> USE VmAssumption DEF Threads, Free
<1>1. ASSUME TypeOK, MutexInv, [Next]_vars
      PROVE  [\A t \in Threads : (pc[t] = "pushing" /\ pc'[t] = "pushing")
                 => UNCHANGED <<buffer, buffer_size>>]_vars
  <2> SUFFICES ASSUME NEW t \in Threads, pc[t] = "pushing", pc'[t] = "pushing"
               PROVE  UNCHANGED <<buffer, buffer_size>>
    OBVIOUS
  <2>1. buffer_mutex = t
    BY <1>1 DEF MutexInv
  <2>2. ASSUME NEW u \in Threads, NEW outcome \in Outcomes, PushDone(u, outcome)
        PROVE  FALSE
    <3>1. u = t
      BY <1>1, <2>1, <2>2 DEF PushDone, MutexInv
    <3> QED BY <1>1, <2>2, <3>1 DEF PushDone, TypeOK
  <2>3. ASSUME NEW line_len \in LineLens, vm_add(line_len) PROVE FALSE
    BY <2>1, <2>3 DEF vm_add, CanLock
  <2> QED BY <1>1, <2>2, <2>3, VmBufferSteps
<1> QED BY <1>1, VmTypeCorrect, VmMutex, PTL DEF Spec, FrozenWhilePushing

-----------------------------------------------------------------------------
(* NeverOlderServer is inductive together with the server of a session     *)
(* that has no thread yet.                                                 *)
ServerInv ==
  /\ NeverOlderServer
  /\ (shell = "configured" /\ args.server # 0) => args.server > starts

(* A push thread never sends to the server of an earlier session.          *)
THEOREM VmNeverOlderServer == Spec => []NeverOlderServer
<1> USE VmAssumption DEF Threads, Starts
<1>1. Init => ServerInv
  BY DEF Init, ServerInv, NeverOlderServer
<1>2. TypeOK /\ MutexInv /\ ServerInv /\ [Next]_vars => ServerInv'
  <2> SUFFICES ASSUME TypeOK, MutexInv, ServerInv, [Next]_vars
               PROVE  ServerInv'
    OBVIOUS
  <2> USE DEF ServerInv, NeverOlderServer, TypeOK
  <2>1. CASE UNCHANGED <<args, starts, target>> /\ (shell' = "configured" => shell = "configured")
    BY <2>1
  <2>2. ASSUME NEW port \in PortOptions, NEW user \in UserOptions, StartArgs(port, user)
        PROVE  ServerInv'
    BY <2>2 DEF StartArgs, NewServer, threadVars
  <2>3. ASSUME NEW port \in PortOptions, StartFails(port) PROVE ServerInv'
    BY <2>3 DEF StartFails, NewServer, shellVars, threadVars
  <2>4. CASE StartSpawn
    BY <2>4 DEF StartSpawn
  <2>5. CASE StopFree
    BY <2>5 DEF StopFree, threadVars
  <2>6. ASSUME NEW t \in Threads, BuildUrl(t) PROVE ServerInv'
    <3>1. t <= starts
      BY <2>6 DEF BuildUrl, MutexInv
    <3> QED BY <2>6, <3>1 DEF BuildUrl, shellVars
  <2>7. ASSUME NEW t \in Threads, Cleanup(t) PROVE ServerInv'
    BY <2>7 DEF Cleanup, shellVars
  <2>8. \/ UNCHANGED <<args, starts, target>> /\ (shell' = "configured" => shell = "configured")
        \/ \E port \in PortOptions, user \in UserOptions : StartArgs(port, user)
        \/ \E port \in PortOptions : StartFails(port)
        \/ StartSpawn \/ StopFree
        \/ \E t \in Threads : BuildUrl(t) \/ Cleanup(t)
    BY DEF Next, ShellNext, ThreadNext, SnifferNext, StartRun, StopFlag, TestConnection,
       LoopTest, LockBuffer, PushDone, SniffSample, vm_add, vars, shellVars, threadVars
  <2> QED BY <2>1, <2>2, <2>3, <2>4, <2>5, <2>6, <2>7, <2>8
<1>3. ServerInv => NeverOlderServer
  BY DEF ServerInv
<1> QED BY <1>1, <1>2, <1>3, VmTypeCorrect, VmMutex, PTL DEF Spec

-----------------------------------------------------------------------------
(* The exporter implements MetricQueue.                                    *)

(* The line being added is not in the queue yet.                           *)
FreshInv ==
  \A i \in 1 .. Len(accepted) :
    accepted[i] <= lines /\ (sniffer = "adding" => accepted[i] < lines)

(* A line handed to vm_add was never stored before.                        *)
LEMMA VmFresh == Spec => []FreshInv
<1>1. Init => FreshInv
  BY DEF Init, FreshInv
<1>2. TypeOK /\ FreshInv /\ [Next]_vars => FreshInv'
  <2> SUFFICES ASSUME TypeOK, FreshInv, [Next]_vars PROVE FreshInv'
    OBVIOUS
  <2> USE VmAssumption DEF FreshInv
  <2>1. CASE UNCHANGED <<accepted, lines, sniffer>>
    BY <2>1
  <2>2. CASE SniffSample
    BY <2>2 DEF SniffSample, histVars, TypeOK, Lines
  <2>3. ASSUME NEW line_len \in LineLens, vm_add(line_len) PROVE FreshInv'
    <3>1. lines \in Nat /\ lines' = lines /\ sniffer' = "idle" /\ sniffer = "adding"
      BY <2>3 DEF vm_add, TypeOK
    <3>2. accepted' = accepted \/ accepted' = Append(accepted, lines)
      BY <2>3 DEF vm_add
    <3>3. accepted \in Seq(Lines)
      BY DEF TypeOK
    <3> QED BY <3>1, <3>2, <3>3, AppendProperties DEF Lines
  <2>4. \/ UNCHANGED <<accepted, lines, sniffer>>
        \/ SniffSample
        \/ \E line_len \in LineLens : vm_add(line_len)
    BY DEF Next, ShellNext, ThreadNext, SnifferNext, StartArgs, StartFails, StartSpawn,
       StartRun, StopFree, StopFlag, TestConnection, BuildUrl, LoopTest, LockBuffer,
       PushDone, Cleanup, vars, snifVars, histVars
  <2> QED BY <2>1, <2>2, <2>3, <2>4
<1> QED BY <1>1, <1>2, VmTypeCorrect, PTL DEF Spec

(* Every step of the exporter is a step of the queue or leaves it alone:   *)
(* storing a line accepts it, a push whose answer is lost delivers what is *)
(* outstanding, a confirmed push also confirms it.                         *)
THEOREM VmImplements == Spec => Implements
<1> USE VmAssumption
<1>1. Init => Queue!Init
  BY DEF Init, Queue!Init
<1>2. ASSUME TypeOK, NothingLost, FreshInv, [Next]_vars
      PROVE  [Queue!Next]_(Queue!vars)
  <2>1. /\ acked \in Seq(Lines) /\ buffer \in Seq(Lines) /\ accepted \in Seq(Lines)
        /\ accepted = acked \o buffer
    BY <1>2 DEF TypeOK, NothingLost
  <2>2. CASE UNCHANGED <<buffer, buffer_size, accepted, acked, received>>
    BY <2>2 DEF Queue!vars
  <2>3. ASSUME NEW t \in Threads, NEW outcome \in Outcomes, PushDone(t, outcome)
        PROVE  [Queue!Next]_(Queue!vars)
    <3>1. {buffer[i] : i \in 1 .. Len(buffer)} = Queue!Outstanding
      <4>1. Len(accepted) = Len(acked) + Len(buffer)
        BY <2>1
      <4>2. \A i \in 1 .. Len(buffer) : accepted[Len(acked) + i] = buffer[i]
        BY <2>1
      <4>3. ASSUME NEW i \in 1 .. Len(buffer)
            PROVE  buffer[i] \in {accepted[j] : j \in Len(acked) + 1 .. Len(accepted)}
        BY <2>1, <4>1, <4>2
      <4>4. ASSUME NEW j \in Len(acked) + 1 .. Len(accepted)
            PROVE  accepted[j] \in {buffer[i] : i \in 1 .. Len(buffer)}
        <5>1. j - Len(acked) \in 1 .. Len(buffer) /\ accepted[j] = buffer[j - Len(acked)]
          BY <2>1, <4>1, <4>2
        <5> QED BY <5>1
      <4> QED BY <4>3, <4>4 DEF Queue!Outstanding
    <3>2. CASE outcome = "ok"
      <4>1. acked' = acked \o buffer /\ accepted' = accepted
        BY <2>3, <3>2 DEF PushDone, Confirmed
      <4>2. received' = received \cup Queue!Outstanding
        BY <2>3, <3>1, <3>2 DEF PushDone
      <4>3. Queue!Deliver
        BY <2>1, <4>1, <4>2 DEF Queue!Deliver
      <4> QED BY <4>3 DEF Queue!Next
    <3>3. CASE outcome = "lost_answer"
      <4>1. acked' = acked /\ accepted' = accepted
        BY <2>3, <3>3 DEF PushDone, Confirmed
      <4>2. received' = received \cup Queue!Outstanding
        BY <2>3, <3>1, <3>3 DEF PushDone
      <4>3. Queue!DeliverUnconfirmed
        BY <4>1, <4>2 DEF Queue!DeliverUnconfirmed
      <4> QED BY <4>3 DEF Queue!Next
    <3>4. CASE outcome = "refused"
      BY <2>3, <3>4 DEF PushDone, Confirmed, Queue!vars
    <3> QED BY <3>2, <3>3, <3>4 DEF Outcomes
  <2>4. ASSUME NEW line_len \in LineLens, vm_add(line_len)
        PROVE  [Queue!Next]_(Queue!vars)
    <3>1. CASE Fits(line_len)
      <4>1. /\ accepted' = Append(accepted, lines) /\ acked' = acked
            /\ received' = received /\ sniffer = "adding"
        BY <2>4, <3>1 DEF vm_add
      <4>2. lines \in Lines /\ \A i \in 1 .. Len(accepted) : accepted[i] # lines
        BY <1>2, <2>1, <4>1 DEF TypeOK, FreshInv, Lines
      <4>3. Queue!Accept(lines)
        BY <4>1, <4>2 DEF Queue!Accept
      <4> QED BY <4>2, <4>3 DEF Queue!Next
    <3>2. CASE ~Fits(line_len)
      BY <2>4, <3>2 DEF vm_add, Queue!vars
    <3> QED BY <3>1, <3>2
  <2> QED BY <1>2, <2>2, <2>3, <2>4, VmBufferSteps
<1> QED BY <1>1, <1>2, VmTypeCorrect, VmNothingLost, VmFresh, PTL
     DEF Spec, Implements, Queue!Spec
=============================================================================
