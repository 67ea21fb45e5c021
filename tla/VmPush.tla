------------------------------- MODULE VmPush -------------------------------
(***************************************************************************)
(* The Victoria Metrics exporter of csh (src/victoria_metrics.c).          *)
(*                                                                         *)
(* Three kinds of threads share `buffer`, `vm_running` and the static      *)
(* `victoria_metrics_args`:                                                *)
(*   - the shell, which runs `vm start` and `vm stop`;                     *)
(*   - the parameter sniffer, which hands metric lines to vm_add();        *)
(*   - every push thread a `vm start` ever created: `vm stop` only clears  *)
(*     the flag and joins nothing, so several may be alive at once.        *)
(*                                                                         *)
(* A metric line is a natural number (its serial number); its length in    *)
(* bytes is any member of LineLens.  The strings of vm_args (server,       *)
(* user, password) are abstracted to the start command that duplicated     *)
(* them: args.server = s when they belong to the s-th start, 0 when they   *)
(* are NULL.                                                               *)
(***************************************************************************)
EXTENDS Naturals, Sequences

CONSTANTS
  MaxStarts,    (* bound: how many push threads the shell may create       *)
  MaxLines,     (* bound: how many metric lines the sniffer produces       *)
  BUFFER_SIZE,  (* capacity of `buffer` in bytes, the NUL included         *)
  LineLens,     (* possible lengths of a metric line                       *)
  PortOptions,  (* values of -P on the command line; 0 means not given     *)
  UserOptions   (* whether -u is given: a subset of BOOLEAN                *)

ASSUME VmAssumption ==
  /\ MaxStarts \in Nat
  /\ MaxLines \in Nat
  /\ BUFFER_SIZE \in Nat \ {0}
  /\ LineLens \subseteq Nat \ {0}
  /\ PortOptions \subseteq Nat
  /\ UserOptions \subseteq BOOLEAN

SERVER_PORT      == 8428
SERVER_PORT_AUTH == 8427

Threads  == 1 .. MaxStarts
Free     == 0
Starts   == 0 .. MaxStarts
Outcomes == {"ok", "refused", "lost_answer"}

VARIABLES
  vm_running,    (* the flag every thread polls                            *)
  buffer,        (* the metric lines waiting, oldest first                 *)
  buffer_size,   (* their size in bytes                                    *)
  buffer_mutex,  (* who holds it: Free, or a push thread                   *)
  args,          (* victoria_metrics_args                                  *)
  shell,         (* where the shell is inside vm start / vm stop           *)
  starts,        (* number of push threads created so far                  *)
  pc,            (* where each push thread is                              *)
  target,        (* args.server as read by each thread for its push URL    *)
  sniffer,       (* where the sniffer is: "idle" or "adding"               *)
  lines,         (* number of lines the sniffer has produced               *)
  accepted,      (* history: lines vm_add stored, in order                 *)
  acked,         (* history: lines whose push the server confirmed         *)
  received       (* history: lines the server has seen at least once       *)

bufVars    == <<buffer, buffer_size, buffer_mutex>>
histVars   == <<accepted, acked, received>>
shellVars  == <<shell, starts>>
threadVars == <<pc, target>>
snifVars   == <<sniffer, lines>>
vars == <<vm_running, bufVars, args, shellVars, threadVars, snifVars, histVars>>

Init ==
  /\ vm_running = FALSE
  /\ buffer = << >> /\ buffer_size = 0 /\ buffer_mutex = Free
  /\ args = [server |-> 0, port |-> 0]
  /\ shell = "idle" /\ starts = 0
  /\ pc = [t \in Threads |-> "none"]
  /\ target = [t \in Threads |-> 0]
  /\ sniffer = "idle" /\ lines = 0
  /\ accepted = << >> /\ acked = << >> /\ received = {}

-----------------------------------------------------------------------------
(* The shell: vm_start_cmd and vm_stop_cmd.                                *)

(* What the option parser and the defaults leave in args: -P writes the    *)
(* static field, and the default applies only while the field is zero.     *)
ArgsPort(port, user) ==
  LET given == IF port # 0 THEN port ELSE args.port
  IN  IF given # 0 THEN given
      ELSE IF user THEN SERVER_PORT_AUTH ELSE SERVER_PORT

(* The server name of a new session: the command line's, duplicated.       *)
NewServerMut == IF args.server # 0 THEN args.server ELSE starts + 1
NewServer == starts + 1

(* vm start up to the credentials: refused while vm_running; otherwise the *)
(* strings of this session are duplicated into args.                       *)
StartArgs(port, user) ==
  /\ shell = "idle" /\ ~vm_running /\ starts < MaxStarts
  /\ args' = [server |-> NewServer, port |-> ArgsPort(port, user)]
  /\ shell' = "configured"
  /\ UNCHANGED <<vm_running, bufVars, starts, threadVars, snifVars, histVars>>

(* vm start fails: without a server name, or after the name was stored     *)
(* because the key file cannot be read or -u came without a password.      *)
(* args keeps what the command had written to it by then.                  *)
StartFails(port) ==
  /\ shell = "idle" /\ ~vm_running /\ starts < MaxStarts
  /\ \E server \in {args.server, NewServer} :
       args' = [server |-> server, port |-> IF port # 0 THEN port ELSE args.port]
  /\ UNCHANGED <<vm_running, bufVars, shellVars, threadVars, snifVars, histVars>>

(* param_sniffer_init, then pthread_create: the thread exists from here.   *)
StartSpawn ==
  /\ shell = "configured"
  /\ starts' = starts + 1
  /\ pc' = [pc EXCEPT ![starts + 1] = "testing"]
  /\ shell' = "spawned"
  /\ UNCHANGED <<vm_running, bufVars, args, target, snifVars, histVars>>

(* Only after pthread_create returned is the flag raised.                  *)
StartRun ==
  /\ shell = "spawned"
  /\ vm_running' = TRUE
  /\ shell' = "idle"
  /\ UNCHANGED <<bufVars, args, starts, threadVars, snifVars, histVars>>

(* vm stop frees the strings of args ...                                   *)
StopFree ==
  /\ shell = "idle" /\ vm_running
  /\ args' = [server |-> 0, port |-> args.port]
  /\ shell' = "stopping"
  /\ UNCHANGED <<vm_running, bufVars, starts, threadVars, snifVars, histVars>>

(* ... and then clears the flag.  No thread is joined.                     *)
StopFlag ==
  /\ shell = "stopping"
  /\ vm_running' = FALSE
  /\ shell' = "idle"
  /\ UNCHANGED <<bufVars, args, starts, threadVars, snifVars, histVars>>

-----------------------------------------------------------------------------
(* The pieces of vm_push and vm_add that decide what happens to the        *)
(* buffer and to its mutex.  A name ending in Mut is a deliberately wrong  *)
(* variant, used only to show that a property can fail.                    *)

(* pthread_mutex_lock returns.                                             *)
CanLockMut == TRUE
CanLock == buffer_mutex = Free

(* The mutex after the early `continue` on an empty buffer.                *)
MutexWhenEmptyMut(t) == t
MutexWhenEmpty(t) == Free

(* The mutex after a push.                                                 *)
MutexAfterPushMut(outcome) == IF outcome = "ok" THEN Free ELSE buffer_mutex
MutexAfterPush(outcome) == Free

(* Does curl_easy_perform report success?                                  *)
ConfirmedMut(outcome) == outcome \in Outcomes
Confirmed(outcome) == outcome = "ok"

(* buffer_size after a confirmed push.                                     *)
SizeAfterPushMut == buffer_size - BUFFER_SIZE
SizeAfterPush == 0

(* Does a line fit, with the NUL that strcpy writes behind it?             *)
FitsMut(line_len) == buffer_size + line_len <= BUFFER_SIZE
Fits(line_len) == buffer_size + line_len < BUFFER_SIZE

-----------------------------------------------------------------------------
(* A push thread: vm_push.                                                 *)

(* The connection test returns; a failure (no curl handle, no connection,  *)
(* a response other than 200) clears the flag.                             *)
TestConnection(t) ==
  /\ pc[t] = "testing"
  /\ \/ UNCHANGED vm_running
     \/ vm_running' = FALSE
  /\ pc' = [pc EXCEPT ![t] = "url"]
  /\ UNCHANGED <<bufVars, args, shellVars, target, snifVars, histVars>>

(* args is read again for the push URL, whatever it holds by now.          *)
BuildUrl(t) ==
  /\ pc[t] = "url"
  /\ target' = [target EXCEPT ![t] = args.server]
  /\ pc' = [pc EXCEPT ![t] = "loop"]
  /\ UNCHANGED <<vm_running, bufVars, args, shellVars, snifVars, histVars>>

(* The head of the loop: `while (vm_running)`.                             *)
LoopTest(t) ==
  /\ pc[t] = "loop"
  /\ pc' = [pc EXCEPT ![t] = IF vm_running THEN "lock" ELSE "cleanup"]
  /\ UNCHANGED <<vm_running, bufVars, args, shellVars, target, snifVars, histVars>>

(* The mutex is taken; an empty buffer gives it back at once, otherwise    *)
(* it stays locked while curl sends `buffer` (curl keeps the pointer).     *)
LockBuffer(t) ==
  /\ pc[t] = "lock" /\ CanLock
  /\ \/ /\ buffer_size = 0
        /\ pc' = [pc EXCEPT ![t] = "loop"]
        /\ buffer_mutex' = MutexWhenEmpty(t)
     \/ /\ buffer_size # 0
        /\ pc' = [pc EXCEPT ![t] = "pushing"]
        /\ buffer_mutex' = t
  /\ UNCHANGED <<vm_running, buffer, buffer_size, args, shellVars, target, snifVars, histVars>>

(* curl_easy_perform returns.  Only a confirmed push empties the buffer;   *)
(* a push may fail before or after the server took the data.               *)
PushDone(t, outcome) ==
  /\ pc[t] = "pushing"
  /\ buffer_mutex' = MutexAfterPush(outcome)
  /\ pc' = [pc EXCEPT ![t] = "loop"]
  /\ received' = IF outcome = "refused" THEN received
                 ELSE received \cup {buffer[i] : i \in 1 .. Len(buffer)}
  /\ IF Confirmed(outcome)
     THEN /\ acked' = acked \o buffer
          /\ buffer' = << >> /\ buffer_size' = SizeAfterPush
     ELSE UNCHANGED <<buffer, buffer_size, acked>>
  /\ UNCHANGED <<vm_running, args, shellVars, target, snifVars, accepted>>

(* The thread leaves: it frees whatever args points to at this moment.     *)
Cleanup(t) ==
  /\ pc[t] = "cleanup"
  /\ args' = [server |-> 0, port |-> args.port]
  /\ pc' = [pc EXCEPT ![t] = "done"]
  /\ UNCHANGED <<vm_running, bufVars, shellVars, target, snifVars, histVars>>

-----------------------------------------------------------------------------
(* The sniffer: param_sniffer_log hands a line to vm_add.                  *)

(* A sample was decoded; vm_running is read without any lock.              *)
SniffSample ==
  /\ sniffer = "idle" /\ lines < MaxLines
  /\ lines' = lines + 1
  /\ sniffer' = IF vm_running THEN "adding" ELSE "idle"
  /\ UNCHANGED <<vm_running, bufVars, args, shellVars, threadVars, histVars>>

(* vm_add: under the mutex, store the line if it fits, drop it otherwise.  *)
vm_add(line_len) ==
  /\ sniffer = "adding" /\ CanLock
  /\ IF Fits(line_len)
     THEN /\ buffer' = Append(buffer, lines)
          /\ buffer_size' = buffer_size + line_len
          /\ accepted' = Append(accepted, lines)
     ELSE UNCHANGED <<buffer, buffer_size, accepted>>
  /\ sniffer' = "idle"
  /\ UNCHANGED <<vm_running, buffer_mutex, args, shellVars, threadVars, lines, acked, received>>

-----------------------------------------------------------------------------
ShellNext ==
  \/ \E port \in PortOptions, user \in UserOptions : StartArgs(port, user)
  \/ \E port \in PortOptions : StartFails(port)
  \/ StartSpawn
  \/ StartRun
  \/ StopFree
  \/ StopFlag

ThreadNext(t) ==
  \/ TestConnection(t)
  \/ BuildUrl(t)
  \/ LoopTest(t)
  \/ LockBuffer(t)
  \/ \E outcome \in Outcomes : PushDone(t, outcome)
  \/ Cleanup(t)

SnifferNext ==
  \/ SniffSample
  \/ \E line_len \in LineLens : vm_add(line_len)

Next ==
  \/ ShellNext
  \/ \E t \in Threads : ThreadNext(t)
  \/ SnifferNext

Spec == Init /\ [][Next]_vars

(* Fairness: the shell finishes a command it has begun, threads are        *)
(* scheduled, the sniffer gets the mutex (a push thread sleeps a second    *)
(* with the mutex free after every push), and every HTTP request returns.  *)
(* FairServer adds that a server which keeps being asked finally answers.  *)
Fairness ==
  /\ WF_vars(StartSpawn) /\ WF_vars(StartRun) /\ WF_vars(StopFlag)
  /\ \A t \in Threads : WF_vars(ThreadNext(t)) /\ SF_vars(LockBuffer(t))
  /\ SF_vars(\E line_len \in LineLens : vm_add(line_len))

FairServer == \A t \in Threads : SF_vars(PushDone(t, "ok"))

FairSpec == Spec /\ Fairness /\ FairServer

-----------------------------------------------------------------------------
(* Properties.                                                             *)

Looping == {"loop", "lock", "pushing"}
Alive   == {"testing", "url"} \cup Looping
Lines   == 1 .. MaxLines

(* Types of all variables.                                                 *)
TypeOK ==
  /\ vm_running \in BOOLEAN
  /\ buffer \in Seq(Lines) /\ buffer_size \in Nat
  /\ buffer_mutex \in Threads \cup {Free}
  /\ args \in [server : Starts, port : Nat]
  /\ shell \in {"idle", "configured", "spawned", "stopping"}
  /\ starts \in Starts /\ (shell = "configured" => starts < MaxStarts)
  /\ pc \in [Threads -> Alive \cup {"none", "cleanup", "done"}]
  /\ target \in [Threads -> Starts]
  /\ sniffer \in {"idle", "adding"}
  /\ lines \in 0 .. MaxLines /\ (sniffer = "adding" => lines \in Lines)
  /\ accepted \in Seq(Lines) /\ acked \in Seq(Lines)
  /\ received \subseteq Lines

(* The mutex of the buffer belongs to the thread that is pushing, however  *)
(* many push threads stop/start has left behind; threads not yet created   *)
(* hold nothing.                                                           *)
MutexInv ==
  \A t \in Threads : /\ (pc[t] = "pushing") <=> (buffer_mutex = t)
                     /\ (t > starts) => (pc[t] = "none")

(* No sample is lost or reordered between vm_add and the server: what was  *)
(* stored is exactly what was confirmed followed by what still waits, and  *)
(* the server has seen everything that was confirmed.                      *)
NothingLost ==
  /\ accepted = acked \o buffer
  /\ \A i \in 1 .. Len(acked) : acked[i] \in received

(* vm_add never writes past `buffer`: the stored bytes and the NUL that    *)
(* strcpy appends fit.                                                     *)
BufferFits == buffer_size + 1 <= BUFFER_SIZE

(* A push thread reads the server's name a second time after its           *)
(* connection test, when another session may have been stopped, failed or  *)
(* started: what it finds may be gone or newer, but samples are never sent *)
(* to the server of an earlier session.                                    *)
NeverOlderServer ==
  /\ \A t \in Threads : target[t] # 0 => target[t] >= t
  /\ args.server # 0 => args.server >= starts

(* curl reads `buffer` through a pointer while the request is in flight    *)
(* (CURLOPT_POSTFIELDS does not copy): nobody may change it meanwhile.     *)
FrozenWhilePushing ==
  [][\A t \in Threads : (pc[t] = "pushing" /\ pc'[t] = "pushing")
        => UNCHANGED <<buffer, buffer_size>>]_vars

(* While a push thread is in its loop and the exporter is not stopped,     *)
(* every stored sample finally reaches the server.                         *)
Delivery ==
  \A n \in Lines, t \in Threads :
    (pc[t] \in Looping /\ \E i \in 1 .. Len(buffer) : buffer[i] = n)
      ~> (n \in received \/ ~vm_running)

(* Once the flag stays down, every push thread ends.                       *)
StopEndsThreads ==
  (<>[]~vm_running) => <>[](\A t \in Threads : pc[t] \in {"none", "done"})

(* With its threads and its buffer hidden, the exporter is an at-least-    *)
(* once queue: batches leave in order, what is confirmed is a prefix of    *)
(* what vm_add stored, and the server has it.                              *)
Queue == INSTANCE MetricQueue WITH Samples <- Lines, confirmed <- Len(acked)

Implements == Queue!Spec

(* What the manual says of `vm start` ("Start Victoria Metrics push        *)
(* thread"): once the command has returned and while the exporter counts   *)
(* as running, there is a push thread.                                     *)
RunningMeansThread ==
  (shell = "idle" /\ vm_running) => \E t \in Threads : pc[t] \in Alive
=============================================================================
