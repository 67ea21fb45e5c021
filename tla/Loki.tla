-------------------------------- MODULE Loki --------------------------------
(***************************************************************************)
(* Loki logging (src/loki.c).  `loki start` replaces stdout by a pipe; a   *)
(* reader thread copies the pipe to the terminal and queues what it read;  *)
(* a post thread sends the queue to the server and stops the logging after *)
(* too many failures in a row; the reader then puts stdout back.           *)
(*                                                                         *)
(* Lines are numbered in the order they are printed.  A file descriptor is *)
(* the thing it refers to: Tty, a pipe (numbered by the start command that *)
(* created it), or Closed.  pipe_fd, old_stdout, readbuffer and the flag   *)
(* are global in the code and shared by the threads of all sessions.       *)
(***************************************************************************)
EXTENDS Naturals, Sequences

CONSTANTS
  MaxStarts,     (* bound: number of accepted start commands               *)
  MaxLines,      (* bound: number of lines printed                         *)
  QueueLength,   (* messages the queue holds (2000 in the code)            *)
  ErrorLimit     (* errors in a row that are tolerated (5 in the code)     *)

(* What the constants must satisfy; the MC module assumes it.              *)
LokiAssumption ==
  /\ MaxStarts \in Nat /\ MaxLines \in Nat
  /\ QueueLength \in Nat /\ ErrorLimit \in Nat

Sessions == 1 .. MaxStarts
Tty    == 0
Closed == MaxStarts + 1

VARIABLES
  loki_running,    (* the flag                                             *)
  stdout,          (* what descriptor 1 refers to                          *)
  old_stdout,      (* the saved descriptor                                 *)
  pipe_fd,         (* the pipe both ends of pipe_fd belong to; 0 at first  *)
  readable,        (* pipes whose reading end is open                      *)
  pipe,            (* lines in each pipe                                   *)
  readbuffer,      (* the lines last read                                  *)
  loki_q,          (* number of messages waiting                           *)
  curl_err_count,  (* errors in a row                                      *)
  shell,           (* where the shell is inside loki start                 *)
  starts,          (* number of start commands accepted                    *)
  reader,          (* where each reader thread is                          *)
  fd,              (* the pipe each reader's read() call waits on          *)
  poster,          (* where each post thread is                            *)
  lines,           (* number of lines printed                              *)
  screen,          (* lines on the terminal, in order                      *)
  killed,          (* did a write to a pipe without reader raise SIGPIPE?  *)
  overlap          (* history: was a session started while the reader of   *)
                   (* an earlier one was still there?                      *)

fdVars     == <<stdout, old_stdout, pipe_fd, readable>>
outVars    == <<pipe, screen, lines, killed>>
queueVars  == <<loki_q, curl_err_count>>
shellVars  == <<shell, starts, overlap>>
readerVars == <<reader, fd, readbuffer>>
vars == <<loki_running, fdVars, outVars, queueVars, shellVars, readerVars, poster>>

Init ==
  /\ loki_running = FALSE
  /\ stdout = Tty /\ old_stdout = Closed /\ pipe_fd = 0 /\ readable = {}
  /\ pipe = [k \in Sessions |-> << >>] /\ readbuffer = << >>
  /\ loki_q = 0 /\ curl_err_count = 0
  /\ shell = "idle" /\ starts = 0 /\ overlap = FALSE
  /\ reader = [s \in Sessions |-> "none"] /\ fd = [s \in Sessions |-> 0]
  /\ poster = [s \in Sessions |-> "none"]
  /\ lines = 0 /\ screen = << >> /\ killed = FALSE

(* write(): to the terminal, into a pipe, to a closed descriptor (EBADF),  *)
(* or into a pipe nobody can read any more.  csh does not handle SIGPIPE.  *)
Write(where, text) ==
  /\ screen' = IF where = Tty THEN screen \o text ELSE screen
  /\ pipe' = IF where \in Sessions THEN [pipe EXCEPT ![where] = @ \o text] ELSE pipe
  /\ killed' = (where \in Sessions /\ where \notin readable)

(* printf() of one new line.                                               *)
Say == lines' = lines + 1 /\ Write(stdout, <<lines + 1>>)

-----------------------------------------------------------------------------
(* A process killed by SIGPIPE takes no further step.                      *)
ShellAt(where)     == ~killed /\ shell = where
ReaderAt(s, where) == ~killed /\ reader[s] = where
PosterAt(s, where) == ~killed /\ poster[s] = where

(* The shell: any command prints; loki start takes the steps below.        *)

PrintLine ==
  /\ ShellAt("idle") /\ lines < MaxLines
  /\ Say
  /\ UNCHANGED <<loki_running, fdVars, queueVars, shellVars, readerVars, poster>>

(* on_loki_slash_execute_hook: the command line itself is queued.          *)
Hook ==
  /\ ShellAt("idle") /\ loki_running /\ loki_q < QueueLength
  /\ loki_q' = loki_q + 1
  /\ UNCHANGED <<loki_running, fdVars, outVars, curl_err_count, shellVars, readerVars, poster>>

(* Refused while running and when arguments are missing; otherwise up to   *)
(* pipe(pipe_fd).  The saved descriptor is not set when pipe() fails.      *)
StartPipe ==
  /\ ShellAt("idle") /\ ~loki_running /\ starts < MaxStarts
  /\ starts' = starts + 1
  /\ overlap' = (overlap \/ \E s \in Sessions : reader[s] \notin {"none", "done"})
  /\ pipe_fd' = starts + 1
  /\ readable' = readable \cup {starts + 1}
  /\ shell' = "pipe"
  /\ UNCHANGED <<loki_running, stdout, old_stdout, outVars, queueVars, readerVars, poster>>

(* old_stdout = dup(stdout)                                                *)
StartDup ==
  /\ ShellAt("pipe")
  /\ old_stdout' = stdout
  /\ shell' = "dup"
  /\ UNCHANGED <<loki_running, stdout, pipe_fd, readable, outVars, queueVars, starts, overlap,
                 readerVars, poster>>

(* dup2(pipe_fd[1], stdout), and the flag.                                 *)
StartDup2 ==
  /\ ShellAt("dup")
  /\ stdout' = pipe_fd
  /\ loki_running' = TRUE
  /\ shell' = "running"
  /\ UNCHANGED <<old_stdout, pipe_fd, readable, outVars, queueVars, starts, overlap,
                 readerVars, poster>>

(* dup2 fails: the command ends without threads and without the flag.      *)
StartFails ==
  /\ ShellAt("dup")
  /\ shell' = "idle"
  /\ UNCHANGED <<loki_running, fdVars, outVars, queueVars, starts, overlap, readerVars, poster>>

(* The two threads, and "Loki logging started".                            *)
StartThreads ==
  /\ ShellAt("running")
  /\ reader' = [reader EXCEPT ![starts] = "test"]
  /\ poster' = [poster EXCEPT ![starts] = "test"]
  /\ IF lines < MaxLines THEN Say ELSE UNCHANGED outVars
  /\ shell' = "idle"
  /\ UNCHANGED <<loki_running, fdVars, queueVars, starts, overlap, fd, readbuffer>>

-----------------------------------------------------------------------------
(* read_pipe                                                               *)

Goto(s, where) == reader' = [reader EXCEPT ![s] = where]

ReaderTest(s) ==
  /\ ReaderAt(s, "test")
  /\ Goto(s, IF loki_running THEN "call" ELSE "close")
  /\ UNCHANGED <<loki_running, fdVars, outVars, queueVars, shellVars, fd, readbuffer, poster>>

ReaderCall(s) ==
  /\ ReaderAt(s, "call")
  /\ fd' = [fd EXCEPT ![s] = pipe_fd]
  /\ Goto(s, "read")
  /\ UNCHANGED <<loki_running, fdVars, outVars, queueVars, shellVars, readbuffer, poster>>

(* read() returns all the lines there are, or fails on a closed pipe.      *)
ReaderRead(s) ==
  /\ ReaderAt(s, "read")
  /\ \/ /\ fd[s] \in readable /\ pipe[fd[s]] # << >>
        /\ readbuffer' = pipe[fd[s]]
        /\ pipe' = [pipe EXCEPT ![fd[s]] = << >>]
        /\ Goto(s, "write")
     \/ /\ fd[s] \notin readable
        /\ Goto(s, "test")
        /\ UNCHANGED <<readbuffer, pipe>>
  /\ UNCHANGED <<loki_running, fdVars, screen, lines, killed, queueVars, shellVars, fd, poster>>

(* "write to terminal"                                                     *)
ReaderWrite(s) ==
  /\ ReaderAt(s, "write")
  /\ Write(old_stdout, readbuffer)
  /\ Goto(s, "add")
  /\ UNCHANGED <<loki_running, fdVars, lines, queueVars, shellVars, fd, readbuffer, poster>>

(* loki_add: nothing while stopped; otherwise the lines are formatted      *)
(* under the mutex, and unless nothing is left of them a message is to be  *)
(* queued.                                                                 *)
ReaderAdd(s) ==
  /\ ReaderAt(s, "add")
  /\ \/ Goto(s, "clear")
     \/ loki_running /\ Goto(s, "send")
  /\ UNCHANGED <<loki_running, fdVars, outVars, queueVars, shellVars, fd, readbuffer, poster>>

(* message_queue_send (external): the queue takes the message, or is full  *)
(* and drops it.                                                           *)
ReaderSend(s) ==
  /\ ReaderAt(s, "send")
  /\ loki_q' = IF loki_q < QueueLength THEN loki_q + 1 ELSE loki_q
  /\ Goto(s, "clear")
  /\ UNCHANGED <<loki_running, fdVars, outVars, curl_err_count, shellVars, fd, readbuffer, poster>>

(* memset(readbuffer)                                                      *)
ReaderClear(s) ==
  /\ ReaderAt(s, "clear")
  /\ readbuffer' = << >>
  /\ Goto(s, "test")
  /\ UNCHANGED <<loki_running, fdVars, outVars, queueVars, shellVars, fd, poster>>

(* After the loop: close(pipe_fd[0]); dup2(old_stdout, 1); close.          *)
ReaderClose(s) ==
  /\ ReaderAt(s, "close")
  /\ readable' = readable \ {pipe_fd}
  /\ Goto(s, "restore")
  /\ UNCHANGED <<loki_running, stdout, old_stdout, pipe_fd, outVars, queueVars, shellVars,
                 fd, readbuffer, poster>>

Restored == IF old_stdout = Closed THEN stdout ELSE old_stdout

ReaderRestore(s) ==
  /\ ReaderAt(s, "restore")
  /\ stdout' = Restored
  /\ Goto(s, "release")
  /\ UNCHANGED <<loki_running, old_stdout, pipe_fd, readable, outVars, queueVars, shellVars,
                 fd, readbuffer, poster>>

ReaderRelease(s) ==
  /\ ReaderAt(s, "release")
  /\ old_stdout' = Closed
  /\ Goto(s, "done")
  /\ UNCHANGED <<loki_running, stdout, pipe_fd, readable, outVars, queueVars, shellVars,
                 fd, readbuffer, poster>>

-----------------------------------------------------------------------------
(* post_thread                                                             *)

PosterTest(s) ==
  /\ PosterAt(s, "test")
  /\ poster' = [poster EXCEPT ![s] = IF loki_running THEN "receive" ELSE "done"]
  /\ UNCHANGED <<loki_running, fdVars, outVars, queueVars, shellVars, readerVars>>

PosterReceive(s) ==
  /\ PosterAt(s, "receive") /\ loki_q > 0
  /\ loki_q' = loki_q - 1
  /\ poster' = [poster EXCEPT ![s] = "post"]
  /\ UNCHANGED <<loki_running, fdVars, outVars, curl_err_count, shellVars, readerVars>>

(* Is this error one too many?                                             *)
TooManyMut == curl_err_count > ErrorLimit
TooMany == curl_err_count + 1 > ErrorLimit

PosterOk(s) ==
  /\ PosterAt(s, "post")
  /\ curl_err_count' = 0
  /\ poster' = [poster EXCEPT ![s] = "test"]
  /\ UNCHANGED <<loki_running, fdVars, outVars, loki_q, shellVars, readerVars>>

(* stdout when the post thread stops the logging: left to the reader,      *)
(* which may still have lines to copy.                                     *)
StdoutOnStopMut == old_stdout
StdoutOnStop == stdout

PosterError(s) ==
  /\ PosterAt(s, "post")
  /\ curl_err_count' = IF TooMany THEN 0 ELSE curl_err_count + 1
  /\ loki_running' = IF TooMany THEN FALSE ELSE loki_running
  /\ poster' = [poster EXCEPT ![s] = IF TooMany THEN "say" ELSE "test"]
  /\ stdout' = IF TooMany THEN StdoutOnStop ELSE stdout
  /\ UNCHANGED <<old_stdout, pipe_fd, readable, outVars, loki_q, shellVars, readerVars>>

(* "LOKI LOGGING STOPPED!" goes to stdout, that is, into the pipe: it is   *)
(* what wakes a reader that waits in read().                               *)
WakesMut == UNCHANGED <<outVars>>
Wakes == Say

PosterSay(s) ==
  /\ PosterAt(s, "say")
  /\ Wakes
  /\ poster' = [poster EXCEPT ![s] = "test"]
  /\ UNCHANGED <<loki_running, fdVars, queueVars, shellVars, readerVars>>

-----------------------------------------------------------------------------
ShellNext == PrintLine \/ Hook \/ StartPipe \/ StartDup \/ StartDup2 \/ StartFails \/ StartThreads

ReaderNext(s) ==
  \/ ReaderTest(s) \/ ReaderCall(s) \/ ReaderRead(s) \/ ReaderWrite(s)
  \/ ReaderAdd(s) \/ ReaderSend(s) \/ ReaderClear(s)
  \/ ReaderClose(s) \/ ReaderRestore(s) \/ ReaderRelease(s)

PosterNext(s) ==
  \/ PosterTest(s) \/ PosterReceive(s) \/ PosterOk(s) \/ PosterError(s) \/ PosterSay(s)

Next ==
  \/ ShellNext
  \/ \E s \in Sessions : ReaderNext(s) \/ PosterNext(s)

Spec == Init /\ [][Next]_vars

(* The threads run, read() returns when there is something to read, every  *)
(* HTTP request returns, and the shell finishes a start it has begun.      *)
Fairness ==
  /\ WF_vars(StartDup) /\ WF_vars(StartDup2 \/ StartFails) /\ WF_vars(StartThreads)
  /\ \A s \in Sessions : WF_vars(ReaderNext(s)) /\ WF_vars(PosterNext(s))

FairSpec == Spec /\ Fairness

-----------------------------------------------------------------------------
(* Properties.                                                             *)

ReaderStates == {"none", "test", "call", "read", "write", "add", "send", "clear",
                 "close", "restore", "release", "done"}
PosterStates == {"none", "test", "receive", "post", "say", "done"}

(* Types of all variables.                                                 *)
TypeOK ==
  /\ loki_running \in BOOLEAN
  /\ stdout \in Sessions \cup {Tty} /\ old_stdout \in Sessions \cup {Tty, Closed}
  /\ pipe_fd \in 0 .. MaxStarts /\ readable \subseteq Sessions
  /\ pipe \in [Sessions -> Seq(Nat)] /\ readbuffer \in Seq(Nat)
  /\ loki_q \in 0 .. QueueLength /\ curl_err_count \in 0 .. ErrorLimit
  /\ shell \in {"idle", "pipe", "dup", "running"} /\ starts \in 0 .. MaxStarts
  /\ reader \in [Sessions -> ReaderStates] /\ fd \in [Sessions -> 0 .. MaxStarts]
  /\ poster \in [Sessions -> PosterStates]
  /\ lines \in Nat /\ screen \in Seq(Nat) /\ killed \in BOOLEAN /\ overlap \in BOOLEAN

Elements(seq) == {seq[i] : i \in 1 .. Len(seq)}

(* Lines the reader threads have read and not yet copied.                  *)
Copying == IF \E s \in Sessions : reader[s] = "write" THEN Elements(readbuffer) ELSE {}

(* All variables have their types, and as long as no session was started   *)
(* while the reader of an earlier one was alive, the terminal shows the    *)
(* lines once each and in the order of printing, although they come        *)
(* through the pipe first and directly after the logging stopped; and no   *)
(* line vanishes: one that is not shown is being copied or lies in a pipe. *)
InOrder ==
  /\ TypeOK
  /\ ~overlap =>
       /\ \A i, j \in 1 .. Len(screen) : i < j => screen[i] < screen[j]
       /\ 1 .. lines = Elements(screen) \cup Copying
                         \cup UNION {Elements(pipe[k]) : k \in Sessions}

(* Once a post thread has given up, stdout is put back even if nobody      *)
(* prints anything any more, unless the program is killed, the logging is  *)
(* started again, or sessions overlapped.                                  *)
StopRestoresStdout ==
  (\E s \in Sessions : poster[s] = "done")
     ~> (stdout = Tty \/ killed \/ loki_running \/ overlap)
=============================================================================
