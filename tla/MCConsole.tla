----------------------------- MODULE MCConsole ------------------------------
(***************************************************************************)
(* An instance of Stdbuf, StdbufLog and Loki for TLC: three components     *)
(* that put text on the terminal, and have no state in common.  A          *)
(* behaviour of this module is one of the three.  No fair action is        *)
(* enabled in an initial state, so that the fairness of the components     *)
(* that do not run asks nothing.                                           *)
(***************************************************************************)
EXTENDS Stdbuf

CONSTANTS MaxStarts, MaxLines, QueueLength, ErrorLimit

VARIABLES loki_running, stdout, old_stdout, pipe_fd, readable, pipe, readbuffer, loki_q,
          curl_err_count, shell, starts, reader, fd, poster, lines, screen, killed, overlap

L == INSTANCE Loki

ASSUME LokiAssumption == L!LokiAssumption

lokiVars == <<loki_running, stdout, old_stdout, pipe_fd, readable, pipe, readbuffer, loki_q,
              curl_err_count, shell, starts, reader, fd, poster, lines, screen, killed, overlap>>

-----------------------------------------------------------------------------
CONSTANTS Numbered, Named, MaxText, MaxLogs

VARIABLES disk, log_f, log_name, buffered, reading, session, kept, sent, logs

V2 == INSTANCE StdbufLog

ASSUME StdbufLogAssumption == V2!StdbufLogAssumption

v2Vars == <<disk, log_f, log_name, buffered, reading, session, kept, sent, logs>>

-----------------------------------------------------------------------------
(* One of the initial states of Stdbuf is enough beside the others.        *)
NoMonitor == Init /\ in = 0

MCNext ==
  \/ L!Init /\ V2!Init /\ Next /\ UNCHANGED <<lokiVars, v2Vars>>
  \/ NoMonitor /\ V2!Init /\ L!Next /\ UNCHANGED <<vars, v2Vars>>
  \/ NoMonitor /\ L!Init /\ V2!Next /\ UNCHANGED <<vars, lokiVars>>

MCInit == Init /\ L!Init /\ V2!Init

MCSpec ==
  /\ MCInit /\ [][MCNext]_<<vars, lokiVars, v2Vars>>
  /\ WF_vars(Loop) /\ L!Fairness

(* The property of StdbufLog: no log file loses what reached it, and each  *)
(* session logs to the file it asked for (stdbuf_v2).                      *)
LogsKept == V2!LogsKept

(* The properties of Loki.                                                 *)
(* The terminal shows the lines once each and in the order of printing,    *)
(* and none vanishes (read_pipe, post_thread, loki start).                 *)
InOrder == L!InOrder

(* stdout is put back once a post thread has given up (post_thread).       *)
StopRestoresStdout == L!StopRestoresStdout

(* bound: TLC does not look beyond a start that overlaps an earlier        *)
(* session.  Both properties of Loki hold in all states from there on by   *)
(* their premise, so no counterexample is cut off.                         *)
Sequential == ~overlap
=============================================================================
