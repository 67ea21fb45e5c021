------------------------------ MODULE StdbufLog ------------------------------
(***************************************************************************)
(* The stdbuf monitor, version 2: stdbuf_v2 of src/stdbuf_client.c.        *)
(*                                                                         *)
(* One request makes a node send its console text as a stream of packets,  *)
(* which end with one that says so or with a silence; what is lost is not  *)
(* sent again.  The text goes to the terminal and, from the first session  *)
(* with -f on, to a log file that stays open when the session ends: log_f  *)
(* and log_name are static.                                                *)
(*                                                                         *)
(* Files are numbers: 1 .. Numbered are the names made for -f "?stem" on   *)
(* this day, the others are names only the user can give.  A piece of text *)
(* is its number in the order the nodes send it.                           *)
(***************************************************************************)
EXTENDS Integers, Sequences, FiniteSetsExt

CONSTANTS
  Numbered,     (* numbered names, 99 in the code                            *)
  Named,        (* other names                                               *)
  MaxText,      (* bound: packets the nodes send                             *)
  MaxLogs       (* bound: sessions                                           *)

(* What the constants must satisfy; the MC module assumes it.              *)
StdbufLogAssumption ==
  Numbered \in Nat \ {0} /\ Named \in Nat /\ MaxText \in Nat /\ MaxLogs \in Nat

Files      == 1 .. Numbered + Named
NextNumber == 0         (* -f "?stem"                                        *)
NoFile     == -1        (* no -f, and the empty log_name                     *)

VARIABLES
  disk,                 (* the log files: "none" or their text               *)
  log_f, log_name,      (* is a log open, and which                          *)
  buffered,             (* text written to log_f that is not on the disk     *)
  reading,              (* is a session open                                 *)
  session,              (* of the last session: what -f asked for, the text  *)
                        (* sent before it, was there a number to be had      *)
  kept,                 (* history: the text that ever reached a file        *)
  sent, logs            (* packets sent, sessions                            *)

logVars == <<disk, log_f, log_name, buffered, kept>>
vars == <<logVars, reading, session, sent, logs>>

Absent == [exists |-> FALSE, text |-> << >>]

Init ==
  /\ disk = [f \in Files |-> Absent] /\ kept = [f \in Files |-> << >>]
  /\ log_f = FALSE /\ log_name = NoFile /\ buffered = << >>
  /\ reading = FALSE /\ session = [file |-> NoFile, began |-> 0, free |-> TRUE]
  /\ sent = 0 /\ logs = 0

(* What is buffered reaches the disk.                                      *)
Flushed(files) ==
  IF log_f THEN [files EXCEPT ![log_name].text = @ \o buffered] ELSE files
FlushedKept == IF log_f THEN [kept EXCEPT ![log_name] = @ \o buffered] ELSE kept

-----------------------------------------------------------------------------
(* A log that is open is closed when another name is asked for; a name     *)
(* beginning with "?" is always another.                                   *)
Closes(asked) == asked # NoFile /\ asked # log_name

Free == {f \in 1 .. Numbered : ~disk[f].exists}
Target(asked) ==
  IF asked # NextNumber THEN asked ELSE IF Free = {} THEN Numbered ELSE Min(Free)

(* fopen: "w" for a file that does not exist, "a" for one that does.  (A   *)
(* name ending in Mut is a deliberately wrong variant.)                    *)
OpenedMut(file) == [exists |-> TRUE, text |-> << >>]
Opened(file) == [exists |-> TRUE, text |-> file.text]

(* The log is chosen and opened before the connection, which may fail.     *)
stdbuf_v2(asked, connects) ==
  /\ ~reading /\ logs < MaxLogs
  /\ logs' = logs + 1
  /\ session' = [file |-> asked, began |-> sent, free |-> Free # {}]
  /\ reading' = connects
  /\ IF Closes(asked)
     THEN /\ disk' = [Flushed(disk) EXCEPT ![Target(asked)] = Opened(@)]
          /\ kept' = FlushedKept
          /\ log_f' = TRUE /\ log_name' = Target(asked) /\ buffered' = << >>
     ELSE UNCHANGED logVars
  /\ UNCHANGED sent

(* A packet arrives, which may say that it is the last, or it is lost.     *)
Receive(again) ==
  /\ reading /\ sent < MaxText
  /\ sent' = sent + 1
  /\ buffered' = IF log_f THEN Append(buffered, sent + 1) ELSE buffered
  /\ reading' = again
  /\ UNCHANGED <<disk, log_f, log_name, kept, session, logs>>

Lost ==
  /\ reading /\ sent < MaxText
  /\ sent' = sent + 1
  /\ UNCHANGED <<logVars, reading, session, logs>>

(* csp_read waits in vain.                                                 *)
Timeout ==
  /\ reading
  /\ reading' = FALSE
  /\ UNCHANGED <<logVars, session, sent, logs>>

(* The C library writes what it has buffered.                              *)
Flush ==
  /\ buffered # << >>
  /\ disk' = Flushed(disk) /\ kept' = FlushedKept /\ buffered' = << >>
  /\ UNCHANGED <<log_f, log_name, reading, session, sent, logs>>

-----------------------------------------------------------------------------
(* csh ends and is started again: regularly, when everything is flushed,   *)
(* or killed, or because a log cannot be opened and the first line is      *)
(* written to no file.                                                     *)
Restarted ==
  /\ log_f' = FALSE /\ log_name' = NoFile /\ buffered' = << >> /\ reading' = FALSE
  /\ session' = [file |-> NoFile, began |-> sent, free |-> TRUE]
  /\ UNCHANGED <<sent, logs>>

Exit ==
  /\ ~reading
  /\ disk' = Flushed(disk) /\ kept' = FlushedKept
  /\ Restarted

Killed == UNCHANGED <<disk, kept>> /\ Restarted

OpenFails(asked) ==
  /\ ~reading /\ Closes(asked)
  /\ disk' = Flushed(disk) /\ kept' = FlushedKept
  /\ Restarted

-----------------------------------------------------------------------------
Next ==
  \/ \E asked \in Files \cup {NextNumber, NoFile}, connects \in BOOLEAN : stdbuf_v2(asked, connects)
  \/ \E asked \in Files \cup {NextNumber} : OpenFails(asked)
  \/ \E again \in BOOLEAN : Receive(again)
  \/ Lost \/ Timeout \/ Flush \/ Exit \/ Killed

Spec == Init /\ [][Next]_vars

-----------------------------------------------------------------------------
(* Properties.                                                             *)

(* Over any sequence of sessions with and without -f, regular ends,        *)
(* crashes and restarts: a log keeps all text that ever reached it, in     *)
(* order; a session with -f logs to the file it asked for, whatever an     *)
(* earlier one left open; and a numbered log is a new file, as long as     *)
(* there is a number to be had.                                            *)
LogsKept ==
  /\ \A f \in Files : disk[f].text = kept[f]
  /\ \A f \in Files : \A i \in 1 .. Len(kept[f]) - 1 : kept[f][i] < kept[f][i + 1]
  /\ (reading /\ session.file \in Files) => (log_f /\ log_name = session.file)
  /\ (reading /\ session.file = NextNumber /\ session.free) =>
       \A i \in DOMAIN kept[log_name] : kept[log_name][i] > session.began
=============================================================================
