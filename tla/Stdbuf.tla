------------------------------- MODULE Stdbuf -------------------------------
(***************************************************************************)
(* The stdbuf monitor, version 1: stdbuf_get_base, stdbuf_get and          *)
(* stdbuf_v1 of src/stdbuf_client.c.                                       *)
(*                                                                         *)
(* A node writes its console text into a ring in its memory and publishes  *)
(* the parameters stdbuf_in and stdbuf_out.  The monitor pulls both, peeks *)
(* the text between them, prints it and pushes the new stdbuf_out.  The    *)
(* pull, the peek and the push are separate requests over an unreliable    *)
(* network, and none of them is checked but the peek.  When a pull is      *)
(* lost, the monitor goes on with the values the shell had cached.         *)
(*                                                                         *)
(* Characters are numbered in the order the node writes them.              *)
(***************************************************************************)
EXTENDS Integers, Sequences

CONSTANTS
  SIZE,        (* vmem.size: cells of the ring                             *)
  Chunk,       (* most characters of one peek: 200 in the code             *)
  MaxChars,    (* bound: characters the node writes                        *)
  MaxLosses,   (* bound: lost requests and replies                         *)
  MaxSessions  (* bound: times the monitor is started                      *)

PushOutcomes == {"acked", "ack_lost", "lost"}
Cells == 0 .. SIZE - 1

ASSUME StdbufAssumption ==
  /\ SIZE \in Nat \ {0} /\ SIZE <= 65536 /\ Chunk \in Nat \ {0}
  /\ MaxChars \in Nat /\ MaxLosses \in Nat /\ MaxSessions \in Nat

VARIABLES
  ring, in, out,   (* the node: its ring and its two parameters            *)
  written,         (* characters written so far                            *)
  cached_in, cached_out,  (* the shell's values of the two parameters      *)
  pc, got,         (* where the monitor is; characters of the last peek    *)
  printed,         (* what the terminal shows                              *)
  unpulled,        (* history: was a pull left without an answer?          *)
  unacked,         (* history: was a push left without an answer?          *)
  losses, sessions

nodeVars == <<ring, in, written>>
vars == <<nodeVars, out, cached_in, cached_out, pc, got, printed, unpulled, unacked, losses, sessions>>

Init ==
  /\ ring = [c \in Cells |-> 0] /\ written = 0
  /\ in \in Cells /\ out = in
  /\ cached_in = 0 /\ cached_out = 0
  /\ pc = "shell" /\ got = 0 /\ printed = << >>
  /\ unpulled = FALSE /\ unacked = FALSE /\ losses = 0 /\ sessions = 0

Unread == (in - out) % SIZE

(* The node writes a character while there is room.                        *)
Write ==
  /\ written < MaxChars /\ Unread < SIZE - 1
  /\ ring' = [ring EXCEPT ![in] = written + 1]
  /\ in' = (in + 1) % SIZE
  /\ written' = written + 1
  /\ UNCHANGED <<out, cached_in, cached_out, pc, got, printed, unpulled, unacked, losses, sessions>>

(* A request fails only while the bound on losses allows it.               *)
Loses(fails) ==
  /\ fails => losses < MaxLosses
  /\ losses' = IF fails THEN losses + 1 ELSE losses

-----------------------------------------------------------------------------
(* The monitor.                                                            *)

(* stdbuf, up to the loop.  A node whose ring cannot be found ends the     *)
(* command before anything changes.                                        *)
stdbuf_v1 ==
  /\ pc = "shell" /\ sessions < MaxSessions
  /\ sessions' = sessions + 1
  /\ pc' = "pull"
  /\ UNCHANGED <<nodeVars, out, cached_in, cached_out, got, printed, unpulled, unacked, losses>>

param_pull_queue(answered) ==
  /\ pc = "pull"
  /\ IF answered THEN cached_in' = in /\ cached_out' = out
                 ELSE UNCHANGED <<cached_in, cached_out>>
  /\ Loses(~answered)
  /\ pc' = "peek" /\ got' = 0
  /\ unpulled' = (unpulled \/ ~answered)
  /\ UNCHANGED <<nodeVars, out, printed, unacked, sessions>>

(* The end of the text that can be read in one piece, from stdbuf_out.     *)
(* (A name ending in Mut is a deliberately wrong variant.)                 *)
ToNoWrapMut == IF cached_out < cached_in THEN cached_in ELSE cached_out
ToMut == IF cached_out # cached_in THEN SIZE ELSE cached_out
To == IF cached_out < cached_in THEN cached_in
      ELSE IF cached_out > cached_in THEN SIZE
      ELSE cached_out

(* What stdbuf_get asks for.                                               *)
Piece(from, to) == IF to - from > Chunk THEN Chunk ELSE to - from

stdbuf_get(answered) ==
  LET len == Piece(cached_out, To)
  IN  /\ pc = "peek" /\ len > 0
      /\ Loses(~answered)
      /\ IF answered
         THEN /\ got' = len
              /\ printed' = printed \o [i \in 1 .. len |-> ring[cached_out + i - 1]]
         ELSE UNCHANGED <<got, printed>>
      /\ pc' = "push"
      /\ UNCHANGED <<nodeVars, out, cached_in, cached_out, unpulled, unacked, sessions>>

NothingToGet ==
  /\ pc = "peek" /\ To = cached_out
  /\ pc' = "push"
  /\ UNCHANGED <<nodeVars, out, cached_in, cached_out, got, printed, unpulled, unacked, losses, sessions>>

(* out_push, an uint16_t.                                                  *)
OutPushMut == ((cached_out + got + 1) % 65536) % SIZE
OutPush == ((cached_out + got) % 65536) % SIZE

(* The push, and round the loop at once if something was printed.          *)
param_push_single(outcome) ==
  /\ pc = "push"
  /\ Loses(outcome # "acked")
  /\ out' = IF outcome = "lost" THEN out ELSE OutPush
  /\ cached_out' = IF outcome = "acked" THEN OutPush ELSE cached_out
  /\ pc' = IF got > 0 THEN "pull" ELSE "wait"
  /\ unacked' = (unacked \/ outcome # "acked")
  /\ UNCHANGED <<nodeVars, cached_in, got, printed, unpulled, sessions>>

(* slash_wait_interruptible: the delay passes, or the user presses enter.  *)
WaitEnds ==
  /\ pc = "wait" /\ pc' = "pull"
  /\ UNCHANGED <<nodeVars, out, cached_in, cached_out, got, printed, unpulled, unacked, losses, sessions>>

UserQuits ==
  /\ pc = "wait" /\ pc' = "shell"
  /\ UNCHANGED <<nodeVars, out, cached_in, cached_out, got, printed, unpulled, unacked, losses, sessions>>

-----------------------------------------------------------------------------
Loop ==
  \/ \E answered \in BOOLEAN : param_pull_queue(answered)
  \/ \E answered \in BOOLEAN : stdbuf_get(answered)
  \/ NothingToGet
  \/ \E outcome \in PushOutcomes : param_push_single(outcome)
  \/ WaitEnds

Next == Write \/ stdbuf_v1 \/ Loop \/ UserQuits

Spec == Init /\ [][Next]_vars

(* A loop that was started keeps running until the user leaves it;         *)
(* requests are lost finitely often because MaxLosses bounds them.         *)
FairSpec == Spec /\ WF_vars(Loop)

-----------------------------------------------------------------------------
(* Properties.                                                             *)

(* Types of all variables.                                                 *)
TypeOK ==
  /\ ring \in [Cells -> 0 .. MaxChars]
  /\ in \in Cells /\ out \in Cells /\ written \in 0 .. MaxChars
  /\ cached_in \in Cells /\ cached_out \in Cells
  /\ pc \in {"shell", "pull", "peek", "push", "wait"}
  /\ got \in Nat /\ printed \in Seq(0 .. MaxChars)
  /\ unpulled \in BOOLEAN /\ unacked \in BOOLEAN
  /\ losses \in 0 .. MaxLosses /\ sessions \in 0 .. MaxSessions

(* All variables have their types.  And as long as every pull was          *)
(* answered, the ring still holds all the text that is not yet printed     *)
(* when the node moves stdbuf_out, whatever happens to the pushes, and all *)
(* that is no longer in the ring was printed.                              *)
UnreadIntact ==
  /\ TypeOK
  /\ ~unpulled =>
       /\ \A k \in 0 .. Unread - 1 :
            ring[(out + k) % SIZE] = written - Unread + k + 1
       /\ \A c \in 1 .. written - Unread : \E i \in DOMAIN printed : printed[i] = c

(* As long as every pull was answered, the text on the terminal has no     *)
(* gap: what follows a character is the next one, or text shown before.    *)
(* As long as the pushes were answered as well, every character is shown   *)
(* once, however often the monitor is left and started again.              *)
ShownInOrder ==
  /\ ~unpulled => \A i \in DOMAIN printed :
       printed[i] <= (IF i = 1 THEN 0 ELSE printed[i - 1]) + 1 /\ printed[i] > 0
  /\ ~(unpulled \/ unacked) => \A i \in DOMAIN printed : printed[i] = i

(* What the command says it does ("Monitor stdbuf"): while the monitor     *)
(* runs and its pulls are answered, all the node has written reaches the   *)
(* terminal again and again, whatever happens to the peeks and the pushes. *)
AllShown ==
  []<>(pc = "shell" \/ unpulled \/ \A c \in 1 .. written : \E i \in DOMAIN printed : printed[i] = c)
=============================================================================
