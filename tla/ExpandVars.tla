----------------------------- MODULE ExpandVars ------------------------------
(***************************************************************************)
(* References to variables in a command line: csh_expand_vars with its     *)
(* growing result buffer (src/environment.c), which main installs as the   *)
(* hook that every line passes before it is executed.                      *)
(*                                                                         *)
(* A string is a sequence of "$", "(", ")" and letters.                    *)
(***************************************************************************)
EXTENDS Integers, Sequences, SequencesExt

CONSTANTS
  Inputs,     (* command lines: a set of sequences                           *)
  Defined,    (* a function from the names of the variables to their values  *)
  Step        (* by how much the buffer grows, 16 in the code                *)

(* What the constants must satisfy; the MC module assumes it.              *)
ExpandAssumption ==
  /\ Inputs \subseteq Seq(STRING)
  /\ \A name \in DOMAIN Defined : Defined[name] \in Seq(STRING)
  /\ Step \in Nat \ {0}

VARIABLES
  input, idx,          (* the line, and the position in it, from 0           *)
  in_var, var_s,       (* inside $( , and where the name begins              *)
  res, res_len,        (* what was written, and the capacity of the buffer   *)
  pc                   (* "idle", "scan" or "done"                           *)

vars == <<input, idx, in_var, var_s, res, res_len, pc>>

Init ==
  /\ input = << >> /\ idx = 0 /\ in_var = FALSE /\ var_s = 0
  /\ res = << >> /\ res_len = 0 /\ pc = "idle"

At(i) == input[i + 1]

(* The buffer is a copy of the line, one cell longer for its NUL.  (That   *)
(* memory runs out is left out.)                                           *)
Start(line) ==
  /\ pc = "idle"
  /\ input' = line /\ res_len' = Len(line) /\ pc' = "scan"
  /\ UNCHANGED <<idx, in_var, var_s, res>>

(* csh_copy_char_and_grow for each character of a piece.                   *)
Grown(len, piece) ==
  LET missing == Len(res) + Len(piece) - len
  IN  IF Len(res) + Len(piece) > len
      THEN len + Step * ((missing + Step - 1) \div Step) ELSE len

Write(piece) ==
  /\ res' = res \o piece
  /\ res_len' = Grown(res_len, piece)

(* "$(" begins a reference if anything follows it; the comparison is one   *)
(* of unsigned numbers, true of a line with one character.  (A name ending *)
(* in Mut is a deliberately wrong variant.)                                *)
OpensMut == idx + 1 < Len(input) /\ At(idx) = "$"
Opens == idx + 2 < Len(input) /\ At(idx) = "$" /\ At(idx + 1) = "("

More == pc = "scan" /\ idx < Len(input)

OpenReference ==
  /\ More /\ ~in_var /\ Opens
  /\ in_var' = TRUE /\ var_s' = idx + 2 /\ idx' = idx + 1
  /\ UNCHANGED <<input, res, res_len, pc>>

CopyChar ==
  /\ More /\ ~in_var /\ ~Opens
  /\ Write(<<At(idx)>>)
  /\ idx' = idx + 1
  /\ UNCHANGED <<input, in_var, var_s, pc>>

InName ==
  /\ More /\ in_var /\ At(idx) # ")"
  /\ idx' = idx + 1
  /\ UNCHANGED <<input, in_var, var_s, res, res_len, pc>>

(* A name without a variable is skipped.                                   *)
ValueOf(name) == IF name \in DOMAIN Defined THEN Defined[name] ELSE << >>

CloseReference ==
  /\ More /\ in_var /\ At(idx) = ")"
  /\ Write(ValueOf(SubSeq(input, var_s + 1, idx)))
  /\ in_var' = FALSE /\ var_s' = idx /\ idx' = idx + 1
  /\ UNCHANGED <<input, pc>>

Finish ==
  /\ pc = "scan" /\ idx = Len(input)
  /\ pc' = "done"
  /\ UNCHANGED <<input, idx, in_var, var_s, res, res_len>>

Next ==
  \/ \E line \in Inputs : Start(line)
  \/ OpenReference \/ CopyChar \/ InName \/ CloseReference \/ Finish

Spec == Init /\ [][Next]_vars

-----------------------------------------------------------------------------
(* Properties.                                                             *)

(* The reference, for the last n characters of a line: what stands before  *)
(* the first "$(" that something follows, the value of the name up to the  *)
(* next ")", and the expansion of the rest; a reference that is not closed *)
(* takes the rest of the line with it.                                     *)
Opening(line, n) ==
  {i \in Len(line) - n + 1 .. Len(line) - 2 : line[i] = "$" /\ line[i + 1] = "("}
Closing(line, open) == {i \in open + 2 .. Len(line) : line[i] = ")"}

Expansion(line) ==
  LET last[n \in 0 .. Len(line)] ==
        LET open  == Min(Opening(line, n))
            close == Min(Closing(line, open))
        IN  IF Opening(line, n) = {} THEN SubSeq(line, Len(line) - n + 1, Len(line))
            ELSE SubSeq(line, Len(line) - n + 1, open - 1)
                 \o (IF Closing(line, open) = {} THEN << >>
                     ELSE ValueOf(SubSeq(line, open + 2, close - 1)) \o last[Len(line) - close])
  IN  last[Len(line)]

(* The line that is executed is the expansion of the line that was typed,  *)
(* and the characters written, with the NUL behind them at the end, stay   *)
(* inside the buffer, however long the values are.                         *)
ExpandsAsDocumented ==
  /\ Len(res) <= res_len
  /\ pc = "done" => res = Expansion(input)
=============================================================================
