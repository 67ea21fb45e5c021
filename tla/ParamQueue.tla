----------------------------- MODULE ParamQueue -----------------------------
(***************************************************************************)
(* The command queue of the shell: cmd new, cmd add, cmd run and cmd done  *)
(* of src/param_slash.c, which work on the global param_queue.             *)
(*                                                                         *)
(* A queue is a sequence of entries; an entry of a get command takes one   *)
(* cell of its buffer, one of a set command (with its value) two.  What a  *)
(* node does with a queue it receives is external: it applies a set queue  *)
(* entry by entry, and answers a get queue.                                *)
(***************************************************************************)
EXTENDS Integers, Sequences, SequencesExt

CONSTANTS
  Params,      (* remote parameters, in the order of the parameter list    *)
  ReadOnly,    (* those with PM_READONLY                                   *)
  HwRegs,      (* those with PM_HWREG, left out unless -e is given         *)
  Vals,        (* values, 0 being the one the node starts with             *)
  Cells        (* PARAM_SERVER_MTU, in cells                               *)

VARIABLES
  type,      (* param_queue.type: "EMPTY", "GET" or "SET"                  *)
  queue,     (* the entries in param_queue.buffer                          *)
  node,      (* the values on the node                                     *)
  cached,    (* the values the shell shows                                 *)
  forced,    (* history: parameters added with --force                     *)
  retyped    (* history: has a cmd new without a name changed the type of  *)
             (* the entries, and none with a name begun a new queue since? *)

vars == <<type, queue, node, cached, forced, retyped>>

Init ==
  /\ type = "EMPTY" /\ queue = << >>
  /\ node = [p \in Params |-> 0] /\ cached = [p \in Params |-> 0]
  /\ forced = {} /\ retyped = FALSE

(* The space entries take, one cell each and another one for a value, and  *)
(* what param_queue_add accepts.                                           *)
Space(kind) == IF kind = "SET" THEN 2 ELSE 1
used == Len(queue) + Cardinality({i \in DOMAIN queue : queue[i].kind = "SET"})
SpaceLeft(kind) == (Cells - used) \div Space(kind)

-----------------------------------------------------------------------------
(* cmd new: the type is stored before the name is looked for, and without  *)
(* one the command ends there.  (A name ending in Mut is a deliberately    *)
(* wrong variant.)                                                         *)
NewQueueMut == queue
NewQueue == << >>

cmd_new(kind, named) ==
  /\ type' = kind
  /\ queue' = IF named THEN NewQueue ELSE queue
  /\ retyped' = (~named /\ queue # << >>)
  /\ UNCHANGED <<node, cached, forced>>

(* cmd add in a set command: one parameter and its value.                  *)
NeedsForceMut(p) == FALSE
NeedsForce(p) == p \in ReadOnly

CmdAddSet(p, v, force) ==
  /\ type = "SET" /\ (NeedsForce(p) => force)
  /\ queue' = IF SpaceLeft("SET") > 0
              THEN Append(queue, [kind |-> "SET", param |-> p, value |-> v])
              ELSE queue
  /\ forced' = IF force THEN forced \cup {p} ELSE forced
  /\ UNCHANGED <<type, node, cached, retyped>>

(* cmd add in a get command: all parameters a wildcard matches, in order,  *)
(* as long as there is room.                                               *)
FirstOf(wanted, n) ==
  {added \in [1 .. n -> wanted] :
     /\ \A i, j \in 1 .. n : i < j => added[i] < added[j]
     /\ \A p \in wanted : (\E i \in 1 .. n : added[i] = p) \/ (\A i \in 1 .. n : added[i] < p)}

CmdAddGet(matching, emask) ==
  LET wanted == IF emask THEN matching ELSE matching \ HwRegs
      n      == Min({Cardinality(wanted), SpaceLeft("GET")})
  IN  /\ type = "GET"
      /\ \E added \in FirstOf(wanted, n) :
           queue' = queue \o [i \in 1 .. n |-> [kind |-> "GET", param |-> added[i], value |-> 0]]
      /\ UNCHANGED <<type, node, cached, forced, retyped>>

-----------------------------------------------------------------------------
(* cmd run.  The queue is kept, and can be run again.                      *)

(* The entries are applied in their order: the last one of a parameter     *)
(* tells its value.                                                        *)
Applied(values) ==
  [p \in Params |->
     LET sets == {i \in DOMAIN queue : queue[i].kind = "SET" /\ queue[i].param = p}
     IN  IF sets = {} THEN values[p] ELSE queue[Max(sets)].value]

CmdRunSet(outcome) ==
  /\ type = "SET"
  /\ node' = IF outcome = "lost" THEN node ELSE Applied(node)
  /\ cached' = IF outcome = "acked" THEN Applied(cached) ELSE cached
  /\ UNCHANGED <<type, queue, forced, retyped>>

CmdRunGet(answered) ==
  /\ type = "GET"
  /\ cached' = IF answered
               THEN [p \in Params |-> IF \E i \in DOMAIN queue : queue[i].param = p
                                      THEN node[p] ELSE cached[p]]
               ELSE cached
  /\ UNCHANGED <<type, queue, node, forced, retyped>>

(* cmd done.  The entries stay in the buffer.                              *)
cmd_done ==
  /\ type' = "EMPTY"
  /\ UNCHANGED <<queue, node, cached, forced, retyped>>

-----------------------------------------------------------------------------
Next ==
  \/ \E kind \in {"GET", "SET"}, named \in BOOLEAN : cmd_new(kind, named)
  \/ \E p \in Params, v \in Vals, force \in BOOLEAN : CmdAddSet(p, v, force)
  \/ \E matching \in SUBSET Params, emask \in BOOLEAN : CmdAddGet(matching, emask)
  \/ \E outcome \in {"acked", "ack_lost", "lost"} : CmdRunSet(outcome)
  \/ \E answered \in BOOLEAN : CmdRunGet(answered)
  \/ cmd_done

Spec == Init /\ [][Next]_vars

-----------------------------------------------------------------------------
(* Properties.                                                             *)

(* Types of all variables.                                                 *)
TypeOK ==
  /\ type \in {"EMPTY", "GET", "SET"}
  /\ queue \in Seq([kind : {"GET", "SET"}, param : Params, value : Vals \cup {0}])
  /\ used <= Cells
  /\ node \in [Params -> Vals \cup {0}] /\ cached \in [Params -> Vals \cup {0}]
  /\ forced \subseteq Params /\ retyped \in BOOLEAN

(* All variables have their types; and whatever is edited, abandoned with  *)
(* cmd done and begun anew, the entries of the active command were all     *)
(* added to a command of its type, unless a cmd new without a name has     *)
(* changed the type under them.                                            *)
Homogeneous ==
  /\ TypeOK
  /\ (type # "EMPTY" /\ ~retyped) => \A i \in DOMAIN queue : queue[i].kind = type

(* No sequence of edits and repeated runs changes a read-only parameter    *)
(* that was never added with --force.                                      *)
ReadOnlyKept == \A p \in ReadOnly \ forced : node[p] = 0
=============================================================================
