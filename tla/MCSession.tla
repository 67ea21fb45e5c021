----------------------------- MODULE MCSession ------------------------------
(***************************************************************************)
(* An instance for TLC of the parts of a shell session that have no state  *)
(* in common: ParamSet (`set` works on a queue of its own), ParamQueue,    *)
(* ExpandVars, RequireVersion and Apm.  A behaviour of this module is a    *)
(* behaviour of one of them.                                               *)
(***************************************************************************)
EXTENDS ParamSet

CONSTANTS Params, ReadOnly, HwRegs, Vals, Cells

VARIABLES type, cmd_queue, node, cached, forced, retyped

Q == INSTANCE ParamQueue WITH queue <- cmd_queue

ASSUME ParamQueueAssumption ==
  /\ Params \subseteq Nat /\ IsFiniteSet(Params) /\ ReadOnly \subseteq Params /\ HwRegs \subseteq Params
  /\ 0 \notin Vals /\ Vals \subseteq Nat
  /\ Cells \in Nat

queueVars == <<type, cmd_queue, node, cached, forced, retyped>>

-----------------------------------------------------------------------------
CONSTANTS Inputs, Defined, Step

VARIABLES input, idx, in_var, var_s, res, res_len, expand_pc

X == INSTANCE ExpandVars WITH pc <- expand_pc

ASSUME ExpandAssumption == X!ExpandAssumption

expandVars == <<input, idx, in_var, var_s, res, res_len, expand_pc>>

-----------------------------------------------------------------------------
CONSTANTS Vee, Dot, Plus, Big, Foreign, Wildcard, NoPart, Tags, Operators, Constraints, Actions

VARIABLES tag, ops, parts, action, result

V == INSTANCE RequireVersion

ASSUME VersionAssumption == V!VersionAssumption

versionVars == <<tag, ops, parts, action, result>>

-----------------------------------------------------------------------------
CONSTANTS Dirs, Missing, PathLen, NameLen, Natives, Pythons, Disk0, SysPath, Searches,
          WALKDIR_MAX_ENTRIES, MaxInstalls, MaxListed

VARIABLES disk, apm_queue, libmain, imported, shell, installs, search

A == INSTANCE Apm

ASSUME ApmAssumption == A!ApmAssumption

apmVars == <<disk, apm_queue, libmain, imported, shell, installs, search>>

-----------------------------------------------------------------------------
(* One of the initial states of ParamSet is enough beside the others.      *)
NoSet == pc = "name" /\ array_size = Min(Sizes) /\ ~readonly /\ ~whole

allVars == <<vars, queueVars, expandVars, versionVars, apmVars>>

SetSteps     == Next /\ UNCHANGED <<queueVars, expandVars, versionVars, apmVars>>
QueueSteps   == Q!Next /\ UNCHANGED <<vars, expandVars, versionVars, apmVars>>
ExpandSteps  == X!Next /\ UNCHANGED <<vars, queueVars, versionVars, apmVars>>
VersionSteps == V!Next /\ UNCHANGED <<vars, queueVars, expandVars, apmVars>>
ApmSteps     == A!Next /\ UNCHANGED <<vars, queueVars, expandVars, versionVars>>

MCInit == Init /\ Q!Init /\ X!Init /\ V!Init /\ A!Init

MCNext ==
  \/ Q!Init /\ X!Init /\ V!Init /\ A!Init /\ SetSteps
  \/ NoSet /\ X!Init /\ V!Init /\ A!Init /\ QueueSteps
  \/ NoSet /\ Q!Init /\ V!Init /\ A!Init /\ ExpandSteps
  \/ NoSet /\ Q!Init /\ X!Init /\ A!Init /\ VersionSteps
  \/ NoSet /\ Q!Init /\ X!Init /\ V!Init /\ ApmSteps

MCSpec == MCInit /\ [][MCNext]_allVars

(* The properties of the instances.                                        *)
(* The entries of the active command were all added to a command of its    *)
(* type, whatever was edited, abandoned and begun anew (cmd new, cmd done).*)
Homogeneous == Q!Homogeneous

(* No sequence of cmd add and cmd run changes a read-only parameter that   *)
(* was never added with --force.                                           *)
ReadOnlyKept == Q!ReadOnlyKept

(* csh_expand_vars does what it should, in the buffer it has.              *)
ExpandsAsDocumented == X!ExpandsAsDocumented

(* require version csh decides by the order of versions (compare_version), *)
(* while no part reaches 1000 ...                                          *)
DecidesAsDocumented == V!DecidesAsDocumented

(* ... and for all versions.                                               *)
Hierarchical == V!Hierarchical

(* The list of extension modules stays in order (apm_queue_add).           *)
ListedInOrder == A!ListedInOrder

(* libmain of a library runs once, when it is listed (initialize_apm).     *)
LibmainOnce == A!LibmainOnce

(* Every path given to apm load is searched (build_apm_list).              *)
EveryPathWalked == A!EveryPathWalked

-----------------------------------------------------------------------------
(* ExpandVars: all lines of up to five characters and some longer ones,    *)
(* with a value that is longer than the buffer and one that looks like a   *)
(* reference.                                                              *)
Reference == <<"$", "(", "a", ")">>
AnyInput == UNION {[1 .. n -> {"$", "(", ")", "a"}] : n \in 0 .. 5}
            \cup {<<"$", "(">> \o Reference, Reference \o Reference \o <<"$">>,
                  Reference \o <<"a", "$", "(", "a">>}
Long   == <<"a", "b", "b", "b", "b", "b", "b", "b", "b">>
Values == [name \in {<<"a">>, <<"$", "(", "a">>} |-> IF name = <<"a">> THEN Long ELSE <<"$", "(">>]

(* RequireVersion: all strings of up to three tokens (a run of digits is   *)
(* one token), some longer ones, all operators, and constraints with all   *)
(* mixtures of numbers, wildcards and empty parts.                         *)
Adjacent(str) == \E i \in 1 .. Len(str) - 1 : {str[i], str[i + 1]} \subseteq Nat
AnyTag ==
  {str \in UNION {[1 .. n -> {Vee, Dot, Plus, 2}] : n \in 0 .. 3} : ~Adjacent(str)}
  \cup {<<1, Dot, a>> : a \in {0, 1000, Big, Foreign}}
  \cup {<<Vee, 1, Dot, a, Dot, 3>> : a \in {0, 2, 999, 1000}}
  \cup {<<1, Dot, 2, Dot, 3>> \o end : end \in {<<Plus>>, <<Dot>>, <<Dot, Foreign>>, <<Foreign>>}}
Characters == {"<", ">", "=", "!"}
AnyOperator == {<< >>} \cup {<<c>> : c \in Characters} \cup {<<c, d>> : c, d \in Characters}
AnyConstraint ==
  {<<2>>, <<1000>>, <<NoPart>>, <<Wildcard>>, <<NoPart, 2>>, <<2, Wildcard>>, <<1, 2, 3, 4>>}
  \cup {<<1, b, c>> : b, c \in {0, 2, 999, Wildcard, NoPart}}

(* Apm: three directories, the third with the longest path; at first there *)
(* are a Python module in the first and a library in the second.           *)
Lengths    == [d \in Dirs |-> IF d = 3 THEN 3 ELSE 2]
FirstOnly  == <<1>>
TwoModules == [d \in Dirs |-> [f \in Natives \cup Pythons |->
                 IF <<d, f>> \in {<<1, 2>>, <<2, 3>>} THEN "ok" ELSE "none"]]
Ask(paths, slash, find) == [paths |-> paths, py_paths |-> paths, slash |-> slash, find |-> find]
SomeSearches ==
  {Ask(<<1, 2>>, TRUE, order) : order \in SetToSeqs(Pythons)}
  \cup {Ask(<<2, 3, 1>>, FALSE, order) : order \in SetToSeqs(Natives)}
  \cup {Ask(<<1, 2, 3>>, TRUE, order) : order \in SetToSeqs(Natives \cup Pythons)}

-----------------------------------------------------------------------------
(* ParamSet.                                                               *)
Bounds == {-4, -3, -1, 0, 2, 3, 4}
Slices == {Slice(s, e) : s \in Bounds \cup {None}, e \in Bounds \cup {None}}
Listed(tokens_) == {<< >>} \cup {<<t>> : t \in tokens_} \cup {<<t, u>> : t, u \in tokens_}

(* A few names, for which all ways to write up to three values are tried;  *)
(* all values for the others.                                              *)
FewLists == {<< >>, <<Empty>>, <<Index(1)>>, <<Slice(0, 2)>>, <<Index(0), Slice(2, 3)>>}

(* Empty brackets, indices within and beyond the array, and all slices.    *)
AnyToken == Slices \cup {Index(i) : i \in -3 .. 3} \cup {Empty}
AnyLists == Listed(AnyToken)

Args1 == {Arg(v, o, c) : v \in {1, 2}, o, c \in BOOLEAN}
AnyArgs == UNION {[1 .. n -> Args1] : n \in 1 .. 3}
SomeArgs(list) == IF list \in FewLists THEN AnyArgs ELSE {<<Arg(1, FALSE, FALSE)>>}
=============================================================================
