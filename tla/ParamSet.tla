------------------------------ MODULE ParamSet ------------------------------
(***************************************************************************)
(* The command `set name[offsets] values` of src/param_slash.c: how its    *)
(* offsets and its values are parsed and paired (param_get_offset_string,  *)
(* param_slash_parse_slice, param_offsets_parse_from_str, hasDuplicates,   *)
(* parse_slash_values, cmd_set).                                           *)
(*                                                                         *)
(* The text between the brackets is a sequence of tokens, << >> when there *)
(* are no brackets.  A token is an index, a slice whose bounds may be left *)
(* out (None), or the empty text of `name[]`.  An argument of the command  *)
(* is its value and whether it opens or closes a list.  The queue holds    *)
(* the entries of one packet: Room of them (PARAM_SERVER_MTU).             *)
(***************************************************************************)
EXTENDS Integers, Sequences, SequencesExt

CONSTANTS
  Sizes,        (* param->array_size                                       *)
  TokenLists,   (* what may stand between the brackets                     *)
  ArgLists(_),  (* the arguments after a name with these tokens            *)
  Room,         (* how many entries param_queue_add can add to the queue   *)
  None          (* a bound that is left out: INT_MIN in the code           *)

Index(i)    == [kind |-> "index", start |-> i, end |-> None]
Slice(s, e) == [kind |-> "slice", start |-> s, end |-> e]
Empty       == [kind |-> "empty", start |-> None, end |-> None]
Arg(v, open, close) == [value |-> v, open |-> open, close |-> close]

Token == [kind : {"index"}, start : Int, end : {None}] \cup {Empty}
             \cup [kind : {"slice"}, start : Int \cup {None}, end : Int \cup {None}]
AnyArg    == [value : Nat, open : BOOLEAN, close : BOOLEAN]

ASSUME ParamSetAssumption ==
  /\ Sizes \subseteq Nat \ {0} /\ None \notin Int
  /\ TokenLists \subseteq Seq(Token)
  /\ \A list \in TokenLists : ArgLists(list) \subseteq Seq(AnyArg) \ {<< >>}
  /\ Room \in Nat

VARIABLES
  pc,            (* "name", "values", "pushed" or "error"                  *)
  array_size, readonly,
  whole,         (* a string or data parameter, which is set as a whole    *)
  tokens, args,
  offset_array,  (* its first expected_value_amount elements               *)
  read,          (* how many elements of offset_array the loop used        *)
  queue          (* the [offset, value] pairs that are pushed              *)

parVars == <<array_size, readonly, whole>>
vars == <<pc, parVars, tokens, args, offset_array, read, queue>>

Init ==
  /\ pc = "name"
  /\ array_size \in Sizes /\ readonly \in BOOLEAN /\ whole \in BOOLEAN
  /\ tokens = << >> /\ args = << >> /\ offset_array = << >>
  /\ read = 0 /\ queue = << >>

-----------------------------------------------------------------------------
(* The offsets.                                                            *)

FromEnd(i, size) == IF i < 0 THEN size + i ELSE i

(* An index is taken as it is (atoi gives 0 for a text that is no number). *)
Position(t, size) == IF t.kind = "empty" THEN 0 ELSE FromEnd(t.start, size)

Start(t, size) == IF t.start = None THEN 0 ELSE FromEnd(t.start, size)
End(t, size)   == IF t.end = None THEN size ELSE FromEnd(t.end, size)

(* A slice must not be empty and must end in the array.                    *)
SliceRefused(t, size) ==
  \/ Start(t, size) < 0 \/ End(t, size) < 0
  \/ Start(t, size) >= End(t, size)
  \/ End(t, size) > size

Expand(t, size) ==
  IF t.kind = "slice"
  THEN [i \in 1 .. End(t, size) - Start(t, size) |-> Start(t, size) + i - 1]
  ELSE <<Position(t, size)>>

(* param_offsets_parse_from_str: token by token, until one is refused or   *)
(* there are more offsets than elements.                                   *)
TakeToken(size, offsets, t) ==
  IF \/ offsets.error
     \/ Len(offsets.list) >= size
     \/ t.kind = "slice" /\ SliceRefused(t, size)
     \/ Len(offsets.list) + Len(Expand(t, size)) > size
  THEN [error |-> TRUE, list |-> << >>]
  ELSE [error |-> FALSE, list |-> offsets.list \o Expand(t, size)]

param_offsets_parse_from_str(size, list) ==
  LET taken[i \in 0 .. Len(list)] ==
        IF i = 0 THEN [error |-> FALSE, list |-> << >>] ELSE TakeToken(size, taken[i - 1], list[i])
  IN  IF list = << >> THEN [error |-> FALSE, list |-> [i \in 1 .. size |-> i - 1]]
      ELSE taken[Len(list)]

(* Are two offsets equal?  (A name ending in Mut is a deliberately wrong   *)
(* variant, here and below.)                                               *)
hasDuplicatesMut(list) == \E i \in 1 .. Len(list) - 1 : list[i] = list[i + 1]
hasDuplicates(list) == \E i, j \in DOMAIN list : i < j /\ list[i] = list[j]

(* cmd_set up to the value: the name, its offsets and the read-only check. *)
ParseName(list, force) ==
  LET offsets == IF whole THEN [error |-> FALSE, list |-> <<-1>>]
                 ELSE param_offsets_parse_from_str(array_size, list)
      refused == \/ offsets.error
                 \/ hasDuplicates(offsets.list)
                 \/ array_size = 1 /\ Len(offsets.list) > 1
                 \/ readonly /\ ~force
  IN  /\ pc = "name"
      /\ tokens' = list
      /\ pc' = IF refused THEN "error" ELSE "values"
      /\ offset_array' = IF refused THEN << >> ELSE offsets.list
      /\ UNCHANGED <<parVars, args, read, queue>>

-----------------------------------------------------------------------------
(* The values.                                                             *)

expected_value_amount == Len(offset_array)

(* parse_slash_values: one value, or one for each offset.                  *)
parse_slash_values(list) == Len(list) \in {1, expected_value_amount}

(* The first argument is neither the start nor the end of a list.          *)
SingleValue(list) == ~list[1].open /\ ~list[1].close

(* Where the loop stops: at the first argument that closes the list, and   *)
(* behind the last one if there is none.                                   *)
StopsAt(list) == SelectInSeq(list, LAMBDA a : a.close)

(* A bracket where only one value is expected is refused as it is met.     *)
OpensIndexed(list) ==
  /\ expected_value_amount = 1
  /\ \E i \in 1 .. Len(list) : list[i].open /\ (StopsAt(list) = 0 \/ i <= StopsAt(list))

ListRefusedMut(list) == OpensIndexed(list) \/ StopsAt(list) = 0
ListRefused(list) ==
  \/ OpensIndexed(list)
  \/ StopsAt(list) = 0
  \/ StopsAt(list) # expected_value_amount
  \/ StopsAt(list) > Room

(* How many elements of offset_array the loop uses for a list, refused or  *)
(* not: it goes on while iterations <= expected_value_amount and the queue *)
(* takes the entry.                                                        *)
Used(list) ==
  Min({IF StopsAt(list) = 0 THEN Len(list) ELSE StopsAt(list),
       expected_value_amount + 1, Room + 1}
      \cup {i - 1 : i \in {j \in DOMAIN list : expected_value_amount = 1 /\ list[j].open}})

(* One value for every offset: what param_queue_add returns is not looked  *)
(* at, so that the entries a full queue does not take are left out.        *)
SetSingle(list) ==
  /\ pc = "values" /\ parse_slash_values(list) /\ SingleValue(list)
  /\ args' = list
  /\ queue' = [i \in 1 .. Min({expected_value_amount, Room}) |->
                 [offset |-> offset_array[i], value |-> list[1].value]]
  /\ read' = expected_value_amount
  /\ pc' = "pushed"
  /\ UNCHANGED <<parVars, tokens, offset_array>>

(* Or a list, whose i-th value goes to the i-th offset.                    *)
SetList(list) ==
  /\ pc = "values" /\ parse_slash_values(list) /\ ~SingleValue(list) /\ ~ListRefused(list)
  /\ args' = list
  /\ read' = Used(list)
  /\ queue' = [i \in 1 .. StopsAt(list) |->
                 [offset |-> IF i \in DOMAIN offset_array THEN offset_array[i] ELSE None,
                  value |-> list[i].value]]
  /\ pc' = "pushed"
  /\ UNCHANGED <<parVars, tokens, offset_array>>

(* Nothing is pushed.                                                      *)
RefuseValues(list) ==
  /\ pc = "values"
  /\ ~parse_slash_values(list) \/ (~SingleValue(list) /\ ListRefused(list))
  /\ args' = list /\ pc' = "error"
  /\ read' = IF parse_slash_values(list) THEN Used(list) ELSE 0
  /\ UNCHANGED <<parVars, tokens, offset_array, queue>>

(* The k-th text is no value of the parameter's type: nothing is pushed,   *)
(* whatever was queued before it.                                          *)
InvalidValue(list, k) ==
  /\ pc = "values" /\ parse_slash_values(list)
  /\ k <= IF SingleValue(list) THEN 1 ELSE Used(list)
  /\ args' = list /\ pc' = "error"
  /\ read' = k - 1
  /\ UNCHANGED <<parVars, tokens, offset_array, queue>>

-----------------------------------------------------------------------------
ParseNext == \E list \in TokenLists, force \in BOOLEAN : ParseName(list, force)

ValuesNext ==
  \/ \E list \in ArgLists(tokens) : SetSingle(list) \/ SetList(list) \/ RefuseValues(list)
  \/ \E list \in ArgLists(tokens) : \E k \in DOMAIN list : InvalidValue(list, k)

Next == (pc = "name" /\ ParseNext) \/ (pc = "values" /\ ValuesNext)

Spec == Init /\ [][Next]_vars

-----------------------------------------------------------------------------
(* Reference definitions, on sets.                                         *)

(* The elements a token names, counted from the front or from the end.     *)
Names(t, size) ==
  CASE t.kind = "index" -> {o \in 0 .. size - 1 : t.start \in {o, o - size}}
    [] t.kind = "slice" ->
         {o \in 0 .. size - 1 :
            /\ t.start = None \/ (t.start >= 0 /\ o >= t.start) \/ (t.start < 0 /\ o - size >= t.start)
            /\ t.end = None \/ (t.end >= 0 /\ o < t.end) \/ (t.end < 0 /\ o - size < t.end)}
    [] OTHER -> {}

(* Does the token name elements of the array only, and at least one?       *)
Sensible(t, size) ==
  /\ Names(t, size) # {}
  /\ t.start # None => t.start \in -size .. size
  /\ t.end # None => t.end \in -size .. size

(* The tokens name something: no empty brackets, and no index beyond the   *)
(* array, which the code does not look for.                                *)
Proper == \A i \in DOMAIN tokens : tokens[i].kind = "slice" \/ Names(tokens[i], array_size) # {}

Elements == IF tokens = << >> THEN 0 .. array_size - 1
            ELSE UNION {Names(tokens[i], array_size) : i \in DOMAIN tokens}

-----------------------------------------------------------------------------
(* Properties.                                                             *)

(* Types of all variables.                                                 *)
TypeOK ==
  /\ pc \in {"name", "values", "pushed", "error"}
  /\ array_size \in Sizes /\ readonly \in BOOLEAN /\ whole \in BOOLEAN
  /\ \A i \in DOMAIN tokens : tokens[i].kind \in {"index", "slice", "empty"}
  /\ \A i \in DOMAIN args : args[i].open \in BOOLEAN /\ args[i].close \in BOOLEAN
  /\ offset_array \in Seq(Int) /\ read \in Nat
  /\ \A i \in DOMAIN queue : queue[i].offset \in Int

(* The offsets taken are exactly the elements the tokens name, each once,  *)
(* whatever mixture of slices, indices and negative bounds is given; and a *)
(* name is refused only for a reason: a token that names nothing or goes   *)
(* beyond the array, two tokens that name the same element, or a read-only *)
(* parameter.                                                              *)
OffsetsAreElements ==
  /\ (pc \in {"values", "pushed"} /\ ~whole /\ Proper) =>
       /\ {offset_array[i] : i \in DOMAIN offset_array} = Elements
       /\ Len(offset_array) = Cardinality(Elements)
  /\ (pc = "error" /\ args = << >>) =>
       \/ readonly
       \/ \E i \in DOMAIN tokens : ~Sensible(tokens[i], array_size)
       \/ \E i, j \in DOMAIN tokens :
            i # j /\ Names(tokens[i], array_size) \cap Names(tokens[j], array_size) # {}

(* All variables have their types; the loop over the values never goes     *)
(* beyond the offsets, although its own check (iterations >                *)
(* expected_value_amount) would let it: parse_slash_values has counted     *)
(* the values before; and what is pushed gives every chosen element one    *)
(* value, in the order of the offsets, as long as one packet has room.     *)
EveryOffsetSet ==
  /\ TypeOK /\ read <= expected_value_amount
  /\ (pc = "pushed" /\ expected_value_amount <= Room) =>
       /\ Len(queue) = Len(offset_array)
       /\ \A i \in DOMAIN queue : queue[i].offset = offset_array[i]

(* Every value that was given reaches an element: a list of values without *)
(* brackets is an invalid command.                                         *)
AllValuesUsed ==
  pc = "pushed" =>
    \A j \in DOMAIN args : \E i \in DOMAIN queue : queue[i].value = args[j].value
=============================================================================
