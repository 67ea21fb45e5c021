--------------------------- MODULE RequireVersion ----------------------------
(***************************************************************************)
(* require version csh (src/require_version_cmd.c) with the parser of      *)
(* version strings and their comparison (src/require_version.c).           *)
(*                                                                         *)
(* A version string is a sequence of tokens: a number stands for a run of  *)
(* digits, Dot for a dot or a dash.  A constraint is the comparison        *)
(* characters it begins with, and its parts between dots (or dashes).      *)
(* Left out: constraints with more than two comparison characters, or with *)
(* more digits than the buffer holds.                                      *)
(***************************************************************************)
EXTENDS Integers, Sequences, SequencesExt, FiniteSetsExt

CONSTANTS
  Vee, Dot, Plus,       (* characters of a version string                    *)
  Big,                  (* a number beyond INT32_MAX                         *)
  Foreign,              (* any character without a place in a version        *)
  Wildcard, NoPart      (* parts of a constraint that are not numbers        *)

CONSTANTS
  Tags,         (* version strings csh may have been built with              *)
  Operators,    (* comparison characters a constraint may begin with         *)
  Constraints,  (* the parts of a constraint                                 *)
  Actions       (* error actions: sets of the words that contain what was    *)
                (* typed                                                     *)

Token == Nat \cup {Vee, Dot, Plus, Big, Foreign}

IsNumber(token) == token \notin {Vee, Dot, Plus, Big, Foreign}

(* What the constants must satisfy; the MC module assumes it.  Two numbers *)
(* in a row would be one.                                                  *)
VersionAssumption ==
  /\ {Vee, Dot, Plus, Big, Foreign, Wildcard, NoPart} \cap Nat = {}
  /\ Vee \notin {Dot, Plus, Big, Foreign} /\ Dot \notin {Plus, Big, Foreign}
  /\ Plus \notin {Big, Foreign} /\ Wildcard # NoPart
  /\ \A str \in Tags :
       /\ str \in Seq(Token)
       /\ \A i \in 1 .. Len(str) - 1 : ~(IsNumber(str[i]) /\ IsNumber(str[i + 1]))
  /\ \A chars \in Operators : chars \in Seq({"<", ">", "=", "!"}) /\ Len(chars) <= 2
  /\ Constraints \subseteq Seq(Nat \cup {Wildcard, NoPart})

VARIABLES
  tag, ops, parts, action,   (* version_string and the typed arguments       *)
  result                     (* what the command returns, or "none"          *)

vars == <<tag, ops, parts, action, result>>

NUM_VERSION_PARTS == 3

Init == tag = << >> /\ ops = << >> /\ parts = << >> /\ action = {} /\ result = "none"

-----------------------------------------------------------------------------
(* parse_version, character by character.  `seen` is number_start # NULL;  *)
(* a third dot ends the parse, successfully if a suffix is allowed, as it  *)
(* is here.                                                                *)
SuffixAllowed(acc) == acc.seen

ParseToken(acc, i, str) ==
  IF acc.done THEN acc
  ELSE CASE str[i] = Vee -> IF i > 1 THEN [acc EXCEPT !.done = TRUE, !.ok = FALSE] ELSE acc
         [] str[i] = Dot ->
              IF ~SuffixAllowed(acc) THEN [acc EXCEPT !.done = TRUE, !.ok = FALSE]
              ELSE IF acc.part = NUM_VERSION_PARTS THEN [acc EXCEPT !.done = TRUE]
              ELSE [acc EXCEPT !.part = @ + 1, !.seen = FALSE]
         [] str[i] = Plus ->
              IF i < Len(str) THEN [acc EXCEPT !.done = TRUE, !.ok = FALSE] ELSE acc
         [] IsNumber(str[i]) -> [acc EXCEPT !.seen = TRUE, !.version[acc.part] = str[i]]
         [] OTHER -> [acc EXCEPT !.done = TRUE, !.ok = FALSE]

Unparsed == [ok |-> TRUE, done |-> FALSE, seen |-> FALSE, part |-> 1,
             version |-> [n \in 1 .. NUM_VERSION_PARTS |-> 0]]

parse_version(str) ==
  LET acc[i \in 0 .. Len(str)] == IF i = 0 THEN Unparsed ELSE ParseToken(acc[i - 1], i, str)
  IN  [ok |-> acc[Len(str)].ok /\ acc[Len(str)].seen, version |-> acc[Len(str)].version]

-----------------------------------------------------------------------------
(* The operator: "==" by default; each character replaces one and, unless  *)
(* it is "=", removes what follows it.                                     *)
Replaced(op, i, c) ==
  IF i = 1 THEN <<c, IF c = "=" THEN op[2] ELSE "">> ELSE <<op[1], c>>

OperatorOf(chars) ==
  LET op[i \in 0 .. Len(chars)] ==
        IF i = 0 THEN <<"=", "=">> ELSE Replaced(op[i - 1], i, chars[i])
  IN  op[Len(chars)]

(* sscanf("%d.%d.%d") stops at the first empty part.                       *)
Scanned(ps, i) ==
  IF i <= Len(ps) /\ (\A j \in 1 .. i : ps[j] # NoPart) /\ ps[i] # Wildcard THEN ps[i] ELSE 0

(* The parts before the first wildcard, each with its scale.  (A name      *)
(* ending in Mut is a deliberately wrong variant.)                         *)
ScaleMut(i) == IF i = 1 THEN 1000 ELSE IF i = 2 THEN 1000 ELSE 1
Scale(i) == IF i = 1 THEN 1000000 ELSE IF i = 2 THEN 1000 ELSE 1

Compared(ps) ==
  {i \in 1 .. NUM_VERSION_PARTS : \A j \in 1 .. Len(ps) : j <= i => ps[j] # Wildcard}
Scaled(values, ps) ==
  LET scaled(i) == IF i \in Compared(ps) THEN values[i] * Scale(i) ELSE 0
  IN  scaled(1) + scaled(2) + scaled(3)

Holds(op, a, b) ==
  \/ op = <<"=", "=">> /\ a = b
  \/ op = <<"!", "=">> /\ a # b
  \/ op = <<">", "=">> /\ a >= b
  \/ op = <<"<", "=">> /\ a <= b
  \/ op = <<">", "">> /\ a > b
  \/ op = <<"<", "">> /\ a < b

compare_version(version, chars, ps) ==
  /\ Len(ps) <= NUM_VERSION_PARTS
  /\ LET constraint == [i \in 1 .. NUM_VERSION_PARTS |-> Scanned(ps, i)]
     IN  Holds(OperatorOf(chars), Scaled(version, ps), Scaled(constraint, ps))

-----------------------------------------------------------------------------
(* The error action: the first of the words quit, error and warn that      *)
(* contains what was typed decides what a failure returns.                 *)
ErrorReturn(words) ==
  IF "quit" \in words THEN "exit" ELSE IF "error" \in words THEN "break" ELSE "invalid"

RequireVersionCsh(str, chars, ps, words) ==
  /\ tag' = str /\ ops' = chars /\ parts' = ps /\ action' = words
  /\ result' = IF words = {} THEN "invalid"
               ELSE IF parse_version(str).ok /\ compare_version(parse_version(str).version, chars, ps)
               THEN "success" ELSE ErrorReturn(words)

(* One command, on each of the inputs.                                     *)
Next ==
  /\ result = "none"
  /\ \E str \in Tags, chars \in Operators, ps \in Constraints, words \in Actions :
       RequireVersionCsh(str, chars, ps, words)

Spec == Init /\ [][Next]_vars

-----------------------------------------------------------------------------
(* Properties.  The reference: what a version string is, and the           *)
(* hierarchical order of versions.                                         *)

(* [v] number {. number}, at most three numbers, then an optional "+" or   *)
(* the suffix that begins with a third dot.                                *)
Plain == IF tag # << >> /\ tag[1] = Vee THEN Tail(tag) ELSE tag
NumbersAlternate(seq) ==
  /\ Len(seq) % 2 = 1
  /\ \A i \in DOMAIN seq : IF i % 2 = 1 THEN IsNumber(seq[i]) ELSE seq[i] = Dot
WellFormed ==
  \/ Len(Plain) <= 5 /\ NumbersAlternate(Plain)
  \/ /\ Len(Plain) > 1 /\ Last(Plain) = Plus
     /\ Len(Plain) <= 6 /\ NumbersAlternate(Front(Plain))
  \/ Len(Plain) > 5 /\ NumbersAlternate(SubSeq(Plain, 1, 5)) /\ Plain[6] = Dot

TagParts == [i \in 1 .. NUM_VERSION_PARTS |->
               IF 2 * i - 1 <= Len(Plain) /\ IsNumber(Plain[2 * i - 1]) THEN Plain[2 * i - 1] ELSE 0]

(* How the version compares with the constraint, wildcards aside: less     *)
(* (-1), equal (0) or greater (1) at the first part that differs.          *)
Order ==
  LET differ == {i \in Compared(parts) : TagParts[i] # Scanned(parts, i)}
      first  == CHOOSE i \in differ : \A j \in differ : i <= j
  IN  IF differ = {} THEN 0 ELSE IF TagParts[first] < Scanned(parts, first) THEN -1 ELSE 1

Meant(order) ==
  \/ ops \in {<< >>, <<"=">>, <<"=", "=">>} /\ order = 0
  \/ ops = <<"!", "=">> /\ order # 0
  \/ ops = <<">">> /\ order = 1
  \/ ops = <<"<">> /\ order = -1
  \/ ops = <<">", "=">> /\ order \in {0, 1}
  \/ ops = <<"<", "=">> /\ order \in {-1, 0}

Fulfilled ==
  /\ WellFormed /\ Len(parts) <= NUM_VERSION_PARTS
  /\ Meant(Order)

Small == \A i \in 1 .. NUM_VERSION_PARTS : TagParts[i] < 1000 /\ Scanned(parts, i) < 1000

(* While no part reaches 1000, the command succeeds exactly if the string  *)
(* csh was built with is a version and fulfils the constraint in the       *)
(* hierarchical order, for all operators, also unknown ones, wildcards,    *)
(* missing parts and suffixes.                                             *)
DecidesAsDocumented ==
  (result # "none" /\ action # {} /\ Small) => ((result = "success") <=> Fulfilled)

(* "Create a single summed integer for the version and constraint, which   *)
(* account for their hierarchical nature": the order is hierarchical for   *)
(* all versions, up to the 9999.9999.9999 the buffer is made for.          *)
Hierarchical ==
  (result # "none" /\ action # {} /\ WellFormed) => ((result = "success") <=> Fulfilled)
=============================================================================
