---------------------------- MODULE MCSpaceBoot -----------------------------
(* An instance of SpaceBoot for TLC: two slots of 10 bytes at 10 and 20.   *)
EXTENDS SpaceBoot

(* Two binaries for slot 1, one found by its marker and one by its first   *)
(* entry point, and a third that is too long for the slot.                 *)
d == [name |-> "d", bin |-> TRUE, len |-> 9, magic |-> TRUE, strings |-> FALSE,
      stext |-> 29, entry |-> <<20, 0>>]
e == [name |-> "e", bin |-> TRUE, len |-> 5, magic |-> FALSE, strings |-> FALSE,
      stext |-> 0, entry |-> <<0, 21>>]
g == [name |-> "g", bin |-> TRUE, len |-> 10, magic |-> FALSE, strings |-> FALSE,
      stext |-> 0, entry |-> <<25, 0>>]

OnDisk == {d, e, g}
ByName == {NoFile, d}
=============================================================================
