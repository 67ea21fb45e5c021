---------------------------- MODULE SessionProofs ----------------------------
(* Theorems about the parts of a session that MCSession puts side by side, *)
(* each for every value of its constants: the command queue, `set` and     *)
(* the expansion of variables.                                             *)
EXTENDS MCSession, TLAPS, SequenceTheorems, FiniteSetTheorems, WellFoundedInduction

-----------------------------------------------------------------------------
(* Numbers and sets.                                                       *)

(* A nonempty set of numbers has a smallest one: the intervals up to its   *)
(* numbers have a minimal one.                                             *)
LEMMA LeastOf ==
  ASSUME NEW S, S \subseteq Nat, S # {}
  PROVE  \E x \in S : \A y \in S : x <= y
<1> DEFINE upTo == {0 .. x : x \in S}
<1>1. upTo \subseteq FiniteSubsetsOf(Nat)
  <2> SUFFICES ASSUME NEW x \in S PROVE 0 .. x \in FiniteSubsetsOf(Nat)
    BY Zenon
  <2>1. IsFiniteSet(0 .. x) /\ 0 .. x \subseteq Nat
    BY FS_Interval, SMT
  <2> QED BY <2>1, Zenon DEF FiniteSubsetsOf
<1>2. upTo # {}
  OBVIOUS
<1>3. PICK W \in upTo : \A Z \in upTo : ~ (<<Z, W>> \in StrictSubsetOrdering(Nat))
  <2> HIDE DEF upTo
  <2> QED BY <1>1, <1>2, FS_StrictSubsetOrderingWellFounded, WFMin, Zenon
<1>4. PICK x \in S : W = 0 .. x
  OBVIOUS
<1>5. ASSUME NEW y \in S, ~(x <= y) PROVE FALSE
  <2>1. 0 .. y \in upTo
    OBVIOUS
  <2>2. 0 .. y \subseteq 0 .. x /\ 0 .. y # 0 .. x /\ 0 .. x \subseteq Nat
    <3>1. x \in 0 .. x /\ x \notin 0 .. y
      BY <1>5, SMT
    <3> QED BY <1>5, <3>1, SMT
  <2>3. <<0 .. y, 0 .. x>> \in StrictSubsetOrdering(Nat)
    BY <2>2, Zenon DEF StrictSubsetOrdering
  <2> QED BY <1>3, <1>4, <2>1, <2>3, Zenon
<1> QED BY <1>5

(* Induction up to a number: a set that holds 0 and the successor of each  *)
(* of its numbers below n holds all up to n, for the smallest it lacks     *)
(* would have a predecessor.                                               *)
LEMMA UpTo ==
  ASSUME NEW n \in Nat, NEW T, 0 \in T, \A i \in 0 .. n - 1 : i \in T => i + 1 \in T
  PROVE  \A i \in 0 .. n : i \in T
<1> SUFFICES ASSUME NEW m \in 0 .. n, m \notin T PROVE FALSE
  OBVIOUS
<1> DEFINE lacks == {y \in 0 .. n : y \notin T}
<1>1. PICK x \in lacks : \A y \in lacks : x <= y
  <2>1. lacks \subseteq Nat /\ lacks # {}
    OBVIOUS
  <2> HIDE DEF lacks
  <2> QED BY <2>1, LeastOf, Zenon
<1>2. x # 0 /\ x - 1 \in 0 .. n - 1 /\ (x - 1) + 1 = x
  BY <1>1
<1>3. x - 1 \in lacks
  BY <1>2
<1> QED BY <1>1, <1>2, <1>3

(* A nonempty set of numbers up to n has a largest one.                    *)
LEMMA LargestOf ==
  ASSUME NEW n \in Nat, NEW S, S \subseteq 1 .. n, S # {}
  PROVE  \E x \in S : \A y \in S : x >= y
<1> DEFINE mirror == {m \in 0 .. n : n - m \in S}
<1>1. \A y \in S : n - y \in mirror
  <2> SUFFICES ASSUME NEW y \in S PROVE n - y \in mirror
    OBVIOUS
  <2>1. y \in 1 .. n /\ n - y \in 0 .. n /\ n - (n - y) = y
    OBVIOUS
  <2> QED BY <2>1
<1>2. PICK m \in mirror : \A k \in mirror : m <= k
  <2>1. mirror # {}
    BY <1>1, Zenon
  <2>2. mirror \subseteq Nat
    OBVIOUS
  <2> HIDE DEF mirror
  <2> QED BY <2>1, <2>2, LeastOf, Zenon
<1>3. n - m \in S /\ m \in 0 .. n
  OBVIOUS
<1> HIDE DEF mirror
<1>4. ASSUME NEW y \in S PROVE n - m >= y
  <2>1. m <= n - y /\ y \in 1 .. n
    BY <1>1, <1>2
  <2> QED BY <1>3, <2>1
<1> QED BY <1>3, <1>4

(* A function follows steps, given as functions, from a start to the n-th. *)
Follows(f, S, a, n, steps) ==
  f \in [0 .. n -> S] /\ f[0] = a /\ \A i \in 1 .. n : f[i] = steps[i][f[i - 1]]

(* There is one: this is how the functions that the modules define by      *)
(* recursion on a number exist.                                            *)
LEMMA Iterates ==
  ASSUME NEW S, NEW a \in S, NEW n \in Nat, NEW steps \in [1 .. n -> [S -> S]]
  PROVE  \E f : Follows(f, S, a, n, steps)
<1> DEFINE T == {m \in 0 .. n : \E f : Follows(f, S, a, m, steps)}
<1>1. 0 \in T
  <2> DEFINE f == [i \in 0 .. 0 |-> a]
  <2>1. f \in [0 .. 0 -> S] /\ f[0] = a
    OBVIOUS
  <2> HIDE DEF f
  <2>2. Follows(f, S, a, 0, steps)
    BY <2>1 DEF Follows
  <2> QED BY <2>2
<1>2. ASSUME NEW m \in 0 .. n - 1, m \in T PROVE m + 1 \in T
  <2>1. PICK f : /\ f \in [0 .. m -> S] /\ f[0] = a
                 /\ \A i \in 1 .. m : f[i] = steps[i][f[i - 1]]
    BY <1>2 DEF Follows
  <2> DEFINE last == steps[m + 1][f[m]]
             h    == [i \in 0 .. m + 1 |-> IF i = m + 1 THEN last ELSE f[i]]
  <2>2. m + 1 \in 1 .. n /\ f[m] \in S
    BY <2>1
  <2>3. last \in S
    BY <2>2
  <2>4. h \in [0 .. m + 1 -> S] /\ h[m + 1] = last /\ \A i \in 0 .. m : h[i] = f[i]
    BY <2>1, <2>3
  <2> HIDE DEF h
  <2>5. ASSUME NEW i \in 1 .. m + 1 PROVE h[i] = steps[i][h[i - 1]]
    <3>1. i - 1 \in 0 .. m /\ h[i - 1] = f[i - 1]
      BY <2>4
    <3>2. CASE i = m + 1
      <4>1. i - 1 = m
        BY <3>2
      <4> QED BY <2>4, <3>1, <3>2, <4>1, Zenon
    <3>3. CASE i # m + 1
      <4>1. i \in 1 .. m /\ i \in 0 .. m
        BY <3>3
      <4> QED BY <2>1, <2>4, <3>1, <4>1, Zenon
    <3> QED BY <3>2, <3>3
  <2>6. h[0] = a
    BY <2>1, <2>4
  <2>7. m + 1 \in 0 .. n
    OBVIOUS
  <2>8. Follows(h, S, a, m + 1, steps)
    BY <2>4, <2>5, <2>6, Zenon DEF Follows
  <2> QED BY <2>7, <2>8, Zenon
<1>3. n \in T
  <2> HIDE DEF T
  <2>1. \A m \in 0 .. n - 1 : m \in T => m + 1 \in T
    BY <1>2
  <2>2. \A m \in 0 .. n : m \in T
    BY <1>1, <2>1, UpTo, Zenon
  <2> QED BY <2>2
<1> QED BY <1>3

-----------------------------------------------------------------------------
(* The command queue.                                                      *)

Entry == [kind : {"GET", "SET"}, param : Params, value : Vals \cup {0}]

(* The entries of set commands in a queue.                                 *)
SetEntries(q) == {i \in DOMAIN q : q[i].kind = "SET"}

(* Counting is the same in the instance.                                   *)
LEMMA SameCardinality == \A S : Q!Cardinality(S) = Cardinality(S)
BY Zenon DEF Q!Cardinality, Cardinality

(* The space a queue takes.                                                *)
UsedOf(q) == Len(q) + Cardinality(SetEntries(q))

(* A read-only parameter is in an entry of a set command only by force.    *)
QueueInv ==
  /\ Homogeneous /\ ReadOnlyKept
  /\ \A i \in DOMAIN cmd_queue : cmd_queue[i].kind = "SET" /\ cmd_queue[i].param \in ReadOnly
                                   => cmd_queue[i].param \in forced

(* The space a queue takes is a number.                                    *)
LEMMA UsedIs ==
  ASSUME NEW q \in Seq(Entry)
  PROVE  /\ IsFiniteSet(SetEntries(q)) /\ Cardinality(SetEntries(q)) \in Nat
         /\ Len(q) \in Nat /\ DOMAIN q = 1 .. Len(q)
<1>1. Len(q) \in Nat /\ DOMAIN q = 1 .. Len(q)
  BY LenProperties
<1>2. IsFiniteSet(1 .. Len(q)) /\ SetEntries(q) \subseteq 1 .. Len(q)
  BY <1>1, FS_Interval DEF SetEntries
<1>3. IsFiniteSet(SetEntries(q))
  BY <1>2, FS_Subset, Zenon
<1> QED BY <1>1, <1>3, FS_CardinalityType

(* Entries behind a queue: if none is of a set command, only its length    *)
(* grows.                                                                  *)
LEMMA GetsAppended ==
  ASSUME NEW q \in Seq(Entry), NEW more \in Seq(Entry), \A i \in DOMAIN more : more[i].kind = "GET"
  PROVE  /\ q \o more \in Seq(Entry) /\ Len(q \o more) = Len(q) + Len(more)
         /\ SetEntries(q \o more) = SetEntries(q)
         /\ \A i \in DOMAIN (q \o more) : \/ i \in DOMAIN q /\ (q \o more)[i] = q[i]
                                          \/ (q \o more)[i].kind = "GET"
<1>1. PICK t : t = q \o more
  OBVIOUS
<1>2. PICK n \in Nat, m \in Nat : /\ n = Len(q) /\ m = Len(more)
                                  /\ DOMAIN q = 1 .. n /\ DOMAIN more = 1 .. m
  BY LenProperties
<1>3. /\ t \in Seq(Entry) /\ Len(t) = n + m
      /\ \A i \in 1 .. n + m : t[i] = IF i <= n THEN q[i] ELSE more[i - n]
  BY <1>1, <1>2, ConcatProperties
<1>4. DOMAIN t = 1 .. n + m
  BY <1>3, LenProperties
<1>5. ASSUME NEW i \in 1 .. n + m
      PROVE  \/ i \in 1 .. n /\ t[i] = q[i]
             \/ i \notin 1 .. n /\ t[i].kind = "GET"
  <2>1. CASE i <= n
    BY <1>3, <2>1
  <2>2. CASE ~(i <= n)
    <3>1. i - n \in DOMAIN more /\ t[i] = more[i - n]
      BY <1>2, <1>3, <2>2
    <3> QED BY <2>2, <3>1
  <2> QED BY <2>1, <2>2
<1>6. SetEntries(t) = SetEntries(q)
  <2>1. \A i \in 1 .. n : i \in 1 .. n + m /\ t[i] = q[i]
    BY <1>3
  <2> QED BY <1>2, <1>4, <1>5, <2>1 DEF SetEntries
<1> QED BY <1>1, <1>2, <1>3, <1>4, <1>5, <1>6, Zenon

(* One entry of a set command behind a queue.                              *)
LEMMA SetAppended ==
  ASSUME NEW q \in Seq(Entry), NEW e \in Entry, e.kind = "SET"
  PROVE  /\ Append(q, e) \in Seq(Entry) /\ Len(Append(q, e)) = Len(q) + 1
         /\ Cardinality(SetEntries(Append(q, e))) = Cardinality(SetEntries(q)) + 1
         /\ \A i \in DOMAIN Append(q, e) : \/ i \in DOMAIN q /\ Append(q, e)[i] = q[i]
                                           \/ Append(q, e)[i] = e
<1>1. PICK t : t = Append(q, e)
  OBVIOUS
<1>2. PICK n \in Nat : n = Len(q) /\ DOMAIN q = 1 .. n
  BY LenProperties
<1>3. /\ t \in Seq(Entry) /\ Len(t) = n + 1 /\ DOMAIN t = 1 .. n + 1
      /\ \A i \in 1 .. n : t[i] = q[i]
      /\ t[n + 1] = e
  BY <1>1, <1>2, AppendProperties, LenProperties
<1>4. SetEntries(t) = SetEntries(q) \cup {n + 1} /\ n + 1 \notin SetEntries(q)
  BY <1>2, <1>3 DEF SetEntries
<1>5. Cardinality(SetEntries(t)) = Cardinality(SetEntries(q)) + 1
  BY <1>4, UsedIs, FS_AddElement
<1>6. \A i \in 1 .. n + 1 : (i \in 1 .. n /\ t[i] = q[i]) \/ t[i] = e
  BY <1>3
<1> QED BY <1>1, <1>2, <1>3, <1>5, <1>6, Zenon

(* Applying a queue leaves the values typed, and changes only parameters   *)
(* of set commands.                                                        *)
LEMMA AppliedIs ==
  ASSUME NEW values \in [Params -> Vals \cup {0}], cmd_queue \in Seq(Entry)
  PROVE  /\ Q!Applied(values) \in [Params -> Vals \cup {0}]
         /\ \A p \in Params : (\A i \in SetEntries(cmd_queue) : cmd_queue[i].param # p)
                                => Q!Applied(values)[p] = values[p]
<1> DEFINE sets(p) == {i \in DOMAIN cmd_queue : cmd_queue[i].kind = "SET" /\ cmd_queue[i].param = p}
<1>1. Q!Applied(values) = [p \in Params |-> IF sets(p) = {} THEN values[p]
                                            ELSE cmd_queue[Q!Max(sets(p))].value]
  BY Zenon DEF Q!Applied
<1>2. PICK n \in Nat : n = Len(cmd_queue) /\ DOMAIN cmd_queue = 1 .. n
  BY LenProperties
<1>3. ASSUME NEW p \in Params, sets(p) # {} PROVE cmd_queue[Q!Max(sets(p))].value \in Vals \cup {0}
  <2>1. sets(p) \subseteq 1 .. n
    BY <1>2
  <2> HIDE DEF sets
  <2>2. \E x \in sets(p) : \A y \in sets(p) : x >= y
    BY <1>3, <2>1, LargestOf, Zenon
  <2>3. Q!Max(sets(p)) \in sets(p)
    BY <2>2, Zenon DEF Q!Max
  <2>4. cmd_queue[Q!Max(sets(p))] \in Entry
    BY <1>2, <2>1, <2>3, ElementOfSeq
  <2> QED BY <2>4 DEF Entry
<1>4. ASSUME NEW p \in Params, \A i \in SetEntries(cmd_queue) : cmd_queue[i].param # p
      PROVE  sets(p) = {}
  BY <1>4 DEF SetEntries
<1> HIDE DEF sets
<1> QED BY <1>1, <1>3, <1>4

(* cmd new, add, run and done keep the queue of one type, in its buffer,   *)
(* and the read-only parameters out of it.                                 *)
LEMMA QueueStep == QueueInv /\ [Q!Next]_(Q!vars) => QueueInv'
<1> SUFFICES ASSUME QueueInv, [Q!Next]_(Q!vars) PROVE QueueInv'
  OBVIOUS
<1>a. Q!used = UsedOf(cmd_queue) /\ Q!used' = UsedOf(cmd_queue')
  BY SameCardinality, Zenon DEF Q!used, UsedOf, SetEntries
<1>0. /\ cmd_queue \in Seq(Entry) /\ type \in {"EMPTY", "GET", "SET"}
      /\ UsedOf(cmd_queue) <= Cells
      /\ node \in [Params -> Vals \cup {0}] /\ cached \in [Params -> Vals \cup {0}]
      /\ forced \subseteq Params /\ retyped \in BOOLEAN
      /\ type # "EMPTY" /\ ~retyped => \A i \in DOMAIN cmd_queue : cmd_queue[i].kind = type
      /\ \A p \in ReadOnly \ forced : node[p] = 0
      /\ \A i \in DOMAIN cmd_queue : cmd_queue[i].kind = "SET" /\ cmd_queue[i].param \in ReadOnly
                                       => cmd_queue[i].param \in forced
  BY <1>a, Zenon DEF QueueInv, Homogeneous, Q!Homogeneous, Q!TypeOK, ReadOnlyKept, Q!ReadOnlyKept, Entry
<1>1. /\ Cells \in Nat /\ ReadOnly \subseteq Params /\ Params \subseteq Nat /\ IsFiniteSet(Params)
  BY ParamQueueAssumption
<1> DEFINE Typed(q, t, r, f) ==
             /\ q \in Seq(Entry) /\ UsedOf(q) <= Cells
             /\ t # "EMPTY" /\ ~r => \A i \in DOMAIN q : q[i].kind = t
             /\ \A i \in DOMAIN q : q[i].kind = "SET" /\ q[i].param \in ReadOnly => q[i].param \in f
<1>2. ASSUME Typed(cmd_queue', type', retyped', forced'), type' \in {"EMPTY", "GET", "SET"},
             node' \in [Params -> Vals \cup {0}], cached' \in [Params -> Vals \cup {0}],
             forced' \subseteq Params, retyped' \in BOOLEAN,
             \A p \in ReadOnly \ forced' : node'[p] = 0
      PROVE  QueueInv'
  BY <1>2, <1>a, Zenon DEF QueueInv, Homogeneous, Q!Homogeneous, Q!TypeOK, ReadOnlyKept,
     Q!ReadOnlyKept, Entry
<1>3. Typed(cmd_queue, type, retyped, forced)
  BY <1>0
<1>4. PICK empty : empty = << >>
  OBVIOUS
<1>5. \A t, r, f : Typed(empty, t, r, f)
  <2>1. empty \in Seq(Entry) /\ Len(empty) = 0 /\ DOMAIN empty = {}
    BY <1>4, EmptySeq
  <2>2. SetEntries(empty) = {}
    BY <2>1 DEF SetEntries
  <2>3. UsedOf(empty) <= Cells
    BY <1>1, <2>1, <2>2, FS_EmptySet DEF UsedOf
  <2> QED BY <2>1, <2>3
<1> HIDE DEF Typed
<1>6. ASSUME NEW kind \in {"GET", "SET"}, NEW named \in BOOLEAN, Q!cmd_new(kind, named)
      PROVE  QueueInv'
  <2>1. /\ type' = kind /\ UNCHANGED <<node, cached, forced>>
        /\ cmd_queue' = IF named THEN empty ELSE cmd_queue
        /\ retyped' = (~named /\ cmd_queue # << >>)
    BY <1>4, <1>6 DEF Q!cmd_new, Q!NewQueue
  <2>2. Typed(cmd_queue', type', retyped', forced')
    <3>1. CASE cmd_queue' = empty
      BY <1>5, <3>1
    <3>2. CASE ~named /\ cmd_queue # << >>
      BY <1>0, <2>1, <3>2 DEF Typed
    <3>3. CASE ~named /\ cmd_queue = << >>
      BY <1>4, <1>5, <2>1, <3>3
    <3> QED BY <2>1, <3>1, <3>2, <3>3
  <2> QED BY <1>0, <1>2, <2>1, <2>2
<1>7. ASSUME NEW p \in Params, NEW v \in Vals, NEW force \in BOOLEAN, Q!CmdAddSet(p, v, force)
      PROVE  QueueInv'
  <2> DEFINE e == [kind |-> "SET", param |-> p, value |-> v]
  <2>1. /\ type = "SET" /\ (p \in ReadOnly => force)
        /\ cmd_queue' = IF Q!SpaceLeft("SET") > 0 THEN Append(cmd_queue, e) ELSE cmd_queue
        /\ forced' = IF force THEN forced \cup {p} ELSE forced
        /\ UNCHANGED <<type, node, cached, retyped>>
    BY <1>7 DEF Q!CmdAddSet, Q!NeedsForce
  <2>2. e \in Entry /\ e.kind = "SET" /\ e.param = p
    BY DEF Entry
  <2> HIDE DEF e
  <2>3. forced \subseteq forced' /\ forced' \subseteq Params /\ (p \in ReadOnly => p \in forced')
    BY <1>0, <2>1
  <2>4. Typed(cmd_queue', type', retyped', forced')
    <3>1. CASE cmd_queue' = cmd_queue
      BY <1>3, <2>1, <2>3, <3>1 DEF Typed
    <3>2. CASE Q!SpaceLeft("SET") > 0
      <4>1. PICK u \in Nat : /\ u = Len(cmd_queue) + Cardinality(SetEntries(cmd_queue))
                             /\ Len(cmd_queue) \in Nat /\ Cardinality(SetEntries(cmd_queue)) \in Nat
        BY <1>0, UsedIs
      <4>2. Q!SpaceLeft("SET") = (Cells - u) \div 2
        BY <1>a, <4>1 DEF Q!SpaceLeft, Q!Space, UsedOf
      <4>3. u + 2 <= Cells
        BY <1>1, <3>2, <4>2
      <4>4. PICK q : q = cmd_queue' /\ q = Append(cmd_queue, e)
        BY <2>1, <3>2
      <4>5. /\ q \in Seq(Entry) /\ Len(q) = Len(cmd_queue) + 1
            /\ Cardinality(SetEntries(q)) = Cardinality(SetEntries(cmd_queue)) + 1
            /\ \A i \in DOMAIN q : (i \in DOMAIN cmd_queue /\ q[i] = cmd_queue[i]) \/ q[i] = e
        BY <1>0, <2>2, <4>4, SetAppended
      <4>6. UsedOf(q) <= Cells
        BY <1>1, <4>1, <4>3, <4>5 DEF UsedOf
      <4>7. type' # "EMPTY" /\ ~retyped' => \A i \in DOMAIN q : q[i].kind = type'
        BY <1>0, <2>1, <2>2, <4>5
      <4>8. \A i \in DOMAIN q : q[i].kind = "SET" /\ q[i].param \in ReadOnly => q[i].param \in forced'
        BY <1>0, <2>2, <2>3, <4>5
      <4> QED BY <4>4, <4>5, <4>6, <4>7, <4>8 DEF Typed
    <3> QED BY <2>1, <3>1, <3>2
  <2> QED BY <1>0, <1>2, <2>1, <2>3, <2>4
<1>8. ASSUME NEW matching \in SUBSET Params, NEW emask \in BOOLEAN, Q!CmdAddGet(matching, emask)
      PROVE  QueueInv'
  <2> DEFINE wanted == IF emask THEN matching ELSE matching \ HwRegs
             n == Q!Min({Cardinality(wanted), Q!SpaceLeft("GET")})
  <2>1. PICK added \in Q!FirstOf(wanted, n) :
          cmd_queue' = cmd_queue \o [i \in 1 .. n |-> [kind |-> "GET", param |-> added[i], value |-> 0]]
    BY <1>8, SameCardinality, Zenon DEF Q!CmdAddGet
  <2>2. type = "GET" /\ UNCHANGED <<type, node, cached, forced, retyped>>
    BY <1>8 DEF Q!CmdAddGet
  <2>3. PICK u \in Nat : /\ u = Len(cmd_queue) + Cardinality(SetEntries(cmd_queue)) /\ u <= Cells
                         /\ Len(cmd_queue) \in Nat /\ Cardinality(SetEntries(cmd_queue)) \in Nat
    BY <1>0, UsedIs DEF UsedOf
  <2>4. Q!SpaceLeft("GET") = Cells - u
    <3>1. Q!SpaceLeft("GET") = (Cells - u) \div 1
      BY <1>a, <2>3 DEF Q!SpaceLeft, Q!Space, UsedOf
    <3> QED BY <1>1, <2>3, <3>1
  <2>5. n \in Nat /\ n <= Cells - u
    <3>1. wanted \subseteq Params
      OBVIOUS
    <3> HIDE DEF wanted
    <3>2. Cardinality(wanted) \in Nat
      BY <1>1, <3>1, FS_Subset, FS_CardinalityType
    <3>3. PICK a \in Nat, b \in Nat : a = Cardinality(wanted) /\ b = Q!SpaceLeft("GET") /\ b = Cells - u
      BY <1>1, <2>3, <2>4, <3>2
    <3>4. n = Q!Min({a, b})
      BY <3>3
    <3> HIDE DEF n
    <3>5. \E x \in {a, b} : \A y \in {a, b} : x <= y
      BY SMT
    <3>6. n \in {a, b} /\ \A y \in {a, b} : n <= y
      BY <3>4, <3>5, Zenon DEF Q!Min
    <3> QED BY <3>3, <3>6
  <2>6. wanted \subseteq Params
    OBVIOUS
  <2> HIDE DEF wanted, n
  <2>7. added \in [1 .. n -> wanted]
    BY DEF Q!FirstOf
  <2> DEFINE more == [i \in 1 .. n |-> [kind |-> "GET", param |-> added[i], value |-> 0]]
  <2>8. more \in Seq(Entry) /\ Len(more) = n /\ \A i \in DOMAIN more : more[i].kind = "GET"
    <3>1. \A i \in 1 .. n : [kind |-> "GET", param |-> added[i], value |-> 0] \in Entry
      BY <2>6, <2>7 DEF Entry
    <3>2. \A i \in 1 .. n : more[i] \in Entry /\ more[i].kind = "GET"
      BY <3>1
    <3> QED BY <2>5, <3>1, <3>2
  <2>9. cmd_queue' = cmd_queue \o more
    BY <2>1
  <2> HIDE DEF more
  <2>10. PICK q : q = cmd_queue' /\ q = cmd_queue \o more
    BY <2>9
  <2>11. /\ q \in Seq(Entry) /\ Len(q) = Len(cmd_queue) + n /\ SetEntries(q) = SetEntries(cmd_queue)
         /\ \A i \in DOMAIN q : (i \in DOMAIN cmd_queue /\ q[i] = cmd_queue[i]) \/ q[i].kind = "GET"
    <3>1. cmd_queue \in Seq(Entry) /\ more \in Seq(Entry) /\ \A i \in DOMAIN more : more[i].kind = "GET"
      BY <1>0, <2>8
    <3>2. /\ cmd_queue \o more \in Seq(Entry) /\ Len(cmd_queue \o more) = Len(cmd_queue) + Len(more)
          /\ SetEntries(cmd_queue \o more) = SetEntries(cmd_queue)
          /\ \A i \in DOMAIN (cmd_queue \o more) :
               \/ i \in DOMAIN cmd_queue /\ (cmd_queue \o more)[i] = cmd_queue[i]
               \/ (cmd_queue \o more)[i].kind = "GET"
      BY <3>1, GetsAppended, Zenon
    <3>3. Len(more) = n
      BY <2>8
    <3> QED BY <2>10, <3>2, <3>3, Zenon
  <2>12. UsedOf(q) <= Cells
    BY <1>1, <2>3, <2>5, <2>11 DEF UsedOf
  <2>13. type' # "EMPTY" /\ ~retyped' => \A i \in DOMAIN q : q[i].kind = type'
    BY <1>0, <2>2, <2>11
  <2>14. \A i \in DOMAIN q : q[i].kind = "SET" /\ q[i].param \in ReadOnly => q[i].param \in forced'
    <3>1. "GET" # "SET"
      OBVIOUS
    <3> SUFFICES ASSUME NEW i \in DOMAIN q, q[i].kind = "SET", q[i].param \in ReadOnly
                 PROVE  q[i].param \in forced'
      OBVIOUS
    <3>2. i \in DOMAIN cmd_queue /\ q[i] = cmd_queue[i]
      BY <2>11, <3>1
    <3> QED BY <1>0, <2>2, <3>2
  <2>15. Typed(cmd_queue', type', retyped', forced')
    BY <2>10, <2>11, <2>12, <2>13, <2>14 DEF Typed
  <2> QED BY <1>0, <1>2, <2>2, <2>15
<1>9. ASSUME NEW outcome, Q!CmdRunSet(outcome) PROVE QueueInv'
  <2>1. /\ UNCHANGED <<type, cmd_queue, forced, retyped>>
        /\ node' \in {node, Q!Applied(node)} /\ cached' \in {cached, Q!Applied(cached)}
    BY <1>9 DEF Q!CmdRunSet
  <2>2. node' \in [Params -> Vals \cup {0}] /\ cached' \in [Params -> Vals \cup {0}]
    BY <1>0, <2>1, AppliedIs
  <2>3. ASSUME NEW p \in ReadOnly \ forced PROVE node'[p] = 0
    <3>1. \A i \in SetEntries(cmd_queue) : cmd_queue[i].param # p
      BY <1>0, <2>3, Zenon DEF SetEntries
    <3>2. p \in Params
      BY <1>1
    <3>3. Q!Applied(node)[p] = node[p]
      BY <1>0, <3>1, <3>2, AppliedIs
    <3> QED BY <1>0, <2>1, <3>3
  <2>4. Typed(cmd_queue', type', retyped', forced')
    BY <1>3, <2>1
  <2> QED BY <1>0, <1>2, <2>1, <2>2, <2>3, <2>4
<1>10. ASSUME NEW answered, Q!CmdRunGet(answered) PROVE QueueInv'
  <2>1. UNCHANGED <<type, cmd_queue, node, forced, retyped>>
    BY <1>10 DEF Q!CmdRunGet
  <2>2. cached' \in [Params -> Vals \cup {0}]
    BY <1>0, <1>10 DEF Q!CmdRunGet
  <2>3. Typed(cmd_queue', type', retyped', forced')
    BY <1>3, <2>1
  <2> QED BY <1>0, <1>2, <2>1, <2>2, <2>3
<1>11. CASE Q!cmd_done
  <2>1. type' = "EMPTY" /\ UNCHANGED <<cmd_queue, node, cached, forced, retyped>>
    BY <1>11 DEF Q!cmd_done
  <2>2. Typed(cmd_queue', type', retyped', forced')
    BY <1>3, <2>1 DEF Typed
  <2> QED BY <1>0, <1>2, <2>1, <2>2
<1>12. CASE UNCHANGED Q!vars
  <2>1. UNCHANGED <<type, cmd_queue, node, cached, forced, retyped>>
    BY <1>12 DEF Q!vars
  <2>2. Typed(cmd_queue', type', retyped', forced')
    BY <1>3, <2>1
  <2> QED BY <1>0, <1>2, <2>1, <2>2
<1> QED BY <1>6, <1>7, <1>8, <1>9, <1>10, <1>11, <1>12, Zenon DEF Q!Next

(* At first there is no command.                                           *)
LEMMA QueueInit == Q!Init => QueueInv
<1> SUFFICES ASSUME Q!Init PROVE QueueInv
  OBVIOUS
<1>1. cmd_queue \in Seq(Entry) /\ Len(cmd_queue) = 0 /\ DOMAIN cmd_queue = {}
  BY EmptySeq DEF Q!Init
<1>2. SetEntries(cmd_queue) = {}
  BY <1>1 DEF SetEntries
<1>3. Q!used <= Cells
  <2>1. Q!used = Len(cmd_queue) + Cardinality(SetEntries(cmd_queue))
    BY SameCardinality, Zenon DEF Q!used, SetEntries
  <2> QED BY <1>1, <1>2, <2>1, FS_EmptySet, ParamQueueAssumption
<1>4. Q!TypeOK
  BY <1>1, <1>3 DEF Q!Init, Q!TypeOK, Entry
<1>5. \A p \in ReadOnly : node[p] = 0
  BY ParamQueueAssumption DEF Q!Init
<1> QED BY <1>1, <1>4, <1>5 DEF Q!Init, QueueInv, Homogeneous, Q!Homogeneous, ReadOnlyKept,
     Q!ReadOnlyKept

(* For every set of parameters, values and size of the buffer, and however *)
(* commands are edited, run, ended and begun anew: the entries of a        *)
(* command are of its type and fit in the buffer (cmd new, cmd add).       *)
THEOREM SessionHomogeneous == Q!Spec => []Homogeneous
<1>1. QueueInv => Homogeneous
  BY DEF QueueInv
<1> QED BY <1>1, QueueInit, QueueStep, PTL DEF Q!Spec

(* ... and no read-only parameter that was never forced changes (cmd add,  *)
(* cmd run).                                                               *)
THEOREM SessionReadOnlyKept == Q!Spec => []ReadOnlyKept
<1>1. QueueInv => ReadOnlyKept
  BY DEF QueueInv
<1> QED BY <1>1, QueueInit, QueueStep, PTL DEF Q!Spec

-----------------------------------------------------------------------------
(* The command `set`: sequences of offsets.                                *)

Elems(q) == {q[i] : i \in DOMAIN q}

Distinct(q) == \A i, j \in DOMAIN q : i # j => q[i] # q[j]

(* Offsets that differ are as many as the elements they name.              *)
LEMMA DistinctCount ==
  ASSUME NEW q \in Seq(Int), Distinct(q)
  PROVE  IsFiniteSet(Elems(q)) /\ Cardinality(Elems(q)) = Len(q)
<1>1. PICK n \in Nat : n = Len(q) /\ DOMAIN q = 1 .. n
  BY LenProperties
<1>2. q \in [1 .. n -> Elems(q)]
  <2>1. q \in [1 .. n -> Int]
    BY <1>1
  <2>2. \A i \in 1 .. n : q[i] \in Elems(q)
    BY <1>1, Zenon DEF Elems
  <2> QED BY <2>1, <2>2
<1>3. q \in Bijection(1 .. n, Elems(q))
  BY <1>1, <1>2 DEF Bijection, Injection, Surjection, IsInjective, Elems, Distinct
<1>4. IsFiniteSet(1 .. n) /\ Cardinality(1 .. n) = n
  BY FS_Interval
<1> QED BY <1>1, <1>3, <1>4, FS_Bijection, Zenon DEF ExistsBijection

(* ... so that there are no more of them than elements of the array.       *)
LEMMA DistinctFit ==
  ASSUME NEW q \in Seq(Int), Distinct(q), NEW size \in Nat, Elems(q) \subseteq 0 .. size - 1
  PROVE  Len(q) <= size
<1>1. IsFiniteSet(0 .. size - 1) /\ Cardinality(0 .. size - 1) = size
  BY FS_Interval
<1>2. Cardinality(Elems(q)) <= size
  BY <1>1, FS_Subset
<1> QED BY <1>2, DistinctCount

(* Offsets behind others.                                                  *)
LEMMA JoinIs ==
  ASSUME NEW q \in Seq(Int), NEW r \in Seq(Int)
  PROVE  /\ q \o r \in Seq(Int) /\ Len(q \o r) = Len(q) + Len(r)
         /\ Elems(q \o r) = Elems(q) \cup Elems(r)
         /\ Distinct(q) /\ Distinct(r) /\ Elems(q) \cap Elems(r) = {} => Distinct(q \o r)
<1>1. PICK t : t = q \o r
  OBVIOUS
<1>2. PICK n \in Nat, m \in Nat : /\ n = Len(q) /\ m = Len(r)
                                  /\ DOMAIN q = 1 .. n /\ DOMAIN r = 1 .. m
  BY LenProperties
<1>3. /\ t \in Seq(Int) /\ Len(t) = n + m
      /\ \A i \in 1 .. n + m : t[i] = IF i <= n THEN q[i] ELSE r[i - n]
  BY <1>1, <1>2, ConcatProperties
<1>4. DOMAIN t = 1 .. n + m
  BY <1>3, LenProperties
<1>5. /\ \A i \in 1 .. n : i \in 1 .. n + m /\ t[i] = q[i]
      /\ \A i \in 1 .. m : i + n \in 1 .. n + m /\ t[i + n] = r[i]
      /\ \A i \in 1 .. n + m : i \in 1 .. n \/ (i - n \in 1 .. m /\ t[i] = r[i - n])
  BY <1>3
<1>6. Elems(t) = Elems(q) \cup Elems(r)
  <2>1. ASSUME NEW i \in 1 .. n + m PROVE t[i] \in Elems(q) \cup Elems(r)
    BY <1>2, <1>5, Zenon DEF Elems
  <2>2. \A i \in 1 .. n : q[i] \in Elems(t)
    BY <1>4, <1>5, Zenon DEF Elems
  <2>3. \A i \in 1 .. m : r[i] \in Elems(t)
    BY <1>4, <1>5, Zenon DEF Elems
  <2> QED BY <1>2, <1>4, <2>1, <2>2, <2>3 DEF Elems
<1>7. ASSUME Distinct(q), Distinct(r), Elems(q) \cap Elems(r) = {} PROVE Distinct(t)
  <2> SUFFICES ASSUME NEW i \in 1 .. n + m, NEW j \in 1 .. n + m, i < j PROVE t[i] # t[j]
    BY <1>4 DEF Distinct
  <2>0. i # j
    OBVIOUS
  <2>1. CASE j \in 1 .. n
    <3>1. i \in 1 .. n
      BY <2>1
    <3>2. t[i] = q[i] /\ t[j] = q[j]
      BY <1>5, <2>1, <3>1
    <3> QED BY <1>2, <1>7, <2>0, <2>1, <3>1, <3>2, Zenon DEF Distinct
  <2>2. CASE j \notin 1 .. n /\ i \in 1 .. n
    <3>1. t[i] \in Elems(q) /\ t[j] \in Elems(r)
      BY <1>2, <1>5, <2>2 DEF Elems
    <3> QED BY <1>7, <3>1
  <2>3. CASE j \notin 1 .. n /\ i \notin 1 .. n
    <3>1. i - n # j - n
      OBVIOUS
    <3>2. /\ i - n \in 1 .. m /\ t[i] = r[i - n]
          /\ j - n \in 1 .. m /\ t[j] = r[j - n]
      BY <1>5, <2>3
    <3> QED BY <1>2, <1>7, <3>1, <3>2, Zenon DEF Distinct
  <2> QED BY <2>1, <2>2, <2>3
<1> QED BY <1>1, <1>2, <1>3, <1>6, <1>7, Zenon

(* A slice names the elements from its start to its end, and those are the *)
(* offsets it gives if it is not refused.                                  *)
LEMMA SliceIs ==
  ASSUME NEW t \in Token, t.kind = "slice", NEW size \in Nat \ {0}
  PROVE  /\ ~SliceRefused(t, size) =>
              /\ Expand(t, size) \in Seq(Int) /\ Len(Expand(t, size)) > 0
              /\ Distinct(Expand(t, size)) /\ Elems(Expand(t, size)) = Names(t, size)
         /\ Sensible(t, size) => ~SliceRefused(t, size)
<1> DEFINE from == Start(t, size)
           to   == End(t, size)
<1>1. t.start \in Int \cup {None} /\ t.end \in Int \cup {None} /\ None \notin Int
  BY ParamSetAssumption DEF Token, Empty
<1>2. /\ from \in Int /\ (t.start = None => from = 0)
      /\ t.start # None => t.start \in Int /\ from = IF t.start < 0 THEN size + t.start ELSE t.start
  BY <1>1 DEF Start, FromEnd
<1>3. /\ to \in Int /\ (t.end = None => to = size)
      /\ t.end # None => t.end \in Int /\ to = IF t.end < 0 THEN size + t.end ELSE t.end
  BY <1>1 DEF End, FromEnd
<1>4. SliceRefused(t, size) <=> (from < 0 \/ to < 0 \/ from >= to \/ to > size)
  BY DEF SliceRefused
<1>5. ASSUME NEW o \in 0 .. size - 1 PROVE o \in Names(t, size) <=> from <= o /\ o < to
  <2>1. (t.start = None \/ (t.start >= 0 /\ o >= t.start) \/ (t.start < 0 /\ o - size >= t.start))
          <=> from <= o
    <3>1. CASE t.start = None
      BY <1>2, <3>1
    <3>2. CASE t.start # None
      <4>1. PICK s \in Int : s = t.start /\ s # None /\ from = IF s < 0 THEN size + s ELSE s
        BY <1>2, <3>2
      <4> HIDE DEF from
      <4>2. ((s >= 0 /\ o >= s) \/ (s < 0 /\ o - size >= s)) <=> from <= o
        BY <4>1
      <4> QED BY <4>1, <4>2, Zenon
    <3> QED BY <3>1, <3>2
  <2>2. (t.end = None \/ (t.end >= 0 /\ o < t.end) \/ (t.end < 0 /\ o - size < t.end)) <=> o < to
    <3>1. CASE t.end = None
      BY <1>3, <3>1
    <3>2. CASE t.end # None
      <4>1. PICK s \in Int : s = t.end /\ s # None /\ to = IF s < 0 THEN size + s ELSE s
        BY <1>3, <3>2
      <4> HIDE DEF to
      <4>2. ((s >= 0 /\ o < s) \/ (s < 0 /\ o - size < s)) <=> o < to
        BY <4>1
      <4> QED BY <4>1, <4>2, Zenon
    <3> QED BY <3>1, <3>2
  <2>3. o \in Names(t, size)
          <=> /\ t.start = None \/ (t.start >= 0 /\ o >= t.start)
                   \/ (t.start < 0 /\ o - size >= t.start)
              /\ t.end = None \/ (t.end >= 0 /\ o < t.end) \/ (t.end < 0 /\ o - size < t.end)
    <3>1. t.kind # "index"
      OBVIOUS
    <3> QED BY <3>1, Zenon DEF Names
  <2> HIDE DEF from, to
  <2> QED BY <2>1, <2>2, <2>3, Zenon
<1>6. Names(t, size) \subseteq 0 .. size - 1
  BY DEF Names
<1>7. Expand(t, size) = [i \in 1 .. to - from |-> from + i - 1]
  BY DEF Expand
<1> HIDE DEF from, to
<1>8. ASSUME ~SliceRefused(t, size)
      PROVE  /\ Expand(t, size) \in Seq(Int) /\ Len(Expand(t, size)) > 0
             /\ Distinct(Expand(t, size)) /\ Elems(Expand(t, size)) = Names(t, size)
  <2>1. PICK e : e = [i \in 1 .. to - from |-> from + i - 1]
    OBVIOUS
  <2>2. 0 <= from /\ from < to /\ to <= size /\ to - from \in Nat
    BY <1>2, <1>3, <1>4, <1>8
  <2>3. e \in Seq(Int) /\ Len(e) = to - from /\ DOMAIN e = 1 .. to - from
    BY <1>2, <1>3, <2>1, <2>2
  <2>4. \A i \in 1 .. to - from : e[i] = from + i - 1
    BY <2>1
  <2>5. Distinct(e)
    BY <1>2, <1>3, <2>3, <2>4 DEF Distinct
  <2>6. \A o : o \in Names(t, size) <=> o \in from .. to - 1
    <3>1. from .. to - 1 \subseteq 0 .. size - 1
      BY <1>2, <1>3, <2>2
    <3>2. \A o \in 0 .. size - 1 : o \in from .. to - 1 <=> from <= o /\ o < to
      BY <1>2, <1>3
    <3> QED BY <1>5, <1>6, <3>1, <3>2, Zenon
  <2>7. \A o \in from .. to - 1 : o - from + 1 \in 1 .. to - from /\ o = e[o - from + 1]
    BY <1>2, <1>3, <2>4
  <2>8. \A i \in 1 .. to - from : e[i] \in from .. to - 1
    BY <1>2, <1>3, <2>4
  <2>9. Elems(e) = Names(t, size)
    BY <2>3, <2>6, <2>7, <2>8, Zenon DEF Elems
  <2>10. Len(e) > 0
    BY <1>2, <1>3, <2>2, <2>3
  <2> QED BY <1>7, <2>1, <2>3, <2>5, <2>9, <2>10, Zenon
<1>9. ASSUME Sensible(t, size) PROVE ~SliceRefused(t, size)
  <2>1. (t.start # None => t.start \in -size .. size) /\ (t.end # None => t.end \in -size .. size)
    BY <1>9, Zenon DEF Sensible
  <2>2. PICK o \in 0 .. size - 1 : from <= o /\ o < to
    BY <1>5, <1>6, <1>9 DEF Sensible
  <2>3. 0 <= from /\ 0 <= to /\ to <= size
    <3>1. 0 <= from
      BY <1>2, <2>1
    <3>2. 0 <= to /\ to <= size
      BY <1>3, <2>1
    <3> QED BY <3>1, <3>2
  <2> QED BY <1>2, <1>3, <1>4, <2>2, <2>3
<1> QED BY <1>8, <1>9

(* What is known of any token.                                             *)
LEMMA TokenIs ==
  ASSUME NEW t \in Token, NEW size \in Nat \ {0}
  PROVE  /\ ~(t.kind = "slice" /\ SliceRefused(t, size)) =>
              /\ Expand(t, size) \in Seq(Int) /\ Len(Expand(t, size)) > 0 /\ Distinct(Expand(t, size))
              /\ t.kind = "slice" \/ Names(t, size) # {} => Elems(Expand(t, size)) = Names(t, size)
         /\ Sensible(t, size) => Names(t, size) # {} /\ ~(t.kind = "slice" /\ SliceRefused(t, size))
         /\ Names(t, size) \subseteq 0 .. size - 1
<1>1. Names(t, size) \subseteq 0 .. size - 1
  <2>1. CASE t.kind = "index" \/ t.kind = "slice"
    BY <2>1 DEF Names
  <2>2. CASE t.kind # "index" /\ t.kind # "slice"
    BY <2>2 DEF Names
  <2> QED BY <2>1, <2>2
<1>2. Sensible(t, size) => Names(t, size) # {}
  BY Zenon DEF Sensible
<1>3. CASE t.kind = "slice"
  BY <1>1, <1>2, <1>3, SliceIs, Zenon
<1>4. CASE t.kind # "slice"
  <2>1. PICK p : p = Position(t, size) /\ Expand(t, size) = <<p>>
    BY <1>4, Zenon DEF Expand
  <2>2. /\ p \in Int
        /\ t.kind = "index" => t.start \in Int /\ p = IF t.start < 0 THEN size + t.start ELSE t.start
    BY <1>4, <2>1 DEF Token, Empty, Position, FromEnd
  <2>3. Names(t, size) # {} => Names(t, size) = {p}
    <3>1. CASE t.kind = "index"
      <4>1. PICK s \in Int : s = t.start /\ p = IF s < 0 THEN size + s ELSE s
        BY <2>2, <3>1
      <4>2. Names(t, size) = {o \in 0 .. size - 1 : s \in {o, o - size}}
        BY <3>1, <4>1, Zenon DEF Names
      <4>3. \A o \in 0 .. size - 1 : s \in {o, o - size} => o = p
        BY <4>1
      <4> QED BY <4>2, <4>3, Zenon
    <3>2. CASE t.kind # "index"
      BY <1>4, <3>2, Zenon DEF Names
    <3> QED BY <3>1, <3>2
  <2>4. PICK e : e = <<p>>
    OBVIOUS
  <2>5. e \in Seq(Int) /\ Len(e) = 1 /\ DOMAIN e = {1} /\ e[1] = p
    BY <2>2, <2>4
  <2>6. Distinct(e) /\ Elems(e) = {p} /\ Len(e) > 0
    BY <2>5 DEF Distinct, Elems
  <2> QED BY <1>1, <1>2, <1>4, <2>1, <2>3, <2>4, <2>5, <2>6, Zenon
<1> QED BY <1>3, <1>4

(* What the parsing of offsets can give.                                   *)
Parsed == [error : BOOLEAN, list : Seq(Int)]

NoOffsets == [error |-> FALSE, list |-> << >>]

(* The loop of param_offsets_parse_from_str over n tokens.                 *)
IsTaken(size, list, n, taken) ==
  taken = [i \in 0 .. n |-> IF i = 0 THEN NoOffsets ELSE TakeToken(size, taken[i - 1], list[i])]

(* One token: why it is refused, and what it adds if it is not.            *)
LEMMA TakeTokenTyped ==
  ASSUME NEW size \in Nat \ {0}, NEW t \in Token, NEW offsets \in Parsed
  PROVE  /\ TakeToken(size, offsets, t) \in Parsed
         /\ TakeToken(size, offsets, t).error =>
              \/ offsets.error \/ (t.kind = "slice" /\ SliceRefused(t, size))
              \/ Len(offsets.list) >= size \/ Len(offsets.list) + Len(Expand(t, size)) > size
         /\ ~TakeToken(size, offsets, t).error =>
              /\ ~offsets.error /\ ~(t.kind = "slice" /\ SliceRefused(t, size))
              /\ Len(offsets.list) + Len(Expand(t, size)) <= size
              /\ TakeToken(size, offsets, t).list = offsets.list \o Expand(t, size)
<1> DEFINE refused == \/ offsets.error
                      \/ Len(offsets.list) >= size
                      \/ (t.kind = "slice" /\ SliceRefused(t, size))
                      \/ Len(offsets.list) + Len(Expand(t, size)) > size
<1>1. PICK r : r = TakeToken(size, offsets, t)
  OBVIOUS
<1>2. CASE refused
  <2>1. r = [error |-> TRUE, list |-> << >>]
    BY <1>1, <1>2, Zenon DEF TakeToken
  <2>2. << >> \in Seq(Int)
    BY EmptySeq
  <2>3. r \in Parsed /\ r.error
    BY <2>1, <2>2 DEF Parsed
  <2> QED BY <1>1, <1>2, <2>3, Zenon
<1>3. CASE ~refused
  <2>1. r = [error |-> FALSE, list |-> offsets.list \o Expand(t, size)]
    BY <1>1, <1>3, Zenon DEF TakeToken
  <2>2. Expand(t, size) \in Seq(Int) /\ offsets.list \in Seq(Int)
    BY <1>3, TokenIs DEF Parsed
  <2>3. offsets.list \o Expand(t, size) \in Seq(Int)
    BY <2>2, JoinIs, Zenon
  <2>4. r \in Parsed /\ ~r.error /\ r.list = offsets.list \o Expand(t, size)
    BY <2>1, <2>3 DEF Parsed
  <2>5. Len(offsets.list) \in Nat /\ Len(Expand(t, size)) \in Nat
    BY <2>2, LenProperties
  <2>6. Len(offsets.list) + Len(Expand(t, size)) <= size
    BY <1>3, <2>5
  <2> QED BY <1>1, <1>3, <2>4, <2>6, Zenon
<1> QED BY <1>2, <1>3

(* The offsets after each token; the function of them exists.              *)
LEMMA TakenExists ==
  ASSUME NEW size \in Nat \ {0}, NEW list \in Seq(Token), list # << >>
  PROVE  \E taken \in [0 .. Len(list) -> Parsed] :
           /\ taken[0] = NoOffsets
           /\ \A i \in 1 .. Len(list) : taken[i] = TakeToken(size, taken[i - 1], list[i])
           /\ param_offsets_parse_from_str(size, list) = taken[Len(list)]
<1>1. PICK n \in Nat : n = Len(list) /\ DOMAIN list = 1 .. n /\ \A i \in 1 .. n : list[i] \in Token
  BY LenProperties, ElementOfSeq
<1>2. NoOffsets \in Parsed
  BY EmptySeq DEF Parsed, NoOffsets
<1> DEFINE g == [i \in 1 .. n |-> [offsets \in Parsed |-> TakeToken(size, offsets, list[i])]]
<1>3. g \in [1 .. n -> [Parsed -> Parsed]]
  <2>1. \A i \in 1 .. n : \A offsets \in Parsed : TakeToken(size, offsets, list[i]) \in Parsed
    BY <1>1, TakeTokenTyped, Zenon
  <2> QED BY <2>1
<1>4. PICK f \in [0 .. n -> Parsed] : f[0] = NoOffsets /\ \A i \in 1 .. n : f[i] = g[i][f[i - 1]]
  <2> HIDE DEF g
  <2>1. PICK f : Follows(f, Parsed, NoOffsets, n, g)
    BY <1>2, <1>3, Iterates, Zenon
  <2> QED BY <2>1, Zenon DEF Follows
<1>5. \A i \in 1 .. n : f[i] = TakeToken(size, f[i - 1], list[i])
  <2> SUFFICES ASSUME NEW i \in 1 .. n PROVE f[i] = TakeToken(size, f[i - 1], list[i])
    OBVIOUS
  <2>1. f[i - 1] \in Parsed
    OBVIOUS
  <2> QED BY <1>4, <2>1, Zenon
<1>6. IsTaken(size, list, n, f)
  <2>1. \A i \in 0 .. n : f[i] = IF i = 0 THEN NoOffsets ELSE TakeToken(size, f[i - 1], list[i])
    <3> SUFFICES ASSUME NEW i \in 0 .. n
                 PROVE  f[i] = IF i = 0 THEN NoOffsets ELSE TakeToken(size, f[i - 1], list[i])
      OBVIOUS
    <3>1. i = 0 \/ i \in 1 .. n
      OBVIOUS
    <3> QED BY <1>4, <1>5, <3>1, Zenon
  <2>2. f = [i \in 0 .. n |-> f[i]]
    OBVIOUS
  <2> QED BY <2>1, <2>2, Zenon DEF IsTaken
<1> DEFINE taken == CHOOSE taken : IsTaken(size, list, Len(list), taken)
<1>7. param_offsets_parse_from_str(size, list) = taken[Len(list)]
  BY Zenon DEF param_offsets_parse_from_str, IsTaken, NoOffsets
<1>8. IsTaken(size, list, n, taken)
  BY <1>1, <1>6, Zenon
<1> HIDE DEF taken
<1>9. taken[0] = NoOffsets /\ \A i \in 1 .. n : taken[i] = TakeToken(size, taken[i - 1], list[i])
  <2>1. \A i \in 0 .. n : taken[i] = IF i = 0 THEN NoOffsets ELSE TakeToken(size, taken[i - 1], list[i])
    BY <1>8, Zenon DEF IsTaken
  <2>2. 0 \in 0 .. n /\ \A i \in 1 .. n : i \in 0 .. n /\ i # 0
    OBVIOUS
  <2> QED BY <2>1, <2>2, Zenon
<1>10. \A i \in 0 .. n : taken[i] \in Parsed
  <2> DEFINE T == {i \in 0 .. n : taken[i] \in Parsed}
  <2>1. 0 \in T
    BY <1>2, <1>9
  <2>2. ASSUME NEW i \in 0 .. n - 1, i \in T PROVE i + 1 \in T
    <3>1. i + 1 \in 1 .. n /\ i + 1 \in 0 .. n /\ (i + 1) - 1 = i
      OBVIOUS
    <3>2. taken[i + 1] \in Parsed
      <4>1. taken[i] \in Parsed /\ list[i + 1] \in Token
        BY <1>1, <2>2, <3>1
      <4>2. taken[i + 1] = TakeToken(size, taken[i], list[i + 1])
        BY <1>9, <3>1
      <4> QED BY <4>1, <4>2, TakeTokenTyped, Zenon
    <3> QED BY <3>1, <3>2
  <2>3. \A i \in 0 .. n : i \in T
    <3> HIDE DEF T
    <3>1. \A i \in 0 .. n - 1 : i \in T => i + 1 \in T
      BY <2>2
    <3> QED BY <2>1, <3>1, UpTo, Zenon
  <2> QED BY <2>3
<1>11. taken \in [0 .. n -> Parsed]
  <2>1. taken = [i \in 0 .. n |-> taken[i]]
    BY <1>8, Zenon DEF IsTaken
  <2> QED BY <1>10, <2>1, Zenon
<1> QED BY <1>1, <1>7, <1>9, <1>11, Zenon

(* The elements that the first n tokens name, if each names some.          *)
NamedBy(list, size, n) == UNION {Names(list[j], size) : j \in 1 .. n}

ProperTo(list, size, n) == \A j \in 1 .. n : list[j].kind = "slice" \/ Names(list[j], size) # {}

(* Tokens that give no reason to be refused.                               *)
Reasonable(list, size) ==
  /\ \A j \in DOMAIN list : Sensible(list[j], size)
  /\ \A j, k \in DOMAIN list : j # k => Names(list[j], size) \cap Names(list[k], size) = {}

(* What is right of the offsets that the first i tokens give.              *)
RightOffsets(offsets, list, size, i) ==
  /\ ~offsets.error =>
       /\ Len(offsets.list) <= size /\ (i > 0 => Len(offsets.list) > 0)
       /\ ProperTo(list, size, i) => Elems(offsets.list) = NamedBy(list, size, i)
  /\ Reasonable(list, size) => ~offsets.error /\ Distinct(offsets.list)

(* A token keeps what is right of the offsets.                             *)
LEMMA TakeTokenRight ==
  ASSUME NEW size \in Nat \ {0}, NEW list \in Seq(Token), NEW i \in Nat, i + 1 \in DOMAIN list,
         NEW offsets \in Parsed, RightOffsets(offsets, list, size, i)
  PROVE  RightOffsets(TakeToken(size, offsets, list[i + 1]), list, size, i + 1)
<1>1. PICK t \in Token : t = list[i + 1]
  BY ElementOfSeq, LenProperties
<1>2. PICK q \in Seq(Int) : q = offsets.list /\ Len(q) \in Nat
  BY LenProperties DEF Parsed
<1>3. PICK r \in Parsed : r = TakeToken(size, offsets, t)
  BY TakeTokenTyped
<1>4. i + 1 \in 1 .. i + 1 /\ i + 1 > 0 /\ (\A j \in 1 .. i : j \in 1 .. i + 1 /\ j # i + 1)
      /\ (\A j \in 1 .. i + 1 : j \in 1 .. i \/ j = i + 1)
  OBVIOUS
<1>5. NamedBy(list, size, i + 1) = NamedBy(list, size, i) \cup Names(t, size)
  <2>1. ASSUME NEW o PROVE o \in NamedBy(list, size, i + 1)
                             <=> o \in NamedBy(list, size, i) \/ o \in Names(t, size)
    BY <1>1, <1>4, Zenon DEF NamedBy
  <2> QED BY <2>1, Zenon
<1>6. ProperTo(list, size, i + 1)
        <=> ProperTo(list, size, i) /\ (t.kind = "slice" \/ Names(t, size) # {})
  BY <1>1, <1>4, Zenon DEF ProperTo
<1>7. ASSUME ~r.error
      PROVE  /\ Len(r.list) <= size /\ Len(r.list) > 0
             /\ ProperTo(list, size, i + 1) => Elems(r.list) = NamedBy(list, size, i + 1)
  <2>1. /\ ~offsets.error /\ ~(t.kind = "slice" /\ SliceRefused(t, size))
        /\ Len(q) + Len(Expand(t, size)) <= size /\ r.list = q \o Expand(t, size)
    BY <1>2, <1>3, <1>7, TakeTokenTyped, Zenon
  <2>2. /\ Expand(t, size) \in Seq(Int) /\ Len(Expand(t, size)) > 0
        /\ t.kind = "slice" \/ Names(t, size) # {} => Elems(Expand(t, size)) = Names(t, size)
    BY <2>1, TokenIs, Zenon
  <2>3. PICK e \in Seq(Int) : e = Expand(t, size) /\ Len(e) \in Nat /\ Len(e) > 0
    BY <2>2, LenProperties
  <2>4. Len(q \o e) = Len(q) + Len(e) /\ Elems(q \o e) = Elems(q) \cup Elems(e)
    BY JoinIs, Zenon
  <2>5. Len(q \o e) <= size /\ Len(q \o e) > 0
    BY <1>2, <2>1, <2>3, <2>4
  <2>6. ProperTo(list, size, i) => Elems(q) = NamedBy(list, size, i)
    BY <1>2, <2>1, Zenon DEF RightOffsets
  <2> QED BY <1>5, <1>6, <2>1, <2>2, <2>3, <2>4, <2>5, <2>6, Zenon
<1>8. ASSUME Reasonable(list, size) PROVE ~r.error /\ Distinct(r.list)
  <2>1. ~offsets.error /\ Distinct(q)
    BY <1>2, <1>8, Zenon DEF RightOffsets
  <2>2. \A j \in 1 .. i + 1 : j \in DOMAIN list /\ list[j] \in Token
    BY LenProperties, ElementOfSeq
  <2>3. Names(t, size) # {} /\ ~(t.kind = "slice" /\ SliceRefused(t, size))
    BY <1>1, <1>8, TokenIs, Zenon DEF Reasonable
  <2>4. \A j \in 1 .. i : Names(list[j], size) # {}
    BY <1>4, <1>8, <2>2, TokenIs, Zenon DEF Reasonable
  <2>5. Elems(q) = NamedBy(list, size, i)
    BY <1>2, <2>1, <2>4, Zenon DEF RightOffsets, ProperTo
  <2>6. PICK e \in Seq(Int) : /\ e = Expand(t, size) /\ Len(e) > 0 /\ Distinct(e)
                              /\ Elems(e) = Names(t, size)
    BY <2>3, TokenIs, Zenon
  <2>7. Elems(q) \subseteq 0 .. size - 1 /\ Elems(e) \subseteq 0 .. size - 1
    <3>1. \A j \in 1 .. i : Names(list[j], size) \subseteq 0 .. size - 1
      BY <1>4, <2>2, TokenIs, Zenon
    <3>2. Names(t, size) \subseteq 0 .. size - 1
      BY TokenIs, Zenon
    <3> QED BY <2>5, <2>6, <3>1, <3>2, Zenon DEF NamedBy
  <2>8. Elems(q) \cap Elems(e) = {}
    <3>1. \A j \in 1 .. i : Names(list[j], size) \cap Names(t, size) = {}
      BY <1>1, <1>4, <1>8, <2>2, Zenon DEF Reasonable
    <3>2. ASSUME NEW o \in Elems(q), o \in Elems(e) PROVE FALSE
      <4>1. PICK j \in 1 .. i : o \in Names(list[j], size)
        BY <2>5, Zenon DEF NamedBy
      <4>2. o \in Names(t, size)
        BY <2>6, <3>2
      <4> QED BY <3>1, <4>1, <4>2
    <3> QED BY <3>2
  <2>9. /\ q \o e \in Seq(Int) /\ Len(q \o e) = Len(q) + Len(e) /\ Distinct(q \o e)
        /\ Elems(q \o e) \subseteq 0 .. size - 1
    BY <2>1, <2>6, <2>7, <2>8, JoinIs, Zenon
  <2>10. Len(q \o e) <= size
    BY <2>9, DistinctFit
  <2>11. Len(e) \in Nat
    BY LenProperties
  <2>12. Len(q) + Len(Expand(t, size)) <= size /\ ~(Len(q) >= size)
    BY <1>2, <2>6, <2>9, <2>10, <2>11
  <2>13. ~(Len(q) + Len(Expand(t, size)) > size)
    BY <1>2, <2>6, <2>11, <2>12
  <2>14. ~r.error
    BY <1>2, <1>3, <2>1, <2>3, <2>12, <2>13, TakeTokenTyped, Zenon
  <2>15. r.list = q \o e
    BY <1>2, <1>3, <2>6, <2>14, TakeTokenTyped, Zenon
  <2> QED BY <2>9, <2>14, <2>15
<1> QED BY <1>1, <1>3, <1>7, <1>8, Zenon DEF RightOffsets

(* What param_offsets_parse_from_str gives for a name with brackets.       *)
LEMMA ParseIs ==
  ASSUME NEW size \in Nat \ {0}, NEW list \in Seq(Token), list # << >>
  PROVE  /\ param_offsets_parse_from_str(size, list) \in Parsed
         /\ RightOffsets(param_offsets_parse_from_str(size, list), list, size, Len(list))
<1>1. PICK n \in Nat : n = Len(list) /\ DOMAIN list = 1 .. n
  BY LenProperties
<1>2. PICK taken \in [0 .. n -> Parsed] :
        /\ taken[0] = NoOffsets
        /\ \A i \in 1 .. n : taken[i] = TakeToken(size, taken[i - 1], list[i])
        /\ param_offsets_parse_from_str(size, list) = taken[n]
  BY <1>1, TakenExists, Zenon
<1> DEFINE T == {i \in 0 .. n : RightOffsets(taken[i], list, size, i)}
<1>3. 0 \in T
  <2>1. ~NoOffsets.error /\ NoOffsets.list = << >>
    BY DEF NoOffsets
  <2>2. Len(<< >>) = 0 /\ DOMAIN << >> = {}
    OBVIOUS
  <2>3. Elems(<< >>) = {} /\ Distinct(<< >>)
    BY <2>2, Zenon DEF Elems, Distinct
  <2>4. 1 .. 0 = {} /\ 0 <= size /\ ~(0 > 0) /\ 0 \in 0 .. n
    OBVIOUS
  <2>5. NamedBy(list, size, 0) = {}
    BY <2>4, Zenon DEF NamedBy
  <2>6. RightOffsets(taken[0], list, size, 0)
    BY <1>2, <2>1, <2>2, <2>3, <2>4, <2>5, Zenon DEF RightOffsets
  <2> QED BY <2>4, <2>6
<1>4. ASSUME NEW i \in 0 .. n - 1, i \in T PROVE i + 1 \in T
  <2>1. i \in Nat /\ i \in 0 .. n /\ i + 1 \in 0 .. n /\ i + 1 \in 1 .. n /\ (i + 1) - 1 = i
    OBVIOUS
  <2>2. RightOffsets(taken[i], list, size, i) /\ taken[i] \in Parsed
    BY <1>2, <1>4, <2>1
  <2>3. taken[i + 1] = TakeToken(size, taken[i], list[i + 1])
    BY <1>2, <2>1
  <2>4. RightOffsets(taken[i + 1], list, size, i + 1)
    BY <1>1, <2>1, <2>2, <2>3, TakeTokenRight, Zenon
  <2> QED BY <2>1, <2>4
<1>5. \A i \in 0 .. n : i \in T
  <2> HIDE DEF T
  <2>1. \A i \in 0 .. n - 1 : i \in T => i + 1 \in T
    BY <1>4
  <2> QED BY <1>3, <2>1, UpTo, Zenon
<1>6. n \in 0 .. n
  OBVIOUS
<1>7. RightOffsets(taken[n], list, size, n) /\ taken[n] \in Parsed
  BY <1>2, <1>5, <1>6
<1> QED BY <1>1, <1>2, <1>7, Zenon

(* The offsets of a name, whatever stands behind it.                       *)
NameOffsets(list) == IF whole THEN [error |-> FALSE, list |-> <<-1>>]
                     ELSE param_offsets_parse_from_str(array_size, list)

ElementsOf(list) == IF list = << >> THEN 0 .. array_size - 1
                    ELSE UNION {Names(list[i], array_size) : i \in DOMAIN list}

(* They are offsets of the array, and right of the tokens.                 *)
LEMMA NameOffsetsAre ==
  ASSUME array_size \in Nat \ {0}, NEW list \in Seq(Token)
  PROVE  /\ NameOffsets(list) \in Parsed
         /\ ~NameOffsets(list).error =>
              /\ Len(NameOffsets(list).list) > 0
              /\ Len(NameOffsets(list).list) <= array_size
              /\ ~whole /\ ProperTo(list, array_size, Len(list))
                   => Elems(NameOffsets(list).list) = ElementsOf(list)
         /\ Reasonable(list, array_size) =>
              ~NameOffsets(list).error /\ Distinct(NameOffsets(list).list)
<1>1. PICK r : r = NameOffsets(list)
  OBVIOUS
<1>2. CASE whole
  <2>1. PICK e : e = <<-1>>
    OBVIOUS
  <2>2. r = [error |-> FALSE, list |-> e]
    BY <1>1, <1>2, <2>1 DEF NameOffsets
  <2>3. e \in Seq(Int) /\ Len(e) = 1 /\ DOMAIN e = {1}
    BY <2>1
  <2>4. r \in Parsed /\ ~r.error /\ r.list = e
    BY <2>2, <2>3 DEF Parsed
  <2>5. Len(e) > 0 /\ Len(e) <= array_size
    BY <2>3
  <2>6. Distinct(e)
    BY <2>3 DEF Distinct
  <2> QED BY <1>1, <1>2, <2>4, <2>5, <2>6, Zenon
<1>3. CASE ~whole /\ list = << >>
  <2>1. PICK e : e = [i \in 1 .. array_size |-> i - 1]
    OBVIOUS
  <2>2. r = [error |-> FALSE, list |-> e]
    BY <1>1, <1>3, <2>1, Zenon DEF NameOffsets, param_offsets_parse_from_str
  <2>3. e \in Seq(Int) /\ Len(e) = array_size /\ DOMAIN e = 1 .. array_size
    BY <2>1
  <2>4. r \in Parsed /\ ~r.error /\ r.list = e
    BY <2>2, <2>3 DEF Parsed
  <2>5. \A i \in 1 .. array_size : e[i] = i - 1
    BY <2>1
  <2>6. Distinct(e)
    BY <2>3, <2>5 DEF Distinct
  <2>7. Elems(e) = 0 .. array_size - 1
    <3>1. \A i \in 1 .. array_size : e[i] \in 0 .. array_size - 1
      BY <2>5
    <3>2. \A o \in 0 .. array_size - 1 : o + 1 \in 1 .. array_size /\ e[o + 1] = o
      BY <2>5
    <3> QED BY <2>3, <3>1, <3>2 DEF Elems
  <2>8. Len(e) > 0 /\ Len(e) <= array_size
    BY <2>3
  <2> QED BY <1>1, <1>3, <2>4, <2>6, <2>7, <2>8, Zenon DEF ElementsOf
<1>4. CASE ~whole /\ list # << >>
  <2>1. PICK n \in Nat : n = Len(list) /\ DOMAIN list = 1 .. n /\ n > 0
    <3>1. PICK n \in Nat : n = Len(list) /\ DOMAIN list = 1 .. n
      BY LenProperties
    <3>2. n # 0
      BY <1>4, <3>1, EmptySeq
    <3> QED BY <3>1, <3>2
  <2>2. r = param_offsets_parse_from_str(array_size, list)
    BY <1>1, <1>4, Zenon DEF NameOffsets
  <2>3. r \in Parsed /\ RightOffsets(r, list, array_size, n)
    BY <1>4, <2>1, <2>2, ParseIs, Zenon
  <2>4. ElementsOf(list) = NamedBy(list, array_size, n)
    BY <1>4, <2>1, Zenon DEF ElementsOf, NamedBy
  <2> QED BY <1>1, <2>1, <2>3, <2>4, Zenon DEF RightOffsets
<1> QED BY <1>2, <1>3, <1>4

(* What holds in every state of `set`.                                     *)
Refusable(list) == readonly \/ ~Reasonable(list, array_size)

SetInv ==
  /\ pc \in {"name", "values", "pushed", "error"}
  /\ array_size \in Sizes /\ readonly \in BOOLEAN /\ whole \in BOOLEAN
  /\ tokens \in Seq(Token) /\ args \in Seq(AnyArg) /\ offset_array \in Seq(Int)
  /\ read \in Nat /\ read <= Len(offset_array)
  /\ \A i \in DOMAIN queue : queue[i].offset \in Int
  /\ pc = "name" => args = << >> /\ read = 0 /\ queue = << >>
  /\ pc = "values" => queue = << >>
  /\ pc \in {"values", "pushed"} =>
       /\ tokens \in TokenLists /\ Len(offset_array) > 0 /\ Distinct(offset_array)
       /\ ~whole /\ Proper => Elems(offset_array) = Elements
  /\ pc = "error" /\ args = << >> => Refusable(tokens)
  /\ pc = "pushed" /\ Len(offset_array) <= Room =>
       /\ Len(queue) = Len(offset_array)
       /\ \A i \in DOMAIN queue : queue[i].offset = offset_array[i]

(* The properties follow from it.                                          *)
LEMMA SetInvGives == SetInv => OffsetsAreElements /\ EveryOffsetSet
<1> SUFFICES ASSUME SetInv PROVE OffsetsAreElements /\ EveryOffsetSet
  OBVIOUS
<1>1. PICK n \in Nat : n = Len(tokens) /\ DOMAIN tokens = 1 .. n
  BY LenProperties DEF SetInv
<1>2. ASSUME pc \in {"values", "pushed"}, ~whole, Proper
      PROVE  /\ {offset_array[i] : i \in DOMAIN offset_array} = Elements
             /\ Len(offset_array) = Cardinality(Elements)
  <2>1. offset_array \in Seq(Int) /\ Distinct(offset_array) /\ Elems(offset_array) = Elements
    BY <1>2, Zenon DEF SetInv
  <2>2. Cardinality(Elems(offset_array)) = Len(offset_array)
    BY <2>1, DistinctCount
  <2> QED BY <2>1, <2>2, Zenon DEF Elems
<1>3. ASSUME pc = "error", args = << >>
      PROVE  \/ readonly
             \/ \E i \in DOMAIN tokens : ~Sensible(tokens[i], array_size)
             \/ \E i, j \in DOMAIN tokens :
                  i # j /\ Names(tokens[i], array_size) \cap Names(tokens[j], array_size) # {}
  BY <1>3, Zenon DEF SetInv, Refusable, Reasonable
<1>4. \A i \in DOMAIN tokens : tokens[i].kind \in {"index", "slice", "empty"}
  <2>1. \A i \in 1 .. n : tokens[i] \in Token
    BY <1>1, ElementOfSeq DEF SetInv
  <2> QED BY <1>1, <2>1 DEF Token, Empty
<1>5. \A i \in DOMAIN args : args[i].open \in BOOLEAN /\ args[i].close \in BOOLEAN
  <2>1. args \in Seq(AnyArg)
    BY DEF SetInv
  <2>2. \A i \in DOMAIN args : args[i] \in AnyArg
    BY <2>1, LenProperties, ElementOfSeq
  <2> QED BY <2>2 DEF AnyArg
<1>6. TypeOK
  BY <1>4, <1>5, Zenon DEF SetInv, TypeOK
<1>7. OffsetsAreElements
  BY <1>2, <1>3, Zenon DEF OffsetsAreElements
<1>8. EveryOffsetSet
  BY <1>6, Zenon DEF SetInv, EveryOffsetSet, expected_value_amount
<1> QED BY <1>7, <1>8

(* The loop over the values stops at one of them, or behind them.          *)
LEMMA StopsAtIs ==
  ASSUME NEW list \in Seq(AnyArg)
  PROVE  StopsAt(list) \in 0 .. Len(list)
<1> DEFINE closing == {i \in 1 .. Len(list) : list[i].close}
<1>1. StopsAt(list) = IF closing # {} THEN Min(closing) ELSE 0
  BY Zenon DEF StopsAt, SelectInSeq
<1>2. PICK n \in Nat : n = Len(list)
  BY LenProperties
<1>3. closing # {} => Min(closing) \in closing
  <2>1. closing \subseteq Nat
    BY <1>2
  <2> HIDE DEF closing
  <2> QED BY <2>1, LeastOf, Zenon DEF Min
<1>4. closing \subseteq 0 .. n /\ 0 \in 0 .. n
  BY <1>2
<1> HIDE DEF closing
<1> QED BY <1>1, <1>2, <1>3, <1>4

(* ... and, since the values are counted before, with it at the end of the *)
(* offsets.                                                                *)
LEMMA LoopBound ==
  ASSUME SetInv, pc = "values", NEW list \in Seq(AnyArg), list # << >>, parse_slash_values(list)
  PROVE  Used(list) \in Nat /\ Used(list) <= Len(offset_array)
<1>1. PICK m \in Nat : m = Len(offset_array) /\ m > 0
  <2>1. offset_array \in Seq(Int) /\ Len(offset_array) > 0
    BY Zenon DEF SetInv
  <2> QED BY <2>1, LenProperties
<1>2. PICK n \in Nat : n = Len(list) /\ DOMAIN list = 1 .. n
  BY LenProperties
<1>3. PICK s \in Nat : s = StopsAt(list) /\ s <= n
  BY <1>2, StopsAtIs
<1>4. n \in {1, m}
  BY <1>1, <1>2 DEF parse_slash_values, expected_value_amount
<1>5. n <= m
  BY <1>1, <1>4
<1> DEFINE stop   == IF s = 0 THEN n ELSE s
           opened == {i - 1 : i \in {j \in 1 .. n : m = 1 /\ list[j].open}}
           bounds == {stop, m + 1, Room + 1} \cup opened
<1>6. Used(list) = Min(bounds)
  BY <1>1, <1>2, <1>3, Zenon DEF Used, expected_value_amount
<1>7. opened \subseteq Nat
  <2>1. \A i \in 1 .. n : i - 1 \in Nat
    OBVIOUS
  <2> QED BY <2>1, Zenon
<1>8. stop \in Nat /\ stop <= m /\ m + 1 \in Nat /\ Room + 1 \in Nat
  BY <1>3, <1>5, ParamSetAssumption
<1> HIDE DEF opened, stop
<1>9. bounds \subseteq Nat /\ stop \in bounds
  BY <1>7, <1>8
<1> HIDE DEF bounds
<1>10. Min(bounds) \in bounds /\ \A b \in bounds : Min(bounds) <= b
  <2>1. \E x \in bounds : \A y \in bounds : x <= y
    BY <1>9, LeastOf, Zenon
  <2> QED BY <2>1, Zenon DEF Min
<1>11. PICK u \in Nat : u = Used(list) /\ u <= stop
  BY <1>6, <1>9, <1>10
<1> QED BY <1>1, <1>8, <1>11

(* A name is parsed.                                                       *)
LEMMA ParseNameStep ==
  ASSUME SetInv, NEW list \in TokenLists, NEW force \in BOOLEAN, ParseName(list, force)
  PROVE  SetInv'
<1> DEFINE offsets == NameOffsets(list)
           refused == \/ offsets.error
                      \/ hasDuplicates(offsets.list)
                      \/ (array_size = 1 /\ Len(offsets.list) > 1)
                      \/ (readonly /\ ~force)
<1>1. /\ pc = "name" /\ tokens' = list
      /\ pc' = IF refused THEN "error" ELSE "values"
      /\ offset_array' = IF refused THEN << >> ELSE offsets.list
      /\ UNCHANGED <<array_size, readonly, whole, args, read, queue>>
  BY Zenon DEF ParseName, NameOffsets, parVars
<1>2. args = << >> /\ read = 0 /\ queue = << >>
  BY <1>1 DEF SetInv
<1>3. array_size \in Nat \ {0} /\ list \in Seq(Token)
  BY ParamSetAssumption DEF SetInv
<1>4. /\ offsets \in Parsed
      /\ ~offsets.error =>
           /\ Len(offsets.list) > 0 /\ Len(offsets.list) <= array_size
           /\ ~whole /\ ProperTo(list, array_size, Len(list)) => Elems(offsets.list) = ElementsOf(list)
      /\ Reasonable(list, array_size) => ~offsets.error /\ Distinct(offsets.list)
  BY <1>3, NameOffsetsAre, Zenon
<1> HIDE DEF offsets
<1>5. PICK o \in Seq(Int) : o = offsets.list /\ offsets.error \in BOOLEAN
  BY <1>4 DEF Parsed
<1>6. PICK m \in Nat : m = Len(o) /\ DOMAIN o = 1 .. m
  BY LenProperties
<1>7. Distinct(o) <=> ~hasDuplicates(o)
  <2>1. ASSUME NEW i \in 1 .. m, NEW j \in 1 .. m, i # j PROVE i < j \/ j < i
    BY <2>1
  <2>2. ASSUME NEW i \in 1 .. m, NEW j \in 1 .. m, i < j PROVE i # j
    BY <2>2
  <2> QED BY <1>6, <2>1, <2>2, Zenon DEF Distinct, hasDuplicates
<1>8. PICK n \in Nat : n = Len(list) /\ DOMAIN list = 1 .. n
  BY <1>3, LenProperties
<1>9. UNCHANGED <<array_size, readonly, whole>> /\ Elements' = ElementsOf(list)
      /\ (Proper' <=> ProperTo(list, array_size, n)) /\ (Refusable(tokens)' <=> Refusable(list))
  <2>1. UNCHANGED <<array_size, readonly, whole>>
    BY <1>1
  <2>2. Elements' = ElementsOf(list)
    BY <1>1, <2>1, Zenon DEF Elements, ElementsOf
  <2>3. Proper' <=> ProperTo(list, array_size, n)
    BY <1>1, <1>8, <2>1, Zenon DEF Proper, ProperTo
  <2>4. Refusable(tokens)' <=> Refusable(list)
    <3>1. readonly' <=> readonly
      BY <2>1
    <3>2. Reasonable(tokens', array_size') <=> Reasonable(list, array_size)
      BY <1>1, <2>1
    <3> QED BY <3>1, <3>2, Zenon DEF Refusable
  <2> QED BY <2>1, <2>2, <2>3, <2>4
<1>10. CASE refused
  <2>1. /\ pc' = "error" /\ offset_array' = << >> /\ read' = 0 /\ queue' = << >>
    BY <1>1, <1>2, <1>10, Zenon
  <2>2. Refusable(list)
    <3> SUFFICES ASSUME ~readonly, Reasonable(list, array_size) PROVE FALSE
      BY DEF Refusable
    <3>1. ~offsets.error /\ Distinct(o) /\ Len(o) <= array_size
      BY <1>4, <1>5, Zenon
    <3>2. ~(array_size = 1 /\ Len(o) > 1)
      BY <1>3, <1>6, <3>1
    <3> QED BY <1>5, <1>7, <1>10, <3>1, <3>2, Zenon
  <2>3. << >> \in Seq(Int) /\ Len(<< >>) = 0 /\ DOMAIN << >> = {} /\ 0 <= 0
    BY EmptySeq
  <2>4. offset_array' \in Seq(Int) /\ read' \in Nat /\ read' <= Len(offset_array') /\ DOMAIN queue' = {}
    BY <2>1, <2>3
  <2>5. args' \in Seq(AnyArg) /\ tokens' \in Seq(Token)
    BY <1>1, <1>3 DEF SetInv
  <2>6. /\ pc' # "name" /\ pc' # "values" /\ pc' # "pushed"
        /\ pc' \in {"name", "values", "pushed", "error"}
    BY <2>1
  <2>7. array_size' \in Sizes /\ readonly' \in BOOLEAN /\ whole' \in BOOLEAN
    BY <1>1 DEF SetInv
  <2>8. \A i \in DOMAIN queue' : queue'[i].offset \in Int
    BY <2>4
  <2>9. pc' \notin {"values", "pushed"}
    BY <2>1
  <2> QED BY <1>9, <2>2, <2>4, <2>5, <2>6, <2>7, <2>8, <2>9, Zenon DEF SetInv
<1>11. CASE ~refused
  <2>1. pc' = "values" /\ offset_array' = o /\ ~offsets.error /\ Distinct(o)
    BY <1>1, <1>5, <1>7, <1>11, Zenon
  <2>2. Len(o) > 0 /\ (~whole /\ ProperTo(list, array_size, n) => Elems(o) = ElementsOf(list))
    BY <1>4, <1>5, <1>8, <2>1, Zenon
  <2>3. read' \in Nat /\ read' <= Len(offset_array') /\ queue' = << >>
    BY <1>1, <1>2, <1>6, <2>1
  <2>4. \A i \in DOMAIN queue' : queue'[i].offset \in Int
    BY <2>3
  <2>5. args' \in Seq(AnyArg) /\ tokens' \in Seq(Token) /\ tokens' \in TokenLists
    BY <1>1, <1>3 DEF SetInv
  <2>6. /\ pc' # "name" /\ pc' # "error" /\ pc' # "pushed"
        /\ pc' \in {"name", "values", "pushed", "error"}
    BY <2>1
  <2>7. array_size' \in Sizes /\ readonly' \in BOOLEAN /\ whole' \in BOOLEAN
    BY <1>1 DEF SetInv
  <2> QED BY <1>9, <2>1, <2>2, <2>3, <2>4, <2>5, <2>6, <2>7, Zenon DEF SetInv
<1> QED BY <1>10, <1>11

(* Values are taken or refused.                                            *)
LEMMA ValuesStep ==
  ASSUME SetInv, NEW list \in ArgLists(tokens), pc = "values",
         \/ SetSingle(list) \/ SetList(list) \/ RefuseValues(list)
         \/ \E k \in DOMAIN list : InvalidValue(list, k)
  PROVE  SetInv'
<1>1. /\ list \in Seq(AnyArg) /\ list # << >> /\ tokens \in TokenLists
      /\ offset_array \in Seq(Int) /\ Len(offset_array) > 0 /\ queue = << >>
  <2>1. tokens \in TokenLists /\ queue = << >>
    BY DEF SetInv
  <2> QED BY <2>1, ParamSetAssumption, Zenon DEF SetInv
<1>2. PICK m \in Nat : m = Len(offset_array) /\ DOMAIN offset_array = 1 .. m /\ m > 0
  BY <1>1, LenProperties
<1>3. ASSUME UNCHANGED <<array_size, readonly, whole, tokens, offset_array>>, args' = list,
             read' \in Nat, read' <= m,
             \/ pc' = "error" /\ queue' = queue
             \/ /\ pc' = "pushed"
                /\ \A i \in DOMAIN queue' : queue'[i].offset \in Int
                /\ m <= Room => /\ Len(queue') = m
                                /\ \A i \in DOMAIN queue' : queue'[i].offset = offset_array[i]
      PROVE  SetInv'
  <2>1. Elements' = Elements /\ (Proper' <=> Proper)
    BY <1>3, Zenon DEF Elements, Proper
  <2>2. /\ pc' # "name" /\ pc' # "values" /\ pc' \in {"name", "values", "pushed", "error"}
        /\ ~(pc' = "error" /\ args' = << >>)
    BY <1>1, <1>3
  <2>3. \A i \in DOMAIN queue' : queue'[i].offset \in Int
    <3>1. DOMAIN << >> = {}
      OBVIOUS
    <3> QED BY <1>1, <1>3, <3>1
  <2>4. /\ array_size' \in Sizes /\ readonly' \in BOOLEAN /\ whole' \in BOOLEAN
        /\ tokens' \in Seq(Token) /\ args' \in Seq(AnyArg) /\ offset_array' \in Seq(Int)
        /\ read' \in Nat /\ read' <= Len(offset_array')
    BY <1>1, <1>2, <1>3 DEF SetInv
  <2>5. /\ tokens' \in TokenLists /\ Len(offset_array') > 0 /\ Distinct(offset_array')
        /\ ~whole' /\ Proper' => Elems(offset_array') = Elements'
    <3>1. /\ tokens \in TokenLists /\ Len(offset_array) > 0 /\ Distinct(offset_array)
          /\ ~whole /\ Proper => Elems(offset_array) = Elements
      BY Zenon DEF SetInv
    <3>2. whole' <=> whole
      BY <1>3
    <3> QED BY <1>3, <2>1, <3>1, <3>2, Zenon
  <2>6. pc' = "pushed" /\ Len(offset_array') <= Room =>
          /\ Len(queue') = Len(offset_array')
          /\ \A i \in DOMAIN queue' : queue'[i].offset = offset_array'[i]
    <3>1. "error" # "pushed"
      OBVIOUS
    <3> QED BY <1>2, <1>3, <3>1, Zenon
  <2> QED BY <2>2, <2>3, <2>4, <2>5, <2>6, Zenon DEF SetInv
<1>4. ASSUME parse_slash_values(list) PROVE Used(list) \in Nat /\ Used(list) <= m
  BY <1>1, <1>2, <1>4, LoopBound
<1>5. CASE SetSingle(list)
  <2>1. /\ UNCHANGED <<array_size, readonly, whole, tokens, offset_array>> /\ args' = list
        /\ read' = m /\ pc' = "pushed"
        /\ queue' = [i \in 1 .. Min({m, Room}) |->
                       [offset |-> offset_array[i], value |-> list[1].value]]
    BY <1>2, <1>5 DEF SetSingle, expected_value_amount, parVars
  <2>2. PICK n : n = Min({m, Room})
    OBVIOUS
  <2>3. n \in Nat /\ n <= m /\ (m <= Room => n = m)
    <3>1. PICK b \in Nat : b = Room
      BY ParamSetAssumption
    <3>2. \E x \in {m, b} : \A y \in {m, b} : x <= y
      OBVIOUS
    <3>3. n \in {m, b} /\ \A y \in {m, b} : n <= y
      BY <2>2, <3>1, <3>2, Zenon DEF Min
    <3> QED BY <3>1, <3>3
  <2>4. \A i \in 1 .. n : offset_array[i] \in Int
    BY <1>1, <1>2, <2>3, ElementOfSeq
  <2>5. /\ Len(queue') = n /\ DOMAIN queue' = 1 .. n
        /\ \A i \in 1 .. n : queue'[i].offset = offset_array[i]
    BY <2>1, <2>2, <2>3
  <2>6. read' \in Nat /\ read' <= m
    BY <2>1
  <2>7. \A i \in DOMAIN queue' : queue'[i].offset \in Int /\ queue'[i].offset = offset_array[i]
    BY <2>4, <2>5
  <2>8. m <= Room => Len(queue') = m
    BY <2>3, <2>5
  <2> QED BY <1>3, <2>1, <2>6, <2>7, <2>8, Zenon
<1>6. CASE SetList(list)
  <2>1. /\ UNCHANGED <<array_size, readonly, whole, tokens, offset_array>> /\ args' = list
        /\ read' = Used(list) /\ pc' = "pushed" /\ parse_slash_values(list)
        /\ StopsAt(list) = m
        /\ queue' = [i \in 1 .. StopsAt(list) |->
                       [offset |-> IF i \in DOMAIN offset_array THEN offset_array[i] ELSE None,
                        value |-> list[i].value]]
    BY <1>2, <1>6, Zenon DEF SetList, ListRefused, expected_value_amount, parVars
  <2>2. /\ Len(queue') = m /\ DOMAIN queue' = 1 .. m
        /\ \A i \in 1 .. m : queue'[i].offset = offset_array[i]
    BY <1>2, <2>1
  <2>3. \A i \in 1 .. m : offset_array[i] \in Int
    BY <1>1, <1>2, ElementOfSeq
  <2>4. \A i \in DOMAIN queue' : queue'[i].offset \in Int /\ queue'[i].offset = offset_array[i]
    BY <2>2, <2>3
  <2>5. read' \in Nat /\ read' <= m
    BY <1>4, <2>1
  <2> QED BY <1>3, <2>1, <2>2, <2>4, <2>5, Zenon
<1>7. CASE RefuseValues(list)
  <2>1. /\ UNCHANGED <<array_size, readonly, whole, tokens, offset_array, queue>> /\ args' = list
        /\ read' = (IF parse_slash_values(list) THEN Used(list) ELSE 0) /\ pc' = "error"
    BY <1>7 DEF RefuseValues, parVars
  <2>2. read' \in Nat /\ read' <= m
    BY <1>2, <1>4, <2>1
  <2> QED BY <1>3, <2>1, <2>2, Zenon
<1>8. ASSUME NEW k \in DOMAIN list, InvalidValue(list, k) PROVE SetInv'
  <2>1. /\ UNCHANGED <<array_size, readonly, whole, tokens, offset_array, queue>> /\ args' = list
        /\ read' = k - 1 /\ pc' = "error" /\ parse_slash_values(list)
        /\ k <= (IF SingleValue(list) THEN 1 ELSE Used(list))
    BY <1>8 DEF InvalidValue, parVars
  <2>2. k \in Nat \ {0}
    BY <1>1, LenProperties
  <2>3. read' \in Nat /\ read' <= m
    <3>1. PICK u \in Nat : u = Used(list) /\ u <= m
      BY <1>4, <2>1
    <3>2. k <= 1 \/ k <= u
      BY <2>1, <3>1, Zenon
    <3> QED BY <2>1, <2>2, <3>1, <3>2
  <2> QED BY <1>3, <2>1, <2>3, Zenon
<1> QED BY <1>5, <1>6, <1>7, <1>8, Zenon

(* Each step of `set` keeps the invariant, ...                             *)
LEMMA SetStep == SetInv /\ [Next]_vars => SetInv'
<1> SUFFICES ASSUME SetInv, [Next]_vars PROVE SetInv'
  OBVIOUS
<1>1. CASE pc = "name" /\ ParseNext
  BY <1>1, ParseNameStep, Zenon DEF ParseNext
<1>2. CASE pc = "values" /\ ValuesNext
  BY <1>2, ValuesStep, Zenon DEF ValuesNext
<1>3. CASE UNCHANGED vars
  <2>1. /\ pc' = pc /\ array_size' = array_size /\ readonly' = readonly /\ whole' = whole
        /\ tokens' = tokens /\ args' = args /\ offset_array' = offset_array /\ read' = read
        /\ queue' = queue
    BY <1>3, Zenon DEF vars, parVars
  <2>2. Elements' = Elements /\ (Proper' <=> Proper)
    BY <2>1, Zenon DEF Elements, Proper
  <2>3. (readonly' <=> readonly) /\ (whole' <=> whole)
    BY <2>1
  <2>4. Refusable(tokens)' <=> Refusable(tokens)
    <3>1. Reasonable(tokens', array_size') <=> Reasonable(tokens, array_size)
      BY <2>1
    <3> QED BY <2>3, <3>1, Zenon DEF Refusable
  <2> QED BY <2>1, <2>2, <2>3, <2>4, Zenon DEF SetInv
<1> QED BY <1>1, <1>2, <1>3, Zenon DEF Next

(* ... which holds at first.                                               *)
LEMMA SetInit == Init => SetInv
<1> SUFFICES ASSUME Init PROVE SetInv
  OBVIOUS
<1>1. /\ pc = "name" /\ array_size \in Sizes /\ readonly \in BOOLEAN /\ whole \in BOOLEAN
      /\ tokens = << >> /\ args = << >> /\ offset_array = << >> /\ read = 0 /\ queue = << >>
  BY DEF Init
<1>2. << >> \in Seq(Token) /\ << >> \in Seq(AnyArg) /\ << >> \in Seq(Int) /\ Len(<< >>) = 0
      /\ DOMAIN << >> = {} /\ 0 \in Nat /\ 0 <= 0
  BY EmptySeq
<1>3. pc # "values" /\ pc # "pushed" /\ pc # "error" /\ pc \in {"name", "values", "pushed", "error"}
  BY <1>1
<1>4. pc \notin {"values", "pushed"} /\ \A i \in DOMAIN queue : queue[i].offset \in Int
  BY <1>1, <1>2, <1>3
<1> QED BY <1>1, <1>2, <1>3, <1>4, Zenon DEF SetInv

(* For every size of the array and every text between the brackets: the    *)
(* offsets taken are exactly the elements the tokens name, each once, and  *)
(* a name is refused only for a reason (param_offsets_parse_from_str,      *)
(* hasDuplicates).                                                         *)
THEOREM SetOffsetsAreElements == Spec => []OffsetsAreElements
<1>1. SetInv => OffsetsAreElements
  BY SetInvGives, Zenon
<1> QED BY <1>1, SetInit, SetStep, PTL DEF Spec

(* ... the loop over the values stays within the offsets, and every chosen *)
(* element gets one value, in order (cmd_set).                             *)
THEOREM SetEveryOffset == Spec => []EveryOffsetSet
<1>1. SetInv => EveryOffsetSet
  BY SetInvGives, Zenon
<1> QED BY <1>1, SetInit, SetStep, PTL DEF Spec

-----------------------------------------------------------------------------
(* The expansion of a line.                                                *)

(* What an expansion is from the reference that opens at a place, and from *)
(* the last n characters, given it for fewer.                              *)
FromOpen(line, last, open) ==
  IF X!Closing(line, open) = {} THEN << >>
  ELSE X!ValueOf(SubSeq(line, open + 2, X!Min(X!Closing(line, open)) - 1))
         \o last[Len(line) - X!Min(X!Closing(line, open))]

FromLast(line, last, n) ==
  IF X!Opening(line, n) = {} THEN SubSeq(line, Len(line) - n + 1, Len(line))
  ELSE SubSeq(line, Len(line) - n + 1, X!Min(X!Opening(line, n)) - 1)
         \o FromOpen(line, last, X!Min(X!Opening(line, n)))

IsExpansion(line, n, last) == last = [m \in 0 .. n |-> FromLast(line, last, m)]

(* The smallest of some numbers, in the instance.                          *)
LEMMA MinIs ==
  ASSUME NEW S, S \subseteq Nat, S # {}
  PROVE  X!Min(S) \in S /\ \A y \in S : X!Min(S) <= y
<1>1. \E x \in S : \A y \in S : x <= y
  BY LeastOf, Zenon
<1> QED BY <1>1, Zenon DEF X!Min

(* Where a reference opens and closes.                                     *)
LEMMA OpeningIs ==
  ASSUME NEW line \in Seq(STRING), NEW n \in 0 .. Len(line), X!Opening(line, n) # {}
  PROVE  /\ X!Min(X!Opening(line, n)) \in Len(line) - n + 1 .. Len(line) - 2
         /\ X!Min(X!Opening(line, n)) \in X!Opening(line, n)
         /\ \A j \in X!Opening(line, n) : X!Min(X!Opening(line, n)) <= j
<1>1. PICK l \in Nat : l = Len(line)
  BY LenProperties
<1>2. X!Opening(line, n) \subseteq l - n + 1 .. l - 2
  BY <1>1 DEF X!Opening
<1>3. l - n + 1 .. l - 2 \subseteq Nat
  BY <1>1
<1>4. X!Opening(line, n) \subseteq Nat
  BY <1>2, <1>3
<1> QED BY <1>1, <1>2, <1>4, MinIs, Zenon

(* ... and where it closes.                                               *)
LEMMA ClosingIs ==
  ASSUME NEW line \in Seq(STRING), NEW open \in Nat, X!Closing(line, open) # {}
  PROVE  /\ X!Min(X!Closing(line, open)) \in open + 2 .. Len(line)
         /\ X!Min(X!Closing(line, open)) \in X!Closing(line, open)
         /\ \A j \in X!Closing(line, open) : X!Min(X!Closing(line, open)) <= j
<1>1. PICK l \in Nat : l = Len(line)
  BY LenProperties
<1>2. X!Closing(line, open) \subseteq open + 2 .. l
  BY <1>1 DEF X!Closing
<1>3. open + 2 .. l \subseteq Nat
  BY <1>1
<1>4. X!Closing(line, open) \subseteq Nat
  BY <1>2, <1>3
<1> QED BY <1>1, <1>2, <1>4, MinIs, Zenon

(* The expansion of the last n characters depends on that of fewer.        *)
LEMMA FromFewer ==
  ASSUME NEW line \in Seq(STRING), NEW n \in 0 .. Len(line), NEW f, NEW g,
         \A i \in 0 .. n - 1 : f[i] = g[i]
  PROVE  FromLast(line, f, n) = FromLast(line, g, n)
<1>1. PICK l \in Nat : l = Len(line)
  BY LenProperties
<1>2. CASE X!Opening(line, n) = {}
  BY <1>2, Zenon DEF FromLast
<1>3. CASE X!Opening(line, n) # {}
  <2>1. PICK open \in l - n + 1 .. l - 2 : open = X!Min(X!Opening(line, n))
    BY <1>1, <1>3, OpeningIs, Zenon
  <2>2. open \in Nat
    BY <1>1, <2>1
  <2>3. FromOpen(line, f, open) = FromOpen(line, g, open)
    <3>1. CASE X!Closing(line, open) = {}
      BY <3>1, Zenon DEF FromOpen
    <3>2. CASE X!Closing(line, open) # {}
      <4>1. PICK close \in open + 2 .. l : close = X!Min(X!Closing(line, open))
        BY <1>1, <2>2, <3>2, ClosingIs, Zenon
      <4>2. l - close \in 0 .. n - 1
        BY <1>1, <2>1, <4>1
      <4>3. f[l - close] = g[l - close]
        BY <4>2
      <4> QED BY <1>1, <4>1, <4>3, Zenon DEF FromOpen
    <3> QED BY <3>1, <3>2
  <2> QED BY <2>1, <2>3, Zenon DEF FromLast
<1> QED BY <1>2, <1>3

(* The function of all of them exists.                                     *)
LEMMA ExpansionExists ==
  ASSUME NEW line \in Seq(STRING), NEW n \in 0 .. Len(line)
  PROVE  \E last : IsExpansion(line, n, last)
<1>1. PICK l \in Nat : l = Len(line)
  BY LenProperties
<1> DEFINE T == {m \in 0 .. n : \E last : IsExpansion(line, m, last)}
<1>2. 0 \in T
  <2>1. PICK empty : empty = << >>
    OBVIOUS
  <2> DEFINE last == [m \in 0 .. 0 |-> FromLast(line, empty, 0)]
  <2>2. FromLast(line, last, 0) = FromLast(line, empty, 0)
    <3>1. \A i \in 0 .. 0 - 1 : last[i] = empty[i]
      OBVIOUS
    <3>2. 0 \in 0 .. Len(line)
      BY <1>1
    <3> HIDE DEF last
    <3> QED BY <3>1, <3>2, FromFewer, Zenon
  <2>3. last = [m \in 0 .. 0 |-> FromLast(line, last, m)]
    <3> DEFINE v == FromLast(line, empty, 0)
    <3>1. \A m \in 0 .. 0 : m = 0
      OBVIOUS
    <3>2. last = [m \in 0 .. 0 |-> v]
      OBVIOUS
    <3> HIDE DEF last
    <3>3. \A m \in 0 .. 0 : FromLast(line, last, m) = v
      BY <2>2, <3>1, Zenon
    <3> HIDE DEF v
    <3> QED BY <3>2, <3>3, Zenon
  <2> HIDE DEF last
  <2>4. IsExpansion(line, 0, last)
    BY <2>3, Zenon DEF IsExpansion
  <2>5. 0 \in 0 .. n
    OBVIOUS
  <2> QED BY <2>4, <2>5, Zenon
<1>3. ASSUME NEW m \in 0 .. n - 1, m \in T PROVE m + 1 \in T
  <2>1. PICK f : IsExpansion(line, m, f)
    BY <1>3
  <2> DEFINE value == FromLast(line, f, m + 1)
             g     == [i \in 0 .. m + 1 |-> IF i = m + 1 THEN value ELSE f[i]]
  <2>2. g[m + 1] = value /\ \A i \in 0 .. m : g[i] = f[i] /\ i # m + 1
    OBVIOUS
  <2>3. g = [i \in 0 .. m + 1 |-> g[i]]
    OBVIOUS
  <2> HIDE DEF g
  <2>4. \A i \in 0 .. m : f[i] = FromLast(line, f, i)
    BY <2>1, Zenon DEF IsExpansion
  <2>5. ASSUME NEW i \in 0 .. m + 1 PROVE g[i] = FromLast(line, g, i)
    <3>1. i \in 0 .. Len(line) /\ \A j \in 0 .. i - 1 : j \in 0 .. m
      BY <1>1
    <3>2. FromLast(line, g, i) = FromLast(line, f, i)
      BY <2>2, <3>1, FromFewer, Zenon
    <3>3. i = m + 1 \/ i \in 0 .. m
      OBVIOUS
    <3> QED BY <2>2, <2>4, <3>2, <3>3, Zenon
  <2>6. IsExpansion(line, m + 1, g)
    BY <2>3, <2>5, Zenon DEF IsExpansion
  <2>7. m + 1 \in 0 .. n
    OBVIOUS
  <2> QED BY <2>6, <2>7, Zenon
<1>4. \A m \in 0 .. n : m \in T
  <2> HIDE DEF T
  <2>1. \A m \in 0 .. n - 1 : m \in T => m + 1 \in T
    BY <1>3
  <2>2. n \in Nat
    BY <1>1
  <2> QED BY <1>2, <2>1, <2>2, UpTo, Zenon
<1>5. n \in 0 .. n
  BY <1>1
<1> QED BY <1>4, <1>5

(* The value of a variable, or of no variable, is a text.                  *)
LEMMA ValueIs == \A name : X!ValueOf(name) \in Seq(STRING)
<1>1. << >> \in Seq(STRING)
  BY EmptySeq
<1> QED BY <1>1, ExpandAssumption, Zenon DEF X!ValueOf, X!ExpandAssumption

(* The expansion of a line, by what it is for its last characters.         *)
LEMMA ExpansionIs ==
  ASSUME NEW line \in Seq(STRING)
  PROVE  \E last : /\ \A m \in 0 .. Len(line) : /\ last[m] = FromLast(line, last, m)
                                                /\ last[m] \in Seq(STRING)
                   /\ X!Expansion(line) = last[Len(line)]
<1>1. PICK l \in Nat : l = Len(line)
  BY LenProperties
<1> DEFINE last == CHOOSE last : IsExpansion(line, Len(line), last)
<1>2. X!Expansion(line) = last[Len(line)]
  BY Zenon DEF X!Expansion, IsExpansion, FromLast, FromOpen
<1>3. IsExpansion(line, l, last)
  <2>1. l \in 0 .. Len(line)
    BY <1>1
  <2> QED BY <1>1, <2>1, ExpansionExists, Zenon
<1> HIDE DEF last
<1>4. \A m \in 0 .. l : last[m] = FromLast(line, last, m)
  BY <1>3, Zenon DEF IsExpansion
<1> DEFINE T == {m \in 0 .. l : \A i \in 0 .. m : last[i] \in Seq(STRING)}
<1>5. ASSUME NEW m \in 0 .. l, \A i \in 0 .. m - 1 : last[i] \in Seq(STRING)
      PROVE  last[m] \in Seq(STRING)
  <2>1. \A a, b \in Nat : a >= 1 /\ b <= l => SubSeq(line, a, b) \in Seq(STRING)
    <3> SUFFICES ASSUME NEW a \in Nat, NEW b \in Nat, a >= 1, b <= l
                 PROVE  SubSeq(line, a, b) \in Seq(STRING)
      OBVIOUS
    <3>1. \A i \in a .. b : line[i] \in STRING
      BY <1>1, ElementOfSeq
    <3> QED BY <3>1, SubSeqProperties
  <2>2. CASE X!Opening(line, m) = {}
    <3>1. last[m] = SubSeq(line, l - m + 1, l)
      BY <1>1, <1>4, <2>2, Zenon DEF FromLast
    <3>2. l - m + 1 \in Nat /\ l - m + 1 >= 1 /\ l <= l
      BY <1>1
    <3> QED BY <2>1, <3>1, <3>2
  <2>3. CASE X!Opening(line, m) # {}
    <3>1. PICK open \in l - m + 1 .. l - 2 : open = X!Min(X!Opening(line, m))
      BY <1>1, <2>3, OpeningIs, Zenon
    <3>2. last[m] = SubSeq(line, l - m + 1, open - 1) \o FromOpen(line, last, open)
      BY <1>1, <1>4, <2>3, <3>1, Zenon DEF FromLast
    <3>3. l - m + 1 \in Nat /\ l - m + 1 >= 1 /\ open - 1 <= l /\ open - 1 \in Nat /\ open \in Nat
      BY <1>1, <3>1
    <3>4. SubSeq(line, l - m + 1, open - 1) \in Seq(STRING)
      BY <2>1, <3>3
    <3>5. FromOpen(line, last, open) \in Seq(STRING)
      <4>1. CASE X!Closing(line, open) = {}
        <5>1. FromOpen(line, last, open) = << >>
          BY <4>1, Zenon DEF FromOpen
        <5> QED BY <5>1, EmptySeq
      <4>2. CASE X!Closing(line, open) # {}
        <5>1. PICK close \in open + 2 .. l : close = X!Min(X!Closing(line, open))
          BY <1>1, <3>3, <4>2, ClosingIs, Zenon
        <5>2. l - close \in 0 .. m - 1
          BY <1>1, <3>1, <5>1
        <5>3. last[l - close] \in Seq(STRING)
          BY <1>5, <5>2
        <5>4. PICK v \in Seq(STRING) : v = X!ValueOf(SubSeq(line, open + 2, close - 1))
          BY ValueIs
        <5>5. FromOpen(line, last, open) = v \o last[l - close]
          BY <1>1, <4>2, <5>1, <5>4, Zenon DEF FromOpen
        <5>6. v \o last[l - close] \in Seq(STRING)
          BY <5>3, ConcatProperties, Zenon
        <5> QED BY <5>5, <5>6
      <4> QED BY <4>1, <4>2
    <3> QED BY <3>2, <3>4, <3>5, ConcatProperties, Zenon
  <2> QED BY <2>2, <2>3
<1>6. 0 \in T
  <2>1. last[0] \in Seq(STRING)
    BY <1>5
  <2>2. 0 \in 0 .. l /\ \A i \in 0 .. 0 : i = 0
    OBVIOUS
  <2> QED BY <2>1, <2>2, Zenon
<1>7. ASSUME NEW m \in 0 .. l - 1, m \in T PROVE m + 1 \in T
  <2>1. m + 1 \in 0 .. l /\ (m + 1) - 1 = m /\ \A i \in 0 .. m + 1 : i \in 0 .. m \/ i = m + 1
    OBVIOUS
  <2>2. last[m + 1] \in Seq(STRING)
    BY <1>5, <1>7, <2>1
  <2> QED BY <1>7, <2>1, <2>2, Zenon
<1>8. \A m \in 0 .. l : m \in T
  <2> HIDE DEF T
  <2>1. \A m \in 0 .. l - 1 : m \in T => m + 1 \in T
    BY <1>7
  <2> QED BY <1>6, <2>1, UpTo, Zenon
<1>9. \A m \in 0 .. l : m \in 0 .. m
  OBVIOUS
<1> QED BY <1>1, <1>2, <1>4, <1>8, <1>9, Zenon

(* What has been written, and what the rest of the line will add to it, is *)
(* the expansion of the line; in a reference the rest is what follows its  *)
(* opening, and the name has no end yet.                                   *)
WrittenAnd(last) ==
  /\ \A m \in 0 .. Len(input) : last[m] = FromLast(input, last, m) /\ last[m] \in Seq(STRING)
  /\ X!Expansion(input) = last[Len(input)]
  /\ ~in_var => res \o last[Len(input) - idx] = X!Expansion(input)
  /\ in_var => res \o FromOpen(input, last, var_s - 1) = X!Expansion(input)

ExpandInv ==
  /\ expand_pc \in {"idle", "scan", "done"} /\ in_var \in BOOLEAN
  /\ input \in Seq(STRING) /\ res \in Seq(STRING)
  /\ res_len \in Nat /\ Len(res) <= res_len
  /\ idx \in 0 .. Len(input) /\ var_s \in Nat
  /\ expand_pc = "idle" => ~in_var /\ idx = 0 /\ res = << >>
  /\ expand_pc = "scan" =>
       /\ \E last : WrittenAnd(last)
       /\ in_var => /\ var_s > 1 /\ idx >= var_s - 1 /\ input[var_s] = "("
                    /\ \A j \in var_s + 1 .. idx : input[j] # ")"
  /\ expand_pc = "done" => res = X!Expansion(input)

(* The buffer grows as far as a piece needs.                               *)
LEMMA GrownIs ==
  ASSUME res \in Seq(STRING), res_len \in Nat, Len(res) <= res_len, NEW piece \in Seq(STRING)
  PROVE  /\ X!Grown(res_len, piece) \in Nat
         /\ res \o piece \in Seq(STRING) /\ Len(res \o piece) <= X!Grown(res_len, piece)
<1>1. PICK r \in Nat, p \in Nat, s \in Nat \ {0} : r = Len(res) /\ p = Len(piece) /\ s = Step
  BY LenProperties, ExpandAssumption DEF X!ExpandAssumption
<1>2. res \o piece \in Seq(STRING) /\ Len(res \o piece) = r + p
  BY <1>1, ConcatProperties
<1> DEFINE q == (r + p - res_len + s - 1) \div s
<1>3. X!Grown(res_len, piece) = IF r + p > res_len THEN res_len + s * q ELSE res_len
  BY <1>1 DEF X!Grown
<1>4. r + p > res_len => q \in Nat /\ r + p - res_len <= s * q
  <2> SUFFICES ASSUME r + p > res_len PROVE q \in Nat /\ r + p - res_len <= s * q
    OBVIOUS
  <2>0. r + p - res_len + s - 1 \in Nat
    BY <1>1
  <2>1. PICK x \in Nat : x = r + p - res_len + s - 1
    BY <2>0
  <2>2. q = x \div s
    BY <2>1
  <2> HIDE DEF q
  <2>3. q \in Int /\ s * q <= x /\ x < s * q + s
    BY <2>2
  <2>4. x >= s
    BY <2>1
  <2>5. r + p - res_len <= s * q
    BY <2>1, <2>3
  <2>6. q \in Nat
    <3> SUFFICES ASSUME q < 0 PROVE FALSE
      BY <2>3
    <3>1. s * q <= 0
      BY <2>3
    <3> QED BY <1>1, <2>3, <2>4, <3>1
  <2> QED BY <2>5, <2>6
<1> HIDE DEF q
<1>5. r + p > res_len => s * q \in Nat
  BY <1>4
<1>6. r <= res_len
  BY <1>1
<1> QED BY <1>2, <1>3, <1>4, <1>5, <1>6

(* A text of one character.                                                *)
LEMMA OneElement ==
  ASSUME NEW S, NEW c \in S
  PROVE  <<c>> \in Seq(S)
OBVIOUS

(* Associating what was written with what will be.                         *)
LEMMA Regroup ==
  ASSUME NEW a \in Seq(STRING), NEW b \in Seq(STRING), NEW c \in Seq(STRING), NEW d, d = b \o c
  PROVE  (a \o b) \o c = a \o d
<1>1. (a \o b) \o c = a \o (b \o c)
  BY ConcatAssociative
<1> QED BY <1>1

(* What follows an opening is a text.                                      *)
LEMMA FromOpenTyped ==
  ASSUME NEW line \in Seq(STRING), NEW open \in Nat, NEW last,
         \A m \in 0 .. Len(line) : last[m] \in Seq(STRING)
  PROVE  FromOpen(line, last, open) \in Seq(STRING)
<1>1. PICK n \in Nat : n = Len(line)
  BY LenProperties
<1>2. CASE X!Closing(line, open) = {}
  <2>1. FromOpen(line, last, open) = << >>
    BY <1>2, Zenon DEF FromOpen
  <2> QED BY <2>1, EmptySeq
<1>3. CASE X!Closing(line, open) # {}
  <2>1. PICK close \in open + 2 .. n : close = X!Min(X!Closing(line, open))
    BY <1>1, <1>3, ClosingIs
  <2>2. n - close \in 0 .. n
    BY <2>1
  <2>3. PICK v \in Seq(STRING) : v = X!ValueOf(SubSeq(line, open + 2, close - 1))
    BY ValueIs
  <2>4. FromOpen(line, last, open) = v \o last[n - close]
    BY <1>1, <1>3, <2>1, <2>3, Zenon DEF FromOpen
  <2>5. v \o last[n - close] \in Seq(STRING)
    BY <1>1, <2>2, ConcatProperties, Zenon
  <2> QED BY <2>4, <2>5
<1> QED BY <1>2, <1>3

(* Each step of the expansion keeps the invariant.                         *)
LEMMA ExpandStep == ExpandInv /\ [X!Next]_(X!vars) => ExpandInv'
<1> SUFFICES ASSUME ExpandInv, [X!Next]_(X!vars) PROVE ExpandInv'
  OBVIOUS
<1>1. /\ expand_pc \in {"idle", "scan", "done"} /\ in_var \in BOOLEAN
      /\ input \in Seq(STRING) /\ res \in Seq(STRING)
      /\ res_len \in Nat /\ Len(res) <= res_len
      /\ idx \in 0 .. Len(input) /\ var_s \in Nat
  BY DEF ExpandInv
<1>2. PICK n \in Nat : n = Len(input) /\ DOMAIN input = 1 .. n
  BY <1>1, LenProperties
<1>3. ASSUME NEW line \in Inputs, X!Start(line) PROVE ExpandInv'
  <2>1. line \in Seq(STRING)
    BY ExpandAssumption DEF X!ExpandAssumption
  <2>2. /\ input' = line /\ res_len' = Len(line) /\ expand_pc' = "scan" /\ ~in_var' /\ idx' = 0
        /\ res' = << >> /\ var_s' = var_s
    BY <1>3 DEF ExpandInv, X!Start
  <2>3. PICK l \in Nat : l = Len(line)
    BY <2>1, LenProperties
  <2>4. PICK last : /\ \A m \in 0 .. l : last[m] = FromLast(line, last, m) /\ last[m] \in Seq(STRING)
                    /\ X!Expansion(line) = last[l]
    BY <2>1, <2>3, ExpansionIs, Zenon
  <2>5. last[l] \in Seq(STRING) /\ l - 0 = l
    BY <2>4
  <2>6. << >> \o last[l] = last[l]
    BY <2>5, ConcatEmptySeq, Zenon
  <2>7. X!Expansion(input)' = X!Expansion(line)
    BY <2>2
  <2>8. WrittenAnd(last)'
    BY <2>2, <2>3, <2>4, <2>5, <2>6, <2>7, Zenon DEF WrittenAnd
  <2>9. res' \in Seq(STRING) /\ Len(res') <= res_len' /\ res_len' \in Nat /\ idx' \in 0 .. Len(input')
    BY <2>2, <2>3, EmptySeq
  <2>10. /\ expand_pc' # "idle" /\ expand_pc' # "done" /\ expand_pc' \in {"idle", "scan", "done"}
         /\ in_var' \in BOOLEAN
    BY <1>3, <1>1, <2>2 DEF X!Start
  <2> QED BY <1>1, <2>1, <2>2, <2>8, <2>9, <2>10, Zenon DEF ExpandInv
<1>4. ASSUME expand_pc = "scan", input' = input, expand_pc' = "scan", in_var' \in BOOLEAN,
             res' \in Seq(STRING), res_len' \in Nat, Len(res') <= res_len',
             idx' \in 0 .. n, var_s' \in Nat,
             in_var' => /\ var_s' > 1 /\ idx' >= var_s' - 1 /\ input[var_s'] = "("
                        /\ \A j \in var_s' + 1 .. idx' : input[j] # ")",
             NEW last,
             \A m \in 0 .. n : last[m] = FromLast(input, last, m) /\ last[m] \in Seq(STRING),
             X!Expansion(input) = last[n],
             ~in_var' => res' \o last[n - idx'] = X!Expansion(input),
             in_var' => res' \o FromOpen(input, last, var_s' - 1) = X!Expansion(input)
      PROVE  ExpandInv'
  <2>1. WrittenAnd(last)'
    BY <1>2, <1>4, Zenon DEF WrittenAnd
  <2>2. expand_pc' # "idle" /\ expand_pc' # "done" /\ expand_pc' \in {"idle", "scan", "done"}
    BY <1>4
  <2> QED BY <1>1, <1>2, <1>4, <2>1, <2>2, Zenon DEF ExpandInv
<1>5. ASSUME X!More
      PROVE  /\ expand_pc = "scan" /\ idx < n
             /\ in_var => /\ var_s > 1 /\ idx >= var_s - 1 /\ input[var_s] = "("
                          /\ \A j \in var_s + 1 .. idx : input[j] # ")"
             /\ \E last : /\ \A m \in 0 .. n : last[m] = FromLast(input, last, m)
                                               /\ last[m] \in Seq(STRING)
                          /\ X!Expansion(input) = last[n]
                          /\ ~in_var => res \o last[n - idx] = X!Expansion(input)
                          /\ in_var => res \o FromOpen(input, last, var_s - 1) = X!Expansion(input)
  <2>1. expand_pc = "scan" /\ idx < n
    BY <1>2, <1>5 DEF X!More
  <2>2. PICK last : WrittenAnd(last)
    BY <2>1, Zenon DEF ExpandInv
  <2>3. in_var => /\ var_s > 1 /\ idx >= var_s - 1 /\ input[var_s] = "("
                  /\ \A j \in var_s + 1 .. idx : input[j] # ")"
    BY <2>1, Zenon DEF ExpandInv
  <2> QED BY <1>2, <2>1, <2>2, <2>3, Zenon DEF WrittenAnd
<1>6. ASSUME X!OpenReference PROVE ExpandInv'
  <2>1. /\ X!More /\ ~in_var /\ X!Opens /\ in_var' = TRUE /\ var_s' = idx + 2 /\ idx' = idx + 1
        /\ UNCHANGED <<input, res, res_len, expand_pc>>
    BY <1>6 DEF X!OpenReference
  <2>2. idx + 2 < n /\ input[idx + 1] = "$" /\ input[idx + 2] = "("
    <3>1. (idx + 1) + 1 = idx + 2
      BY <1>1, <1>2
    <3> QED BY <1>2, <2>1, <3>1 DEF X!Opens, X!At
  <2>3. PICK last : /\ \A m \in 0 .. n : last[m] = FromLast(input, last, m) /\ last[m] \in Seq(STRING)
                    /\ X!Expansion(input) = last[n]
                    /\ res \o last[n - idx] = X!Expansion(input)
    BY <1>5, <2>1, Zenon
  <2>4. idx \in Nat /\ n - idx \in 0 .. n /\ n - (n - idx) + 1 = idx + 1
    BY <1>1, <1>2
  <2>5. idx + 1 \in X!Opening(input, n - idx)
        /\ \A j \in X!Opening(input, n - idx) : idx + 1 <= j
    BY <1>2, <2>2, <2>4 DEF X!Opening
  <2>6. X!Min(X!Opening(input, n - idx)) = idx + 1
    <3>1. X!Opening(input, n - idx) # {}
      BY <2>5
    <3>2. /\ X!Min(X!Opening(input, n - idx)) \in n - (n - idx) + 1 .. n - 2
          /\ \A j \in X!Opening(input, n - idx) : X!Min(X!Opening(input, n - idx)) <= j
      BY <1>1, <1>2, <2>4, <3>1, OpeningIs, Zenon
    <3> QED BY <2>4, <2>5, <3>2
  <2>7. last[n - idx] = SubSeq(input, idx + 1, idx) \o FromOpen(input, last, idx + 1)
    <3>1. (idx + 1) - 1 = idx
      BY <2>4
    <3>2. X!Opening(input, n - idx) # {}
      BY <2>5
    <3>3. last[n - idx] = SubSeq(input, n - (n - idx) + 1, X!Min(X!Opening(input, n - idx)) - 1)
                            \o FromOpen(input, last, X!Min(X!Opening(input, n - idx)))
      BY <1>2, <2>3, <2>4, <3>2, Zenon DEF FromLast
    <3> QED BY <2>4, <2>6, <3>1, <3>3, Zenon
  <2>8. SubSeq(input, idx + 1, idx) = << >>
    BY <2>4, SubSeqEmpty
  <2>9. FromOpen(input, last, idx + 1) \in Seq(STRING)
    <3>1. idx + 1 \in Nat
      BY <2>4
    <3> QED BY <1>1, <1>2, <2>3, <3>1, FromOpenTyped, Zenon
  <2>10. last[n - idx] = FromOpen(input, last, var_s' - 1)
    <3>1. var_s' - 1 = idx + 1
      BY <2>1, <2>4
    <3>2. << >> \o FromOpen(input, last, idx + 1) = FromOpen(input, last, idx + 1)
      BY <2>9, ConcatEmptySeq, Zenon
    <3> QED BY <2>7, <2>8, <3>1, <3>2, Zenon
  <2>11. res' \o FromOpen(input, last, var_s' - 1) = X!Expansion(input)
    BY <2>1, <2>3, <2>10, Zenon
  <2>12. /\ idx' \in 0 .. n /\ var_s' \in Nat /\ var_s' > 1 /\ idx' >= var_s' - 1
         /\ input[var_s'] = "(" /\ \A j \in var_s' + 1 .. idx' : input[j] # ")"
    BY <2>1, <2>2, <2>4
  <2>13. in_var' \in BOOLEAN /\ in_var' /\ res' \in Seq(STRING) /\ res_len' \in Nat
         /\ Len(res') <= res_len' /\ expand_pc = "scan" /\ expand_pc' = "scan" /\ input' = input
    BY <1>1, <1>5, <2>1
  <2> QED BY <1>4, <2>3, <2>11, <2>12, <2>13, Zenon
<1>7. ASSUME X!CopyChar PROVE ExpandInv'
  <2>1. /\ X!More /\ ~in_var /\ ~X!Opens /\ in_var' = in_var /\ var_s' = var_s /\ idx' = idx + 1
        /\ X!Write(<<X!At(idx)>>) /\ UNCHANGED <<input, expand_pc>>
    BY <1>7 DEF X!CopyChar
  <2>2. /\ idx \in Nat /\ idx < n /\ n - idx \in 0 .. n /\ n - (n - idx) + 1 = idx + 1
        /\ n - (idx + 1) \in 0 .. n /\ n - (n - (idx + 1)) + 1 = idx + 2
        /\ idx + 1 \in 1 .. n /\ idx + 1 \in 0 .. n
    BY <1>1, <1>2, <1>5, <2>1
  <2>3. PICK last : /\ \A m \in 0 .. n : last[m] = FromLast(input, last, m) /\ last[m] \in Seq(STRING)
                    /\ X!Expansion(input) = last[n]
                    /\ res \o last[n - idx] = X!Expansion(input)
    BY <1>5, <2>1, Zenon
  <2>4. PICK piece \in Seq(STRING) : piece = <<input[idx + 1]>>
    <3>1. input[idx + 1] \in STRING
      BY <1>1, <1>2, <2>2, ElementOfSeq
    <3>2. PICK c \in STRING : c = input[idx + 1]
      BY <3>1
    <3>3. <<c>> \in Seq(STRING)
      BY OneElement
    <3> QED BY <3>2, <3>3
  <2>5. res' = res \o piece /\ res_len' = X!Grown(res_len, piece)
    BY <2>1, <2>4 DEF X!Write, X!At
  <2>6. res' \in Seq(STRING) /\ res_len' \in Nat /\ Len(res') <= res_len'
    BY <1>1, <2>5, GrownIs
  <2>7. X!Opening(input, n - idx) = X!Opening(input, n - (idx + 1))
    <3>1. ~(idx + 2 < n /\ input[idx + 1] = "$" /\ input[idx + 2] = "(")
      <4>1. (idx + 1) + 1 = idx + 2
        BY <2>2
      <4> QED BY <1>2, <2>1, <4>1 DEF X!Opens, X!At
    <3>2. X!Opening(input, n - idx) =
            {i \in idx + 1 .. n - 2 : input[i] = "$" /\ input[i + 1] = "("}
      BY <1>2, <2>2, Zenon DEF X!Opening
    <3>3. X!Opening(input, n - (idx + 1)) =
            {i \in idx + 2 .. n - 2 : input[i] = "$" /\ input[i + 1] = "("}
      BY <1>2, <2>2, Zenon DEF X!Opening
    <3>4. \A i \in idx + 1 .. n - 2 : i \in idx + 2 .. n - 2 \/ (i = idx + 1 /\ idx + 2 < n)
      BY <2>2
    <3>5. \A i \in idx + 2 .. n - 2 : i \in idx + 1 .. n - 2
      BY <2>2
    <3>6. (idx + 1) + 1 = idx + 2
      BY <2>2
    <3> QED BY <3>1, <3>2, <3>3, <3>4, <3>5, <3>6, Zenon
  <2>8. last[n - idx] = piece \o last[n - (idx + 1)]
    <3>1. CASE X!Opening(input, n - idx) = {}
      <4>1. last[n - idx] = SubSeq(input, idx + 1, n)
        BY <1>2, <2>2, <2>3, <3>1, Zenon DEF FromLast
      <4>2. last[n - (idx + 1)] = SubSeq(input, idx + 2, n)
        BY <1>2, <2>2, <2>3, <2>7, <3>1, Zenon DEF FromLast
      <4>3. n \in idx + 1 .. n /\ (idx + 1) + 1 = idx + 2
        BY <2>2
      <4>4. SubSeq(input, idx + 1, n) = <<input[idx + 1]>> \o SubSeq(input, (idx + 1) + 1, n)
        BY <1>1, <1>2, <2>2, <4>3, SubSeqRecursiveFirst, Zenon
      <4> QED BY <2>4, <4>1, <4>2, <4>3, <4>4
    <3>2. CASE X!Opening(input, n - idx) # {}
      <4>1. PICK open \in idx + 2 .. n - 2 : open = X!Min(X!Opening(input, n - (idx + 1)))
        BY <1>1, <1>2, <2>2, <2>7, <3>2, OpeningIs, Zenon
      <4>2. PICK rest \in Seq(STRING) : rest = FromOpen(input, last, open)
        <5>1. open \in Nat
          BY <2>2, <4>1
        <5> QED BY <1>1, <1>2, <2>3, <5>1, FromOpenTyped, Zenon
      <4>3. last[n - idx] = SubSeq(input, idx + 1, open - 1) \o rest
        BY <1>2, <2>2, <2>3, <2>7, <3>2, <4>1, <4>2, Zenon DEF FromLast
      <4>4. last[n - (idx + 1)] = SubSeq(input, idx + 2, open - 1) \o rest
        BY <1>2, <2>2, <2>3, <2>7, <3>2, <4>1, <4>2, Zenon DEF FromLast
      <4>5. open - 1 \in idx + 1 .. n /\ (idx + 1) + 1 = idx + 2 /\ idx + 2 \in Int /\ open - 1 \in Int
            /\ \A i \in idx + 2 .. open - 1 : i \in 1 .. n
        BY <2>2, <4>1
      <4>6. SubSeq(input, idx + 1, open - 1) = piece \o SubSeq(input, idx + 2, open - 1)
        <5>1. SubSeq(input, idx + 1, open - 1) =
                <<input[idx + 1]>> \o SubSeq(input, (idx + 1) + 1, open - 1)
          BY <1>1, <1>2, <2>2, <4>5, SubSeqRecursiveFirst, Zenon
        <5> QED BY <2>4, <4>5, <5>1
      <4>7. SubSeq(input, idx + 2, open - 1) \in Seq(STRING)
        <5>1. \A i \in idx + 2 .. open - 1 : input[i] \in STRING
          BY <1>1, <1>2, <4>5, ElementOfSeq
        <5> QED BY <4>5, <5>1, SubSeqProperties
      <4>8. PICK middle \in Seq(STRING) : middle = SubSeq(input, idx + 2, open - 1)
        BY <4>7
      <4>9. (piece \o middle) \o rest = piece \o last[n - (idx + 1)]
        <5>1. PICK d : d = last[n - (idx + 1)] /\ d = middle \o rest
          BY <4>4, <4>8
        <5>2. (piece \o middle) \o rest = piece \o d
          BY <5>1, Regroup
        <5> QED BY <5>1, <5>2
      <4> QED BY <4>3, <4>6, <4>8, <4>9
    <3> QED BY <3>1, <3>2
  <2>9. res' \o last[n - idx'] = X!Expansion(input)
    <3>0. PICK c \in Seq(STRING) : c = last[n - (idx + 1)]
      BY <2>2, <2>3
    <3>1. PICK d : d = last[n - idx] /\ d = piece \o c
      BY <2>8, <3>0
    <3>2. (res \o piece) \o last[n - (idx + 1)] = res \o last[n - idx]
      <4>1. (res \o piece) \o c = res \o d
        <5>1. res \in Seq(STRING)
          BY <1>1
        <5>2. d = piece \o c
          BY <3>1
        <5> QED BY <5>1, <5>2, Regroup
      <4> QED BY <3>0, <3>1, <4>1
    <3> QED BY <2>1, <2>3, <2>5, <3>2, Zenon
  <2>10. ~in_var' /\ in_var' \in BOOLEAN /\ idx' \in 0 .. n /\ var_s' \in Nat
         /\ expand_pc = "scan" /\ expand_pc' = "scan" /\ input' = input
    BY <1>1, <1>5, <2>1, <2>2
  <2> QED BY <1>4, <2>3, <2>6, <2>9, <2>10, Zenon
<1>8. ASSUME X!InName PROVE ExpandInv'
  <2>1. /\ X!More /\ in_var /\ input[idx + 1] # ")" /\ idx' = idx + 1
        /\ UNCHANGED <<input, in_var, var_s, res, res_len, expand_pc>>
    BY <1>8 DEF X!InName, X!At
  <2>2. /\ var_s > 1 /\ idx >= var_s - 1 /\ input[var_s] = "(" /\ idx < n /\ expand_pc = "scan"
        /\ \A j \in var_s + 1 .. idx : input[j] # ")"
    BY <1>5, <2>1
  <2>3. PICK last : /\ \A m \in 0 .. n : last[m] = FromLast(input, last, m) /\ last[m] \in Seq(STRING)
                    /\ X!Expansion(input) = last[n]
                    /\ res \o FromOpen(input, last, var_s - 1) = X!Expansion(input)
    BY <1>5, <2>1, Zenon
  <2>4. idx + 1 \in 0 .. n /\ idx + 1 >= var_s - 1
        /\ \A j \in var_s + 1 .. idx + 1 : j \in var_s + 1 .. idx \/ j = idx + 1
    BY <1>1, <1>2, <2>2
  <2>5. \A j \in var_s' + 1 .. idx' : input[j] # ")"
    BY <2>1, <2>2, <2>4, Zenon
  <2>6. in_var' /\ in_var' \in BOOLEAN /\ idx' \in 0 .. n /\ var_s' \in Nat /\ var_s' > 1
        /\ idx' >= var_s' - 1 /\ input[var_s'] = "("
        /\ expand_pc' = "scan" /\ input' = input
    BY <1>1, <2>1, <2>2, <2>4
  <2>7. res' \in Seq(STRING) /\ res_len' \in Nat /\ Len(res') <= res_len'
        /\ res' \o FromOpen(input, last, var_s' - 1) = X!Expansion(input)
    <3>1. res' = res /\ res_len' = res_len /\ var_s' = var_s
      BY <2>1
    <3> QED BY <1>1, <2>3, <3>1, Zenon
  <2> QED BY <1>4, <2>2, <2>3, <2>5, <2>6, <2>7, Zenon
<1>9. ASSUME X!CloseReference PROVE ExpandInv'
  <2>1. /\ X!More /\ in_var /\ input[idx + 1] = ")"
        /\ X!Write(X!ValueOf(SubSeq(input, var_s + 1, idx)))
        /\ in_var' = FALSE /\ var_s' = idx /\ idx' = idx + 1 /\ UNCHANGED <<input, expand_pc>>
    BY <1>9 DEF X!CloseReference, X!At
  <2>2. /\ var_s > 1 /\ idx >= var_s - 1 /\ input[var_s] = "(" /\ idx < n /\ expand_pc = "scan"
        /\ \A j \in var_s + 1 .. idx : input[j] # ")"
    BY <1>5, <2>1
  <2>3. PICK last : /\ \A m \in 0 .. n : last[m] = FromLast(input, last, m) /\ last[m] \in Seq(STRING)
                    /\ X!Expansion(input) = last[n]
                    /\ res \o FromOpen(input, last, var_s - 1) = X!Expansion(input)
    BY <1>5, <2>1, Zenon
  <2>4. PICK piece \in Seq(STRING) : piece = X!ValueOf(SubSeq(input, var_s + 1, idx))
    BY ValueIs
  <2>5. res' = res \o piece /\ res_len' = X!Grown(res_len, piece)
    BY <2>1, <2>4 DEF X!Write
  <2>6. res' \in Seq(STRING) /\ res_len' \in Nat /\ Len(res') <= res_len'
    BY <1>1, <2>5, GrownIs
  <2>7. idx # var_s - 1
    <3> SUFFICES ASSUME idx = var_s - 1 PROVE FALSE
      OBVIOUS
    <3>1. idx + 1 = var_s
      BY <1>1
    <3> QED BY <2>1, <2>2, <3>1
  <2>8. /\ idx \in Nat /\ idx + 1 \in var_s + 1 .. n /\ (var_s - 1) + 2 = var_s + 1 /\ var_s - 1 \in Nat
        /\ (idx + 1) - 1 = idx /\ n - (idx + 1) \in 0 .. n /\ idx + 1 \in 0 .. n
    BY <1>1, <1>2, <2>2, <2>7
  <2>9. idx + 1 \in X!Closing(input, var_s - 1)
        /\ \A j \in X!Closing(input, var_s - 1) : idx + 1 <= j
    <3>1. X!Closing(input, var_s - 1) = {j \in var_s + 1 .. n : input[j] = ")"}
      BY <1>2, <2>8, Zenon DEF X!Closing
    <3>2. ASSUME NEW j \in var_s + 1 .. n, input[j] = ")" PROVE idx + 1 <= j
      <4> SUFFICES ASSUME ~(idx + 1 <= j) PROVE FALSE
        OBVIOUS
      <4>1. j \in var_s + 1 .. idx
        BY <1>1, <2>8
      <4> QED BY <2>2, <3>2, <4>1
    <3> QED BY <2>1, <2>8, <3>1, <3>2, Zenon
  <2>10. X!Min(X!Closing(input, var_s - 1)) = idx + 1
    <3>1. X!Closing(input, var_s - 1) # {}
      BY <2>9
    <3>2. /\ X!Min(X!Closing(input, var_s - 1)) \in (var_s - 1) + 2 .. n
          /\ X!Min(X!Closing(input, var_s - 1)) \in X!Closing(input, var_s - 1)
          /\ \A j \in X!Closing(input, var_s - 1) : X!Min(X!Closing(input, var_s - 1)) <= j
      BY <1>1, <1>2, <2>8, <3>1, ClosingIs, Zenon
    <3>3. PICK m \in (var_s - 1) + 2 .. n : m = X!Min(X!Closing(input, var_s - 1))
      BY <3>2
    <3>4. idx + 1 <= m /\ m <= idx + 1
      BY <2>9, <3>2, <3>3, Zenon
    <3> QED BY <2>8, <3>3, <3>4
  <2>11. FromOpen(input, last, var_s - 1) = piece \o last[n - (idx + 1)]
    <3>1. X!Closing(input, var_s - 1) # {}
      BY <2>9
    <3> QED BY <1>2, <2>4, <2>8, <2>10, <3>1, Zenon DEF FromOpen
  <2>12. res' \o last[n - idx'] = X!Expansion(input)
    <3>0. PICK c \in Seq(STRING) : c = last[n - (idx + 1)]
      BY <2>3, <2>8
    <3>1. PICK d : d = FromOpen(input, last, var_s - 1) /\ d = piece \o c
      BY <2>11, <3>0
    <3>2. (res \o piece) \o last[n - (idx + 1)] = res \o FromOpen(input, last, var_s - 1)
      <4>1. (res \o piece) \o c = res \o d
        <5>1. res \in Seq(STRING)
          BY <1>1
        <5>2. d = piece \o c
          BY <3>1
        <5> QED BY <5>1, <5>2, Regroup
      <4> QED BY <3>0, <3>1, <4>1
    <3> QED BY <2>1, <2>3, <2>5, <3>2, Zenon
  <2>13. ~in_var' /\ in_var' \in BOOLEAN /\ idx' \in 0 .. n /\ var_s' \in Nat
         /\ expand_pc' = "scan" /\ input' = input
    BY <1>1, <2>1, <2>2, <2>8
  <2> QED BY <1>4, <2>2, <2>3, <2>6, <2>12, <2>13, Zenon
<1>10. ASSUME X!Finish PROVE ExpandInv'
  <2>1. /\ expand_pc = "scan" /\ idx = n /\ expand_pc' = "done"
        /\ UNCHANGED <<input, idx, in_var, var_s, res, res_len>>
    BY <1>2, <1>10 DEF X!Finish
  <2>2. PICK last : WrittenAnd(last)
    BY <2>1, Zenon DEF ExpandInv
  <2>3. res \o << >> = res
    BY <1>1, ConcatEmptySeq, Zenon
  <2>4. res = X!Expansion(input)
    <3>1. CASE ~in_var
      <4>1. n - idx = 0 /\ 0 \in 0 .. n /\ n - 0 + 1 = n + 1 /\ n < n + 1 /\ n + 1 \in Int
        BY <2>1
      <4>2. n + 1 .. n - 2 = {}
        OBVIOUS
      <4>3. X!Opening(input, 0) = {}
        BY <1>2, <4>1, <4>2, Zenon DEF X!Opening
      <4>4. last[0] = SubSeq(input, n + 1, n)
        BY <1>2, <2>2, <4>1, <4>3, Zenon DEF FromLast, WrittenAnd
      <4>5. SubSeq(input, n + 1, n) = << >>
        BY <4>1, SubSeqEmpty
      <4> QED BY <1>2, <2>2, <2>3, <3>1, <4>1, <4>4, <4>5, Zenon DEF WrittenAnd
    <3>2. CASE in_var
      <4>1. var_s > 1 /\ \A j \in var_s + 1 .. n : input[j] # ")"
        BY <2>1, <3>2 DEF ExpandInv
      <4>2. (var_s - 1) + 2 = var_s + 1
        BY <1>1
      <4>3. X!Closing(input, var_s - 1) = {}
        BY <1>2, <4>1, <4>2, Zenon DEF X!Closing
      <4>4. FromOpen(input, last, var_s - 1) = << >>
        BY <4>3, Zenon DEF FromOpen
      <4> QED BY <2>2, <2>3, <3>2, <4>4, Zenon DEF WrittenAnd
    <3> QED BY <3>1, <3>2
  <2>5. X!Expansion(input)' = X!Expansion(input)
    BY <2>1
  <2>6. expand_pc' # "idle" /\ expand_pc' # "scan" /\ expand_pc' \in {"idle", "scan", "done"}
    BY <2>1
  <2> QED BY <1>1, <2>1, <2>4, <2>5, <2>6, Zenon DEF ExpandInv
<1>11. CASE UNCHANGED X!vars
  <2>1. UNCHANGED <<input, idx, in_var, var_s, res, res_len, expand_pc>>
    BY <1>11 DEF X!vars
  <2>2. /\ input' = input /\ idx' = idx /\ (in_var' <=> in_var) /\ in_var' \in BOOLEAN /\ var_s' = var_s
        /\ res' = res /\ res_len' = res_len /\ expand_pc' = expand_pc
    BY <1>1, <2>1
  <2>3. \A last : WrittenAnd(last) => WrittenAnd(last)'
    BY <2>2, Zenon DEF WrittenAnd
  <2> QED BY <1>1, <2>2, <2>3, Zenon DEF ExpandInv
<1> QED BY <1>3, <1>6, <1>7, <1>8, <1>9, <1>10, <1>11, Zenon DEF X!Next

(* At first nothing is written.                                            *)
LEMMA ExpandInit == X!Init => ExpandInv
<1> SUFFICES ASSUME X!Init PROVE ExpandInv
  OBVIOUS
<1>1. /\ input = << >> /\ idx = 0 /\ ~in_var /\ in_var \in BOOLEAN /\ var_s = 0 /\ res = << >>
      /\ res_len = 0 /\ expand_pc = "idle"
  BY DEF X!Init
<1>2. << >> \in Seq(STRING) /\ Len(<< >>) = 0 /\ 0 \in Nat /\ 0 <= 0 /\ 0 \in 0 .. 0
  BY EmptySeq
<1>3. expand_pc # "scan" /\ expand_pc # "done" /\ expand_pc \in {"idle", "scan", "done"}
  BY <1>1
<1> QED BY <1>1, <1>2, <1>3, Zenon DEF ExpandInv

(* For all lines, variables and values: the line that is executed is the   *)
(* expansion of the one that was typed, and what is written stays in the   *)
(* buffer as it grows (csh_expand_vars, csh_copy_char_and_grow).           *)
THEOREM SessionExpandsAsDocumented == X!Spec => []ExpandsAsDocumented
<1>1. ExpandInv => ExpandsAsDocumented
  BY Zenon DEF ExpandInv, ExpandsAsDocumented, X!ExpandsAsDocumented
<1> QED BY <1>1, ExpandInit, ExpandStep, PTL DEF X!Spec
=============================================================================
