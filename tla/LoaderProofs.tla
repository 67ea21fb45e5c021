---------------------------- MODULE LoaderProofs -----------------------------
(* Theorems about the other two parts of a session, the loading of         *)
(* extension modules and the required versions, each for every value of    *)
(* its constants.  The lemmas about numbers and loops are those of         *)
(* SessionProofs.                                                          *)
EXTENDS SessionProofs

-----------------------------------------------------------------------------
(* The list of extension modules.                                          *)

(* One entry may stand before another: in the order of the names, or two   *)
(* loads of a Python module.                                               *)
Before(e, f) == e.file < f.file \/ (e.file = f.file /\ e.file \in Pythons)

Ordered(q) == \A i, j \in DOMAIN q : i < j => Before(q[i], q[j])

(* The smallest of some numbers, in the instance.                          *)
LEMMA FirstIs ==
  ASSUME NEW S, S \subseteq Nat, S # {}
  PROVE  A!Min(S) \in S /\ \A y \in S : A!Min(S) <= y
<1>1. \E x \in S : \A y \in S : x <= y
  BY LeastOf, Zenon
<1> QED BY <1>1, Zenon DEF A!Min

(* An entry is inserted behind those with smaller names and before the     *)
(* others, so that the list stays in order.                                *)
LEMMA AddedIs ==
  ASSUME NEW q \in Seq(A!Entry), NEW e \in A!Entry
  PROVE  /\ A!apm_queue_add(q, e) \in Seq(A!Entry)
         /\ \A f : A!Holds(A!apm_queue_add(q, e), f) <=> (A!Holds(q, f) \/ e.file = f)
         /\ Ordered(q) /\ (e.file \in Pythons \/ ~A!Holds(q, e.file))
              => Ordered(A!apm_queue_add(q, e))
<1>1. PICK l \in Nat : l = Len(q) /\ DOMAIN q = 1 .. l /\ \A i \in 1 .. l : q[i] \in A!Entry
  BY LenProperties, ElementOfSeq
<1>2. /\ e.file \in Nat
      /\ \A i \in 1 .. l : q[i].file \in Nat
  BY <1>1, ApmAssumption DEF A!ApmAssumption, A!Entry
<1> DEFINE later == {i \in 1 .. Len(q) : q[i].file >= e.file} \cup {Len(q) + 1}
<1>3. PICK n : n = A!Min(later)
  OBVIOUS
<1>4. /\ n \in 1 .. l + 1
      /\ \A i \in 1 .. l : i < n => q[i].file < e.file
      /\ n # l + 1 => q[n].file >= e.file
  <2>1. later \subseteq 1 .. l + 1 /\ later \subseteq Nat /\ later # {}
    BY <1>1
  <2>2. n \in later /\ \A y \in later : n <= y
    <3> HIDE DEF later
    <3> QED BY <1>3, <2>1, FirstIs, Zenon
  <2>3. ASSUME NEW i \in 1 .. l, i < n PROVE q[i].file < e.file
    <3>1. i \notin later
      BY <2>1, <2>2, <2>3
    <3> QED BY <1>1, <1>2, <3>1
  <2> QED BY <1>1, <2>1, <2>2, <2>3
<1>5. PICK t : t = A!apm_queue_add(q, e)
  OBVIOUS
<1>6. PICK a, b, c : a = SubSeq(q, 1, n - 1) /\ b = SubSeq(q, n, Len(q)) /\ c = a \o <<e>>
  OBVIOUS
<1>7. t = c \o b
  BY <1>3, <1>5, <1>6, Zenon DEF A!apm_queue_add
<1>8. /\ a \in Seq(A!Entry) /\ Len(a) = n - 1
      /\ \A i \in 1 .. n - 1 : a[i] = q[i]
  BY <1>1, <1>4, <1>6, SubSeqProperties
<1>9. /\ b \in Seq(A!Entry) /\ Len(b) = (l + 1) - n
      /\ \A i \in 1 .. (l + 1) - n : b[i] = q[n + i - 1]
  BY <1>1, <1>4, <1>6, SubSeqProperties
<1>10. /\ c \in Seq(A!Entry) /\ Len(c) = n /\ c[n] = e
       /\ \A i \in 1 .. n - 1 : c[i] = q[i]
  <2>1. c = Append(a, e)
    BY <1>6, <1>8, AppendIsConcat, Zenon
  <2> QED BY <1>4, <1>8, <2>1, AppendProperties
<1>11. /\ t \in Seq(A!Entry) /\ Len(t) = l + 1 /\ DOMAIN t = 1 .. l + 1
       /\ \A i \in 1 .. l + 1 : t[i] = IF i <= n THEN c[i] ELSE b[i - n]
  <2>1. /\ t \in Seq(A!Entry) /\ Len(t) = Len(c) + Len(b)
        /\ \A i \in 1 .. Len(c) + Len(b) : t[i] = IF i <= Len(c) THEN c[i] ELSE b[i - Len(c)]
    BY <1>7, <1>9, <1>10, ConcatProperties
  <2>2. Len(c) + Len(b) = l + 1 /\ Len(c) = n
    BY <1>1, <1>4, <1>9, <1>10
  <2>3. DOMAIN t = 1 .. Len(t)
    BY <2>1, LenProperties
  <2> QED BY <2>1, <2>2, <2>3, Zenon
<1>12. /\ t[n] = e
       /\ \A i \in 1 .. l : i < n => t[i] = q[i]
       /\ \A i \in 1 .. l : i >= n => t[i + 1] = q[i]
  <2>1. ASSUME NEW i \in 1 .. l, i < n PROVE t[i] = q[i]
    BY <1>4, <1>10, <1>11, <2>1
  <2>2. ASSUME NEW i \in 1 .. l, i >= n PROVE t[i + 1] = q[i]
    <3>1. i + 1 \in 1 .. l + 1 /\ ~(i + 1 <= n) /\ (i + 1) - n \in 1 .. (l + 1) - n
          /\ n + ((i + 1) - n) - 1 = i
      BY <1>1, <1>4, <2>2
    <3> QED BY <1>9, <1>11, <3>1
  <2>3. t[n] = e
    BY <1>4, <1>10, <1>11
  <2> QED BY <2>1, <2>2, <2>3
<1> DEFINE old(i) == IF i < n THEN i ELSE i - 1
<1>13. \A i \in 1 .. l + 1 : i # n => old(i) \in 1 .. l /\ t[i] = q[old(i)]
  <2> SUFFICES ASSUME NEW i \in 1 .. l + 1, i # n PROVE old(i) \in 1 .. l /\ t[i] = q[old(i)]
    OBVIOUS
  <2>1. CASE i < n
    BY <1>4, <1>12, <2>1
  <2>2. CASE i > n
    <3>1. i - 1 \in 1 .. l /\ i - 1 >= n /\ (i - 1) + 1 = i /\ old(i) = i - 1
      BY <1>4, <2>2
    <3> QED BY <1>12, <3>1
  <2> QED BY <1>4, <2>1, <2>2
<1>14. \A f : A!Holds(t, f) <=> (A!Holds(q, f) \/ e.file = f)
  <2> SUFFICES ASSUME NEW f PROVE A!Holds(t, f) <=> (A!Holds(q, f) \/ e.file = f)
    OBVIOUS
  <2>1. A!Holds(t, f) => (A!Holds(q, f) \/ e.file = f)
    <3> SUFFICES ASSUME NEW i \in 1 .. l + 1, t[i].file = f PROVE A!Holds(q, f) \/ e.file = f
      BY <1>11, Zenon DEF A!Holds
    <3>1. CASE i = n
      BY <1>12, <3>1
    <3>2. CASE i # n
      <4>1. old(i) \in 1 .. l /\ t[i] = q[old(i)]
        BY <1>13, <3>2
      <4> QED BY <1>1, <4>1, Zenon DEF A!Holds
    <3> QED BY <3>1, <3>2
  <2>2. e.file = f => A!Holds(t, f)
    BY <1>4, <1>11, <1>12, Zenon DEF A!Holds
  <2>3. A!Holds(q, f) => A!Holds(t, f)
    <3> SUFFICES ASSUME NEW i \in 1 .. l, q[i].file = f PROVE A!Holds(t, f)
      BY <1>1, Zenon DEF A!Holds
    <3>1. i \in 1 .. l + 1 /\ i + 1 \in 1 .. l + 1 /\ (i < n \/ i >= n)
      BY <1>4
    <3> QED BY <1>11, <1>12, <3>1, Zenon DEF A!Holds
  <2> QED BY <2>1, <2>2, <2>3
<1>15. ASSUME Ordered(q), e.file \in Pythons \/ ~A!Holds(q, e.file) PROVE Ordered(t)
  <2> SUFFICES ASSUME NEW i \in 1 .. l + 1, NEW j \in 1 .. l + 1, i < j
               PROVE  Before(t[i], t[j])
    BY <1>11 DEF Ordered
  <2>1. CASE i = n
    <3>1. old(j) \in 1 .. l /\ t[j] = q[old(j)] /\ old(j) >= n
      BY <1>4, <1>13, <2>1
    <3>2. n # l + 1 /\ n \in 1 .. l /\ q[n].file >= e.file
      BY <1>4, <3>1
    <3>3. q[old(j)].file >= q[n].file
      <4>1. CASE n = old(j)
        BY <1>2, <3>2, <4>1
      <4>2. CASE n < old(j)
        <5>1. Before(q[n], q[old(j)])
          BY <1>1, <1>15, <3>1, <3>2, <4>2 DEF Ordered
        <5> QED BY <1>2, <3>1, <3>2, <5>1 DEF Before
      <4> QED BY <1>4, <3>1, <4>1, <4>2
    <3>4. q[old(j)].file > e.file \/ (q[old(j)].file = e.file /\ A!Holds(q, e.file))
      <4>1. q[old(j)].file > e.file \/ q[old(j)].file = e.file
        BY <1>2, <3>1, <3>2, <3>3
      <4> QED BY <1>1, <3>1, <4>1, Zenon DEF A!Holds
    <3> QED BY <1>2, <1>12, <1>15, <2>1, <3>1, <3>4 DEF Before
  <2>2. CASE j = n
    <3>1. i \in 1 .. l /\ i < n /\ t[i] = q[i]
      BY <1>4, <1>12, <2>2
    <3>2. q[i].file < e.file
      BY <1>4, <3>1
    <3> QED BY <1>12, <2>2, <3>1, <3>2 DEF Before
  <2>3. CASE i # n /\ j # n
    <3>1. old(i) \in 1 .. l /\ old(j) \in 1 .. l /\ t[i] = q[old(i)] /\ t[j] = q[old(j)]
      BY <1>13, <2>3
    <3>2. old(i) < old(j)
      BY <1>4, <2>3
    <3> QED BY <1>1, <1>15, <3>1, <3>2 DEF Ordered
  <2> QED BY <2>1, <2>2, <2>3
<1> QED BY <1>5, <1>11, <1>14, <1>15, Zenon

(* What a function that follows steps is: the recursive definition.        *)
LEMMA FollowsIs ==
  ASSUME NEW S, NEW a \in S, NEW n \in Nat, NEW steps, NEW f, Follows(f, S, a, n, steps)
  PROVE  /\ f = [i \in 0 .. n |-> IF i = 0 THEN a ELSE steps[i][f[i - 1]]]
         /\ \A i \in 1 .. n : f[i - 1] \in S
<1>1. f \in [0 .. n -> S] /\ f[0] = a /\ \A i \in 1 .. n : f[i] = steps[i][f[i - 1]]
  BY DEF Follows
<1>2. \A i \in 0 .. n : f[i] = IF i = 0 THEN a ELSE steps[i][f[i - 1]]
  <2> SUFFICES ASSUME NEW i \in 0 .. n PROVE f[i] = IF i = 0 THEN a ELSE steps[i][f[i - 1]]
    OBVIOUS
  <2>1. i = 0 \/ i \in 1 .. n
    OBVIOUS
  <2> QED BY <1>1, <2>1, Zenon
<1>3. f = [i \in 0 .. n |-> f[i]]
  BY <1>1
<1>4. \A i \in 1 .. n : i - 1 \in 0 .. n
  OBVIOUS
<1> QED BY <1>1, <1>2, <1>3, <1>4, Zenon

(* A loop keeps what its start has and each step keeps.                    *)
LEMMA Keeps ==
  ASSUME NEW S, NEW n \in Nat, NEW f, f[0] \in S, \A i \in 1 .. n : f[i - 1] \in S => f[i] \in S
  PROVE  \A i \in 0 .. n : f[i] \in S
<1> DEFINE T == {i \in 0 .. n : f[i] \in S}
<1>1. 0 \in T
  OBVIOUS
<1>2. ASSUME NEW i \in 0 .. n - 1, i \in T PROVE i + 1 \in T
  <2>1. i + 1 \in 1 .. n /\ i + 1 \in 0 .. n /\ (i + 1) - 1 = i
    OBVIOUS
  <2>2. f[i] \in S
    BY <1>2
  <2> QED BY <2>1, <2>2
<1>3. \A i \in 0 .. n - 1 : i \in T => i + 1 \in T
  BY <1>2
<1>4. \A i \in 0 .. n : i \in T
  <2> HIDE DEF T
  <2> QED BY <1>1, <1>3, UpTo, Zenon
<1> QED BY <1>4

-----------------------------------------------------------------------------
(* Which directories are walked: some of those given.                      *)
IsPaths(paths, n, acc) ==
  acc = [i \in 0 .. n |-> IF i = 0 THEN A!NoPath
                          ELSE A!NextPath(acc[i - 1], paths[i], i = Len(paths))]

Walking == [nuls : SUBSET Nat, walked : Seq(Dirs)]

(* A path in the buffer leaves NULs where it leaves them, and is walked or *)
(* not.                                                                    *)
LEMMA NextPathTyped ==
  ASSUME NEW x \in Walking, NEW d \in Dirs, NEW last \in BOOLEAN
  PROVE  A!NextPath(x, d, last) \in Walking
<1>1. PathLen[d] \in Nat /\ NameLen \in Nat
  BY ApmAssumption DEF A!ApmAssumption
<1>2. PICK nuls : nuls = A!Copied(x.nuls, d, last)
  OBVIOUS
<1>3. x.nuls \subseteq Nat /\ x.walked \in Seq(Dirs)
  BY DEF Walking
<1>4. nuls \subseteq Nat
  BY <1>1, <1>2, <1>3 DEF A!Copied
<1>5. A!AfterWalk(nuls, d) \subseteq Nat
  <2>1. PathLen[d] + 1 \in Nat /\ PathLen[d] + NameLen + 2 \in Nat
    BY <1>1
  <2> QED BY <1>4, <2>1, Zenon DEF A!AfterWalk
<1>6. Append(x.walked, d) \in Seq(Dirs)
  BY <1>3, AppendProperties
<1>7. A!NextPath(x, d, last) = IF A!Opens(nuls, d)
                               THEN [nuls |-> A!AfterWalk(nuls, d), walked |-> Append(x.walked, d)]
                               ELSE [nuls |-> nuls, walked |-> x.walked]
  BY <1>2, Zenon DEF A!NextPath
<1> HIDE <1>2
<1> QED BY <1>3, <1>4, <1>5, <1>6, <1>7 DEF Walking

(* The loop over the paths gives directories.                              *)
LEMMA WalkedTyped ==
  ASSUME NEW paths \in Seq(Dirs)
  PROVE  A!build_apm_list(paths) \in Seq(Dirs)
<1>1. PICK n \in Nat : n = Len(paths) /\ \A i \in 1 .. n : paths[i] \in Dirs
  BY LenProperties, ElementOfSeq
<1>2. A!NoPath \in Walking
  <2>1. \A d \in Dirs : PathLen[d] \in Nat /\ NameLen \in Nat
    BY ApmAssumption DEF A!ApmAssumption
  <2>2. \A d \in Dirs : 1 .. PathLen[d] + NameLen + 2 \subseteq Nat
    BY <2>1
  <2>3. UNION {1 .. PathLen[d] + NameLen + 2 : d \in Dirs} \subseteq Nat
    BY <2>2, Zenon
  <2> QED BY <2>3, EmptySeq DEF A!NoPath, Walking
<1> DEFINE step(x, i) == A!NextPath(x, paths[i], i = Len(paths))
           steps == [i \in 1 .. n |-> [x \in Walking |-> step(x, i)]]
<1>3. \A i \in 1 .. n : \A x \in Walking : step(x, i) \in Walking
  BY <1>1, NextPathTyped, Zenon
<1>4. /\ steps \in [1 .. n -> [Walking -> Walking]]
      /\ \A i \in 1 .. n, x \in Walking : steps[i][x] = step(x, i)
  BY <1>3
<1>5. PICK f : Follows(f, Walking, A!NoPath, n, steps)
  <2> HIDE DEF steps
  <2> QED BY <1>2, <1>4, Iterates, Zenon
<1>6. IsPaths(paths, n, f)
  <2>1. /\ f = [i \in 0 .. n |-> IF i = 0 THEN A!NoPath ELSE steps[i][f[i - 1]]]
        /\ \A i \in 1 .. n : f[i - 1] \in Walking
    BY <1>2, <1>5, FollowsIs, Zenon
  <2>2. \A i \in 0 .. n : i = 0 \/ i \in 1 .. n
    OBVIOUS
  <2> HIDE DEF steps
  <2>3. \A i \in 0 .. n : (IF i = 0 THEN A!NoPath ELSE steps[i][f[i - 1]])
                            = IF i = 0 THEN A!NoPath ELSE step(f[i - 1], i)
    BY <1>4, <2>1, <2>2, Zenon
  <2> HIDE DEF step
  <2>4. f = [i \in 0 .. n |-> IF i = 0 THEN A!NoPath ELSE step(f[i - 1], i)]
    BY <2>1, <2>3, Zenon
  <2> QED BY <2>4, Zenon DEF IsPaths, step
<1> DEFINE acc == CHOOSE acc : IsPaths(paths, Len(paths), acc)
<1>7. A!build_apm_list(paths) = acc[n].walked
  BY <1>1, Zenon DEF A!build_apm_list, IsPaths
<1>8. IsPaths(paths, n, acc)
  BY <1>1, <1>6, Zenon
<1> HIDE DEF acc
<1>9. acc[0] = A!NoPath /\ \A i \in 1 .. n : acc[i] = step(acc[i - 1], i)
  <2>1. 0 \in 0 .. n /\ \A i \in 1 .. n : i \in 0 .. n /\ i # 0
    OBVIOUS
  <2> QED BY <1>8, <2>1, Zenon DEF IsPaths
<1>10. \A i \in 0 .. n : acc[i] \in Walking
  <2>1. \A i \in 1 .. n : acc[i - 1] \in Walking => acc[i] \in Walking
    BY <1>3, <1>9, Zenon
  <2> QED BY <1>2, <1>9, <2>1, Keeps, Zenon
<1>11. acc[n] \in Walking
  BY <1>10
<1> QED BY <1>7, <1>11 DEF Walking

-----------------------------------------------------------------------------
(* What may be read in the directories are names in directories.           *)
Here(order, d) == [k \in 1 .. Len(order) |-> [file |-> order[k], dir |-> d]]

IsFound(dirs, order, n, found) ==
  found = [i \in 0 .. n |-> IF i = 0 THEN << >> ELSE found[i - 1] \o Here(order, dirs[i])]

(* A directory adds its names.                                             *)
LEMMA HereTyped ==
  ASSUME NEW x \in Seq(A!Entry), NEW order \in Seq(A!Names), NEW d \in Dirs
  PROVE  x \o Here(order, d) \in Seq(A!Entry)
<1>1. PICK l \in Nat : l = Len(order) /\ \A k \in 1 .. l : order[k] \in A!Names
  BY LenProperties, ElementOfSeq
<1>2. \A k \in 1 .. l : [file |-> order[k], dir |-> d] \in A!Entry
  BY <1>1 DEF A!Entry
<1>3. Here(order, d) \in [1 .. l -> A!Entry]
  BY <1>1, <1>2, Zenon DEF Here
<1>4. Here(order, d) \in Seq(A!Entry)
  BY <1>3, SeqDef
<1> QED BY <1>4, ConcatProperties

(* ... and all directories give theirs.                                    *)
LEMMA CandidatesTyped ==
  ASSUME NEW dirs \in Seq(Dirs), NEW order \in Seq(A!Names)
  PROVE  A!Candidates(dirs, order) \in Seq(A!Entry)
<1>1. PICK n \in Nat : n = Len(dirs) /\ \A i \in 1 .. n : dirs[i] \in Dirs
  BY LenProperties, ElementOfSeq
<1>2. << >> \in Seq(A!Entry)
  BY EmptySeq
<1> DEFINE step(x, i) == x \o Here(order, dirs[i])
           steps == [i \in 1 .. n |-> [x \in Seq(A!Entry) |-> step(x, i)]]
<1>3. \A i \in 1 .. n : \A x \in Seq(A!Entry) : step(x, i) \in Seq(A!Entry)
  BY <1>1, HereTyped, Zenon
<1>4. /\ steps \in [1 .. n -> [Seq(A!Entry) -> Seq(A!Entry)]]
      /\ \A i \in 1 .. n, x \in Seq(A!Entry) : steps[i][x] = step(x, i)
  BY <1>3
<1>5. PICK f : Follows(f, Seq(A!Entry), << >>, n, steps)
  <2> HIDE DEF steps
  <2> QED BY <1>2, <1>4, Iterates, Zenon
<1>6. IsFound(dirs, order, n, f)
  <2>1. /\ f = [i \in 0 .. n |-> IF i = 0 THEN << >> ELSE steps[i][f[i - 1]]]
        /\ \A i \in 1 .. n : f[i - 1] \in Seq(A!Entry)
    BY <1>2, <1>5, FollowsIs, Zenon
  <2>2. \A i \in 0 .. n : i = 0 \/ i \in 1 .. n
    OBVIOUS
  <2> HIDE DEF steps
  <2>3. \A i \in 0 .. n : (IF i = 0 THEN << >> ELSE steps[i][f[i - 1]])
                            = IF i = 0 THEN << >> ELSE step(f[i - 1], i)
    BY <1>4, <2>1, <2>2, Zenon
  <2> HIDE DEF step
  <2>4. f = [i \in 0 .. n |-> IF i = 0 THEN << >> ELSE step(f[i - 1], i)]
    BY <2>1, <2>3, Zenon
  <2> QED BY <2>4, Zenon DEF IsFound, step
<1> DEFINE acc == CHOOSE acc : IsFound(dirs, order, Len(dirs), acc)
<1>7. A!Candidates(dirs, order) = acc[n]
  BY <1>1, Zenon DEF A!Candidates, Here, IsFound
<1>8. IsFound(dirs, order, n, acc)
  BY <1>1, <1>6, Zenon
<1> HIDE DEF acc
<1>9. acc[0] = << >> /\ \A i \in 1 .. n : acc[i] = step(acc[i - 1], i)
  <2>1. 0 \in 0 .. n /\ \A i \in 1 .. n : i \in 0 .. n /\ i # 0
    OBVIOUS
  <2> QED BY <1>8, <2>1, Zenon DEF IsFound
<1>10. \A i \in 0 .. n : acc[i] \in Seq(A!Entry)
  <2>1. \A i \in 1 .. n : acc[i - 1] \in Seq(A!Entry) => acc[i] \in Seq(A!Entry)
    BY <1>3, <1>9, Zenon
  <2> QED BY <1>2, <1>9, <2>1, Keeps, Zenon
<1>11. acc[n] \in Seq(A!Entry)
  BY <1>10
<1> QED BY <1>7, <1>11

(* The libraries of a search are not loaded, and each is found once.       *)
Unloaded == {libs \in Seq(A!Entry) :
               /\ \A i \in DOMAIN libs : libs[i].file \in Natives /\ ~A!Holds(apm_queue, libs[i].file)
               /\ \A i, j \in DOMAIN libs : i # j => libs[i].file # libs[j].file}

IsLibraries(found, n, libs) ==
  libs = [i \in 0 .. n |-> IF i = 0 THEN << >> ELSE A!file_callback(libs[i - 1], found[i])]

(* A library that is taken is not among those taken already.               *)
LEMMA CallbackKeeps ==
  ASSUME NEW libs \in Unloaded, NEW e \in A!Entry
  PROVE  A!file_callback(libs, e) \in Unloaded
<1>1. CASE A!file_callback(libs, e) = libs
  BY <1>1
<1>2. CASE A!file_callback(libs, e) # libs
  <2>1. /\ A!file_callback(libs, e) = Append(libs, e) /\ e.file \in Natives
        /\ ~A!Holds(apm_queue, e.file) /\ ~A!Holds(libs, e.file)
    BY <1>2, Zenon DEF A!file_callback, A!Skipped
  <2>2. PICK l \in Nat : l = Len(libs) /\ DOMAIN libs = 1 .. l /\ libs \in Seq(A!Entry)
    BY LenProperties DEF Unloaded
  <2>3. PICK t : t = Append(libs, e)
    OBVIOUS
  <2>4. /\ t \in Seq(A!Entry) /\ DOMAIN t = 1 .. l + 1
        /\ \A i \in 1 .. l : t[i] = libs[i]
        /\ t[l + 1] = e
    BY <2>2, <2>3, AppendProperties, LenProperties
  <2>5. /\ \A i \in 1 .. l : libs[i].file \in Natives /\ ~A!Holds(apm_queue, libs[i].file)
        /\ \A i, j \in 1 .. l : i # j => libs[i].file # libs[j].file
        /\ \A i \in 1 .. l : libs[i].file # e.file
    BY <2>1, <2>2, Zenon DEF Unloaded, A!Holds
  <2>6. \A i \in 1 .. l + 1 : i \in 1 .. l \/ i = l + 1
    OBVIOUS
  <2>7. \A i \in 1 .. l + 1 : t[i].file \in Natives /\ ~A!Holds(apm_queue, t[i].file)
    BY <2>1, <2>4, <2>5, <2>6, Zenon
  <2>8. \A i, j \in 1 .. l + 1 : i # j => t[i].file # t[j].file
    BY <2>4, <2>5, <2>6, Zenon
  <2> QED BY <2>1, <2>3, <2>4, <2>7, <2>8, Zenon DEF Unloaded
<1> QED BY <1>1, <1>2

(* ... so that the loop over all names gives each library once.            *)
LEMMA LibrariesAre ==
  ASSUME NEW found \in Seq(A!Entry)
  PROVE  A!Libraries(found) \in Unloaded
<1>1. PICK n \in Nat : n = Len(found) /\ \A i \in 1 .. n : found[i] \in A!Entry
  BY LenProperties, ElementOfSeq
<1>2. << >> \in Unloaded
  <2>1. << >> \in Seq(A!Entry) /\ DOMAIN << >> = {}
    BY EmptySeq
  <2> QED BY <2>1, Zenon DEF Unloaded
<1> DEFINE step(x, i) == A!file_callback(x, found[i])
           steps == [i \in 1 .. n |-> [x \in Unloaded |-> step(x, i)]]
<1>3. \A i \in 1 .. n : \A x \in Unloaded : step(x, i) \in Unloaded
  BY <1>1, CallbackKeeps, Zenon
<1>4. /\ steps \in [1 .. n -> [Unloaded -> Unloaded]]
      /\ \A i \in 1 .. n, x \in Unloaded : steps[i][x] = step(x, i)
  BY <1>3
<1>5. PICK f : Follows(f, Unloaded, << >>, n, steps)
  <2> HIDE DEF steps
  <2> QED BY <1>2, <1>4, Iterates, Zenon
<1>6. IsLibraries(found, n, f)
  <2>1. /\ f = [i \in 0 .. n |-> IF i = 0 THEN << >> ELSE steps[i][f[i - 1]]]
        /\ \A i \in 1 .. n : f[i - 1] \in Unloaded
    BY <1>2, <1>5, FollowsIs, Zenon
  <2>2. \A i \in 0 .. n : i = 0 \/ i \in 1 .. n
    OBVIOUS
  <2> HIDE DEF steps
  <2>3. \A i \in 0 .. n : (IF i = 0 THEN << >> ELSE steps[i][f[i - 1]])
                            = IF i = 0 THEN << >> ELSE step(f[i - 1], i)
    BY <1>4, <2>1, <2>2, Zenon
  <2> HIDE DEF step
  <2>4. f = [i \in 0 .. n |-> IF i = 0 THEN << >> ELSE step(f[i - 1], i)]
    BY <2>1, <2>3, Zenon
  <2> QED BY <2>4, Zenon DEF IsLibraries, step
<1> DEFINE acc == CHOOSE acc : IsLibraries(found, Len(found), acc)
<1>7. A!Libraries(found) = acc[n]
  BY <1>1, Zenon DEF A!Libraries, IsLibraries
<1>8. IsLibraries(found, n, acc)
  BY <1>1, <1>6, Zenon
<1> HIDE DEF acc
<1>9. acc[0] = << >> /\ \A i \in 1 .. n : acc[i] = step(acc[i - 1], i)
  <2>1. 0 \in 0 .. n /\ \A i \in 1 .. n : i \in 0 .. n /\ i # 0
    OBVIOUS
  <2> QED BY <1>8, <2>1, Zenon DEF IsLibraries
<1>10. \A i \in 0 .. n : acc[i] \in Unloaded
  <2>1. \A i \in 1 .. n : acc[i - 1] \in Unloaded => acc[i] \in Unloaded
    BY <1>3, <1>9, Zenon
  <2> QED BY <1>2, <1>9, <2>1, Keeps, Zenon
<1>11. acc[n] \in Unloaded
  BY <1>10
<1> QED BY <1>7, <1>11

(* What is right of a list and the runs of libmain: the list is in order,  *)
(* and libmain ran once for each library in it.                            *)
Right(q, runs) ==
  /\ Ordered(q)
  /\ \A f \in Natives : runs[f] = IF A!Holds(q, f) THEN 1 ELSE 0

Kinds == (UNION {A!KindsOf(f) : f \in A!Names}) \cup {"none"}

(* What loading libraries works on.                                        *)
Loading == [queue : Seq(A!Entry), libmain : [Natives -> Nat],
            shell : {"running", "exited", "crashed"}, go : BOOLEAN]

RunAgain(runs, f) == [runs EXCEPT ![f] = @ + 1]

(* A library that is loaded is listed and its libmain has run once more;   *)
(* any other changes neither.                                              *)
LEMMA LoadNativeIs ==
  ASSUME NEW x \in Loading, NEW e \in A!Entry, e.file \in Natives, NEW y, y = A!LoadNative(x, e)
  PROVE  /\ y \in Loading
         /\ \/ y.queue = x.queue /\ y.libmain = x.libmain
            \/ /\ y.queue = A!apm_queue_add(x.queue, e)
               /\ y.libmain = RunAgain(x.libmain, e.file)
<1>1. /\ x.queue \in Seq(A!Entry) /\ x.libmain \in [Natives -> Nat] /\ x.go \in BOOLEAN
      /\ x.shell \in {"running", "exited", "crashed"}
      /\ x = [queue |-> x.queue, libmain |-> x.libmain, shell |-> x.shell, go |-> x.go]
  BY DEF Loading
<1>2. PICK add : add = A!apm_queue_add(x.queue, e)
  OBVIOUS
<1>3. add \in Seq(A!Entry)
  BY <1>1, <1>2, AddedIs, Zenon
<1>4. PICK more : more = RunAgain(x.libmain, e.file)
  OBVIOUS
<1>5. more \in [Natives -> Nat]
  BY <1>1, <1>4 DEF RunAgain
<1>6. \/ y = x
      \/ y = [x EXCEPT !.go = FALSE]
      \/ y = [x EXCEPT !.go = FALSE, !.shell = "crashed"]
      \/ y = [x EXCEPT !.go = FALSE, !.shell = "exited"]
      \/ y = [x EXCEPT !.queue = A!apm_queue_add(@, e), !.libmain[e.file] = @ + 1]
  BY SMT DEF A!LoadNative
<1>7. CASE y = x
  BY <1>7
<1>8. CASE y = [x EXCEPT !.go = FALSE]
  BY <1>1, <1>8 DEF Loading
<1>9. CASE y = [x EXCEPT !.go = FALSE, !.shell = "crashed"]
  BY <1>1, <1>9 DEF Loading
<1>10. CASE y = [x EXCEPT !.go = FALSE, !.shell = "exited"]
  BY <1>1, <1>10 DEF Loading
<1>11. CASE y = [x EXCEPT !.queue = A!apm_queue_add(@, e), !.libmain[e.file] = @ + 1]
  <2>1. y = [queue |-> add, libmain |-> more, shell |-> x.shell, go |-> x.go]
    BY <1>1, <1>2, <1>4, <1>11 DEF RunAgain
  <2> QED BY <1>1, <1>2, <1>3, <1>4, <1>5, <2>1 DEF Loading
<1> QED BY <1>6, <1>7, <1>8, <1>9, <1>10, <1>11

(* Whatever comes of a library, loading goes on with a list.               *)
LEMMA LoadNativeTyped ==
  ASSUME NEW x \in Loading, NEW e \in {g \in A!Entry : g.file \in Natives}
  PROVE  A!LoadNative(x, e) \in Loading
BY LoadNativeIs, Zenon

(* ... so that what was right stays right, if it was not listed.           *)
LEMMA LoadNativeRight ==
  ASSUME NEW x \in Loading, NEW e \in {g \in A!Entry : g.file \in Natives},
         Right(x.queue, x.libmain), ~A!Holds(x.queue, e.file),
         NEW y, y = A!LoadNative(x, e)
  PROVE  /\ Right(y.queue, y.libmain)
         /\ \A g : A!Holds(y.queue, g) => A!Holds(x.queue, g) \/ e.file = g
<1>1. \/ y.queue = x.queue /\ y.libmain = x.libmain
      \/ /\ y.queue = A!apm_queue_add(x.queue, e)
         /\ y.libmain = RunAgain(x.libmain, e.file)
  <2>1. e \in A!Entry /\ e.file \in Natives
    OBVIOUS
  <2> QED BY <2>1, LoadNativeIs, Zenon
<1>2. CASE y.queue = x.queue /\ y.libmain = x.libmain
  BY <1>2, Zenon
<1>3. CASE /\ y.queue = A!apm_queue_add(x.queue, e)
           /\ y.libmain = RunAgain(x.libmain, e.file)
  <2>1. /\ x.queue \in Seq(A!Entry) /\ x.libmain \in [Natives -> Nat]
        /\ e \in A!Entry /\ e.file \in Natives
    BY DEF Loading
  <2>2. /\ \A f : A!Holds(y.queue, f) <=> (A!Holds(x.queue, f) \/ e.file = f)
        /\ Ordered(y.queue)
    <3>1. Ordered(x.queue)
      BY Zenon DEF Right
    <3>2. PICK q : q = x.queue
      OBVIOUS
    <3>3. q \in Seq(A!Entry) /\ Ordered(q) /\ ~A!Holds(q, e.file) /\ y.queue = A!apm_queue_add(q, e)
      BY <1>3, <2>1, <3>1, <3>2, Zenon
    <3>4. /\ \A f : A!Holds(A!apm_queue_add(q, e), f) <=> (A!Holds(q, f) \/ e.file = f)
          /\ Ordered(A!apm_queue_add(q, e))
      BY <2>1, <3>3, AddedIs, Zenon
    <3> QED BY <3>2, <3>3, <3>4, Zenon
  <2>3. ASSUME NEW f \in Natives PROVE y.libmain[f] = IF A!Holds(y.queue, f) THEN 1 ELSE 0
    <3>1. x.libmain[f] = IF A!Holds(x.queue, f) THEN 1 ELSE 0
      BY Zenon DEF Right
    <3>2. CASE f = e.file
      <4>1. x.libmain[f] = 0 /\ A!Holds(y.queue, f)
        BY <2>2, <3>1, <3>2, Zenon
      <4>2. y.libmain[f] = x.libmain[f] + 1
        BY <1>3, <2>1, <3>2 DEF RunAgain
      <4>3. y.libmain[f] = 1
        BY <4>1, <4>2
      <4> QED BY <4>1, <4>3, Zenon
    <3>3. CASE f # e.file
      <4>1. y.libmain[f] = x.libmain[f]
        BY <1>3, <2>1, <3>3 DEF RunAgain
      <4>2. A!Holds(y.queue, f) <=> A!Holds(x.queue, f)
        BY <2>2, <3>3, Zenon
      <4> QED BY <3>1, <4>1, <4>2, Zenon
    <3> QED BY <3>2, <3>3, Zenon
  <2> QED BY <2>2, <2>3, Zenon DEF Right
<1> QED BY <1>1, <1>2, <1>3, Zenon

Loaded == [queue |-> apm_queue, libmain |-> libmain, shell |-> "running", go |-> TRUE]

IsNatively(libs, n, acc) ==
  acc = [i \in 0 .. n |-> IF i = 0 THEN Loaded ELSE A!LoadNative(acc[i - 1], libs[i])]

(* The first half of apm load keeps what is right.                         *)
LEMMA NativelyIs ==
  ASSUME NEW libs \in Unloaded, apm_queue \in Seq(A!Entry), libmain \in [Natives -> Nat],
         Right(apm_queue, libmain)
  PROVE  /\ A!Natively(libs) \in Loading
         /\ Right(A!Natively(libs).queue, A!Natively(libs).libmain)
<1>1. PICK n \in Nat : /\ n = Len(libs) /\ DOMAIN libs = 1 .. n
                       /\ \A i \in 1 .. n : libs[i] \in {g \in A!Entry : g.file \in Natives}
  <2>1. /\ libs \in Seq(A!Entry)
        /\ \A i \in DOMAIN libs : libs[i].file \in Natives
    BY Zenon DEF Unloaded
  <2>2. Len(libs) \in Nat /\ DOMAIN libs = 1 .. Len(libs)
    BY <2>1, LenProperties
  <2>3. \A i \in 1 .. Len(libs) : libs[i] \in A!Entry
    BY <2>1, ElementOfSeq, Zenon
  <2> QED BY <2>1, <2>2, <2>3, Zenon
<1>2. Loaded \in Loading
  BY DEF Loaded, Loading
<1> DEFINE step(x, i) == A!LoadNative(x, libs[i])
           steps == [i \in 1 .. n |-> [x \in Loading |-> step(x, i)]]
<1>3. \A i \in 1 .. n : \A x \in Loading : step(x, i) \in Loading
  BY <1>1, LoadNativeTyped, Zenon
<1>4. /\ steps \in [1 .. n -> [Loading -> Loading]]
      /\ \A i \in 1 .. n, x \in Loading : steps[i][x] = step(x, i)
  BY <1>3
<1>5. PICK f : Follows(f, Loading, Loaded, n, steps)
  <2> HIDE DEF steps
  <2> QED BY <1>2, <1>4, Iterates, Zenon
<1>6. IsNatively(libs, n, f)
  <2>1. /\ f = [i \in 0 .. n |-> IF i = 0 THEN Loaded ELSE steps[i][f[i - 1]]]
        /\ \A i \in 1 .. n : f[i - 1] \in Loading
    BY <1>2, <1>5, FollowsIs, Zenon
  <2>2. \A i \in 0 .. n : i = 0 \/ i \in 1 .. n
    OBVIOUS
  <2> HIDE DEF steps
  <2>3. \A i \in 0 .. n : (IF i = 0 THEN Loaded ELSE steps[i][f[i - 1]])
                            = IF i = 0 THEN Loaded ELSE step(f[i - 1], i)
    BY <1>4, <2>1, <2>2, Zenon
  <2> HIDE DEF step
  <2>4. f = [i \in 0 .. n |-> IF i = 0 THEN Loaded ELSE step(f[i - 1], i)]
    BY <2>1, <2>3, Zenon
  <2> QED BY <2>4, Zenon DEF IsNatively, step
<1> DEFINE acc == CHOOSE acc : IsNatively(libs, Len(libs), acc)
<1>7. A!Natively(libs) = acc[n]
  BY <1>1, Zenon DEF A!Natively, Loaded, IsNatively
<1>8. IsNatively(libs, n, acc)
  BY <1>1, <1>6, Zenon
<1> HIDE DEF acc
<1>9. acc[0] = Loaded /\ \A i \in 1 .. n : acc[i] = step(acc[i - 1], i)
  <2>1. 0 \in 0 .. n /\ \A i \in 1 .. n : i \in 0 .. n /\ i # 0
    OBVIOUS
  <2> QED BY <1>8, <2>1, Zenon DEF IsNatively
<1>10. \A i \in 0 .. n : acc[i] \in Loading
  <2>1. \A i \in 1 .. n : acc[i - 1] \in Loading => acc[i] \in Loading
    BY <1>3, <1>9, Zenon
  <2> QED BY <1>2, <1>9, <2>1, Keeps, Zenon
<1> DEFINE T == {k \in 0 .. n : /\ Right(acc[k].queue, acc[k].libmain)
                               /\ \A j \in k + 1 .. n : ~A!Holds(acc[k].queue, libs[j].file)}
<1>11. 0 \in T
  <2>1. \A j \in 0 + 1 .. n : j \in DOMAIN libs
    BY <1>1
  <2>2. \A j \in 0 + 1 .. n : ~A!Holds(apm_queue, libs[j].file)
    BY <2>1, Zenon DEF Unloaded
  <2>3. acc[0].queue = apm_queue /\ acc[0].libmain = libmain
    BY <1>9 DEF Loaded
  <2>4. 0 \in 0 .. n
    OBVIOUS
  <2> QED BY <2>2, <2>3, <2>4, Zenon
<1>12. ASSUME NEW k \in 0 .. n - 1, k \in T PROVE k + 1 \in T
  <2>1. /\ k + 1 \in 1 .. n /\ k + 1 \in 0 .. n /\ (k + 1) - 1 = k /\ k \in 0 .. n
        /\ \A j \in (k + 1) + 1 .. n : j \in k + 1 .. n /\ j \in 1 .. n /\ j # k + 1
        /\ k + 1 \in k + 1 .. n
    OBVIOUS
  <2>2. /\ acc[k] \in Loading /\ libs[k + 1] \in {g \in A!Entry : g.file \in Natives}
        /\ acc[k + 1] = A!LoadNative(acc[k], libs[k + 1])
    <3>1. acc[k + 1] = A!LoadNative(acc[(k + 1) - 1], libs[k + 1])
      BY <1>9, <2>1, Zenon
    <3> QED BY <1>1, <1>10, <2>1, <3>1, Zenon
  <2>3. /\ Right(acc[k].queue, acc[k].libmain)
        /\ \A j \in k + 1 .. n : ~A!Holds(acc[k].queue, libs[j].file)
    BY <1>12, Zenon
  <2>4. /\ Right(acc[k + 1].queue, acc[k + 1].libmain)
        /\ \A g : A!Holds(acc[k + 1].queue, g) => A!Holds(acc[k].queue, g) \/ libs[k + 1].file = g
    <3>1. PICK x, e, y : x = acc[k] /\ e = libs[k + 1] /\ y = acc[k + 1]
      OBVIOUS
    <3>2. ~A!Holds(x.queue, e.file)
      BY <2>1, <2>3, <3>1, Zenon
    <3>3. /\ x \in Loading /\ e \in {g \in A!Entry : g.file \in Natives}
          /\ Right(x.queue, x.libmain) /\ y = A!LoadNative(x, e)
      BY <2>2, <2>3, <3>1, Zenon
    <3>4. /\ Right(y.queue, y.libmain)
          /\ \A g : A!Holds(y.queue, g) => A!Holds(x.queue, g) \/ e.file = g
      BY <3>2, <3>3, LoadNativeRight, Zenon
    <3> QED BY <3>1, <3>4, Zenon
  <2>5. \A j \in (k + 1) + 1 .. n : libs[j].file # libs[k + 1].file
    BY <1>1, <2>1, Zenon DEF Unloaded
  <2>6. \A j \in (k + 1) + 1 .. n : ~A!Holds(acc[k + 1].queue, libs[j].file)
    BY <2>1, <2>3, <2>4, <2>5, Zenon
  <2> QED BY <2>1, <2>4, <2>6, Zenon
<1>13. Right(acc[n].queue, acc[n].libmain)
  <2>1. n \in 0 .. n
    OBVIOUS
  <2>2. n \in T
    <3> HIDE DEF T
    <3>1. \A k \in 0 .. n - 1 : k \in T => k + 1 \in T
      BY <1>12
    <3> QED BY <1>11, <2>1, <3>1, UpTo, Zenon
  <2> QED BY <2>2, Zenon
<1>14. acc[n] \in Loading
  BY <1>10
<1> QED BY <1>7, <1>13, <1>14, Zenon

(* A module has a kind, wherever it is imported from.                      *)
LEMMA KindIs ==
  ASSUME disk \in [Dirs -> A!Contents], NEW modules \in [Pythons -> Kinds], NEW f \in Pythons
  PROVE  A!pycsh_load_pymod(modules, f) \in Kinds
<1>1. CASE modules[f] # "none"
  BY <1>1 DEF A!pycsh_load_pymod
<1>2. CASE modules[f] = "none" /\ A!OnSysPath(f) = {}
  BY <1>2 DEF A!pycsh_load_pymod, Kinds
<1>3. CASE modules[f] = "none" /\ A!OnSysPath(f) # {}
  <2>1. PICK n \in Nat : n = Len(SysPath) /\ \A i \in 1 .. n : SysPath[i] \in Dirs
    BY ApmAssumption, LenProperties, ElementOfSeq DEF A!ApmAssumption
  <2>2. A!OnSysPath(f) \subseteq 1 .. n /\ A!OnSysPath(f) \subseteq Nat
    BY <2>1 DEF A!OnSysPath
  <2>3. A!Min(A!OnSysPath(f)) \in 1 .. n
    BY <1>3, <2>2, FirstIs, Zenon
  <2>4. disk[SysPath[A!Min(A!OnSysPath(f))]] \in A!Contents
    BY <2>1, <2>3, Zenon
  <2>5. f \in A!Names
    BY Zenon DEF A!Names
  <2>6. disk[SysPath[A!Min(A!OnSysPath(f))]][f] \in Kinds
    BY <2>4, <2>5, Zenon DEF A!Contents, Kinds
  <2>7. A!pycsh_load_pymod(modules, f) = disk[SysPath[A!Min(A!OnSysPath(f))]][f]
    BY <1>3, Zenon DEF A!pycsh_load_pymod
  <2> QED BY <2>6, <2>7, Zenon
<1> QED BY <1>1, <1>2, <1>3, Zenon

(* Python modules leave the list in order, and the libraries in it.        *)
Importing(q) ==
  [queue : {t \in Seq(A!Entry) : Ordered(t) /\ \A f \in Natives : A!Holds(t, f) <=> A!Holds(q, f)},
   imported : [Pythons -> Kinds]]

(* A module that is listed has the name of no library.                     *)
LEMMA LoadPythonKeeps ==
  ASSUME disk \in [Dirs -> A!Contents], NEW q, NEW x \in Importing(q), NEW e \in A!Entry
  PROVE  A!LoadPython(x, e) \in Importing(q)
<1>1. PICK t, modules : /\ t = x.queue /\ modules = x.imported
                        /\ x = [queue |-> t, imported |-> modules]
  BY DEF Importing
<1>2. /\ t \in Seq(A!Entry) /\ Ordered(t) /\ modules \in [Pythons -> Kinds]
      /\ \A f \in Natives : A!Holds(t, f) <=> A!Holds(q, f)
  BY <1>1 DEF Importing
<1>3. CASE A!LoadPython(x, e) = x
  BY <1>3
<1>4. CASE A!LoadPython(x, e) # x
  <2>1. e.file \in Pythons
    BY <1>4, Zenon DEF A!LoadPython
  <2>2. PICK kind : kind = A!pycsh_load_pymod(x.imported, e.file)
    OBVIOUS
  <2>3. kind \in Kinds
    BY <1>1, <1>2, <2>1, <2>2, KindIs, Zenon
  <2>4. A!LoadPython(x, e)
          = [x EXCEPT !.imported[e.file] = kind,
                      !.queue = IF kind = "ok" THEN A!apm_queue_add(@, e) ELSE @]
    BY <1>4, <2>2, Zenon DEF A!LoadPython
  <2>5. PICK add : add = A!apm_queue_add(t, e)
    OBVIOUS
  <2>6. PICK u : u = IF kind = "ok" THEN add ELSE t
    OBVIOUS
  <2>7. A!LoadPython(x, e) = [queue |-> u, imported |-> [modules EXCEPT ![e.file] = kind]]
    BY <1>1, <2>4, <2>5, <2>6
  <2>8. [modules EXCEPT ![e.file] = kind] \in [Pythons -> Kinds]
    BY <1>2, <2>1, <2>3
  <2>9. /\ add \in Seq(A!Entry) /\ Ordered(add)
        /\ \A f : A!Holds(add, f) <=> (A!Holds(t, f) \/ e.file = f)
    BY <1>2, <2>1, <2>5, AddedIs, Zenon
  <2>10. \A f \in Natives : e.file # f
    BY <2>1, ApmAssumption, Zenon DEF A!ApmAssumption
  <2>11. /\ u \in Seq(A!Entry) /\ Ordered(u)
         /\ \A f \in Natives : A!Holds(u, f) <=> A!Holds(q, f)
    BY <1>2, <2>6, <2>9, <2>10, Zenon
  <2>12. PICK lists : lists = {s \in Seq(A!Entry) :
                                 Ordered(s) /\ \A f \in Natives : A!Holds(s, f) <=> A!Holds(q, f)}
    OBVIOUS
  <2>13. Importing(q) = [queue : lists, imported : [Pythons -> Kinds]]
    BY <2>12, Zenon DEF Importing
  <2>14. u \in lists
    BY <2>11, <2>12, Zenon
  <2> QED BY <2>7, <2>8, <2>13, <2>14
<1> QED BY <1>3, <1>4

IsInPython(q, found, n, acc) ==
  acc = [i \in 0 .. n |-> IF i = 0 THEN [queue |-> q, imported |-> imported]
                          ELSE A!LoadPython(acc[i - 1], found[i])]

(* ... so that the loop over all modules leaves the libraries in the list. *)
LEMMA InPythonIs ==
  ASSUME disk \in [Dirs -> A!Contents], imported \in [Pythons -> Kinds],
         NEW q \in Seq(A!Entry), Ordered(q), NEW found \in Seq(A!Entry)
  PROVE  A!InPython(q, found) \in Importing(q)
<1>1. PICK n \in Nat : n = Len(found) /\ \A i \in 1 .. n : found[i] \in A!Entry
  BY LenProperties, ElementOfSeq
<1>2. [queue |-> q, imported |-> imported] \in Importing(q)
  BY Zenon DEF Importing
<1> DEFINE step(x, i) == A!LoadPython(x, found[i])
           steps == [i \in 1 .. n |-> [x \in Importing(q) |-> step(x, i)]]
<1>3. \A i \in 1 .. n : \A x \in Importing(q) : step(x, i) \in Importing(q)
  BY <1>1, LoadPythonKeeps, Zenon
<1>4. /\ steps \in [1 .. n -> [Importing(q) -> Importing(q)]]
      /\ \A i \in 1 .. n, x \in Importing(q) : steps[i][x] = step(x, i)
  BY <1>3
<1>5. PICK f : Follows(f, Importing(q), [queue |-> q, imported |-> imported], n, steps)
  <2> HIDE DEF steps
  <2> QED BY <1>2, <1>4, Iterates, Zenon
<1>6. IsInPython(q, found, n, f)
  <2>1. /\ f = [i \in 0 .. n |-> IF i = 0 THEN [queue |-> q, imported |-> imported]
                                ELSE steps[i][f[i - 1]]]
        /\ \A i \in 1 .. n : f[i - 1] \in Importing(q)
    BY <1>2, <1>5, FollowsIs, Zenon
  <2>2. \A i \in 0 .. n : i = 0 \/ i \in 1 .. n
    OBVIOUS
  <2> HIDE DEF steps
  <2>3. \A i \in 0 .. n : (IF i = 0 THEN [queue |-> q, imported |-> imported] ELSE steps[i][f[i - 1]])
                            = IF i = 0 THEN [queue |-> q, imported |-> imported] ELSE step(f[i - 1], i)
    BY <1>4, <2>1, <2>2, Zenon
  <2> HIDE DEF step
  <2>4. f = [i \in 0 .. n |-> IF i = 0 THEN [queue |-> q, imported |-> imported] ELSE step(f[i - 1], i)]
    BY <2>1, <2>3, Zenon
  <2> QED BY <2>4, Zenon DEF IsInPython, step
<1> DEFINE acc == CHOOSE acc : IsInPython(q, found, Len(found), acc)
<1>7. A!InPython(q, found) = acc[n]
  BY <1>1, Zenon DEF A!InPython, IsInPython
<1>8. IsInPython(q, found, n, acc)
  BY <1>1, <1>6, Zenon
<1> HIDE DEF acc
<1>9. acc[0] = [queue |-> q, imported |-> imported] /\ \A i \in 1 .. n : acc[i] = step(acc[i - 1], i)
  <2>1. 0 \in 0 .. n /\ \A i \in 1 .. n : i \in 0 .. n /\ i # 0
    OBVIOUS
  <2> QED BY <1>8, <2>1, Zenon DEF IsInPython
<1>10. \A i \in 0 .. n : acc[i] \in Importing(q)
  <2>1. \A i \in 1 .. n : acc[i - 1] \in Importing(q) => acc[i] \in Importing(q)
    BY <1>3, <1>9, Zenon
  <2> QED BY <1>2, <1>9, <2>1, Keeps, Zenon
<1>11. acc[n] \in Importing(q)
  BY <1>10
<1> QED BY <1>7, <1>11, Zenon

(* What is always right.                                                   *)
ApmInv ==
  /\ A!TypeOK /\ imported \in [Pythons -> Kinds] /\ libmain \in [Natives -> Nat]
  /\ Right(apm_queue, libmain)

(* apm load keeps it.                                                      *)
LEMMA LoadKeeps ==
  ASSUME ApmInv, NEW asked \in Searches, shell = "running", A!apm_load(asked)
  PROVE  ApmInv'
<1>1. /\ disk \in [Dirs -> A!Contents] /\ apm_queue \in Seq(A!Entry)
      /\ installs \in 0 .. MaxInstalls /\ imported \in [Pythons -> Kinds]
      /\ libmain \in [Natives -> Nat] /\ Right(apm_queue, libmain)
  BY Zenon DEF ApmInv, A!TypeOK
<1>2. asked.paths \in Seq(Dirs) /\ asked.py_paths \in Seq(Dirs) /\ asked.find \in Seq(A!Names)
  BY ApmAssumption DEF A!ApmAssumption
<1>3. PICK walked : walked = A!build_apm_list(asked.paths)
  OBVIOUS
<1>4. walked \in Seq(Dirs)
  BY <1>2, <1>3, WalkedTyped, Zenon
<1>5. PICK native : native = A!Natively(A!Libraries(A!Candidates(walked, asked.find)))
  OBVIOUS
<1>6. native \in Loading /\ Right(native.queue, native.libmain)
  <2>1. A!Candidates(walked, asked.find) \in Seq(A!Entry)
    BY <1>2, <1>4, CandidatesTyped, Zenon
  <2>2. A!Libraries(A!Candidates(walked, asked.find)) \in Unloaded
    BY <2>1, LibrariesAre, Zenon
  <2> QED BY <1>1, <1>5, <2>2, NativelyIs, Zenon
<1>7. /\ native.queue \in Seq(A!Entry) /\ native.libmain \in [Natives -> Nat]
      /\ native.shell \in {"running", "exited", "crashed"} /\ Ordered(native.queue)
      /\ \A f \in Natives : native.libmain[f] = IF A!Holds(native.queue, f) THEN 1 ELSE 0
  <2>1. /\ native.queue \in Seq(A!Entry) /\ native.libmain \in [Natives -> Nat]
        /\ native.shell \in {"running", "exited", "crashed"}
    BY <1>6 DEF Loading
  <2> QED BY <1>6, <2>1, Zenon DEF Right
<1>8. PICK both : both = IF native.shell = "running" /\ asked.slash
                         THEN A!InPython(native.queue, A!Candidates(asked.py_paths, asked.find))
                         ELSE [queue |-> native.queue, imported |-> imported]
  OBVIOUS
<1>9. /\ both.queue \in Seq(A!Entry) /\ Ordered(both.queue) /\ both.imported \in [Pythons -> Kinds]
      /\ \A f \in Natives : A!Holds(both.queue, f) <=> A!Holds(native.queue, f)
  <2>1. CASE both = A!InPython(native.queue, A!Candidates(asked.py_paths, asked.find))
    <3>1. A!Candidates(asked.py_paths, asked.find) \in Seq(A!Entry)
      BY <1>2, CandidatesTyped, Zenon
    <3>2. both \in Importing(native.queue)
      BY <1>1, <1>7, <2>1, <3>1, InPythonIs, Zenon
    <3>3. PICK q : q = native.queue
      OBVIOUS
    <3>4. /\ both.queue \in {t \in Seq(A!Entry) :
                               Ordered(t) /\ \A f \in Natives : A!Holds(t, f) <=> A!Holds(q, f)}
          /\ both.imported \in [Pythons -> Kinds]
      BY <3>2, <3>3 DEF Importing
    <3> QED BY <3>3, <3>4, Zenon
  <2>2. CASE both = [queue |-> native.queue, imported |-> imported]
    <3>1. both.queue = native.queue /\ both.imported = imported
      BY <2>2
    <3> QED BY <1>1, <1>7, <3>1, Zenon
  <2> QED BY <1>8, <2>1, <2>2, Zenon
<1>10. /\ apm_queue' = both.queue /\ imported' = both.imported
       /\ libmain' = native.libmain /\ shell' = native.shell
       /\ disk' = disk /\ installs' = installs
  BY <1>3, <1>5, <1>8, Zenon DEF A!apm_load
<1>11. Right(apm_queue', libmain')
  BY <1>7, <1>9, <1>10, Zenon DEF Right
<1>12. /\ disk' \in [Dirs -> A!Contents] /\ apm_queue' \in Seq(A!Entry)
       /\ shell' \in {"running", "exited", "crashed"} /\ installs' \in 0 .. MaxInstalls
       /\ imported' \in [Pythons -> Kinds] /\ libmain' \in [Natives -> Nat]
  BY <1>1, <1>7, <1>9, <1>10, Zenon
<1> QED BY <1>11, <1>12, Zenon DEF ApmInv, A!TypeOK

(* Installing files and loading them keep it.                              *)
LEMMA ApmStep == ApmInv /\ [A!Next]_(A!vars) => ApmInv'
<1> SUFFICES ASSUME ApmInv, [A!Next]_(A!vars) PROVE ApmInv'
  OBVIOUS
<1>1. ASSUME NEW d \in Dirs, NEW f \in A!Names, NEW kind \in A!KindsOf(f) \cup {"none"},
             A!Install(d, f, kind)
      PROVE  ApmInv'
  <2>1. /\ disk' = [disk EXCEPT ![d][f] = kind] /\ installs' = installs + 1
        /\ installs < MaxInstalls
        /\ apm_queue' = apm_queue /\ libmain' = libmain /\ imported' = imported /\ shell' = shell
    BY <1>1, Zenon DEF A!Install
  <2>2. /\ disk \in [Dirs -> A!Contents] /\ apm_queue \in Seq(A!Entry)
        /\ shell \in {"running", "exited", "crashed"} /\ installs \in 0 .. MaxInstalls
        /\ imported \in [Pythons -> Kinds] /\ libmain \in [Natives -> Nat]
        /\ Right(apm_queue, libmain)
    BY Zenon DEF ApmInv, A!TypeOK
  <2>3. kind \in Kinds
    <3>1. CASE kind = "none"
      BY <3>1, SMT DEF Kinds
    <3>2. CASE kind \in A!KindsOf(f)
      BY <3>2, Zenon DEF Kinds
    <3> QED BY <3>1, <3>2, Zenon
  <2>4. A!Contents = [A!Names -> Kinds]
    BY Zenon DEF A!Contents, Kinds
  <2>5. disk' \in [Dirs -> A!Contents]
    <3> HIDE DEF Kinds
    <3> QED BY <2>1, <2>2, <2>3, <2>4
  <2>6. installs' \in 0 .. MaxInstalls
    BY <2>1, <2>2, ApmAssumption DEF A!ApmAssumption
  <2>7. Right(apm_queue', libmain')
    BY <2>1, <2>2, Zenon
  <2> QED BY <2>1, <2>2, <2>5, <2>6, <2>7, Zenon DEF ApmInv, A!TypeOK
<1>2. ASSUME shell = "running", NEW asked \in Searches, A!apm_load(asked) PROVE ApmInv'
  BY <1>2, LoadKeeps
<1>3. ASSUME UNCHANGED A!vars PROVE ApmInv'
  <2>1. /\ disk' = disk /\ apm_queue' = apm_queue /\ libmain' = libmain /\ imported' = imported
        /\ shell' = shell /\ installs' = installs
    BY <1>3, Zenon DEF A!vars
  <2>2. Right(apm_queue', libmain') <=> Right(apm_queue, libmain)
    BY <2>1, Zenon
  <2> QED BY <2>1, <2>2, Zenon DEF ApmInv, A!TypeOK
<1> QED BY <1>1, <1>2, <1>3, Zenon DEF A!Next

(* At first nothing is listed and nothing has run.                         *)
LEMMA ApmInit == A!Init => ApmInv
<1> SUFFICES ASSUME A!Init PROVE ApmInv
  OBVIOUS
<1>1. /\ disk = Disk0 /\ apm_queue = << >> /\ libmain = [f \in Natives |-> 0]
      /\ imported = [f \in Pythons |-> "none"] /\ shell = "running" /\ installs = 0
  BY Zenon DEF A!Init
<1>2. Disk0 \in [Dirs -> A!Contents] /\ MaxInstalls \in Nat
  BY ApmAssumption, Zenon DEF A!ApmAssumption
<1>3. apm_queue \in Seq(A!Entry) /\ DOMAIN apm_queue = {}
  BY <1>1, EmptySeq
<1>4. imported \in [Pythons -> Kinds]
  <2>1. "none" \in Kinds
    BY SMT DEF Kinds
  <2> QED BY <1>1, <2>1, Zenon
<1>5. libmain \in [Natives -> Nat] /\ installs \in 0 .. MaxInstalls
  BY <1>1, <1>2
<1>6. \A f \in Natives : libmain[f] = 0 /\ ~A!Holds(apm_queue, f)
  BY <1>1, <1>3, Zenon DEF A!Holds
<1>7. Right(apm_queue, libmain)
  BY <1>3, <1>6, Zenon DEF Right, Ordered
<1> QED BY <1>1, <1>2, <1>3, <1>4, <1>5, <1>7, Zenon DEF ApmInv, A!TypeOK

(* Counting is the same in the instance.                                   *)
LEMMA SameCount == \A S : A!Cardinality(S) = Cardinality(S)
BY Zenon DEF A!Cardinality, Cardinality

(* For every set of names, directories and searches, and whatever is       *)
(* installed, replaced and removed between the loads: the list is in the   *)
(* order of the names (apm_queue_add, from either loader).                 *)
THEOREM ModulesListedInOrder == A!Spec => []ListedInOrder
<1>1. ApmInv => ListedInOrder
  <2> SUFFICES ASSUME ApmInv PROVE ListedInOrder
    OBVIOUS
  <2>1. A!TypeOK /\ apm_queue \in Seq(A!Entry) /\ Ordered(apm_queue)
    BY Zenon DEF ApmInv, A!TypeOK, Right
  <2>2. PICK n \in Nat : n = Len(apm_queue) /\ DOMAIN apm_queue = 1 .. n
    BY <2>1, LenProperties
  <2>3. ASSUME NEW i \in 1 .. Len(apm_queue) - 1
        PROVE  Before(apm_queue[i], apm_queue[i + 1])
    <3>1. i \in 1 .. n /\ i + 1 \in 1 .. n /\ i < i + 1
      BY <2>2
    <3> QED BY <2>1, <2>2, <3>1, Zenon DEF Ordered
  <2>4. \A i \in 1 .. Len(apm_queue) - 1 :
          apm_queue[i].file < apm_queue[i + 1].file
            \/ (apm_queue[i].file = apm_queue[i + 1].file /\ apm_queue[i].file \in Pythons)
    BY <2>3, Zenon DEF Before
  <2> QED BY <2>1, <2>4, Zenon DEF ListedInOrder, A!ListedInOrder
<1> QED BY <1>1, ApmInit, ApmStep, PTL DEF A!Spec

(* ... and libmain of each library has run exactly as often as the library *)
(* is listed, at most once (file_callback, initialize_apm).                *)
THEOREM ModulesLibmainOnce == A!Spec => []LibmainOnce
<1>1. ApmInv => LibmainOnce
  <2> SUFFICES ASSUME ApmInv, NEW f \in Natives
               PROVE  /\ libmain[f] = A!Cardinality({i \in DOMAIN apm_queue : apm_queue[i].file = f})
                      /\ libmain[f] <= 1
    BY Zenon DEF LibmainOnce, A!LibmainOnce
  <2>1. /\ apm_queue \in Seq(A!Entry) /\ Ordered(apm_queue)
        /\ libmain[f] = IF A!Holds(apm_queue, f) THEN 1 ELSE 0
    BY Zenon DEF ApmInv, A!TypeOK, Right
  <2>2. PICK n \in Nat : DOMAIN apm_queue = 1 .. n /\ \A i \in 1 .. n : apm_queue[i] \in A!Entry
    BY <2>1, LenProperties, ElementOfSeq
  <2> DEFINE places == {i \in DOMAIN apm_queue : apm_queue[i].file = f}
  <2>3. f \notin Pythons /\ f \in Nat
    BY ApmAssumption DEF A!ApmAssumption, A!Names
  <2>4. CASE A!Holds(apm_queue, f)
    <3>1. PICK i \in 1 .. n : apm_queue[i].file = f
      BY <2>2, <2>4, Zenon DEF A!Holds
    <3>2. ASSUME NEW j \in 1 .. n, apm_queue[j].file = f PROVE j = i
      <4>1. i < j => Before(apm_queue[i], apm_queue[j])
        BY <2>1, <2>2, Zenon DEF Ordered
      <4>2. j < i => Before(apm_queue[j], apm_queue[i])
        BY <2>1, <2>2, Zenon DEF Ordered
      <4>3. ~Before(apm_queue[i], apm_queue[j]) /\ ~Before(apm_queue[j], apm_queue[i])
        BY <2>3, <3>1, <3>2 DEF Before
      <4> QED BY <4>1, <4>2, <4>3
    <3>3. places = {i}
      BY <2>2, <3>1, <3>2
    <3>4. A!Cardinality(places) = 1
      BY <3>3, FS_Singleton, SameCount
    <3> QED BY <2>1, <2>4, <3>4
  <2>5. CASE ~A!Holds(apm_queue, f)
    <3>1. places = {}
      BY <2>5, Zenon DEF A!Holds
    <3>2. A!Cardinality(places) = 0
      BY <3>1, FS_EmptySet, SameCount
    <3> QED BY <2>1, <2>5, <3>2
  <2> QED BY <2>4, <2>5, Zenon
<1> QED BY <1>1, ApmInit, ApmStep, PTL DEF A!Spec

-----------------------------------------------------------------------------
(* Required versions.                                                      *)

(* A token where it belongs: numbers at odd places, dots at even ones.     *)
Fits(p, j) == IF j % 2 = 1 THEN V!IsNumber(p[j]) ELSE p[j] = Dot

Good(p, m) == \A j \in 1 .. m : Fits(p, j)

(* The tokens without a leading v, and how many that are less.             *)
Off == IF tag # << >> /\ tag[1] = Vee THEN 1 ELSE 0

(* What a string csh was built with is, with and without its v.            *)
LEMMA PlainIs ==
  ASSUME tag \in Tags
  PROVE  /\ tag \in Seq(V!Token) /\ Off \in {0, 1} /\ Off <= Len(tag)
         /\ V!Plain \in Seq(V!Token) /\ Len(V!Plain) = Len(tag) - Off
         /\ \A j \in 1 .. Len(tag) - Off : V!Plain[j] = tag[j + Off]
         /\ \A j \in 1 .. (Len(tag) - Off) - 1 :
              ~(V!IsNumber(V!Plain[j]) /\ V!IsNumber(V!Plain[j + 1]))
         /\ Off = 0 /\ tag # << >> => tag[1] # Vee
<1>1. tag \in Seq(V!Token)
  BY VersionAssumption DEF V!VersionAssumption
<1>2. PICK l \in Nat : l = Len(tag)
  BY <1>1, LenProperties
<1>3. CASE tag # << >> /\ tag[1] = Vee
  <2>1. Off = 1 /\ V!Plain = Tail(tag)
    BY <1>3, Zenon DEF Off, V!Plain
  <2>2. /\ V!Plain \in Seq(V!Token) /\ Len(V!Plain) = l - 1 /\ 1 <= l
        /\ \A j \in 1 .. l - 1 : V!Plain[j] = tag[j + 1]
    <3>1. l # 0
      BY <1>1, <1>2, <1>3, EmptySeq, Zenon
    <3>2. /\ Tail(tag) \in Seq(V!Token) /\ Len(Tail(tag)) = Len(tag) - 1
          /\ \A j \in 1 .. Len(tag) - 1 : Tail(tag)[j] = tag[j + 1]
      BY <1>1, <1>3, HeadTailProperties
    <3> QED BY <1>2, <2>1, <3>1, <3>2
  <2>3. \A j \in 1 .. (l - 1) - 1 : ~(V!IsNumber(V!Plain[j]) /\ V!IsNumber(V!Plain[j + 1]))
    <3> SUFFICES ASSUME NEW j \in 1 .. (l - 1) - 1
                 PROVE  ~(V!IsNumber(V!Plain[j]) /\ V!IsNumber(V!Plain[j + 1]))
      OBVIOUS
    <3>1. /\ j \in 1 .. l - 1 /\ j + 1 \in 1 .. l - 1 /\ j + 1 \in 1 .. Len(tag) - 1
      BY <1>2
    <3>2. ~(V!IsNumber(tag[j + 1]) /\ V!IsNumber(tag[(j + 1) + 1]))
      BY <3>1, VersionAssumption, Zenon DEF V!VersionAssumption
    <3> QED BY <2>2, <3>1, <3>2, Zenon
  <2> QED BY <1>1, <1>2, <2>1, <2>2, <2>3
<1>4. CASE ~(tag # << >> /\ tag[1] = Vee)
  <2>1. Off = 0 /\ V!Plain = tag
    BY <1>4, Zenon DEF Off, V!Plain
  <2>2. \A j \in 1 .. Len(tag) - 1 : ~(V!IsNumber(tag[j]) /\ V!IsNumber(tag[j + 1]))
    BY VersionAssumption, Zenon DEF V!VersionAssumption
  <2>3. l - 0 = l /\ \A j \in 1 .. l : j + 0 = j
    OBVIOUS
  <2> QED BY <1>1, <1>2, <1>4, <2>1, <2>2, <2>3
<1> QED BY <1>3, <1>4, Zenon

(* The lengths of version strings: odd numbers, or one more.               *)
LEMMA SomeLengths ==
  \A n \in Nat : /\ (n <= 5 /\ n % 2 = 1) <=> n \in {1, 3, 5}
                 /\ n > 1 => ((n <= 6 /\ (n - 1) % 2 = 1) <=> n \in {2, 4, 6})
                 /\ n \in {2, 4, 6} => n > 1
OBVIOUS

(* What version strings are, by their lengths.                             *)
LEMMA WellFormedIs ==
  ASSUME tag \in Tags, NEW p, p = V!Plain, NEW n \in Nat, n = Len(p)
  PROVE  V!WellFormed <=> \/ n \in {1, 3, 5} /\ Good(p, n)
                          \/ n \in {2, 4, 6} /\ p[n] = Plus /\ Good(p, n - 1)
                          \/ n > 5 /\ Good(p, 5) /\ p[6] = Dot
<1>1. p \in Seq(V!Token)
  BY PlainIs
<1>2. \A q \in Seq(V!Token) : V!NumbersAlternate(q) <=> (Len(q) % 2 = 1 /\ Good(q, Len(q)))
  <2> SUFFICES ASSUME NEW q \in Seq(V!Token)
               PROVE  V!NumbersAlternate(q) <=> (Len(q) % 2 = 1 /\ Good(q, Len(q)))
    OBVIOUS
  <2>1. DOMAIN q = 1 .. Len(q)
    BY LenProperties
  <2> QED BY <2>1, Zenon DEF V!NumbersAlternate, Good, Fits
<1>3. (n <= 5 /\ V!NumbersAlternate(p)) <=> (n \in {1, 3, 5} /\ Good(p, n))
  <2>1. (n <= 5 /\ n % 2 = 1) <=> n \in {1, 3, 5}
    BY SomeLengths, Zenon
  <2> QED BY <1>1, <1>2, <2>1, Zenon
<1>4. ASSUME n > 1
      PROVE  (n <= 6 /\ V!NumbersAlternate(V!Front(p))) <=> (n \in {2, 4, 6} /\ Good(p, n - 1))
  <2>1. PICK q : q = V!Front(p)
    OBVIOUS
  <2>2. /\ q \in Seq(V!Token) /\ Len(q) = n - 1
        /\ \A j \in 1 .. n - 1 : q[j] = p[j]
    <3>1. q = SubSeq(p, 1, n - 1)
      BY <2>1 DEF V!Front
    <3> QED BY <1>1, <1>4, <3>1, SubSeqProperties
  <2>3. Good(q, n - 1) <=> Good(p, n - 1)
    BY <2>2, Zenon DEF Good, Fits
  <2>4. (n <= 6 /\ (n - 1) % 2 = 1) <=> n \in {2, 4, 6}
    BY <1>4, SomeLengths, Zenon
  <2> QED BY <1>2, <2>1, <2>2, <2>3, <2>4, Zenon
<1>5. ASSUME n > 5
      PROVE  V!NumbersAlternate(SubSeq(p, 1, 5)) <=> Good(p, 5)
  <2>1. PICK q : q = SubSeq(p, 1, 5)
    OBVIOUS
  <2>2. /\ q \in Seq(V!Token) /\ Len(q) = 5
        /\ \A j \in 1 .. 5 : q[j] = p[j]
    BY <1>1, <1>5, <2>1, SubSeqProperties
  <2>3. Good(q, 5) <=> Good(p, 5)
    BY <2>2, Zenon DEF Good, Fits
  <2>4. 5 % 2 = 1
    OBVIOUS
  <2> QED BY <1>2, <2>1, <2>2, <2>3, <2>4, Zenon
<1>6. V!Last(p) = p[n]
  BY Zenon DEF V!Last
<1>7. V!WellFormed <=>
        \/ n <= 5 /\ V!NumbersAlternate(p)
        \/ n > 1 /\ p[n] = Plus /\ n <= 6 /\ V!NumbersAlternate(V!Front(p))
        \/ n > 5 /\ V!NumbersAlternate(SubSeq(p, 1, 5)) /\ p[6] = Dot
  BY <1>6, Zenon DEF V!WellFormed
<1>8. n \in {2, 4, 6} => n > 1
  BY SomeLengths, Zenon
<1> QED BY <1>3, <1>4, <1>5, <1>7, <1>8, Zenon

(* A token where it does not belong, but for a plus at the end.            *)
LEMMA Misfit ==
  ASSUME tag \in Tags, NEW p, p = V!Plain, NEW n \in Nat, n = Len(p), NEW m \in 0 .. 5, m + 1 <= n,
         ~Fits(p, m + 1), p[m + 1] = Plus => m + 1 < n
  PROVE  ~V!WellFormed
<1>1. \A k \in Nat : Good(p, k) => k < m + 1
  <2> SUFFICES ASSUME NEW k \in Nat, Good(p, k), ~(k < m + 1) PROVE FALSE
    OBVIOUS
  <2>1. m + 1 \in 1 .. k
    OBVIOUS
  <2> QED BY <2>1, Zenon DEF Good
<1>2. ~(n \in {1, 3, 5} /\ Good(p, n))
  BY <1>1
<1>3. ~(n \in {2, 4, 6} /\ p[n] = Plus /\ Good(p, n - 1))
  <2> SUFFICES ASSUME n \in {2, 4, 6}, p[n] = Plus, Good(p, n - 1) PROVE FALSE
    OBVIOUS
  <2>1. n - 1 < m + 1
    BY <1>1
  <2>2. n = m + 1
    BY <2>1
  <2> QED BY <2>2
<1>4. ~(n > 5 /\ Good(p, 5) /\ p[6] = Dot)
  <2> SUFFICES ASSUME Good(p, 5), p[6] = Dot PROVE FALSE
    OBVIOUS
  <2>1. 5 < m + 1
    BY <1>1
  <2>2. m + 1 = 6 /\ 6 % 2 # 1
    BY <2>1
  <2>3. ~Fits(p, 6)
    BY <2>2
  <2> QED BY <2>2, <2>3, Zenon DEF Fits
<1> QED BY <1>2, <1>3, <1>4, WellFormedIs, Zenon

(* What the parser keeps.                                                  *)
Parsing == [ok : BOOLEAN, done : BOOLEAN, seen : BOOLEAN, part : 1 .. 3, version : [1 .. 3 -> Nat]]

IsParse(str, n, acc) ==
  acc = [i \in 0 .. n |-> IF i = 0 THEN V!Unparsed ELSE V!ParseToken(acc[i - 1], i, str)]

(* Numbers are no other characters.                                        *)
LEMMA Numbers ==
  ASSUME NEW t \in V!Token
  PROVE  /\ V!IsNumber(t) => t \in Nat
         /\ t \in {Vee, Dot, Plus} => ~V!IsNumber(t)
         /\ Vee # Dot /\ Vee # Plus /\ Dot # Plus
BY VersionAssumption DEF V!VersionAssumption, V!Token, V!IsNumber

Refused(x)     == [x EXCEPT !.done = TRUE, !.ok = FALSE]
Ended(x)       == [x EXCEPT !.done = TRUE]
NextPart(x)    == [x EXCEPT !.part = @ + 1, !.seen = FALSE]
Numbered(x, t) == [x EXCEPT !.seen = TRUE, !.version[x.part] = t]

(* The ways a token is taken.                                              *)
TakenAs(x, y, i, str) ==
  /\ x.done => y = x
  /\ ~x.done /\ str[i] = Vee => y = IF i > 1 THEN Refused(x) ELSE x
  /\ ~x.done /\ str[i] = Dot =>
       y = IF ~x.seen THEN Refused(x) ELSE IF x.part = 3 THEN Ended(x) ELSE NextPart(x)
  /\ ~x.done /\ str[i] = Plus => y = IF i < Len(str) THEN Refused(x) ELSE x
  /\ ~x.done /\ V!IsNumber(str[i]) => y = Numbered(x, str[i])
  /\ ~x.done /\ str[i] \notin {Vee, Dot, Plus} /\ ~V!IsNumber(str[i]) => y = Refused(x)

(* ... are those of the parser.                                            *)
LEMMA ParseTokenIs ==
  ASSUME NEW str, NEW i \in Nat, str[i] \in V!Token, NEW x, NEW y, y = V!ParseToken(x, i, str)
  PROVE  TakenAs(x, y, i, str)
<1> USE DEF TakenAs
<1>1. PICK t \in V!Token : t = str[i]
  OBVIOUS
<1>2. /\ t \in {Vee, Dot, Plus} => ~V!IsNumber(t)
      /\ Vee # Dot /\ Vee # Plus /\ Dot # Plus
  BY Numbers
<1>3. CASE x.done
  BY <1>3, Zenon DEF V!ParseToken
<1>4. CASE ~x.done
  <2>1. CASE t = Vee
    BY <1>1, <1>2, <1>4, <2>1 DEF V!ParseToken, Refused
  <2>2. CASE t = Dot
    BY <1>1, <1>2, <1>4, <2>2
    DEF V!ParseToken, Refused, Ended, NextPart, V!SuffixAllowed, V!NUM_VERSION_PARTS
  <2>3. CASE t = Plus
    BY <1>1, <1>2, <1>4, <2>3 DEF V!ParseToken, Refused
  <2>4. CASE V!IsNumber(t)
    BY <1>1, <1>2, <1>4, <2>4 DEF V!ParseToken, Numbered
  <2>5. CASE t \notin {Vee, Dot, Plus} /\ ~V!IsNumber(t)
    BY <1>1, <1>2, <1>4, <2>5 DEF V!ParseToken, Refused
  <2> QED BY <2>1, <2>2, <2>3, <2>4, <2>5
<1> QED BY <1>3, <1>4

(* A token leaves the parser in one of its states.                         *)
LEMMA ParseTokenTyped ==
  ASSUME NEW str \in Seq(V!Token), NEW i \in 1 .. Len(str), NEW x \in Parsing
  PROVE  V!ParseToken(x, i, str) \in Parsing
<1>1. PICK y : y = V!ParseToken(x, i, str)
  OBVIOUS
<1>2. PICK t \in V!Token : t = str[i]
  BY ElementOfSeq
<1>3. /\ x.ok \in BOOLEAN /\ x.done \in BOOLEAN /\ x.seen \in BOOLEAN
      /\ x.part \in 1 .. 3 /\ x.version \in [1 .. 3 -> Nat]
      /\ x = [ok |-> x.ok, done |-> x.done, seen |-> x.seen, part |-> x.part, version |-> x.version]
  BY DEF Parsing
<1>4. i \in Nat
  BY LenProperties
<1>5. \/ y = x
      \/ y = Refused(x)
      \/ y = Ended(x)
      \/ x.part # 3 /\ y = NextPart(x)
      \/ V!IsNumber(t) /\ y = Numbered(x, t)
  <2>1. t = Vee \/ t = Dot \/ t = Plus \/ V!IsNumber(t)
          \/ (t \notin {Vee, Dot, Plus} /\ ~V!IsNumber(t))
    OBVIOUS
  <2>2. str[i] \in V!Token
    BY <1>2
  <2>3. TakenAs(x, y, i, str)
    BY <1>1, <1>4, <2>2, ParseTokenIs, Zenon
  <2> QED BY <1>2, <2>1, <2>3, Zenon DEF TakenAs
<1>6. CASE y = x
  BY <1>1, <1>6
<1>7. CASE y = Refused(x)
  BY <1>1, <1>3, <1>7 DEF Parsing, Refused
<1>8. CASE y = Ended(x)
  BY <1>1, <1>3, <1>8 DEF Parsing, Ended
<1>9. CASE x.part # 3 /\ y = NextPart(x)
  <2>1. x.part + 1 \in 1 .. 3
    BY <1>3, <1>9
  <2> QED BY <1>1, <1>3, <1>9, <2>1 DEF Parsing, NextPart
<1>10. CASE V!IsNumber(t) /\ y = Numbered(x, t)
  <2>1. [x.version EXCEPT ![x.part] = t] \in [1 .. 3 -> Nat]
    BY <1>3, <1>10, Numbers
  <2>2. y = [ok |-> x.ok, done |-> x.done, seen |-> TRUE, part |-> x.part,
             version |-> [x.version EXCEPT ![x.part] = t]]
    BY <1>3, <1>10 DEF Numbered
  <2> QED BY <1>1, <1>3, <2>1, <2>2 DEF Parsing
<1> QED BY <1>5, <1>6, <1>7, <1>8, <1>9, <1>10

(* The parser goes through the string token by token.                      *)
LEMMA ParseRuns ==
  ASSUME NEW str \in Seq(V!Token)
  PROVE  \E acc : /\ acc[0] = V!Unparsed
                  /\ \A i \in 0 .. Len(str) : acc[i] \in Parsing
                  /\ \A i \in 1 .. Len(str) : acc[i] = V!ParseToken(acc[i - 1], i, str)
                  /\ V!parse_version(str) = [ok |-> acc[Len(str)].ok /\ acc[Len(str)].seen,
                                             version |-> acc[Len(str)].version]
<1>1. PICK n \in Nat : n = Len(str)
  BY LenProperties
<1>2. V!Unparsed \in Parsing
  BY DEF V!Unparsed, V!NUM_VERSION_PARTS, Parsing
<1> DEFINE step(x, i) == V!ParseToken(x, i, str)
           steps == [i \in 1 .. n |-> [x \in Parsing |-> step(x, i)]]
<1>3. \A i \in 1 .. n : \A x \in Parsing : step(x, i) \in Parsing
  BY <1>1, ParseTokenTyped, Zenon
<1>4. /\ steps \in [1 .. n -> [Parsing -> Parsing]]
      /\ \A i \in 1 .. n, x \in Parsing : steps[i][x] = step(x, i)
  BY <1>3
<1>5. PICK f : Follows(f, Parsing, V!Unparsed, n, steps)
  <2> HIDE DEF steps
  <2> QED BY <1>2, <1>4, Iterates, Zenon
<1>6. IsParse(str, n, f)
  <2>1. /\ f = [i \in 0 .. n |-> IF i = 0 THEN V!Unparsed ELSE steps[i][f[i - 1]]]
        /\ \A i \in 1 .. n : f[i - 1] \in Parsing
    BY <1>2, <1>5, FollowsIs, Zenon
  <2>2. \A i \in 0 .. n : i = 0 \/ i \in 1 .. n
    OBVIOUS
  <2> HIDE DEF steps
  <2>3. \A i \in 0 .. n : (IF i = 0 THEN V!Unparsed ELSE steps[i][f[i - 1]])
                            = IF i = 0 THEN V!Unparsed ELSE step(f[i - 1], i)
    BY <1>4, <2>1, <2>2, Zenon
  <2> HIDE DEF step
  <2>4. f = [i \in 0 .. n |-> IF i = 0 THEN V!Unparsed ELSE step(f[i - 1], i)]
    BY <2>1, <2>3, Zenon
  <2> QED BY <2>4, Zenon DEF IsParse, step
<1> DEFINE acc == CHOOSE acc : IsParse(str, Len(str), acc)
<1>7. V!parse_version(str) = [ok |-> acc[n].ok /\ acc[n].seen, version |-> acc[n].version]
  BY <1>1, Zenon DEF V!parse_version, IsParse
<1>8. IsParse(str, n, acc)
  BY <1>1, <1>6, Zenon
<1> HIDE DEF acc
<1>9. acc[0] = V!Unparsed /\ \A i \in 1 .. n : acc[i] = step(acc[i - 1], i)
  <2>1. 0 \in 0 .. n /\ \A i \in 1 .. n : i \in 0 .. n /\ i # 0
    OBVIOUS
  <2> QED BY <1>8, <2>1, Zenon DEF IsParse
<1>10. \A i \in 0 .. n : acc[i] \in Parsing
  <2>1. \A i \in 1 .. n : acc[i - 1] \in Parsing => acc[i] \in Parsing
    BY <1>3, <1>9, Zenon
  <2> QED BY <1>2, <1>9, <2>1, Keeps, Zenon
<1> QED BY <1>1, <1>7, <1>9, <1>10, Zenon

(* Of m tokens that fit, the numbers are the parts of the version.         *)
PartsOf(version, p, m) == \A k \in 1 .. 3 : version[k] = IF 2 * k - 1 <= m THEN p[2 * k - 1] ELSE 0

Fitting(x, p, m) ==
  /\ ~x.done /\ x.ok /\ m \in 0 .. 5 /\ Good(p, m)
  /\ x.seen <=> m \in {1, 3, 5}
  /\ x.part = IF m < 2 THEN 1 ELSE IF m < 4 THEN 2 ELSE 3
  /\ PartsOf(x.version, p, m)

(* How far the parser is after i tokens: all fitted, but perhaps a plus at *)
(* the end; or it found a suffix; or what is no version.                   *)
Stage(x, p, i) ==
  \/ Fitting(x, p, IF i < Off THEN 0 ELSE i - Off)
  \/ i = Len(tag) /\ i > Off /\ p[i - Off] = Plus /\ Fitting(x, p, (i - Off) - 1)
  \/ /\ x.done /\ x.ok /\ x.seen /\ Len(p) > 5 /\ Good(p, 5) /\ p[6] = Dot
     /\ PartsOf(x.version, p, 5)
  \/ x.done /\ ~x.ok /\ ~V!WellFormed

(* One more fitting token.                                                 *)
LEMMA GoodMore ==
  ASSUME NEW p, NEW m \in 0 .. 5, Good(p, m), Fits(p, m + 1)
  PROVE  Good(p, m + 1)
<1> SUFFICES ASSUME NEW j \in 1 .. m + 1 PROVE Fits(p, j)
  BY DEF Good
<1>1. CASE j = m + 1
  BY <1>1
<1>2. CASE j # m + 1
  <2>1. j \in 1 .. m
    BY <1>2
  <2> QED BY <2>1 DEF Good
<1> QED BY <1>1, <1>2

(* A dot behind a number that is not the third.                            *)
LEMMA DotFits ==
  ASSUME NEW p, NEW x \in Parsing, NEW m \in 0 .. 5, Fitting(x, p, m), p[m + 1] = Dot,
         x.seen, x.part # 3, NEW y, y = NextPart(x)
  PROVE  Fitting(y, p, m + 1)
<1>1. m = 1 \/ m = 3
  BY DEF Fitting
<1>2. Fits(p, m + 1)
  BY <1>1 DEF Fits
<1>3. Good(p, m + 1)
  BY <1>2, GoodMore DEF Fitting
<1>4. ~y.done /\ y.ok /\ ~y.seen /\ y.part = x.part + 1 /\ y.version = x.version
  BY DEF Parsing, Fitting, NextPart
<1>5. y.part = IF m + 1 < 2 THEN 1 ELSE IF m + 1 < 4 THEN 2 ELSE 3
  BY <1>1, <1>4 DEF Fitting
<1>6. PartsOf(y.version, p, m + 1)
  <2>1. \A k \in 1 .. 3 : 2 * k - 1 <= m + 1 <=> 2 * k - 1 <= m
    BY <1>1
  <2>2. \A k \in 1 .. 3 : x.version[k] = IF 2 * k - 1 <= m THEN p[2 * k - 1] ELSE 0
    BY Zenon DEF Fitting, PartsOf
  <2> QED BY <1>4, <2>1, <2>2, Zenon DEF PartsOf
<1>7. m + 1 \in 0 .. 5 /\ m + 1 \notin {1, 3, 5}
  BY <1>1
<1> QED BY <1>3, <1>4, <1>5, <1>6, <1>7 DEF Fitting

(* A number at the beginning or behind a dot.                              *)
LEMMA NumberFits ==
  ASSUME NEW p, NEW x \in Parsing, NEW m \in 0 .. 5, Fitting(x, p, m), V!IsNumber(p[m + 1]),
         m \in {0, 2, 4}, NEW y, y = Numbered(x, p[m + 1])
  PROVE  Fitting(y, p, m + 1)
<1>1. (m + 1) % 2 = 1
  OBVIOUS
<1>2. Good(p, m + 1)
  BY <1>1, GoodMore DEF Fitting, Fits
<1>3. PICK v, w : v = x.version /\ w = [v EXCEPT ![x.part] = p[m + 1]]
  OBVIOUS
<1>4. ~y.done /\ y.ok /\ y.seen /\ y.part = x.part /\ y.version = w
  BY <1>3 DEF Parsing, Fitting, Numbered
<1>5. /\ x.part \in 1 .. 3 /\ m + 1 = 2 * x.part - 1
      /\ x.part = IF m < 2 THEN 1 ELSE IF m < 4 THEN 2 ELSE 3
  BY DEF Fitting
<1>6. y.part = IF m + 1 < 2 THEN 1 ELSE IF m + 1 < 4 THEN 2 ELSE 3
  BY <1>4, <1>5
<1>7. PartsOf(y.version, p, m + 1)
  <2>1. v \in [1 .. 3 -> Nat] /\ PartsOf(v, p, m)
    BY <1>3 DEF Fitting, Parsing
  <2>2. ASSUME NEW k \in 1 .. 3 PROVE w[k] = IF 2 * k - 1 <= m + 1 THEN p[2 * k - 1] ELSE 0
    <3>1. CASE k = x.part
      <4>1. 2 * k - 1 = m + 1
        BY <1>5, <3>1
      <4>2. w[k] = p[m + 1]
        BY <1>3, <2>1, <3>1
      <4> QED BY <4>1, <4>2
    <3>2. CASE k # x.part
      <4>1. 2 * k - 1 <= m + 1 <=> 2 * k - 1 <= m
        BY <1>5, <3>2
      <4>2. w[k] = v[k]
        BY <1>3, <2>1, <3>2
      <4>3. v[k] = IF 2 * k - 1 <= m THEN p[2 * k - 1] ELSE 0
        BY <2>1, Zenon DEF PartsOf
      <4> QED BY <4>1, <4>2, <4>3, Zenon
    <3> QED BY <3>1, <3>2
  <2> QED BY <1>4, <2>2, Zenon DEF PartsOf
<1>8. m + 1 \in 0 .. 5 /\ m + 1 \in {1, 3, 5}
  OBVIOUS
<1> QED BY <1>2, <1>4, <1>6, <1>7, <1>8 DEF Fitting

(* Each token takes the parser to the next stage.                          *)
LEMMA StageStep ==
  ASSUME tag \in Tags, NEW p, p = V!Plain, NEW i \in 0 .. Len(tag) - 1, NEW x \in Parsing,
         Stage(x, p, i), NEW y, y = V!ParseToken(x, i + 1, tag)
  PROVE  Stage(y, p, i + 1)
<1>1. PICK l \in Nat : l = Len(tag)
  BY PlainIs, LenProperties
<1>2. PICK o \in {0, 1} : o = Off
  BY PlainIs
<1>3. PICK n \in Nat : n = l - o /\ n = Len(p)
  BY <1>1, <1>2, PlainIs
<1>4. /\ tag \in Seq(V!Token) /\ o <= l
      /\ \A j \in 1 .. n : p[j] = tag[j + o]
      /\ \A j \in 1 .. n - 1 : ~(V!IsNumber(p[j]) /\ V!IsNumber(p[j + 1]))
      /\ o = 0 /\ tag # << >> => tag[1] # Vee
  BY <1>1, <1>2, <1>3, PlainIs, Zenon
<1>5. i + 1 \in Nat /\ i + 1 \in 1 .. l /\ tag[i + 1] \in V!Token
  <2>1. i + 1 \in Nat /\ i + 1 \in 1 .. l
    BY <1>1
  <2> QED BY <1>1, <1>4, <2>1, ElementOfSeq, Zenon
<1>6. TakenAs(x, y, i + 1, tag)
  BY <1>5, ParseTokenIs, Zenon
<1>7. CASE x.done
  <2>1. y = x
    BY <1>6, <1>7, Zenon DEF TakenAs
  <2>2. ~Fitting(x, p, IF i < Off THEN 0 ELSE i - Off) /\ i # Len(tag)
    <3>1. i # Len(tag)
      BY <1>1
    <3> QED BY <1>7, <3>1, Zenon DEF Fitting
  <2> QED BY <2>1, <2>2, Zenon DEF Stage
<1>8. CASE ~x.done /\ i < o
  <2>1. i = 0 /\ o = 1 /\ i + 1 = 1 /\ ~(i + 1 > 1)
    BY <1>8
  <2>2. tag[1] = Vee
    BY <1>2, <2>1 DEF Off
  <2>3. y = x
    BY <1>6, <1>8, <2>1, <2>2, Zenon DEF TakenAs
  <2>4. Fitting(x, p, 0)
    <3>1. i # Len(tag)
      BY <1>1
    <3> QED BY <1>2, <1>8, <3>1, Zenon DEF Stage
  <2>5. (IF i + 1 < Off THEN 0 ELSE (i + 1) - Off) = 0
    BY <1>2, <2>1
  <2> QED BY <2>3, <2>4, <2>5, Zenon DEF Stage
<1>9. CASE ~x.done /\ ~(i < o)
  <2>1. PICK m \in Nat : m = i - o
    BY <1>9
  <2>2. /\ (IF i < Off THEN 0 ELSE i - Off) = m /\ (IF i + 1 < Off THEN 0 ELSE (i + 1) - Off) = m + 1
        /\ m + 1 \in 1 .. n /\ (m + 1) + o = i + 1 /\ (i + 1) - Off = m + 1 /\ (m + 1) - 1 = m
        /\ i + 1 > Off /\ i # Len(tag)
    BY <1>1, <1>2, <1>3, <1>9, <2>1
  <2>3. Fitting(x, p, m)
    BY <1>9, <2>2, Zenon DEF Stage
  <2>4. m \in 0 .. 5 /\ Good(p, m) /\ m + 1 <= n
    BY <2>2, <2>3 DEF Fitting
  <2>5. PICK t \in V!Token : t = p[m + 1] /\ t = tag[i + 1]
    BY <1>4, <1>5, <2>2, Zenon
  <2>6. /\ V!IsNumber(t) => t \in Nat
        /\ t \in {Vee, Dot, Plus} => ~V!IsNumber(t)
        /\ Vee # Dot /\ Vee # Plus /\ Dot # Plus
    BY Numbers
  <2>7. ASSUME ~Fits(p, m + 1), t = Plus => m + 1 < n, y = Refused(x) PROVE Stage(y, p, i + 1)
    <3>1. ~V!WellFormed
      BY <1>3, <2>4, <2>5, <2>7, Misfit, Zenon
    <3>2. y.done /\ ~y.ok
      BY <2>7 DEF Refused, Parsing
    <3> QED BY <3>1, <3>2, Zenon DEF Stage
  <2>8. ASSUME Fitting(y, p, m + 1) PROVE Stage(y, p, i + 1)
    BY <2>2, <2>8, Zenon DEF Stage
  <2>9. CASE t = Vee
    <3>1. i + 1 > 1
      <4>1. i # 0
        <5>1. o = 0 => tag # << >>
          BY <1>1, <1>5, EmptySeq
        <5>2. i = 0 => o = 0 /\ i + 1 = 1
          BY <1>9
        <5> QED BY <1>4, <2>5, <2>9, <5>1, <5>2, Zenon
      <4> QED BY <4>1
    <3>2. y = Refused(x)
      BY <1>6, <1>9, <2>5, <2>9, <3>1, Zenon DEF TakenAs
    <3>3. ~Fits(p, m + 1)
      BY <2>5, <2>6, <2>9, Zenon DEF Fits
    <3> QED BY <2>6, <2>7, <2>9, <3>2, <3>3, Zenon
  <2>10. CASE t = Dot /\ ~x.seen
    <3>1. y = Refused(x)
      BY <1>6, <1>9, <2>5, <2>10, Zenon DEF TakenAs
    <3>2. (m + 1) % 2 = 1
      BY <2>3, <2>4, <2>10 DEF Fitting
    <3>3. ~Fits(p, m + 1)
      BY <2>5, <2>6, <2>10, <3>2, Zenon DEF Fits
    <3> QED BY <2>6, <2>7, <2>10, <3>1, <3>3, Zenon
  <2>11. CASE t = Dot /\ x.seen /\ x.part = 3
    <3>1. y = Ended(x)
      BY <1>6, <1>9, <2>5, <2>11, Zenon DEF TakenAs
    <3>2. m = 5 /\ n > 5
      BY <2>3, <2>4, <2>11 DEF Fitting
    <3>3. y.done /\ y.ok /\ y.seen /\ y.version = x.version
      BY <2>3, <2>11, <3>1 DEF Ended, Parsing, Fitting
    <3>4. p[6] = Dot /\ PartsOf(y.version, p, 5) /\ Good(p, 5)
      <4>1. m + 1 = 6
        BY <3>2
      <4> QED BY <2>3, <2>5, <2>11, <3>2, <3>3, <4>1, Zenon DEF Fitting
    <3> QED BY <1>3, <3>2, <3>3, <3>4, Zenon DEF Stage
  <2>12. CASE t = Dot /\ x.seen /\ x.part # 3
    <3>1. y = NextPart(x)
      BY <1>6, <1>9, <2>5, <2>12, Zenon DEF TakenAs
    <3>2. Fitting(y, p, m + 1)
      BY <2>3, <2>4, <2>5, <2>12, <3>1, DotFits, Zenon
    <3> QED BY <2>8, <3>2
  <2>13. CASE t = Plus /\ i + 1 < Len(tag)
    <3>1. y = Refused(x)
      BY <1>6, <1>9, <2>5, <2>13, Zenon DEF TakenAs
    <3>2. m + 1 < n
      BY <1>1, <1>2, <1>3, <2>1, <2>13
    <3>3. ~Fits(p, m + 1)
      BY <2>5, <2>6, <2>13, Zenon DEF Fits
    <3> QED BY <2>7, <3>1, <3>2, <3>3, Zenon
  <2>14. CASE t = Plus /\ ~(i + 1 < Len(tag))
    <3>1. y = x
      BY <1>6, <1>9, <2>5, <2>14, Zenon DEF TakenAs
    <3>2. i + 1 = Len(tag)
      BY <1>1, <2>14
    <3> QED BY <2>2, <2>3, <2>5, <2>14, <3>1, <3>2, Zenon DEF Stage
  <2>15. CASE V!IsNumber(t) /\ m \in {0, 2, 4}
    <3>1. y = Numbered(x, p[m + 1])
      BY <1>6, <1>9, <2>5, <2>15, Zenon DEF TakenAs
    <3>2. Fitting(y, p, m + 1)
      BY <2>3, <2>4, <2>5, <2>15, <3>1, NumberFits, Zenon
    <3> QED BY <2>8, <3>2
  <2>16. CASE V!IsNumber(t) /\ m \notin {0, 2, 4}
    <3>1. m \in {1, 3, 5}
      BY <2>4, <2>16
    <3>2. m \in 1 .. m /\ m % 2 = 1 /\ m \in 1 .. n - 1
      BY <2>4, <3>1
    <3>3. V!IsNumber(p[m])
      BY <2>4, <3>2, Zenon DEF Good, Fits
    <3> QED BY <1>4, <2>5, <2>16, <3>2, <3>3, Zenon
  <2>17. CASE t \notin {Vee, Dot, Plus} /\ ~V!IsNumber(t)
    <3>1. y = Refused(x)
      BY <1>6, <1>9, <2>5, <2>17, Zenon DEF TakenAs
    <3>2. ~Fits(p, m + 1)
      BY <2>5, <2>17, Zenon DEF Fits
    <3> QED BY <2>7, <2>17, <3>1, <3>2, Zenon
  <2> QED BY <2>9, <2>10, <2>11, <2>12, <2>13, <2>14, <2>15, <2>16, <2>17, Zenon
<1> QED BY <1>7, <1>8, <1>9, Zenon

(* At the end of the string the stage tells whether it is a version.       *)
LEMMA StageEnds ==
  ASSUME tag \in Tags, NEW p, p = V!Plain, NEW x \in Parsing, Stage(x, p, Len(tag))
  PROVE  /\ x.ok /\ x.seen <=> V!WellFormed
         /\ x.ok /\ x.seen => \A k \in 1 .. 3 : x.version[k] = V!TagParts[k]
<1>1. PICK n \in Nat : n = Len(p) /\ n = Len(tag) - Off
  BY PlainIs, LenProperties
<1>2. V!WellFormed <=> \/ n \in {1, 3, 5} /\ Good(p, n)
                       \/ n \in {2, 4, 6} /\ p[n] = Plus /\ Good(p, n - 1)
                       \/ n > 5 /\ Good(p, 5) /\ p[6] = Dot
  BY <1>1, WellFormedIs
<1>3. \A k \in 1 .. 3 : V!TagParts[k]
        = IF 2 * k - 1 <= n /\ V!IsNumber(p[2 * k - 1]) THEN p[2 * k - 1] ELSE 0
  BY <1>1 DEF V!TagParts, V!NUM_VERSION_PARTS
<1>4. ~V!IsNumber(Plus) /\ ~V!IsNumber(Dot) /\ Plus # Dot
  BY Numbers DEF V!Token
<1>5. ~(Len(tag) < Off) /\ Len(tag) - Off = n
  BY <1>1, PlainIs, LenProperties
<1>6. \A m \in 0 .. 5 : Good(p, m) => \A k \in 1 .. 3 : 2 * k - 1 <= m => V!IsNumber(p[2 * k - 1])
  <2> SUFFICES ASSUME NEW m \in 0 .. 5, Good(p, m), NEW k \in 1 .. 3, 2 * k - 1 <= m
               PROVE  V!IsNumber(p[2 * k - 1])
    OBVIOUS
  <2>1. 2 * k - 1 \in 1 .. m /\ (2 * k - 1) % 2 = 1
    OBVIOUS
  <2> QED BY <2>1, Zenon DEF Good, Fits
<1>7. CASE Fitting(x, p, n)
  <2>1. n \in 0 .. 5 /\ Good(p, n) /\ x.ok /\ (x.seen <=> n \in {1, 3, 5}) /\ PartsOf(x.version, p, n)
    BY <1>7 DEF Fitting
  <2>2. ~(n \in {2, 4, 6} /\ p[n] = Plus)
    <3> SUFFICES ASSUME n \in {2, 4, 6}, p[n] = Plus PROVE FALSE
      OBVIOUS
    <3>1. n \in 1 .. n
      OBVIOUS
    <3> QED BY <1>4, <2>1, <3>1, Zenon DEF Good, Fits
  <2>3. ~(n > 5)
    BY <2>1
  <2>4. \A k \in 1 .. 3 : x.version[k] = V!TagParts[k]
    BY <1>3, <1>6, <2>1, Zenon DEF PartsOf
  <2> QED BY <1>2, <2>1, <2>2, <2>3, <2>4, Zenon
<1>8. CASE Len(tag) > Off /\ p[n] = Plus /\ Fitting(x, p, n - 1)
  <2>1. /\ n - 1 \in 0 .. 5 /\ Good(p, n - 1) /\ x.ok /\ (x.seen <=> n - 1 \in {1, 3, 5})
        /\ PartsOf(x.version, p, n - 1)
    BY <1>8 DEF Fitting
  <2>2. ~(n \in {1, 3, 5} /\ Good(p, n))
    <3> SUFFICES ASSUME Good(p, n) PROVE FALSE
      OBVIOUS
    <3>1. n \in 1 .. n
      BY <2>1
    <3> QED BY <1>4, <1>8, <3>1, Zenon DEF Good, Fits
  <2>3. ~(n > 5 /\ p[6] = Dot)
    <3> SUFFICES ASSUME n > 5, p[6] = Dot PROVE FALSE
      OBVIOUS
    <3>1. n = 6
      BY <2>1
    <3> QED BY <1>4, <1>8, <3>1
  <2>4. n - 1 \in {1, 3, 5} <=> n \in {2, 4, 6}
    OBVIOUS
  <2>5. ASSUME NEW k \in 1 .. 3 PROVE x.version[k] = V!TagParts[k]
    <3>1. 2 * k - 1 <= n <=> (2 * k - 1 <= n - 1 \/ 2 * k - 1 = n)
      OBVIOUS
    <3>2. 2 * k - 1 = n => ~(2 * k - 1 <= n - 1)
      OBVIOUS
    <3> QED BY <1>3, <1>4, <1>6, <1>8, <2>1, <3>1, <3>2, Zenon DEF PartsOf
  <2> QED BY <1>2, <1>8, <2>1, <2>2, <2>3, <2>4, <2>5, Zenon
<1>9. CASE /\ x.done /\ x.ok /\ x.seen /\ Len(p) > 5 /\ Good(p, 5) /\ p[6] = Dot
           /\ PartsOf(x.version, p, 5)
  <2>1. V!WellFormed
    BY <1>1, <1>2, <1>9, Zenon
  <2>2. \A k \in 1 .. 3 : 2 * k - 1 <= 5 /\ 2 * k - 1 <= n /\ 5 \in 0 .. 5
    BY <1>1, <1>9
  <2>3. \A k \in 1 .. 3 : x.version[k] = V!TagParts[k]
    BY <1>3, <1>6, <1>9, <2>2, Zenon DEF PartsOf
  <2> QED BY <1>9, <2>1, <2>3, Zenon
<1>10. CASE x.done /\ ~x.ok /\ ~V!WellFormed
  BY <1>10, Zenon
<1> QED BY <1>5, <1>7, <1>8, <1>9, <1>10, Zenon DEF Stage

(* A string is parsed exactly if it is a version, and into its parts.      *)
LEMMA TagParsed ==
  ASSUME tag \in Tags
  PROVE  /\ V!parse_version(tag).ok <=> V!WellFormed
         /\ V!parse_version(tag).ok =>
              \A k \in 1 .. 3 : V!parse_version(tag).version[k] = V!TagParts[k]
<1>1. PICK p : p = V!Plain
  OBVIOUS
<1>2. PICK l \in Nat : l = Len(tag) /\ tag \in Seq(V!Token)
  BY PlainIs, LenProperties
<1>3. PICK acc : /\ acc[0] = V!Unparsed
                 /\ \A i \in 0 .. l : acc[i] \in Parsing
                 /\ \A i \in 1 .. l : acc[i] = V!ParseToken(acc[i - 1], i, tag)
                 /\ V!parse_version(tag) = [ok |-> acc[l].ok /\ acc[l].seen, version |-> acc[l].version]
  BY <1>2, ParseRuns, Zenon
<1> DEFINE T == {i \in 0 .. l : Stage(acc[i], p, i)}
<1>4. 0 \in T
  <2>1. (IF 0 < Off THEN 0 ELSE 0 - Off) = 0
    BY PlainIs
  <2>2. Fitting(V!Unparsed, p, 0)
    BY DEF Fitting, V!Unparsed, V!NUM_VERSION_PARTS, Good, PartsOf
  <2>3. Stage(acc[0], p, 0)
    BY <1>3, <2>1, <2>2, Zenon DEF Stage
  <2>4. 0 \in 0 .. l
    OBVIOUS
  <2> QED BY <2>3, <2>4, Zenon
<1>5. ASSUME NEW i \in 0 .. l - 1, i \in T PROVE i + 1 \in T
  <2>1. i + 1 \in 1 .. l /\ i + 1 \in 0 .. l /\ (i + 1) - 1 = i /\ i \in 0 .. l
    OBVIOUS
  <2>2. acc[i + 1] = V!ParseToken(acc[i], i + 1, tag) /\ acc[i] \in Parsing /\ Stage(acc[i], p, i)
    <3>1. acc[i + 1] = V!ParseToken(acc[(i + 1) - 1], i + 1, tag)
      BY <1>3, <2>1, Zenon
    <3> QED BY <1>3, <1>5, <2>1, <3>1, Zenon
  <2>3. Stage(acc[i + 1], p, i + 1)
    BY <1>1, <1>2, <2>2, StageStep, Zenon
  <2> QED BY <2>1, <2>3, Zenon
<1>6. l \in T
  <2> HIDE DEF T
  <2>1. \A i \in 0 .. l - 1 : i \in T => i + 1 \in T
    BY <1>5
  <2>2. l \in 0 .. l
    OBVIOUS
  <2> QED BY <1>4, <2>1, <2>2, UpTo, Zenon
<1>7. PICK x : x = acc[l]
  OBVIOUS
<1>8. x \in Parsing /\ Stage(x, p, Len(tag))
  <2>1. l \in 0 .. l
    OBVIOUS
  <2> QED BY <1>2, <1>3, <1>6, <1>7, <2>1, Zenon
<1>9. /\ x.ok /\ x.seen <=> V!WellFormed
      /\ x.ok /\ x.seen => \A k \in 1 .. 3 : x.version[k] = V!TagParts[k]
  BY <1>1, <1>8, StageEnds, Zenon
<1>10. /\ V!parse_version(tag).ok <=> (x.ok /\ x.seen)
       /\ V!parse_version(tag).version = x.version
  <2>1. PICK r, good : r = V!parse_version(tag) /\ good = (x.ok /\ x.seen)
    OBVIOUS
  <2>2. r = [ok |-> good, version |-> x.version]
    BY <1>3, <1>7, <2>1, Zenon
  <2>3. r.ok = good /\ r.version = x.version
    BY <2>2
  <2> QED BY <2>1, <2>3, Zenon
<1> QED BY <1>9, <1>10, Zenon

(* Comparison characters, or none.                                         *)
Marks == {"<", ">", "=", "!", ""}

Pairs == Marks \X Marks

IsOperator(chars, n, op) ==
  op = [i \in 0 .. n |-> IF i = 0 THEN <<"=", "=">> ELSE V!Replaced(op[i - 1], i, chars[i])]

(* A pair is its two characters.                                           *)
LEMMA PairIs ==
  ASSUME NEW op \in Pairs, NEW c, NEW d
  PROVE  op = <<c, d>> <=> op[1] = c /\ op[2] = d
BY DEF Pairs

(* A character is replaced by another.                                     *)
LEMMA ReplacedTyped ==
  ASSUME NEW op \in Pairs, NEW i, NEW c \in Marks
  PROVE  V!Replaced(op, i, c) \in Pairs
<1>1. "" \in Marks /\ op[1] \in Marks /\ op[2] \in Marks
  BY DEF Pairs, Marks
<1> QED BY <1>1 DEF V!Replaced, Pairs

(* The operator that comparison characters make.                           *)
LEMMA OperatorIs ==
  ASSUME NEW chars \in Operators, NEW op, op = V!OperatorOf(chars)
  PROVE  /\ Len(chars) \in {0, 1, 2} /\ op \in Pairs
         /\ Len(chars) = 0 => op[1] = "=" /\ op[2] = "="
         /\ Len(chars) = 1 => op[1] = chars[1] /\ op[2] = IF chars[1] = "=" THEN "=" ELSE ""
         /\ Len(chars) = 2 => op[1] = chars[1] /\ op[2] = chars[2]
<1>1. PICK n \in Nat : n = Len(chars) /\ n <= 2 /\ \A i \in 1 .. n : chars[i] \in Marks
  <2>1. chars \in Seq({"<", ">", "=", "!"}) /\ Len(chars) <= 2
    BY VersionAssumption DEF V!VersionAssumption
  <2>2. Len(chars) \in Nat /\ \A i \in 1 .. Len(chars) : chars[i] \in {"<", ">", "=", "!"}
    BY <2>1, LenProperties, ElementOfSeq
  <2> QED BY <2>1, <2>2 DEF Marks
<1>2. <<"=", "=">> \in Pairs
  <2>1. "=" \in Marks
    BY DEF Marks
  <2> QED BY <2>1 DEF Pairs
<1> DEFINE step(x, i) == V!Replaced(x, i, chars[i])
           steps == [i \in 1 .. n |-> [x \in Pairs |-> step(x, i)]]
<1>3. \A i \in 1 .. n : \A x \in Pairs : step(x, i) \in Pairs
  BY <1>1, ReplacedTyped, Zenon
<1>4. /\ steps \in [1 .. n -> [Pairs -> Pairs]]
      /\ \A i \in 1 .. n, x \in Pairs : steps[i][x] = step(x, i)
  BY <1>3
<1>5. PICK f : Follows(f, Pairs, <<"=", "=">>, n, steps)
  <2> HIDE DEF steps
  <2> QED BY <1>2, <1>4, Iterates, Zenon
<1>6. IsOperator(chars, n, f)
  <2>1. /\ f = [i \in 0 .. n |-> IF i = 0 THEN <<"=", "=">> ELSE steps[i][f[i - 1]]]
        /\ \A i \in 1 .. n : f[i - 1] \in Pairs
    BY <1>2, <1>5, FollowsIs, Zenon
  <2>2. \A i \in 0 .. n : i = 0 \/ i \in 1 .. n
    OBVIOUS
  <2> HIDE DEF steps
  <2>3. \A i \in 0 .. n : (IF i = 0 THEN <<"=", "=">> ELSE steps[i][f[i - 1]])
                            = IF i = 0 THEN <<"=", "=">> ELSE step(f[i - 1], i)
    BY <1>4, <2>1, <2>2, Zenon
  <2> HIDE DEF step
  <2>4. f = [i \in 0 .. n |-> IF i = 0 THEN <<"=", "=">> ELSE step(f[i - 1], i)]
    BY <2>1, <2>3, Zenon
  <2> QED BY <2>4, Zenon DEF IsOperator, step
<1> DEFINE acc == CHOOSE acc : IsOperator(chars, Len(chars), acc)
<1>7. V!OperatorOf(chars) = acc[n]
  BY <1>1, Zenon DEF V!OperatorOf, IsOperator
<1>8. IsOperator(chars, n, acc)
  BY <1>1, <1>6, Zenon
<1> HIDE DEF acc
<1>9. acc[0] = <<"=", "=">> /\ \A i \in 1 .. n : acc[i] = step(acc[i - 1], i)
  <2>1. 0 \in 0 .. n /\ \A i \in 1 .. n : i \in 0 .. n /\ i # 0
    OBVIOUS
  <2> QED BY <1>8, <2>1, Zenon DEF IsOperator
<1>10. \A i \in 0 .. n : acc[i] \in Pairs
  <2>1. \A i \in 1 .. n : acc[i - 1] \in Pairs => acc[i] \in Pairs
    BY <1>3, <1>9, Zenon
  <2> QED BY <1>2, <1>9, <2>1, Keeps, Zenon
<1>11. n \in 0 .. n /\ n \in {0, 1, 2}
  BY <1>1
<1>12. PICK first : first = <<"=", "=">>
  OBVIOUS
<1>13. first[1] = "=" /\ first[2] = "=" /\ acc[0] = first
  BY <1>9, <1>12
<1>14. CASE n = 0
  BY <1>1, <1>7, <1>10, <1>11, <1>13, <1>14
<1>15. \A i \in 1 .. n : acc[i] = V!Replaced(acc[i - 1], i, chars[i])
  BY <1>9
<1>16. ASSUME n > 0
       PROVE  acc[1][1] = chars[1] /\ acc[1][2] = IF chars[1] = "=" THEN "=" ELSE ""
  <2>1. 1 \in 1 .. n /\ 1 - 1 = 0
    BY <1>1, <1>16
  <2>2. acc[1] = V!Replaced(first, 1, chars[1])
    BY <1>13, <1>15, <2>1
  <2>3. PICK c : c = chars[1]
    OBVIOUS
  <2>4. PICK d : d = IF c = "=" THEN "=" ELSE ""
    OBVIOUS
  <2>5. acc[1] = <<c, d>>
    BY <1>13, <2>2, <2>3, <2>4, Zenon DEF V!Replaced
  <2>6. acc[1][1] = c /\ acc[1][2] = d
    BY <2>5
  <2> QED BY <2>3, <2>4, <2>6, Zenon
<1>17. CASE n = 1
  <2>1. op = acc[1] /\ acc[1] \in Pairs
    BY <1>7, <1>10, <1>11, <1>17
  <2>2. n > 0
    BY <1>17
  <2>3. op[1] = chars[1] /\ op[2] = IF chars[1] = "=" THEN "=" ELSE ""
    BY <1>16, <2>1, <2>2, Zenon
  <2>4. Len(chars) \in {0, 1, 2} /\ Len(chars) # 0 /\ Len(chars) # 2
    BY <1>1, <1>17
  <2> QED BY <2>1, <2>3, <2>4, Zenon
<1>18. CASE n = 2
  <2>1. 2 \in 1 .. n /\ 2 - 1 = 1 /\ n > 0
    BY <1>18
  <2>2. acc[2] = V!Replaced(acc[1], 2, chars[2])
    BY <1>15, <2>1
  <2>3. acc[2][1] = acc[1][1] /\ acc[2][2] = chars[2]
    BY <2>2 DEF V!Replaced
  <2>4. op = acc[2] /\ acc[2] \in Pairs
    BY <1>7, <1>10, <1>11, <1>18
  <2>5. op[1] = chars[1] /\ op[2] = chars[2]
    BY <1>16, <2>1, <2>3, <2>4, Zenon
  <2> QED BY <1>1, <1>11, <1>18, <2>4, <2>5
<1> QED BY <1>11, <1>14, <1>17, <1>18

(* What an operator asks of two numbers.                                   *)
Asks(c, d, a, b) ==
  \/ c = "=" /\ d = "=" /\ a = b
  \/ c = "!" /\ d = "=" /\ a # b
  \/ c = ">" /\ d = "=" /\ a >= b
  \/ c = "<" /\ d = "=" /\ a <= b
  \/ c = ">" /\ d = "" /\ a > b
  \/ c = "<" /\ d = "" /\ a < b

(* Holding is being what the two characters ask.                           *)
LEMMA HoldsIs ==
  ASSUME NEW op \in Pairs, NEW a \in Int, NEW b \in Int
  PROVE  V!Holds(op, a, b) <=> Asks(op[1], op[2], a, b)
<1>1. \A c, d : op = <<c, d>> <=> op[1] = c /\ op[2] = d
  BY PairIs
<1> QED BY <1>1, Zenon DEF V!Holds, Asks

(* What the reference asks of the order of two versions.                   *)
LEMMA MeantIs ==
  ASSUME ops \in Operators, NEW op, op = V!OperatorOf(ops), NEW order \in {-1, 0, 1}
  PROVE  V!Meant(order) <=> Asks(op[1], op[2], order, 0)
<1>1. /\ Len(ops) \in {0, 1, 2} /\ op \in Pairs
      /\ Len(ops) = 0 => op[1] = "=" /\ op[2] = "="
      /\ Len(ops) = 1 => op[1] = ops[1] /\ op[2] = IF ops[1] = "=" THEN "=" ELSE ""
      /\ Len(ops) = 2 => op[1] = ops[1] /\ op[2] = ops[2]
  BY OperatorIs
<1>2. /\ ops \in Seq({"<", ">", "=", "!"})
      /\ \A i \in 1 .. Len(ops) : ops[i] \in {"<", ">", "=", "!"}
  BY VersionAssumption, ElementOfSeq DEF V!VersionAssumption
<1> DEFINE C == {"<", ">", "=", "!"}
<1>3. CASE Len(ops) = 0
  <2>1. ops = << >>
    BY <1>2, <1>3, EmptySeq
  <2>2. V!Meant(order) <=> order = 0
    BY <2>1 DEF V!Meant
  <2>3. op[1] = "=" /\ op[2] = "="
    BY <1>1, <1>3
  <2> QED BY <2>2, <2>3 DEF Asks
<1>4. CASE Len(ops) = 1
  <2>1. PICK c \in C : c = ops[1]
    BY <1>2, <1>4
  <2>2. ops = <<c>>
    BY <1>2, <1>4, <2>1
  <2>3. V!Meant(order) <=> \/ c = "=" /\ order = 0
                           \/ c = ">" /\ order = 1
                           \/ c = "<" /\ order = -1
    BY <2>2 DEF V!Meant
  <2>4. op[1] = c /\ op[2] = IF c = "=" THEN "=" ELSE ""
    BY <1>1, <1>4, <2>1
  <2>5. CASE c = "="
    BY <2>3, <2>4, <2>5 DEF Asks
  <2>6. CASE c = ">"
    <3>1. c # "="
      BY <2>6
    <3>2. op[2] = ""
      BY <2>4, <3>1, Zenon
    <3>3. V!Meant(order) <=> order > 0
      BY <2>3, <2>6
    <3> QED BY <2>4, <2>6, <3>2, <3>3 DEF Asks
  <2>7. CASE c = "<"
    <3>1. c # "="
      BY <2>7
    <3>2. op[2] = ""
      BY <2>4, <3>1, Zenon
    <3>3. V!Meant(order) <=> order < 0
      BY <2>3, <2>7
    <3> QED BY <2>4, <2>7, <3>2, <3>3 DEF Asks
  <2>8. CASE c = "!"
    BY <2>3, <2>4, <2>8 DEF Asks
  <2> QED BY <2>1, <2>5, <2>6, <2>7, <2>8
<1>5. CASE Len(ops) = 2
  <2>1. PICK c \in C, d \in C : c = ops[1] /\ d = ops[2]
    BY <1>2, <1>5
  <2>2. ops = <<c, d>>
    <3>1. ops = [i \in 1 .. 2 |-> ops[i]]
      BY <1>2, <1>5
    <3> QED BY <1>2, <1>5, <2>1, <3>1
  <2>3. V!Meant(order) <=> \/ c = "=" /\ d = "=" /\ order = 0
                           \/ c = "!" /\ d = "=" /\ order # 0
                           \/ c = ">" /\ d = "=" /\ order \in {0, 1}
                           \/ c = "<" /\ d = "=" /\ order \in {-1, 0}
    BY <2>2 DEF V!Meant
  <2>4. op[1] = c /\ op[2] = d
    BY <1>1, <1>5, <2>1
  <2>5. ASSUME d # "=" PROVE ~V!Meant(order) /\ ~Asks(op[1], op[2], order, 0)
    BY <2>1, <2>3, <2>4, <2>5 DEF Asks
  <2>6. CASE d = "="
    <3>1. CASE c = "="
      BY <2>3, <2>4, <2>6, <3>1 DEF Asks
    <3>2. CASE c = "!"
      BY <2>3, <2>4, <2>6, <3>2 DEF Asks
    <3>3. CASE c = ">"
      BY <2>3, <2>4, <2>6, <3>3 DEF Asks
    <3>4. CASE c = "<"
      BY <2>3, <2>4, <2>6, <3>4 DEF Asks
    <3> QED BY <2>1, <3>1, <3>2, <3>3, <3>4
  <2> QED BY <2>5, <2>6
<1> QED BY <1>1, <1>3, <1>4, <1>5

-----------------------------------------------------------------------------
(* What is compared of a version's part: nothing from a wildcard on.       *)
Part(values, k) == IF k \in V!Compared(parts) THEN values[k] ELSE 0

Wanted == [i \in 1 .. 3 |-> V!Scanned(parts, i)]

(* The parts are numbers.                                                  *)
LEMMA PartsAre ==
  ASSUME tag \in Tags, parts \in Constraints
  PROVE  /\ \A k \in 1 .. 3 : V!TagParts[k] \in Nat /\ V!Scanned(parts, k) \in Nat
         /\ Len(parts) \in Nat
<1>1. V!Plain \in Seq(V!Token)
  BY PlainIs
<1>2. parts \in Seq(Nat \cup {Wildcard, NoPart})
  BY VersionAssumption DEF V!VersionAssumption
<1>3. PICK n \in Nat : n = Len(parts)
  BY <1>2, LenProperties
<1>4. ASSUME NEW k \in 1 .. 3 PROVE V!TagParts[k] \in Nat
  <2>1. PICK j \in 1 .. 5 : j = 2 * k - 1
    OBVIOUS
  <2>2. V!TagParts[k] = IF j <= Len(V!Plain) /\ V!IsNumber(V!Plain[j]) THEN V!Plain[j] ELSE 0
    BY <2>1 DEF V!TagParts, V!NUM_VERSION_PARTS
  <2>3. ASSUME j <= Len(V!Plain), V!IsNumber(V!Plain[j]) PROVE V!Plain[j] \in Nat
    <3>1. PICK m \in Nat : m = Len(V!Plain)
      BY <1>1, LenProperties
    <3>2. V!Plain[j] \in V!Token
      BY <1>1, <2>3, <3>1, ElementOfSeq
    <3> QED BY <2>3, <3>2, Numbers
  <2>4. 0 \in Nat
    OBVIOUS
  <2> QED BY <2>2, <2>3, <2>4, Zenon
<1>5. ASSUME NEW k \in 1 .. 3 PROVE V!Scanned(parts, k) \in Nat
  <2>1. ASSUME k <= n, \A j \in 1 .. k : parts[j] # NoPart, parts[k] # Wildcard
        PROVE  parts[k] \in Nat
    <3>1. parts[k] \in Nat \cup {Wildcard, NoPart} /\ k \in 1 .. k
      BY <1>2, <1>3, <2>1, ElementOfSeq
    <3> QED BY <2>1, <3>1
  <2>2. 0 \in Nat
    OBVIOUS
  <2> QED BY <1>3, <2>1, <2>2, Zenon DEF V!Scanned
<1> QED BY <1>3, <1>4, <1>5

(* The sum of the scaled parts.                                            *)
LEMMA SumIs ==
  ASSUME NEW values, \A k \in 1 .. 3 : values[k] \in Nat
  PROVE  /\ \A k \in 1 .. 3 : Part(values, k) \in Nat
         /\ V!Scaled(values, parts)
              = Part(values, 1) * V!Scale(1) + Part(values, 2) * V!Scale(2)
                  + Part(values, 3) * V!Scale(3)
<1>1. \A k \in 1 .. 3 : Part(values, k) \in Nat
  <2>1. 0 \in Nat
    OBVIOUS
  <2> QED BY <2>1, Zenon DEF Part
<1>3. V!Scaled(values, parts)
        = (IF 1 \in V!Compared(parts) THEN values[1] * V!Scale(1) ELSE 0)
          + (IF 2 \in V!Compared(parts) THEN values[2] * V!Scale(2) ELSE 0)
          + (IF 3 \in V!Compared(parts) THEN values[3] * V!Scale(3) ELSE 0)
  BY Zenon DEF V!Scaled
<1>4. V!Scale(1) \in Nat /\ V!Scale(2) \in Nat /\ V!Scale(3) \in Nat
  BY SMT DEF V!Scale
<1>5. ASSUME NEW k \in 1 .. 3, V!Scale(k) \in Nat
      PROVE  (IF k \in V!Compared(parts) THEN values[k] * V!Scale(k) ELSE 0)
               = Part(values, k) * V!Scale(k)
  <2>1. CASE k \in V!Compared(parts)
    BY <2>1, Zenon DEF Part
  <2>2. CASE k \notin V!Compared(parts)
    <3>1. Part(values, k) = 0
      BY <2>2, Zenon DEF Part
    <3>2. 0 * V!Scale(k) = 0
      BY <1>5, SMT
    <3> QED BY <2>2, <3>1, <3>2, Zenon
  <2> QED BY <2>1, <2>2, Zenon
<1>6. 1 \in 1 .. 3 /\ 2 \in 1 .. 3 /\ 3 \in 1 .. 3
  OBVIOUS
<1> QED BY <1>1, <1>3, <1>4, <1>5, <1>6, Zenon

(* The order of two versions: that of the first part in which they differ. *)
Differ == {i \in V!Compared(parts) : V!TagParts[i] # V!Scanned(parts, i)}

(* There is no such part, or there is a first one.                         *)
LEMMA OrderIs ==
  \/ V!Order = 0 /\ \A i \in V!Compared(parts) : V!TagParts[i] = V!Scanned(parts, i)
  \/ \E i \in V!Compared(parts) :
       /\ V!TagParts[i] # V!Scanned(parts, i)
       /\ \A j \in V!Compared(parts) : j < i => V!TagParts[j] = V!Scanned(parts, j)
       /\ V!Order = IF V!TagParts[i] < V!Scanned(parts, i) THEN -1 ELSE 1
<1> DEFINE first == CHOOSE i \in Differ : \A j \in Differ : i <= j
<1>1. V!Order = IF Differ = {} THEN 0
                ELSE IF V!TagParts[first] < V!Scanned(parts, first) THEN -1 ELSE 1
  BY SMT DEF V!Order, Differ
<1>2. CASE Differ = {}
  <2>1. V!Order = 0
    BY <1>1, <1>2, SMT
  <2>2. \A i \in V!Compared(parts) : V!TagParts[i] = V!Scanned(parts, i)
    BY <1>2, SMT DEF Differ
  <2> QED BY <2>1, <2>2, SMT
<1>3. CASE Differ # {}
  <2>1. Differ \subseteq Nat
    BY DEF Differ, V!Compared, V!NUM_VERSION_PARTS
  <2>2. first \in Differ /\ \A j \in Differ : first <= j
    BY <1>3, <2>1, LeastOf, Zenon
  <2> HIDE DEF first
  <2>3. \A j \in V!Compared(parts) : j \notin Differ => V!TagParts[j] = V!Scanned(parts, j)
    BY Zenon DEF Differ
  <2>4. \A j \in V!Compared(parts) : j < first => j \notin Differ
    <3> SUFFICES ASSUME NEW j \in V!Compared(parts), j < first, j \in Differ PROVE FALSE
      BY Zenon
    <3>1. j \in Nat /\ first \in Nat /\ first <= j
      BY <2>1, <2>2, Zenon
    <3> QED BY <3>1
  <2>5. first \in V!Compared(parts) /\ V!TagParts[first] # V!Scanned(parts, first)
    BY <2>2, Zenon DEF Differ
  <2> QED BY <1>1, <1>3, <2>3, <2>4, <2>5, SMT
<1> QED BY <1>2, <1>3, SMT

(* Small parts.                                                            *)
Below == 0 .. 999

(* The sum that three parts make.                                          *)
Sum(p, q, r) == p * 1000000 + q * 1000 + r

(* The sums of small numbers compare as their parts do, the first first.   *)
Compares(p, q, r, x, y, z, s, t) ==
  /\ s \in Nat /\ t \in Nat
  /\ p < x => s < t
  /\ p = x /\ q < y => s < t
  /\ p = x /\ q = y /\ r < z => s < t
  /\ p > x => s > t
  /\ p = x /\ q > y => s > t
  /\ p = x /\ q = y /\ r > z => s > t
  /\ p = x /\ q = y /\ r = z => s = t

(* That is arithmetic.                                                     *)
LEMMA SumsCompare ==
  ASSUME NEW p \in Below, NEW q \in Below, NEW r \in Below,
         NEW x \in Below, NEW y \in Below, NEW z \in Below
  PROVE  Compares(p, q, r, x, y, z, Sum(p, q, r), Sum(x, y, z))
BY SMT DEF Below, Sum, Compares

(* For small parts the sums decide as the order does.                      *)
LEMMA SumsDecide ==
  ASSUME tag \in Tags, parts \in Constraints, V!Small,
         NEW values, \A k \in 1 .. 3 : values[k] = V!TagParts[k],
         NEW s, s = V!Scaled(values, parts), NEW t, t = V!Scaled(Wanted, parts)
  PROVE  /\ s \in Int /\ t \in Int /\ V!Order \in {-1, 0, 1}
         /\ V!Order = 0 <=> s = t
         /\ V!Order = -1 <=> s < t
         /\ V!Order = 1 <=> s > t
<1> DEFINE a == [k \in 1 .. 3 |-> Part(values, k)]
           b == [k \in 1 .. 3 |-> Part(Wanted, k)]
<1>1. \A k \in 1 .. 3 : /\ values[k] \in Below /\ Wanted[k] \in Below
                        /\ values[k] \in Nat /\ Wanted[k] \in Nat
                        /\ values[k] = V!TagParts[k] /\ Wanted[k] = V!Scanned(parts, k)
  <2> SUFFICES ASSUME NEW k \in 1 .. 3
               PROVE  /\ values[k] \in Below /\ Wanted[k] \in Below
                      /\ values[k] \in Nat /\ Wanted[k] \in Nat
                      /\ values[k] = V!TagParts[k] /\ Wanted[k] = V!Scanned(parts, k)
    OBVIOUS
  <2>1. PICK x, y : x = V!TagParts[k] /\ y = V!Scanned(parts, k)
    OBVIOUS
  <2>2. x \in Nat /\ y \in Nat
    BY <2>1, PartsAre, Zenon
  <2>3. x < 1000 /\ y < 1000
    BY <2>1, SMT DEF V!Small, V!NUM_VERSION_PARTS
  <2>4. x \in Below /\ y \in Below
    BY <2>2, <2>3, SMT DEF Below
  <2>5. values[k] = x /\ Wanted[k] = y
    BY <2>1, Zenon DEF Wanted
  <2> QED BY <2>1, <2>2, <2>4, <2>5, Zenon
<1>2. \A k \in 1 .. 3 : /\ a[k] = IF k \in V!Compared(parts) THEN values[k] ELSE 0
                        /\ b[k] = IF k \in V!Compared(parts) THEN Wanted[k] ELSE 0
  BY Zenon DEF Part
<1>3. \A k \in 1 .. 3 : a[k] \in Below /\ b[k] \in Below
  <2>1. 0 \in Below
    BY SMT DEF Below
  <2> HIDE DEF a, b
  <2> QED BY <1>1, <1>2, <2>1, Zenon
<1>4. /\ s = a[1] * V!Scale(1) + a[2] * V!Scale(2) + a[3] * V!Scale(3)
      /\ t = b[1] * V!Scale(1) + b[2] * V!Scale(2) + b[3] * V!Scale(3)
  <2>1. 1 \in 1 .. 3 /\ 2 \in 1 .. 3 /\ 3 \in 1 .. 3
    BY SMT
  <2> QED BY <1>1, <2>1, SumIs, Zenon
<1> HIDE DEF a, b
<1>5. \A k \in 1 .. 3 : k \notin V!Compared(parts) => a[k] = b[k]
  BY <1>2, Zenon
<1>6. \A k \in 1 .. 3 : k \in V!Compared(parts) => a[k] = V!TagParts[k] /\ b[k] = V!Scanned(parts, k)
  BY <1>1, <1>2, Zenon
<1>7. V!Compared(parts) \subseteq 1 .. 3
  BY SMT DEF V!Compared, V!NUM_VERSION_PARTS
<1>8. /\ s \in Nat /\ t \in Nat
      /\ a[1] < b[1] => s < t
      /\ a[1] = b[1] /\ a[2] < b[2] => s < t
      /\ a[1] = b[1] /\ a[2] = b[2] /\ a[3] < b[3] => s < t
      /\ a[1] > b[1] => s > t
      /\ a[1] = b[1] /\ a[2] > b[2] => s > t
      /\ a[1] = b[1] /\ a[2] = b[2] /\ a[3] > b[3] => s > t
      /\ a[1] = b[1] /\ a[2] = b[2] /\ a[3] = b[3] => s = t
  <2>1. 1 \in 1 .. 3 /\ 2 \in 1 .. 3 /\ 3 \in 1 .. 3
    BY SMT
  <2>2. PICK p \in Below, q \in Below, r \in Below : p = a[1] /\ q = a[2] /\ r = a[3]
    BY <1>3, <2>1, Zenon
  <2>3. PICK x \in Below, y \in Below, z \in Below : x = b[1] /\ y = b[2] /\ z = b[3]
    BY <1>3, <2>1, Zenon
  <2>4. s = Sum(p, q, r) /\ t = Sum(x, y, z)
    <3>1. V!Scale(1) = 1000000 /\ V!Scale(2) = 1000 /\ V!Scale(3) = 1
      BY SMT DEF V!Scale
    <3>2. PICK u, v, w : u = V!Scale(1) /\ v = V!Scale(2) /\ w = V!Scale(3)
      BY SMT
    <3>3. s = p * u + q * v + r * w /\ t = x * u + y * v + z * w
      BY <1>4, <2>2, <2>3, <3>2, Zenon
    <3> QED BY <3>1, <3>2, <3>3, SMT DEF Below, Sum
  <2>5. Compares(p, q, r, x, y, z, s, t)
    <3>1. Compares(p, q, r, x, y, z, Sum(p, q, r), Sum(x, y, z))
      BY SumsCompare, Zenon
    <3> QED BY <2>4, <3>1, Zenon
  <2> QED BY <2>2, <2>3, <2>5, Zenon DEF Compares
<1>9. CASE V!Order = 0 /\ \A i \in V!Compared(parts) : V!TagParts[i] = V!Scanned(parts, i)
  <2>1. \A k \in 1 .. 3 : a[k] = b[k]
    BY <1>5, <1>6, <1>9, Zenon
  <2>2. s = t
    BY <1>8, <2>1, SMT
  <2> QED BY <1>8, <1>9, <2>2, SMT
<1>10. CASE \E i \in V!Compared(parts) :
              /\ V!TagParts[i] # V!Scanned(parts, i)
              /\ \A j \in V!Compared(parts) : j < i => V!TagParts[j] = V!Scanned(parts, j)
              /\ V!Order = IF V!TagParts[i] < V!Scanned(parts, i) THEN -1 ELSE 1
  <2>1. PICK i \in V!Compared(parts) :
              /\ V!TagParts[i] # V!Scanned(parts, i)
              /\ \A j \in V!Compared(parts) : j < i => V!TagParts[j] = V!Scanned(parts, j)
              /\ V!Order = IF V!TagParts[i] < V!Scanned(parts, i) THEN -1 ELSE 1
    BY <1>10, SMT
  <2>2. i \in 1 .. 3
    BY <1>7, Zenon
  <2>3. a[i] = V!TagParts[i] /\ b[i] = V!Scanned(parts, i)
    BY <1>6, <2>2, Zenon
  <2>4. \A k \in 1 .. 3 : k < i => a[k] = b[k]
    BY <1>5, <1>6, <2>1, SMT
  <2>5. a[i] # b[i] /\ V!Order = IF a[i] < b[i] THEN -1 ELSE 1
    BY <2>1, <2>3, SMT
  <2>6. a[i] < b[i] => s < t
    BY <1>8, <2>2, <2>4, SMT
  <2>7. a[i] > b[i] => s > t
    BY <1>8, <2>2, <2>4, SMT
  <2>8. a[i] < b[i] \/ a[i] > b[i]
    <3>1. PICK x \in Below, y \in Below : x = a[i] /\ y = b[i]
      BY <1>3, <2>2, Zenon
    <3>2. x # y => x < y \/ x > y
      BY SMT DEF Below
    <3> QED BY <2>5, <3>1, <3>2, SMT
  <2> QED BY <1>8, <2>5, <2>6, <2>7, <2>8, SMT
<1> QED BY <1>9, <1>10, OrderIs, SMT

(* The order is asked what the numbers are.                                *)
LEMMA AsksTheSame ==
  ASSUME NEW c, NEW d, NEW a \in Int, NEW b \in Int, NEW order \in {-1, 0, 1},
         order = 0 <=> a = b, order = -1 <=> a < b, order = 1 <=> a > b
  PROVE  Asks(c, d, a, b) <=> Asks(c, d, order, 0)
<1>1. (a >= b <=> order >= 0) /\ (a <= b <=> order <= 0) /\ (a = b <=> order = 0)
  BY SMT
<1>2. (a > b <=> order > 0) /\ (a < b <=> order < 0)
  BY SMT
<1> QED BY <1>1, <1>2, Zenon DEF Asks

(* The outcome of the command.                                             *)
Outcome ==
  IF action = {} THEN "invalid"
  ELSE IF V!parse_version(tag).ok /\ V!compare_version(V!parse_version(tag).version, ops, parts)
  THEN "success" ELSE V!ErrorReturn(action)

VersionInv ==
  result # "none" => tag \in Tags /\ ops \in Operators /\ parts \in Constraints /\ result = Outcome

(* Comparing is what the reference means.                                  *)
LEMMA ComparedAsMeant ==
  ASSUME tag \in Tags, ops \in Operators, parts \in Constraints, V!Small,
         NEW values, \A k \in 1 .. 3 : values[k] = V!TagParts[k]
  PROVE  V!compare_version(values, ops, parts) <=> (Len(parts) <= 3 /\ V!Meant(V!Order))
<1>1. PICK s, t, op : /\ s = V!Scaled(values, parts) /\ t = V!Scaled(Wanted, parts)
                      /\ op = V!OperatorOf(ops)
  OBVIOUS
<1>2. V!compare_version(values, ops, parts) <=> (Len(parts) <= 3 /\ V!Holds(op, s, t))
  BY <1>1, Zenon DEF V!compare_version, Wanted, V!NUM_VERSION_PARTS
<1>3. /\ s \in Int /\ t \in Int /\ V!Order \in {-1, 0, 1}
      /\ V!Order = 0 <=> s = t
      /\ V!Order = -1 <=> s < t
      /\ V!Order = 1 <=> s > t
  BY <1>1, SumsDecide, SMT
<1>4. op \in Pairs
  BY <1>1, OperatorIs, Zenon
<1>5. V!Holds(op, s, t) <=> Asks(op[1], op[2], s, t)
  BY <1>3, <1>4, HoldsIs, SMT
<1>6. Asks(op[1], op[2], s, t) <=> Asks(op[1], op[2], V!Order, 0)
  BY <1>3, AsksTheSame, SMT
<1>7. V!Meant(V!Order) <=> Asks(op[1], op[2], V!Order, 0)
  BY <1>1, <1>3, MeantIs, SMT
<1> QED BY <1>2, <1>5, <1>6, <1>7, Zenon

(* While the parts are below 1000, the command succeeds exactly if the     *)
(* string is a version that fulfils the constraint.                        *)
LEMMA VersionDecides ==
  ASSUME VersionInv PROVE V!DecidesAsDocumented
<1> SUFFICES ASSUME result # "none", action # {}, V!Small
             PROVE  (result = "success") <=> V!Fulfilled
  BY Zenon DEF V!DecidesAsDocumented
<1>1. tag \in Tags /\ ops \in Operators /\ parts \in Constraints /\ result = Outcome
  BY Zenon DEF VersionInv
<1>2. PICK r, values : r = V!parse_version(tag).ok /\ values = V!parse_version(tag).version
  OBVIOUS
<1>3. (r <=> V!WellFormed) /\ (r => \A k \in 1 .. 3 : values[k] = V!TagParts[k])
  BY <1>1, <1>2, TagParsed, Zenon
<1>4. (result = "success") <=> (r /\ V!compare_version(values, ops, parts))
  <2>1. V!ErrorReturn(action) # "success"
    BY DEF V!ErrorReturn
  <2> QED BY <1>1, <1>2, <2>1, Zenon DEF Outcome
<1>5. r => (V!compare_version(values, ops, parts) <=> (Len(parts) <= 3 /\ V!Meant(V!Order)))
  BY <1>1, <1>3, ComparedAsMeant, Zenon
<1> QED BY <1>3, <1>4, <1>5, Zenon DEF V!Fulfilled, V!NUM_VERSION_PARTS

(* The first command decides; nothing follows it.                          *)
THEOREM VersionDecidesAsDocumented == V!Spec => []DecidesAsDocumented
<1>1. V!Init => VersionInv
  BY Zenon DEF V!Init, VersionInv
<1>2. VersionInv /\ [V!Next]_(V!vars) => VersionInv'
  <2> SUFFICES ASSUME VersionInv, [V!Next]_(V!vars) PROVE VersionInv'
    OBVIOUS
  <2>1. CASE V!Next
    <3>1. PICK str \in Tags, chars \in Operators, ps \in Constraints, words \in Actions :
            V!RequireVersionCsh(str, chars, ps, words)
      BY <2>1, Zenon DEF V!Next
    <3>2. /\ tag' = str /\ ops' = chars /\ parts' = ps /\ action' = words
          /\ result' = IF words = {} THEN "invalid"
                       ELSE IF /\ V!parse_version(str).ok
                               /\ V!compare_version(V!parse_version(str).version, chars, ps)
                       THEN "success" ELSE V!ErrorReturn(words)
      BY <3>1, Zenon DEF V!RequireVersionCsh
    <3>3. result' = Outcome'
      BY <3>2, Zenon DEF Outcome
    <3> QED BY <3>2, <3>3, Zenon DEF VersionInv
  <2>2. CASE UNCHANGED V!vars
    <3>1. tag' = tag /\ ops' = ops /\ parts' = parts /\ action' = action /\ result' = result
      BY <2>2 DEF V!vars
    <3> QED BY <3>1, Zenon DEF VersionInv, Outcome
  <2> QED BY <2>1, <2>2
<1>3. VersionInv => DecidesAsDocumented
  BY VersionDecides, Zenon DEF DecidesAsDocumented
<1> QED BY <1>1, <1>2, <1>3, PTL DEF V!Spec
=============================================================================
