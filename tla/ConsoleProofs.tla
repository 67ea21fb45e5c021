---------------------------- MODULE ConsoleProofs ----------------------------
(* Theorems about what reaches the log files and the terminal, for every   *)
(* number of sessions, lines, files and packets.                           *)
EXTENDS MCConsole, TLAPS, SequenceTheorems, WellFoundedInduction

-----------------------------------------------------------------------------
(* Text in order.                                                          *)
Rising(text)    == \A i, j \in 1 .. Len(text) : i < j => text[i] < text[j]
Upto(text, n)   == \A i \in 1 .. Len(text) : text[i] <= n
Beyond(text, n) == \A i \in 1 .. Len(text) : text[i] > n
Before(text, next) ==
  \A i \in 1 .. Len(text), j \in 1 .. Len(next) : text[i] < next[j]

(* Two texts, one behind the other.                                        *)
LEMMA Joined ==
  ASSUME NEW s \in Seq(Nat), NEW t \in Seq(Nat)
  PROVE  /\ s \o t \in Seq(Nat) /\ Len(s \o t) = Len(s) + Len(t)
         /\ \A i \in 1 .. Len(s) + Len(t) :
              (s \o t)[i] = IF i <= Len(s) THEN s[i] ELSE t[i - Len(s)]
BY ConcatProperties

(* Their order, and the bounds of their numbers.                           *)
LEMMA JoinedOrder ==
  ASSUME NEW s \in Seq(Nat), NEW t \in Seq(Nat)
  PROVE  /\ s \o t \in Seq(Nat)
         /\ Rising(s) /\ Rising(t) /\ Before(s, t) => Rising(s \o t)
         /\ \A n \in Nat : Upto(s, n) /\ Upto(t, n) => Upto(s \o t, n)
         /\ \A n \in Nat : Beyond(s, n) /\ Beyond(t, n) => Beyond(s \o t, n)
<1>1. PICK u \in Seq(Nat) : /\ u = s \o t /\ Len(u) = Len(s) + Len(t)
                            /\ \A i \in 1 .. Len(s) + Len(t) :
                                 u[i] = IF i <= Len(s) THEN s[i] ELSE t[i - Len(s)]
  BY Joined, Zenon
<1>2. ASSUME Rising(s), Rising(t), Before(s, t), NEW i \in 1 .. Len(u), NEW j \in 1 .. Len(u), i < j
      PROVE  u[i] < u[j]
  <2>1. CASE j <= Len(s)
    BY <1>1, <1>2, <2>1 DEF Rising
  <2>2. CASE i > Len(s)
    <3>1. i - Len(s) \in 1 .. Len(t) /\ j - Len(s) \in 1 .. Len(t) /\ i - Len(s) < j - Len(s)
      BY <1>1, <1>2, <2>2
    <3>2. u[i] = t[i - Len(s)] /\ u[j] = t[j - Len(s)]
      BY <1>1, <1>2, <2>2
    <3> QED BY <1>2, <3>1, <3>2 DEF Rising
  <2>3. CASE i <= Len(s) /\ j > Len(s)
    <3>1. i \in 1 .. Len(s) /\ j - Len(s) \in 1 .. Len(t)
      BY <1>1, <1>2, <2>3
    <3>2. u[i] = s[i] /\ u[j] = t[j - Len(s)]
      BY <1>1, <1>2, <2>3
    <3> QED BY <1>2, <3>1, <3>2 DEF Before
  <2> QED BY <1>1, <1>2, <2>1, <2>2, <2>3
<1>3. ASSUME NEW i \in 1 .. Len(u)
      PROVE  \/ i \in 1 .. Len(s) /\ u[i] = s[i]
             \/ i - Len(s) \in 1 .. Len(t) /\ u[i] = t[i - Len(s)]
  <2>1. CASE i <= Len(s)
    BY <1>1, <1>3, <2>1
  <2>2. CASE i > Len(s)
    BY <1>1, <1>3, <2>2
  <2> QED BY <1>1, <1>3, <2>1, <2>2
<1> QED BY <1>1, <1>2, <1>3 DEF Rising, Upto, Beyond

(* One more piece of text.                                                 *)
LEMMA Appended ==
  ASSUME NEW s \in Seq(Nat), NEW n \in Nat, Upto(s, n)
  PROVE  /\ Append(s, n + 1) \in Seq(Nat)
         /\ Rising(s) => Rising(Append(s, n + 1))
         /\ Upto(Append(s, n + 1), n + 1)
         /\ \A m \in 0 .. n : Beyond(s, m) => Beyond(Append(s, n + 1), m)
         /\ \A t \in Seq(Nat) : Upto(t, n) /\ Before(t, s) => Before(t, Append(s, n + 1))
<1>0. PICK m \in Nat : m = n + 1
  OBVIOUS
<1>1. PICK u \in Seq(Nat) : /\ u = Append(s, m) /\ Len(u) = Len(s) + 1
                            /\ \A i \in 1 .. Len(s) : u[i] = s[i]
                            /\ u[Len(s) + 1] = m
  BY AppendProperties, Zenon
<1>2. \A i \in 1 .. Len(u) : (i \in 1 .. Len(s) /\ u[i] = s[i]) \/ (i = Len(s) + 1 /\ u[i] = n + 1)
  BY <1>0, <1>1
<1> QED BY <1>0, <1>1, <1>2 DEF Rising, Upto, Beyond, Before

-----------------------------------------------------------------------------
(* The log files of stdbuf_v2.                                             *)

LogTypes ==
  /\ disk \in [V2!Files -> [exists : BOOLEAN, text : Seq(Nat)]] /\ kept \in [V2!Files -> Seq(Nat)]
  /\ log_f \in BOOLEAN /\ log_name \in V2!Files \cup {V2!NoFile} /\ buffered \in Seq(Nat)
  /\ reading \in BOOLEAN /\ sent \in Nat
  /\ session.file \in V2!Files \cup {V2!NextNumber, V2!NoFile}
  /\ session.began \in Nat /\ session.free \in BOOLEAN

(* What a set of files and their history must be like.                     *)
Faithful(files, history) ==
  \A f \in V2!Files :
    /\ files[f].text = history[f] /\ Rising(history[f]) /\ Upto(history[f], sent)
    /\ ~files[f].exists => history[f] = << >>

(* The open log is a file, what is buffered for it continues its text, and *)
(* the session that runs logs there; a numbered log has only its own text. *)
LogInv ==
  /\ LogTypes /\ Faithful(disk, kept)
  /\ log_f => log_name \in V2!Files /\ disk[log_name].exists /\ Before(kept[log_name], buffered)
  /\ ~log_f => log_name = V2!NoFile /\ buffered = << >>
  /\ Rising(buffered) /\ Upto(buffered, sent) /\ session.began <= sent
  /\ (reading /\ session.file \in V2!Files) => log_name = session.file
  /\ (reading /\ session.file = V2!NextNumber /\ session.free) =>
       log_f /\ Beyond(kept[log_name], session.began) /\ Beyond(buffered, session.began)

(* When what is buffered reaches the disk, the files stay true to their    *)
(* history, and the files that exist are the same.                         *)
LEMMA FlushKeeps ==
  ASSUME LogInv
  PROVE  /\ V2!Flushed(disk) \in [V2!Files -> [exists : BOOLEAN, text : Seq(Nat)]]
         /\ V2!FlushedKept \in [V2!Files -> Seq(Nat)]
         /\ Faithful(V2!Flushed(disk), V2!FlushedKept)
         /\ \A f \in V2!Files : V2!Flushed(disk)[f].exists = disk[f].exists
         /\ \A f \in V2!Files : f # log_name => V2!FlushedKept[f] = kept[f]
         /\ log_f => V2!FlushedKept[log_name] = kept[log_name] \o buffered
<1> USE DEF LogInv, LogTypes
<1>1. CASE ~log_f
  <2>1. V2!Flushed(disk) = disk /\ V2!FlushedKept = kept
    BY <1>1 DEF V2!Flushed, V2!FlushedKept
  <2> QED BY <1>1, <2>1
<1>2. CASE log_f
  <2>0. PICK text \in Seq(Nat) : text = kept[log_name] \o buffered
    BY <1>2, JoinedOrder
  <2>1. /\ log_name \in V2!Files /\ kept[log_name] \in Seq(Nat) /\ disk[log_name].text = kept[log_name]
        /\ Rising(text) /\ Upto(text, sent)
    BY <1>2, <2>0, JoinedOrder DEF Faithful
  <2>2. V2!FlushedKept = [kept EXCEPT ![log_name] = text]
    BY <1>2, <2>0 DEF V2!FlushedKept
  <2>3. V2!Flushed(disk) = [disk EXCEPT ![log_name] = [@ EXCEPT !.text = text]]
    BY <1>2, <2>0, <2>1 DEF V2!Flushed
  <2>4. V2!Flushed(disk)[log_name] = [disk[log_name] EXCEPT !.text = text]
    BY <2>1, <2>3
  <2>5. /\ V2!Flushed(disk)[log_name] \in [exists : BOOLEAN, text : Seq(Nat)]
        /\ V2!Flushed(disk)[log_name].text = text
        /\ V2!Flushed(disk)[log_name].exists = disk[log_name].exists
    <3>1. disk[log_name] \in [exists : BOOLEAN, text : Seq(Nat)]
      BY <2>1
    <3> QED BY <3>1, <2>4
  <2>6. \A f \in V2!Files : f # log_name => V2!Flushed(disk)[f] = disk[f] /\ V2!FlushedKept[f] = kept[f]
    BY <2>1, <2>2, <2>3
  <2>7. V2!FlushedKept[log_name] = text
    BY <2>1, <2>2
  <2>8. /\ V2!Flushed(disk) \in [V2!Files -> [exists : BOOLEAN, text : Seq(Nat)]]
        /\ V2!FlushedKept \in [V2!Files -> Seq(Nat)]
    <3> DEFINE R == [exists : BOOLEAN, text : Seq(Nat)]
    <3>1. V2!Flushed(disk)[log_name] \in R /\ disk \in [V2!Files -> R]
      BY <2>5
    <3> HIDE DEF R
    <3>2. V2!Flushed(disk) \in [V2!Files -> R]
      BY <2>3, <2>4, <3>1
    <3> QED BY <2>2, <3>2 DEF R
  <2>9. Faithful(V2!Flushed(disk), V2!FlushedKept)
    BY <1>2, <2>1, <2>5, <2>6, <2>7 DEF Faithful
  <2> QED BY <1>2, <2>0, <2>5, <2>6, <2>7, <2>8, <2>9
<1> QED BY <1>1, <1>2

(* The number that is taken for a numbered log is a free one, if any is.   *)
LEMMA NumberIsFree ==
  ASSUME V2!StdbufLogAssumption, NEW asked \in V2!Files \cup {V2!NextNumber}
  PROVE  /\ V2!Target(asked) \in V2!Files
         /\ asked # V2!NextNumber => V2!Target(asked) = asked
         /\ asked = V2!NextNumber /\ V2!Free # {} => ~disk[V2!Target(asked)].exists
<1>1. V2!Free \subseteq Nat /\ V2!Free \subseteq V2!Files /\ Numbered \in V2!Files
  BY DEF V2!Free, V2!StdbufLogAssumption, V2!Files
<1>2. CASE asked # V2!NextNumber
  BY <1>2 DEF V2!Target
<1>3. CASE asked = V2!NextNumber /\ V2!Free = {}
  BY <1>1, <1>3 DEF V2!Target
<1>4. CASE asked = V2!NextNumber /\ V2!Free # {}
  <2>1. PICK x \in V2!Free : \A y \in V2!Free : ~ (<<y, x>> \in OpToRel(<, Nat))
    BY <1>1, <1>4, NatLessThanWellFounded, WFMin
  <2>2. ASSUME NEW y \in Nat, NEW z \in Nat, y < z
        PROVE  <<y, z>> \in OpToRel(<, Nat)
    BY <2>2, Zenon DEF OpToRel
  <2>3. \A y \in V2!Free : y \in Nat /\ x \in Nat /\ ~ (y < x)
    BY <1>1, <2>1, <2>2, Zenon
  <2>4. \A y \in V2!Free : x <= y
    BY <2>3
  <2>5. V2!Target(asked) \in V2!Free
    BY <1>4, <2>4 DEF V2!Target, V2!Min
  <2> QED BY <1>1, <1>4, <2>5 DEF V2!Free
<1> QED BY <1>2, <1>3, <1>4

(* A session begins: another log may be closed, flushed and opened, and a  *)
(* numbered log is empty when there was a number to be had.                *)
LEMMA SessionBegins ==
  ASSUME LogInv, NEW asked \in V2!Files \cup {V2!NextNumber, V2!NoFile}, NEW connects \in BOOLEAN,
         V2!stdbuf_v2(asked, connects)
  PROVE  LogInv'
<1>0. /\ session' = [file |-> asked, began |-> sent, free |-> V2!Free # {}]
      /\ reading' = connects /\ sent' = sent
  BY DEF V2!stdbuf_v2
<1>1. /\ session'.file = asked /\ session'.began = sent /\ session'.free = (V2!Free # {})
      /\ session'.free \in BOOLEAN /\ sent \in Nat
  BY <1>0 DEF LogInv, LogTypes
<1>2. CASE V2!Closes(asked)
  <2> DEFINE target == V2!Target(asked)
  <2>1. /\ disk' = [V2!Flushed(disk) EXCEPT ![target] = V2!Opened(@)]
        /\ kept' = V2!FlushedKept /\ log_f' = TRUE /\ log_name' = target /\ buffered' = << >>
    BY <1>2 DEF V2!stdbuf_v2
  <2>2. asked \in V2!Files \cup {V2!NextNumber}
    BY <1>2 DEF V2!Closes
  <2>3. /\ target \in V2!Files
        /\ asked # V2!NextNumber => target = asked
        /\ asked = V2!NextNumber /\ V2!Free # {} => ~disk[target].exists
    BY <2>2, NumberIsFree, StdbufLogAssumption
  <2> HIDE DEF target
  <2>4. /\ V2!Flushed(disk) \in [V2!Files -> [exists : BOOLEAN, text : Seq(Nat)]]
        /\ V2!FlushedKept \in [V2!Files -> Seq(Nat)]
        /\ Faithful(V2!Flushed(disk), V2!FlushedKept)
        /\ \A f \in V2!Files : f # log_name => V2!FlushedKept[f] = kept[f]
    BY FlushKeeps
  <2>5. PICK D \in [V2!Files -> [exists : BOOLEAN, text : Seq(Nat)]] : D = V2!Flushed(disk)
    BY <2>4
  <2>6. PICK K \in [V2!Files -> Seq(Nat)] : K = V2!FlushedKept
    BY <2>4
  <2>7. disk' = [D EXCEPT ![target] = [exists |-> TRUE, text |-> D[target].text]] /\ kept' = K
    BY <2>1, <2>3, <2>5, <2>6 DEF V2!Opened
  <2>8. /\ disk' \in [V2!Files -> [exists : BOOLEAN, text : Seq(Nat)]]
        /\ disk'[target] = [exists |-> TRUE, text |-> D[target].text]
        /\ \A f \in V2!Files : f # target => disk'[f] = D[f]
    BY <2>3, <2>7
  <2>9. Faithful(disk, kept)'
    BY <1>0, <2>3, <2>4, <2>5, <2>6, <2>7, <2>8 DEF Faithful
  <2>10. << >> \in Seq(Nat) /\ Rising(<< >>) /\ \A n \in Nat : Upto(<< >>, n) /\ Beyond(<< >>, n)
    BY DEF Rising, Upto, Beyond
  <2>11. Before(kept'[target], << >>)
    BY DEF Before
  <2>12. asked = V2!NextNumber /\ V2!Free # {} => kept'[target] = << >>
    <3> SUFFICES ASSUME asked = V2!NextNumber, V2!Free # {} PROVE kept'[target] = << >>
      OBVIOUS
    <3>1. ~disk[target].exists
      BY <2>3
    <3>2. target # log_name
      BY <2>3, <3>1 DEF LogInv, LogTypes, V2!NoFile, V2!Files
    <3>3. kept[target] = << >>
      BY <2>3, <3>1 DEF LogInv, Faithful
    <3> QED BY <2>1, <2>3, <2>4, <3>2, <3>3
  <2>13. LogTypes'
    BY <1>0, <1>1, <2>1, <2>3, <2>6, <2>7, <2>8, <2>10 DEF LogTypes
  <2>14. disk'[target].exists
    BY <2>8
  <2>15. V2!NextNumber \notin V2!Files
    BY DEF V2!NextNumber, V2!Files
  <2>16. session'.began <= sent' /\ session'.began \in Nat
    BY <1>0, <1>1
  <2>17. Rising(buffered') /\ Upto(buffered', sent') /\ Before(kept'[log_name'], buffered')
    BY <1>0, <1>1, <2>1, <2>10, <2>11, Zenon
  <2>18. asked = V2!NextNumber /\ V2!Free # {} =>
           Beyond(kept'[log_name'], session'.began) /\ Beyond(buffered', session'.began)
    BY <2>1, <2>10, <2>12, <2>16, Zenon
  <2>19. log_f' /\ log_name' = target /\ (asked \in V2!Files => log_name' = asked)
    BY <2>1, <2>3, <2>15
  <2> QED
    BY <1>1, <2>3, <2>9, <2>13, <2>14, <2>16, <2>17, <2>18, <2>19, Zenon DEF LogInv
<1>3. CASE ~V2!Closes(asked)
  <2>1. UNCHANGED <<disk, log_f, log_name, buffered, kept>>
    BY <1>3 DEF V2!stdbuf_v2, V2!logVars
  <2>2. asked = V2!NoFile \/ asked = log_name
    BY <1>3 DEF V2!Closes
  <2>3. V2!NoFile \notin V2!Files /\ V2!NoFile # V2!NextNumber /\ V2!NextNumber \notin V2!Files
    BY DEF V2!NoFile, V2!Files, V2!NextNumber
  <2>4. log_name # V2!NextNumber
    BY <2>3 DEF LogInv, LogTypes
  <2>5. LogTypes'
    BY <1>0, <1>1, <2>1 DEF LogInv, LogTypes
  <2>6. Faithful(disk, kept)'
    BY <1>0, <2>1 DEF LogInv, Faithful
  <2> QED BY <1>0, <1>1, <2>1, <2>2, <2>3, <2>4, <2>5, <2>6 DEF LogInv
<1> QED BY <1>2, <1>3

(* csh ends: the files are as they were, or have what was buffered.        *)
LEMMA Ends ==
  ASSUME LogInv, V2!Restarted,
         \/ UNCHANGED <<disk, kept>>
         \/ disk' = V2!Flushed(disk) /\ kept' = V2!FlushedKept
  PROVE  LogInv'
<1>1. /\ ~log_f' /\ log_f' \in BOOLEAN /\ log_name' = V2!NoFile /\ buffered' = << >>
      /\ reading' = FALSE /\ session' = [file |-> V2!NoFile, began |-> sent, free |-> TRUE]
      /\ sent' = sent
  BY DEF V2!Restarted
<1>2. << >> \in Seq(Nat) /\ Rising(<< >>) /\ \A n \in Nat : Upto(<< >>, n)
  BY DEF Rising, Upto
<1>3. /\ disk' \in [V2!Files -> [exists : BOOLEAN, text : Seq(Nat)]]
      /\ kept' \in [V2!Files -> Seq(Nat)]
      /\ Faithful(disk', kept')
  BY FlushKeeps, Zenon DEF LogInv, LogTypes
<1>4. sent \in Nat
  BY DEF LogInv, LogTypes
<1>5. LogTypes'
  BY <1>1, <1>2, <1>3, <1>4 DEF LogTypes
<1>6. Faithful(disk, kept)'
  BY <1>1, <1>3 DEF Faithful
<1> QED BY <1>1, <1>2, <1>4, <1>5, <1>6 DEF LogInv

(* The C library writes what is buffered.                                  *)
LEMMA Flushes ==
  ASSUME LogInv, V2!Flush
  PROVE  LogInv'
<1>1. /\ disk' = V2!Flushed(disk) /\ kept' = V2!FlushedKept /\ buffered' = << >>
      /\ UNCHANGED <<log_f, log_name, reading, session, sent>>
  BY DEF V2!Flush
<1>2. log_f
  BY DEF V2!Flush, LogInv
<1>3. << >> \in Seq(Nat) /\ Rising(<< >>) /\ \A n \in Nat : Upto(<< >>, n) /\ Beyond(<< >>, n)
  BY DEF Rising, Upto, Beyond
<1>4. /\ disk' \in [V2!Files -> [exists : BOOLEAN, text : Seq(Nat)]]
      /\ kept' \in [V2!Files -> Seq(Nat)] /\ Faithful(disk', kept')
      /\ disk'[log_name].exists /\ kept'[log_name] = kept[log_name] \o buffered
  BY <1>1, <1>2, FlushKeeps DEF LogInv
<1>5. Before(kept'[log_name], << >>)
  BY DEF Before
<1>6. \A n \in Nat : Beyond(kept[log_name], n) /\ Beyond(buffered, n) => Beyond(kept'[log_name], n)
  <2>1. kept[log_name] \in Seq(Nat) /\ buffered \in Seq(Nat)
    BY <1>2 DEF LogInv, LogTypes
  <2> QED BY <1>4, <2>1, JoinedOrder
<1>7. LogTypes'
  BY <1>1, <1>3, <1>4 DEF LogInv, LogTypes
<1>8. Faithful(disk, kept)'
  BY <1>1, <1>4 DEF Faithful
<1>9. session.began \in Nat /\ sent \in Nat
  BY DEF LogInv, LogTypes
<1> QED BY <1>1, <1>2, <1>3, <1>4, <1>5, <1>6, <1>7, <1>8, <1>9 DEF LogInv

(* A packet arrives: its text is later than all that is in the log.        *)
LEMMA Receives ==
  ASSUME LogInv, NEW again \in BOOLEAN, V2!Receive(again)
  PROVE  LogInv'
<1>1. /\ reading /\ sent' = sent + 1 /\ reading' = again
      /\ buffered' = IF log_f THEN Append(buffered, sent + 1) ELSE buffered
      /\ UNCHANGED <<disk, log_f, log_name, kept, session>>
  BY DEF V2!Receive
<1>2. /\ sent \in Nat /\ sent + 1 \in Nat /\ buffered \in Seq(Nat) /\ Upto(buffered, sent)
      /\ session.began \in 0 .. sent
  BY DEF LogInv, LogTypes
<1>3. /\ Append(buffered, sent + 1) \in Seq(Nat) /\ Rising(Append(buffered, sent + 1))
      /\ Upto(Append(buffered, sent + 1), sent + 1)
      /\ Beyond(buffered, session.began) => Beyond(Append(buffered, sent + 1), session.began)
      /\ \A t \in Seq(Nat) : Upto(t, sent) /\ Before(t, buffered)
           => Before(t, Append(buffered, sent + 1))
  BY <1>2, Appended DEF LogInv
<1>4. \A t \in Seq(Nat) : Upto(t, sent) => Upto(t, sent + 1)
  BY <1>2 DEF Upto
<1>5. LogTypes'
  BY <1>1, <1>2, <1>3 DEF LogInv, LogTypes
<1>6. Faithful(disk, kept)'
  BY <1>1, <1>4 DEF LogInv, LogTypes, Faithful
<1>7. session.began <= sent + 1 /\ Upto(buffered, sent + 1) /\ \A f \in V2!Files : kept[f] \in Seq(Nat)
  BY <1>2, <1>4 DEF LogInv, LogTypes
<1>8. CASE log_f
  <2>1. buffered' = Append(buffered, sent + 1)
    BY <1>1, <1>8
  <2>2. Before(kept[log_name], buffered')
    BY <1>3, <1>7, <1>8, <2>1 DEF LogInv, Faithful
  <2> QED BY <1>1, <1>3, <1>5, <1>6, <1>7, <1>8, <2>1, <2>2 DEF LogInv
<1>9. CASE ~log_f
  <2>1. buffered' = buffered
    BY <1>1, <1>9
  <2> QED BY <1>1, <1>5, <1>6, <1>7, <1>9, <2>1 DEF LogInv
<1> QED BY <1>8, <1>9

(* A packet is lost: the log stays behind what was sent.                   *)
LEMMA PacketLost ==
  ASSUME LogInv, V2!Lost
  PROVE  LogInv'
<1>1. sent' = sent + 1 /\ UNCHANGED <<disk, log_f, log_name, buffered, kept, reading, session>>
  BY DEF V2!Lost, V2!logVars
<1>2. sent \in Nat /\ session.began \in Nat /\ session.began <= sent
  BY DEF LogInv, LogTypes
<1>3. \A t \in Seq(Nat) : Upto(t, sent) => Upto(t, sent + 1)
  BY <1>2 DEF Upto
<1>4. LogTypes'
  BY <1>1, <1>2 DEF LogInv, LogTypes
<1>5. Faithful(disk, kept)'
  BY <1>1, <1>3 DEF LogInv, LogTypes, Faithful
<1>6. session.began <= sent + 1 /\ Upto(buffered, sent + 1)
  BY <1>2, <1>3 DEF LogInv, LogTypes
<1> QED BY <1>1, <1>4, <1>5, <1>6 DEF LogInv

(* A step of stdbuf_v2 between the shell, the node, the network and the C  *)
(* library keeps the logs as LogInv describes them.                        *)
LEMMA LogStep ==
  ASSUME LogInv, [V2!Next]_V2!vars
  PROVE  LogInv'
<1>1. CASE V2!Timeout
  BY <1>1 DEF LogInv, LogTypes, Faithful, V2!Timeout, V2!logVars
<1>2. CASE UNCHANGED V2!vars
  BY <1>2 DEF LogInv, LogTypes, Faithful, V2!vars, V2!logVars
<1>3. CASE V2!Exit
  BY <1>3, Ends DEF V2!Exit
<1>4. CASE V2!Killed
  BY <1>4, Ends DEF V2!Killed
<1>5. ASSUME NEW asked \in V2!Files \cup {V2!NextNumber}, V2!OpenFails(asked)
      PROVE  LogInv'
  BY <1>5, Ends DEF V2!OpenFails
<1> QED BY <1>1, <1>2, <1>3, <1>4, <1>5, SessionBegins, Receives, PacketLost, Flushes, Zenon DEF V2!Next

(* For every number of sessions, files and packets, over every sequence of *)
(* ends, crashes and failed opens (stdbuf_v2): no log loses or reorders    *)
(* what reached it, a session logs where it was asked to, and a numbered   *)
(* log is new.                                                             *)
THEOREM ConsoleLogsKept == V2!Spec => []LogsKept
<1>1. V2!Init => LogInv
  <2> SUFFICES ASSUME V2!Init PROVE LogInv
    OBVIOUS
  <2>1. << >> \in Seq(Nat) /\ Rising(<< >>) /\ Upto(<< >>, 0)
    BY DEF Rising, Upto
  <2>2. LogTypes
    BY <2>1 DEF V2!Init, V2!Absent, LogTypes
  <2>3. Faithful(disk, kept)
    BY <2>1 DEF V2!Init, V2!Absent, Faithful
  <2> QED BY <2>1, <2>2, <2>3 DEF V2!Init, LogInv
<1>2. LogInv => LogsKept
  <2> SUFFICES ASSUME LogInv PROVE V2!LogsKept
    BY DEF LogsKept
  <2>1. \A f \in V2!Files : disk[f].text = kept[f] /\ Rising(kept[f]) /\ kept[f] \in Seq(Nat)
    BY DEF LogInv, LogTypes, Faithful
  <2>2. ASSUME NEW f \in V2!Files, NEW i \in 1 .. Len(kept[f]) - 1
        PROVE  kept[f][i] < kept[f][i + 1]
    <3>1. i \in 1 .. Len(kept[f]) /\ i + 1 \in 1 .. Len(kept[f]) /\ i < i + 1
      BY <2>1
    <3> QED BY <2>1, <3>1 DEF Rising
  <2>3. V2!NoFile \notin V2!Files
    BY DEF V2!NoFile, V2!Files
  <2>4. (reading /\ session.file \in V2!Files) => log_f /\ log_name = session.file
    BY <2>3 DEF LogInv
  <2>5. ASSUME reading, session.file = V2!NextNumber, session.free, NEW i \in DOMAIN kept[log_name]
        PROVE  kept[log_name][i] > session.began
    BY SMTT(30), <2>1, <2>5 DEF LogInv, Beyond
  <2> QED BY <2>1, <2>2, <2>4, <2>5 DEF V2!LogsKept
<1>3. LogInv /\ [V2!Next]_V2!vars => LogInv'
  BY LogStep
<1> QED BY <1>1, <1>2, <1>3, PTL DEF V2!Spec

-----------------------------------------------------------------------------
(* The terminal while Loki logging is on.                                  *)

InLoop == {"test", "call", "read", "write", "add", "send", "clear"}

(* Printed lines go through the pipe of the last session: from dup2 until  *)
(* its reader puts stdout back.                                            *)
Through ==
  shell = "running" \/ (starts \in L!Sessions /\ reader[starts] \in InLoop \cup {"close", "restore"})

(* The pipe of the last session exists and is still to be used.            *)
Opening == shell \in {"pipe", "dup"}

(* Without overlap the reader that lives belongs to the last session, and  *)
(* the descriptors shared by all sessions are those of this one.           *)
OneSession ==
  /\ \A s \in L!Sessions : reader[s] \notin {"none", "done"} => s = starts /\ shell = "idle"
  /\ stdout = IF Through THEN starts ELSE L!Tty
  /\ Through \/ Opening => starts \in L!Sessions /\ pipe_fd = starts
  /\ \A s \in L!Sessions : reader[s] = "release" => old_stdout = L!Tty
  /\ Through \/ shell = "dup" => old_stdout = L!Tty
  /\ loki_running => Through /\ \A s \in L!Sessions : reader[s] \notin {"close", "restore", "release"}
  /\ \A s \in L!Sessions : reader[s] = "read" => fd[s] = s

Copies == \E s \in L!Sessions : reader[s] = "write"

(* What is in the pipe comes after what is on the terminal, and what is    *)
(* being copied is between them; a pipe not yet used is empty.             *)
LinesRise ==
  /\ Rising(screen) /\ Upto(screen, lines) /\ \A k \in L!Sessions : Upto(pipe[k], lines)
  /\ Through => Rising(pipe[starts]) /\ Before(screen, pipe[starts])
  /\ \A k \in L!Sessions : k > starts \/ (k = starts /\ Opening) => pipe[k] = << >>
  /\ Copies =>
       /\ Rising(readbuffer) /\ Upto(readbuffer, lines)
       /\ Before(screen, readbuffer) /\ Before(readbuffer, pipe[starts])

(* Where a line is.                                                        *)
Somewhere(n) ==
  \/ n \in L!Elements(screen)
  \/ Copies /\ n \in L!Elements(readbuffer)
  \/ \E k \in L!Sessions : n \in L!Elements(pipe[k])

NoneLost == \A n : n \in 1 .. lines <=> Somewhere(n)

LokiInv == L!TypeOK /\ (~overlap => OneSession /\ LinesRise /\ NoneLost)

(* A reader takes a step: it is that of the last session.                  *)
LEMMA ReaderMoves ==
  ASSUME L!TypeOK, OneSession, NEW s \in L!Sessions, NEW to \in L!ReaderStates \ {"none"},
         reader[s] \notin {"none", "done"}, L!Goto(s, to), UNCHANGED <<shell, starts>>
  PROVE  /\ s = starts /\ starts \in L!Sessions /\ shell = "idle" /\ ~Opening /\ ~Opening'
         /\ reader'[starts] = to
         /\ \A r \in L!Sessions : r # starts => reader'[r] = reader[r] /\ reader[r] \in {"none", "done"}
         /\ Through = (reader[s] \in InLoop \cup {"close", "restore"})
         /\ Through' = (to \in InLoop \cup {"close", "restore"})
         /\ Copies = (reader[s] = "write") /\ Copies' = (to = "write")
<1>1. s = starts /\ shell = "idle" /\ \A r \in L!Sessions : r # s => reader[r] \in {"none", "done"}
  BY DEF OneSession
<1>2. reader' = [reader EXCEPT ![s] = to] /\ reader \in [L!Sessions -> L!ReaderStates]
  BY DEF L!Goto, L!TypeOK
<1>3. reader'[s] = to /\ \A r \in L!Sessions : r # s => reader'[r] = reader[r]
  BY <1>2
<1>4. Copies = (reader[s] = "write") /\ Copies' = (to = "write")
  BY <1>1, <1>3 DEF Copies
<1>5. shell' = shell /\ starts' = starts
  OBVIOUS
<1>6. /\ Through = (reader[s] \in InLoop \cup {"close", "restore"})
      /\ Through' = (to \in InLoop \cup {"close", "restore"})
  BY <1>1, <1>3, <1>5 DEF Through
<1> QED BY <1>1, <1>3, <1>4, <1>5, <1>6 DEF Opening

(* The steps of a reader keep the descriptors those of one session.        *)
LEMMA ReaderControl ==
  ASSUME L!TypeOK, OneSession, NEW s \in L!Sessions, L!ReaderNext(s)
  PROVE  OneSession'
<1>0. UNCHANGED <<loki_running, pipe_fd, shell, starts>>
  BY DEF L!ReaderNext, L!ReaderTest, L!ReaderCall, L!ReaderRead, L!ReaderWrite, L!ReaderAdd,
         L!ReaderSend, L!ReaderClear, L!ReaderClose, L!ReaderRestore, L!ReaderRelease,
         L!fdVars, L!shellVars
<1>1. ASSUME NEW to \in L!ReaderStates \ {"none", "read"}, L!Goto(s, to), reader[s] \in InLoop,
             UNCHANGED <<stdout, old_stdout, fd>>,
             to \in InLoop \/ (to = "close" /\ ~loki_running)
      PROVE  OneSession'
  <2>1. reader[s] \notin {"none", "done"}
    BY <1>1 DEF InLoop
  <2> QED BY <1>0, <1>1, <2>1, ReaderMoves DEF OneSession, InLoop
<1>2. CASE L!ReaderTest(s)
  BY <1>1, <1>2 DEF L!ReaderTest, L!ReaderAt, InLoop, L!fdVars, L!ReaderStates
<1>3. CASE L!ReaderCall(s)
  <2>1. /\ reader[s] = "call" /\ L!Goto(s, "read") /\ fd' = [fd EXCEPT ![s] = pipe_fd]
        /\ UNCHANGED <<stdout, old_stdout>> /\ fd'[s] = pipe_fd
    BY <1>3 DEF L!ReaderCall, L!ReaderAt, L!fdVars, L!TypeOK
  <2>2. "read" \in L!ReaderStates \ {"none"} /\ "read" \in InLoop /\ "call" \in InLoop
    BY DEF InLoop, L!ReaderStates
  <2>3. reader[s] \notin {"none", "done"} /\ UNCHANGED <<shell, starts>>
    BY <1>0, <2>1
  <2>4. /\ s = starts /\ ~Opening' /\ Through /\ Through' /\ reader'[s] = "read" /\ shell' = "idle"
        /\ starts \in L!Sessions
        /\ \A r \in L!Sessions : r # s => reader'[r] = reader[r] /\ reader[r] \in {"none", "done"}
    BY <2>1, <2>2, <2>3, ReaderMoves
  <2>5. pipe_fd = starts /\ stdout = starts /\ old_stdout = L!Tty /\ starts' = starts
    BY <2>3, <2>4 DEF OneSession
  <2>6. \A r \in L!Sessions : reader'[r] = "read" => fd'[r] = r
    BY <2>1, <2>4, <2>5
  <2> QED BY <1>0, <2>1, <2>4, <2>5, <2>6 DEF OneSession
<1>4. CASE L!ReaderRead(s) \/ L!ReaderWrite(s) \/ L!ReaderAdd(s) \/ L!ReaderSend(s) \/ L!ReaderClear(s)
  BY <1>1, <1>4 DEF L!ReaderRead, L!ReaderWrite, L!ReaderAdd, L!ReaderSend, L!ReaderClear,
     L!ReaderAt, InLoop, L!fdVars, L!ReaderStates
<1>5. CASE L!ReaderClose(s)
  <2>1. reader[s] = "close" /\ L!Goto(s, "restore") /\ UNCHANGED <<stdout, old_stdout, fd>>
    BY <1>5 DEF L!ReaderClose, L!ReaderAt
  <2> QED BY <1>0, <2>1, ReaderMoves DEF OneSession, InLoop, L!ReaderStates
<1>6. CASE L!ReaderRestore(s)
  <2>1. /\ reader[s] = "restore" /\ L!Goto(s, "release") /\ UNCHANGED <<old_stdout, fd>>
        /\ stdout' = L!Restored
    BY <1>6 DEF L!ReaderRestore, L!ReaderAt
  <2>2. stdout' = L!Tty /\ old_stdout = L!Tty
    <3>1. old_stdout = L!Tty
      BY <1>0, <2>1, ReaderMoves DEF OneSession, L!ReaderStates
    <3>2. L!Tty # L!Closed
      BY LokiAssumption DEF L!Tty, L!Closed, L!LokiAssumption
    <3> QED BY <2>1, <3>1, <3>2 DEF L!Restored
  <2>a. "release" \in L!ReaderStates \ {"none"} /\ "release" \notin InLoop \cup {"close", "restore"}
    BY DEF InLoop, L!ReaderStates
  <2>b. reader[s] \notin {"none", "done"} /\ UNCHANGED <<shell, starts>>
    BY <1>0, <2>1
  <2>3. /\ s = starts /\ ~Opening' /\ ~Through' /\ reader'[s] = "release" /\ shell' = "idle"
        /\ \A r \in L!Sessions : r # s => reader'[r] = reader[r] /\ reader[r] \in {"none", "done"}
    BY <2>1, <2>a, <2>b, ReaderMoves
  <2>4. ~loki_running'
    BY <1>0, <2>1 DEF OneSession
  <2>5. shell' # "dup" /\ old_stdout' = L!Tty /\ starts' = starts
    BY <1>0, <2>1, <2>2, <2>3
  <2> QED BY <2>2, <2>3, <2>4, <2>5 DEF OneSession
<1>7. CASE L!ReaderRelease(s)
  <2>1. reader[s] = "release" /\ L!Goto(s, "done") /\ UNCHANGED <<stdout, fd>>
    BY <1>7 DEF L!ReaderRelease, L!ReaderAt
  <2>2. /\ s = starts /\ ~Opening' /\ ~Through' /\ ~Through /\ shell' = "idle"
        /\ \A r \in L!Sessions : reader'[r] \in {"none", "done"}
    BY <1>0, <2>1, ReaderMoves DEF InLoop, L!ReaderStates
  <2>3. ~loki_running' /\ stdout' = L!Tty
    BY <1>0, <2>1, <2>2 DEF OneSession
  <2> QED BY <2>2, <2>3 DEF OneSession
<1> QED BY <1>2, <1>3, <1>4, <1>5, <1>6, <1>7, Zenon DEF L!ReaderNext

(* So do those that leave the descriptors, the shell and the readers       *)
(* alone, and at most stop the logging.                                    *)
LEMMA OthersControl ==
  ASSUME OneSession, UNCHANGED <<stdout, old_stdout, pipe_fd, shell, starts, reader, fd>>,
         loki_running' => loki_running
  PROVE  OneSession' /\ Through' = Through /\ Opening' = Opening /\ Copies' = Copies
<1>1. Through' = Through /\ Opening' = Opening /\ Copies' = Copies
  BY DEF Through, Opening, Copies
<1> QED BY <1>1 DEF OneSession

(* post_thread and the library it calls touch neither the descriptors nor  *)
(* the readers; at most they give up the logging, as `loki stop` does.     *)
LEMMA PosterControl ==
  ASSUME NEW s \in L!Sessions, L!PosterNext(s)
  PROVE  /\ UNCHANGED <<stdout, old_stdout, pipe_fd, shell, starts, reader, fd, readbuffer>>
         /\ loki_running' => loki_running
         /\ UNCHANGED <<pipe, screen, lines>> \/ L!Say
<1>1. CASE L!PosterTest(s) \/ L!PosterReceive(s) \/ L!PosterOk(s)
  BY <1>1 DEF L!PosterTest, L!PosterReceive, L!PosterOk,
     L!fdVars, L!shellVars, L!readerVars, L!outVars
<1>2. CASE L!PosterError(s)
  BY <1>2 DEF L!PosterError, L!StdoutOnStop, L!shellVars, L!readerVars, L!outVars
<1>3. CASE L!PosterSay(s)
  BY <1>3 DEF L!PosterSay, L!Wakes, L!fdVars, L!shellVars, L!readerVars
<1> QED BY <1>1, <1>2, <1>3 DEF L!PosterNext

(* The shell inside loki start: no reader lives.                           *)
LEMMA StartControl ==
  ASSUME L!TypeOK, OneSession, ~overlap',
         L!StartPipe \/ L!StartDup \/ L!StartDup2 \/ L!StartFails \/ L!StartThreads
  PROVE  /\ OneSession' /\ ~Copies /\ ~Copies'
         /\ Through' => starts' = starts /\ (Through \/ Opening)
         /\ Opening' => Opening \/ starts' = starts + 1
         /\ starts' \in {starts, starts + 1} /\ starts' \in 0 .. MaxStarts
         /\ Through => Through'
<1>0. reader \in [L!Sessions -> L!ReaderStates] /\ starts \in 0 .. MaxStarts /\ MaxStarts \in Nat
  BY LokiAssumption DEF L!TypeOK, L!LokiAssumption
<1>1. CASE L!StartPipe
  <2>1. /\ shell = "idle" /\ ~loki_running /\ starts < MaxStarts /\ starts' = starts + 1
        /\ pipe_fd' = starts + 1 /\ shell' = "pipe"
        /\ UNCHANGED <<loki_running, stdout, old_stdout, reader, fd>>
    BY <1>1 DEF L!StartPipe, L!ShellAt, L!readerVars
  <2>2. \A s \in L!Sessions : reader[s] \in {"none", "done"}
    BY <1>1 DEF L!StartPipe
  <2>3. ~Through /\ ~Through' /\ ~Copies /\ ~Copies' /\ Opening'
    <3>1. reader' = reader
      BY <2>1
    <3>2. ~Through /\ ~Copies /\ ~Copies'
      BY <2>1, <2>2, <3>1 DEF Through, InLoop, Copies
    <3>3. starts' \in L!Sessions
      BY <1>0, <2>1 DEF L!Sessions
    <3>4. ~Through'
      BY <2>1, <2>2, <3>1, <3>3 DEF Through, InLoop
    <3> QED BY <2>1, <3>2, <3>4 DEF Opening
  <2>4. starts' \in L!Sessions /\ starts' \in 0 .. MaxStarts
    BY <1>0, <2>1 DEF L!Sessions
  <2> QED BY <2>1, <2>2, <2>3, <2>4 DEF OneSession
<1>2. ASSUME shell \in {"pipe", "dup", "running"}
      PROVE  /\ \A s \in L!Sessions : reader[s] \in {"none", "done"}
             /\ ~Copies /\ starts \in L!Sessions /\ pipe_fd = starts
             /\ Through <=> shell = "running"
             /\ shell # "running" => ~loki_running /\ stdout = L!Tty
  <2>1. \A s \in L!Sessions : reader[s] \in {"none", "done"}
    BY <1>2 DEF OneSession
  <2>2. ~Copies /\ (Through <=> shell = "running")
    BY <2>1 DEF Copies, Through, InLoop
  <2> QED BY <1>2, <2>1, <2>2 DEF OneSession, Opening
<1>3. CASE L!StartDup
  <2>1. /\ shell = "pipe" /\ shell' = "dup" /\ old_stdout' = stdout
        /\ UNCHANGED <<loki_running, stdout, pipe_fd, starts, reader, fd>>
    BY <1>3 DEF L!StartDup, L!ShellAt, L!readerVars
  <2>2. ~Through' /\ ~Copies' /\ Opening /\ Opening'
    BY <1>2, <2>1 DEF Through, InLoop, Copies, Opening
  <2> QED BY <1>0, <1>2, <2>1, <2>2 DEF OneSession
<1>4. CASE L!StartDup2
  <2>1. /\ shell = "dup" /\ shell' = "running" /\ stdout' = pipe_fd
        /\ UNCHANGED <<old_stdout, pipe_fd, starts, reader, fd>>
    BY <1>4 DEF L!StartDup2, L!ShellAt, L!readerVars
  <2>2. Through' /\ ~Copies' /\ Opening /\ ~Opening'
    BY <1>2, <2>1 DEF Through, Copies, Opening
  <2>3. old_stdout = L!Tty
    BY <2>1 DEF OneSession
  <2> QED BY <1>0, <1>2, <2>1, <2>2, <2>3 DEF OneSession
<1>5. CASE L!StartFails
  <2>1. /\ shell = "dup" /\ shell' = "idle"
        /\ UNCHANGED <<loki_running, stdout, old_stdout, pipe_fd, starts, reader, fd>>
    BY <1>5 DEF L!StartFails, L!ShellAt, L!fdVars, L!readerVars
  <2>2. ~Through' /\ ~Copies' /\ Opening /\ ~Opening'
    BY <1>2, <2>1 DEF Through, InLoop, Copies, Opening
  <2> QED BY <1>0, <1>2, <2>1, <2>2 DEF OneSession
<1>6. CASE L!StartThreads
  <2>1. /\ shell = "running" /\ shell' = "idle" /\ reader' = [reader EXCEPT ![starts] = "test"]
        /\ UNCHANGED <<loki_running, stdout, old_stdout, pipe_fd, starts, fd>>
    BY <1>6 DEF L!StartThreads, L!ShellAt, L!fdVars
  <2>2. /\ reader'[starts] = "test"
        /\ \A s \in L!Sessions : s # starts => reader'[s] \in {"none", "done"}
    BY <1>0, <1>2, <2>1
  <2>3. Through /\ Through' /\ ~Copies' /\ ~Opening /\ ~Opening'
    BY <1>2, <2>1, <2>2 DEF Through, InLoop, Copies, Opening
  <2>4. old_stdout = L!Tty /\ stdout = starts
    BY <2>3 DEF OneSession
  <2> QED BY <1>0, <1>2, <2>1, <2>2, <2>3, <2>4 DEF OneSession
<1> QED BY <1>1, <1>3, <1>4, <1>5, <1>6

(* The lines of two texts, and of one more line.                           *)
LEMMA Parts ==
  /\ \A s, t \in Seq(Nat) : \A n :
            n \in L!Elements(s \o t) <=> n \in L!Elements(s) \/ n \in L!Elements(t)
  /\ \A n : n \notin L!Elements(<< >>)
<1>1. ASSUME NEW s \in Seq(Nat), NEW t \in Seq(Nat), NEW n
      PROVE  n \in L!Elements(s \o t) <=> n \in L!Elements(s) \/ n \in L!Elements(t)
  <2>1. PICK u \in Seq(Nat) : /\ u = s \o t /\ Len(u) = Len(s) + Len(t)
                              /\ \A i \in 1 .. Len(s) + Len(t) :
                                   u[i] = IF i <= Len(s) THEN s[i] ELSE t[i - Len(s)]
    BY Joined, Zenon
  <2>2. ASSUME NEW i \in 1 .. Len(u)
        PROVE  \/ i \in 1 .. Len(s) /\ u[i] = s[i]
               \/ i - Len(s) \in 1 .. Len(t) /\ u[i] = t[i - Len(s)]
    <3>1. CASE i <= Len(s)
      BY <2>1, <3>1
    <3>2. CASE i > Len(s)
      BY <2>1, <3>2
    <3> QED BY <2>1, <3>1, <3>2
  <2>3. ASSUME NEW i \in 1 .. Len(s) PROVE i \in 1 .. Len(u) /\ u[i] = s[i]
    BY <2>1
  <2>4. ASSUME NEW i \in 1 .. Len(t) PROVE i + Len(s) \in 1 .. Len(u) /\ u[i + Len(s)] = t[i]
    <3>1. i + Len(s) \in 1 .. Len(s) + Len(t) /\ ~ (i + Len(s) <= Len(s)) /\ i + Len(s) - Len(s) = i
      BY <2>1
    <3> QED BY <2>1, <3>1
  <2>5. n \in L!Elements(u) <=> n \in L!Elements(s) \/ n \in L!Elements(t)
    <3>1. ASSUME n \in L!Elements(u) PROVE n \in L!Elements(s) \/ n \in L!Elements(t)
      BY <2>2, <3>1 DEF L!Elements
    <3>2. ASSUME n \in L!Elements(s) PROVE n \in L!Elements(u)
      BY <2>3, <3>2 DEF L!Elements
    <3>3. ASSUME n \in L!Elements(t) PROVE n \in L!Elements(u)
      BY <2>4, <3>3 DEF L!Elements
    <3> QED BY <3>1, <3>2, <3>3
  <2> QED BY <2>1, <2>5
<1>2. ASSUME NEW n PROVE n \notin L!Elements(<< >>)
  BY DEF L!Elements
<1> QED BY <1>1, <1>2

(* A text that the line just printed is put behind still rises, and has    *)
(* this line besides its own.                                              *)
LEMMA OneMore ==
  ASSUME NEW s \in Seq(Nat), NEW n \in Nat, Upto(s, n)
  PROVE  /\ s \o <<n + 1>> \in Seq(Nat)
         /\ Rising(s) => Rising(s \o <<n + 1>>)
         /\ Upto(s \o <<n + 1>>, n + 1)
         /\ \A t \in Seq(Nat) : Upto(t, n) /\ Before(t, s) => Before(t, s \o <<n + 1>>)
         /\ \A m : m \in L!Elements(s \o <<n + 1>>) <=> m \in L!Elements(s) \/ m = n + 1
<1>1. PICK u \in Nat : u = n + 1
  OBVIOUS
<1>2. s \o <<u>> = Append(s, u)
  BY <1>1, AppendIsConcat
<1>3. <<u>> \in Seq(Nat) /\ \A m : m \in L!Elements(<<u>>) <=> m = u
  BY DEF L!Elements
<1>4. \A m : m \in L!Elements(s \o <<u>>) <=> m \in L!Elements(s) \/ m = u
  BY <1>3, Parts
<1>5. /\ Append(s, u) \in Seq(Nat)
      /\ Rising(s) => Rising(Append(s, u))
      /\ Upto(Append(s, u), u)
      /\ \A t \in Seq(Nat) : Upto(t, n) /\ Before(t, s) => Before(t, Append(s, u))
  BY <1>1, Appended
<1> QED BY <1>1, <1>2, <1>4, <1>5

(* Bounds that hold still hold when more lines have been printed.          *)
LEMMA UptoMore ==
  ASSUME NEW s \in Seq(Nat), NEW n \in Nat, Upto(s, n)
  PROVE  Upto(s, n + 1)
BY DEF Upto

(* A step that moves no line.                                              *)
LEMMA TextStays ==
  ASSUME L!TypeOK, OneSession, LinesRise, NoneLost, UNCHANGED <<pipe, screen, lines>>,
         Copies' = Copies, Copies => readbuffer' = readbuffer /\ starts' = starts,
         starts' \in {starts, starts + 1},
         Through' => starts' = starts /\ (Through \/ Opening),
         Opening' => Opening \/ starts' = starts + 1
  PROVE  LinesRise' /\ NoneLost'
<1>1. starts \in Nat /\ L!Sessions \subseteq Nat
  BY LokiAssumption DEF L!TypeOK, L!LokiAssumption, L!Sessions
<1>2. \A k \in L!Sessions : k > starts' \/ (k = starts' /\ Opening') => pipe[k] = << >>
  BY <1>1 DEF LinesRise
<1>3. Through' => Rising(pipe[starts]) /\ Before(screen, pipe[starts])
  <2>1. CASE Through
    BY <2>1 DEF LinesRise
  <2>2. CASE Through' /\ ~Through
    <3>1. pipe[starts] = << >>
      BY <2>2 DEF LinesRise, OneSession
    <3>2. Rising(<< >>) /\ Before(screen, << >>)
      BY DEF Rising, Before
    <3> QED BY <3>1, <3>2
  <2> QED BY <2>1, <2>2
<1>4. LinesRise'
  BY <1>2, <1>3 DEF LinesRise
<1>5. \A n : Somewhere(n)' <=> Somewhere(n)
  BY DEF Somewhere
<1> QED BY <1>4, <1>5 DEF NoneLost

(* Only the reader of the session that has the terminal's output holds     *)
(* lines it has read and not yet written on.                               *)
LEMMA CopiesThrough ==
  ASSUME OneSession, Copies
  PROVE  Through /\ starts \in L!Sessions /\ ~Opening
<1>1. PICK s \in L!Sessions : reader[s] = "write"
  BY DEF Copies
<1>2. s = starts /\ shell = "idle"
  BY <1>1 DEF OneSession
<1> QED BY <1>1, <1>2 DEF Through, InLoop, Opening

(* A line is printed: behind all that is in the pipe, or on the terminal.  *)
LEMMA SayKeeps ==
  ASSUME L!TypeOK, OneSession, LinesRise, NoneLost, L!Say, UNCHANGED <<readbuffer, starts>>,
         Through' = Through, Opening' => Opening, Copies' = Copies
  PROVE  LinesRise' /\ NoneLost'
<1>0. /\ lines \in Nat /\ screen \in Seq(Nat) /\ readbuffer \in Seq(Nat)
      /\ pipe \in [L!Sessions -> Seq(Nat)] /\ lines' = lines + 1
      /\ 0 \notin L!Sessions /\ MaxStarts \in Nat /\ starts \in 0 .. MaxStarts
  BY LokiAssumption DEF L!TypeOK, L!Say, L!LokiAssumption, L!Sessions
<1>1. /\ \A s \in Seq(Nat) : Upto(s, lines) => Upto(s, lines + 1)
      /\ \A n : n \in 1 .. lines + 1 <=> n \in 1 .. lines \/ n = lines + 1
  BY <1>0, UptoMore
<1>2. CASE Through
  <2> DEFINE longer == pipe[starts] \o <<lines + 1>>
  <2>1. /\ starts \in L!Sessions /\ ~Opening' /\ pipe' = [pipe EXCEPT ![starts] = longer]
        /\ screen' = screen
    <3>1. starts \in L!Sessions /\ stdout = starts
      BY <1>2 DEF OneSession
    <3>2. ~Opening
      BY <1>2, <3>1 DEF Through, Opening, OneSession, InLoop
    <3> QED BY <1>0, <3>1, <3>2 DEF L!Say, L!Write, L!Tty
  <2>2. pipe[starts] \in Seq(Nat) /\ Upto(pipe[starts], lines) /\ Rising(pipe[starts])
    BY <1>0, <1>2, <2>1 DEF LinesRise
  <2>3. /\ Rising(longer) /\ Upto(longer, lines + 1)
        /\ \A t \in Seq(Nat) : Upto(t, lines) /\ Before(t, pipe[starts]) => Before(t, longer)
        /\ \A m : m \in L!Elements(longer) <=> m \in L!Elements(pipe[starts]) \/ m = lines + 1
    BY <1>0, <2>2, OneMore
  <2> HIDE DEF longer
  <2>4. pipe'[starts] = longer /\ \A k \in L!Sessions : k # starts => pipe'[k] = pipe[k]
    BY <1>0, <2>1
  <2>5. \A k \in L!Sessions : Upto(pipe'[k], lines + 1)
    BY <1>0, <1>1, <2>3, <2>4 DEF LinesRise
  <2>6. \A k \in L!Sessions : k > starts' \/ (k = starts' /\ Opening') => pipe'[k] = << >>
    <3> SUFFICES ASSUME NEW k \in L!Sessions, k > starts \/ (k = starts /\ Opening')
                 PROVE  pipe'[k] = << >>
      OBVIOUS
    <3>1. k > starts /\ k # starts
      BY <1>0, <2>1
    <3> QED BY <2>4, <3>1 DEF LinesRise
  <2>7. Rising(screen) /\ Upto(screen, lines) /\ Before(screen, pipe[starts])
    BY <1>2 DEF LinesRise
  <2>8. Copies => /\ Rising(readbuffer) /\ Upto(readbuffer, lines) /\ Before(screen, readbuffer)
                  /\ Before(readbuffer, pipe[starts])
    BY DEF LinesRise
  <2>9. Before(screen, longer) /\ (Copies => Before(readbuffer, longer))
    BY <1>0, <2>3, <2>7, <2>8
  <2>10. LinesRise'
    BY <1>0, <1>1, <2>1, <2>3, <2>4, <2>5, <2>6, <2>7, <2>8, <2>9 DEF LinesRise
  <2>11. \A n : Somewhere(n)' <=> Somewhere(n) \/ n = lines + 1
    BY <2>1, <2>3, <2>4 DEF Somewhere
  <2> QED BY <1>0, <1>1, <2>10, <2>11 DEF NoneLost
<1>3. CASE ~Through
  <2> DEFINE longer == screen \o <<lines + 1>>
  <2>1. pipe' = pipe /\ screen' = longer /\ ~Copies
    <3>1. stdout = 0 /\ ~Copies
      BY <1>3, CopiesThrough DEF OneSession, L!Tty
    <3> QED BY <1>0, <3>1 DEF L!Say, L!Write, L!Tty
  <2>2. screen \in Seq(Nat) /\ Upto(screen, lines) /\ Rising(screen)
    BY <1>0 DEF LinesRise
  <2>3. /\ Rising(longer) /\ Upto(longer, lines + 1)
        /\ \A m : m \in L!Elements(longer) <=> m \in L!Elements(screen) \/ m = lines + 1
    BY <1>0, <2>2, OneMore
  <2> HIDE DEF longer
  <2>4. \A k \in L!Sessions : Upto(pipe[k], lines + 1)
    BY <1>0, <1>1 DEF LinesRise
  <2>5. LinesRise'
    BY <1>0, <1>3, <2>1, <2>3, <2>4 DEF LinesRise
  <2>6. \A n : Somewhere(n)' <=> Somewhere(n) \/ n = lines + 1
    BY <2>1, <2>3 DEF Somewhere
  <2> QED BY <1>0, <1>1, <2>5, <2>6 DEF NoneLost
<1> QED BY <1>2, <1>3

(* A reader takes what is in the pipe, and puts it on the terminal.        *)
LEMMA ReadKeeps ==
  ASSUME L!TypeOK, OneSession, LinesRise, NoneLost, NEW s \in L!Sessions, L!ReaderRead(s)
  PROVE  LinesRise' /\ NoneLost'
<1>0. /\ screen \in Seq(Nat) /\ pipe \in [L!Sessions -> Seq(Nat)] /\ reader[s] = "read"
      /\ UNCHANGED <<screen, lines, shell, starts>>
  BY DEF L!TypeOK, L!ReaderRead, L!ReaderAt, L!shellVars
<1>1. CASE L!Goto(s, "test") /\ UNCHANGED <<readbuffer, pipe>>
  <2>1. /\ "test" \in L!ReaderStates \ {"none"} /\ "test" \in InLoop
        /\ reader[s] \in InLoop /\ reader[s] \notin {"none", "done"} /\ UNCHANGED <<shell, starts>>
    BY <1>0 DEF L!ReaderStates, InLoop
  <2>2. Through' /\ Through /\ ~Opening' /\ ~Copies' /\ ~Copies
    BY <1>0, <1>1, <2>1, ReaderMoves
  <2>3. (Copies' = Copies) /\ UNCHANGED <<pipe, screen, lines>> /\ starts' = starts
    BY <1>0, <1>1, <2>2 DEF Copies
  <2> QED BY <2>2, <2>3, TextStays
<1>2. CASE /\ L!Goto(s, "write") /\ readbuffer' = pipe[fd[s]]
           /\ pipe' = [pipe EXCEPT ![fd[s]] = << >>]
  <2>1. /\ "write" \in L!ReaderStates \ {"none"} /\ "write" \in InLoop
        /\ reader[s] \in InLoop /\ reader[s] \notin {"none", "done"} /\ UNCHANGED <<shell, starts>>
    BY <1>0 DEF L!ReaderStates, InLoop
  <2>2. s = starts /\ ~Copies /\ Copies' /\ Through /\ Through' /\ ~Opening'
    BY <1>0, <1>2, <2>1, ReaderMoves
  <2>3. /\ readbuffer' = pipe[s] /\ pipe'[s] = << >>
        /\ \A k \in L!Sessions : k # s => pipe'[k] = pipe[k]
    BY <1>0, <1>2 DEF OneSession
  <2>4. /\ Rising(<< >>) /\ Upto(<< >>, lines)
        /\ \A t : Before(t, << >>)
    BY DEF Rising, Upto, Before
  <2>5. Rising(pipe[s]) /\ Before(screen, pipe[s]) /\ Upto(pipe[s], lines)
    BY <2>2 DEF LinesRise
  <2>6. LinesRise'
    BY <1>0, <2>2, <2>3, <2>4, <2>5 DEF LinesRise
  <2>7. \A n : Somewhere(n)' <=> Somewhere(n)
    BY <1>0, <2>2, <2>3, Parts DEF Somewhere
  <2> QED BY <1>0, <2>6, <2>7 DEF NoneLost
<1> QED BY <1>1, <1>2 DEF L!ReaderRead

(* read_pipe writes the lines it read to the terminal: they are behind all *)
(* that is there, and before what is in the pipe.                          *)
LEMMA WriteKeeps ==
  ASSUME L!TypeOK, OneSession, LinesRise, NoneLost, NEW s \in L!Sessions, L!ReaderWrite(s)
  PROVE  LinesRise' /\ NoneLost'
<1>0. /\ screen \in Seq(Nat) /\ readbuffer \in Seq(Nat) /\ pipe \in [L!Sessions -> Seq(Nat)]
      /\ lines \in Nat /\ reader[s] = "write" /\ UNCHANGED <<lines, shell, starts, readbuffer>>
      /\ L!Goto(s, "add")
  BY DEF L!TypeOK, L!ReaderWrite, L!ReaderAt, L!shellVars
<1>1. /\ "add" \in L!ReaderStates \ {"none"} /\ "add" \in InLoop
      /\ reader[s] \in InLoop /\ reader[s] \notin {"none", "done"} /\ UNCHANGED <<shell, starts>>
  BY <1>0 DEF L!ReaderStates, InLoop
<1>2. s = starts /\ Copies /\ ~Copies' /\ Through /\ Through' /\ ~Opening'
  BY <1>0, <1>1, ReaderMoves
<1>3. screen' = screen \o readbuffer /\ pipe' = pipe
  <2>1. old_stdout = 0 /\ 0 \notin L!Sessions
    BY <1>2 DEF OneSession, L!Tty, L!Sessions
  <2> QED BY <2>1 DEF L!ReaderWrite, L!Write, L!Tty
<1>4. /\ Rising(screen) /\ Upto(screen, lines) /\ Before(screen, pipe[s]) /\ Rising(pipe[s])
      /\ Rising(readbuffer) /\ Upto(readbuffer, lines)
      /\ Before(screen, readbuffer) /\ Before(readbuffer, pipe[s])
  BY <1>2 DEF LinesRise
<1>5. Rising(screen') /\ Upto(screen', lines)
  BY <1>0, <1>3, <1>4, JoinedOrder
<1>6. Before(screen', pipe[s])
  <2>1. PICK u \in Seq(Nat) : /\ u = screen \o readbuffer /\ Len(u) = Len(screen) + Len(readbuffer)
                              /\ \A i \in 1 .. Len(screen) + Len(readbuffer) :
                                   u[i] = IF i <= Len(screen) THEN screen[i]
                                                              ELSE readbuffer[i - Len(screen)]
    BY <1>0, Joined, Zenon
  <2>2. ASSUME NEW i \in 1 .. Len(u), NEW j \in 1 .. Len(pipe[s]) PROVE u[i] < pipe[s][j]
    <3>1. CASE i <= Len(screen)
      BY <1>0, <1>4, <2>1, <3>1 DEF Before
    <3>2. CASE i > Len(screen)
      <4>1. i - Len(screen) \in 1 .. Len(readbuffer) /\ u[i] = readbuffer[i - Len(screen)]
        BY <1>0, <2>1, <3>2
      <4> QED BY <1>4, <4>1 DEF Before
    <3> QED BY <1>0, <2>1, <3>1, <3>2
  <2> QED BY <1>3, <2>1, <2>2 DEF Before
<1>7. LinesRise'
  BY <1>0, <1>2, <1>3, <1>4, <1>5, <1>6 DEF LinesRise
<1>8. \A n : Somewhere(n)' <=> Somewhere(n)
  BY <1>0, <1>2, <1>3, Parts DEF Somewhere
<1> QED BY <1>0, <1>7, <1>8 DEF NoneLost

(* The other steps of a reader move no line.                               *)
LEMMA ReaderQuiet ==
  ASSUME L!TypeOK, OneSession, LinesRise, NoneLost, NEW s \in L!Sessions,
         \/ L!ReaderTest(s) \/ L!ReaderCall(s) \/ L!ReaderAdd(s) \/ L!ReaderSend(s)
         \/ L!ReaderClear(s) \/ L!ReaderClose(s) \/ L!ReaderRestore(s) \/ L!ReaderRelease(s)
  PROVE  LinesRise' /\ NoneLost'
<1>1. PICK to \in L!ReaderStates \ {"none", "write"} :
        /\ L!Goto(s, to) /\ reader[s] \notin {"none", "done", "write"}
        /\ to \in InLoop \cup {"close", "restore"} => reader[s] \in InLoop \cup {"close", "restore"}
  <2>1. CASE L!ReaderTest(s)
    BY <2>1 DEF L!ReaderTest, L!ReaderAt, L!ReaderStates, InLoop
  <2>2. CASE L!ReaderAdd(s)
    BY <2>2 DEF L!ReaderAdd, L!ReaderAt, L!ReaderStates, InLoop
  <2>3. CASE L!ReaderCall(s) \/ L!ReaderSend(s) \/ L!ReaderClear(s)
    BY <2>3 DEF L!ReaderCall, L!ReaderSend, L!ReaderClear, L!ReaderAt, L!ReaderStates, InLoop
  <2>4. CASE L!ReaderClose(s) \/ L!ReaderRestore(s) \/ L!ReaderRelease(s)
    BY <2>4 DEF L!ReaderClose, L!ReaderRestore, L!ReaderRelease, L!ReaderAt, L!ReaderStates, InLoop
  <2> QED BY <2>1, <2>2, <2>3, <2>4
<1>2. UNCHANGED <<pipe, screen, lines, shell, starts>>
  BY DEF L!ReaderTest, L!ReaderCall, L!ReaderAdd, L!ReaderSend, L!ReaderClear, L!ReaderClose,
     L!ReaderRestore, L!ReaderRelease, L!outVars, L!shellVars
<1>3. to \in L!ReaderStates \ {"none"} /\ UNCHANGED <<shell, starts>>
        /\ reader[s] \notin {"none", "done"}
  BY <1>1, <1>2
<1>4. ~Copies /\ ~Copies' /\ ~Opening' /\ (Through' => Through)
  BY <1>1, <1>3, ReaderMoves
<1>5. (Copies' = Copies) /\ UNCHANGED <<pipe, screen, lines>> /\ starts' = starts
  BY <1>2, <1>4 DEF Copies
<1> QED BY <1>4, <1>5, TextStays

(* The text of a write lands somewhere, as lines.                          *)
LEMMA WriteTypes ==
  ASSUME L!TypeOK, NEW where, NEW text \in Seq(Nat), L!Write(where, text)
  PROVE  screen' \in Seq(Nat) /\ pipe' \in [L!Sessions -> Seq(Nat)] /\ killed' \in BOOLEAN
<1>1. screen \in Seq(Nat) /\ pipe \in [L!Sessions -> Seq(Nat)]
  BY DEF L!TypeOK
<1>2. screen' \in Seq(Nat)
  BY <1>1, Joined DEF L!Write
<1>3. CASE where \in L!Sessions
  <2>1. PICK more \in Seq(Nat) : more = pipe[where] \o text
    BY <1>1, <1>3, Joined
  <2>2. pipe' = [pipe EXCEPT ![where] = more]
    BY <1>3, <2>1 DEF L!Write
  <2> QED BY <1>1, <1>2, <2>2 DEF L!Write
<1>4. CASE where \notin L!Sessions
  BY <1>1, <1>2, <1>4 DEF L!Write
<1> QED BY <1>3, <1>4

(* Printing a line, wherever descriptor 1 points, keeps the types.         *)
LEMMA SayTypes ==
  ASSUME L!TypeOK, L!Say
  PROVE  /\ screen' \in Seq(Nat) /\ pipe' \in [L!Sessions -> Seq(Nat)] /\ killed' \in BOOLEAN
         /\ lines' \in Nat
<1>1. lines \in Nat /\ lines' = lines + 1 /\ L!Write(stdout, <<lines + 1>>)
  BY DEF L!TypeOK, L!Say
<1>2. lines + 1 \in Nat /\ <<lines + 1>> \in Seq(Nat)
  BY <1>1
<1> QED BY <1>1, <1>2, WriteTypes

(* The steps of `loki start`, `loki stop` and of the commands that print   *)
(* keep the types.                                                         *)
LEMMA ShellTypes ==
  ASSUME L!TypeOK, L!ShellNext
  PROVE  L!TypeOK'
<1>0. MaxStarts \in Nat /\ QueueLength \in Nat /\ ErrorLimit \in Nat
  BY LokiAssumption DEF L!LokiAssumption
<1>1. CASE L!PrintLine
  <2>1. /\ L!Say
        /\ UNCHANGED <<loki_running, L!fdVars, L!queueVars, L!shellVars, L!readerVars, poster>>
    BY <1>1 DEF L!PrintLine
  <2> QED BY <2>1, SayTypes DEF L!TypeOK, L!fdVars, L!queueVars, L!shellVars, L!readerVars
<1>2. CASE L!Hook
  BY <1>0, <1>2 DEF L!Hook, L!TypeOK, L!fdVars, L!outVars, L!shellVars, L!readerVars
<1>3. CASE L!StartPipe
  <2>1. starts + 1 \in L!Sessions /\ starts + 1 \in 0 .. MaxStarts
    BY <1>0, <1>3 DEF L!StartPipe, L!TypeOK, L!Sessions
  <2>2. overlap' \in BOOLEAN
    BY <1>3 DEF L!StartPipe, L!TypeOK
  <2> QED BY <1>3, <2>1, <2>2 DEF L!StartPipe, L!TypeOK, L!outVars, L!queueVars, L!readerVars
<1>4. CASE L!StartDup \/ L!StartFails
  BY <1>4 DEF L!StartDup, L!StartFails, L!TypeOK, L!fdVars, L!outVars, L!queueVars, L!readerVars
<1>5. CASE L!StartDup2
  BY <1>0, <1>5 DEF L!StartDup2, L!TypeOK, L!outVars, L!queueVars, L!readerVars, L!Sessions, L!Tty
<1>6. CASE L!StartThreads
  <2>1. /\ reader' = [reader EXCEPT ![starts] = "test"] /\ poster' = [poster EXCEPT ![starts] = "test"]
        /\ L!Say \/ UNCHANGED L!outVars
        /\ shell' = "idle"
        /\ UNCHANGED <<loki_running, L!fdVars, L!queueVars, starts, overlap, fd, readbuffer>>
    BY <1>6 DEF L!StartThreads
  <2>2. reader' \in [L!Sessions -> L!ReaderStates] /\ poster' \in [L!Sessions -> L!PosterStates]
    BY <2>1 DEF L!TypeOK, L!ReaderStates, L!PosterStates
  <2>3. /\ screen' \in Seq(Nat) /\ pipe' \in [L!Sessions -> Seq(Nat)] /\ killed' \in BOOLEAN
        /\ lines' \in Nat
    BY <2>1, SayTypes DEF L!TypeOK, L!outVars
  <2> QED BY <2>1, <2>2, <2>3 DEF L!TypeOK, L!fdVars, L!queueVars
<1> QED BY <1>1, <1>2, <1>3, <1>4, <1>5, <1>6, Zenon DEF L!ShellNext

(* The steps of read_pipe keep the types.                                  *)
LEMMA ReaderTypes ==
  ASSUME L!TypeOK, NEW s \in L!Sessions, L!ReaderNext(s)
  PROVE  L!TypeOK'
<1>0. /\ MaxStarts \in Nat /\ QueueLength \in Nat
      /\ \A to \in L!ReaderStates : L!Goto(s, to) => reader' \in [L!Sessions -> L!ReaderStates]
  BY LokiAssumption DEF L!LokiAssumption, L!Goto, L!TypeOK
<1>1. CASE L!ReaderTest(s) \/ L!ReaderCall(s) \/ L!ReaderAdd(s)
  <2>1. reader' \in [L!Sessions -> L!ReaderStates]
    BY <1>0, <1>1 DEF L!ReaderTest, L!ReaderCall, L!ReaderAdd, L!ReaderStates
  <2> QED BY <1>1, <2>1 DEF L!ReaderTest, L!ReaderCall, L!ReaderAdd, L!TypeOK,
        L!fdVars, L!outVars, L!queueVars, L!shellVars
<1>2. CASE L!ReaderRead(s)
  <2>1. reader' \in [L!Sessions -> L!ReaderStates]
    BY <1>0, <1>2 DEF L!ReaderRead, L!ReaderStates
  <2>2. << >> \in Seq(Nat)
    OBVIOUS
  <2>3. readbuffer' \in Seq(Nat) /\ pipe' \in [L!Sessions -> Seq(Nat)]
    <3>0. pipe \in [L!Sessions -> Seq(Nat)] /\ readbuffer \in Seq(Nat) /\ readable \subseteq L!Sessions
      BY DEF L!TypeOK
    <3>1. CASE UNCHANGED <<readbuffer, pipe>>
      BY <3>0, <3>1
    <3>2. CASE /\ fd[s] \in readable /\ readbuffer' = pipe[fd[s]]
               /\ pipe' = [pipe EXCEPT ![fd[s]] = << >>]
      BY <2>2, <3>0, <3>2
    <3> QED BY <1>2, <3>1, <3>2 DEF L!ReaderRead
  <2> QED BY <1>2, <2>1, <2>3 DEF L!ReaderRead, L!TypeOK, L!fdVars, L!queueVars, L!shellVars
<1>3. CASE L!ReaderWrite(s)
  <2>1. reader' \in [L!Sessions -> L!ReaderStates]
    BY <1>0, <1>3 DEF L!ReaderWrite, L!ReaderStates
  <2>2. screen' \in Seq(Nat) /\ pipe' \in [L!Sessions -> Seq(Nat)] /\ killed' \in BOOLEAN
    BY <1>3, WriteTypes DEF L!ReaderWrite, L!TypeOK
  <2> QED BY <1>3, <2>1, <2>2 DEF L!ReaderWrite, L!TypeOK, L!fdVars, L!queueVars, L!shellVars
<1>4. CASE L!ReaderSend(s)
  <2>1. reader' \in [L!Sessions -> L!ReaderStates]
    BY <1>0, <1>4 DEF L!ReaderSend, L!ReaderStates
  <2> QED BY <1>0, <1>4, <2>1 DEF L!ReaderSend, L!TypeOK, L!fdVars, L!outVars, L!shellVars
<1>5. CASE L!ReaderClear(s)
  <2>1. reader' \in [L!Sessions -> L!ReaderStates] /\ << >> \in Seq(Nat)
    BY <1>0, <1>5 DEF L!ReaderClear, L!ReaderStates
  <2> QED BY <1>5, <2>1 DEF L!ReaderClear, L!TypeOK, L!fdVars, L!outVars, L!queueVars, L!shellVars
<1>6. CASE L!ReaderClose(s)
  <2>1. reader' \in [L!Sessions -> L!ReaderStates]
    BY <1>0, <1>6 DEF L!ReaderClose, L!ReaderStates
  <2> QED BY <1>6, <2>1 DEF L!ReaderClose, L!TypeOK, L!outVars, L!queueVars, L!shellVars
<1>7. CASE L!ReaderRestore(s) \/ L!ReaderRelease(s)
  <2>1. reader' \in [L!Sessions -> L!ReaderStates]
    BY <1>0, <1>7 DEF L!ReaderRestore, L!ReaderRelease, L!ReaderStates
  <2> QED BY <1>7, <2>1 DEF L!ReaderRestore, L!ReaderRelease, L!Restored, L!TypeOK,
        L!outVars, L!queueVars, L!shellVars
<1> QED BY <1>1, <1>2, <1>3, <1>4, <1>5, <1>6, <1>7, Zenon DEF L!ReaderNext

(* The steps of post_thread keep the types.                                *)
LEMMA PosterTypes ==
  ASSUME L!TypeOK, NEW s \in L!Sessions, L!PosterNext(s)
  PROVE  L!TypeOK'
<1>0. QueueLength \in Nat /\ ErrorLimit \in Nat
  BY LokiAssumption DEF L!LokiAssumption
<1>1. poster' \in [L!Sessions -> L!PosterStates]
  BY DEF L!PosterNext, L!PosterTest, L!PosterReceive, L!PosterOk, L!PosterError, L!PosterSay,
     L!PosterStates, L!TypeOK
<1>2. CASE L!PosterTest(s)
  BY <1>1, <1>2 DEF L!PosterTest, L!TypeOK, L!fdVars, L!outVars, L!queueVars, L!shellVars, L!readerVars
<1>3. CASE L!PosterReceive(s) \/ L!PosterOk(s) \/ L!PosterError(s)
  <2>1. loki_q \in 0 .. QueueLength /\ curl_err_count \in 0 .. ErrorLimit /\ loki_running \in BOOLEAN
    BY DEF L!TypeOK
  <2>2. \/ loki_q' = loki_q
        \/ loki_q > 0 /\ loki_q' = loki_q - 1
    BY <1>3 DEF L!PosterReceive, L!PosterOk, L!PosterError
  <2>3. \/ curl_err_count' \in {0, curl_err_count}
        \/ ~ (curl_err_count + 1 > ErrorLimit) /\ curl_err_count' = curl_err_count + 1
    BY <1>3 DEF L!PosterReceive, L!PosterOk, L!PosterError, L!TooMany
  <2>4. loki_running' \in BOOLEAN
    BY <1>3, <2>1 DEF L!PosterReceive, L!PosterOk, L!PosterError
  <2>5. UNCHANGED <<L!fdVars, L!outVars, L!shellVars, L!readerVars>>
    BY <1>3 DEF L!PosterReceive, L!PosterOk, L!PosterError, L!StdoutOnStop, L!fdVars
  <2> QED BY SMTT(30), <1>0, <1>1, <2>1, <2>2, <2>3, <2>4, <2>5
          DEF L!TypeOK, L!fdVars, L!outVars, L!shellVars, L!readerVars
<1>4. CASE L!PosterSay(s)
  <2>1. L!Say /\ UNCHANGED <<loki_running, L!fdVars, L!queueVars, L!shellVars, L!readerVars>>
    BY <1>4 DEF L!PosterSay, L!Wakes
  <2> QED BY <1>1, <2>1, SayTypes DEF L!TypeOK, L!fdVars, L!queueVars, L!shellVars, L!readerVars
<1> QED BY <1>2, <1>3, <1>4, Zenon DEF L!PosterNext

(* The steps of the shell keep the order and lose no line.                 *)
LEMMA ShellText ==
  ASSUME L!TypeOK, OneSession, LinesRise, NoneLost, ~overlap', L!ShellNext
  PROVE  OneSession' /\ LinesRise' /\ NoneLost'
<1>1. CASE L!PrintLine \/ L!Hook
  <2>1. /\ UNCHANGED <<loki_running, stdout, old_stdout, pipe_fd, shell, starts, reader, fd,
             readbuffer>>
        /\ L!Say \/ UNCHANGED <<pipe, screen, lines>>
    BY <1>1 DEF L!PrintLine, L!Hook, L!fdVars, L!outVars, L!shellVars, L!readerVars
  <2>2. OneSession' /\ Through' = Through /\ Opening' = Opening /\ Copies' = Copies
    BY <2>1, OthersControl
  <2>3. CASE L!Say
    BY <2>1, <2>2, <2>3, SayKeeps
  <2>4. CASE UNCHANGED <<pipe, screen, lines>>
    BY <2>1, <2>2, <2>4, TextStays
  <2> QED BY <2>1, <2>2, <2>3, <2>4
<1>2. CASE L!StartPipe \/ L!StartDup \/ L!StartDup2 \/ L!StartFails \/ L!StartThreads
  <2>1. /\ OneSession' /\ ~Copies /\ ~Copies'
        /\ Through' => starts' = starts /\ (Through \/ Opening)
        /\ Opening' => Opening \/ starts' = starts + 1
        /\ starts' \in {starts, starts + 1}
        /\ Through => Through'
    BY <1>2, StartControl
  <2>2. Copies' = Copies
    BY <2>1 DEF Copies
  <2>3. CASE UNCHANGED <<pipe, screen, lines>>
    BY <2>1, <2>2, <2>3, TextStays
  <2>4. CASE L!StartThreads /\ L!Say
    <3>1. shell = "running" /\ shell' = "idle" /\ starts' = starts /\ readbuffer' = readbuffer
      BY <2>4 DEF L!StartThreads, L!ShellAt
    <3>2. Through /\ ~Opening'
      BY <3>1 DEF Through, Opening
    <3>3. (Through' = Through) /\ (Opening' => Opening)
      BY <2>1, <3>2 DEF Through
    <3> QED BY <2>1, <2>2, <2>4, <3>1, <3>3, SayKeeps
  <2>5. UNCHANGED <<pipe, screen, lines>> \/ (L!StartThreads /\ L!Say)
    BY <1>2 DEF L!StartPipe, L!StartDup, L!StartDup2, L!StartFails, L!StartThreads, L!outVars
  <2> QED BY <2>3, <2>4, <2>5
<1> QED BY <1>1, <1>2 DEF L!ShellNext

(* Every step of the shell and of the two threads of a session keeps       *)
(* LokiInv, also one that begins a session while a reader of an earlier    *)
(* one lives.                                                              *)
LEMMA LokiStep ==
  ASSUME LokiInv, [L!Next]_L!vars
  PROVE  LokiInv'
<1>1. L!TypeOK'
  <2>1. CASE UNCHANGED L!vars
    BY <2>1 DEF LokiInv, L!TypeOK, L!vars, L!fdVars, L!outVars, L!queueVars, L!shellVars, L!readerVars
  <2> QED BY <2>1, ShellTypes, ReaderTypes, PosterTypes, Zenon DEF LokiInv, L!Next
<1>2. ASSUME ~overlap' PROVE OneSession' /\ LinesRise' /\ NoneLost'
  <2>1. ~overlap
    <3>1. CASE L!ShellNext
      BY <1>2, <3>1 DEF L!ShellNext, L!PrintLine, L!Hook, L!StartPipe, L!StartDup, L!StartDup2,
         L!StartFails, L!StartThreads, L!shellVars
    <3>2. ASSUME NEW s \in L!Sessions, L!ReaderNext(s) PROVE overlap' = overlap
      BY <3>2 DEF L!ReaderNext, L!ReaderTest, L!ReaderCall, L!ReaderRead, L!ReaderWrite, L!ReaderAdd,
         L!ReaderSend, L!ReaderClear, L!ReaderClose, L!ReaderRestore, L!ReaderRelease, L!shellVars
    <3>3. ASSUME NEW s \in L!Sessions, L!PosterNext(s) PROVE overlap' = overlap
      BY <3>3 DEF L!PosterNext, L!PosterTest, L!PosterReceive, L!PosterOk, L!PosterError, L!PosterSay,
         L!shellVars
    <3>4. CASE UNCHANGED L!vars
      BY <1>2, <3>4 DEF L!vars, L!shellVars
    <3> QED BY <1>2, <3>1, <3>2, <3>3, <3>4 DEF L!Next
  <2>2. L!TypeOK /\ OneSession /\ LinesRise /\ NoneLost
    BY <2>1 DEF LokiInv
  <2>3. ASSUME NEW s \in L!Sessions, L!ReaderNext(s)
        PROVE  OneSession' /\ LinesRise' /\ NoneLost'
    <3>1. OneSession'
      BY <2>2, <2>3, ReaderControl
    <3>2. LinesRise' /\ NoneLost'
      BY <2>2, <2>3, ReadKeeps, WriteKeeps, ReaderQuiet, Zenon DEF L!ReaderNext
    <3> QED BY <3>1, <3>2
  <2>4. ASSUME UNCHANGED <<stdout, old_stdout, pipe_fd, shell, starts, reader, fd, readbuffer>>,
               loki_running' => loki_running, UNCHANGED <<pipe, screen, lines>> \/ L!Say
        PROVE  OneSession' /\ LinesRise' /\ NoneLost'
    <3>1. OneSession' /\ Through' = Through /\ Opening' = Opening /\ Copies' = Copies
      BY <2>2, <2>4, OthersControl
    <3>2. starts' = starts /\ readbuffer' = readbuffer
      BY <2>4
    <3>3. CASE L!Say
      BY <2>2, <3>1, <3>2, <3>3, SayKeeps
    <3>4. CASE UNCHANGED <<pipe, screen, lines>>
      BY <2>2, <3>1, <3>2, <3>4, TextStays
    <3> QED BY <2>4, <3>1, <3>3, <3>4
  <2>5. ASSUME NEW s \in L!Sessions, L!PosterNext(s)
        PROVE  OneSession' /\ LinesRise' /\ NoneLost'
    BY <2>4, <2>5, PosterControl
  <2>6. CASE UNCHANGED L!vars
    BY <2>4, <2>6 DEF L!vars, L!fdVars, L!outVars, L!shellVars, L!readerVars
  <2>7. CASE L!ShellNext
    BY <1>2, <2>2, <2>7, ShellText
  <2> QED BY <2>3, <2>5, <2>6, <2>7 DEF L!Next
<1> QED BY <1>1, <1>2 DEF LokiInv

(* For every number of sessions, lines and messages (read_pipe,            *)
(* post_thread, loki start): while no session starts beside a reader that  *)
(* lives, the terminal shows the lines in the order of printing, and a     *)
(* line not shown is being copied or in a pipe.                            *)
THEOREM ConsoleInOrder == L!Spec => []InOrder
<1>1. L!Init => LokiInv
  <2> SUFFICES ASSUME L!Init PROVE LokiInv
    OBVIOUS
  <2>0. MaxStarts \in Nat /\ QueueLength \in Nat /\ ErrorLimit \in Nat
    BY LokiAssumption DEF L!LokiAssumption
  <2>1. << >> \in Seq(Nat) /\ Rising(<< >>) /\ Upto(<< >>, 0)
    BY DEF Rising, Upto
  <2>2. L!TypeOK
    <3>1. pipe \in [L!Sessions -> Seq(Nat)] /\ readbuffer \in Seq(Nat) /\ screen \in Seq(Nat)
      BY <2>1 DEF L!Init
    <3>2. /\ reader \in [L!Sessions -> L!ReaderStates] /\ poster \in [L!Sessions -> L!PosterStates]
          /\ fd \in [L!Sessions -> 0 .. MaxStarts]
      BY <2>0 DEF L!Init, L!ReaderStates, L!PosterStates
    <3>3. /\ loki_q \in 0 .. QueueLength /\ curl_err_count \in 0 .. ErrorLimit
          /\ pipe_fd \in 0 .. MaxStarts /\ starts \in 0 .. MaxStarts /\ lines \in Nat
      BY <2>0 DEF L!Init
    <3>4. /\ stdout = L!Tty /\ old_stdout = L!Closed /\ readable = {} /\ shell = "idle"
          /\ loki_running = FALSE /\ killed = FALSE /\ overlap = FALSE
      BY DEF L!Init
    <3> QED BY <3>1, <3>2, <3>3, <3>4 DEF L!TypeOK
  <2>3. ~Through /\ ~Opening /\ ~Copies
    BY DEF L!Init, Through, Opening, Copies, InLoop
  <2>4. OneSession
    BY <2>3 DEF L!Init, OneSession
  <2>5. LinesRise
    BY <2>1, <2>3 DEF L!Init, LinesRise
  <2>6. \A n : ~Somewhere(n) /\ n \notin 1 .. lines
    BY <2>3, Parts DEF L!Init, Somewhere
  <2> QED BY <2>2, <2>4, <2>5, <2>6 DEF LokiInv, NoneLost
<1>2. LokiInv => InOrder
  <2> SUFFICES ASSUME LokiInv, ~overlap
               PROVE  /\ \A i, j \in 1 .. Len(screen) : i < j => screen[i] < screen[j]
                      /\ 1 .. lines = L!Elements(screen) \cup L!Copying
                                        \cup UNION {L!Elements(pipe[k]) : k \in L!Sessions}
    BY DEF InOrder, L!InOrder, LokiInv
  <2>1. \A i, j \in 1 .. Len(screen) : i < j => screen[i] < screen[j]
    BY DEF LokiInv, LinesRise, Rising
  <2>2. \A n : n \in L!Copying <=> Copies /\ n \in L!Elements(readbuffer)
    BY DEF L!Copying, Copies
  <2>3. \A n : n \in UNION {L!Elements(pipe[k]) : k \in L!Sessions}
                 <=> \E k \in L!Sessions : n \in L!Elements(pipe[k])
    BY Zenon
  <2>4. \A n : n \in 1 .. lines <=> Somewhere(n)
    BY DEF LokiInv, NoneLost
  <2>5. \A n : n \in 1 .. lines <=>
               n \in L!Elements(screen) \cup L!Copying
                       \cup UNION {L!Elements(pipe[k]) : k \in L!Sessions}
    BY <2>2, <2>3, <2>4, Zenon DEF Somewhere
  <2>6. 1 .. lines = L!Elements(screen) \cup L!Copying
                       \cup UNION {L!Elements(pipe[k]) : k \in L!Sessions}
    BY <2>5, Zenon
  <2> QED BY <2>1, <2>6
<1>3. LokiInv /\ [L!Next]_L!vars => LokiInv'
  BY LokiStep
<1> QED BY <1>1, <1>2, <1>3, PTL DEF L!Spec

-----------------------------------------------------------------------------
(* The monitor of version 1 and the ring it reads.                         *)

(* Characters the node counts as read, and those the push under way claims. *)
Taken   == written - Unread
Claimed == IF pc = "push" THEN Taken + got ELSE Taken

LastShown == IF printed = << >> THEN 0 ELSE printed[Len(printed)]

(* The monitor is where the node is, and asks for no more than there is.   *)
Abreast ==
  /\ pc \in {"peek", "push"} => cached_out = out /\ (cached_in - out) % SIZE <= Unread
  /\ pc = "push" => got <= Unread

RingHolds == \A k \in 0 .. Unread - 1 : ring[(out + k) % SIZE] = Taken + k + 1

(* What is claimed was shown, and what is shown has no gap.                *)
Shown ==
  /\ \A c \in 1 .. Claimed : \E i \in DOMAIN printed : printed[i] = c
  /\ \A i \in DOMAIN printed :
       printed[i] <= (IF i = 1 THEN 0 ELSE printed[i - 1]) + 1 /\ printed[i] > 0
  /\ Claimed <= LastShown

Once == Len(printed) = Claimed /\ \A i \in DOMAIN printed : printed[i] = i

StdbufInv ==
  /\ TypeOK
  /\ pc = "peek" => got = 0
  /\ pc = "push" => cached_out + got <= SIZE
  /\ ~unpulled => Unread <= written /\ Abreast /\ RingHolds /\ Shown
  /\ ~(unpulled \/ unacked) => Once

(* Going round the ring.                                                   *)
LEMMA Wrap ==
  ASSUME NEW a \in 0 .. 2 * SIZE - 1
  PROVE  a % SIZE = (IF a < SIZE THEN a ELSE a - SIZE) /\ a % SIZE \in Cells
<1>1. SIZE \in Nat \ {0}
  BY StdbufAssumption
<1>2. CASE a < SIZE
  BY <1>1, <1>2 DEF Cells
<1>3. CASE a >= SIZE
  BY <1>1, <1>3 DEF Cells
<1> QED BY <1>1, <1>2, <1>3

(* An index of the ring is its own remainder: stdbuf_out and stdbuf_in     *)
(* need no further reduction.                                              *)
LEMMA InRing ==
  ASSUME NEW a \in Cells
  PROVE  a % SIZE = a
BY StdbufAssumption DEF Cells

(* The distance from one index of the ring to another is what has to be    *)
(* added to the first to come to the second.                               *)
LEMMA Gap ==
  ASSUME NEW a \in Cells, NEW b \in Cells
  PROVE  (a - b) % SIZE = (IF a >= b THEN a - b ELSE a - b + SIZE) /\ (a - b) % SIZE \in 0 .. SIZE - 1
<1>1. SIZE \in Nat \ {0} /\ a \in 0 .. SIZE - 1 /\ b \in 0 .. SIZE - 1
  BY StdbufAssumption DEF Cells
<1>2. CASE a >= b
  BY <1>1, <1>2
<1>3. CASE a < b
  BY <1>1, <1>3
<1> QED BY <1>1, <1>2, <1>3

(* Different places between stdbuf_out and stdbuf_in are different cells.  *)
LEMMA Apart ==
  ASSUME NEW o \in Cells, NEW k \in 0 .. SIZE - 1, NEW l \in 0 .. SIZE - 1
  PROVE  /\ (o + k) % SIZE \in Cells
         /\ (o + k) % SIZE = (o + l) % SIZE => k = l
         /\ k + l < SIZE => (((o + k) % SIZE) + l) % SIZE = (o + (k + l)) % SIZE
<1>1. SIZE \in Nat \ {0} /\ o \in 0 .. SIZE - 1
  BY StdbufAssumption DEF Cells
<1>2. /\ (o + k) % SIZE = (IF o + k < SIZE THEN o + k ELSE o + k - SIZE) /\ (o + k) % SIZE \in Cells
      /\ (o + l) % SIZE = (IF o + l < SIZE THEN o + l ELSE o + l - SIZE)
  BY <1>1, Wrap
<1>3. ASSUME k + l < SIZE
      PROVE  (((o + k) % SIZE) + l) % SIZE = (o + (k + l)) % SIZE
  <2>1. (o + (k + l)) % SIZE = IF o + (k + l) < SIZE THEN o + (k + l) ELSE o + (k + l) - SIZE
    BY <1>1, <1>3, Wrap
  <2>2. PICK c \in Cells : c = (o + k) % SIZE
    BY <1>2
  <2>3. (c + l) % SIZE = IF c + l < SIZE THEN c + l ELSE c + l - SIZE
    BY <1>1, <2>2, Wrap DEF Cells
  <2> QED BY <1>1, <1>2, <1>3, <2>1, <2>2, <2>3
<1> QED BY <1>1, <1>2, <1>3

(* Where stdbuf_in is, and what is free.                                   *)
LEMMA InIs ==
  ASSUME TypeOK
  PROVE  /\ Unread \in 0 .. SIZE - 1 /\ SIZE \in Nat \ {0}
         /\ (out + Unread) % SIZE = in
         /\ Unread < SIZE - 1 =>
              (in + 1) % SIZE \in Cells /\ (((in + 1) % SIZE) - out) % SIZE = Unread + 1
<1>1. SIZE \in Nat \ {0} /\ in \in 0 .. SIZE - 1 /\ out \in 0 .. SIZE - 1 /\ in \in Cells
        /\ out \in Cells
  BY StdbufAssumption DEF TypeOK, Cells
<1>2. PICK u \in 0 .. SIZE - 1 : u = Unread /\ u = IF in >= out THEN in - out ELSE in - out + SIZE
  BY <1>1, Gap DEF Unread
<1>3. (out + u) % SIZE = IF out + u < SIZE THEN out + u ELSE out + u - SIZE
  BY <1>1, Wrap
<1>4. ASSUME u < SIZE - 1
      PROVE  (in + 1) % SIZE \in Cells /\ (((in + 1) % SIZE) - out) % SIZE = u + 1
  <2>1. PICK c \in Cells : c = (in + 1) % SIZE /\ c = IF in + 1 < SIZE THEN in + 1 ELSE in + 1 - SIZE
    BY <1>1, <1>2, <1>4, Wrap
  <2>2. (c - out) % SIZE = IF c >= out THEN c - out ELSE c - out + SIZE
    BY <1>1, Gap
  <2> QED BY <1>1, <1>2, <1>4, <2>1, <2>2 DEF Cells
<1> QED BY <1>1, <1>2, <1>3, <1>4

(* The node writes a character.                                            *)
LEMMA NodeWrites ==
  ASSUME StdbufInv, Write
  PROVE  StdbufInv'
<1>0. /\ ring' = [ring EXCEPT ![in] = written + 1] /\ in' = (in + 1) % SIZE /\ written' = written + 1
      /\ written < MaxChars /\ Unread < SIZE - 1
      /\ UNCHANGED <<out, cached_in, cached_out, pc, got, printed, unpulled, unacked, losses, sessions>>
  BY DEF Write
<1>1. /\ TypeOK /\ ring \in [Cells -> 0 .. MaxChars] /\ in \in Cells /\ out \in Cells
      /\ written \in Nat /\ MaxChars \in Nat
  BY StdbufAssumption DEF StdbufInv, TypeOK
<1>2. /\ Unread \in 0 .. SIZE - 1 /\ SIZE \in Nat \ {0} /\ (out + Unread) % SIZE = in
      /\ in' \in Cells /\ Unread' = Unread + 1
  BY <1>0, <1>1, InIs DEF Unread
<1>3. Taken' = Taken /\ Claimed' = Claimed /\ LastShown' = LastShown
  BY <1>0, <1>1, <1>2 DEF Taken, Claimed, LastShown
<1>4. TypeOK'
  <2>1. ring' \in [Cells -> 0 .. MaxChars] /\ written' \in 0 .. MaxChars
    BY <1>0, <1>1
  <2> QED BY <1>0, <1>1, <1>2, <2>1 DEF TypeOK
<1>5. ASSUME Unread <= written, RingHolds PROVE RingHolds'
  <2> SUFFICES ASSUME NEW k \in 0 .. Unread
               PROVE  ring'[(out + k) % SIZE] = Taken + k + 1
    BY <1>0, <1>2, <1>3 DEF RingHolds
  <2>1. CASE k = Unread
    BY <1>0, <1>1, <1>2, <2>1 DEF Taken
  <2>2. CASE k < Unread
    <3>1. (out + k) % SIZE \in Cells /\ (out + k) % SIZE # in
      BY <1>1, <1>2, <2>2, Apart
    <3>2. ring[(out + k) % SIZE] = Taken + k + 1
      BY <1>2, <1>5, <2>2 DEF RingHolds
    <3> QED BY <1>0, <1>1, <3>1, <3>2
  <2> QED BY <1>2, <2>1, <2>2
<1>6. Abreast => Abreast'
  <2>1. (cached_in - out) % SIZE \in Nat
    BY <1>1, Gap DEF TypeOK
  <2>2. got \in Nat
    BY <1>1 DEF TypeOK
  <2> QED BY <1>0, <1>2, <2>1, <2>2 DEF Abreast
<1>7. (Shown => Shown') /\ (Once => Once')
  BY <1>0, <1>3 DEF Shown, Once
<1> QED BY <1>0, <1>1, <1>2, <1>4, <1>5, <1>6, <1>7 DEF StdbufInv

(* The monitor is started, waits or is left: nothing moves.                *)
LEMMA MonitorWaits ==
  ASSUME StdbufInv, stdbuf_v1 \/ WaitEnds \/ UserQuits \/ UNCHANGED vars
  PROVE  StdbufInv'
<1>0. /\ UNCHANGED <<ring, in, written, out, cached_in, cached_out, got, printed, unpulled, unacked,
           losses>>
      /\ \/ pc \in {"shell", "wait"} /\ pc' \in {"pull", "shell"}
         \/ pc' = pc
      /\ sessions' = sessions \/ (sessions < MaxSessions /\ sessions' = sessions + 1)
  BY DEF stdbuf_v1, WaitEnds, UserQuits, vars, nodeVars
<1>1. TypeOK'
  <2>1. sessions' \in 0 .. MaxSessions /\ pc' \in {"shell", "pull", "peek", "push", "wait"}
    BY <1>0, StdbufAssumption DEF StdbufInv, TypeOK
  <2> QED BY <1>0, <2>1 DEF StdbufInv, TypeOK
<1>2. Unread' = Unread /\ Taken' = Taken /\ Claimed' = Claimed /\ LastShown' = LastShown
  BY <1>0 DEF Unread, Taken, Claimed, LastShown
<1>3. (Abreast => Abreast') /\ (RingHolds => RingHolds') /\ (Shown => Shown') /\ (Once => Once')
  BY <1>0, <1>2 DEF Abreast, RingHolds, Shown, Once
<1> QED BY <1>0, <1>1, <1>2, <1>3 DEF StdbufInv

(* A pull: with the answer the monitor is abreast of the node.             *)
LEMMA MonitorPulls ==
  ASSUME StdbufInv, NEW answered \in BOOLEAN, param_pull_queue(answered)
  PROVE  StdbufInv'
<1>0. /\ pc = "pull" /\ pc' = "peek" /\ got' = 0 /\ unpulled' = (unpulled \/ ~answered)
      /\ UNCHANGED <<ring, in, written, out, printed, unacked, sessions>>
      /\ answered => cached_in' = in /\ cached_out' = out
      /\ ~answered => cached_in' = cached_in /\ cached_out' = cached_out
      /\ losses' = losses \/ (losses < MaxLosses /\ losses' = losses + 1)
  BY DEF param_pull_queue, nodeVars, Loses
<1>1. TypeOK'
  <2>1. losses' \in 0 .. MaxLosses
    BY <1>0, StdbufAssumption DEF StdbufInv, TypeOK
  <2>2. unpulled' \in BOOLEAN
    BY <1>0 DEF StdbufInv, TypeOK
  <2>3. cached_in' \in Cells /\ cached_out' \in Cells
    BY <1>0 DEF StdbufInv, TypeOK
  <2> QED BY <1>0, <2>1, <2>2, <2>3 DEF StdbufInv, TypeOK
<1>2. Unread' = Unread /\ Taken' = Taken /\ Claimed' = Claimed /\ LastShown' = LastShown
  BY <1>0 DEF Unread, Taken, Claimed, LastShown
<1>3. (RingHolds => RingHolds') /\ (Shown => Shown') /\ (Once => Once')
  BY <1>0, <1>2 DEF RingHolds, Shown, Once
<1>4. ~unpulled' => ~unpulled /\ answered
  BY <1>0
<1>5. answered => Abreast'
  <2>1. Unread \in Nat
    BY InIs DEF StdbufInv
  <2> QED BY <1>0, <1>2, <2>1 DEF Abreast, Unread
<1> QED BY <1>0, <1>1, <1>2, <1>3, <1>4, <1>5 DEF StdbufInv

(* The piece that is asked for does not go beyond the ring or the text.    *)
LEMMA PieceFits ==
  ASSUME TypeOK
  PROVE  /\ To - cached_out \in 0 .. (cached_in - cached_out) % SIZE
         /\ Piece(cached_out, To) \in 0 .. (cached_in - cached_out) % SIZE
         /\ cached_out + Piece(cached_out, To) <= SIZE
<1>1. /\ SIZE \in Nat \ {0} /\ Chunk \in Nat \ {0}
      /\ cached_in \in 0 .. SIZE - 1 /\ cached_out \in 0 .. SIZE - 1
  BY StdbufAssumption DEF TypeOK, Cells
<1>2. /\ (cached_in - cached_out) % SIZE = IF cached_in >= cached_out THEN cached_in - cached_out
                                           ELSE cached_in - cached_out + SIZE
  BY <1>1, Gap DEF Cells
<1>3. To = IF cached_out < cached_in THEN cached_in
           ELSE IF cached_out > cached_in THEN SIZE ELSE cached_out
  BY DEF To
<1>4. /\ To - cached_out \in 0 .. (cached_in - cached_out) % SIZE
      /\ To <= SIZE /\ To \in Nat
  BY <1>1, <1>2, <1>3
<1>5. Piece(cached_out, To) = IF To - cached_out > Chunk THEN Chunk ELSE To - cached_out
  BY DEF Piece
<1> HIDE DEF To
<1>6. Piece(cached_out, To) \in 0 .. To - cached_out
  BY <1>1, <1>4, <1>5
<1> QED BY <1>1, <1>2, <1>4, <1>6

(* No piece: the monitor goes on to the push.                              *)
LEMMA NothingThere ==
  ASSUME StdbufInv, NothingToGet
  PROVE  StdbufInv'
<1>0. /\ pc = "peek" /\ pc' = "push" /\ got = 0
      /\ UNCHANGED <<ring, in, written, out, cached_in, cached_out, got, printed, unpulled, unacked,
                     losses, sessions>>
  BY DEF NothingToGet, nodeVars, StdbufInv
<1>1. TypeOK' /\ written \in Nat /\ cached_out <= SIZE /\ cached_out \in Nat /\ Unread \in Nat
  BY SMTT(30), <1>0, InIs, StdbufAssumption DEF StdbufInv, TypeOK, Cells
<1>2. Unread' = Unread /\ Taken' = Taken /\ Claimed' = Claimed /\ LastShown' = LastShown
  BY <1>0, <1>1 DEF Unread, Taken, Claimed, LastShown
<1>3. (RingHolds => RingHolds') /\ (Shown => Shown') /\ (Once => Once') /\ (Abreast => Abreast')
  BY <1>0, <1>1, <1>2 DEF RingHolds, Shown, Once, Abreast
<1> QED BY <1>0, <1>1, <1>2, <1>3 DEF StdbufInv

(* The 16 bits of out_push are enough for the ring.                        *)
LEMMA PushIs ==
  ASSUME StdbufInv, pc = "push"
  PROVE  OutPush = (cached_out + got) % SIZE /\ OutPush \in Cells
<1>1. /\ SIZE \in Nat \ {0} /\ SIZE <= 65536 /\ cached_out \in 0 .. SIZE - 1 /\ got \in Nat
      /\ cached_out + got <= SIZE
  BY StdbufAssumption DEF StdbufInv, TypeOK, Cells
<1>2. PICK a \in 0 .. SIZE : a = cached_out + got
  BY <1>1
<1>3. a % SIZE = (IF a < SIZE THEN a ELSE a - SIZE) /\ a % SIZE \in Cells
  BY <1>1, Wrap
<1>4. CASE a < 65536
  <2>1. a % 65536 = a
    BY <1>4
  <2> QED BY <1>2, <1>3, <2>1 DEF OutPush
<1>5. CASE a = 65536
  <2>1. a % 65536 = 0
    BY <1>5
  <2>2. PICK b \in 0 .. SIZE : b = a % 65536 /\ b = 0
    BY <1>1, <2>1
  <2>3. OutPush = b % SIZE
    BY <1>2, <2>2 DEF OutPush
  <2>4. b % SIZE = 0
    BY <1>1, <2>2
  <2>5. a % SIZE = 0
    <3>1. ~ (a < SIZE) /\ a - SIZE = 0
      BY <1>1, <1>5
    <3> QED BY <1>3, <3>1
  <2>6. (cached_out + got) % SIZE = a % SIZE
    BY <1>2
  <2> QED BY <1>3, <2>3, <2>4, <2>5, <2>6
<1> QED BY <1>1, <1>2, <1>4, <1>5

(* The last character on the terminal.                                     *)
LEMMA LastIs ==
  ASSUME TypeOK
  PROVE  LastShown \in Int /\ (printed # << >> => LastShown = printed[Len(printed)])
<1>1. printed \in Seq(0 .. MaxChars) /\ MaxChars \in Nat
  BY StdbufAssumption DEF TypeOK
<1>2. CASE printed = << >>
  BY <1>2 DEF LastShown
<1>3. CASE printed # << >>
  <2>1. Len(printed) \in 1 .. Len(printed)
    BY <1>1, <1>3
  <2>2. printed[Len(printed)] \in 0 .. MaxChars
    BY <1>1, <2>1
  <2> QED BY <1>1, <1>3, <2>2 DEF LastShown
<1> QED BY <1>2, <1>3

(* The push: what was claimed is read, or, when it is lost, is not.        *)
LEMMA MonitorPushes ==
  ASSUME StdbufInv, NEW outcome \in PushOutcomes, param_push_single(outcome)
  PROVE  StdbufInv'
<1>0. /\ pc = "push" /\ pc' \in {"pull", "wait"} /\ unacked' = (unacked \/ outcome # "acked")
      /\ out' = IF outcome = "lost" THEN out ELSE OutPush
      /\ cached_out' = IF outcome = "acked" THEN OutPush ELSE cached_out
      /\ losses' = losses \/ (losses < MaxLosses /\ losses' = losses + 1)
      /\ UNCHANGED <<ring, in, written, cached_in, got, printed, unpulled, sessions>>
  BY DEF param_push_single, nodeVars, Loses
<1>1. OutPush = (cached_out + got) % SIZE /\ OutPush \in Cells
  BY <1>0, PushIs
<1>2. TypeOK'
  <2>1. losses' \in 0 .. MaxLosses
    BY <1>0, StdbufAssumption DEF StdbufInv, TypeOK
  <2>2. unacked' \in BOOLEAN
    BY <1>0 DEF StdbufInv, TypeOK
  <2>3. out' \in Cells /\ cached_out' \in Cells
    BY <1>0, <1>1 DEF StdbufInv, TypeOK
  <2> QED BY <1>0, <2>1, <2>2, <2>3 DEF StdbufInv, TypeOK
<1>3. /\ got \in Nat /\ written \in Nat /\ in \in Cells /\ out \in Cells /\ Unread \in 0 .. SIZE - 1
      /\ SIZE \in Nat \ {0} /\ (out + Unread) % SIZE = in
  BY InIs DEF StdbufInv, TypeOK
<1>4. Abreast'
  BY <1>0 DEF Abreast
<1>5. Claimed' = Taken' /\ LastShown' = LastShown
  BY <1>0 DEF Claimed, LastShown
<1>6. CASE outcome = "lost"
  <2>1. Unread' = Unread /\ Taken' = Taken
    BY <1>0, <1>6 DEF Unread, Taken
  <2>2. ASSUME Unread <= written, Shown PROVE Shown'
    <3>1. Taken' \in Nat /\ Claimed = Taken + got
      BY <1>0, <1>3, <2>1, <2>2 DEF Claimed, Taken
    <3>2. LastShown' >= Claimed'
      <4>1. Claimed <= LastShown /\ LastShown \in Int
        <5>1. LastShown \in Int
          BY LastIs DEF StdbufInv
        <5> QED BY <2>2, <5>1 DEF Shown
      <4> QED BY <1>3, <1>5, <2>1, <3>1, <4>1
    <3>3. \A c \in 1 .. Claimed' : c \in 1 .. Claimed
      BY <1>3, <1>5, <2>1, <3>1
    <3> QED BY <1>0, <2>2, <3>2, <3>3 DEF Shown
  <2>3. RingHolds => RingHolds'
    BY <1>0, <1>6, <2>1 DEF RingHolds
  <2> QED BY <1>0, <1>2, <1>4, <1>6, <2>1, <2>2, <2>3 DEF StdbufInv
<1>7. CASE outcome # "lost" /\ ~unpulled
  <2>1. /\ out' = (out + got) % SIZE /\ got <= Unread /\ Unread <= written
        /\ RingHolds /\ Shown
    BY <1>0, <1>1, <1>7 DEF StdbufInv, Abreast
  <2>2. Unread' = Unread - got
    <3>1. PICK u \in Nat : u = Unread /\ u < SIZE
            /\ in = IF out + u < SIZE THEN out + u ELSE out + u - SIZE
      <4>1. (out + Unread) % SIZE = IF out + Unread < SIZE THEN out + Unread ELSE out + Unread - SIZE
        BY SMTT(30), <1>3, Wrap DEF Cells
      <4> QED BY <1>3, <4>1
    <3>2. PICK o \in Cells : o = out' /\ o = IF out + got < SIZE THEN out + got ELSE out + got - SIZE
      <4>1. /\ (out + got) % SIZE = IF out + got < SIZE THEN out + got ELSE out + got - SIZE
            /\ (out + got) % SIZE \in Cells
        BY <1>3, <2>1, Wrap DEF Cells
      <4> QED BY <2>1, <4>1
    <3>3. (in - o) % SIZE = IF in >= o THEN in - o ELSE in - o + SIZE
      BY <1>3, Gap
    <3>4. Unread' = (in - o) % SIZE
      BY <1>0, <3>2 DEF Unread
    <3>5. /\ got <= u /\ got \in Nat /\ SIZE \in Nat \ {0}
          /\ in \in 0 .. SIZE - 1 /\ out \in 0 .. SIZE - 1 /\ o \in 0 .. SIZE - 1
      BY <1>3, <2>1, <3>1 DEF Cells
    <3>6. (IF in >= o THEN in - o ELSE in - o + SIZE) = u - got
      BY <3>1, <3>2, <3>5
    <3> QED BY <3>1, <3>3, <3>4, <3>6
  <2>3. Taken' = Taken + got /\ Unread' <= written'
    BY <1>0, <1>3, <2>1, <2>2 DEF Taken
  <2>4. RingHolds'
    <3> SUFFICES ASSUME NEW k \in 0 .. Unread - got - 1
                 PROVE  ring[(out' + k) % SIZE] = Taken + got + k + 1
      BY <1>0, <2>2, <2>3 DEF RingHolds
    <3>1. (out' + k) % SIZE = (out + (got + k)) % SIZE
      BY <1>3, <2>1, Apart
    <3>2. got + k \in 0 .. Unread - 1
      BY <1>3, <2>1
    <3>3. ring[(out + (got + k)) % SIZE] = Taken + (got + k) + 1
      BY <2>1, <3>2 DEF RingHolds
    <3>4. Taken \in Int
      BY <1>3 DEF Taken
    <3> QED BY <1>3, <3>1, <3>3, <3>4
  <2>5. Claimed' = Claimed
    BY <1>0, <1>5, <2>3 DEF Claimed
  <2>6. Shown' /\ (Once => Once')
    BY <1>0, <1>5, <2>1, <2>5 DEF Shown, Once
  <2> QED BY <1>0, <1>2, <1>4, <2>3, <2>4, <2>6 DEF StdbufInv
<1>8. CASE unpulled
  BY <1>0, <1>2, <1>8 DEF StdbufInv
<1> QED BY <1>6, <1>7, <1>8 DEF StdbufInv, TypeOK

(* A peek: the characters that follow those the node counts as read.       *)
LEMMA MonitorGets ==
  ASSUME StdbufInv, NEW answered \in BOOLEAN, stdbuf_get(answered)
  PROVE  StdbufInv'
<1> DEFINE len == Piece(cached_out, To)
           text == [i \in 1 .. len |-> ring[cached_out + i - 1]]
<1>0. /\ pc = "peek" /\ pc' = "push" /\ got = 0 /\ len > 0
      /\ losses' = losses \/ (losses < MaxLosses /\ losses' = losses + 1)
      /\ answered => got' = len /\ printed' = printed \o text
      /\ ~answered => got' = got /\ printed' = printed
      /\ UNCHANGED <<ring, in, written, out, cached_in, cached_out, unpulled, unacked, sessions>>
  BY DEF stdbuf_get, nodeVars, Loses, StdbufInv
<1>1. /\ TypeOK /\ printed \in Seq(0 .. MaxChars) /\ ring \in [Cells -> 0 .. MaxChars]
      /\ cached_out \in 0 .. SIZE - 1 /\ SIZE \in Nat \ {0} /\ written \in Nat
           /\ Unread \in 0 .. SIZE - 1
      /\ MaxChars \in Nat
  <2>1. TypeOK
    BY DEF StdbufInv
  <2>2. Unread \in 0 .. SIZE - 1 /\ SIZE \in Nat \ {0}
    BY <2>1, InIs
  <2> QED BY <2>1, <2>2, StdbufAssumption DEF TypeOK, Cells
<1>2. len \in 0 .. (cached_in - cached_out) % SIZE /\ cached_out + len <= SIZE
  BY <1>1, PieceFits
<1>3. (cached_in - cached_out) % SIZE \in 0 .. SIZE - 1
  BY <1>1, Gap DEF TypeOK
<1>4. len \in Nat /\ \A i \in 1 .. len : cached_out + i - 1 \in Cells
  BY <1>1, <1>2, <1>3 DEF Cells
<1> HIDE DEF len
<1>5. PICK F \in Seq(0 .. MaxChars) : F = text /\ Len(F) = len
                                      /\ \A i \in 1 .. len : F[i] = ring[cached_out + i - 1]
  <2>1. \A i \in 1 .. len : ring[cached_out + i - 1] \in 0 .. MaxChars
    BY <1>1, <1>4
  <2>2. /\ text \in Seq(0 .. MaxChars) /\ Len(text) = len
        /\ \A i \in 1 .. len : text[i] = ring[cached_out + i - 1]
    BY <1>4, <2>1
  <2> HIDE DEF text
  <2> QED BY <2>2
<1> HIDE DEF text
<1>6. got' \in Nat /\ cached_out' + got' <= SIZE /\ printed' \in Seq(0 .. MaxChars)
  <2>1. printed \o F \in Seq(0 .. MaxChars)
    BY <1>1, ConcatProperties
  <2>2. printed' \in Seq(0 .. MaxChars)
    BY <1>0, <1>1, <1>5, <2>1, Zenon
  <2>3. got' \in {0, len} /\ cached_out' = cached_out
    BY <1>0
  <2>4. CASE got' = 0
    BY <1>1, <2>2, <2>3, <2>4
  <2>5. CASE got' = len
    BY <1>1, <1>2, <1>4, <2>2, <2>3, <2>5
  <2> QED BY <2>3, <2>4, <2>5
<1>7. TypeOK'
  <2>1. losses' \in 0 .. MaxLosses
    BY <1>0, StdbufAssumption DEF StdbufInv, TypeOK
  <2> QED BY <1>0, <1>1, <1>6, <2>1 DEF TypeOK
<1>8. Unread' = Unread /\ Taken' = Taken /\ Claimed = Taken /\ Claimed' = Taken + got'
  BY <1>0 DEF Unread, Taken, Claimed
<1>9. RingHolds => RingHolds'
  BY <1>0, <1>8 DEF RingHolds
<1>10. CASE ~answered
  <2>1. Claimed' = Claimed /\ LastShown' = LastShown /\ printed' = printed /\ got' = 0
    BY <1>0, <1>1, <1>8, <1>10 DEF LastShown, Taken
  <2>2. Abreast => Abreast'
    BY <1>0, <1>1, <1>8, <2>1 DEF Abreast
  <2>3. (Shown => Shown') /\ (Once => Once')
    BY <2>1 DEF Shown, Once
  <2> QED BY <1>0, <1>6, <1>7, <1>8, <1>9, <2>2, <2>3 DEF StdbufInv
<1>11. CASE answered /\ unpulled
  BY <1>0, <1>6, <1>7, <1>11 DEF StdbufInv
<1>12. CASE answered /\ ~unpulled
  <2>1. /\ Unread <= written /\ Abreast /\ RingHolds /\ Shown /\ got' = len
        /\ cached_out = out /\ len <= Unread /\ Taken \in Nat
    <3>1. Unread <= written /\ Abreast /\ RingHolds /\ Shown
      BY <1>12 DEF StdbufInv
    <3>2. cached_out = out /\ (cached_in - cached_out) % SIZE <= Unread
      BY <1>0, <3>1 DEF Abreast
    <3>3. len <= Unread
      BY <1>1, <1>2, <1>3, <3>2
    <3>4. Taken \in Nat
      BY <1>1, <3>1 DEF Taken
    <3> QED BY <1>0, <1>12, <3>1, <3>2, <3>3, <3>4
  <2>2. Abreast'
    BY <1>0, <1>8, <2>1 DEF Abreast
  <2>3. ASSUME NEW i \in 1 .. len PROVE F[i] = Taken + i
    <3>1. i - 1 \in 0 .. Unread - 1 /\ out + (i - 1) = cached_out + i - 1
            /\ cached_out + i - 1 \in Cells
      BY <1>1, <1>4, <2>1
    <3>2. (out + (i - 1)) % SIZE = cached_out + i - 1
      <4>1. PICK c \in Cells : c = cached_out + i - 1 /\ c = out + (i - 1)
        BY <3>1
      <4>2. c % SIZE = c
        BY <4>1, InRing
      <4> QED BY <4>1, <4>2
    <3>3. ring[cached_out + i - 1] = Taken + (i - 1) + 1
      BY <2>1, <3>1, <3>2 DEF RingHolds
    <3> QED BY <1>5, <2>1, <3>3
  <2> DEFINE n == Len(printed)
  <2>4. PICK P \in Seq(0 .. MaxChars) :
          /\ P = printed' /\ Len(P) = n + len
          /\ \A i \in 1 .. n + len : P[i] = IF i <= n THEN printed[i] ELSE F[i - n]
    <3>1. /\ printed \o F \in Seq(0 .. MaxChars) /\ Len(printed \o F) = n + len
          /\ \A i \in 1 .. n + len : (printed \o F)[i] = IF i <= n THEN printed[i] ELSE F[i - n]
      BY <1>1, <1>5, ConcatProperties
    <3> QED BY <1>0, <1>5, <1>12, <3>1
  <2>5. n \in Nat /\ DOMAIN P = 1 .. n + len /\ DOMAIN printed = 1 .. n /\ len \in Nat /\ len > 0
    BY <1>0, <1>1, <1>4, <2>4
  <2> HIDE DEF n
  <2>6. /\ \A i \in 1 .. n : P[i] = printed[i]
        /\ \A i \in 1 .. len : n + i \in 1 .. n + len /\ P[n + i] = Taken + i
    <3>1. ASSUME NEW i \in 1 .. len PROVE n + i \in 1 .. n + len /\ P[n + i] = Taken + i
      <4>1. n + i \in 1 .. n + len /\ ~ (n + i <= n) /\ (n + i) - n = i
        BY <2>5
      <4>2. P[n + i] = F[i]
        BY <2>4, <4>1
      <4> QED BY <2>3, <4>1, <4>2
    <3> QED BY <2>4, <2>5, <3>1
  <2>7. \A i \in 1 .. n + len : i \in 1 .. n \/ (i - n \in 1 .. len /\ i = n + (i - n))
    BY <2>5
  <2>8. ASSUME NEW c \in 1 .. Taken + len PROVE \E i \in 1 .. n + len : P[i] = c
    <3>1. CASE c <= Taken
      <4>1. \E i \in 1 .. n : printed[i] = c
        BY <1>8, <2>1, <2>5, <3>1 DEF Shown
      <4> QED BY <2>5, <2>6, <4>1
    <3>2. CASE c > Taken
      <4>1. c - Taken \in 1 .. len /\ Taken + (c - Taken) = c
        BY <2>1, <2>5, <3>2
      <4> QED BY <2>6, <4>1
    <3> QED BY <2>1, <2>5, <3>1, <3>2
  <2>9. LastShown = (IF n = 0 THEN 0 ELSE printed[n]) /\ Taken <= LastShown
    <3>1. n = 0 <=> printed = << >>
      BY <1>1 DEF n
    <3> QED BY <1>8, <2>1, <3>1 DEF LastShown, Shown, n
  <2>10. ASSUME NEW i \in 1 .. n + len
         PROVE  P[i] <= (IF i = 1 THEN 0 ELSE P[i - 1]) + 1 /\ P[i] > 0
    <3>1. CASE i <= n
      <4>1. i \in 1 .. n /\ (i # 1 => i - 1 \in 1 .. n)
        BY <2>5, <3>1
      <4>2. printed[i] <= (IF i = 1 THEN 0 ELSE printed[i - 1]) + 1 /\ printed[i] > 0
        BY <2>1, <2>5, <4>1 DEF Shown
      <4> QED BY <2>6, <4>1, <4>2
    <3>2. CASE i = n + 1
      <4>1. P[i] = Taken + 1
        BY <2>5, <2>6, <3>2
      <4>2. (IF i = 1 THEN 0 ELSE P[i - 1]) = LastShown
        <5>1. CASE n = 0
          BY <2>9, <3>2, <5>1
        <5>2. CASE n # 0
          <6>1. i # 1 /\ i - 1 = n /\ n \in 1 .. n
            BY <2>5, <3>2, <5>2
          <6> QED BY <2>6, <2>9, <5>2, <6>1
        <5> QED BY <5>1, <5>2
      <4>3. LastShown \in Int
        BY <1>1, LastIs
      <4> QED BY <2>1, <2>9, <4>1, <4>2, <4>3
    <3>3. CASE i > n + 1
      <4>1. i - n \in 1 .. len /\ (i - 1) - n \in 1 .. len /\ i = n + (i - n)
            /\ i - 1 = n + ((i - 1) - n) /\ i # 1
        BY <2>5, <3>3
      <4>2. P[i] = Taken + (i - n) /\ P[i - 1] = Taken + ((i - 1) - n)
        BY <2>6, <4>1
      <4> QED BY <2>1, <2>5, <4>1, <4>2
    <3> QED BY <2>5, <3>1, <3>2, <3>3
  <2>11. LastShown' = Taken + len
    <3>1. printed' # << >> /\ Len(printed') = n + len
      BY <2>4, <2>5
    <3>2. LastShown' = P[n + len]
      BY <2>4, <3>1 DEF LastShown
    <3> QED BY <2>5, <2>6, <3>2
  <2>12. Claimed' = Taken + len
    BY <1>8, <2>1
  <2>13. Shown'
    <3>1. DOMAIN printed' = 1 .. n + len /\ Claimed' <= LastShown'
      BY <2>1, <2>4, <2>5, <2>11, <2>12
    <3>2. \A c \in 1 .. Claimed' : \E i \in DOMAIN printed' : printed'[i] = c
      BY <2>4, <2>8, <2>12, <3>1
    <3>3. \A i \in DOMAIN printed' :
            printed'[i] <= (IF i = 1 THEN 0 ELSE printed'[i - 1]) + 1 /\ printed'[i] > 0
      BY <2>4, <2>10, <3>1
    <3> QED BY <3>1, <3>2, <3>3 DEF Shown
  <2>14. ASSUME Once PROVE Once'
    <3>1. n = Taken /\ \A i \in 1 .. n : printed[i] = i
      BY <1>8, <2>5, <2>14 DEF Once, n
    <3>2. \A i \in 1 .. n + len : P[i] = i
      BY <2>5, <2>6, <2>7, <3>1
    <3> QED BY <2>4, <2>5, <2>12, <3>1, <3>2 DEF Once
  <2> QED BY <1>0, <1>6, <1>7, <1>8, <1>9, <2>1, <2>2, <2>13, <2>14 DEF StdbufInv
<1> QED BY <1>10, <1>11, <1>12

(* StdbufInv holds in every state of stdbuf_mon and of the node it reads   *)
(* from, whatever requests are lost.                                       *)
LEMMA StdbufAlways == Spec => []StdbufInv
<1>1. Init => StdbufInv
  <2> SUFFICES ASSUME Init PROVE StdbufInv
    OBVIOUS
  <2>1. TypeOK
    <3>1. 0 \in Cells /\ 0 \in 0 .. MaxChars /\ 0 \in 0 .. MaxLosses /\ 0 \in 0 .. MaxSessions
      BY StdbufAssumption DEF Cells
    <3>2. ring \in [Cells -> 0 .. MaxChars] /\ printed \in Seq(0 .. MaxChars)
      BY <3>1 DEF Init
    <3>3. in \in Cells /\ out \in Cells /\ cached_in \in Cells /\ cached_out \in Cells
      BY <3>1 DEF Init
    <3> QED BY <3>1, <3>2, <3>3 DEF Init, TypeOK
  <2>2. Unread = 0
    BY Gap DEF Init, Unread, Cells
  <2>3. Taken = 0 /\ Claimed = 0 /\ LastShown = 0 /\ printed = << >> /\ pc = "shell"
    BY <2>2 DEF Init, Taken, Claimed, LastShown
  <2>4. RingHolds /\ Abreast
    BY <2>2, <2>3 DEF RingHolds, Abreast
  <2>5. Shown /\ Once
    BY <2>3 DEF Shown, Once
  <2> QED BY <2>1, <2>2, <2>3, <2>4, <2>5 DEF Init, StdbufInv
<1>2. StdbufInv /\ [Next]_vars => StdbufInv'
  BY NodeWrites, MonitorWaits, MonitorPulls, MonitorGets, NothingThere, MonitorPushes, Zenon
     DEF Next, Loop
<1> QED BY <1>1, <1>2, PTL DEF Spec

(* For every ring and chunk, every number of lost requests and sessions    *)
(* (stdbuf_get_base, stdbuf_get): while the pulls are answered, no text    *)
(* leaves the ring before it was printed, whatever happens to the pushes.  *)
THEOREM ConsoleUnreadIntact == Spec => []UnreadIntact
<1>1. StdbufInv => UnreadIntact
  <2> SUFFICES ASSUME StdbufInv, ~unpulled
               PROVE  /\ \A k \in 0 .. Unread - 1 :
                           ring[(out + k) % SIZE] = written - Unread + k + 1
                      /\ \A c \in 1 .. written - Unread : \E i \in DOMAIN printed : printed[i] = c
    BY DEF StdbufInv, UnreadIntact
  <2>1. RingHolds /\ Shown /\ Unread \in Nat /\ written \in Nat /\ got \in Nat
    BY InIs DEF StdbufInv, TypeOK
  <2>2. \A c \in 1 .. Taken : c \in 1 .. Claimed
    BY <2>1 DEF Claimed, Taken
  <2> QED BY <2>1, <2>2 DEF RingHolds, Shown, Taken
<1> QED BY <1>1, StdbufAlways, PTL

(* The text on the terminal has no gap while the pulls are answered, and   *)
(* no repetition while the pushes are.                                     *)
THEOREM ConsoleShownInOrder == Spec => []ShownInOrder
<1>1. StdbufInv => ShownInOrder
  BY DEF StdbufInv, Shown, Once, ShownInOrder
<1> QED BY <1>1, StdbufAlways, PTL
=============================================================================
