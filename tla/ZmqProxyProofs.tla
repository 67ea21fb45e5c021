--------------------------- MODULE ZmqProxyProofs ---------------------------
(* Theorems about the ZMQ proxy, for every capacity of the delay queue,    *)
(* every delay and any number of packets.                                  *)
EXTENDS ZmqProxy, TLAPS, SequenceTheorems, FiniteSetTheorems

Msg == [packet : Nat, at : Nat, hdx : BOOLEAN]

(* The types of the variables of which Accounted needs less.               *)
DataOK ==
  /\ main \in [pc : Holding \cup {"poll", "backend"}, backend : BOOLEAN]
  /\ subscription \in BOOLEAN
  /\ sender \in [pc : {"front", "scan", "held", "stamp", "powered"}, left : Nat, dmsg : Msg]
  /\ delayed \in Seq(Msg)
  /\ hdx_last_tx_ms \in Nat /\ hdx_powerup_start_ms \in Nat
  /\ out \in Seq(Nat) /\ dropped \subseteq Nat \X {"receiver_off", "queue_full", "lost"}
  /\ capture \in [pending : Seq(Nat), logged : Seq(Nat), skipped : BOOLEAN]

(* The places a packet can be in.                                          *)
Hand(p) == main.pc \in Holding /\ p = taken
Held(p) == sender.pc = "held" /\ sender.dmsg.packet = p
Queued(p) == \E i \in DOMAIN delayed : delayed[i].packet = p
Sent(p) == \E i \in DOMAIN out : out[i] = p
Gone(p) == \E d \in dropped : d[1] = p

Places == {"hand", "held", "queue", "sent", "gone"}

In(x, p) ==
  \/ x = "hand" /\ Hand(p)
  \/ x = "held" /\ Held(p)
  \/ x = "queue" /\ Queued(p)
  \/ x = "sent" /\ Sent(p)
  \/ x = "gone" /\ Gone(p)

QueueOnce == \A i, j \in DOMAIN delayed : delayed[i].packet = delayed[j].packet => i = j
SentOnce == \A i, j \in DOMAIN out : out[i] = out[j] => i = j
GoneOnce == \A d, e \in dropped : d[1] = e[1] => d = e

(* Only packets that were received are anywhere, ...                       *)
Known == \A x \in Places : \A p \in Nat : In(x, p) => p \in 1 .. taken

(* ... every one of them is in one place, ...                              *)
OnePlace == \A p \in 1 .. taken : \E x \in Places : \A y \in Places : In(y, p) <=> y = x

(* ... and a round of the delay thread ends before the queue does.         *)
RoundInv ==
  /\ sender.pc = "scan" => sender.left \in 1 .. Len(delayed)
  /\ sender.pc = "held" => sender.left \in 1 .. Len(delayed) + 1

AccountInv ==
  /\ TypeOK /\ DataOK /\ RoundInv
  /\ QueueOnce /\ SentOnce /\ GoneOnce /\ Known /\ OnePlace

-----------------------------------------------------------------------------
(* What moving a packet does to the places.                                *)

(* csp_queue_enqueue with room: the packet is queued, and nothing else     *)
(* changes places.                                                         *)
LEMMA QueuePut ==
  ASSUME DataOK, QueueOnce, NEW d \in Msg, ~Queued(d.packet), delayed' = Append(delayed, d)
  PROVE  /\ delayed' \in Seq(Msg) /\ Len(delayed') = Len(delayed) + 1 /\ QueueOnce'
         /\ \A q \in Nat : Queued(q)' <=> Queued(q) \/ q = d.packet
<1>1. /\ delayed' \in Seq(Msg) /\ Len(delayed) \in Nat /\ DOMAIN delayed = 1 .. Len(delayed)
      /\ Len(delayed') = Len(delayed) + 1 /\ DOMAIN delayed' = 1 .. Len(delayed) + 1
      /\ delayed'[Len(delayed) + 1] = d
      /\ \A i \in 1 .. Len(delayed) : delayed'[i] = delayed[i]
  BY AppendProperties DEF DataOK
<1>2. QueueOnce'
  <2> SUFFICES ASSUME NEW i \in DOMAIN delayed', NEW j \in DOMAIN delayed',
                      delayed'[i].packet = delayed'[j].packet
               PROVE  i = j
    BY Zenon DEF QueueOnce
  <2>1. \A k \in 1 .. Len(delayed) : delayed'[k].packet # d.packet
    BY <1>1 DEF Queued
  <2>2. CASE i \in 1 .. Len(delayed) /\ j \in 1 .. Len(delayed)
    BY <1>1, <2>2, Zenon DEF QueueOnce
  <2> QED BY <1>1, <2>1, <2>2
<1>3. ASSUME NEW q \in Nat PROVE Queued(q)' <=> Queued(q) \/ q = d.packet
  <2>1. ASSUME NEW i \in DOMAIN delayed', delayed'[i].packet = q PROVE Queued(q) \/ q = d.packet
    BY <1>1, <2>1 DEF Queued
  <2>2. ASSUME NEW i \in DOMAIN delayed, delayed[i].packet = q
        PROVE  \E k \in DOMAIN delayed' : delayed'[k].packet = q
    BY <1>1, <2>2
  <2>3. ASSUME q = d.packet PROVE \E k \in DOMAIN delayed' : delayed'[k].packet = q
    <3>1. Len(delayed) + 1 \in DOMAIN delayed'
      BY <1>1
    <3> QED BY <1>1, <2>3, <3>1
  <2> QED BY <2>1, <2>2, <2>3, Zenon DEF Queued
<1> QED BY <1>1, <1>2, <1>3

(* The delay thread takes the first packet out of the queue.               *)
LEMMA QueueTake ==
  ASSUME DataOK, QueueOnce, Len(delayed) > 0, delayed' = Tail(delayed)
  PROVE  /\ delayed' \in Seq(Msg) /\ Len(delayed') = Len(delayed) - 1 /\ QueueOnce'
         /\ Head(delayed) \in Msg /\ Queued(Head(delayed).packet)
         /\ \A q \in Nat : Queued(q)' <=> Queued(q) /\ q # Head(delayed).packet
<1>1. /\ delayed' \in Seq(Msg) /\ Len(delayed) \in Nat /\ DOMAIN delayed = 1 .. Len(delayed)
      /\ Len(delayed') = Len(delayed) - 1 /\ DOMAIN delayed' = 1 .. Len(delayed) - 1
      /\ \A i \in 1 .. Len(delayed) - 1 : delayed'[i] = delayed[i + 1]
      /\ Head(delayed) = delayed[1] /\ 1 \in DOMAIN delayed /\ Head(delayed) \in Msg
  BY HeadTailProperties DEF DataOK
<1>2. QueueOnce'
  <2> SUFFICES ASSUME NEW i \in DOMAIN delayed', NEW j \in DOMAIN delayed',
                      delayed'[i].packet = delayed'[j].packet
               PROVE  i = j
    BY Zenon DEF QueueOnce
  <2>1. i \in Nat /\ j \in Nat /\ i + 1 \in DOMAIN delayed /\ j + 1 \in DOMAIN delayed
    BY <1>1
  <2>2. delayed[i + 1].packet = delayed[j + 1].packet
    BY <1>1
  <2>3. i + 1 = j + 1
    BY <2>1, <2>2, Zenon DEF QueueOnce
  <2> QED BY <2>1, <2>3
<1>3. ASSUME NEW q \in Nat PROVE Queued(q)' <=> Queued(q) /\ q # Head(delayed).packet
  <2>1. ASSUME NEW i \in DOMAIN delayed', delayed'[i].packet = q
        PROVE  Queued(q) /\ q # Head(delayed).packet
    <3>1. i + 1 \in DOMAIN delayed /\ delayed[i + 1].packet = q /\ i + 1 # 1
      BY <1>1, <2>1
    <3> QED BY <1>1, <3>1, Zenon DEF Queued, QueueOnce
  <2>2. ASSUME NEW i \in DOMAIN delayed, delayed[i].packet = q, q # Head(delayed).packet
        PROVE  \E k \in DOMAIN delayed' : delayed'[k].packet = q
    <3>1. i - 1 \in DOMAIN delayed' /\ delayed'[i - 1].packet = q
      BY <1>1, <2>2
    <3> QED BY <3>1
  <2> QED BY <2>1, <2>2, Zenon DEF Queued
<1> QED BY <1>1, <1>2, <1>3, Zenon DEF Queued

(* zmq_msg_send puts a packet behind those sent before.                    *)
LEMMA OutPut ==
  ASSUME DataOK, SentOnce, NEW p \in Nat, ~Sent(p), out' = Append(out, p)
  PROVE  /\ out' \in Seq(Nat) /\ SentOnce'
         /\ \A q \in Nat : Sent(q)' <=> Sent(q) \/ q = p
<1>1. /\ out' \in Seq(Nat) /\ Len(out) \in Nat /\ DOMAIN out = 1 .. Len(out)
      /\ DOMAIN out' = 1 .. Len(out) + 1
      /\ out'[Len(out) + 1] = p /\ \A i \in 1 .. Len(out) : out'[i] = out[i]
  BY AppendProperties DEF DataOK
<1>2. SentOnce'
  <2> SUFFICES ASSUME NEW i \in DOMAIN out', NEW j \in DOMAIN out', out'[i] = out'[j] PROVE i = j
    BY Zenon DEF SentOnce
  <2>1. \A k \in 1 .. Len(out) : out'[k] # p
    BY <1>1 DEF Sent
  <2>2. CASE i \in 1 .. Len(out) /\ j \in 1 .. Len(out)
    BY <1>1, <2>2, Zenon DEF SentOnce
  <2> QED BY <1>1, <2>1, <2>2
<1>3. ASSUME NEW q \in Nat PROVE Sent(q)' <=> Sent(q) \/ q = p
  <2>1. Len(out) + 1 \in DOMAIN out'
    BY <1>1
  <2> QED BY <1>1, <2>1 DEF Sent
<1> QED BY <1>1, <1>2, <1>3

(* A packet is given up.                                                   *)
LEMMA Drop ==
  ASSUME DataOK, GoneOnce, NEW p \in Nat, ~Gone(p),
         NEW r \in {"receiver_off", "queue_full", "lost"}, dropped' = dropped \cup {<<p, r>>}
  PROVE  /\ dropped' \subseteq Nat \X {"receiver_off", "queue_full", "lost"} /\ GoneOnce'
         /\ \A q \in Nat : Gone(q)' <=> Gone(q) \/ q = p
<1>1. dropped' \subseteq Nat \X {"receiver_off", "queue_full", "lost"}
  BY DEF DataOK
<1>2. GoneOnce'
  BY DEF GoneOnce, Gone
<1>3. ASSUME NEW q \in Nat PROVE Gone(q)' <=> Gone(q) \/ q = p
  <2>1. <<p, r>>[1] = p
    OBVIOUS
  <2> QED BY <2>1, Zenon DEF Gone
<1> QED BY <1>1, <1>2, <1>3

(* A packet moves to place x, and the others stay where they are.          *)
Moves(p, x) ==
  \A q \in Nat : /\ Hand(q)' <=> IF q = p THEN x = "hand" ELSE Hand(q)
                 /\ Held(q)' <=> IF q = p THEN x = "held" ELSE Held(q)
                 /\ Queued(q)' <=> IF q = p THEN x = "queue" ELSE Queued(q)
                 /\ Sent(q)' <=> IF q = p THEN x = "sent" ELSE Sent(q)
                 /\ Gone(q)' <=> IF q = p THEN x = "gone" ELSE Gone(q)

Stays ==
  \A q \in Nat : /\ Hand(q)' <=> Hand(q)
                 /\ Held(q)' <=> Held(q)
                 /\ Queued(q)' <=> Queued(q)
                 /\ Sent(q)' <=> Sent(q)
                 /\ Gone(q)' <=> Gone(q)

(* So every packet is still in one place.                                  *)
LEMMA Moved ==
  ASSUME TypeOK, Known, OnePlace, kind' = kind, NEW p \in 1 .. taken, NEW x \in Places, Moves(p, x)
  PROVE  Known' /\ OnePlace'
<1>1. taken \in Nat /\ taken' = taken /\ 1 .. taken \subseteq Nat
  BY DEF TypeOK, taken
<1>2. \A q \in Nat : \A y \in Places : In(y, q)' <=> IF q = p THEN y = x ELSE In(y, q)
  BY DEF Moves, In, Places
<1>3. Known'
  BY <1>1, <1>2, Zenon DEF Known
<1>4. OnePlace'
  BY <1>1, <1>2, Zenon DEF OnePlace
<1> QED BY <1>3, <1>4

(* Nothing changes places: a step that only moves a thread on.             *)
LEMMA Stayed ==
  ASSUME TypeOK, Known, OnePlace, kind' = kind, Stays
  PROVE  Known' /\ OnePlace'
<1>1. taken \in Nat /\ taken' = taken /\ 1 .. taken \subseteq Nat
  BY DEF TypeOK, taken
<1>2. \A q \in Nat : \A y \in Places : In(y, q)' <=> In(y, q)
  BY Zenon DEF Stays, In
<1> QED BY <1>1, <1>2, Zenon DEF Known, OnePlace

(* A packet that is in one place is in no other.                           *)
LEMMA NowhereElse ==
  ASSUME Known, OnePlace, NEW p \in Nat, NEW x \in Places, In(x, p)
  PROVE  /\ p \in 1 .. taken
         /\ Hand(p) <=> x = "hand"
         /\ Held(p) <=> x = "held"
         /\ Queued(p) <=> x = "queue"
         /\ Sent(p) <=> x = "sent"
         /\ Gone(p) <=> x = "gone"
<1>1. p \in 1 .. taken
  BY Zenon DEF Known
<1>2. \A y \in Places : In(y, p) <=> y = x
  BY <1>1, Zenon DEF OnePlace
<1> QED BY <1>1, <1>2 DEF In, Places

(* csp_queue_enqueue, whose result is ignored: a packet that was nowhere   *)
(* but in the hands of a thread is queued or given up.                     *)
LEMMA EnqueueMoves ==
  ASSUME ProxyAssumption, TypeOK, DataOK, QueueOnce, GoneOnce, NEW d \in Msg, Enqueue(d),
         ~Queued(d.packet), ~Gone(d.packet)
  PROVE  /\ delayed' \in Seq(Msg) /\ Len(delayed') <= QueueCap /\ QueueOnce'
         /\ Len(delayed') \in Nat /\ Len(delayed') >= Len(delayed)
         /\ Len(delayed) < QueueCap => Len(delayed') = Len(delayed) + 1
         /\ dropped' \subseteq Nat \X {"receiver_off", "queue_full", "lost"} /\ GoneOnce'
         /\ \/ \A q \in Nat : /\ Queued(q)' <=> Queued(q) \/ q = d.packet
                              /\ Gone(q)' <=> Gone(q)
            \/ \A q \in Nat : /\ Queued(q)' <=> Queued(q)
                              /\ Gone(q)' <=> Gone(q) \/ q = d.packet
<1>0. d.packet \in Nat /\ Len(delayed) \in Nat /\ Len(delayed) <= QueueCap /\ QueueCap \in Nat
  BY ProxyAssumption DEF Msg, DataOK, TypeOK
<1>1. CASE Len(delayed) < QueueCap
  <2>1. delayed' = Append(delayed, d) /\ dropped' = dropped
    BY <1>1, Zenon DEF Enqueue
  <2>2. /\ delayed' \in Seq(Msg) /\ Len(delayed') = Len(delayed) + 1 /\ QueueOnce'
        /\ \A q \in Nat : Queued(q)' <=> Queued(q) \/ q = d.packet
    BY <2>1, QueuePut, Zenon
  <2>3. /\ dropped' \subseteq Nat \X {"receiver_off", "queue_full", "lost"} /\ GoneOnce'
        /\ \A q \in Nat : Gone(q)' <=> Gone(q)
    BY <2>1, Zenon DEF GoneOnce, Gone, DataOK
  <2> QED BY <1>0, <1>1, <2>2, <2>3
<1>2. CASE ~(Len(delayed) < QueueCap)
  <2>1. delayed' = delayed /\ dropped' = dropped \cup {<<d.packet, "queue_full">>}
    BY <1>2, Zenon DEF Enqueue
  <2>2. /\ dropped' \subseteq Nat \X {"receiver_off", "queue_full", "lost"} /\ GoneOnce'
        /\ \A q \in Nat : Gone(q)' <=> Gone(q) \/ q = d.packet
    BY <1>0, <2>1, Drop
  <2>3. /\ delayed' \in Seq(Msg) /\ QueueOnce' /\ Len(delayed') = Len(delayed)
        /\ \A q \in Nat : Queued(q)' <=> Queued(q)
    BY <2>1, Zenon DEF QueueOnce, Queued, DataOK
  <2> QED BY <1>0, <1>2, <2>2, <2>3
<1> QED BY <1>1, <1>2

-----------------------------------------------------------------------------
(* The steps of the main loop.                                             *)

(* The main loop goes to another place in its iteration.                   *)
LEMMA MainMoves ==
  ASSUME DataOK, NEW l \in Holding \cup {"poll", "backend"}, MainTo(l)
  PROVE  /\ main' \in [pc : Holding \cup {"poll", "backend"}, backend : BOOLEAN]
         /\ main'.pc = l /\ main'.pc \in Holding \cup {"poll", "backend"}
         /\ main'.backend \in BOOLEAN
BY DEF MainTo, DataOK

(* Holding packet `taken`, it is in nobody else's hands.                   *)
LEMMA InHand ==
  ASSUME AccountInv, main.pc \in Holding
  PROVE  /\ taken \in 1 .. taken /\ taken \in Nat
         /\ ~Held(taken) /\ ~Queued(taken) /\ ~Sent(taken) /\ ~Gone(taken)
<1>1. taken \in Nat
  BY DEF AccountInv, TypeOK, taken
<1>2. In("hand", taken) /\ "hand" \in Places
  BY DEF In, Hand, Places
<1>3. /\ taken \in 1 .. taken
      /\ Held(taken) <=> "hand" = "held"
      /\ Queued(taken) <=> "hand" = "queue"
      /\ Sent(taken) <=> "hand" = "sent"
      /\ Gone(taken) <=> "hand" = "gone"
  BY <1>1, <1>2, NowhereElse, Zenon DEF AccountInv
<1> QED BY <1>1, <1>3

(* The loop goes on without the packet changing places.                    *)
LEMMA MainStays ==
  ASSUME AccountInv, UNCHANGED <<kind, delayed, sender, out, dropped>>,
         main'.pc \in Holding <=> main.pc \in Holding
  PROVE  Known' /\ OnePlace' /\ QueueOnce' /\ SentOnce' /\ GoneOnce' /\ RoundInv'
<1>1. Stays
  BY DEF Stays, Hand, Held, Queued, Sent, Gone, taken
<1>2. Known' /\ OnePlace'
  BY <1>1, Stayed, Zenon DEF AccountInv
<1>3. QueueOnce' /\ SentOnce' /\ GoneOnce' /\ RoundInv'
  BY DEF AccountInv, QueueOnce, SentOnce, GoneOnce, RoundInv
<1> QED BY <1>2, <1>3

(* The packet in hand leaves it for the queue or is given up there.        *)
LEMMA MainEnqueues ==
  ASSUME AccountInv, main.pc \in Holding, NEW d \in Msg, d.packet = taken, Enqueue(d),
         main'.pc = "poll", UNCHANGED <<kind, sender, out>>
  PROVE  /\ Known' /\ OnePlace' /\ QueueOnce' /\ SentOnce' /\ GoneOnce' /\ RoundInv'
         /\ delayed' \in Seq(Msg) /\ Len(delayed') <= QueueCap
         /\ dropped' \subseteq Nat \X {"receiver_off", "queue_full", "lost"}
<1>1. /\ taken \in 1 .. taken /\ taken \in Nat
      /\ ~Held(taken) /\ ~Queued(taken) /\ ~Sent(taken) /\ ~Gone(taken)
  BY InHand
<1>2. /\ delayed' \in Seq(Msg) /\ Len(delayed') <= QueueCap /\ QueueOnce'
      /\ Len(delayed') \in Nat /\ Len(delayed') >= Len(delayed)
      /\ dropped' \subseteq Nat \X {"receiver_off", "queue_full", "lost"} /\ GoneOnce'
      /\ \/ \A q \in Nat : /\ Queued(q)' <=> Queued(q) \/ q = taken
                           /\ Gone(q)' <=> Gone(q)
         \/ \A q \in Nat : /\ Queued(q)' <=> Queued(q)
                           /\ Gone(q)' <=> Gone(q) \/ q = taken
  BY <1>1, EnqueueMoves, ProxyAssumption, Zenon DEF AccountInv
<1>3. \A q \in Nat : /\ Hand(q)' <=> FALSE
                     /\ Hand(q) <=> q = taken
                     /\ Held(q)' <=> Held(q)
                     /\ Sent(q)' <=> Sent(q)
  BY DEF Hand, Held, Sent, Holding
<1>4. CASE \A q \in Nat : /\ Queued(q)' <=> Queued(q) \/ q = taken
                          /\ Gone(q)' <=> Gone(q)
  <2>1. Moves(taken, "queue") /\ "queue" \in Places
    BY <1>1, <1>3, <1>4 DEF Moves, Places
  <2>2. Known' /\ OnePlace'
    BY <1>1, <2>1, Moved, Zenon DEF AccountInv
  <2> QED BY <1>2, <2>2 DEF AccountInv, SentOnce, RoundInv, DataOK
<1>5. CASE \A q \in Nat : /\ Queued(q)' <=> Queued(q)
                          /\ Gone(q)' <=> Gone(q) \/ q = taken
  <2>1. Moves(taken, "gone") /\ "gone" \in Places
    BY <1>1, <1>3, <1>5 DEF Moves, Places
  <2>2. Known' /\ OnePlace'
    BY <1>1, <2>1, Moved, Zenon DEF AccountInv
  <2> QED BY <1>2, <2>2 DEF AccountInv, SentOnce, RoundInv, DataOK
<1> QED BY <1>2, <1>4, <1>5

(* It is given up at once: lost, or for a node that is transmitting.       *)
LEMMA MainDrops ==
  ASSUME AccountInv, main.pc \in Holding, NEW r \in {"receiver_off", "queue_full", "lost"},
         dropped' = dropped \cup {<<taken, r>>},
         main'.pc \notin Holding, UNCHANGED <<kind, delayed, sender, out>>
  PROVE  /\ Known' /\ OnePlace' /\ QueueOnce' /\ SentOnce' /\ GoneOnce' /\ RoundInv'
         /\ dropped' \subseteq Nat \X {"receiver_off", "queue_full", "lost"}
<1>1. /\ taken \in 1 .. taken /\ taken \in Nat
      /\ ~Held(taken) /\ ~Queued(taken) /\ ~Sent(taken) /\ ~Gone(taken)
  BY InHand
<1>2. /\ dropped' \subseteq Nat \X {"receiver_off", "queue_full", "lost"} /\ GoneOnce'
      /\ \A q \in Nat : Gone(q)' <=> Gone(q) \/ q = taken
  BY <1>1, Drop DEF AccountInv
<1>3. \A q \in Nat : /\ Hand(q)' <=> FALSE
                     /\ Hand(q) <=> q = taken
                     /\ Held(q)' <=> Held(q)
                     /\ Queued(q)' <=> Queued(q)
                     /\ Sent(q)' <=> Sent(q)
  BY DEF Hand, Held, Sent, Queued
<1>4. Moves(taken, "gone") /\ "gone" \in Places
  BY <1>1, <1>2, <1>3 DEF Moves, Places
<1>5. Known' /\ OnePlace'
  BY <1>1, <1>4, Moved, Zenon DEF AccountInv
<1> QED BY <1>2, <1>5 DEF AccountInv, SentOnce, QueueOnce, RoundInv

(* It is sent.                                                             *)
LEMMA MainSends ==
  ASSUME AccountInv, main.pc \in Holding, out' = Append(out, taken),
         main'.pc \notin Holding, UNCHANGED <<kind, delayed, sender, dropped>>
  PROVE  /\ Known' /\ OnePlace' /\ QueueOnce' /\ SentOnce' /\ GoneOnce' /\ RoundInv'
         /\ out' \in Seq(Nat)
<1>1. /\ taken \in 1 .. taken /\ taken \in Nat
      /\ ~Held(taken) /\ ~Queued(taken) /\ ~Sent(taken) /\ ~Gone(taken)
  BY InHand
<1>2. /\ out' \in Seq(Nat) /\ SentOnce'
      /\ \A q \in Nat : Sent(q)' <=> Sent(q) \/ q = taken
  BY <1>1, OutPut DEF AccountInv
<1>3. \A q \in Nat : /\ Hand(q)' <=> FALSE
                     /\ Hand(q) <=> q = taken
                     /\ Held(q)' <=> Held(q)
                     /\ Queued(q)' <=> Queued(q)
                     /\ Gone(q)' <=> Gone(q)
  BY DEF Hand, Held, Gone, Queued
<1>4. Moves(taken, "sent") /\ "sent" \in Places
  BY <1>1, <1>2, <1>3 DEF Moves, Places
<1>5. Known' /\ OnePlace'
  BY <1>1, <1>4, Moved, Zenon DEF AccountInv
<1> QED BY <1>2, <1>5 DEF AccountInv, GoneOnce, QueueOnce, RoundInv

-----------------------------------------------------------------------------
(* One lemma for the steps of each thread.                                 *)

(* The packet poll reports is in hand and nowhere else.                    *)
LEMMA PollKeeps ==
  ASSUME ProxyAssumption, AccountInv, NEW k \in Kinds, PollPacket(k)
  PROVE  AccountInv'
<1>1. /\ kind' = Append(kind, k) /\ main.pc = "poll" /\ Len(kind) < MaxPackets
      /\ main' = [pc |-> IF hdx_node THEN "hdx" ELSE "fate", backend |-> subscription]
      /\ delayed' = delayed /\ sender' = sender /\ out' = out /\ dropped' = dropped
      /\ capture' = capture /\ status' = status /\ now' = now /\ subscription' = subscription
      /\ hdx_last_tx_ms' = hdx_last_tx_ms /\ hdx_powerup_start_ms' = hdx_powerup_start_ms
  BY DEF PollPacket, AtMain, outVars, hdxVars
<1>2. /\ taken \in Nat /\ taken' = taken + 1 /\ taken' \in Nat /\ taken' <= MaxPackets
      /\ kind' \in Seq(Kinds) /\ MaxPackets \in Nat
  BY <1>1, AppendProperties, ProxyAssumption DEF AccountInv, TypeOK, taken
<1>3. /\ main'.pc \in {"hdx", "fate"} /\ main'.pc \in Holding
      /\ main' \in [pc : Holding \cup {"poll", "backend"}, backend : BOOLEAN]
      /\ main'.backend \in BOOLEAN
  BY <1>1 DEF Holding, AccountInv, DataOK
<1>4. TypeOK' /\ DataOK'
  BY <1>1, <1>2, <1>3 DEF AccountInv, TypeOK, DataOK, taken
<1>5. QueueOnce' /\ SentOnce' /\ GoneOnce' /\ RoundInv'
  BY <1>1 DEF AccountInv, QueueOnce, SentOnce, GoneOnce, RoundInv
<1>6. \A q \in Nat : /\ Hand(q)' <=> q = taken + 1
                     /\ ~Hand(q)
                     /\ Held(q)' <=> Held(q)
                     /\ Queued(q)' <=> Queued(q)
                     /\ Sent(q)' <=> Sent(q)
                     /\ Gone(q)' <=> Gone(q)
  BY <1>1, <1>2, <1>3 DEF Hand, Held, Queued, Sent, Gone, Holding
<1>7. \A q \in Nat : \A x \in Places :
        In(x, q)' <=> (x = "hand" /\ q = taken + 1) \/ (x # "hand" /\ In(x, q))
  BY <1>6 DEF In, Places
<1>8. \A q \in Nat : q \in 1 .. taken => q \in 1 .. taken' /\ q # taken + 1
  BY <1>2
<1>9. taken + 1 \in Nat /\ taken + 1 \in 1 .. taken' /\ taken + 1 \notin 1 .. taken
  BY <1>2
<1>10. \A q \in Nat : q \in 1 .. taken' => q \in 1 .. taken \/ q = taken + 1
  BY <1>2
<1>11. Known'
  BY <1>7, <1>8, <1>9, Zenon DEF Known, AccountInv
<1>12. OnePlace'
  <2> SUFFICES ASSUME NEW p \in 1 .. taken'
               PROVE  \E x \in Places : \A y \in Places : In(y, p)' <=> y = x
    BY <1>2, Zenon DEF OnePlace
  <2>0. p \in Nat
    BY <1>2
  <2>1. CASE p = taken + 1
    <3>1. \A y \in Places : In(y, p)' <=> y = "hand"
      BY <1>7, <1>9, <2>0, <2>1, Zenon DEF Known, AccountInv
    <3> QED BY <3>1 DEF Places
  <2>2. CASE p # taken + 1
    <3>1. p \in 1 .. taken
      BY <1>10, <2>0, <2>2
    <3>2. \A y \in Places : In(y, p)' <=> In(y, p)
      <4>1. ~In("hand", p)
        BY <1>6, <2>0 DEF In
      <4> QED BY <1>7, <2>0, <2>2, <4>1, Zenon
    <3> QED BY <3>1, <3>2, Zenon DEF OnePlace, AccountInv
  <2> QED BY <2>1, <2>2
<1> QED BY <1>4, <1>5, <1>11, <1>12, Zenon DEF AccountInv

(* The steps of the main loop: each of them moves the packet in hand to    *)
(* one place, or leaves everything where it is.                            *)
LEMMA MainKeeps ==
  ASSUME ProxyAssumption, AccountInv, MainNext
  PROVE  AccountInv'
<1> DEFINE Rest == Known' /\ OnePlace' /\ QueueOnce' /\ SentOnce' /\ GoneOnce' /\ RoundInv'
<1>0. /\ now \in Nat /\ hdx_last_tx_ms \in Nat /\ hdx_powerup_start_ms \in Nat
      /\ hdx_powerup_delay \in Nat /\ delay_ms \in Nat /\ taken \in Nat
  BY ProxyAssumption DEF AccountInv, TypeOK, DataOK, taken
<1>1. CASE PollSubscription
  <2>1. /\ main' = [pc |-> "backend", backend |-> TRUE] /\ main.pc = "poll"
        /\ UNCHANGED <<status, now, inVars, delayed, sender, hdxVars, outVars>>
    BY <1>1 DEF PollSubscription, AtMain
  <2>2. UNCHANGED <<kind, delayed, sender, out, dropped>> /\ main'.pc = "backend"
        /\ main'.backend \in BOOLEAN
        /\ main' \in [pc : Holding \cup {"poll", "backend"}, backend : BOOLEAN]
    BY <2>1 DEF inVars, outVars
  <2>3. Rest
    BY <2>1, <2>2, MainStays DEF Holding
  <2>4. TypeOK' /\ DataOK'
    BY <2>1, <2>2 DEF AccountInv, TypeOK, DataOK, inVars, hdxVars, outVars
  <2> QED BY <2>3, <2>4, Zenon DEF AccountInv
<1>2. CASE HdxMustWait
  <2>1. /\ MainTo("powerup") /\ main.pc = "hdx"
        /\ UNCHANGED <<status, now, inVars, delayed, sender, hdxVars, outVars>>
    BY <1>2, Zenon DEF HdxMustWait, AtMain
  <2>2. /\ main' \in [pc : Holding \cup {"poll", "backend"}, backend : BOOLEAN]
        /\ main'.pc = "powerup" /\ main'.backend \in BOOLEAN
    BY <2>1, MainMoves DEF AccountInv, Holding
  <2>3. Rest
    BY <2>1, <2>2, MainStays DEF Holding, inVars, outVars
  <2>4. TypeOK' /\ DataOK'
    BY <2>1, <2>2 DEF AccountInv, TypeOK, DataOK, inVars, hdxVars, outVars, Holding
  <2> QED BY <2>3, <2>4, Zenon DEF AccountInv
<1>3. CASE HdxPass
  <2>1. /\ main.pc = "hdx" /\ hdx_last_tx_ms' \in Nat
        /\ \/ dropped' = dropped \cup {<<taken, "receiver_off">>} /\ MainTo("poll")
           \/ UNCHANGED dropped /\ MainTo("fate")
        /\ UNCHANGED <<status, now, inVars, delayed, sender, hdx_powerup_start_ms, out, capture>>
    BY <1>0, <1>3 DEF HdxPass, AtMain
  <2>2. CASE dropped' = dropped \cup {<<taken, "receiver_off">>} /\ MainTo("poll")
    <3>1. /\ main' \in [pc : Holding \cup {"poll", "backend"}, backend : BOOLEAN]
          /\ main'.pc = "poll" /\ main'.backend \in BOOLEAN
      BY <2>2, MainMoves DEF AccountInv
    <3>2. UNCHANGED <<kind, delayed, sender, out>>
      BY <2>1 DEF inVars
    <3>3. Rest /\ dropped' \subseteq Nat \X {"receiver_off", "queue_full", "lost"}
      BY <2>1, <2>2, <3>1, <3>2, MainDrops DEF Holding
    <3>4. TypeOK' /\ DataOK'
      BY <2>1, <3>1, <3>3 DEF AccountInv, TypeOK, DataOK, inVars
    <3> QED BY <3>3, <3>4, Zenon DEF AccountInv
  <2>3. CASE UNCHANGED dropped /\ MainTo("fate")
    <3>1. /\ main' \in [pc : Holding \cup {"poll", "backend"}, backend : BOOLEAN]
          /\ main'.pc = "fate" /\ main'.backend \in BOOLEAN
      BY <2>3, MainMoves DEF AccountInv, Holding
    <3>2. UNCHANGED <<kind, delayed, sender, out, dropped>>
      BY <2>1, <2>3 DEF inVars
    <3>3. Rest
      BY <2>1, <3>1, <3>2, MainStays DEF Holding
    <3>4. TypeOK' /\ DataOK'
      BY <2>1, <3>1, <3>2 DEF AccountInv, TypeOK, DataOK, inVars, Holding
    <3> QED BY <3>3, <3>4, Zenon DEF AccountInv
  <2> QED BY <2>1, <2>2, <2>3
<1>4. CASE HdxPowerUp
  <2>1. /\ MainTo("enqueue") /\ main.pc = "powerup" /\ hdx_powerup_start_ms' \in Nat
        /\ UNCHANGED <<status, now, inVars, delayed, sender, hdx_last_tx_ms, outVars>>
    BY <1>0, <1>4 DEF HdxPowerUp, AtMain
  <2>2. /\ main' \in [pc : Holding \cup {"poll", "backend"}, backend : BOOLEAN]
        /\ main'.pc = "enqueue" /\ main'.backend \in BOOLEAN
    BY <2>1, MainMoves DEF AccountInv, Holding
  <2>3. Rest
    BY <2>1, <2>2, MainStays DEF Holding, inVars, outVars
  <2>4. TypeOK' /\ DataOK'
    BY <2>1, <2>2 DEF AccountInv, TypeOK, DataOK, inVars, outVars, Holding
  <2> QED BY <2>3, <2>4, Zenon DEF AccountInv
<1>5. ASSUME NEW d \in Msg, d.packet = taken, Enqueue(d), main.pc \in Holding, MainTo("poll"),
             UNCHANGED <<status, now, inVars, sender, hdxVars, out, capture>>
      PROVE  AccountInv'
  <2>1. /\ main' \in [pc : Holding \cup {"poll", "backend"}, backend : BOOLEAN]
        /\ main'.pc = "poll" /\ main'.backend \in BOOLEAN
    BY <1>5, MainMoves DEF AccountInv
  <2>2. UNCHANGED <<kind, sender, out>>
    BY <1>5 DEF inVars
  <2>3. /\ Rest /\ delayed' \in Seq(Msg) /\ Len(delayed') <= QueueCap
        /\ dropped' \subseteq Nat \X {"receiver_off", "queue_full", "lost"}
    BY <1>5, <2>1, <2>2, MainEnqueues, Zenon
  <2>4. TypeOK' /\ DataOK'
    BY <1>5, <2>1, <2>3 DEF AccountInv, TypeOK, DataOK, inVars, hdxVars
  <2> QED BY <2>3, <2>4, Zenon DEF AccountInv
<1>6. CASE HdxEnqueue
  <2> DEFINE d == [packet |-> taken, at |-> hdx_powerup_start_ms + hdx_powerup_delay, hdx |-> TRUE]
  <2>1. d \in Msg /\ d.packet = taken
    BY <1>0 DEF Msg
  <2>2. Enqueue(d) /\ main.pc = "enqueue" /\ MainTo("poll")
        /\ UNCHANGED <<status, now, inVars, sender, hdxVars, out, capture>>
    BY <1>6, Zenon DEF HdxEnqueue, AtMain
  <2>3. main.pc \in Holding
    BY <2>2 DEF Holding
  <2> QED BY <1>5, <2>1, <2>2, <2>3, Zenon
<1>7. CASE Delay
  <2> DEFINE d == [packet |-> taken, at |-> now + delay_ms, hdx |-> FALSE]
  <2>1. d \in Msg /\ d.packet = taken
    BY <1>0 DEF Msg
  <2>2. Enqueue(d) /\ main.pc = "fate" /\ MainTo("poll")
        /\ UNCHANGED <<status, now, inVars, sender, hdxVars, out, capture>>
    BY <1>7, Zenon DEF Delay, AtMain
  <2>3. main.pc \in Holding
    BY <2>2 DEF Holding
  <2> QED BY <1>5, <2>1, <2>2, <2>3, Zenon
<1>8. CASE Lose
  <2>1. /\ main.pc = "fate" /\ dropped' = dropped \cup {<<taken, "lost">>} /\ MainTo("backend")
        /\ UNCHANGED <<status, now, inVars, delayed, sender, hdxVars, out, capture>>
    BY <1>8, Zenon DEF Lose, AtMain
  <2>2. /\ main' \in [pc : Holding \cup {"poll", "backend"}, backend : BOOLEAN]
        /\ main'.pc = "backend" /\ main'.backend \in BOOLEAN
    BY <2>1, MainMoves DEF AccountInv
  <2>3. UNCHANGED <<kind, delayed, sender, out>>
    BY <2>1 DEF inVars
  <2>4. Rest /\ dropped' \subseteq Nat \X {"receiver_off", "queue_full", "lost"}
    BY <2>1, <2>2, <2>3, MainDrops DEF Holding
  <2>5. TypeOK' /\ DataOK'
    BY <2>1, <2>2, <2>4 DEF AccountInv, TypeOK, DataOK, inVars, hdxVars
  <2> QED BY <2>4, <2>5, Zenon DEF AccountInv
<1>9. CASE Forward
  <2>1. /\ main.pc = "fate" /\ out' = Append(out, taken) /\ MainTo("backend")
        /\ capture' = [capture EXCEPT !.pending = Append(@, taken)]
        /\ UNCHANGED <<status, now, inVars, delayed, sender, hdxVars, dropped>>
    BY <1>9 DEF Forward, AtMain, Send
  <2>2. /\ main' \in [pc : Holding \cup {"poll", "backend"}, backend : BOOLEAN]
        /\ main'.pc = "backend" /\ main'.backend \in BOOLEAN
    BY <2>1, MainMoves DEF AccountInv
  <2>3. UNCHANGED <<kind, delayed, sender, dropped>>
    BY <2>1 DEF inVars
  <2>4. Rest /\ out' \in Seq(Nat)
    BY <2>1, <2>2, <2>3, MainSends DEF Holding
  <2>5. capture' \in [pending : Seq(Nat), logged : Seq(Nat), skipped : BOOLEAN]
    BY <1>0, <2>1, AppendProperties DEF AccountInv, DataOK
  <2>6. TypeOK' /\ DataOK'
    BY <2>1, <2>2, <2>4, <2>5 DEF AccountInv, TypeOK, DataOK, inVars, hdxVars
  <2> QED BY <2>4, <2>6, Zenon DEF AccountInv
<1>10. CASE Backend
  <2>1. /\ MainTo("poll") /\ main.pc = "backend" /\ subscription' \in BOOLEAN
        /\ UNCHANGED <<status, now, kind, delayed, sender, hdxVars, outVars>>
    BY <1>10 DEF Backend, AtMain, AccountInv, DataOK
  <2>2. /\ main' \in [pc : Holding \cup {"poll", "backend"}, backend : BOOLEAN]
        /\ main'.pc = "poll" /\ main'.backend \in BOOLEAN
    BY <2>1, MainMoves DEF AccountInv
  <2>3. Rest
    BY <2>1, <2>2, MainStays DEF Holding, outVars
  <2>4. TypeOK' /\ DataOK'
    BY <2>1, <2>2 DEF AccountInv, TypeOK, DataOK, hdxVars, outVars
  <2> QED BY <2>3, <2>4, Zenon DEF AccountInv
<1> QED BY <1>1, <1>2, <1>3, <1>4, <1>6, <1>7, <1>8, <1>9, <1>10, Zenon DEF MainNext

(* The packet the delay thread holds is nowhere else.                      *)
LEMMA InHeld ==
  ASSUME AccountInv, sender.pc = "held"
  PROVE  /\ sender.dmsg \in Msg /\ sender.dmsg.packet \in Nat
         /\ sender.dmsg.packet \in 1 .. taken
         /\ ~Hand(sender.dmsg.packet) /\ ~Queued(sender.dmsg.packet)
         /\ ~Sent(sender.dmsg.packet) /\ ~Gone(sender.dmsg.packet)
<1> DEFINE p == sender.dmsg.packet
<1>1. sender.dmsg \in Msg /\ p \in Nat
  BY DEF AccountInv, DataOK, Msg
<1>2. In("held", p) /\ "held" \in Places
  BY DEF In, Held, Places
<1>3. /\ p \in 1 .. taken
      /\ Hand(p) <=> "held" = "hand"
      /\ Queued(p) <=> "held" = "queue"
      /\ Sent(p) <=> "held" = "sent"
      /\ Gone(p) <=> "held" = "gone"
  BY <1>1, <1>2, NowhereElse, Zenon DEF AccountInv
<1> QED BY <1>1, <1>3

(* The delay thread goes on and moves no packet.                           *)
LEMMA SenderStays ==
  ASSUME AccountInv, UNCHANGED <<kind, main, delayed, out, dropped>>,
         sender.pc # "held", sender'.pc # "held"
  PROVE  Known' /\ OnePlace' /\ QueueOnce' /\ SentOnce' /\ GoneOnce'
<1>1. Stays
  BY DEF Stays, Hand, Held, Queued, Sent, Gone, taken
<1>2. Known' /\ OnePlace'
  BY <1>1, Stayed, Zenon DEF AccountInv
<1>3. QueueOnce' /\ SentOnce' /\ GoneOnce'
  BY DEF AccountInv, QueueOnce, SentOnce, GoneOnce
<1> QED BY <1>2, <1>3

(* csp_queue_dequeue: the round the thread is in was no longer than the    *)
(* queue, and nobody else takes packets from it, so that there is one.     *)
LEMMA DequeueKeeps ==
  ASSUME ProxyAssumption, AccountInv, SenderDequeue
  PROVE  AccountInv'
<1> DEFINE p == Head(delayed).packet
<1>1. /\ sender.pc = "scan" /\ sender' = [sender EXCEPT !.pc = "held", !.dmsg = Head(delayed)]
      /\ delayed' = Tail(delayed)
      /\ UNCHANGED <<status, now, inVars, main, hdxVars, outVars>>
  BY DEF SenderDequeue, SenderAt
<1>2. kind' = kind /\ main' = main /\ out' = out /\ dropped' = dropped
  BY <1>1 DEF inVars, outVars
<1>3. Len(delayed) \in Nat /\ Len(delayed) > 0 /\ Len(delayed) <= QueueCap /\ sender.left \in Nat
      /\ QueueCap \in Nat
  BY SMTT(30), <1>1, ProxyAssumption DEF AccountInv, RoundInv, DataOK, TypeOK
<1>4. /\ delayed' \in Seq(Msg) /\ Len(delayed') = Len(delayed) - 1 /\ QueueOnce'
      /\ Head(delayed) \in Msg /\ Queued(p)
      /\ \A q \in Nat : Queued(q)' <=> Queued(q) /\ q # p
  BY <1>1, <1>3, QueueTake DEF AccountInv
<1>5. p \in Nat
  BY <1>4 DEF Msg
<1>6. In("queue", p) /\ "queue" \in Places
  BY <1>4, Zenon DEF In, Places
<1>7. /\ p \in 1 .. taken
      /\ Hand(p) <=> "queue" = "hand"
      /\ Held(p) <=> "queue" = "held"
      /\ Sent(p) <=> "queue" = "sent"
      /\ Gone(p) <=> "queue" = "gone"
  BY <1>5, <1>6, NowhereElse, Zenon DEF AccountInv
<1>8. /\ sender'.pc = "held" /\ sender'.left = sender.left /\ sender'.dmsg = Head(delayed)
      /\ sender' \in [pc : {"front", "scan", "held", "stamp", "powered"}, left : Nat, dmsg : Msg]
  BY <1>1, <1>4 DEF AccountInv, DataOK
<1>9. \A q \in Nat : /\ Hand(q)' <=> Hand(q)
                     /\ Held(q)' <=> q = p
                     /\ ~Held(q)
                     /\ Sent(q)' <=> Sent(q)
                     /\ Gone(q)' <=> Gone(q)
  BY <1>1, <1>2, <1>8 DEF Hand, Held, Sent, Gone, taken
<1>10. Moves(p, "held") /\ "held" \in Places
  BY <1>4, <1>7, <1>9 DEF Moves, Places
<1>11. Known' /\ OnePlace'
  BY <1>2, <1>7, <1>10, Moved, Zenon DEF AccountInv
<1>12. SentOnce' /\ GoneOnce'
  BY <1>2 DEF AccountInv, SentOnce, GoneOnce
<1>13. RoundInv'
  BY <1>1, <1>3, <1>4, <1>8 DEF AccountInv, RoundInv
<1>14. TypeOK' /\ DataOK'
  BY SMTT(30), <1>1, <1>3, <1>4, <1>8 DEF AccountInv, TypeOK, DataOK, inVars, hdxVars, outVars
<1> QED BY <1>4, <1>11, <1>12, <1>13, <1>14, Zenon DEF AccountInv

(* A packet that is due is sent, and the round is over.                    *)
LEMMA SendKeeps ==
  ASSUME AccountInv, SenderSend
  PROVE  AccountInv'
<1> DEFINE p == sender.dmsg.packet
<1>1. /\ sender.pc = "held" /\ out' = Append(out, p)
      /\ capture' = [capture EXCEPT !.pending = Append(@, p)]
      /\ sender' = [pc |-> IF sender.dmsg.hdx THEN "stamp" ELSE "front",
                    left |-> 0, dmsg |-> Nothing]
      /\ UNCHANGED <<status, now, inVars, main, delayed, hdxVars, dropped>>
  BY DEF SenderSend, SenderAt, Send
<1>2. kind' = kind /\ main' = main /\ delayed' = delayed /\ dropped' = dropped
  BY <1>1 DEF inVars
<1>3. /\ p \in Nat /\ p \in 1 .. taken
      /\ ~Hand(p) /\ ~Queued(p) /\ ~Sent(p) /\ ~Gone(p)
  BY <1>1, InHeld
<1>4. /\ sender'.pc \in {"stamp", "front"} /\ sender'.pc # "held"
      /\ sender' \in [pc : {"front", "scan", "held", "stamp", "powered"}, left : Nat, dmsg : Msg]
  BY <1>1 DEF Nothing, Msg
<1>5. /\ out' \in Seq(Nat) /\ SentOnce'
      /\ \A q \in Nat : Sent(q)' <=> Sent(q) \/ q = p
  BY <1>1, <1>3, OutPut DEF AccountInv
<1>6. \A q \in Nat : /\ Hand(q)' <=> Hand(q)
                     /\ ~(Held(q)')
                     /\ Held(q) <=> q = p
                     /\ Queued(q)' <=> Queued(q)
                     /\ Gone(q)' <=> Gone(q)
  BY <1>1, <1>2, <1>4 DEF Hand, Held, Queued, Gone, taken
<1>7. Moves(p, "sent") /\ "sent" \in Places
  BY <1>3, <1>5, <1>6 DEF Moves, Places
<1>8. Known' /\ OnePlace'
  BY <1>2, <1>3, <1>7, Moved, Zenon DEF AccountInv
<1>9. QueueOnce' /\ GoneOnce' /\ RoundInv'
  BY <1>2, <1>4 DEF AccountInv, QueueOnce, GoneOnce, RoundInv
<1>10. capture' \in [pending : Seq(Nat), logged : Seq(Nat), skipped : BOOLEAN]
  BY <1>1, <1>3, AppendProperties DEF AccountInv, DataOK
<1>11. TypeOK' /\ DataOK'
  BY <1>1, <1>4, <1>5, <1>10 DEF AccountInv, TypeOK, DataOK, inVars, hdxVars
<1> QED BY <1>5, <1>8, <1>9, <1>11, Zenon DEF AccountInv

(* One that is not due goes back to the queue, or is given up when the     *)
(* main loop has filled its place; the round still fits the queue.         *)
LEMMA KeepKeeps ==
  ASSUME ProxyAssumption, AccountInv, SenderKeep
  PROVE  AccountInv'
<1> DEFINE p == sender.dmsg.packet
<1>1. /\ sender.pc = "held" /\ Enqueue(sender.dmsg)
      /\ sender' = [pc |-> IF sender.left > 1 THEN "scan" ELSE "front",
                    left |-> sender.left - 1, dmsg |-> Nothing]
      /\ UNCHANGED <<status, now, inVars, main, hdxVars, out, capture>>
  BY Zenon DEF SenderKeep, SenderAt, Kept
<1>2. kind' = kind /\ main' = main /\ out' = out
  BY <1>1 DEF inVars
<1>3. /\ sender.dmsg \in Msg /\ p \in Nat /\ p \in 1 .. taken
      /\ ~Hand(p) /\ ~Queued(p) /\ ~Sent(p) /\ ~Gone(p)
  BY <1>1, InHeld
<1>4. /\ Len(delayed) \in Nat /\ QueueCap \in Nat \ {0} /\ Len(delayed) <= QueueCap
      /\ sender.left \in 1 .. Len(delayed) + 1
  BY <1>1, ProxyAssumption DEF AccountInv, TypeOK, DataOK, RoundInv
<1>5. /\ sender'.pc \in {"scan", "front"} /\ sender'.pc # "held" /\ sender'.left = sender.left - 1
      /\ sender'.pc = "scan" => sender.left > 1
      /\ sender' \in [pc : {"front", "scan", "held", "stamp", "powered"}, left : Nat, dmsg : Msg]
  BY <1>1, <1>4 DEF Nothing, Msg
<1>6. /\ delayed' \in Seq(Msg) /\ Len(delayed') <= QueueCap /\ QueueOnce'
      /\ Len(delayed') \in Nat /\ Len(delayed') >= Len(delayed)
      /\ dropped' \subseteq Nat \X {"receiver_off", "queue_full", "lost"} /\ GoneOnce'
      /\ \/ \A q \in Nat : /\ Queued(q)' <=> Queued(q) \/ q = p
                           /\ Gone(q)' <=> Gone(q)
         \/ \A q \in Nat : /\ Queued(q)' <=> Queued(q)
                           /\ Gone(q)' <=> Gone(q) \/ q = p
  BY <1>1, <1>3, EnqueueMoves, ProxyAssumption, Zenon DEF AccountInv
<1>7. \A q \in Nat : /\ Hand(q)' <=> Hand(q)
                     /\ ~(Held(q)')
                     /\ Held(q) <=> q = p
                     /\ Sent(q)' <=> Sent(q)
  BY <1>1, <1>2, <1>5 DEF Hand, Held, Sent, taken
<1>8. \E x \in {"queue", "gone"} : Moves(p, x)
  <2>1. CASE \A q \in Nat : /\ Queued(q)' <=> Queued(q) \/ q = p
                            /\ Gone(q)' <=> Gone(q)
    <3>1. Moves(p, "queue")
      BY <1>3, <1>7, <2>1 DEF Moves
    <3> QED BY <3>1
  <2>2. CASE \A q \in Nat : /\ Queued(q)' <=> Queued(q)
                            /\ Gone(q)' <=> Gone(q) \/ q = p
    <3>1. Moves(p, "gone")
      BY <1>3, <1>7, <2>2 DEF Moves
    <3> QED BY <3>1
  <2> QED BY <1>6, <2>1, <2>2
<1>9. Known' /\ OnePlace'
  <2>1. PICK x \in {"queue", "gone"} : Moves(p, x)
    BY <1>8
  <2>2. x \in Places
    BY DEF Places
  <2> QED BY <1>2, <1>3, <2>1, <2>2, Moved, Zenon DEF AccountInv
<1>10. SentOnce'
  BY <1>2 DEF AccountInv, SentOnce
<1>11. RoundInv'
  BY <1>4, <1>5, <1>6 DEF RoundInv
<1>12. TypeOK' /\ DataOK'
  BY <1>1, <1>5, <1>6 DEF AccountInv, TypeOK, DataOK, inVars, hdxVars
<1> QED BY <1>6, <1>9, <1>10, <1>11, <1>12, Zenon DEF AccountInv

(* The delay thread: the places that move a packet, and the three that     *)
(* only start a round or touch the times of the half duplex node.          *)
LEMMA SenderKeeps ==
  ASSUME ProxyAssumption, AccountInv, SenderNext
  PROVE  AccountInv'
<1>0. now \in Nat /\ Len(delayed) \in Nat
  BY DEF AccountInv, TypeOK, DataOK
<1>1. CASE SenderFront
  <2>1. /\ sender.pc = "front" /\ Len(delayed) > 0
        /\ sender' = [sender EXCEPT !.pc = "scan", !.left = Len(delayed)]
        /\ UNCHANGED <<status, now, inVars, main, delayed, hdxVars, outVars>>
    BY <1>1 DEF SenderFront, SenderAt
  <2>2. /\ sender'.pc = "scan" /\ sender'.left = Len(delayed)
        /\ sender' \in [pc : {"front", "scan", "held", "stamp", "powered"}, left : Nat, dmsg : Msg]
    BY <1>0, <2>1 DEF AccountInv, DataOK
  <2>3. Known' /\ OnePlace' /\ QueueOnce' /\ SentOnce' /\ GoneOnce'
    BY <2>1, <2>2, SenderStays DEF inVars, outVars
  <2>4. RoundInv'
    BY <1>0, <2>1, <2>2 DEF RoundInv
  <2>5. TypeOK' /\ DataOK'
    BY <2>1, <2>2 DEF AccountInv, TypeOK, DataOK, inVars, hdxVars, outVars
  <2> QED BY <2>3, <2>4, <2>5, Zenon DEF AccountInv
<1>2. CASE SenderStamp
  <2>1. /\ sender.pc = "stamp" /\ hdx_last_tx_ms' = now
        /\ sender' = [sender EXCEPT !.pc = "powered"]
        /\ UNCHANGED <<status, now, inVars, main, delayed, hdx_powerup_start_ms, outVars>>
    BY <1>2 DEF SenderStamp, SenderAt
  <2>2. /\ sender'.pc = "powered"
        /\ sender' \in [pc : {"front", "scan", "held", "stamp", "powered"}, left : Nat, dmsg : Msg]
    BY <2>1 DEF AccountInv, DataOK
  <2>3. Known' /\ OnePlace' /\ QueueOnce' /\ SentOnce' /\ GoneOnce'
    BY <2>1, <2>2, SenderStays DEF inVars, outVars
  <2>4. RoundInv'
    BY <2>2 DEF RoundInv
  <2>5. TypeOK' /\ DataOK'
    BY <1>0, <2>1, <2>2 DEF AccountInv, TypeOK, DataOK, inVars, outVars
  <2> QED BY <2>3, <2>4, <2>5, Zenon DEF AccountInv
<1>3. CASE SenderPowered
  <2>1. /\ sender.pc = "powered" /\ hdx_powerup_start_ms' = 0
        /\ sender' = [sender EXCEPT !.pc = "front"]
        /\ UNCHANGED <<status, now, inVars, main, delayed, hdx_last_tx_ms, outVars>>
    BY <1>3 DEF SenderPowered, SenderAt
  <2>2. /\ sender'.pc = "front"
        /\ sender' \in [pc : {"front", "scan", "held", "stamp", "powered"}, left : Nat, dmsg : Msg]
    BY <2>1 DEF AccountInv, DataOK
  <2>3. Known' /\ OnePlace' /\ QueueOnce' /\ SentOnce' /\ GoneOnce'
    BY <2>1, <2>2, SenderStays DEF inVars, outVars
  <2>4. RoundInv'
    BY <2>2 DEF RoundInv
  <2>5. TypeOK' /\ DataOK'
    BY <2>1, <2>2 DEF AccountInv, TypeOK, DataOK, inVars, outVars
  <2> QED BY <2>3, <2>4, <2>5, Zenon DEF AccountInv
<1> QED BY <1>1, <1>2, <1>3, DequeueKeeps, SendKeeps, KeepKeeps, Zenon DEF SenderNext

(* The steps that concern no packet's place: the clock, a subscription,    *)
(* the start and the capture task.                                         *)
LEMMA OthersKeep ==
  ASSUME ProxyAssumption, AccountInv, Start \/ Tick \/ Subscribes \/ Capture \/ UNCHANGED vars
  PROVE  AccountInv'
<1>1. UNCHANGED <<kind, main, delayed, sender, out, dropped, hdxVars>>
  BY DEF Start, Tick, Subscribes, Capture, vars, inVars, hdxVars, outVars
<1>2. status' \in {"starting", "running"} /\ now' \in Nat /\ now' <= MaxTime
  BY ProxyAssumption DEF Start, Tick, Subscribes, Capture, vars, AccountInv, TypeOK
<1>3. subscription' \in BOOLEAN
  <2>1. subscription' = TRUE \/ subscription' = subscription
    BY DEF Start, Tick, Subscribes, Capture, vars, inVars
  <2> QED BY <2>1, Zenon DEF AccountInv, DataOK
<1>4. capture' \in [pending : Seq(Nat), logged : Seq(Nat), skipped : BOOLEAN]
  <2>1. CASE capture' = capture
    BY <2>1 DEF AccountInv, DataOK
  <2>2. CASE Capture
    <3>1. /\ capture.pending \in Seq(Nat) /\ capture.pending # << >>
          /\ capture.logged \in Seq(Nat) /\ capture.skipped \in BOOLEAN
      BY <2>2 DEF Capture, AccountInv, DataOK
    <3>2. Tail(capture.pending) \in Seq(Nat) /\ Head(capture.pending) \in Nat
      BY <3>1, HeadTailProperties
    <3>3. capture.logged \o NewlyLogged \in Seq(Nat)
      BY <3>1, <3>2, ConcatProperties DEF NewlyLogged
    <3>4. \/ capture' = [capture EXCEPT !.pending = << >>, !.skipped = TRUE]
          \/ capture' = [capture EXCEPT !.pending = Tail(@), !.logged = @ \o NewlyLogged]
      BY <2>2, Zenon DEF Capture
    <3>5. capture \in [pending : Seq(Nat), logged : Seq(Nat), skipped : BOOLEAN] /\ << >> \in Seq(Nat)
      BY DEF AccountInv, DataOK
    <3>6. CASE capture' = [capture EXCEPT !.pending = << >>, !.skipped = TRUE]
      BY <3>5, <3>6
    <3>7. CASE capture' = [capture EXCEPT !.pending = Tail(@), !.logged = @ \o NewlyLogged]
      BY <3>2, <3>3, <3>5, <3>7
    <3> QED BY <3>4, <3>6, <3>7
  <2> QED BY <2>1, <2>2 DEF Start, Tick, Subscribes, vars, outVars
<1>5. Stays
  BY <1>1 DEF Stays, Hand, Held, Queued, Sent, Gone, taken
<1>6. Known' /\ OnePlace'
  BY <1>1, <1>5, Stayed, Zenon DEF AccountInv
<1>7. QueueOnce' /\ SentOnce' /\ GoneOnce' /\ RoundInv'
  BY <1>1 DEF AccountInv, QueueOnce, SentOnce, GoneOnce, RoundInv
<1>8. TypeOK' /\ DataOK'
  BY <1>1, <1>2, <1>3, <1>4 DEF AccountInv, TypeOK, DataOK, hdxVars
<1> QED BY <1>6, <1>7, <1>8, Zenon DEF AccountInv

(* At the start there is no packet.                                        *)
LEMMA AccountInit ==
  ASSUME ProxyAssumption, Init
  PROVE  AccountInv
<1>1. TypeOK
  BY ProxyAssumption DEF Init, TypeOK, Holding
<1>2. DataOK /\ RoundInv
  <2>1. << >> \in Seq(Msg) /\ << >> \in Seq(Nat) /\ Nothing \in Msg
    BY DEF Nothing, Msg
  <2>2. sender \in [pc : {"front", "scan", "held", "stamp", "powered"}, left : Nat, dmsg : Msg]
    BY <2>1 DEF Init
  <2>3. capture \in [pending : Seq(Nat), logged : Seq(Nat), skipped : BOOLEAN]
    BY <2>1 DEF Init
  <2>4. main \in [pc : Holding \cup {"poll", "backend"}, backend : BOOLEAN]
    BY DEF Init
  <2> QED BY <2>1, <2>2, <2>3, <2>4 DEF Init, DataOK, RoundInv
<1>3. QueueOnce /\ SentOnce /\ GoneOnce
  BY DEF Init, QueueOnce, SentOnce, GoneOnce
<1>4. Known /\ OnePlace
  BY DEF Init, Known, OnePlace, In, Hand, Held, Queued, Sent, Gone, taken, Places, Holding
<1> QED BY <1>1, <1>2, <1>3, <1>4 DEF AccountInv

(* Of all packets, at all times.                                           *)
LEMMA AccountAlways == Spec => []AccountInv
<1>1. Init => AccountInv
  BY AccountInit, ProxyAssumption
<1>2. AccountInv /\ [Next]_vars => AccountInv'
  <2> SUFFICES ASSUME AccountInv, [Next]_vars PROVE AccountInv'
    OBVIOUS
  <2>1. ASSUME NEW k \in Kinds, PollPacket(k) PROVE AccountInv'
    BY <2>1, PollKeeps, ProxyAssumption
  <2>2. CASE MainNext
    BY <2>2, MainKeeps, ProxyAssumption
  <2>3. CASE SenderNext
    BY <2>3, SenderKeeps, ProxyAssumption
  <2>4. CASE Start \/ Tick \/ Subscribes \/ Capture \/ UNCHANGED vars
    BY <2>4, OthersKeep, ProxyAssumption
  <2> QED BY <2>1, <2>2, <2>3, <2>4, Zenon DEF Next, Outside
<1> QED BY <1>1, <1>2, PTL DEF Spec

(* In each place a packet is once or not at all, so that the counts of     *)
(* Accounted add up to one.                                                *)
LEMMA AccountImplies ==
  ASSUME ProxyAssumption, AccountInv
  PROVE  Accounted
<1>1. TypeOK /\ (sender.pc = "scan" => sender.left \in 1 .. Len(delayed))
  BY Zenon DEF AccountInv, RoundInv
<1>2. ASSUME NEW p \in 1 .. taken
      PROVE  LET hand  == IF main.pc \in Holding /\ p = taken THEN 1 ELSE 0
                 held  == IF sender.pc = "held" /\ sender.dmsg.packet = p THEN 1 ELSE 0
                 queue == Quantify(DOMAIN delayed, LAMBDA i : delayed[i].packet = p)
                 sent  == Quantify(DOMAIN out, LAMBDA i : out[i] = p)
                 gone  == Quantify(dropped, LAMBDA d : d[1] = p)
             IN  hand + held + queue + sent + gone = 1
  <2> DEFINE Q == {i \in DOMAIN delayed : delayed[i].packet = p}
             S == {i \in DOMAIN out : out[i] = p}
             G == {d \in dropped : d[1] = p}
  <2>1. Cardinality(Q) = IF Queued(p) THEN 1 ELSE 0
    <3>1. CASE Queued(p)
      <4>1. PICK i \in DOMAIN delayed : delayed[i].packet = p
        BY <3>1 DEF Queued
      <4>2. Q = {i}
        BY <4>1, Zenon DEF AccountInv, QueueOnce
      <4> QED BY <3>1, <4>2, FS_Singleton
    <3>2. CASE ~Queued(p)
      <4>1. Q = {}
        BY <3>2, Zenon DEF Queued
      <4> QED BY <3>2, <4>1, FS_EmptySet
    <3> QED BY <3>1, <3>2
  <2>2. Cardinality(S) = IF Sent(p) THEN 1 ELSE 0
    <3>1. CASE Sent(p)
      <4>1. PICK i \in DOMAIN out : out[i] = p
        BY <3>1 DEF Sent
      <4>2. S = {i}
        BY <4>1, Zenon DEF AccountInv, SentOnce
      <4> QED BY <3>1, <4>2, FS_Singleton
    <3>2. CASE ~Sent(p)
      <4>1. S = {}
        BY <3>2, Zenon DEF Sent
      <4> QED BY <3>2, <4>1, FS_EmptySet
    <3> QED BY <3>1, <3>2
  <2>3. Cardinality(G) = IF Gone(p) THEN 1 ELSE 0
    <3>1. CASE Gone(p)
      <4>1. PICK d \in dropped : d[1] = p
        BY <3>1 DEF Gone
      <4>2. G = {d}
        BY <4>1, Zenon DEF AccountInv, GoneOnce
      <4> QED BY <3>1, <4>2, FS_Singleton
    <3>2. CASE ~Gone(p)
      <4>1. G = {}
        BY <3>2, Zenon DEF Gone
      <4> QED BY <3>2, <4>1, FS_EmptySet
    <3> QED BY <3>1, <3>2
  <2>4. PICK x \in Places : \A y \in Places : In(y, p) <=> y = x
    BY Zenon DEF AccountInv, OnePlace
  <2>5. /\ Hand(p) <=> x = "hand"
        /\ Held(p) <=> x = "held"
        /\ Queued(p) <=> x = "queue"
        /\ Sent(p) <=> x = "sent"
        /\ Gone(p) <=> x = "gone"
    BY <2>4 DEF In, Places
  <2> HIDE DEF Q, S, G
  <2>6. (IF Hand(p) THEN 1 ELSE 0) + (IF Held(p) THEN 1 ELSE 0)
          + Cardinality(Q) + Cardinality(S) + Cardinality(G) = 1
    BY <2>1, <2>2, <2>3, <2>5 DEF Places
  <2> QED BY <2>6 DEF Q, S, G, Hand, Held, Quantify
<1> QED BY <1>1, <1>2, Zenon DEF Accounted

(* Whatever two threads do with the queue, however full it is: a packet    *)
(* the proxy received is in exactly one place, and csp_queue_dequeue never *)
(* finds the queue empty.                                                  *)
THEOREM ProxyAccounted == Spec => []Accounted
<1>1. AccountInv => Accounted
  BY AccountImplies, ProxyAssumption
<1> QED BY <1>1, AccountAlways, PTL

-----------------------------------------------------------------------------
(* Concatenation is associative.                                           *)
LEMMA Regroup ==
  ASSUME NEW x \in Seq(Nat), NEW y \in Seq(Nat), NEW z \in Seq(Nat)
  PROVE  (x \o y) \o z = x \o (y \o z)
BY SMTT(30), ConcatAssociative

(* What is published reaches the capture task at its end of the line.      *)
LEMMA SendKeepsOrder ==
  ASSUME DataOK, CapturedInOrder, NEW p \in Nat, out' = Append(out, p),
         capture' = [capture EXCEPT !.pending = Append(@, p)]
  PROVE  CapturedInOrder'
<1> SUFFICES ASSUME ~capture'.skipped
             PROVE  out' = capture'.logged \o capture'.pending
  BY Zenon DEF CapturedInOrder
<1> DEFINE l == capture.logged
           w == capture.pending
<1>1. l \in Seq(Nat) /\ w \in Seq(Nat) /\ out \in Seq(Nat) /\ <<p>> \in Seq(Nat)
  BY DEF DataOK
<1>2. capture'.logged = l /\ capture'.pending = Append(w, p) /\ capture'.skipped = capture.skipped
  BY DEF DataOK
<1>3. out = l \o w
  BY <1>2 DEF CapturedInOrder
<1> HIDE DEF l, w
<1>4. Append(w, p) = w \o <<p>> /\ Append(out, p) = out \o <<p>>
  BY <1>1, AppendIsConcat, Zenon
<1>5. (l \o w) \o <<p>> = l \o (w \o <<p>>)
  BY <1>1, Regroup
<1> QED BY <1>2, <1>3, <1>4, <1>5, Zenon

(* The capture task logs the packet it reads, and reads them in order.     *)
LEMMA CaptureKeepsOrder ==
  ASSUME DataOK, CapturedInOrder, Capture
  PROVE  CapturedInOrder'
<1> SUFFICES ASSUME ~capture'.skipped
             PROVE  out' = capture'.logged \o capture'.pending
  BY Zenon DEF CapturedInOrder
<1> DEFINE l == capture.logged
           w == capture.pending
<1>1. l \in Seq(Nat) /\ w \in Seq(Nat) /\ out' = out
  BY DEF DataOK, Capture
<1>2. w # << >>
  BY DEF Capture
<1>3. capture' = [capture EXCEPT !.pending = Tail(@), !.logged = @ \o NewlyLogged]
  BY DEF Capture, DataOK
<1>4. capture'.logged = l \o <<Head(w)>> /\ capture'.pending = Tail(w)
        /\ capture'.skipped = capture.skipped
  BY <1>3 DEF DataOK, NewlyLogged
<1>5. out = l \o w
  BY <1>4 DEF CapturedInOrder
<1> HIDE DEF l, w
<1>6. Head(w) \in Nat /\ Tail(w) \in Seq(Nat) /\ w = <<Head(w)>> \o Tail(w) /\ <<Head(w)>> \in Seq(Nat)
  BY <1>1, <1>2, HeadTailProperties
<1>7. (l \o <<Head(w)>>) \o Tail(w) = l \o (<<Head(w)>> \o Tail(w))
  BY <1>1, <1>6, Regroup
<1> QED BY <1>1, <1>4, <1>5, <1>6, <1>7, Zenon

(* Until a short packet makes it skip, the capture task logs everything    *)
(* the proxy publishes, once and in order, whichever thread published it.  *)
THEOREM ProxyCapturedInOrder == Spec => []CapturedInOrder
<1>1. Init => CapturedInOrder
  BY DEF Init, CapturedInOrder
<1>2. AccountInv /\ CapturedInOrder /\ [Next]_vars => CapturedInOrder'
  <2> SUFFICES ASSUME AccountInv, CapturedInOrder, [Next]_vars PROVE CapturedInOrder'
    OBVIOUS
  <2>0. DataOK /\ taken \in Nat
    BY DEF AccountInv, TypeOK, taken
  <2>1. CASE Forward
    <3>1. out' = Append(out, taken) /\ capture' = [capture EXCEPT !.pending = Append(@, taken)]
      BY <2>1 DEF Forward, Send
    <3> QED BY <2>0, <3>1, SendKeepsOrder, Zenon
  <2>2. CASE SenderSend
    <3>1. /\ out' = Append(out, sender.dmsg.packet) /\ sender.dmsg.packet \in Nat
          /\ capture' = [capture EXCEPT !.pending = Append(@, sender.dmsg.packet)]
      BY <2>2, InHeld DEF SenderSend, SenderAt, Send
    <3> QED BY <2>0, <3>1, SendKeepsOrder, Zenon
  <2>3. CASE Capture
    BY <2>0, <2>3, CaptureKeepsOrder
  <2>4. CASE UNCHANGED <<out, capture>>
    BY <2>4 DEF CapturedInOrder
  <2>5. CASE UNCHANGED vars
    BY <2>5 DEF vars, outVars, CapturedInOrder
  <2>6. CASE Outside
    BY <2>4, <2>6 DEF Outside, Start, Tick, PollPacket, Subscribes, outVars
  <2>7. CASE MainNext
    BY <2>1, <2>4, <2>7 DEF MainNext, PollSubscription, HdxMustWait, HdxPass, HdxPowerUp, HdxEnqueue,
       Lose, Delay, Backend, outVars
  <2>8. CASE SenderNext
    BY <2>2, <2>4, <2>8 DEF SenderNext, SenderFront, SenderDequeue, SenderKeep, SenderStamp,
       SenderPowered, outVars
  <2> QED BY <2>3, <2>5, <2>6, <2>7, <2>8 DEF Next
<1> QED BY <1>1, <1>2, AccountAlways, PTL DEF Spec
=============================================================================
