------------------------------ MODULE ZmqProxy -------------------------------
(***************************************************************************)
(* The ZMQ proxy (src/zmqproxy.c), the separate program that connects the  *)
(* shells and nodes of a network, built with ZMQ_PROXY_LOSSY and started   *)
(* with one of the options that enable it.  It forwards packets from       *)
(* `frontend` to `backend`, and subscriptions the other way, and on the    *)
(* way loses or delays packets and imitates a half duplex node.            *)
(*                                                                         *)
(* Three threads: the main loop zmq_proxy_lossy, which reads both sockets; *)
(* task_delay_send, which rotates the queue of delayed packets until one   *)
(* is due; and task_capture, which logs what is published (-d 2).  The     *)
(* queue is safe to share, the two hdx times are plain shared variables.   *)
(*                                                                         *)
(* A packet is its number in order of arrival; its kind says whether it    *)
(* comes from the half duplex node, goes to it, concerns others, or is     *)
(* too short for a header.  The clock csp_get_ms() is `now`.  Which packet *)
(* is lost, delayed or has a bit flipped is drawn at random in the code    *)
(* and arbitrary here; a flipped bit leaves the packet what it is.         *)
(***************************************************************************)
EXTENDS Naturals, Sequences, SequencesExt, FiniteSetsExt

CONSTANTS
  QueueCap,             (* capacity of the delay queue, 1024 in the code     *)
  hdx_node,             (* whether a half duplex node was chosen (-N)        *)
  hdx_powerup_delay, hdx_powerdown_delay, delay_ms,
  Kinds,                (* of packets: a subset of AllKinds                  *)
  MaxPackets, MaxTime                                              (* bounds *)

AllKinds == {"from", "to", "other", "short"}

ASSUME ProxyAssumption ==
  /\ QueueCap \in Nat \ {0} /\ hdx_node \in BOOLEAN
  /\ hdx_powerup_delay \in Nat /\ hdx_powerdown_delay \in Nat /\ delay_ms \in Nat
  /\ Kinds \subseteq AllKinds
  /\ MaxPackets \in Nat /\ MaxTime \in Nat /\ hdx_powerdown_delay < MaxTime

VARIABLES
  status,        (* "starting" or "running"                                  *)
  now,           (* csp_get_ms(), which is large when a proxy starts         *)
  kind,          (* the kinds of the packets received on frontend, in order  *)
  subscription,  (* whether a subscription waits on backend                  *)
  main,          (* the main loop: where it is, and whether poll reported    *)
                 (* something on backend                                     *)
  delayed,       (* the delay queue: packet, time and hdx mark               *)
  sender,        (* the delay thread: where it is, iterations left, dmsg     *)
  hdx_last_tx_ms, hdx_powerup_start_ms,
  out,           (* the packets sent on backend, in order                    *)
  dropped,       (* packets given up, with the reason                        *)
  capture        (* the capture task: what it still has to read, what it     *)
                 (* logged, and whether a short packet made it skip any      *)

hdxVars == <<hdx_last_tx_ms, hdx_powerup_start_ms>>
inVars  == <<kind, subscription>>
outVars == <<out, dropped, capture>>
vars == <<status, now, inVars, main, delayed, sender, hdxVars, outVars>>

Packets == 1 .. MaxPackets
Nothing == [packet |-> 0, at |-> 0, hdx |-> FALSE]

Init ==
  /\ status = "starting" /\ now = hdx_powerdown_delay + 1
  /\ kind = << >> /\ subscription = FALSE
  /\ main = [pc |-> "poll", backend |-> FALSE]
  /\ delayed = << >> /\ sender = [pc |-> "front", left |-> 0, dmsg |-> Nothing]
  /\ hdx_last_tx_ms = 0 /\ hdx_powerup_start_ms = 0
  /\ out = << >> /\ dropped = {}
  /\ capture = [pending |-> << >>, logged |-> << >>, skipped |-> FALSE]

-----------------------------------------------------------------------------
(* main(): in this build -a and -k take no argument (shortopts), so that   *)
(* no key is read and none of the early returns of main is reached.        *)
Start ==
  /\ status = "starting"
  /\ status' = "running"
  /\ UNCHANGED <<now, inVars, main, delayed, sender, hdxVars, outVars>>

(* External: time passes, somebody subscribes.                             *)
Tick ==
  /\ status = "running" /\ now < MaxTime
  /\ now' = now + 1
  /\ UNCHANGED <<status, inVars, main, delayed, sender, hdxVars, outVars>>

Subscribes ==
  /\ status = "running" /\ ~subscription
  /\ subscription' = TRUE
  /\ UNCHANGED <<status, now, kind, main, delayed, sender, hdxVars, outVars>>

-----------------------------------------------------------------------------
(* The main loop.                                                          *)

AtMain(pc) == status = "running" /\ main.pc = pc
MainTo(pc) == main' = [main EXCEPT !.pc = pc]

(* The packet in hand, while the loop is at one of Holding.                *)
taken == Len(kind)

(* zmq_poll reports a packet on frontend, which is received at once, and   *)
(* whether there is something on backend.  (A packet that arrives earlier  *)
(* waits where only this step can see it.)                                 *)
PollPacket(k) ==
  /\ AtMain("poll") /\ Len(kind) < MaxPackets
  /\ kind' = Append(kind, k)
  /\ main' = [pc |-> IF hdx_node THEN "hdx" ELSE "fate", backend |-> subscription]
  /\ UNCHANGED <<status, now, subscription, delayed, sender, hdxVars, outVars>>

(* zmq_poll reports something on backend only.                             *)
PollSubscription ==
  /\ AtMain("poll") /\ subscription
  /\ main' = [pc |-> "backend", backend |-> TRUE]
  /\ UNCHANGED <<status, now, inVars, delayed, sender, hdxVars, outVars>>

(* Who the packet in hand seems to come from or go to.  csp_id_strip       *)
(* leaves packet->id alone when there is no header: the id is that of the  *)
(* last packet with one, or what malloc returned.                          *)
Addressed ==
  LET headers == {p \in 1 .. taken : kind[p] # "short"}
  IN  IF headers = {} THEN AllKinds \ {"short"} ELSE {kind[Max(headers)]}

(* The transmitter of the half duplex node is off: the packet must wait.   *)
TransmitterOff == now > hdx_last_tx_ms + hdx_powerdown_delay

HdxMustWait ==
  /\ AtMain("hdx") /\ "from" \in Addressed /\ TransmitterOff
  /\ MainTo("powerup")
  /\ UNCHANGED <<status, now, inVars, delayed, sender, hdxVars, outVars>>

(* Otherwise a packet from the node passes and keeps it transmitting, and  *)
(* one to the node is dropped while it transmits.                          *)
HdxPass ==
  /\ AtMain("hdx")
  /\ \E k \in Addressed :
       /\ ~(k = "from" /\ TransmitterOff)
       /\ hdx_last_tx_ms' = IF k = "from" THEN now ELSE hdx_last_tx_ms
       /\ IF k = "to" /\ hdx_last_tx_ms + hdx_powerdown_delay > now
          THEN dropped' = dropped \cup {<<taken, "receiver_off">>} /\ MainTo("poll")
          ELSE UNCHANGED dropped /\ MainTo("fate")
  /\ UNCHANGED <<status, now, inVars, delayed, sender, hdx_powerup_start_ms, out, capture>>

(* The power-up starts with the first packet that waits.                   *)
HdxPowerUp ==
  /\ AtMain("powerup")
  /\ hdx_powerup_start_ms' = IF hdx_powerup_start_ms = 0 THEN now ELSE hdx_powerup_start_ms
  /\ MainTo("enqueue")
  /\ UNCHANGED <<status, now, inVars, delayed, sender, hdx_last_tx_ms, outVars>>

(* csp_queue_enqueue without waiting: its result is ignored, so that a     *)
(* packet for which there is no room is gone.                              *)
Enqueue(dmsg) ==
  IF Len(delayed) < QueueCap
  THEN delayed' = Append(delayed, dmsg) /\ UNCHANGED dropped
  ELSE dropped' = dropped \cup {<<dmsg.packet, "queue_full">>} /\ UNCHANGED delayed

HdxEnqueue ==
  /\ AtMain("enqueue")
  /\ Enqueue([packet |-> taken, at |-> hdx_powerup_start_ms + hdx_powerup_delay, hdx |-> TRUE])
  /\ MainTo("poll")
  /\ UNCHANGED <<status, now, inVars, sender, hdxVars, out, capture>>

(* zmq_msg_send on backend; the capture task subscribes to everything.     *)
Send(packet) ==
  /\ out' = Append(out, packet)
  /\ capture' = [capture EXCEPT !.pending = Append(@, packet)]

Lose ==
  /\ AtMain("fate")
  /\ dropped' = dropped \cup {<<taken, "lost">>}
  /\ MainTo("backend")
  /\ UNCHANGED <<status, now, inVars, delayed, sender, hdxVars, out, capture>>

(* A delayed packet ends the iteration: backend is not looked at.          *)
Delay ==
  /\ AtMain("fate")
  /\ Enqueue([packet |-> taken, at |-> now + delay_ms, hdx |-> FALSE])
  /\ MainTo("poll")
  /\ UNCHANGED <<status, now, inVars, sender, hdxVars, out, capture>>

Forward ==
  /\ AtMain("fate")
  /\ Send(taken)
  /\ MainTo("backend")
  /\ UNCHANGED <<status, now, inVars, delayed, sender, hdxVars, dropped>>

(* The second half of the iteration: a subscription goes to frontend if    *)
(* poll had reported one.                                                  *)
Backend ==
  /\ AtMain("backend")
  /\ subscription' = (subscription /\ ~main.backend)
  /\ MainTo("poll")
  /\ UNCHANGED <<status, now, kind, delayed, sender, hdxVars, outVars>>

-----------------------------------------------------------------------------
(* The delay thread.  (A name ending in Mut is a deliberately wrong        *)
(* variant, used only to show that a property can fail.)                   *)

SenderAt(pc) == status = "running" /\ sender.pc = pc

(* The label front: one round over the packets queued at this moment.      *)
SenderFront ==
  /\ SenderAt("front") /\ Len(delayed) > 0
  /\ sender' = [sender EXCEPT !.pc = "scan", !.left = Len(delayed)]
  /\ UNCHANGED <<status, now, inVars, main, delayed, hdxVars, outVars>>

SenderDequeue ==
  /\ SenderAt("scan")
  /\ sender' = [sender EXCEPT !.pc = "held", !.dmsg = Head(delayed)]
  /\ delayed' = Tail(delayed)
  /\ UNCHANGED <<status, now, inVars, main, hdxVars, outVars>>

DueMut(dmsg) == now = dmsg.at
Due(dmsg) == now > dmsg.at

(* A packet that is due is sent, and a new round begins.                   *)
SenderSend ==
  /\ SenderAt("held") /\ Due(sender.dmsg)
  /\ Send(sender.dmsg.packet)
  /\ sender' = [pc |-> IF sender.dmsg.hdx THEN "stamp" ELSE "front",
                left |-> 0, dmsg |-> Nothing]
  /\ UNCHANGED <<status, now, inVars, main, delayed, hdxVars, dropped>>

(* Otherwise it goes back to the end of the queue -- unless the main loop  *)
(* has filled the place it came from.                                      *)
KeptMut(dmsg) == delayed' = Append(Append(delayed, dmsg), dmsg) /\ UNCHANGED dropped
Kept(dmsg) == Enqueue(dmsg)

SenderKeep ==
  /\ SenderAt("held") /\ ~Due(sender.dmsg)
  /\ Kept(sender.dmsg)
  /\ sender' = [pc |-> IF sender.left > 1 THEN "scan" ELSE "front",
                left |-> sender.left - 1, dmsg |-> Nothing]
  /\ UNCHANGED <<status, now, inVars, main, hdxVars, out, capture>>

(* After a packet of the half duplex node: first the time of this          *)
(* transmission is stored, then the power-up is over.                      *)
SenderStamp ==
  /\ SenderAt("stamp")
  /\ hdx_last_tx_ms' = now
  /\ sender' = [sender EXCEPT !.pc = "powered"]
  /\ UNCHANGED <<status, now, inVars, main, delayed, hdx_powerup_start_ms, outVars>>

SenderPowered ==
  /\ SenderAt("powered")
  /\ hdx_powerup_start_ms' = 0
  /\ sender' = [sender EXCEPT !.pc = "front"]
  /\ UNCHANGED <<status, now, inVars, main, delayed, hdx_last_tx_ms, outVars>>

-----------------------------------------------------------------------------
(* The capture task logs a packet with a header.  A shorter one makes it   *)
(* read on, without logging, until nothing is left to read.                *)
NewlyLoggedMut == <<Last(capture.pending)>>
NewlyLogged == <<Head(capture.pending)>>

Capture ==
  /\ status = "running" /\ capture.pending # << >>
  /\ capture' = IF kind[Head(capture.pending)] = "short"
                THEN [capture EXCEPT !.pending = << >>, !.skipped = TRUE]
                ELSE [capture EXCEPT !.pending = Tail(@), !.logged = @ \o NewlyLogged]
  /\ UNCHANGED <<status, now, inVars, main, delayed, sender, hdxVars, out, dropped>>

-----------------------------------------------------------------------------
Outside ==
  \/ Start
  \/ Tick
  \/ \E k \in Kinds : PollPacket(k)
  \/ Subscribes

MainNext ==
  \/ PollSubscription \/ HdxMustWait \/ HdxPass \/ HdxPowerUp \/ HdxEnqueue
  \/ Lose \/ Delay \/ Forward \/ Backend

SenderNext ==
  SenderFront \/ SenderDequeue \/ SenderSend \/ SenderKeep \/ SenderStamp \/ SenderPowered

Next == Outside \/ MainNext \/ SenderNext \/ Capture

Spec == Init /\ [][Next]_vars

(* Fairness: the three threads are scheduled and the clock goes on;        *)
(* packets come or not.                                                    *)
FairSpec == Spec /\ WF_vars(MainNext) /\ WF_vars(SenderNext) /\ WF_vars(Capture) /\ WF_vars(Tick)

-----------------------------------------------------------------------------
(* Properties.                                                             *)

Holding == {"hdx", "powerup", "enqueue", "fate"}

(* Types of all variables, part of Accounted.                              *)
TypeOK ==
  /\ status \in {"starting", "running"} /\ now \in Nat /\ now <= MaxTime
  /\ kind \in Seq(Kinds) /\ Len(kind) <= MaxPackets
  /\ main.pc \in Holding \cup {"poll", "backend"} /\ main.backend \in BOOLEAN
  /\ Len(delayed) <= QueueCap
  /\ sender.pc \in {"front", "scan", "held", "stamp", "powered"}

(* A packet the proxy received is in one place and only once, with two     *)
(* threads taking packets from the queue and putting them back: in hand,   *)
(* delayed, held by the delay thread, sent, or given up for a reason; and  *)
(* the queue is never empty when the delay thread takes from it.           *)
Accounted ==
  /\ TypeOK
  /\ sender.pc = "scan" => sender.left \in 1 .. Len(delayed)
  /\ \A p \in 1 .. taken :
       LET hand  == IF main.pc \in Holding /\ p = taken THEN 1 ELSE 0
           held  == IF sender.pc = "held" /\ sender.dmsg.packet = p THEN 1 ELSE 0
           queue == Quantify(DOMAIN delayed, LAMBDA i : delayed[i].packet = p)
           sent  == Quantify(DOMAIN out, LAMBDA i : out[i] = p)
           gone  == Quantify(dropped, LAMBDA d : d[1] = p)
       IN  hand + held + queue + sent + gone = 1

(* Unless a packet was too short, everything published is logged once and  *)
(* in the order in which it was published.                                 *)
CapturedInOrder ==
  ~capture.skipped => out = capture.logged \o capture.pending

(* Packets that wait in the queue behind others, and are put back and      *)
(* overtaken while it rotates, do not wait for ever: again and again no    *)
(* packet is overdue.                                                      *)
DelayedIsSent == []<>(\A i \in DOMAIN delayed : now <= delayed[i].at)
=============================================================================
