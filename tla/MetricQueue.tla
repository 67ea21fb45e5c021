----------------------------- MODULE MetricQueue -----------------------------
(***************************************************************************)
(* What the Victoria Metrics exporter promises about a sample it accepted, *)
(* without its threads, its buffer or its mutex: accepted samples are      *)
(* delivered in order, at least once, in batches that contain everything   *)
(* outstanding; a sample counts as confirmed only with all those before it *)
(* and only when the server has it.                                        *)
(***************************************************************************)
EXTENDS Naturals, Sequences

CONSTANT Samples

VARIABLES
  accepted,   (* the samples taken over from the sniffer, in order          *)
  confirmed,  (* how many of them, from the first on, are known delivered   *)
  received    (* the samples the server has seen                            *)

vars == <<accepted, confirmed, received>>

Outstanding == {accepted[i] : i \in confirmed + 1 .. Len(accepted)}

Init == accepted = << >> /\ confirmed = 0 /\ received = {}

(* A new sample is accepted; it was never accepted before.                 *)
Accept(sample) ==
  /\ \A i \in 1 .. Len(accepted) : accepted[i] # sample
  /\ accepted' = Append(accepted, sample)
  /\ UNCHANGED <<confirmed, received>>

(* The server takes a batch, and its answer is lost.                       *)
DeliverUnconfirmed ==
  /\ received' = received \cup Outstanding
  /\ UNCHANGED <<accepted, confirmed>>

(* The server takes a batch and confirms it.                               *)
Deliver ==
  /\ received' = received \cup Outstanding
  /\ confirmed' = Len(accepted)
  /\ UNCHANGED accepted

Next ==
  \/ \E sample \in Samples : Accept(sample)
  \/ DeliverUnconfirmed
  \/ Deliver

Spec == Init /\ [][Next]_vars
=============================================================================
