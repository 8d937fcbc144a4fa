---------------------------- MODULE PacketFilter ----------------------------
(***************************************************************************)
(* What the netfilter module promises to the traffic, without its steps: a *)
(* packet enters on some CPU while the filter is registered, is inspected, *)
(* and leaves with one verdict out of those its content allows.  How many  *)
(* CPUs inspect at the same time, copies of packets and shortage of memory *)
(* are invisible here.                                                     *)
(***************************************************************************)
CONSTANTS Cpus, Packets, NULL,
          Allowed(_)           \* the verdicts a packet may receive

VARIABLES registered, stage, packet, verdict

vars == <<registered, stage, packet, verdict>>

Init ==
  /\ registered = FALSE
  /\ stage   = [c \in Cpus |-> "idle"]
  /\ packet  = [c \in Cpus |-> NULL]
  /\ verdict = [c \in Cpus |-> NULL]

Register ==
  /\ ~registered /\ registered'
  /\ UNCHANGED <<stage, packet, verdict>>

Unregister ==
  /\ registered /\ ~registered'
  /\ UNCHANGED <<stage, packet, verdict>>

Enter(c) ==
  /\ registered
  /\ stage[c] = "idle"
  /\ stage' = [stage EXCEPT ![c] = "inspecting"]
  /\ \E p \in Packets \cup {NULL} : packet' = [packet EXCEPT ![c] = p]
  /\ UNCHANGED <<registered, verdict>>

Decide(c) ==
  /\ stage[c] = "inspecting"
  /\ stage' = [stage EXCEPT ![c] = "decided"]
  /\ \E v \in Allowed(packet[c]) : verdict' = [verdict EXCEPT ![c] = v]
  /\ UNCHANGED <<registered, packet>>

Leave(c) ==
  /\ stage[c] = "decided"
  /\ stage'   = [stage EXCEPT ![c] = "idle"]
  /\ packet'  = [packet EXCEPT ![c] = NULL]
  /\ verdict' = [verdict EXCEPT ![c] = NULL]
  /\ UNCHANGED registered

Next ==
  \/ Register \/ Unregister
  \/ \E c \in Cpus : Enter(c) \/ Decide(c) \/ Leave(c)

Spec == Init /\ [][Next]_vars

=============================================================================
