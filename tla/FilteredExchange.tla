--------------------------- MODULE FilteredExchange ---------------------------
(***************************************************************************)
(* The netfilter examples end to end: the clients and the server of        *)
(* user_space, TCP between them, and the kernel module on the server's     *)
(* side.  The module is the atomic filter that NetfilterHook implements,   *)
(* with enough memory: it drops the segments of the messages in Dropped.   *)
(*                                                                         *)
(* TCP knows nothing of the filter.  It sends a dropped segment again and  *)
(* again until it gives up the connection; the server waits all this time. *)
(*                                                                         *)
(* A definition with an underscore in its name is a mistake that one could *)
(* make in the definition that follows it; the runs detect each of them.   *)
(***************************************************************************)
EXTENDS Naturals, Sequences

CONSTANTS Clients, Messages,
          Dropped,        \* the messages process_message answers NF_DROP to
          Descriptors,    \* how many connections the server may hold
          MaxConns        \* bound: connections dialed in a behaviour

ASSUME ExchangeAssumption ==
  /\ Dropped \subseteq Messages
  /\ Descriptors \in Nat
  /\ MaxConns \in Nat

VARIABLES hooked,    \* the kernel module is loaded and its hook registered
          client,    \* per client: waiting for input, dialed, or exited
          conns,     \* the connections, in the order they were dialed
          server,    \* accepting, reading from the last accepted, or exited
          accepted,  \* how many connections the server has accepted
          received   \* the connections whose message the server printed

vars == <<hooked, client, conns, server, accepted, received>>

\* What became of the one segment that carries the message of a connection.
\* open: not written yet.  closed: never written, the client has exited.
Segments == {"open", "closed", "sent", "delivered", "aborted"}

\* History, per message: the filter was there when it was written and has been
\* since; the filter has dropped a transmission of it.
ConnType == [client : Clients, msg : Messages, seg : Segments,
             watched : BOOLEAN, dropped : BOOLEAN]

TypeOK ==
  /\ hooked \in BOOLEAN
  /\ client \in [Clients -> {"input", "dialed", "exited"}]
  /\ conns \in Seq(ConnType) /\ Len(conns) <= MaxConns
  /\ server \in {"accept", "read", "exited"}
  /\ accepted \in 0..Len(conns)
  /\ received \in Seq(1..Len(conns))

Init ==
  /\ hooked = FALSE
  /\ client = [c \in Clients |-> "input"]
  /\ conns = <<>>
  /\ server = "accept"
  /\ accepted = 0
  /\ received = <<>>

SetSegment(i, seg) == conns' = [conns EXCEPT ![i].seg = seg]

-----------------------------------------------------------------------------
\* Clients

\* Every input gets a connection of its own; connections are completed by the
\* kernel, in the order they are dialed, before the server accepts them.  A
\* client that cannot connect panics.
Dial(c, m) ==
  /\ client[c] = "input"
  /\ \/ /\ server # "exited"
        /\ Len(conns) < MaxConns
        /\ conns' = Append(conns, [client |-> c, msg |-> m, seg |-> "open",
                                  watched |-> FALSE, dropped |-> FALSE])
        /\ client' = [client EXCEPT ![c] = "dialed"]
     \/ /\ server = "exited"
        /\ client' = [client EXCEPT ![c] = "exited"]
        /\ UNCHANGED conns
  /\ UNCHANGED <<hooked, server, accepted, received>>

\* Prefix and message go out in one write, in one segment.  The client then
\* waits for the next input; it closes no connection before it exits, which it
\* does when the server has reset this one.
Write(c) ==
  /\ client[c] = "dialed"
  /\ \E i \in 1..Len(conns) :
       /\ conns[i].client = c /\ conns[i].seg = "open"
       /\ \/ /\ conns' = [conns EXCEPT ![i].seg = "sent", ![i].watched = hooked]
             /\ client' = [client EXCEPT ![c] = "input"]
          \/ /\ server = "exited"
             /\ SetSegment(i, "closed")
             /\ client' = [client EXCEPT ![c] = "exited"]
  /\ UNCHANGED <<hooked, server, accepted, received>>

\* ctrl-c.  TCP goes on sending what was written.
Interrupt(c) ==
  /\ client[c] # "exited"
  /\ client' = [client EXCEPT ![c] = "exited"]
  /\ conns' = [i \in 1..Len(conns) |->
                 IF conns[i].client = c /\ conns[i].seg = "open"
                 THEN [conns[i] EXCEPT !.seg = "closed"] ELSE conns[i]]
  /\ UNCHANGED <<hooked, server, accepted, received>>

-----------------------------------------------------------------------------
\* TCP and the filter

\* a rule that confuses the verdicts
Passes_Swapped(i) == ~hooked \/ conns[i].msg \in Dropped

Passes(i) == ~hooked \/ conns[i].msg \notin Dropped

\* The first transmission of a segment, or a later one.
Transmit(i) ==
  /\ conns[i].seg = "sent"
  /\ \/ Passes(i) /\ SetSegment(i, "delivered")
     \/ ~Passes(i) /\ conns' = [conns EXCEPT ![i].dropped = TRUE]
  /\ UNCHANGED <<hooked, client, server, accepted, received>>

\* After some fifteen minutes of retransmissions the sender gives up.
GiveUp(i) ==
  /\ conns[i].seg = "sent"
  /\ conns[i].dropped
  /\ SetSegment(i, "aborted")
  /\ UNCHANGED <<hooked, client, server, accepted, received>>

Load ==
  /\ hooked = FALSE
  /\ hooked' = TRUE
  /\ UNCHANGED <<client, conns, server, accepted, received>>

Unload ==
  /\ hooked = TRUE
  /\ hooked' = FALSE
  /\ conns' = [i \in 1..Len(conns) |->
                 IF conns[i].seg = "sent"
                 THEN [conns[i] EXCEPT !.watched = FALSE] ELSE conns[i]]
  /\ UNCHANGED <<client, server, accepted, received>>

-----------------------------------------------------------------------------
\* The server

\* an accept that does not wait for a connection
Accept_Polls ==
  /\ server = "accept"
  /\ accepted' = accepted + 1
  /\ server' = "read"
  /\ UNCHANGED <<hooked, client, conns, received>>

\* No connection is closed before main returns.  When the descriptors are used
\* up, Accept answers an error and the server tries again, forever.
Accept ==
  /\ server = "accept"
  /\ accepted < Len(conns)
  /\ accepted < Descriptors
  /\ accepted' = accepted + 1
  /\ server' = "read"
  /\ UNCHANGED <<hooked, client, conns, received>>

\* return at the end of the loop's body
Receive_Returns ==
  /\ server = "read"
  /\ conns[accepted].seg = "delivered"
  /\ received' = Append(received, accepted)
  /\ server' = "exited"
  /\ UNCHANGED <<hooked, client, conns, accepted>>

\* binary.Read, conn.Read and Unmarshal; the server accepts the next one only
\* after it has printed this message.
Receive ==
  /\ server = "read"
  /\ conns[accepted].seg = "delivered"
  /\ received' = Append(received, accepted)
  /\ server' = "accept"
  /\ UNCHANGED <<hooked, client, conns, accepted>>

\* continue in place of return
ReadError_Continues ==
  /\ server = "read"
  /\ conns[accepted].seg \in {"closed", "aborted"}
  /\ server' = "accept"
  /\ UNCHANGED <<hooked, client, conns, accepted, received>>

\* A connection that ends before its message (EOF, or a reset found by the
\* keepalive) ends the server: main returns.
ReadError ==
  /\ server = "read"
  /\ conns[accepted].seg \in {"closed", "aborted"}
  /\ server' = "exited"
  /\ UNCHANGED <<hooked, client, conns, accepted, received>>

Next ==
  \/ \E c \in Clients : Write(c) \/ Interrupt(c) \/ \E m \in Messages : Dial(c, m)
  \/ \E i \in 1..Len(conns) : Transmit(i) \/ GiveUp(i)
  \/ Load \/ Unload
  \/ Accept \/ Receive \/ ReadError

Spec == Init /\ [][Next]_vars

\* Who has something to do does it: a client that has connected writes, TCP
\* sends what was written, the server accepts and reads.  Nobody has to load or
\* unload the module, to type a number, or to give up a connection.
FairSpec ==
  /\ Spec
  /\ WF_vars(Accept) /\ WF_vars(Receive)
  /\ \A c \in Clients : WF_vars(Write(c))
  /\ \A i \in 1..MaxConns : WF_vars(i <= Len(conns) /\ Transmit(i))

-----------------------------------------------------------------------------
\* Properties

\* A message the rule drops reaches the server only if the module was not
\* loaded at some moment between its write and its delivery.
FilteredWhileLoaded ==
  \A n \in 1..Len(received) :
    conns[received[n]].msg \in Dropped => ~conns[received[n]].watched

\* The server prints the messages in the order of the connections and skips
\* none: one that is held back holds back all that were dialed after it, even
\* those of other clients.
ReceivedInOrder ==
  /\ Len(received) <= accepted
  /\ \A n \in 1..Len(received) : received[n] = n

Received(i) == \E n \in 1..Len(received) : received[n] = i

Written(i) == i <= Len(conns) /\ conns[i].seg \in {"sent", "delivered"}

\* As long as the rule drops none of them, every message is received that was
\* written together with all those before it, whatever the module does; until
\* the server has no descriptor left.
ReceivedUnlessBlocked ==
  \A i \in 1..MaxConns : i <= Descriptors =>
    (\A j \in 1..i : Written(j) /\ conns[j].msg \notin Dropped) ~> Received(i)

\* "if you send a number >= 20 the server does not receive the packet": not
\* even after the module is unloaded.
DroppedNeverReceived ==
  \A n \in 1..Len(received) : ~conns[received[n]].dropped

\* ... and the packets with other numbers it receives, if nobody exits.
AcceptedReceived ==
  [](server # "exited" /\ \A c \in Clients : client[c] # "exited") =>
    \A i \in 1..MaxConns : i <= Descriptors =>
      (Written(i) /\ conns[i].msg \notin Dropped) ~> Received(i)

=============================================================================
