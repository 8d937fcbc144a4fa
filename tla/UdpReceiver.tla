----------------------------- MODULE UdpReceiver -----------------------------
(***************************************************************************)
(* The UDP kernel modules.  A module does all its work in init: it opens a *)
(* socket on MY_UDP_PORT, receives, and answers 0 when it is done.  Until  *)
(* then it is neither live nor can it be removed.  The modules of          *)
(* LoopMods receive until Foo.bar exceeds 5 (hello_world); the others      *)
(* receive once (address_book and what the generator writes).              *)
(*                                                                         *)
(* Several modules may be loaded; they share the port and the memory for   *)
(* sockets.  A datagram is EMPTY, or a whole frame: its prefix and the     *)
(* message, within the buffer.  One of 1 to 3 bytes, or with fewer bytes   *)
(* than its prefix says, is left out: it overwrites a part of buffer, and  *)
(* the module goes on to process what is old behind it.                    *)
(*                                                                         *)
(* A definition with an underscore in its name is a mistake that one could *)
(* make in the definition that follows it; the runs detect each of them.   *)
(***************************************************************************)
EXTENDS Framing, Sequences

CONSTANTS Mods, LoopMods,
          Sockets,      \* the sockets that fit in memory
          Frames,       \* the frames clients send, with Foo.bar as message
          EMPTY,        \* the datagram without bytes
          RCVBUF,       \* datagrams a socket queues
          MaxSent,      \* bound: datagrams sent in a behaviour
          NULL

ASSUME UdpAssumption ==
  /\ LoopMods \subseteq Mods
  /\ Frames \subseteq FrameType(Int)
  /\ EMPTY \notin Frames
  /\ NULL \notin Sockets
  /\ NULL \notin Frames
  /\ RCVBUF \in Nat
  /\ MaxSent \in Nat

VARIABLES stage,    \* per module: unloaded, a place in init, or live
          sock,     \* per module: the static variable sock
          buffer,   \* per module: the frame in buffer, NULL when all zero
          open,     \* the sockets created and not released
          owner,    \* the socket bound to the port, or NULL
          rcvq,     \* the datagrams queued at owner
          heard,    \* history, per load: the datagrams queued for the module
          handled,  \* history, per load: the messages given to process_message
          sent      \* datagrams sent so far

modVars == <<stage, sock, buffer, handled>>
netVars == <<open, owner, rcvq, heard, sent>>
vars    == <<modVars, netVars>>

Datagrams == Frames \cup {EMPTY}

HoldsPort == {"recv", "examine", "release"}
Stages == {"unloaded", "create", "bind", "live"} \cup HoldsPort

TypeOK ==
  /\ stage \in [Mods -> Stages]
  /\ sock \in [Mods -> Sockets \cup {NULL}]
  /\ buffer \in [Mods -> Frames \cup {NULL}]
  /\ open \in SUBSET Sockets
  /\ owner \in Sockets \cup {NULL}
  /\ rcvq \in Seq(Datagrams)
  /\ heard \in [Mods -> Seq(Datagrams)]
  /\ handled \in [Mods -> Seq(Int)]
  /\ sent \in 0..MaxSent

Init ==
  /\ stage = [m \in Mods |-> "unloaded"]
  /\ sock = [m \in Mods |-> NULL]
  /\ buffer = [m \in Mods |-> NULL]
  /\ open = {}
  /\ owner = NULL
  /\ rcvq = <<>>
  /\ heard = [m \in Mods |-> <<>>]
  /\ handled = [m \in Mods |-> <<>>]
  /\ sent = 0

Goto(m, s) == stage' = [stage EXCEPT ![m] = s]

-----------------------------------------------------------------------------
\* The module

\* insmod: init starts with a zero buffer and no socket.
Insmod(m) ==
  /\ stage[m] = "unloaded"
  /\ Goto(m, "create")
  /\ sock' = [sock EXCEPT ![m] = NULL]
  /\ buffer' = [buffer EXCEPT ![m] = NULL]
  /\ heard' = [heard EXCEPT ![m] = <<>>]
  /\ handled' = [handled EXCEPT ![m] = <<>>]
  /\ UNCHANGED <<open, owner, rcvq, sent>>

\* sock_create_kern; without memory init is over, and still answers 0.
Create(m) ==
  /\ stage[m] = "create"
  /\ \/ \E s \in Sockets \ open :
          /\ sock' = [sock EXCEPT ![m] = s]
          /\ open' = open \cup {s}
          /\ Goto(m, "bind")
     \/ /\ Goto(m, "live")
        /\ UNCHANGED <<sock, open>>
  /\ UNCHANGED <<buffer, owner, rcvq, heard, handled, sent>>

\* A port in use makes bind fail; init then skips sock_release.
Bind(m) ==
  /\ stage[m] = "bind"
  /\ \/ /\ owner = NULL
        /\ owner' = sock[m]
        /\ Goto(m, "recv")
     \/ /\ Goto(m, "live")
        /\ UNCHANGED owner
  /\ UNCHANGED <<sock, buffer, open, rcvq, heard, handled, sent>>

\* MSG_PEEK among the flags
Recv_Peeks(m) ==
  /\ stage[m] = "recv"
  /\ rcvq # <<>>
  /\ buffer' = [buffer EXCEPT ![m] = IF Head(rcvq) = EMPTY THEN @ ELSE Head(rcvq)]
  /\ Goto(m, "examine")
  /\ UNCHANGED <<sock, rcvq, open, owner, heard, handled, sent>>

\* an empty datagram taken for a message
Recv_TakesEmpty(m) ==
  /\ stage[m] = "recv"
  /\ rcvq # <<>>
  /\ rcvq' = Tail(rcvq)
  /\ buffer' = [buffer EXCEPT ![m] = Head(rcvq)]
  /\ Goto(m, "examine")
  /\ UNCHANGED <<sock, open, owner, heard, handled, sent>>

\* kernel_recvmsg overwrites as much of buffer as the datagram has bytes: a whole
\* frame, or nothing.
Recv(m) ==
  /\ stage[m] = "recv"
  /\ rcvq # <<>>
  /\ rcvq' = Tail(rcvq)
  /\ buffer' = [buffer EXCEPT ![m] = IF Head(rcvq) = EMPTY THEN @ ELSE Head(rcvq)]
  /\ Goto(m, "examine")
  /\ UNCHANGED <<sock, open, owner, heard, handled, sent>>

RecvError_GotoOut(m) ==
  /\ stage[m] = "recv"
  /\ Goto(m, "live")
  /\ UNCHANGED <<sock, buffer, handled, netVars>>

\* A signal to insmod ends the wait with an error.
RecvError(m) ==
  /\ stage[m] = "recv"
  /\ Goto(m, "release")
  /\ UNCHANGED <<sock, buffer, handled, netVars>>

\* extract_message_size on a zero buffer finds 0.
Size(m) == IF buffer[m] = NULL THEN 0 ELSE ExtractMessageSize(buffer[m].len)

ProcessMessage(m) == handled' = [handled EXCEPT ![m] = Append(@, buffer[m].msg)]

\* while (bar < 5)
ExamineInLoop_OffByOne(m) ==
  /\ stage[m] = "examine"
  /\ m \in LoopMods
  /\ \/ /\ Size(m) > 0
        /\ ProcessMessage(m)
        /\ Goto(m, IF buffer[m].msg < 5 THEN "recv" ELSE "release")
     \/ /\ Size(m) <= 0
        /\ Goto(m, "release")
        /\ UNCHANGED handled
  /\ UNCHANGED <<sock, buffer, netVars>>

\* goto out instead of out_release
ExamineInLoop_GotoOut(m) ==
  /\ stage[m] = "examine"
  /\ m \in LoopMods
  /\ \/ /\ Size(m) > 0
        /\ ProcessMessage(m)
        /\ Goto(m, IF buffer[m].msg <= 5 THEN "recv" ELSE "release")
     \/ /\ Size(m) <= 0
        /\ Goto(m, "live")
        /\ UNCHANGED handled
  /\ UNCHANGED <<sock, buffer, netVars>>

\* no Bye
ExamineInLoop_GoesOn(m) ==
  /\ stage[m] = "examine"
  /\ m \in LoopMods
  /\ \/ /\ Size(m) > 0
        /\ ProcessMessage(m)
        /\ Goto(m, IF buffer[m].msg <= 5 THEN "recv" ELSE "release")
     \/ /\ Size(m) <= 0
        /\ Goto(m, "recv")
        /\ UNCHANGED handled
  /\ UNCHANGED <<sock, buffer, netVars>>

\* The rest of the loop's body in hello_world, and its condition.
ExamineInLoop(m) ==
  /\ stage[m] = "examine"
  /\ m \in LoopMods
  /\ \/ /\ Size(m) > 0
        /\ ProcessMessage(m)
        /\ Goto(m, IF buffer[m].msg <= 5 THEN "recv" ELSE "release")
     \/ /\ Size(m) <= 0
        /\ Goto(m, "release")
        /\ UNCHANGED handled
  /\ UNCHANGED <<sock, buffer, netVars>>

\* The same in the modules that receive once.
ExamineOnce(m) ==
  /\ stage[m] = "examine"
  /\ m \notin LoopMods
  /\ \/ Size(m) > 0 /\ ProcessMessage(m)
     \/ Size(m) <= 0 /\ UNCHANGED handled
  /\ Goto(m, "release")
  /\ UNCHANGED <<sock, buffer, netVars>>

\* sock_release; sock keeps pointing to it.
Release(m) ==
  /\ stage[m] = "release"
  /\ open' = open \ {sock[m]}
  /\ owner' = NULL
  /\ rcvq' = <<>>
  /\ Goto(m, "live")
  /\ UNCHANGED <<sock, buffer, heard, handled, sent>>

\* rmmod refuses a module whose init has not returned.
Rmmod(m) ==
  /\ stage[m] = "live"
  /\ Goto(m, "unloaded")
  /\ UNCHANGED <<sock, buffer, handled, netVars>>

-----------------------------------------------------------------------------
\* The clients

\* A datagram for a port nobody holds, or for a full queue, is lost.
Send(d) ==
  /\ sent < MaxSent
  /\ sent' = sent + 1
  /\ \/ \E m \in Mods :
          /\ stage[m] \in HoldsPort
          /\ Len(rcvq) < RCVBUF
          /\ rcvq' = Append(rcvq, d)
          /\ heard' = [heard EXCEPT ![m] = Append(@, d)]
     \/ /\ owner = NULL \/ Len(rcvq) >= RCVBUF
        /\ UNCHANGED <<rcvq, heard>>
  /\ UNCHANGED <<modVars, open, owner>>

InitStep(m) ==
  \/ Create(m) \/ Bind(m) \/ Recv(m)
  \/ ExamineInLoop(m) \/ ExamineOnce(m) \/ Release(m)

Next ==
  \/ \E m \in Mods : Insmod(m) \/ InitStep(m) \/ RecvError(m) \/ Rmmod(m)
  \/ \E d \in Datagrams : Send(d)

Spec == Init /\ [][Next]_vars

\* The process of insmod runs whenever it has something to do.
FairSpec == Spec /\ \A m \in Mods : WF_vars(InitStep(m))

-----------------------------------------------------------------------------
\* Properties

\* The modules whose init still needs its socket.
Using == {m \in Mods : stage[m] \in HoldsPort \cup {"bind"}}

\* A module uses its socket only while it is open and not the socket of another
\* module.  The port belongs to the module that receives, and to nobody when
\* init has returned, whichever way it took (goto out, goto out_release).
PortOwnership ==
  /\ \A m \in Using : sock[m] \in open /\ \A n \in Using \ {m} : sock[n] # sock[m]
  /\ \A m \in Mods : stage[m] \in HoldsPort => owner = sock[m]
  /\ owner # NULL => \E m \in Mods : stage[m] \in HoldsPort

Leaked == open \ {sock[m] : m \in Using}

\* Only the failure of bind loses a socket (the goto out before the loop).
LeakOnlyWhenBindFails ==
  [][\A s \in Leaked' \ Leaked :
       \E m \in Mods : stage[m] = "bind" /\ sock[m] = s /\ stage'[m] = "live"]_vars

Received(m) == Len(heard[m]) - Len(rcvq)

\* i is the last datagram with bytes among the first n the module heard.
LastWithBytes(m, n, i) ==
  /\ i \in 1..n
  /\ heard[m][i] # EMPTY
  /\ \A j \in (i + 1)..n : heard[m][j] = EMPTY

\* When a module waits for the next datagram, it has handled each one of this
\* load once and in order; an empty one repeats the message before it, because
\* buffer is cleared before the loop only.
HandledInOrder ==
  \A m \in Mods : stage[m] = "recv" =>
    /\ Len(handled[m]) = Received(m)
    /\ \A n \in 1..Len(handled[m]) :
         \E i \in 1..n : LastWithBytes(m, n, i) /\ handled[m][n] = heard[m][i].msg

\* d makes the module leave init, whatever it received before.
Ends(m, d) ==
  \/ m \notin LoopMods
  \/ d # EMPTY /\ (d.msg > 5 \/ ExtractMessageSize(d.len) <= 0)

\* No datagram the module has received is a reason to stop: the first one has
\* bytes and none of them ends the loop.
NoReasonToStop(m) ==
  /\ heard[m][1] # EMPTY
  /\ \A i \in 1..Received(m) : ~Ends(m, heard[m][i])

\* A module that has examined a datagram receives again exactly when nothing it
\* received since it was loaded is a reason to stop: the loop ends neither before
\* nor after the first bar above 5 or the first size that is not positive, and
\* init without a loop after one datagram (the condition of the do-while).
StopsInTime ==
  [][\A m \in Mods : stage[m] = "examine" /\ stage'[m] # "examine" =>
       (stage'[m] = "recv" <=> NoReasonToStop(m))]_vars

\* init returns, and the module can be removed, once such a datagram is queued.
InitReturns ==
  \A m \in Mods :
    (stage[m] \in HoldsPort /\ \E i \in 1..Len(rcvq) : Ends(m, rcvq[i]))
      ~> (stage[m] = "live")

\* "received empty package -> Bye": the loop does not go on after one.
EmptyMeansBye ==
  \A m \in LoopMods : stage[m] = "recv" =>
    \A i \in 1..Received(m) : heard[m][i] # EMPTY

\* "cleanup listening socket": when every init has returned, none is open.
NoSocketLeak ==
  (\A m \in Mods : stage[m] \in {"unloaded", "live"}) => open = {}

=============================================================================
