-------------------------- MODULE UdpReceiverProofs --------------------------
(***************************************************************************)
(* Proofs about UdpReceiver for any modules, sockets and datagrams: the    *)
(* type invariant, the ownership of port and sockets, which sockets are    *)
(* lost, what each datagram is handled as, and when a module stops.        *)
(***************************************************************************)
EXTENDS UdpReceiver, TLAPS

\* What is handed to process_message is a frame's message.
LEMMA PositiveSizeHasFrame ==
  ASSUME TypeOK, NEW m \in Mods, Size(m) > 0
  PROVE  buffer[m] \in Frames /\ buffer[m].msg \in Int
BY UdpAssumption DEF TypeOK, Size, FrameType

-----------------------------------------------------------------------------
\* Types

\* The initial state is well typed.
LEMMA TypeInit == Init => TypeOK
BY UdpAssumption DEF Init, TypeOK, Stages

\* Every step keeps the types.
LEMMA TypeNext == TypeOK /\ [Next]_vars => TypeOK'
<1> SUFFICES ASSUME TypeOK, [Next]_vars
             PROVE  TypeOK'
  OBVIOUS
<1> USE DEF TypeOK, Stages, HoldsPort, Goto
<1>1. ASSUME NEW m \in Mods, Insmod(m)
      PROVE  TypeOK'
  BY <1>1 DEF Insmod
<1>2. ASSUME NEW m \in Mods, Create(m)
      PROVE  TypeOK'
  BY <1>2 DEF Create
<1>3. ASSUME NEW m \in Mods, Bind(m)
      PROVE  TypeOK'
  BY <1>3 DEF Bind
<1>4. ASSUME NEW m \in Mods, Recv(m)
      PROVE  TypeOK'
  <2>1. Head(rcvq) \in Datagrams /\ Tail(rcvq) \in Seq(Datagrams)
    BY <1>4 DEF Recv
  <2> QED
    BY <1>4, <2>1 DEF Recv, Datagrams
<1>5. ASSUME NEW m \in Mods, ExamineInLoop(m) \/ ExamineOnce(m)
      PROVE  TypeOK'
  <2>1. CASE ProcessMessage(m) /\ Size(m) > 0
    <3>1. buffer[m].msg \in Int
      BY <2>1, PositiveSizeHasFrame
    <3>2. handled' \in [Mods -> Seq(Int)]
      BY <2>1, <3>1 DEF ProcessMessage
    <3> QED
      BY <1>5, <3>2 DEF ExamineInLoop, ExamineOnce, netVars
  <2>2. CASE UNCHANGED handled
    BY <1>5, <2>2 DEF ExamineInLoop, ExamineOnce, netVars
  <2> QED
    BY <1>5, <2>1, <2>2 DEF ExamineInLoop, ExamineOnce
<1>6. ASSUME NEW m \in Mods, Release(m) \/ RecvError(m) \/ Rmmod(m)
      PROVE  TypeOK'
  <2>1. CASE Release(m)
    <3>1. <<>> \in Seq(Datagrams)
      OBVIOUS
    <3> QED
      BY <2>1, <3>1 DEF Release
  <2>2. CASE RecvError(m) \/ Rmmod(m)
    BY <2>2 DEF RecvError, Rmmod, netVars
  <2> QED
    BY <1>6, <2>1, <2>2
<1>7. ASSUME NEW d \in Datagrams, Send(d)
      PROVE  TypeOK'
  <2>1. sent' \in 0..MaxSent
    BY <1>7, UdpAssumption DEF Send
  <2>2. CASE UNCHANGED <<rcvq, heard>>
    BY <1>7, <2>1, <2>2 DEF Send, modVars
  <2>3. ASSUME NEW m \in Mods, rcvq' = Append(rcvq, d),
               heard' = [heard EXCEPT ![m] = Append(@, d)]
        PROVE  TypeOK'
    BY <1>7, <2>1, <2>3 DEF Send, modVars
  <2> QED
    BY <1>7, <2>2, <2>3 DEF Send
<1>8. CASE UNCHANGED vars
  BY <1>8 DEF vars, modVars, netVars
<1> QED
  BY <1>1, <1>2, <1>3, <1>4, <1>5, <1>6, <1>7, <1>8 DEF Next, InitStep

\* Every variable keeps its type; what is processed is a frame's message.
THEOREM TypeCorrect == Spec => []TypeOK
BY TypeInit, TypeNext, PTL DEF Spec

-----------------------------------------------------------------------------
\* Ownership.  PortOwnership is inductive together with the types.

\* Nobody owns the port.
LEMMA OwnershipInit == Init => PortOwnership
BY DEF Init, PortOwnership, Using, HoldsPort

\* A step that moves no module in or out of Using or HoldsPort.
LEMMA OwnershipFrame ==
  ASSUME PortOwnership, UNCHANGED <<sock, open, owner>>,
         \A m \in Mods : /\ (stage'[m] \in HoldsPort) = (stage[m] \in HoldsPort)
                         /\ (stage'[m] = "bind") = (stage[m] = "bind")
  PROVE  PortOwnership'
BY DEF PortOwnership, Using

\* Every step keeps the sockets and the port with their owners.
LEMMA OwnershipNext == TypeOK /\ PortOwnership /\ [Next]_vars => PortOwnership'
<1> SUFFICES ASSUME TypeOK, PortOwnership, [Next]_vars
             PROVE  PortOwnership'
  OBVIOUS
<1> USE DEF TypeOK, HoldsPort, Goto
<1>1. ASSUME NEW m \in Mods, Insmod(m)
      PROVE  PortOwnership'
  BY <1>1 DEF Insmod, PortOwnership, Using
<1>2. ASSUME NEW m \in Mods, Create(m)
      PROVE  PortOwnership'
  <2>1. ASSUME NEW s \in Sockets \ open,
               sock' = [sock EXCEPT ![m] = s], open' = open \cup {s}, Goto(m, "bind")
        PROVE  PortOwnership'
    <3>1. Using' = Using \cup {m}
      BY <2>1 DEF Using
    <3>2. \A n \in Using \ {m} : sock'[n] = sock[n] /\ sock[n] \in open
      BY <2>1 DEF PortOwnership, Using
    <3>3. \A n \in Using' : /\ sock'[n] \in open'
                            /\ \A k \in Using' \ {n} : sock'[k] # sock'[n]
      BY <1>2, <2>1, <3>1, <3>2 DEF PortOwnership, Using, Create
    <3> QED
      BY <1>2, <2>1, <3>3 DEF Create, PortOwnership
  <2>2. CASE Goto(m, "live") /\ UNCHANGED <<sock, open>>
    BY <1>2, <2>2 DEF Create, PortOwnership, Using
  <2> QED
    BY <1>2, <2>1, <2>2 DEF Create
<1>3. ASSUME NEW m \in Mods, Bind(m)
      PROVE  PortOwnership'
  BY <1>3, UdpAssumption DEF Bind, PortOwnership, Using
<1>4. ASSUME NEW m \in Mods,
             Recv(m) \/ RecvError(m) \/ ExamineInLoop(m) \/ ExamineOnce(m) \/ Rmmod(m)
      PROVE  PortOwnership'
  BY <1>4, OwnershipFrame
    DEF Recv, RecvError, ExamineInLoop, ExamineOnce, Rmmod, netVars
<1>5. ASSUME NEW m \in Mods, Release(m)
      PROVE  PortOwnership'
  <2>1. \A n \in Mods \ {m} : stage[n] \notin HoldsPort
    BY <1>5 DEF Release, PortOwnership, Using
  <2> QED
    BY <1>5, <2>1 DEF Release, PortOwnership, Using
<1>6. ASSUME NEW d \in Datagrams, Send(d)
      PROVE  PortOwnership'
  BY <1>6, OwnershipFrame DEF Send, modVars
<1>7. CASE UNCHANGED vars
  BY <1>7, OwnershipFrame DEF vars, modVars, netVars
<1> QED
  BY <1>1, <1>2, <1>3, <1>4, <1>5, <1>6, <1>7 DEF Next, InitStep

\* Whatever fails or interrupts init, the port and the sockets have one owner,
\* and the port has none once the module that held it has left init.
THEOREM PortIsOwned == Spec => []PortOwnership
BY TypeCorrect, OwnershipInit, OwnershipNext, PTL DEF Spec

\* A socket is lost by a failing bind and by nothing else, for ever.
THEOREM LeaksComeFromBind == Spec => LeakOnlyWhenBindFails
<1> DEFINE Failed(s) ==
      \E m \in Mods : stage[m] = "bind" /\ sock[m] = s /\ stage'[m] = "live"
<1>1. ASSUME TypeOK, PortOwnership, [Next]_vars, NEW s \in Leaked' \ Leaked
      PROVE  Failed(s)
  <2> USE <1>1 DEF TypeOK, Leaked, Using, HoldsPort, Goto
  <2>1. ASSUME NEW m \in Mods, Insmod(m)
        PROVE  Failed(s)
    BY <2>1 DEF Insmod
  <2>2. ASSUME NEW m \in Mods, Create(m)
        PROVE  Failed(s)
    BY <2>2 DEF Create
  <2>3. ASSUME NEW m \in Mods, Bind(m)
        PROVE  Failed(s)
    BY <2>3 DEF Bind
  <2>4. ASSUME NEW m \in Mods,
               Recv(m) \/ RecvError(m) \/ ExamineInLoop(m) \/ ExamineOnce(m) \/ Rmmod(m)
        PROVE  Failed(s)
    BY <2>4 DEF Recv, RecvError, ExamineInLoop, ExamineOnce, Rmmod, netVars
  <2>5. ASSUME NEW m \in Mods, Release(m)
        PROVE  Failed(s)
    BY <2>5 DEF Release
  <2>6. ASSUME NEW d \in Datagrams, Send(d)
        PROVE  Failed(s)
    BY <2>6 DEF Send, modVars
  <2>7. CASE UNCHANGED vars
    BY <2>7 DEF vars, modVars, netVars
  <2> QED
    BY <2>1, <2>2, <2>3, <2>4, <2>5, <2>6, <2>7 DEF Next, InitStep
<1>2. TypeOK /\ PortOwnership /\ [Next]_vars =>
        [\A s \in Leaked' \ Leaked :
           \E m \in Mods : stage[m] = "bind" /\ sock[m] = s /\ stage'[m] = "live"]_vars
  BY <1>1
<1> QED
  BY <1>2, TypeCorrect, PortIsOwned, PTL DEF Spec, LeakOnlyWhenBindFails

-----------------------------------------------------------------------------
\* Every datagram once and in order

\* How many datagrams the module has taken from the queue.
Taken(m) == Len(handled[m]) + (IF stage[m] = "examine" THEN 1 ELSE 0)

\* The queue is what is left of the datagrams heard ...
QueueInv(m) ==
  /\ Len(heard[m]) = Taken(m) + Len(rcvq)
  /\ \A j \in 1..Len(rcvq) : rcvq[j] = heard[m][Taken(m) + j]

\* ... buffer holds the last frame of those taken ...
BufferInv(m) ==
  \/ buffer[m] = NULL /\ \A i \in 1..Taken(m) : heard[m][i] = EMPTY
  \/ \E i \in 1..Taken(m) : LastWithBytes(m, Taken(m), i) /\ buffer[m] = heard[m][i]

\* ... and each one has been handled with the last frame up to it.
HistoryInv(m) ==
  \A n \in 1..Len(handled[m]) :
    \E i \in 1..n : LastWithBytes(m, n, i) /\ handled[m][n] = heard[m][i].msg

OrderOf(m) ==
  /\ stage[m] \in {"create", "bind"} =>
       handled[m] = <<>> /\ heard[m] = <<>> /\ buffer[m] = NULL
  /\ stage[m] \in {"recv", "examine"} =>
       QueueInv(m) /\ BufferInv(m) /\ HistoryInv(m)

OrderInv ==
  /\ owner = NULL => rcvq = <<>>
  /\ \A m \in Mods : OrderOf(m)

\* At most one module is at a place where it has bound the port.
LEMMA OneHolder ==
  ASSUME TypeOK, PortOwnership, NEW m \in Mods, stage[m] \in HoldsPort
  PROVE  /\ owner # NULL
         /\ \A n \in Mods \ {m} : stage[n] \notin HoldsPort
BY UdpAssumption DEF TypeOK, PortOwnership, Using

\* Steps of the others leave what is known of n alone.
LEMMA OrderFrame ==
  ASSUME NEW n \in Mods, OrderOf(n),
         stage'[n] = stage[n], handled'[n] = handled[n],
         heard'[n] = heard[n], buffer'[n] = buffer[n],
         stage[n] \in {"recv", "examine"} => rcvq' = rcvq
  PROVE  OrderOf(n)'
<1>1. Taken(n)' = Taken(n)
  BY DEF Taken
<1>2. \A k, i : LastWithBytes(n, k, i)' <=> LastWithBytes(n, k, i)
  BY DEF LastWithBytes
<1>3. BufferInv(n) => BufferInv(n)'
  BY <1>1, <1>2 DEF BufferInv, LastWithBytes
<1>4. HistoryInv(n) => HistoryInv(n)'
  BY <1>2 DEF HistoryInv
<1>5. stage[n] \in {"recv", "examine"} /\ QueueInv(n) => QueueInv(n)'
  BY <1>1 DEF QueueInv
<1> QED
  BY <1>3, <1>4, <1>5 DEF OrderOf

\* Nothing has arrived.
LEMMA OrderInit == Init => OrderInv
BY DEF Init, OrderInv, OrderOf

\* The port's holder takes the next datagram.
LEMMA OrderRecv ==
  ASSUME TypeOK, NEW m \in Mods, OrderOf(m), Recv(m)
  PROVE  OrderOf(m)'
<1> USE DEF TypeOK, Goto
<1> DEFINE d == Head(rcvq)
<1>1. /\ stage[m] = "recv" /\ stage'[m] = "examine" /\ rcvq # <<>>
      /\ rcvq' = Tail(rcvq) /\ heard'[m] = heard[m] /\ handled'[m] = handled[m]
      /\ buffer'[m] = IF d = EMPTY THEN buffer[m] ELSE d
  BY DEF Recv
<1>2. PICK t \in Nat : Taken(m) = t /\ Taken(m)' = t + 1
  <2>1. Taken(m) \in Nat /\ Taken(m)' = Taken(m) + 1
    BY <1>1 DEF Taken
  <2> QED
    BY <2>1, Zenon
<1>3. QueueInv(m) /\ BufferInv(m) /\ HistoryInv(m)
  BY <1>1 DEF OrderOf
<1> DEFINE Left(j) == rcvq[j] = heard[m][t + j]
<1>4. \A j \in 1..Len(rcvq) : Left(j)
  BY <1>2, <1>3 DEF QueueInv
<1>5. d = heard[m][t + 1]
  <2>1. 1 \in 1..Len(rcvq) /\ d = rcvq[1]
    BY <1>1
  <2>2. Left(1)
    BY <1>4, <2>1
  <2> QED
    BY <2>1, <2>2
<1>6. QueueInv(m)'
  <2>1. /\ Len(rcvq') = Len(rcvq) - 1
        /\ \A j \in 1..Len(rcvq') : rcvq'[j] = rcvq[j + 1]
    BY <1>1
  <2>2. Len(heard'[m]) = t + 1 + Len(rcvq')
    BY <1>1, <1>2, <1>3, <2>1 DEF QueueInv
  <2>3. ASSUME NEW j \in 1..Len(rcvq')
        PROVE  rcvq[j + 1] = heard[m][t + 1 + j]
    <3>1. j + 1 \in 1..Len(rcvq) /\ t + (j + 1) = t + 1 + j
      BY <2>1
    <3>2. Left(j + 1)
      BY <1>4, <3>1
    <3> QED
      BY <3>1, <3>2
  <2> QED
    BY <1>1, <1>2, <2>1, <2>2, <2>3 DEF QueueInv
<1>7. BufferInv(m)'
  <2>1. CASE d # EMPTY
    <3>1. LastWithBytes(m, t + 1, t + 1)'
      BY <1>1, <1>5, <2>1 DEF LastWithBytes
    <3>2. buffer'[m] = heard'[m][t + 1] /\ t + 1 \in 1..(t + 1)
      BY <1>1, <1>5, <2>1
    <3> QED
      BY <1>2, <3>1, <3>2 DEF BufferInv
  <2>2. CASE d = EMPTY
    <3>1. CASE buffer[m] = NULL /\ \A i \in 1..t : heard[m][i] = EMPTY
      BY <1>1, <1>2, <1>5, <2>2, <3>1 DEF BufferInv
    <3>2. ASSUME NEW i \in 1..t, LastWithBytes(m, t, i), buffer[m] = heard[m][i]
          PROVE  BufferInv(m)'
      <4>1. LastWithBytes(m, t + 1, i)'
        <5>1. \A j \in (i + 1)..(t + 1) : j \in (i + 1)..t \/ j = t + 1
          OBVIOUS
        <5>2. \A j \in (i + 1)..(t + 1) : heard[m][j] = EMPTY
          BY <1>5, <2>2, <3>2, <5>1 DEF LastWithBytes
        <5> QED
          BY <1>1, <3>2, <5>2 DEF LastWithBytes
      <4>2. buffer'[m] = heard'[m][i] /\ i \in 1..(t + 1)
        BY <1>1, <2>2, <3>2
      <4> QED
        BY <1>2, <4>1, <4>2 DEF BufferInv
    <3> QED
      BY <1>2, <1>3, <3>1, <3>2 DEF BufferInv
  <2> QED
    BY <2>1, <2>2
<1>8. HistoryInv(m)'
  <2>1. \A k, i : LastWithBytes(m, k, i)' <=> LastWithBytes(m, k, i)
    BY <1>1 DEF LastWithBytes
  <2> QED
    BY <1>1, <1>3, <2>1 DEF HistoryInv
<1> QED
  BY <1>1, <1>6, <1>7, <1>8 DEF OrderOf

\* It handles what it has taken, with the message buffer still holds.
LEMMA OrderExamine ==
  ASSUME TypeOK, NEW m \in Mods, OrderOf(m), ExamineInLoop(m) \/ ExamineOnce(m)
  PROVE  OrderOf(m)'
<1> USE DEF TypeOK, Goto
<1>1. stage[m] = "examine" /\ stage'[m] \in {"recv", "release"} /\ UNCHANGED netVars
  BY DEF ExamineInLoop, ExamineOnce
<1>2. CASE stage'[m] = "release"
  BY <1>2 DEF OrderOf
<1>3. CASE stage'[m] = "recv"
  <2> DEFINE k == Len(handled[m])
  <2>1. Size(m) > 0 /\ ProcessMessage(m) /\ buffer'[m] = buffer[m]
    BY <1>3 DEF ExamineInLoop, ExamineOnce
  <2>2. buffer[m] # NULL /\ buffer[m].msg \in Int
    BY <2>1, PositiveSizeHasFrame, UdpAssumption
  <2>3. handled'[m] = Append(handled[m], buffer[m].msg)
    BY <2>1 DEF ProcessMessage
  <2>4. handled[m] \in Seq(Int) /\ k \in Nat
    OBVIOUS
  <2>5. Taken(m) = k + 1 /\ Taken(m)' = k + 1
    BY <1>1, <1>3, <2>2, <2>3, <2>4 DEF Taken
  <2>6. QueueInv(m) /\ BufferInv(m) /\ HistoryInv(m)
    BY <1>1 DEF OrderOf
  <2>7. heard'[m] = heard[m] /\ rcvq' = rcvq
    BY <1>1 DEF netVars
  <2>8. PICK i \in 1..(k + 1) : LastWithBytes(m, k + 1, i) /\ buffer[m] = heard[m][i]
    BY <2>2, <2>5, <2>6 DEF BufferInv
  <2>9. /\ Len(handled'[m]) = k + 1
        /\ handled'[m][k + 1] = heard[m][i].msg
        /\ \A n \in 1..k : handled'[m][n] = handled[m][n]
    BY <2>2, <2>3, <2>4, <2>8
  <2> HIDE DEF k
  <2>10. HistoryInv(m)'
    <3>1. ASSUME NEW n \in 1..(k + 1)
          PROVE  \E j \in 1..n : LastWithBytes(m, n, j) /\ handled'[m][n] = heard[m][j].msg
      <4>1. CASE n = k + 1
        BY <2>8, <2>9, <4>1
      <4>2. CASE n # k + 1
        <5>1. n \in 1..k
          BY <2>4, <4>2
        <5> QED
          BY <2>6, <2>9, <5>1 DEF HistoryInv, k
      <4> QED
        BY <4>1, <4>2
    <3> QED
      BY <2>7, <2>9, <3>1 DEF HistoryInv, LastWithBytes
  <2>11. QueueInv(m)'
    BY <2>5, <2>6, <2>7 DEF QueueInv
  <2>12. BufferInv(m)'
    BY <2>1, <2>5, <2>6, <2>7 DEF BufferInv, LastWithBytes
  <2> QED
    BY <1>3, <2>10, <2>11, <2>12 DEF OrderOf
<1> QED
  BY <1>1, <1>2, <1>3

\* A datagram more in the queue of m.
LEMMA OrderHear ==
  ASSUME TypeOK, NEW m \in Mods, OrderOf(m), NEW d \in Datagrams,
         stage[m] \in {"recv", "examine"}, UNCHANGED modVars,
         rcvq' = Append(rcvq, d), heard' = [heard EXCEPT ![m] = Append(@, d)]
  PROVE  OrderOf(m)'
<1> USE DEF TypeOK
<1>1. QueueInv(m) /\ BufferInv(m) /\ HistoryInv(m)
  BY DEF OrderOf
<1>2. PICK t \in Nat : /\ Taken(m) = t /\ Taken(m)' = t
                       /\ Len(handled[m]) \in 0..t
  <2>1. /\ Taken(m) \in Nat /\ Taken(m)' = Taken(m)
        /\ Len(handled[m]) \in 0..Taken(m)
    BY DEF Taken, modVars
  <2> QED
    BY <2>1, Zenon
<1>3. PICK h \in Nat : h = Len(heard[m])
  <2>1. Len(heard[m]) \in Nat
    OBVIOUS
  <2> QED
    BY <2>1, Zenon
<1>4. /\ Len(heard'[m]) = h + 1 /\ heard'[m][h + 1] = d
      /\ \A i \in 1..h : heard'[m][i] = heard[m][i]
  <2>1. heard'[m] = Append(heard[m], d) /\ heard[m] \in Seq(Datagrams)
    OBVIOUS
  <2> QED
    BY <1>3, <2>1
<1>5. PICK q \in Nat : /\ Len(rcvq) = q /\ Len(rcvq') = q + 1 /\ rcvq'[q + 1] = d
                       /\ \A i \in 1..q : rcvq'[i] = rcvq[i]
  <2>1. /\ Len(rcvq) \in Nat /\ Len(rcvq') = Len(rcvq) + 1
        /\ rcvq'[Len(rcvq) + 1] = d
        /\ \A i \in 1..Len(rcvq) : rcvq'[i] = rcvq[i]
    OBVIOUS
  <2> QED
    BY <2>1, Zenon
<1>6. h = t + q /\ \A j \in 1..q : rcvq[j] = heard[m][t + j]
  BY <1>1, <1>2, <1>3, <1>5 DEF QueueInv
<1>7. QueueInv(m)'
  <2>1. ASSUME NEW j \in 1..(q + 1)
        PROVE  rcvq'[j] = heard'[m][t + j]
    <3>1. CASE j = q + 1
      BY <1>4, <1>5, <1>6, <3>1
    <3>2. CASE j # q + 1
      <4>1. j \in 1..q /\ t + j \in 1..h
        BY <1>6, <3>2
      <4> QED
        BY <1>4, <1>5, <1>6, <4>1
    <3> QED
      BY <3>1, <3>2
  <2>2. Len(heard'[m]) = t + Len(rcvq')
    BY <1>4, <1>5, <1>6
  <2> QED
    BY <1>2, <1>5, <2>1, <2>2 DEF QueueInv
<1>8. ASSUME NEW n \in 1..t, NEW i \in 1..n
      PROVE  /\ heard'[m][i] = heard[m][i]
             /\ LastWithBytes(m, n, i) => LastWithBytes(m, n, i)'
  <2>1. \A j \in 1..n : j \in 1..h
    BY <1>6
  <2>2. \A j \in 1..n : heard'[m][j] = heard[m][j]
    BY <1>4, <2>1
  <2>3. \A j \in (i + 1)..n : j \in 1..n
    OBVIOUS
  <2> QED
    BY <2>2, <2>3 DEF LastWithBytes
<1>9. BufferInv(m)'
  <2>1. buffer'[m] = buffer[m]
    BY DEF modVars
  <2>2. CASE buffer[m] = NULL /\ \A i \in 1..t : heard[m][i] = EMPTY
    <3>1. \A i \in 1..t : i \in 1..i
      OBVIOUS
    <3> QED
      BY <1>2, <1>8, <2>1, <2>2, <3>1 DEF BufferInv
  <2>3. ASSUME NEW i \in 1..t, LastWithBytes(m, t, i), buffer[m] = heard[m][i]
        PROVE  BufferInv(m)'
    <3>1. t \in 1..t
      OBVIOUS
    <3> QED
      BY <1>2, <1>8, <2>1, <2>3, <3>1 DEF BufferInv
  <2> QED
    BY <1>1, <1>2, <2>2, <2>3 DEF BufferInv
<1>10. HistoryInv(m)'
  <2>1. handled'[m] = handled[m]
    BY DEF modVars
  <2>2. ASSUME NEW n \in 1..Len(handled[m])
        PROVE  \E i \in 1..n : LastWithBytes(m, n, i)' /\ handled'[m][n] = heard'[m][i].msg
    <3>1. n \in 1..t
      BY <1>2
    <3> QED
      BY <1>1, <1>8, <2>1, <3>1 DEF HistoryInv
  <2> QED
    BY <2>1, <2>2 DEF HistoryInv
<1> QED
  BY <1>7, <1>9, <1>10 DEF OrderOf, modVars

\* Every step keeps each datagram in one place, in the order of arrival.
LEMMA OrderNext ==
  TypeOK /\ PortOwnership /\ OrderInv /\ [Next]_vars => OrderInv'
<1> SUFFICES ASSUME TypeOK, PortOwnership, OrderInv, [Next]_vars
             PROVE  OrderInv'
  OBVIOUS
<1> USE DEF TypeOK, Goto
<1>1. ASSUME NEW m \in Mods, Insmod(m)
      PROVE  OrderInv'
  <2>1. OrderOf(m)'
    BY <1>1 DEF Insmod, OrderOf
  <2>2. \A n \in Mods \ {m} : OrderOf(n)'
    BY <1>1, OrderFrame DEF Insmod, OrderInv
  <2> QED
    BY <1>1, <2>1, <2>2 DEF Insmod, OrderInv
<1>2. ASSUME NEW m \in Mods, Create(m)
      PROVE  OrderInv'
  <2>1. OrderOf(m)'
    BY <1>2 DEF Create, OrderInv, OrderOf
  <2>2. \A n \in Mods \ {m} : OrderOf(n)'
    BY <1>2, OrderFrame DEF Create, OrderInv
  <2> QED
    BY <1>2, <2>1, <2>2 DEF Create, OrderInv
<1>3. ASSUME NEW m \in Mods, Bind(m)
      PROVE  OrderInv'
  <2>1. OrderOf(m)'
    <3>1. CASE owner = NULL /\ stage'[m] = "recv"
      <4>1. rcvq = <<>> /\ handled[m] = <<>> /\ heard[m] = <<>> /\ buffer[m] = NULL
        BY <1>3, <3>1 DEF Bind, OrderInv, OrderOf
      <4> QED
        BY <1>3, <3>1, <4>1
          DEF Bind, OrderOf, QueueInv, BufferInv, HistoryInv, Taken
    <3>2. CASE stage'[m] = "live"
      BY <3>2 DEF OrderOf
    <3> QED
      BY <1>3, <3>1, <3>2 DEF Bind
  <2>2. \A n \in Mods \ {m} : OrderOf(n)'
    BY <1>3, OrderFrame DEF Bind, OrderInv
  <2>3. owner' = NULL => rcvq' = <<>>
    BY <1>3 DEF Bind, OrderInv
  <2> QED
    BY <2>1, <2>2, <2>3 DEF OrderInv
<1>4. ASSUME NEW m \in Mods, Recv(m)
      PROVE  OrderInv'
  <2>1. OrderOf(m)'
    BY <1>4, OrderRecv DEF OrderInv
  <2>2. owner # NULL /\ \A n \in Mods \ {m} : stage[n] \notin HoldsPort
    BY <1>4, OneHolder DEF Recv, HoldsPort
  <2>3. \A n \in Mods \ {m} : OrderOf(n)'
    BY <1>4, <2>2, OrderFrame DEF Recv, OrderInv, HoldsPort
  <2> QED
    BY <1>4, <2>1, <2>2, <2>3 DEF Recv, OrderInv
<1>5. ASSUME NEW m \in Mods, ExamineInLoop(m) \/ ExamineOnce(m)
      PROVE  OrderInv'
  <2>1. OrderOf(m)'
    BY <1>5, OrderExamine DEF OrderInv
  <2>2. \A n \in Mods \ {m} : /\ stage'[n] = stage[n] /\ handled'[n] = handled[n]
                              /\ heard'[n] = heard[n] /\ buffer'[n] = buffer[n]
                              /\ rcvq' = rcvq
    BY <1>5 DEF ExamineInLoop, ExamineOnce, ProcessMessage, netVars
  <2>3. \A n \in Mods \ {m} : OrderOf(n)'
    BY <2>2, OrderFrame DEF OrderInv
  <2> QED
    BY <1>5, <2>1, <2>3 DEF ExamineInLoop, ExamineOnce, OrderInv, netVars
<1>6. ASSUME NEW m \in Mods, RecvError(m) \/ Rmmod(m)
      PROVE  OrderInv'
  <2>1. OrderOf(m)'
    BY <1>6 DEF RecvError, Rmmod, OrderOf
  <2>2. \A n \in Mods \ {m} : OrderOf(n)'
    BY <1>6, OrderFrame DEF RecvError, Rmmod, OrderInv, netVars
  <2> QED
    BY <1>6, <2>1, <2>2 DEF RecvError, Rmmod, OrderInv, netVars
<1>7. ASSUME NEW m \in Mods, Release(m)
      PROVE  OrderInv'
  <2>1. OrderOf(m)'
    BY <1>7 DEF Release, OrderOf
  <2>2. \A n \in Mods \ {m} : stage[n] \notin HoldsPort
    BY <1>7, OneHolder DEF Release, HoldsPort
  <2>3. \A n \in Mods \ {m} : OrderOf(n)'
    BY <1>7, <2>2, OrderFrame DEF Release, OrderInv, HoldsPort
  <2> QED
    BY <1>7, <2>1, <2>3 DEF Release, OrderInv
<1>8. ASSUME NEW d \in Datagrams, Send(d)
      PROVE  OrderInv'
  <2>1. ASSUME NEW m \in Mods, stage[m] \in HoldsPort,
               rcvq' = Append(rcvq, d), heard' = [heard EXCEPT ![m] = Append(@, d)]
        PROVE  OrderInv'
    <3>1. owner # NULL /\ \A n \in Mods \ {m} : stage[n] \notin HoldsPort
      BY <2>1, OneHolder
    <3>2. \A n \in Mods \ {m} : OrderOf(n)'
      BY <1>8, <2>1, <3>1, OrderFrame DEF Send, modVars, OrderInv, HoldsPort
    <3>3. stage' = stage /\ UNCHANGED modVars
      BY <1>8 DEF Send, modVars
    <3>4. OrderOf(m)'
      <4>1. CASE stage[m] = "release"
        BY <3>3, <4>1 DEF OrderOf
      <4>2. CASE stage[m] \in {"recv", "examine"}
        BY <1>8, <2>1, <3>3, <4>2, OrderHear DEF OrderInv
      <4> QED
        BY <2>1, <4>1, <4>2 DEF HoldsPort
    <3> QED
      BY <1>8, <3>1, <3>2, <3>4 DEF Send, OrderInv
  <2>2. CASE UNCHANGED <<rcvq, heard>>
    BY <1>8, <2>2, OrderFrame DEF Send, modVars, OrderInv
  <2> QED
    BY <1>8, <2>1, <2>2 DEF Send
<1>9. CASE UNCHANGED vars
  BY <1>9, OrderFrame DEF vars, modVars, netVars, OrderInv
<1> QED
  BY <1>1, <1>2, <1>3, <1>4, <1>5, <1>6, <1>7, <1>8, <1>9 DEF Next, InitStep

\* A module that waits for the next datagram has handled each one it received,
\* once and in order, an empty one with the message before it.
THEOREM EachOnceInOrder == Spec => []HandledInOrder
<1>1. TypeOK /\ OrderInv => HandledInOrder
  BY DEF TypeOK, OrderInv, OrderOf, QueueInv, HistoryInv, Taken, HandledInOrder, Received
<1> QED
  BY <1>1, TypeCorrect, PortIsOwned, OrderInit, OrderNext, PTL DEF Spec

-----------------------------------------------------------------------------
\* The loop's condition

\* While m receives, nothing it has handled so far ends the loop.
StopOf(m) ==
  stage[m] \in {"recv", "examine"} =>
    \A i \in 1..Len(handled[m]) : ~Ends(m, heard[m][i])

StopInv == \A m \in Mods : StopOf(m)

\* After k handled datagrams and one to examine, only that one can be a reason to
\* stop, or its being empty when it is the first.
LEMMA ReasonToStop ==
  ASSUME TypeOK, NEW m \in LoopMods, OrderOf(m), StopOf(m), stage[m] = "examine"
  PROVE  NoReasonToStop(m) <=> Size(m) > 0 /\ buffer[m].msg <= 5
<1> USE UdpAssumption DEF TypeOK
<1>0. m \in Mods
  OBVIOUS
<1>1. QueueInv(m) /\ BufferInv(m) /\ HistoryInv(m)
  BY <1>0 DEF OrderOf
<1>2. PICK k \in Nat : k = Len(handled[m])
  <2>1. Len(handled[m]) \in Nat
    BY <1>0
  <2> QED
    BY <2>1, Zenon
<1>3. Taken(m) = k + 1 /\ Received(m) = k + 1
  BY <1>0, <1>1, <1>2 DEF Taken, QueueInv, Received
<1>4. CASE buffer[m] = NULL /\ \A i \in 1..(k + 1) : heard[m][i] = EMPTY
  <2>1. heard[m][1] = EMPTY
    <3>1. 1 \in 1..(k + 1)
      OBVIOUS
    <3> QED
      BY <1>4, <3>1
  <2>2. Size(m) = 0
    BY <1>4 DEF Size
  <2> QED
    BY <2>1, <2>2 DEF NoReasonToStop
<1>5. ASSUME NEW i \in 1..(k + 1), LastWithBytes(m, k + 1, i), buffer[m] = heard[m][i]
      PROVE  NoReasonToStop(m) <=> Size(m) > 0 /\ buffer[m].msg <= 5
  <2>1. heard[m][i] # EMPTY /\ \A j \in (i + 1)..(k + 1) : heard[m][j] = EMPTY
    BY <1>5 DEF LastWithBytes
  <2>2. heard[m][i] \in Frames
    <3>1. i \in 1..Len(heard[m]) /\ heard[m] \in Seq(Datagrams)
      BY <1>0, <1>1, <1>3 DEF QueueInv
    <3>2. heard[m][i] \in Datagrams
      BY <3>1
    <3> QED
      BY <2>1, <3>2 DEF Datagrams
  <2>3. Ends(m, heard[m][i]) <=> ~(Size(m) > 0 /\ buffer[m].msg <= 5)
    <3>1. buffer[m] # NULL /\ buffer[m].msg \in Int
      BY <1>5, <2>2 DEF FrameType
    <3>2. ExtractMessageSize(buffer[m].len) \in Int
      BY <1>5, <2>2, FramingAssumption
        DEF FrameType, ExtractMessageSize, AsInt, UINT_MAX
    <3> QED
      BY <1>5, <2>1, <3>1, <3>2 DEF Ends, Size
  <2>4. heard[m][1] # EMPTY
    <3>1. CASE i = 1
      BY <2>1, <3>1
    <3>2. CASE i # 1 /\ k = 0
      BY <3>2
    <3>3. CASE k # 0
      <4>1. 1 \in 1..k
        BY <3>3
      <4> QED
        BY <1>1, <1>2, <4>1 DEF HistoryInv, LastWithBytes
    <3> QED
      BY <3>1, <3>2, <3>3
  <2>5. \A j \in 1..(k + 1) : Ends(m, heard[m][j]) => j = i
    <3>1. ASSUME NEW j \in 1..(k + 1), Ends(m, heard[m][j])
          PROVE  j = i
      <4>1. heard[m][j] # EMPTY
        BY <3>1 DEF Ends
      <4>2. ~(j \in (i + 1)..(k + 1))
        BY <2>1, <4>1
      <4>3. ~(j \in 1..k)
        BY <1>0, <1>2, <3>1 DEF StopOf
      <4> QED
        BY <4>2, <4>3
    <3> QED
      BY <3>1
  <2> QED
    BY <1>3, <2>3, <2>4, <2>5 DEF NoReasonToStop
<1> QED
  BY <1>1, <1>3, <1>4, <1>5 DEF BufferInv

\* The branch taken after a datagram is the one its history calls for.
LEMMA ExamineStops ==
  ASSUME TypeOK, NEW m \in Mods, OrderOf(m), StopOf(m),
         ExamineInLoop(m) \/ ExamineOnce(m)
  PROVE  stage'[m] = "recv" <=> NoReasonToStop(m)
<1> USE DEF TypeOK, Goto
<1>1. CASE m \in LoopMods
  <2>1. ExamineInLoop(m)
    BY <1>1 DEF ExamineOnce
  <2>2. stage[m] = "examine"
    BY <2>1 DEF ExamineInLoop
  <2>3. Size(m) \in Int
    BY FramingAssumption, UdpAssumption
      DEF Size, FrameType, ExtractMessageSize, AsInt, UINT_MAX
  <2>4. stage'[m] = "recv" <=> Size(m) > 0 /\ buffer[m].msg <= 5
    <3>1. CASE Size(m) > 0 /\ stage'[m] = IF buffer[m].msg <= 5 THEN "recv" ELSE "release"
      BY <3>1
    <3>2. CASE Size(m) <= 0 /\ stage'[m] = "release"
      BY <2>3, <3>2
    <3> QED
      BY <2>1, <3>1, <3>2 DEF ExamineInLoop
  <2> QED
    BY <1>1, <2>2, <2>4, ReasonToStop
<1>2. CASE m \notin LoopMods
  <2>1. stage[m] = "examine" /\ stage'[m] = "release"
    BY <1>2 DEF ExamineInLoop, ExamineOnce
  <2>2. QueueInv(m)
    BY <2>1 DEF OrderOf
  <2>3. Received(m) \in Nat /\ Received(m) >= 1
    BY <2>1, <2>2 DEF QueueInv, Received, Taken
  <2>4. 1 \in 1..Received(m) /\ Ends(m, heard[m][1])
    BY <1>2, <2>3 DEF Ends
  <2> QED
    BY <2>1, <2>4 DEF NoReasonToStop
<1> QED
  BY <1>1, <1>2

\* Nothing has been handled.
LEMMA StopInit == Init => StopInv
BY DEF Init, StopInv, StopOf

\* Steps of the others leave what is known of n alone.
LEMMA StopFrame ==
  ASSUME NEW n \in Mods, StopOf(n), stage'[n] = stage[n],
         handled'[n] = handled[n], heard'[n] = heard[n]
  PROVE  StopOf(n)'
BY DEF StopOf, Ends

\* A datagram more leaves those before it where they are.
LEMMA AppendKeeps ==
  ASSUME NEW s \in Seq(Datagrams), NEW d \in Datagrams
  PROVE  \A i \in 1..Len(s) : Append(s, d)[i] = s[i]
OBVIOUS

\* Every step keeps the modules that receive without a reason to stop.
LEMMA StopNext ==
  TypeOK /\ OrderInv /\ StopInv /\ [Next]_vars => StopInv'
<1> SUFFICES ASSUME TypeOK, OrderInv, StopInv, [Next]_vars
             PROVE  StopInv'
  OBVIOUS
<1> USE DEF TypeOK, Goto
<1>1. ASSUME NEW m \in Mods, Insmod(m) \/ Create(m) \/ RecvError(m) \/ Release(m) \/ Rmmod(m)
      PROVE  StopInv'
  <2>1. stage'[m] \notin {"recv", "examine"}
    BY <1>1 DEF Insmod, Create, RecvError, Release, Rmmod
  <2>2. \A n \in Mods \ {m} : /\ stage'[n] = stage[n] /\ handled'[n] = handled[n]
                              /\ heard'[n] = heard[n]
    BY <1>1 DEF Insmod, Create, RecvError, Release, Rmmod, netVars
  <2>3. \A n \in Mods \ {m} : StopOf(n)'
    BY <2>2, StopFrame DEF StopInv
  <2> QED
    BY <2>1, <2>3 DEF StopInv, StopOf
<1>2. ASSUME NEW m \in Mods, Bind(m)
      PROVE  StopInv'
  <2>1. handled[m] = <<>> /\ UNCHANGED <<handled, heard>>
    BY <1>2 DEF Bind, OrderInv, OrderOf
  <2>2. StopOf(m)'
    BY <2>1 DEF StopOf
  <2>3. \A n \in Mods \ {m} : StopOf(n)'
    BY <1>2, <2>1, StopFrame DEF Bind, StopInv
  <2> QED
    BY <2>2, <2>3 DEF StopInv
<1>3. ASSUME NEW m \in Mods, Recv(m)
      PROVE  StopInv'
  <2>1. StopOf(m)'
    BY <1>3 DEF Recv, StopInv, StopOf, Ends
  <2>2. \A n \in Mods \ {m} : StopOf(n)'
    BY <1>3, StopFrame DEF Recv, StopInv
  <2> QED
    BY <2>1, <2>2 DEF StopInv
<1>4. ASSUME NEW m \in Mods, ExamineInLoop(m) \/ ExamineOnce(m)
      PROVE  StopInv'
  <2>1. StopOf(m)'
    <3>1. CASE stage'[m] = "recv"
      <4>1. NoReasonToStop(m)
        BY <1>4, <3>1, ExamineStops DEF OrderInv, StopInv
      <4>2. Size(m) > 0 /\ ProcessMessage(m) /\ UNCHANGED netVars
        BY <1>4, <3>1 DEF ExamineInLoop, ExamineOnce
      <4>3. Len(handled'[m]) = Received(m)
        <5>1. QueueInv(m) /\ stage[m] = "examine"
          BY <1>4 DEF ExamineInLoop, ExamineOnce, OrderInv, OrderOf
        <5>2. buffer[m].msg \in Int /\ handled'[m] = Append(handled[m], buffer[m].msg)
          BY <4>2, PositiveSizeHasFrame DEF ProcessMessage
        <5>3. Len(handled'[m]) = Len(handled[m]) + 1
          BY <5>2
        <5> QED
          BY <5>1, <5>3 DEF QueueInv, Taken, Received
      <4> QED
        BY <4>1, <4>2, <4>3 DEF NoReasonToStop, StopOf, netVars
    <3>2. CASE stage'[m] # "recv"
      BY <1>4, <3>2 DEF ExamineInLoop, ExamineOnce, StopOf
    <3> QED
      BY <3>1, <3>2
  <2>2. \A n \in Mods \ {m} : /\ stage'[n] = stage[n] /\ handled'[n] = handled[n]
                              /\ heard'[n] = heard[n]
    BY <1>4 DEF ExamineInLoop, ExamineOnce, ProcessMessage, netVars
  <2>3. \A n \in Mods \ {m} : StopOf(n)'
    BY <2>2, StopFrame DEF StopInv
  <2> QED
    BY <2>1, <2>3 DEF StopInv
<1>5. ASSUME NEW d \in Datagrams, Send(d)
      PROVE  StopInv'
  <2>1. ASSUME NEW n \in Mods
        PROVE  StopOf(n)'
    <3>1. stage' = stage /\ handled' = handled
      BY <1>5 DEF Send, modVars
    <3>2. CASE stage[n] \in {"recv", "examine"}
      <4>1. Len(handled[n]) <= Len(heard[n])
        BY <2>1, <3>2 DEF OrderInv, OrderOf, QueueInv, Taken
      <4>2. heard'[n] = heard[n] \/ heard'[n] = Append(heard[n], d)
        BY <1>5 DEF Send
      <4>3. \A i \in 1..Len(heard[n]) : heard'[n][i] = heard[n][i]
        BY <4>2, AppendKeeps
      <4>4. \A i \in 1..Len(handled[n]) : heard'[n][i] = heard[n][i]
        BY <4>1, <4>3
      <4> QED
        BY <3>1, <3>2, <4>4 DEF StopInv, StopOf
    <3> QED
      BY <3>1, <3>2 DEF StopOf
  <2> QED
    BY <2>1 DEF StopInv
<1>6. CASE UNCHANGED vars
  BY <1>6, StopFrame DEF vars, modVars, netVars, StopInv
<1> QED
  BY <1>1, <1>2, <1>3, <1>4, <1>5, <1>6 DEF Next, InitStep

\* For any datagrams, with empty ones anywhere between them, the loop ends at the
\* first that is a reason to stop and not before, and a module that receives once
\* after one.
THEOREM StopsAtTheFirst == Spec => StopsInTime
<1>1. ASSUME TypeOK, OrderInv, StopInv, [Next]_vars, NEW m \in Mods,
             stage[m] = "examine", stage'[m] # "examine"
      PROVE  stage'[m] = "recv" <=> NoReasonToStop(m)
  <2>1. ExamineInLoop(m) \/ ExamineOnce(m)
    <3> USE <1>1 DEF TypeOK, Goto
    <3>1. ASSUME NEW n \in Mods, Insmod(n) \/ RecvError(n) \/ Rmmod(n)
          PROVE  FALSE
      BY <3>1 DEF Insmod, RecvError, Rmmod
    <3>2. ASSUME NEW n \in Mods, Create(n) \/ Bind(n) \/ Recv(n) \/ Release(n)
          PROVE  FALSE
      BY <3>2 DEF Create, Bind, Recv, Release
    <3>3. ASSUME NEW n \in Mods, ExamineInLoop(n) \/ ExamineOnce(n)
          PROVE  n = m
      BY <3>3 DEF ExamineInLoop, ExamineOnce
    <3>4. ASSUME NEW d \in Datagrams, Send(d)
          PROVE  FALSE
      BY <3>4 DEF Send, modVars
    <3>5. ~UNCHANGED vars
      BY DEF vars, modVars
    <3> QED
      BY <3>1, <3>2, <3>3, <3>4, <3>5 DEF Next, InitStep
  <2> QED
    BY <1>1, <2>1, ExamineStops DEF OrderInv, StopInv
<1>2. TypeOK /\ OrderInv /\ StopInv /\ [Next]_vars =>
        [\A m \in Mods : stage[m] = "examine" /\ stage'[m] # "examine" =>
           (stage'[m] = "recv" <=> NoReasonToStop(m))]_vars
  BY <1>1
<1>3. Spec => []OrderInv
  BY TypeCorrect, PortIsOwned, OrderInit, OrderNext, PTL DEF Spec
<1> QED
  BY <1>2, <1>3, TypeCorrect, StopInit, StopNext, PTL DEF Spec, StopsInTime

=============================================================================
