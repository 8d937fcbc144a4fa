----------------------- MODULE FilteredExchangeProofs -----------------------
(***************************************************************************)
(* Proofs about FilteredExchange for any clients, messages, rule, number   *)
(* of descriptors and of connections: types, the order in which the server *)
(* prints, and that no message the rule drops gets past a filter that was  *)
(* there all the time.                                                     *)
(***************************************************************************)
EXTENDS FilteredExchange, TLAPS

\* Where the server stands in its loop tells how many messages it has printed.
ServerInv ==
  /\ \A n \in 1..Len(received) : received[n] = n
  /\ server = "accept" => Len(received) = accepted
  /\ server = "read"   => accepted > 0 /\ Len(received) = accepted - 1
  /\ Len(received) <= accepted

\* A segment under way that is watched has the filter in front of it, so that a
\* dropped message that was delivered is not watched.
FilterInv ==
  /\ \A i \in 1..Len(conns) :
       /\ conns[i].seg = "sent" /\ conns[i].watched => hooked
       /\ conns[i].seg = "delivered" /\ conns[i].msg \in Dropped => ~conns[i].watched
  /\ \A n \in 1..Len(received) : conns[received[n]].seg = "delivered"

IInv == TypeOK /\ ServerInv /\ FilterInv

-----------------------------------------------------------------------------
\* A step of the clients, of TCP or of the administrator that leaves the server
\* alone, keeps the connections of its messages and removes none.
LEMMA ServerFrame ==
  ASSUME IInv, UNCHANGED <<server, accepted, received>>,
         conns' \in Seq(ConnType), Len(conns') <= MaxConns, Len(conns') >= Len(conns)
  PROVE  /\ ServerInv'
         /\ accepted' \in 0..Len(conns') /\ received' \in Seq(1..Len(conns'))
<1>1. received \in Seq(1..Len(conns')) /\ accepted \in 0..Len(conns')
  BY DEF IInv, TypeOK
<1> QED
  BY <1>1 DEF IInv, ServerInv

\* What a step must do to the segments for FilterInv to stay.
LEMMA FilterFrame ==
  ASSUME IInv, UNCHANGED received, conns' \in Seq(ConnType), Len(conns') >= Len(conns),
         \A i \in 1..Len(conns') :
           /\ conns'[i].seg = "sent" /\ conns'[i].watched => hooked'
           /\ conns'[i].seg = "delivered" /\ conns'[i].msg \in Dropped
                => ~conns'[i].watched,
         \A i \in 1..Len(conns) :
           conns[i].seg = "delivered" => conns'[i].seg = "delivered"
  PROVE  FilterInv'
<1>1. \A n \in 1..Len(received) : received[n] \in 1..Len(conns)
  BY DEF IInv, TypeOK
<1> QED
  BY <1>1 DEF IInv, FilterInv

\* The connections after all of them were set.
LEMMA MapConns ==
  ASSUME IInv, conns' \in [1..Len(conns) -> ConnType]
  PROVE  conns' \in Seq(ConnType) /\ Len(conns') = Len(conns)
<1>1. Len(conns) \in Nat
  BY DEF IInv, TypeOK
<1> QED
  BY <1>1

\* What a step on the segment of one connection changes.
LEMMA SetFields ==
  ASSUME IInv, NEW i \in 1..Len(conns), NEW s \in Segments,
         NEW w \in BOOLEAN, NEW d \in BOOLEAN,
         conns' = [conns EXCEPT ![i] =
                     [@ EXCEPT !.seg = s, !.watched = w, !.dropped = d]]
  PROVE  /\ conns' \in Seq(ConnType) /\ Len(conns') = Len(conns)
         /\ \A j \in 1..Len(conns) : j # i => conns'[j] = conns[j]
         /\ conns'[i].seg = s /\ conns'[i].watched = w /\ conns'[i].msg = conns[i].msg
<1>1. conns[i] \in ConnType
  BY DEF IInv, TypeOK
<1>2. [conns[i] EXCEPT !.seg = s, !.watched = w, !.dropped = d] \in ConnType
  BY <1>1 DEF ConnType
<1> QED
  BY <1>1, <1>2 DEF IInv, TypeOK, ConnType

-----------------------------------------------------------------------------
\* No connection has been dialed.
LEMMA InitInv == Init => IInv
<1> SUFFICES ASSUME Init PROVE IInv
  OBVIOUS
<1>1. conns \in Seq(ConnType) /\ Len(conns) = 0 /\ Len(received) = 0
  BY DEF Init
<1>2. received \in Seq(1..Len(conns))
  BY DEF Init
<1>3. Len(conns) <= MaxConns /\ accepted \in 0..Len(conns)
  BY <1>1, ExchangeAssumption DEF Init
<1>4. TypeOK
  BY <1>1, <1>2, <1>3 DEF Init, TypeOK
<1>5. ServerInv /\ FilterInv
  BY <1>1 DEF Init, ServerInv, FilterInv
<1> QED
  BY <1>4, <1>5 DEF IInv

\* Every step of clients, TCP, filter and server keeps the invariant.
LEMMA NextInv == IInv /\ [Next]_vars => IInv'
<1> SUFFICES ASSUME IInv, [Next]_vars
             PROVE  IInv'
  OBVIOUS
<1> USE DEF IInv
<1>1. ASSUME NEW c \in Clients, NEW m \in Messages, Dial(c, m)
      PROVE  IInv'
  <2> DEFINE new == [client |-> c, msg |-> m, seg |-> "open",
                     watched |-> FALSE, dropped |-> FALSE]
  <2>1. CASE UNCHANGED conns
    BY <1>1, <2>1, ServerFrame, FilterFrame DEF Dial, TypeOK, FilterInv
  <2>2. CASE conns' = Append(conns, new) /\ Len(conns) < MaxConns
    <3>1. new \in ConnType
      BY DEF ConnType, Segments
    <3>2. /\ conns' \in Seq(ConnType) /\ Len(conns') = Len(conns) + 1
          /\ \A i \in 1..Len(conns) : conns'[i] = conns[i]
          /\ conns'[Len(conns) + 1] = new
      BY <2>2, <3>1 DEF TypeOK
    <3>3. Len(conns') <= MaxConns
      BY <2>2, <3>2, ExchangeAssumption DEF TypeOK
    <3>4. FilterInv'
      BY <1>1, <3>2, FilterFrame DEF Dial, TypeOK, FilterInv
    <3>5. ServerInv' /\ accepted' \in 0..Len(conns') /\ received' \in Seq(1..Len(conns'))
      BY <1>1, <3>2, <3>3, ServerFrame DEF Dial, TypeOK
    <3>6. TypeOK'
      BY <1>1, <3>2, <3>3, <3>5 DEF Dial, TypeOK
    <3> QED
      BY <3>4, <3>5, <3>6
  <2> QED
    BY <1>1, <2>1, <2>2 DEF Dial
<1>2. ASSUME NEW c \in Clients, Write(c)
      PROVE  IInv'
  <2>1. PICK i \in 1..Len(conns) :
          /\ conns[i].seg = "open"
          /\ \/ /\ conns' = [conns EXCEPT ![i].seg = "sent", ![i].watched = hooked]
                /\ client' = [client EXCEPT ![c] = "input"]
             \/ /\ SetSegment(i, "closed")
                /\ client' = [client EXCEPT ![c] = "exited"]
    BY <1>2 DEF Write
  <2>2. conns[i] \in ConnType
    BY DEF TypeOK
  <2>3. \E s \in {"sent", "closed"}, w \in BOOLEAN :
          /\ s = "sent" /\ w => hooked
          /\ conns' = [conns EXCEPT ![i] =
               [@ EXCEPT !.seg = s, !.watched = w, !.dropped = conns[i].dropped]]
    <3>1. CASE conns' = [conns EXCEPT ![i].seg = "sent", ![i].watched = hooked]
      <4>1. conns' = [conns EXCEPT ![i] =
               [@ EXCEPT !.seg = "sent", !.watched = hooked, !.dropped = conns[i].dropped]]
        BY <2>2, <3>1 DEF ConnType
      <4> QED
        BY <4>1 DEF TypeOK
    <3>2. CASE SetSegment(i, "closed")
      <4>1. conns' = [conns EXCEPT ![i] =
               [@ EXCEPT !.seg = "closed", !.watched = conns[i].watched,
                         !.dropped = conns[i].dropped]]
        BY <2>2, <3>2 DEF ConnType, SetSegment
      <4> QED
        BY <2>2, <4>1 DEF ConnType
    <3> QED
      BY <2>1, <3>1, <3>2
  <2>4. PICK s \in {"sent", "closed"}, w \in BOOLEAN :
          /\ s = "sent" /\ w => hooked
          /\ conns' = [conns EXCEPT ![i] =
               [@ EXCEPT !.seg = s, !.watched = w, !.dropped = conns[i].dropped]]
    BY <2>3
  <2>5. conns[i].dropped \in BOOLEAN /\ s \in Segments
    BY <2>2 DEF ConnType, Segments
  <2>6. /\ conns' \in Seq(ConnType) /\ Len(conns') = Len(conns)
        /\ \A j \in 1..Len(conns) : j # i => conns'[j] = conns[j]
        /\ conns'[i].seg = s /\ conns'[i].watched = w
    BY <2>4, <2>5, SetFields
  <2>7. FilterInv'
    BY <1>2, <2>1, <2>4, <2>6, FilterFrame DEF Write, FilterInv
  <2>8. ServerInv' /\ accepted' \in 0..Len(conns') /\ received' \in Seq(1..Len(conns'))
    <3>1. UNCHANGED <<server, accepted, received>>
      BY <1>2 DEF Write
    <3>2. Len(conns') <= MaxConns /\ Len(conns') >= Len(conns)
      BY <2>6 DEF TypeOK
    <3> QED
      BY <2>6, <3>1, <3>2, ServerFrame
  <2>9. TypeOK'
    BY <1>2, <2>1, <2>6, <2>8 DEF Write, TypeOK
  <2> QED
    BY <2>7, <2>8, <2>9
<1>3. ASSUME NEW c \in Clients, Interrupt(c)
      PROVE  IInv'
  <2> DEFINE closed == [i \in 1..Len(conns) |->
                          IF conns[i].client = c /\ conns[i].seg = "open"
                          THEN [conns[i] EXCEPT !.seg = "closed"] ELSE conns[i]]
  <2>1. ASSUME NEW i \in 1..Len(conns)
        PROVE  /\ closed[i] \in ConnType
               /\ \/ closed[i] = conns[i]
                  \/ conns[i].seg = "open" /\ closed[i].seg = "closed"
    <3>1. conns[i] \in ConnType
      BY DEF TypeOK
    <3> QED
      BY <3>1 DEF ConnType, Segments
  <2>2. conns' = closed
    BY <1>3 DEF Interrupt
  <2>3. conns' \in [1..Len(conns) -> ConnType]
    BY <2>1, <2>2
  <2>4. /\ conns' \in Seq(ConnType) /\ Len(conns') = Len(conns)
        /\ \A j \in 1..Len(conns) :
             \/ conns'[j] = conns[j]
             \/ conns[j].seg = "open" /\ conns'[j].seg = "closed"
    BY <2>1, <2>2, <2>3, MapConns
  <2>5. FilterInv'
    BY <1>3, <2>4, FilterFrame DEF Interrupt, FilterInv
  <2>6. ServerInv' /\ accepted' \in 0..Len(conns') /\ received' \in Seq(1..Len(conns'))
    <3>1. UNCHANGED <<server, accepted, received>>
      BY <1>3 DEF Interrupt
    <3>2. Len(conns') <= MaxConns /\ Len(conns') >= Len(conns)
      BY <2>4 DEF TypeOK
    <3> QED
      BY <2>4, <3>1, <3>2, ServerFrame
  <2> QED
    BY <1>3, <2>4, <2>5, <2>6 DEF Interrupt, TypeOK
<1>4. ASSUME NEW i \in 1..Len(conns), Transmit(i) \/ GiveUp(i)
      PROVE  IInv'
  <2>1. conns[i] \in ConnType
    BY DEF TypeOK
  <2>2. PICK s \in Segments, d \in BOOLEAN :
          /\ s = "delivered" /\ conns[i].msg \in Dropped => ~hooked
          /\ conns' = [conns EXCEPT ![i] =
               [@ EXCEPT !.seg = s, !.watched = conns[i].watched, !.dropped = d]]
    <3>1. CASE Passes(i) /\ SetSegment(i, "delivered")
      <4>1. conns' = [conns EXCEPT ![i] =
               [@ EXCEPT !.seg = "delivered", !.watched = conns[i].watched,
                         !.dropped = conns[i].dropped]]
        BY <2>1, <3>1 DEF ConnType, SetSegment
      <4> QED
        BY <2>1, <3>1, <4>1 DEF ConnType, Segments, Passes
    <3>2. CASE conns' = [conns EXCEPT ![i].dropped = TRUE] /\ conns[i].seg = "sent"
      <4>1. conns' = [conns EXCEPT ![i] =
               [@ EXCEPT !.seg = "sent", !.watched = conns[i].watched, !.dropped = TRUE]]
        BY <2>1, <3>2 DEF ConnType
      <4> QED
        BY <4>1 DEF Segments
    <3>3. CASE SetSegment(i, "aborted")
      <4>1. conns' = [conns EXCEPT ![i] =
               [@ EXCEPT !.seg = "aborted", !.watched = conns[i].watched,
                         !.dropped = conns[i].dropped]]
        BY <2>1, <3>3 DEF ConnType, SetSegment
      <4> QED
        BY <2>1, <4>1 DEF ConnType, Segments
    <3> QED
      BY <1>4, <3>1, <3>2, <3>3 DEF Transmit, GiveUp
  <2>3. conns[i].watched \in BOOLEAN /\ conns[i].seg = "sent" /\ UNCHANGED hooked
    BY <1>4, <2>1 DEF ConnType, Transmit, GiveUp
  <2>4. /\ conns' \in Seq(ConnType) /\ Len(conns') = Len(conns)
        /\ \A j \in 1..Len(conns) : j # i => conns'[j] = conns[j]
        /\ conns'[i].seg = s /\ conns'[i].watched = conns[i].watched
        /\ conns'[i].msg = conns[i].msg
    BY <2>2, <2>3, SetFields
  <2>5. FilterInv'
    BY <1>4, <2>2, <2>3, <2>4, FilterFrame DEF Transmit, GiveUp, FilterInv
  <2>6. ServerInv' /\ accepted' \in 0..Len(conns') /\ received' \in Seq(1..Len(conns'))
    <3>1. UNCHANGED <<server, accepted, received>>
      BY <1>4 DEF Transmit, GiveUp
    <3>2. Len(conns') <= MaxConns /\ Len(conns') >= Len(conns)
      BY <2>4 DEF TypeOK
    <3> QED
      BY <2>4, <3>1, <3>2, ServerFrame
  <2> QED
    BY <1>4, <2>4, <2>5, <2>6 DEF Transmit, GiveUp, TypeOK
<1>5. CASE Load
  BY <1>5, ServerFrame, FilterFrame DEF Load, TypeOK, FilterInv
<1>6. CASE Unload
  <2> DEFINE unwatched == [i \in 1..Len(conns) |->
                             IF conns[i].seg = "sent"
                             THEN [conns[i] EXCEPT !.watched = FALSE] ELSE conns[i]]
  <2>1. ASSUME NEW i \in 1..Len(conns)
        PROVE  /\ unwatched[i] \in ConnType
               /\ unwatched[i].seg = conns[i].seg /\ unwatched[i].msg = conns[i].msg
               /\ conns[i].seg # "sent" => unwatched[i].watched = conns[i].watched
               /\ conns[i].seg = "sent" => ~unwatched[i].watched
    <3>1. conns[i] \in ConnType
      BY DEF TypeOK
    <3> QED
      BY <3>1 DEF ConnType
  <2>2. conns' = unwatched
    BY <1>6 DEF Unload
  <2>3. conns' \in [1..Len(conns) -> ConnType]
    BY <2>1, <2>2
  <2>4. conns' \in Seq(ConnType) /\ Len(conns') = Len(conns)
    BY <2>3, MapConns
  <2>5. /\ conns' \in Seq(ConnType) /\ Len(conns') = Len(conns)
        /\ \A j \in 1..Len(conns) :
             /\ conns'[j].seg = conns[j].seg /\ conns'[j].msg = conns[j].msg
             /\ conns[j].seg # "sent" => conns'[j].watched = conns[j].watched
             /\ conns[j].seg = "sent" => ~conns'[j].watched
    BY <2>1, <2>2, <2>4
  <2>6. FilterInv'
    BY <1>6, <2>5, FilterFrame DEF Unload, FilterInv
  <2>7. ServerInv' /\ accepted' \in 0..Len(conns') /\ received' \in Seq(1..Len(conns'))
    <3>1. UNCHANGED <<server, accepted, received>>
      BY <1>6 DEF Unload
    <3>2. Len(conns') <= MaxConns /\ Len(conns') >= Len(conns)
      BY <2>4 DEF TypeOK
    <3> QED
      BY <2>4, <3>1, <3>2, ServerFrame
  <2> QED
    BY <1>6, <2>5, <2>6, <2>7 DEF Unload, TypeOK
<1>7. CASE Accept
  BY <1>7 DEF Accept, TypeOK, ServerInv, FilterInv
<1>8. CASE Receive
  <2>1. /\ accepted \in 1..Len(conns) /\ Len(received) = accepted - 1
        /\ conns[accepted].seg = "delivered"
    BY <1>8 DEF Receive, TypeOK, ServerInv
  <2>2. /\ received' \in Seq(1..Len(conns)) /\ Len(received') = accepted
        /\ \A n \in 1..(accepted - 1) : received'[n] = received[n]
        /\ received'[accepted] = accepted
    BY <1>8, <2>1 DEF Receive, TypeOK
  <2> QED
    BY <1>8, <2>1, <2>2 DEF Receive, TypeOK, ServerInv, FilterInv
<1>9. CASE ReadError
  BY <1>9 DEF ReadError, TypeOK, ServerInv, FilterInv
<1>10. CASE UNCHANGED vars
  BY <1>10 DEF vars, TypeOK, ServerInv, FilterInv
<1> QED
  BY <1>1, <1>2, <1>3, <1>4, <1>5, <1>6, <1>7, <1>8, <1>9, <1>10 DEF Next

\* IInv is an invariant of the exchange.
LEMMA Invariance == Spec => []IInv
BY InitInv, NextInv, PTL DEF Spec

-----------------------------------------------------------------------------
\* Every variable keeps its type; the server never accepts what was not dialed.
THEOREM TypeCorrect == Spec => []TypeOK
<1>1. IInv => TypeOK
  BY DEF IInv
<1> QED
  BY <1>1, Invariance, PTL

\* The server prints the messages in the order of the connections, however
\* clients, retransmissions and the filter interleave.
THEOREM PrintedInOrder == Spec => []ReceivedInOrder
<1>1. IInv => ReceivedInOrder
  BY DEF IInv, ServerInv, ReceivedInOrder
<1> QED
  BY <1>1, Invariance, PTL

\* A message the rule drops is printed only if the filter was away at some
\* moment between its write and its delivery.
THEOREM NothingSlipsBy == Spec => []FilteredWhileLoaded
<1>1. IInv => FilteredWhileLoaded
  BY DEF IInv, TypeOK, FilterInv, FilteredWhileLoaded
<1> QED
  BY <1>1, Invariance, PTL

=============================================================================
