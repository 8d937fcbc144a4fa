------------------------- MODULE NetfilterHookProofs -------------------------
(***************************************************************************)
(* Proofs about NetfilterHook for any number of CPUs, any traffic, any     *)
(* amount of memory and any process_message: the type invariant, who owns  *)
(* which copy, and that the hook implements PacketFilter.                  *)
(***************************************************************************)
EXTENDS NetfilterHook, TLAPS

\* extract_message_size answers a positive size exactly for the prefixes from
\* 1 to BUFFER_SIZE - 1; the 2^31 greatest prefixes turn into negative sizes.
LEMMA PositiveSize ==
  ASSUME NEW len \in 0..UINT_MAX
  PROVE  ExtractMessageSize(len) > 0 <=> len \in 1..(BUFFER_SIZE - 1)
BY FramingAssumption DEF ExtractMessageSize, AsInt, UINT_MAX

\* The frame of a packet with a payload has a prefix of 32 bits.
LEMMA FrameOfPacket ==
  ASSUME NEW p \in Packets, p.frame # NULL
  PROVE  p.frame.len \in 0..UINT_MAX /\ p.frame.msg \in Messages
<1>1. p \in PacketType
  BY HookAssumption
<1>2. p.frame \in FrameType(Messages)
  BY <1>1 DEF PacketType
<1> QED
  BY <1>2 DEF FrameType

-----------------------------------------------------------------------------
\* The inductive invariant: what each label says about the CPU that is there.

Copying    == {"skb_copy", "skb_linearize"}
Inspecting == {"handle_tcp_payload", "process_message"}

PacketInv(c) ==
  /\ pc[c] = "idle" => skb[c] = NULL
  /\ pc[c] \in Copying \cup Inspecting => Selected(skb[c])
  /\ pc[c] \in Copying => skb[c].nonlinear
  /\ pc[c] = "process_message" =>
       skb[c].frame # NULL /\ ExtractMessageSize(skb[c].frame.len) > 0

CopyInv(c) ==
  /\ skb_linear[c] # NULL =>
       skb_linear[c] \in allocated /\ pc[c] \in {"skb_linearize"} \cup Inspecting
  /\ pc[c] = "skb_linearize" => skb_linear[c] # NULL
  /\ pc[c] \in Inspecting /\ skb_linear[c] = NULL => ~skb[c].nonlinear

VerdictInv(c) ==
  IF pc[c] = "return" THEN verdict[c] \in Allowed(skb[c]) ELSE verdict[c] = NULL

Unshared ==
  \A c, d \in Cpus : c # d /\ skb_linear[c] = skb_linear[d] => skb_linear[c] = NULL

IInv ==
  /\ TypeOK
  /\ \A c \in Cpus : PacketInv(c) /\ CopyInv(c) /\ VerdictInv(c)
  /\ Unshared

-----------------------------------------------------------------------------

\* The module is not loaded and no CPU is in the hook.
LEMMA InitInv == Init => IInv
BY DEF Init, IInv, TypeOK, Labels, PacketInv, CopyInv, VerdictInv, Unshared,
       Copying, Inspecting

\* A step of one CPU leaves the other CPUs' part of the invariant alone when it
\* frees no copy of theirs.
LEMMA OtherCpus ==
  ASSUME IInv, NEW c \in Cpus, NEW d \in Cpus, d # c,
         pc'[d] = pc[d], skb'[d] = skb[d],
         skb_linear'[d] = skb_linear[d], verdict'[d] = verdict[d],
         skb_linear[d] # NULL => skb_linear[d] \in allocated'
  PROVE  PacketInv(d)' /\ CopyInv(d)' /\ VerdictInv(d)'
BY DEF IInv, PacketInv, CopyInv, VerdictInv, Selected, Allowed,
       Copying, Inspecting

\* Every step of loading, unloading and of the hook keeps the invariant.
LEMMA NextInv == IInv /\ [Next]_vars => IInv'
<1> SUFFICES ASSUME IInv, [Next]_vars
             PROVE  IInv'
  OBVIOUS
<1> USE DEF IInv, Unshared
<1>1. CASE ModuleInit \/ ModuleExit \/ ModuleFree
  BY <1>1 DEF ModuleInit, ModuleExit, ModuleFree, TypeOK,
              PacketInv, CopyInv, VerdictInv
<1>2. ASSUME NEW c \in Cpus, NEW p \in Packets \cup {NULL}, Deliver(c, p)
      PROVE  IInv'
  <2>1. TypeOK'
    BY <1>2 DEF Deliver, TypeOK, Labels
  <2>2. PacketInv(c)' /\ CopyInv(c)' /\ VerdictInv(c)'
    BY <1>2 DEF Deliver, TypeOK, PacketInv, CopyInv, VerdictInv,
                Copying, Inspecting
  <2>3. ASSUME NEW d \in Cpus, d # c
        PROVE  PacketInv(d)' /\ CopyInv(d)' /\ VerdictInv(d)'
    BY <1>2, <2>3, OtherCpus DEF Deliver, TypeOK, CopyInv
  <2>4. Unshared'
    BY <1>2 DEF Deliver
  <2> QED
    BY <2>1, <2>2, <2>3, <2>4
<1>3. ASSUME NEW c \in Cpus, HookFunc(c)
      PROVE  IInv'
  <2>1. TypeOK'
    BY <1>3 DEF HookFunc, Finish, Goto, TypeOK, Labels, Verdicts
  <2>2. PacketInv(c)' /\ CopyInv(c)' /\ VerdictInv(c)'
    <3>1. CASE ~Selected(skb[c]) /\ Finish(c, NF_ACCEPT)
      <4>1. NF_ACCEPT \in Allowed(skb[c])
        BY <3>1 DEF Selected, Allowed
      <4> QED
        BY <1>3, <3>1, <4>1 DEF HookFunc, Finish, TypeOK, PacketInv, CopyInv,
             VerdictInv, Copying, Inspecting, Allowed
    <3>2. CASE Selected(skb[c]) /\ Goto(c, IF skb[c].nonlinear
                                           THEN "skb_copy" ELSE "handle_tcp_payload")
      BY <1>3, <3>2 DEF HookFunc, Goto, TypeOK, PacketInv, CopyInv, VerdictInv,
             Copying, Inspecting, Selected
    <3> QED
      BY <1>3, <3>1, <3>2 DEF HookFunc
  <2>3. ASSUME NEW d \in Cpus, d # c
        PROVE  PacketInv(d)' /\ CopyInv(d)' /\ VerdictInv(d)'
    BY <1>3, <2>3, OtherCpus DEF HookFunc, Finish, Goto, TypeOK, CopyInv
  <2>4. Unshared'
    BY <1>3 DEF HookFunc, Finish, Goto, TypeOK
  <2> QED
    BY <2>1, <2>2, <2>3, <2>4
<1>4. ASSUME NEW c \in Cpus, SkbCopy(c)
      PROVE  IInv'
  <2> NF_DROP \in Allowed(skb[c])
    BY <1>4 DEF SkbCopy, PacketInv, Copying, Allowed, Selected
  <2>1. CASE /\ Goto(c, "skb_linearize")
             /\ \E s \in Slots \ allocated :
                  /\ skb_linear' = [skb_linear EXCEPT ![c] = s]
                  /\ allocated' = allocated \cup {s}
    <3> PICK s \in Slots \ allocated :
               /\ skb_linear' = [skb_linear EXCEPT ![c] = s]
               /\ allocated' = allocated \cup {s}
      BY <2>1
    <3>1. TypeOK'
      BY <1>4, <2>1 DEF SkbCopy, Goto, TypeOK, Labels
    <3>2. PacketInv(c)' /\ CopyInv(c)' /\ VerdictInv(c)'
      BY <1>4, <2>1, HookAssumption DEF SkbCopy, Goto, TypeOK, PacketInv,
           CopyInv, VerdictInv, Copying, Inspecting, Selected
    <3>3. ASSUME NEW d \in Cpus, d # c
          PROVE  PacketInv(d)' /\ CopyInv(d)' /\ VerdictInv(d)'
      BY <1>4, <2>1, <3>3, OtherCpus DEF SkbCopy, Goto, TypeOK, CopyInv
    <3>4. Unshared'
      BY <1>4, <2>1 DEF TypeOK, CopyInv
    <3> QED
      BY <3>1, <3>2, <3>3, <3>4
  <2>2. CASE Finish(c, NF_DROP) /\ UNCHANGED allocated
    <3>1. TypeOK'
      BY <1>4, <2>2 DEF SkbCopy, Finish, TypeOK, Labels, Verdicts
    <3>2. PacketInv(c)' /\ CopyInv(c)' /\ VerdictInv(c)'
      BY <1>4, <2>2 DEF SkbCopy, Finish, TypeOK, PacketInv, CopyInv, VerdictInv,
           Copying, Inspecting, Allowed
    <3>3. ASSUME NEW d \in Cpus, d # c
          PROVE  PacketInv(d)' /\ CopyInv(d)' /\ VerdictInv(d)'
      BY <1>4, <2>2, <3>3, OtherCpus DEF SkbCopy, Finish, TypeOK, CopyInv
    <3>4. Unshared'
      BY <2>2 DEF Finish, TypeOK
    <3> QED
      BY <3>1, <3>2, <3>3, <3>4
  <2> QED
    BY <1>4, <2>1, <2>2 DEF SkbCopy
<1>5. ASSUME NEW c \in Cpus, SkbLinearize(c)
      PROVE  IInv'
  <2> NF_DROP \in Allowed(skb[c])
    BY <1>5 DEF SkbLinearize, PacketInv, Copying, Allowed, Selected
  <2>1. CASE Goto(c, "handle_tcp_payload") /\ UNCHANGED <<skb_linear, allocated>>
    <3>1. TypeOK'
      BY <1>5, <2>1 DEF SkbLinearize, Goto, TypeOK, Labels
    <3>2. PacketInv(c)' /\ CopyInv(c)' /\ VerdictInv(c)'
      BY <1>5, <2>1 DEF SkbLinearize, Goto, TypeOK, PacketInv, CopyInv,
           VerdictInv, Copying, Inspecting, Selected
    <3>3. ASSUME NEW d \in Cpus, d # c
          PROVE  PacketInv(d)' /\ CopyInv(d)' /\ VerdictInv(d)'
      BY <1>5, <2>1, <3>3, OtherCpus DEF SkbLinearize, Goto, TypeOK, CopyInv
    <3> QED
      BY <2>1, <3>1, <3>2, <3>3
  <2>2. CASE allocated' = allocated \ {skb_linear[c]} /\ Finish(c, NF_DROP)
    <3>1. TypeOK'
      BY <1>5, <2>2 DEF SkbLinearize, Finish, TypeOK, Labels, Verdicts
    <3>2. PacketInv(c)' /\ CopyInv(c)' /\ VerdictInv(c)'
      BY <1>5, <2>2 DEF SkbLinearize, Finish, TypeOK, PacketInv, CopyInv,
           VerdictInv, Copying, Inspecting, Allowed
    <3>3. ASSUME NEW d \in Cpus, d # c
          PROVE  PacketInv(d)' /\ CopyInv(d)' /\ VerdictInv(d)'
      BY <1>5, <2>2, <3>3, OtherCpus DEF SkbLinearize, Finish, TypeOK, CopyInv
    <3>4. Unshared'
      BY <2>2 DEF Finish, TypeOK
    <3> QED
      BY <3>1, <3>2, <3>3, <3>4
  <2> QED
    BY <1>5, <2>1, <2>2 DEF SkbLinearize
<1>6. ASSUME NEW c \in Cpus, HandleTcpPayload(c)
      PROVE  IInv'
  <2> DEFINE decode == skb[c].frame # NULL /\ ExtractMessageSize(skb[c].frame.len) > 0
  <2>1. CASE ~decode /\ Finish(c, NF_ACCEPT)
    <3>0. NF_ACCEPT \in Allowed(skb[c])
      <4>1. skb[c].frame # NULL => ~(skb[c].frame.len \in 1..(BUFFER_SIZE - 1))
        BY <1>6, <2>1, FrameOfPacket, PositiveSize
          DEF HandleTcpPayload, TypeOK, PacketInv, Inspecting, Selected
      <4> QED
        BY <4>1 DEF Allowed
    <3>1. TypeOK'
      BY <1>6, <2>1 DEF HandleTcpPayload, Finish, TypeOK, Labels, Verdicts
    <3>2. PacketInv(c)' /\ CopyInv(c)' /\ VerdictInv(c)'
      BY <1>6, <2>1, <3>0 DEF HandleTcpPayload, Finish, TypeOK, PacketInv,
           CopyInv, VerdictInv, Copying, Inspecting, Allowed
    <3>3. ASSUME NEW d \in Cpus, d # c
          PROVE  PacketInv(d)' /\ CopyInv(d)' /\ VerdictInv(d)'
      BY <1>6, <2>1, <3>3, OtherCpus DEF HandleTcpPayload, Finish, TypeOK, CopyInv
    <3>4. Unshared'
      BY <2>1 DEF Finish, TypeOK
    <3> QED
      BY <3>1, <3>2, <3>3, <3>4
  <2>2. CASE decode /\ Goto(c, "process_message") /\ UNCHANGED skb_linear
    <3>1. TypeOK'
      BY <1>6, <2>2 DEF HandleTcpPayload, Goto, TypeOK, Labels
    <3>2. PacketInv(c)' /\ CopyInv(c)' /\ VerdictInv(c)'
      BY <1>6, <2>2 DEF HandleTcpPayload, Goto, TypeOK, PacketInv, CopyInv,
           VerdictInv, Copying, Inspecting, Selected
    <3>3. ASSUME NEW d \in Cpus, d # c
          PROVE  PacketInv(d)' /\ CopyInv(d)' /\ VerdictInv(d)'
      BY <1>6, <2>2, <3>3, OtherCpus DEF HandleTcpPayload, Goto, TypeOK, CopyInv
    <3> QED
      BY <2>2, <3>1, <3>2, <3>3
  <2> QED
    BY <1>6, <2>1, <2>2 DEF HandleTcpPayload
<1>7. ASSUME NEW c \in Cpus, Process(c)
      PROVE  IInv'
  <2> PICK v \in ProcessMessage(skb[c].frame.msg) : Finish(c, v)
    BY <1>7 DEF Process
  <2>0. v \in Allowed(skb[c]) \cap Verdicts
    <3>1. skb[c] \in Packets /\ skb[c].frame # NULL /\ Selected(skb[c])
      BY <1>7 DEF Process, TypeOK, PacketInv, Inspecting, Selected
    <3>2. skb[c].frame.len \in 1..(BUFFER_SIZE - 1) /\ skb[c].frame.msg \in Messages
      BY <1>7, <3>1, FrameOfPacket, PositiveSize DEF Process, PacketInv
    <3>3. v \in Verdicts
      BY <3>2, HookAssumption
    <3> QED
      BY <3>1, <3>2, <3>3 DEF Allowed, Selected
  <2>1. TypeOK'
    BY <1>7, <2>0 DEF Process, Finish, TypeOK, Labels
  <2>2. PacketInv(c)' /\ CopyInv(c)' /\ VerdictInv(c)'
    BY <1>7, <2>0 DEF Process, Finish, TypeOK, PacketInv, CopyInv, VerdictInv,
         Copying, Inspecting, Allowed
  <2>3. ASSUME NEW d \in Cpus, d # c
        PROVE  PacketInv(d)' /\ CopyInv(d)' /\ VerdictInv(d)'
    BY <1>7, <2>3, OtherCpus DEF Process, Finish, TypeOK, CopyInv
  <2>4. Unshared'
    BY <1>7 DEF Process, Finish, TypeOK
  <2> QED
    BY <2>1, <2>2, <2>3, <2>4
<1>8. ASSUME NEW c \in Cpus, Return(c)
      PROVE  IInv'
  <2>1. TypeOK'
    BY <1>8 DEF Return, TypeOK, Labels
  <2>2. PacketInv(c)' /\ CopyInv(c)' /\ VerdictInv(c)'
    BY <1>8 DEF Return, TypeOK, PacketInv, CopyInv, VerdictInv, Copying, Inspecting
  <2>3. ASSUME NEW d \in Cpus, d # c
        PROVE  PacketInv(d)' /\ CopyInv(d)' /\ VerdictInv(d)'
    BY <1>8, <2>3, OtherCpus DEF Return, TypeOK, CopyInv
  <2> QED
    BY <1>8, <2>1, <2>2, <2>3 DEF Return
<1>9. CASE UNCHANGED vars
  BY <1>9 DEF vars, TypeOK, PacketInv, CopyInv, VerdictInv
<1> QED
  BY <1>1, <1>2, <1>3, <1>4, <1>5, <1>6, <1>7, <1>8, <1>9 DEF Next, HookStep

\* IInv is an invariant of the netfilter module.
LEMMA Invariance == Spec => []IInv
BY InitInv, NextInv, PTL DEF Spec

\* Every variable of hook_func keeps its type; in particular what it answers is
\* a verdict whenever process_message answers one.
THEOREM TypeCorrect == Spec => []TypeOK
BY Invariance, PTL DEF IInv

\* On any number of CPUs, the payload of a nonlinear packet is only ever read
\* from a linear copy that is allocated and belongs to one CPU.
THEOREM CopiesAreOwned == Spec => []CopyOwnership
<1>1. IInv => CopyOwnership
  BY DEF IInv, CopyInv, Unshared, CopyOwnership, Inspecting
<1> QED
  BY <1>1, Invariance, PTL

-----------------------------------------------------------------------------

\* The error paths of hook_func lose no copy: only a step that ends an
\* inspection can take the last reference to one.
THEOREM LeaksComeFromInspections == Spec => LeakOnlyAfterInspection
<1> DEFINE Lost(s) == \E c \in Cpus : /\ skb_linear[c] = s
                                      /\ pc[c] \in Inspecting
<1>1. ASSUME IInv, [Next]_vars, NEW s \in Leaked' \ Leaked
      PROVE  Lost(s)
  <2>1. IInv'
    BY <1>1, NextInv
  <2>2. s \in allocated' /\ s \in Slots /\ \A d \in Cpus : skb_linear'[d] # s
    BY <1>1, <2>1 DEF Leaked, IInv, TypeOK
  <2>3. s # NULL
    BY <2>2, HookAssumption
  <2>4. s \notin allocated \/ \E d \in Cpus : skb_linear[d] = s
    BY <1>1 DEF Leaked
  <2>5. CASE ModuleInit \/ ModuleExit \/ ModuleFree \/ UNCHANGED vars
    BY <2>2, <2>4, <2>5 DEF ModuleInit, ModuleExit, ModuleFree, vars
  <2>6. CASE \E c \in Cpus, p \in Packets \cup {NULL} : Deliver(c, p)
    BY <2>2, <2>4, <2>6 DEF Deliver
  <2>7. ASSUME NEW c \in Cpus, HookFunc(c)
        PROVE  Lost(s)
    BY <1>1, <2>2, <2>3, <2>4, <2>7
      DEF HookFunc, Finish, Goto, IInv, TypeOK, CopyInv, Inspecting
  <2>8. ASSUME NEW c \in Cpus, SkbCopy(c)
        PROVE  Lost(s)
    BY <1>1, <2>2, <2>3, <2>4, <2>8
      DEF SkbCopy, Finish, Goto, IInv, TypeOK, CopyInv, Inspecting
  <2>9. ASSUME NEW c \in Cpus, SkbLinearize(c)
        PROVE  Lost(s)
    BY <1>1, <2>2, <2>4, <2>9 DEF SkbLinearize, Finish, IInv, TypeOK
  <2>10. ASSUME NEW c \in Cpus, HandleTcpPayload(c) \/ Process(c)
         PROVE  Lost(s)
    BY <1>1, <2>2, <2>4, <2>10
      DEF HandleTcpPayload, Process, Finish, Goto, IInv, TypeOK, Inspecting
  <2>11. ASSUME NEW c \in Cpus, Return(c)
         PROVE  Lost(s)
    BY <2>2, <2>4, <2>11 DEF Return
  <2> QED
    BY <1>1, <2>5, <2>6, <2>7, <2>8, <2>9, <2>10, <2>11 DEF Next, HookStep
<1>2. IInv /\ [Next]_vars =>
        [\A s \in Leaked' \ Leaked :
           \E c \in Cpus : /\ skb_linear[c] = s
                           /\ pc[c] \in {"handle_tcp_payload", "process_message"}]_vars
  BY <1>1 DEF Inspecting
<1> QED
  BY <1>2, Invariance, PTL DEF Spec, LeakOnlyAfterInspection

-----------------------------------------------------------------------------

\* hook_func on any number of CPUs, with copies that may fail or leak, is the
\* atomic filter: one verdict per packet, and one its own content allows.
THEOREM Implementation == Spec => ImplementsFilter
<1>1. Init => Filter!Init
  BY DEF Init, Filter!Init
<1>2. ASSUME IInv, [Next]_vars
      PROVE  [Filter!Next]_(Filter!vars)
  <2> IInv'
    BY <1>2, NextInv
  <2>1. CASE ModuleInit
    <3>1. hooked \in BOOLEAN /\ hooked' \in BOOLEAN
      BY <1>2 DEF IInv, TypeOK
    <3> QED
      BY <2>1, <3>1
        DEF ModuleInit, Filter!Next, Filter!Register, Filter!Unregister, Filter!vars
  <2>2. CASE ModuleExit
    <3>1. hooked \in BOOLEAN
      BY <1>2 DEF IInv, TypeOK
    <3> QED
      BY <2>2, <3>1 DEF ModuleExit, Filter!Next, Filter!Unregister, Filter!vars
  <2>3. CASE ModuleFree \/ UNCHANGED vars
    BY <2>3 DEF ModuleFree, vars, Filter!vars
  <2>4. ASSUME NEW c \in Cpus, NEW p \in Packets \cup {NULL}, Deliver(c, p)
        PROVE  Filter!Enter(c)
    BY <1>2, <2>4 DEF Deliver, Filter!Enter, IInv, TypeOK
  \* A step that ends hook_func decides: the invariant says within what bounds.
  <2>5. ASSUME NEW c \in Cpus, NEW v, Finish(c, v), pc[c] \notin {"idle", "return"},
               UNCHANGED <<hooked, skb>>
        PROVE  Filter!Decide(c)
    <3>1. pc'[c] = "return" /\ verdict'[c] = v
      BY <1>2, <2>5 DEF Finish, IInv, TypeOK
    <3>2. v \in Allowed(skb[c])
      BY <2>5, <3>1 DEF IInv, VerdictInv, Allowed
    <3> QED
      BY <1>2, <2>5, <3>2 DEF Finish, Filter!Decide, IInv, TypeOK
  \* A step that goes on inside hook_func is invisible.
  <2>6. ASSUME NEW c \in Cpus, NEW l \in Labels \ {"idle", "return"}, Goto(c, l),
               pc[c] \notin {"idle", "return"}, UNCHANGED <<hooked, skb>>
        PROVE  UNCHANGED Filter!vars
    BY <1>2, <2>6 DEF Goto, Filter!vars, IInv, TypeOK
  <2>7. ASSUME NEW c \in Cpus, HookFunc(c)
        PROVE  Filter!Decide(c) \/ UNCHANGED Filter!vars
    BY <2>5, <2>6, <2>7 DEF HookFunc, Labels
  <2>8. ASSUME NEW c \in Cpus, SkbCopy(c)
        PROVE  Filter!Decide(c) \/ UNCHANGED Filter!vars
    BY <2>5, <2>6, <2>8 DEF SkbCopy, Labels
  <2>9. ASSUME NEW c \in Cpus, SkbLinearize(c)
        PROVE  Filter!Decide(c) \/ UNCHANGED Filter!vars
    BY <2>5, <2>6, <2>9 DEF SkbLinearize, Labels
  <2>10. ASSUME NEW c \in Cpus, HandleTcpPayload(c)
         PROVE  Filter!Decide(c) \/ UNCHANGED Filter!vars
    BY <2>5, <2>6, <2>10 DEF HandleTcpPayload, Labels
  <2>11. ASSUME NEW c \in Cpus, Process(c)
         PROVE  Filter!Decide(c)
    BY <2>5, <2>11 DEF Process
  <2>12. ASSUME NEW c \in Cpus, Return(c)
         PROVE  Filter!Leave(c)
    BY <1>2, <2>12 DEF Return, Filter!Leave, IInv, TypeOK
  <2> QED
    BY <1>2, <2>1, <2>2, <2>3, <2>4, <2>7, <2>8, <2>9, <2>10, <2>11, <2>12
      DEF Next, HookStep, Filter!Next
<1> QED
  BY <1>1, <1>2, Invariance, PTL DEF Spec, ImplementsFilter, Filter!Spec

=============================================================================
