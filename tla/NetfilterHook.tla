---------------------------- MODULE NetfilterHook ----------------------------
(***************************************************************************)
(* The netfilter kernel module: main.c as the generator writes it, which   *)
(* the three examples under examples/netfilter keep except for the body of *)
(* process_message, here the constant ProcessMessage.                      *)
(*                                                                         *)
(* hook_func runs in softirq context, on every CPU at the same time.  What *)
(* the CPUs share is the registration of the hook and the memory that      *)
(* skb_copy takes; a step below is the code between two uses of either.    *)
(*                                                                         *)
(* A definition with an underscore in its name is a mistake that one could *)
(* make in the definition that follows it; the runs detect each of them.   *)
(***************************************************************************)
EXTENDS Framing

CONSTANTS Cpus,
          Slots,              \* the packet copies that fit in memory
          Packets,            \* the packets the network delivers
          Messages,
          ProcessMessage(_),  \* process_message: the verdicts it may give a message
          NULL

NF_ACCEPT == "NF_ACCEPT"
NF_DROP   == "NF_DROP"
Verdicts  == {NF_ACCEPT, NF_DROP}

\* A field of the headers is kept as the answer to the test hook_func makes.
\* frame is what handle_tcp_payload finds where the payload begins, NULL when
\* payload_len is 0.  A payload shorter than its prefix, or than the prefix says,
\* is read past its end: the rest of such a frame is what lies in memory there, and
\* its message one of those that process_message may answer either way.
PacketType ==
  [tcp : BOOLEAN, loopback : BOOLEAN, my_port : BOOLEAN, psh : BOOLEAN,
   nonlinear : BOOLEAN, frame : FrameType(Messages) \cup {NULL}]

ASSUME HookAssumption ==
  /\ Packets \subseteq PacketType
  /\ NULL \notin Packets
  /\ NULL \notin Slots
  /\ NULL \notin Verdicts
  /\ NULL \notin FrameType(Messages)
  /\ \A m \in Messages : ProcessMessage(m) \in (SUBSET Verdicts) \ {{}}

VARIABLES module,     \* unloaded, live, or exiting until no CPU is in the hook
          hooked,     \* nfho is in the kernel's list of hooks
          pc,         \* per CPU: where hook_func stands, or idle
          skb,        \* per CPU: the packet being filtered
          skb_linear, \* per CPU: the copy of it, or NULL
          verdict,    \* per CPU: what hook_func returns
          allocated   \* the copies not freed so far

vars == <<module, hooked, pc, skb, skb_linear, verdict, allocated>>

Labels == {"idle", "hook_func", "skb_copy", "skb_linearize",
           "handle_tcp_payload", "process_message", "return"}

TypeOK ==
  /\ module \in {"unloaded", "live", "exiting"}
  /\ hooked \in BOOLEAN
  /\ pc \in [Cpus -> Labels]
  /\ skb \in [Cpus -> Packets \cup {NULL}]
  /\ skb_linear \in [Cpus -> Slots \cup {NULL}]
  /\ verdict \in [Cpus -> Verdicts \cup {NULL}]
  /\ allocated \in SUBSET Slots

Init ==
  /\ module = "unloaded"
  /\ hooked = FALSE
  /\ pc = [c \in Cpus |-> "idle"]
  /\ skb = [c \in Cpus |-> NULL]
  /\ skb_linear = [c \in Cpus |-> NULL]
  /\ verdict = [c \in Cpus |-> NULL]
  /\ allocated = {}

-----------------------------------------------------------------------------
\* Loading and unloading

\* The answer of nf_register_net_hook is not looked at: init succeeds anyway.
ModuleInit ==
  /\ module = "unloaded"
  /\ module' = "live"
  /\ hooked' \in BOOLEAN
  /\ UNCHANGED <<pc, skb, skb_linear, verdict, allocated>>

ModuleExit ==
  /\ module = "live"
  /\ module' = "exiting"
  /\ hooked' = FALSE
  /\ UNCHANGED <<pc, skb, skb_linear, verdict, allocated>>

\* The kernel frees the module's text once every CPU has left the hook.
ModuleFree ==
  /\ module = "exiting"
  /\ \A c \in Cpus : pc[c] = "idle"
  /\ module' = "unloaded"
  /\ UNCHANGED <<hooked, pc, skb, skb_linear, verdict, allocated>>

-----------------------------------------------------------------------------
\* One packet on one CPU

\* The IPv4 stack calls the registered hook.
Deliver(c, p) ==
  /\ hooked
  /\ pc[c] = "idle"
  /\ pc' = [pc EXCEPT ![c] = "hook_func"]
  /\ skb' = [skb EXCEPT ![c] = p]
  /\ UNCHANGED <<module, hooked, skb_linear, verdict, allocated>>

\* hook_func returns v; its local variables are gone.
Finish(c, v) ==
  /\ pc' = [pc EXCEPT ![c] = "return"]
  /\ verdict' = [verdict EXCEPT ![c] = v]
  /\ skb_linear' = [skb_linear EXCEPT ![c] = NULL]

Goto(c, label) ==
  /\ pc' = [pc EXCEPT ![c] = label]
  /\ UNCHANGED verdict

\* the test of psh forgotten
Selected_AnyFlags(p) == p # NULL /\ p.tcp /\ p.loopback /\ p.my_port

\* Only pushed TCP segments to MY_PORT on the loopback address are filtered.
Selected(p) == p # NULL /\ p.tcp /\ p.loopback /\ p.my_port /\ p.psh

\* fragments read in place
HookFunc_NeverCopies(c) ==
  /\ pc[c] = "hook_func"
  /\ \/ ~Selected(skb[c]) /\ Finish(c, NF_ACCEPT)
     \/ Selected(skb[c]) /\ Goto(c, "handle_tcp_payload") /\ UNCHANGED skb_linear
  /\ UNCHANGED <<module, hooked, skb, allocated>>

HookFunc(c) ==
  /\ pc[c] = "hook_func"
  /\ \/ /\ ~Selected(skb[c])
        /\ Finish(c, NF_ACCEPT)
     \/ /\ Selected(skb[c])
        /\ Goto(c, IF skb[c].nonlinear THEN "skb_copy" ELSE "handle_tcp_payload")
        /\ UNCHANGED skb_linear
  /\ UNCHANGED <<module, hooked, skb, allocated>>

\* GFP_KERNEL, or a retry
SkbCopy_Waits(c) ==
  /\ pc[c] = "skb_copy"
  /\ Goto(c, "skb_linearize")
  /\ \E s \in Slots \ allocated :
       /\ skb_linear' = [skb_linear EXCEPT ![c] = s]
       /\ allocated' = allocated \cup {s}
  /\ UNCHANGED <<module, hooked, skb>>

\* skb_copy(skb, GFP_ATOMIC) never waits: without memory the packet is dropped.
\* Other users of the memory may make it fail at any time.
SkbCopy(c) ==
  /\ pc[c] = "skb_copy"
  /\ \/ /\ Goto(c, "skb_linearize")
        /\ \E s \in Slots \ allocated :
             /\ skb_linear' = [skb_linear EXCEPT ![c] = s]
             /\ allocated' = allocated \cup {s}
     \/ /\ Finish(c, NF_DROP)
        /\ UNCHANGED allocated
  /\ UNCHANGED <<module, hooked, skb>>

\* kfree_skb forgotten
SkbLinearize_KeepsCopy(c) ==
  /\ pc[c] = "skb_linearize"
  /\ \/ Goto(c, "handle_tcp_payload") /\ UNCHANGED skb_linear
     \/ Finish(c, NF_DROP)
  /\ UNCHANGED <<module, hooked, skb, allocated>>

SkbLinearize(c) ==
  /\ pc[c] = "skb_linearize"
  /\ \/ /\ Goto(c, "handle_tcp_payload")
        /\ UNCHANGED <<skb_linear, allocated>>
     \/ /\ allocated' = allocated \ {skb_linear[c]}     \* kfree_skb
        /\ Finish(c, NF_DROP)
  /\ UNCHANGED <<module, hooked, skb>>

\* The payload is read from skb or from its copy: the bytes are the same.  Neither
\* the prefix read nor its four bytes are compared with payload_len.
\* Nobody frees the copy when the function returns, here or in the next step.
HandleTcpPayload(c) ==
  LET frame == skb[c].frame
      decode == frame # NULL /\ ExtractMessageSize(frame.len) > 0
  IN  /\ pc[c] = "handle_tcp_payload"
      /\ \/ ~decode /\ Finish(c, NF_ACCEPT)
         \/ decode /\ Goto(c, "process_message") /\ UNCHANGED skb_linear
      /\ UNCHANGED <<module, hooked, skb, allocated>>

\* process_message returning what it decoded, as in the UDP example
Process_ReturnsMessage(c) ==
  /\ pc[c] = "process_message"
  /\ Finish(c, skb[c].frame.msg)
  /\ UNCHANGED <<module, hooked, skb, allocated>>

Process(c) ==
  /\ pc[c] = "process_message"
  /\ \E v \in ProcessMessage(skb[c].frame.msg) : Finish(c, v)
  /\ UNCHANGED <<module, hooked, skb, allocated>>

\* The stack acts on the verdict and the CPU leaves the hook.
Return(c) ==
  /\ pc[c] = "return"
  /\ pc' = [pc EXCEPT ![c] = "idle"]
  /\ skb' = [skb EXCEPT ![c] = NULL]
  /\ verdict' = [verdict EXCEPT ![c] = NULL]
  /\ UNCHANGED <<module, hooked, skb_linear, allocated>>

HookStep(c) ==
  \/ HookFunc(c) \/ SkbCopy(c) \/ SkbLinearize(c)
  \/ HandleTcpPayload(c) \/ Process(c) \/ Return(c)

Next ==
  \/ ModuleInit \/ ModuleExit \/ ModuleFree
  \/ \E c \in Cpus : HookStep(c)
  \/ \E c \in Cpus, p \in Packets \cup {NULL} : Deliver(c, p)

Spec == Init /\ [][Next]_vars

\* A softirq that has started is not preempted by other work of the module.
FairSpec == Spec /\ \A c \in Cpus : WF_vars(HookStep(c))

-----------------------------------------------------------------------------
\* Properties

Leaked == allocated \ {skb_linear[c] : c \in Cpus}

\* A CPU that reads the payload of a nonlinear packet reads it from a linear
\* copy of its own: no CPU reads fragments, none shares its copy with another
\* or reads one that was freed (hook_func, handle_tcp_payload).
CopyOwnership ==
  /\ \A c \in Cpus :
       \/ skb_linear[c] \in allocated
       \/ skb_linear[c] = NULL /\
          (pc[c] \in {"handle_tcp_payload", "process_message"}
             => ~skb[c].nonlinear)
  /\ \A c, d \in Cpus :
       c # d /\ skb_linear[c] = skb_linear[d] => skb_linear[c] = NULL

\* A copy that no CPU knows any more was lost by an inspection that went well;
\* the error paths of hook_func give back what they took.
LeakOnlyAfterInspection ==
  [][\A s \in Leaked' \ Leaked :
       \E c \in Cpus : /\ skb_linear[c] = s
                       /\ pc[c] \in {"handle_tcp_payload", "process_message"}]_vars

\* Every packet handed to hook_func gets its verdict, also when memory is gone.
VerdictReached ==
  \A c \in Cpus : (pc[c] = "hook_func") ~> (pc[c] = "return")

\* The verdicts a packet may get, from its content alone.  The message rules,
\* except that a packet that must be copied may be dropped for want of memory.
Allowed(p) ==
  LET inspected == p # NULL /\ p.tcp /\ p.loopback /\ p.my_port /\ p.psh
      framed == inspected /\ p.frame # NULL /\ p.frame.len \in 1..(BUFFER_SIZE - 1)
  IN  (IF framed THEN ProcessMessage(p.frame.msg) ELSE {NF_ACCEPT})
        \cup (IF inspected /\ p.nonlinear THEN {NF_DROP} ELSE {})

Filter ==
  INSTANCE PacketFilter
    WITH registered <- hooked,
         stage <- [c \in Cpus |-> CASE pc[c] = "idle"   -> "idle"
                                    [] pc[c] = "return" -> "decided"
                                    [] OTHER            -> "inspecting"],
         packet <- skb

\* hook_func on any number of CPUs is an atomic filter: each packet leaves with
\* one verdict, and one that its own content allows.
ImplementsFilter == Filter!Spec

\* "Make a copy to preserve the original skb" ... "Free the linearized skb":
\* once no CPU is in the hook, the copies it made are freed.
NoSkbLeak == (\A c \in Cpus : pc[c] = "idle") => allocated = {}

=============================================================================
