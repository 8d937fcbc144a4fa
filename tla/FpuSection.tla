----------------------------- MODULE FpuSection -----------------------------
(***************************************************************************)
(* The float comparison of examples/netfilter/floats: process_message as   *)
(* the steps between which the FPU of the CPU can be seen or taken.  The   *)
(* hook is a softirq: the registers it finds are those of the code it      *)
(* interrupted, user code or kernel code in an FPU section of its own.     *)
(*                                                                         *)
(* Of the kernel (x86, as long as kernel_fpu_begin leaves softirqs on) the *)
(* module has what process_message relies on.  A set of registers is known *)
(* by the code whose values it holds.                                      *)
(***************************************************************************)
EXTENDS NetfilterHook

CONSTANTS FloatMessages,      \* the messages of the floats module
          Greater(_)          \* barf > treshold_f, of a message's float

ASSUME FloatAssumption ==
  /\ FloatMessages \subseteq Messages
  /\ \A m \in FloatMessages :
       /\ Greater(m) \in BOOLEAN
       /\ ProcessMessage(m) = {IF Greater(m) THEN NF_DROP ELSE NF_ACCEPT}
  /\ NULL \notin {"user", "section", "irq", "barf"}

VARIABLES task,           \* per CPU: what runs below the hook, user or section
          regs,           \* per CPU: whose values the FPU registers hold
          fpstate,        \* per CPU: the registers saved for the user, or NULL
          in_kernel_fpu,  \* per CPU: the kernel's mark that a section is open
          irqs,           \* per CPU: interrupts are enabled
          fpu_pc,         \* per CPU: where process_message stands in its section
          discard_f       \* per CPU: the result of the comparison

fpu_vars == <<task, regs, fpstate, in_kernel_fpu, irqs, fpu_pc, discard_f>>

Holders == {"user", "section", "irq", "barf"}

FpuTypeOK ==
  /\ task \in [Cpus -> {"user", "section"}]
  /\ regs \in [Cpus -> Holders]
  /\ fpstate \in [Cpus -> Holders \cup {NULL}]
  /\ in_kernel_fpu \in [Cpus -> BOOLEAN]
  /\ irqs \in [Cpus -> BOOLEAN]
  /\ fpu_pc \in [Cpus -> {"out", "begun", "loaded", "compared"}]
  /\ discard_f \in [Cpus -> BOOLEAN]

FpuInit ==
  /\ Init
  /\ task = [c \in Cpus |-> "user"]
  /\ regs = [c \in Cpus |-> "user"]
  /\ fpstate = [c \in Cpus |-> NULL]
  /\ in_kernel_fpu = [c \in Cpus |-> FALSE]
  /\ irqs = [c \in Cpus |-> TRUE]
  /\ fpu_pc = [c \in Cpus |-> "out"]
  /\ discard_f = [c \in Cpus |-> FALSE]

-----------------------------------------------------------------------------
\* The kernel

\* kernel_fpu_begin saves the registers unless the user's are saved already;
\* whoever opens a section inside another one finds nobody to save for.
Saved(c) == IF fpstate[c] = NULL THEN regs[c] ELSE fpstate[c]

kernel_fpu_begin(c) ==
  /\ in_kernel_fpu' = [in_kernel_fpu EXCEPT ![c] = TRUE]
  /\ fpstate' = [fpstate EXCEPT ![c] = Saved(c)]

kernel_fpu_end(c) == in_kernel_fpu' = [in_kernel_fpu EXCEPT ![c] = FALSE]

\* Kernel code below the hook, as a cipher or a checksum, opens and closes a section.
SectionBegin(c) ==
  /\ pc[c] = "idle" /\ task[c] = "user"
  /\ task' = [task EXCEPT ![c] = "section"]
  /\ kernel_fpu_begin(c)
  /\ regs' = [regs EXCEPT ![c] = "section"]
  /\ UNCHANGED <<vars, irqs, fpu_pc, discard_f>>

SectionEnd(c) ==
  /\ pc[c] = "idle" /\ task[c] = "section"
  /\ task' = [task EXCEPT ![c] = "user"]
  /\ kernel_fpu_end(c)
  /\ UNCHANGED <<vars, regs, fpstate, irqs, fpu_pc, discard_f>>

\* On the way to user mode the saved registers are loaded.
ReturnToUser(c) ==
  /\ pc[c] = "idle" /\ task[c] = "user"
  /\ fpstate[c] # NULL
  /\ regs' = [regs EXCEPT ![c] = fpstate[c]]
  /\ fpstate' = [fpstate EXCEPT ![c] = NULL]
  /\ UNCHANGED <<vars, task, in_kernel_fpu, irqs, fpu_pc, discard_f>>

\* An interrupt handler that uses the FPU asks irq_fpu_usable, and is a section
\* from its begin to its end.
HardIrq(c) ==
  /\ irqs[c] /\ ~in_kernel_fpu[c]
  /\ fpstate' = [fpstate EXCEPT ![c] = Saved(c)]
  /\ regs' = [regs EXCEPT ![c] = "irq"]
  /\ UNCHANGED <<vars, task, in_kernel_fpu, irqs, fpu_pc, discard_f>>

-----------------------------------------------------------------------------
\* process_message of the floats module

FloatsAt(c, label) ==
  /\ pc[c] = "process_message"
  /\ skb[c].frame.msg \in FloatMessages
  /\ fpu_pc[c] = label

Advance(c, label) == fpu_pc' = [fpu_pc EXCEPT ![c] = label]

\* the floats used without a section
FpuBegin_Bare(c) ==
  /\ FloatsAt(c, "out")
  /\ Advance(c, "begun")
  /\ UNCHANGED <<vars, task, regs, fpstate, in_kernel_fpu, irqs, discard_f>>

\* local_irq_save and kernel_fpu_begin; irq_fpu_usable is not asked.
FpuBegin(c) ==
  /\ FloatsAt(c, "out")
  /\ Advance(c, "begun")
  /\ irqs' = [irqs EXCEPT ![c] = FALSE]
  /\ kernel_fpu_begin(c)
  /\ UNCHANGED <<vars, task, regs, discard_f>>

\* barf takes a register.
LoadFloat(c) ==
  /\ FloatsAt(c, "begun")
  /\ Advance(c, "loaded")
  /\ regs' = [regs EXCEPT ![c] = "barf"]
  /\ UNCHANGED <<vars, task, fpstate, in_kernel_fpu, irqs, discard_f>>

CompareFloat(c) ==
  /\ FloatsAt(c, "loaded")
  /\ Advance(c, "compared")
  /\ \E d \in IF regs[c] = "barf" THEN {Greater(skb[c].frame.msg)} ELSE BOOLEAN :
       discard_f' = [discard_f EXCEPT ![c] = d]
  /\ UNCHANGED <<vars, task, regs, fpstate, in_kernel_fpu, irqs>>

\* a dropped message returning before kernel_fpu_end
FpuEnd_DropsFirst(c) ==
  /\ FloatsAt(c, "compared")
  /\ Advance(c, "out")
  /\ IF discard_f[c] THEN UNCHANGED <<in_kernel_fpu, irqs>>
     ELSE kernel_fpu_end(c) /\ irqs' = [irqs EXCEPT ![c] = TRUE]
  /\ discard_f' = [discard_f EXCEPT ![c] = FALSE]
  /\ Finish(c, IF discard_f[c] THEN NF_DROP ELSE NF_ACCEPT)
  /\ UNCHANGED <<module, hooked, skb, allocated, task, regs, fpstate>>

\* kernel_fpu_end, local_irq_restore, and the verdict by discard_f
FpuEnd(c) ==
  /\ FloatsAt(c, "compared")
  /\ Advance(c, "out")
  /\ kernel_fpu_end(c)
  /\ irqs' = [irqs EXCEPT ![c] = TRUE]
  /\ discard_f' = [discard_f EXCEPT ![c] = FALSE]
  /\ Finish(c, IF discard_f[c] THEN NF_DROP ELSE NF_ACCEPT)
  /\ UNCHANGED <<module, hooked, skb, allocated, task, regs, fpstate>>

-----------------------------------------------------------------------------

\* The steps of the hook that leave the FPU alone
IntegerStep(c) ==
  \/ HookFunc(c) \/ SkbCopy(c) \/ SkbLinearize(c) \/ HandleTcpPayload(c) \/ Return(c)
  \/ Process(c) /\ skb[c].frame.msg \notin FloatMessages

FloatStep(c) == FpuBegin(c) \/ LoadFloat(c) \/ CompareFloat(c) \/ FpuEnd(c)

KernelStep(c) == SectionBegin(c) \/ SectionEnd(c) \/ ReturnToUser(c) \/ HardIrq(c)

FpuNext ==
  \/ /\ \/ ModuleInit \/ ModuleExit \/ ModuleFree
        \/ \E c \in Cpus : IntegerStep(c)
        \/ \E c \in Cpus, p \in Packets \cup {NULL} : Deliver(c, p)
     /\ UNCHANGED fpu_vars
  \/ \E c \in Cpus : FloatStep(c) \/ KernelStep(c)

all_vars == <<vars, fpu_vars>>

FpuSpec == FpuInit /\ [][FpuNext]_all_vars

-----------------------------------------------------------------------------
\* Properties

\* The program that runs below the hook keeps its FPU registers, in the CPU or
\* saved, through any nesting of the hook's section, the kernel's and those of
\* interrupt handlers.
UserRegistersKept ==
  \A c \in Cpus : IF fpstate[c] = NULL THEN regs[c] = "user" ELSE fpstate[c] = "user"

\* A CPU outside the float section takes interrupts and, unless kernel code below
\* has one open, may use its FPU: no way out of process_message leaves the
\* section open.
SectionClosed ==
  \A c \in Cpus : pc[c] # "process_message" =>
    irqs[c] /\ (in_kernel_fpu[c] => task[c] = "section")

\* process_message in steps is the one step of NetfilterHook: the float compared
\* is the message's own.  What holds of the hook holds with the section in it.
ImplementsHook == Spec

=============================================================================
