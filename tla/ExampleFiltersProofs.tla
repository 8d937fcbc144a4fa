------------------------ MODULE ExampleFiltersProofs ------------------------
(***************************************************************************)
(* Proofs about the example filters, for any number of CPUs and any        *)
(* messages of the clients.  First FpuSection: process_message of the      *)
(* floats module, taken in steps, is the one step of NetfilterHook, so     *)
(* what is proved of the hook holds with the section in it, and the        *)
(* registers of the program that it interrupts are kept.  Then the rules   *)
(* of ExampleFilters: what the clients encode is decoded and judged by its *)
(* own content.                                                            *)
(***************************************************************************)
EXTENDS ExampleFilters, FpuSection, NetfilterHookProofs, MessageCodecProofs

-----------------------------------------------------------------------------
\* The inductive invariant

InSection(c) == fpu_pc[c] # "out"

\* An open section is in process_message of a float message, without interrupts,
\* and the user's registers are saved.
OpenInv(c) ==
  InSection(c) =>
    /\ pc[c] = "process_message"
    /\ skb[c].frame.msg \in FloatMessages
    /\ ~irqs[c]
    /\ in_kernel_fpu[c]
    /\ fpstate[c] = "user"

ClosedInv(c) ==
  ~InSection(c) => irqs[c] /\ (in_kernel_fpu[c] => task[c] = "section")

\* The registers hold barf until it is compared, and the result is that of barf.
BarfInv(c) ==
  /\ fpu_pc[c] = "loaded" => regs[c] = "barf"
  /\ fpu_pc[c] = "compared" => discard_f[c] = Greater(skb[c].frame.msg)

UserInv(c) ==
  IF fpstate[c] = NULL THEN regs[c] = "user" ELSE fpstate[c] = "user"

FpuInv ==
  /\ FpuTypeOK
  /\ \A c \in Cpus : OpenInv(c) /\ ClosedInv(c) /\ BarfInv(c) /\ UserInv(c)

\* No section is open and the registers are those of user code.
LEMMA FpuInitInv == FpuInit => FpuInv
BY FloatAssumption
   DEF FpuInit, FpuInv, FpuTypeOK, Holders, InSection, OpenInv, ClosedInv, BarfInv, UserInv

\* The registers that a section saves are the user's.
LEMMA SavedIsUser ==
  ASSUME FpuInv, NEW c \in Cpus
  PROVE  Saved(c) = "user"
BY DEF FpuInv, UserInv, Saved

-----------------------------------------------------------------------------
\* Each step of the section is a step of the hook, or none.

\* The end of the section gives the verdict that Process gives in one step.
LEMMA FpuEndIsProcess ==
  ASSUME FpuInv, NEW c \in Cpus, FpuEnd(c)
  PROVE  Process(c)
<1> DEFINE m == skb[c].frame.msg
<1>1. pc[c] = "process_message" /\ m \in FloatMessages /\ fpu_pc[c] = "compared"
  BY DEF FpuEnd, FloatsAt
<1>2. discard_f[c] = Greater(m)
  BY <1>1 DEF FpuInv, BarfInv
<1>3. ProcessMessage(m) = {IF discard_f[c] THEN NF_DROP ELSE NF_ACCEPT}
  BY <1>1, <1>2, FloatAssumption
<1>4. Finish(c, IF discard_f[c] THEN NF_DROP ELSE NF_ACCEPT)
  BY DEF FpuEnd
<1>5. \E v \in ProcessMessage(m) : Finish(c, v)
  <2> DEFINE w == IF discard_f[c] THEN NF_DROP ELSE NF_ACCEPT
  <2>1. w \in ProcessMessage(m)
    BY <1>3
  <2> QED
    BY <2>1, <1>4
<1>6. UNCHANGED <<module, hooked, skb, allocated>>
  BY DEF FpuEnd
<1> QED
  BY <1>1, <1>5, <1>6 DEF Process

\* Each step is one of the hook or leaves what the hook knows alone.
LEMMA StepRefines == FpuInv /\ [FpuNext]_all_vars => [Next]_vars
<1> SUFFICES ASSUME FpuInv, [FpuNext]_all_vars
             PROVE  [Next]_vars
  OBVIOUS
<1>1. CASE ModuleInit \/ ModuleExit \/ ModuleFree
  BY <1>1 DEF Next
<1>2. CASE \E c \in Cpus, p \in Packets \cup {NULL} : Deliver(c, p)
  BY <1>2 DEF Next
<1>3. ASSUME NEW c \in Cpus, IntegerStep(c)
      PROVE  Next
  BY <1>3 DEF IntegerStep, Next, HookStep
<1>4. ASSUME NEW c \in Cpus, FloatStep(c)
      PROVE  [Next]_vars
  <2>1. CASE FpuEnd(c)
    BY <2>1, FpuEndIsProcess DEF Next, HookStep
  <2>2. CASE FpuBegin(c) \/ LoadFloat(c) \/ CompareFloat(c)
    BY <2>2 DEF FpuBegin, LoadFloat, CompareFloat
  <2> QED
    BY <1>4, <2>1, <2>2 DEF FloatStep
<1>5. ASSUME NEW c \in Cpus, KernelStep(c)
      PROVE  UNCHANGED vars
  BY <1>5 DEF KernelStep, SectionBegin, SectionEnd, ReturnToUser, HardIrq
<1>6. CASE UNCHANGED all_vars
  BY <1>6 DEF all_vars
<1> QED
  BY <1>1, <1>2, <1>3, <1>4, <1>5, <1>6 DEF FpuNext

-----------------------------------------------------------------------------
\* The invariant is kept.

\* A step of one CPU leaves the part of another alone.
LEMMA OtherSections ==
  ASSUME FpuInv, NEW d \in Cpus,
         fpu_pc'[d] = fpu_pc[d], irqs'[d] = irqs[d],
         in_kernel_fpu'[d] = in_kernel_fpu[d], task'[d] = task[d],
         fpstate'[d] = fpstate[d], regs'[d] = regs[d], discard_f'[d] = discard_f[d],
         InSection(d) => pc'[d] = pc[d] /\ skb'[d] = skb[d]
  PROVE  OpenInv(d)' /\ ClosedInv(d)' /\ BarfInv(d)' /\ UserInv(d)'
BY DEF FpuInv, InSection, OpenInv, ClosedInv, BarfInv, UserInv

\* A step of the hook does not touch a CPU that is in the section.
LEMMA HookKeepsSections ==
  ASSUME TypeOK, FpuInv, UNCHANGED fpu_vars,
         \/ ModuleInit \/ ModuleExit \/ ModuleFree
         \/ \E c \in Cpus : IntegerStep(c)
         \/ \E c \in Cpus, p \in Packets \cup {NULL} : Deliver(c, p)
  PROVE  FpuInv'
<1>1. ASSUME NEW d \in Cpus, InSection(d)
      PROVE  pc'[d] = pc[d] /\ skb'[d] = skb[d]
  <2>1. pc[d] = "process_message" /\ skb[d].frame.msg \in FloatMessages
    BY <1>1 DEF FpuInv, OpenInv
  <2>2. CASE ModuleInit \/ ModuleExit \/ ModuleFree
    BY <2>2 DEF ModuleInit, ModuleExit, ModuleFree
  <2>3. ASSUME NEW c \in Cpus, NEW p \in Packets \cup {NULL}, Deliver(c, p)
        PROVE  pc'[d] = pc[d] /\ skb'[d] = skb[d]
    BY <2>1, <2>3 DEF Deliver, TypeOK
  <2>4. ASSUME NEW c \in Cpus, IntegerStep(c)
        PROVE  pc'[d] = pc[d] /\ skb'[d] = skb[d]
    <3>1. c # d
      BY <2>1, <2>4 DEF IntegerStep, HookFunc, SkbCopy, SkbLinearize,
                        HandleTcpPayload, Return
    <3>2. pc'[d] = pc[d]
      BY <2>4, <3>1 DEF IntegerStep, HookFunc, SkbCopy, SkbLinearize,
                        HandleTcpPayload, Process, Return, Finish, Goto, TypeOK
    <3>3. skb'[d] = skb[d]
      BY <2>4, <3>1 DEF IntegerStep, HookFunc, SkbCopy, SkbLinearize,
                        HandleTcpPayload, Process, Return, TypeOK
    <3> QED
      BY <3>2, <3>3
  <2> QED
    BY <2>2, <2>3, <2>4
<1>2. \A d \in Cpus : OpenInv(d)' /\ ClosedInv(d)' /\ BarfInv(d)' /\ UserInv(d)'
  BY <1>1, OtherSections DEF fpu_vars
<1>3. FpuTypeOK'
  BY DEF FpuInv, FpuTypeOK, fpu_vars
<1> QED
  BY <1>2, <1>3 DEF FpuInv

\* The four steps of process_message keep the invariant.
LEMMA FloatStepKeeps ==
  ASSUME TypeOK, FpuInv, NEW c \in Cpus, FloatStep(c)
  PROVE  FpuInv'
<1> USE DEF FpuInv
<1>1. CASE FpuBegin(c)
  <2>1. FpuTypeOK'
    BY <1>1, SavedIsUser DEF FpuBegin, FpuTypeOK, kernel_fpu_begin, Advance, Holders
  <2>2. OpenInv(c)' /\ ClosedInv(c)' /\ BarfInv(c)' /\ UserInv(c)'
    BY <1>1, SavedIsUser, FloatAssumption
       DEF FpuBegin, FloatsAt, kernel_fpu_begin, Advance, FpuTypeOK, vars,
           InSection, OpenInv, ClosedInv, BarfInv, UserInv
  <2>3. ASSUME NEW d \in Cpus, d # c
        PROVE  OpenInv(d)' /\ ClosedInv(d)' /\ BarfInv(d)' /\ UserInv(d)'
    BY <1>1, <2>3, OtherSections
       DEF FpuBegin, kernel_fpu_begin, Advance, FpuTypeOK, vars
  <2> QED
    BY <2>1, <2>2, <2>3
<1>2. CASE LoadFloat(c)
  <2>1. FpuTypeOK'
    BY <1>2 DEF LoadFloat, FpuTypeOK, Advance, Holders
  <2>2. OpenInv(c)' /\ ClosedInv(c)' /\ BarfInv(c)' /\ UserInv(c)'
    BY <1>2, FloatAssumption
       DEF LoadFloat, FloatsAt, Advance, FpuTypeOK, vars,
           InSection, OpenInv, ClosedInv, BarfInv, UserInv
  <2>3. ASSUME NEW d \in Cpus, d # c
        PROVE  OpenInv(d)' /\ ClosedInv(d)' /\ BarfInv(d)' /\ UserInv(d)'
    BY <1>2, <2>3, OtherSections DEF LoadFloat, Advance, FpuTypeOK, vars
  <2> QED
    BY <2>1, <2>2, <2>3
<1>3. CASE CompareFloat(c)
  <2> DEFINE m == skb[c].frame.msg
  <2>1. m \in FloatMessages /\ regs[c] = "barf" /\ fpu_pc[c] = "loaded"
    BY <1>3 DEF CompareFloat, FloatsAt, BarfInv
  <2>2. discard_f' = [discard_f EXCEPT ![c] = Greater(m)]
    BY <1>3, <2>1 DEF CompareFloat
  <2>3. FpuTypeOK'
    BY <1>3, <2>1, <2>2, FloatAssumption DEF CompareFloat, FpuTypeOK, Advance
  <2>4. OpenInv(c)' /\ ClosedInv(c)' /\ UserInv(c)'
    BY <1>3 DEF CompareFloat, FloatsAt, Advance, FpuTypeOK, vars,
                InSection, OpenInv, ClosedInv, UserInv
  <2>5. BarfInv(c)'
    <3>1. discard_f'[c] = Greater(m)
      BY <2>2 DEF FpuTypeOK
    <3>2. fpu_pc'[c] = "compared" /\ skb' = skb
      BY <1>3 DEF CompareFloat, Advance, FpuTypeOK, vars
    <3> QED
      BY <3>1, <3>2 DEF BarfInv
  <2>6. ASSUME NEW d \in Cpus, d # c
        PROVE  OpenInv(d)' /\ ClosedInv(d)' /\ BarfInv(d)' /\ UserInv(d)'
    <3>1. discard_f'[d] = discard_f[d]
      BY <2>2, <2>6 DEF FpuTypeOK
    <3> QED
      BY <1>3, <2>6, <3>1, OtherSections DEF CompareFloat, Advance, FpuTypeOK, vars
  <2> QED
    BY <2>3, <2>4, <2>5, <2>6
<1>4. CASE FpuEnd(c)
  <2>1. FpuTypeOK'
    BY <1>4 DEF FpuEnd, FpuTypeOK, kernel_fpu_end, Advance
  <2>2. OpenInv(c)' /\ ClosedInv(c)' /\ BarfInv(c)' /\ UserInv(c)'
    BY <1>4 DEF FpuEnd, kernel_fpu_end, Advance, FpuTypeOK,
                InSection, OpenInv, ClosedInv, BarfInv, UserInv
  <2>3. ASSUME NEW d \in Cpus, d # c
        PROVE  OpenInv(d)' /\ ClosedInv(d)' /\ BarfInv(d)' /\ UserInv(d)'
    BY <1>4, <2>3, OtherSections
       DEF FpuEnd, kernel_fpu_end, Advance, Finish, FpuTypeOK, TypeOK
  <2> QED
    BY <2>1, <2>2, <2>3
<1> QED
  BY <1>1, <1>2, <1>3, <1>4 DEF FloatStep

\* The kernel's steps on a CPU in the section are impossible.
LEMMA KernelStepKeeps ==
  ASSUME TypeOK, FpuInv, NEW c \in Cpus, KernelStep(c)
  PROVE  FpuInv'
<1> USE DEF FpuInv
<1>1. ~InSection(c) /\ UNCHANGED <<vars, fpu_pc, irqs, discard_f>>
  BY DEF KernelStep, SectionBegin, SectionEnd, ReturnToUser, HardIrq, OpenInv
<1>2. FpuTypeOK'
  <2>1. CASE SectionBegin(c)
    BY <2>1, SavedIsUser DEF SectionBegin, kernel_fpu_begin, FpuTypeOK, Holders
  <2>2. CASE SectionEnd(c)
    BY <2>2 DEF SectionEnd, kernel_fpu_end, FpuTypeOK
  <2>3. CASE ReturnToUser(c)
    BY <2>3 DEF ReturnToUser, FpuTypeOK
  <2>4. CASE HardIrq(c)
    BY <2>4, SavedIsUser DEF HardIrq, FpuTypeOK, Holders
  <2> QED
    BY <2>1, <2>2, <2>3, <2>4 DEF KernelStep
<1>3. OpenInv(c)' /\ BarfInv(c)'
  BY <1>1 DEF InSection, OpenInv, BarfInv
<1>4. ClosedInv(c)'
  BY <1>1 DEF KernelStep, SectionBegin, SectionEnd, ReturnToUser, HardIrq,
        kernel_fpu_begin, kernel_fpu_end, FpuTypeOK, InSection, ClosedInv
<1>5. UserInv(c)'
  BY SavedIsUser, FloatAssumption
     DEF KernelStep, SectionBegin, SectionEnd, ReturnToUser, HardIrq,
         kernel_fpu_begin, kernel_fpu_end, FpuTypeOK, UserInv
<1>6. ASSUME NEW d \in Cpus, d # c
      PROVE  OpenInv(d)' /\ ClosedInv(d)' /\ BarfInv(d)' /\ UserInv(d)'
  <2>1. /\ in_kernel_fpu'[d] = in_kernel_fpu[d] /\ task'[d] = task[d]
        /\ fpstate'[d] = fpstate[d] /\ regs'[d] = regs[d]
    BY <1>6 DEF KernelStep, SectionBegin, SectionEnd, ReturnToUser, HardIrq,
                kernel_fpu_begin, kernel_fpu_end, FpuTypeOK
  <2> QED
    BY <1>1, <2>1, OtherSections DEF vars
<1> QED
  BY <1>2, <1>3, <1>4, <1>5, <1>6

\* So does every step of the hook and of the kernel around it.
LEMMA FpuNextInv == TypeOK /\ FpuInv /\ [FpuNext]_all_vars => FpuInv'
<1> SUFFICES ASSUME TypeOK, FpuInv, [FpuNext]_all_vars
             PROVE  FpuInv'
  OBVIOUS
<1>1. CASE UNCHANGED all_vars
  BY <1>1 DEF all_vars, fpu_vars, vars, FpuInv, FpuTypeOK,
              InSection, OpenInv, ClosedInv, BarfInv, UserInv
<1>2. CASE FpuNext
  BY <1>2, HookKeepsSections, FloatStepKeeps, KernelStepKeeps DEF FpuNext
<1> QED
  BY <1>1, <1>2

\* Types come from the hook's own invariant, through StepRefines.
LEMMA FpuInvariance == FpuSpec => [](IInv /\ FpuInv)
<1>1. FpuInit => IInv /\ FpuInv
  BY FpuInitInv, InitInv DEF FpuInit
<1>2. IInv /\ FpuInv /\ [FpuNext]_all_vars => (IInv /\ FpuInv)'
  <2> SUFFICES ASSUME IInv, FpuInv, [FpuNext]_all_vars
               PROVE  IInv' /\ FpuInv'
    OBVIOUS
  <2>1. IInv'
    BY StepRefines, NextInv
  <2>2. FpuInv'
    BY FpuNextInv DEF IInv
  <2> QED
    BY <2>1, <2>2
<1> QED
  BY <1>1, <1>2, PTL DEF FpuSpec

-----------------------------------------------------------------------------
\* Theorems

\* The comparison of floats in steps, with interrupts and other users of the FPU
\* between them, is one step of hook_func that gives the verdict of the
\* message's own float.
THEOREM FpuImplementsHook == FpuSpec => ImplementsHook
<1>1. FpuInit => Init
  BY DEF FpuInit
<1> QED
  BY <1>1, StepRefines, FpuInvariance, PTL DEF FpuSpec, ImplementsHook, Spec

\* The FPU registers of the interrupted program are never lost.
THEOREM RegistersKept == FpuSpec => []UserRegistersKept
<1>1. FpuInv => UserRegistersKept
  BY DEF FpuInv, UserInv, UserRegistersKept
<1> QED
  BY <1>1, FpuInvariance, PTL

\* process_message is left with the section closed and interrupts on.
THEOREM SectionsClosed == FpuSpec => []SectionClosed
<1>1. FpuInv => SectionClosed
  BY DEF FpuInv, OpenInv, ClosedInv, InSection, SectionClosed
<1> QED
  BY <1>1, FpuInvariance, PTL

\* With the section in it, the hook is still the atomic filter, and every copy
\* of a packet still belongs to one CPU.
THEOREM FpuKeepsHook == FpuSpec => ImplementsFilter /\ []CopyOwnership
BY FpuImplementsHook, Implementation, CopiesAreOwned DEF ImplementsHook

-----------------------------------------------------------------------------
\* The bytes of what the clients send

\* A varint has a number of bytes, whatever it encodes.
LEMMA VarintNat == \A n : VarintBytes(n) \in Nat
<1> SUFFICES ASSUME NEW n PROVE VarintBytes(n) \in Nat
  OBVIOUS
<1> DEFINE more == {b \in {7, 14, 21, 28} : n >= 2^b}
<1>1. IsFiniteSet(more)
  <2>1. more \subseteq 1..28
    OBVIOUS
  <2>2. \A k \in Nat : IsFiniteSet(1..k)
    BY FS_Interval
  <2> HIDE DEF more
  <2> QED
    BY <2>1, <2>2, FS_Subset
<1>2. Cardinality(more) \in Nat
  <2> HIDE DEF more
  <2> QED
    BY <1>1, FS_CardinalityType
<1>3. VarintBytes(n) = IF n < 0 THEN 10 ELSE 1 + Cardinality(more)
  BY DEF VarintBytes
<1> HIDE DEF more
<1> QED
  BY <1>2, <1>3

\* A number or a string takes a byte for its tag at least.
LEMMA FieldTakes ==
  ASSUME NEW Sub, NEW f \in FieldOver(Sub)
  PROVE  FieldBytes(f) \in Nat /\ FieldBytes(f) >= 1
<1>1. f.wire \in {VARINT, I64, LEN, I32}
  BY DEF FieldOver
<1>2. TEXT \in Nat /\ VarintBytes(f.val) \in Nat
  BY ExampleAssumption, VarintNat
<1> QED
  BY <1>1, <1>2 DEF FieldBytes, VARINT, I64, LEN, I32

\* No number is greater than the sum of all.
LEMMA SumHolds ==
  ASSUME NEW numbers \in Seq(Nat)
  PROVE  /\ Sum(numbers) \in Nat
         /\ Len(numbers) # 0 => numbers[1] <= Sum(numbers)
<1> DEFINE n == Len(numbers)
<1>1. PICK t : IsSums(numbers, t) /\ Sum(numbers) = t[n]
  BY SumRun
<1>2. n \in Nat /\ \A i \in 0..(n - 1) : numbers[i + 1] \in Nat
  OBVIOUS
<1>3. /\ t[0] = 0 /\ \A i \in 0..n : t[i] \in Nat
      /\ \A i \in 0..(n - 1) : t[i + 1] = t[i] + numbers[i + 1]
  BY <1>1 DEF IsSums
<1> HIDE DEF n
<1>4. ASSUME NEW i \in 0..(n - 1)
      PROVE  t[i] <= t[i + 1]
  <2>1. i \in 0..n
    BY <1>2
  <2>2. t[i] \in Nat /\ numbers[i + 1] \in Nat /\ t[i + 1] = t[i] + numbers[i + 1]
    BY <1>2, <1>3, <2>1
  <2> QED
    BY <2>2
<1>5. ASSUME n # 0
      PROVE  numbers[1] <= t[n]
  <2>1. 0 \in 0..(n - 1) /\ 1 \in 0..n
    BY <1>2, <1>5
  <2>2. t[0 + 1] = t[0] + numbers[0 + 1] /\ numbers[0 + 1] \in Nat
    BY <1>2, <1>3, <2>1
  <2>3. t[1] <= t[n]
    BY <1>2, <1>3, <1>4, <2>1, SumsMonotone
  <2> QED
    BY <1>3, <2>2, <2>3
<1>6. t[n] \in Nat
  BY <1>2, <1>3
<1> QED
  BY <1>1, <1>5, <1>6 DEF n

\* So a message with fields takes bytes.
LEMMA BytesOver ==
  ASSUME NEW n \in Nat, NEW numbers, numbers = [i \in 1..n |-> numbers[i]],
         \A i \in 1..n : numbers[i] \in Nat /\ numbers[i] >= 1
  PROVE  Sum(numbers) \in Nat /\ (n # 0 => Sum(numbers) >= 1)
<1>1. numbers \in Seq(Nat) /\ Len(numbers) = n
  OBVIOUS
<1>2. Sum(numbers) \in Nat /\ (n # 0 => numbers[1] <= Sum(numbers))
  BY <1>1, SumHolds
<1>3. n # 0 => numbers[1] >= 1 /\ numbers[1] \in Nat
  OBVIOUS
<1> QED
  BY <1>2, <1>3

\* The bytes of Foo or PhoneNumber are a number, and not 0 if there is a field.
LEMMA ScalarTakes ==
  ASSUME NEW fields \in ScalarFields
  PROVE  ScalarBytes(fields) \in Nat /\ (Len(fields) # 0 => ScalarBytes(fields) >= 1)
<1> DEFINE n == Len(fields)
           numbers == [i \in 1..n |-> FieldBytes(fields[i])]
<1>1. n \in Nat /\ DOMAIN fields = 1..n /\ \A i \in 1..n : fields[i] \in FieldOver({<<>>})
  BY FieldFacts DEF ScalarFields
<1>2. \A i \in 1..n : numbers[i] \in Nat /\ numbers[i] >= 1
  BY <1>1, FieldTakes
<1>3. ScalarBytes(fields) = Sum(numbers)
  BY <1>1 DEF ScalarBytes
<1>4. numbers = [i \in 1..n |-> numbers[i]]
  OBVIOUS
<1> HIDE DEF numbers, n
<1>5. Sum(numbers) \in Nat /\ (n # 0 => Sum(numbers) >= 1)
  BY <1>1, <1>2, <1>4, BytesOver
<1> QED
  BY <1>3, <1>5 DEF n

\* The bytes of a person are a number.
LEMMA PersonTakesBytes ==
  ASSUME NEW fields \in PersonFields
  PROVE  PersonBytes(fields) \in Nat
<1> DEFINE n == Len(fields)
           Bytes(f) == IF f.num = 4 THEN 2 + ScalarBytes(f.sub) ELSE FieldBytes(f)
           numbers == [i \in 1..n |-> Bytes(fields[i])]
<1>1. /\ n \in Nat /\ DOMAIN fields = 1..n
      /\ \A i \in 1..n : fields[i] \in FieldOver(ScalarFields) /\ fields[i].sub \in ScalarFields
  BY FieldFacts DEF PersonFields
<1>2. \A i \in 1..n : numbers[i] \in Nat /\ numbers[i] >= 1
  <2>1. ASSUME NEW f \in FieldOver(ScalarFields), f.sub \in ScalarFields
        PROVE  Bytes(f) \in Nat /\ Bytes(f) >= 1
    <3>1. ScalarBytes(f.sub) \in Nat
      BY <2>1, ScalarTakes
    <3>2. FieldBytes(f) \in Nat /\ FieldBytes(f) >= 1
      BY FieldTakes
    <3> QED
      BY <3>1, <3>2
  <2> HIDE DEF Bytes, n
  <2> QED
    BY <1>1, <2>1
<1>3. PersonBytes(fields) = Sum(numbers)
  BY <1>1 DEF PersonBytes
<1>4. numbers = [i \in 1..n |-> numbers[i]]
  OBVIOUS
<1> HIDE DEF numbers, n
<1>5. Sum(numbers) \in Nat
  BY <1>1, <1>2, <1>4, BytesOver
<1> QED
  BY <1>3, <1>5

\* The bytes of a book are a number, and not 0 if it has people.
LEMMA BookTakesBytes ==
  ASSUME NEW fields \in BookFields
  PROVE  BookBytes(fields) \in Nat /\ (Len(fields) # 0 => BookBytes(fields) >= 1)
<1> DEFINE n == Len(fields)
           numbers == [i \in 1..n |-> 2 + PersonBytes(fields[i].sub)]
<1>1. n \in Nat /\ DOMAIN fields = 1..n /\ \A i \in 1..n : fields[i].sub \in PersonFields
  BY FieldFacts DEF BookFields
<1>2. \A i \in 1..n : numbers[i] \in Nat /\ numbers[i] >= 1
  <2>1. \A i \in 1..n : PersonBytes(fields[i].sub) \in Nat
    BY <1>1, PersonTakesBytes
  <2> QED
    BY <2>1
<1>3. BookBytes(fields) = Sum(numbers)
  BY <1>1 DEF BookBytes
<1>4. numbers = [i \in 1..n |-> numbers[i]]
  OBVIOUS
<1> HIDE DEF numbers, n
<1>5. Sum(numbers) \in Nat /\ (n # 0 => Sum(numbers) >= 1)
  BY <1>1, <1>2, <1>4, BytesOver
<1> QED
  BY <1>3, <1>5 DEF n

-----------------------------------------------------------------------------
\* What is written is not nothing, unless it is a Foo with the default value.

\* A bar that is not 0 takes bytes, so that its frame is not empty.
LEMMA FooWritten ==
  ASSUME NEW m \in Messages, m.proto # "address_book"
  PROVE  MessageBytes(m) \in Nat /\ (m.bar # 0 => MessageBytes(m) >= 1)
<1>1. PICK wire \in {VARINT, I64, LEN, I32} : Encoding(m) = EncodeFoo(wire, m)
  BY ExampleAssumption DEF Encoding, EncodeMessage, Protos
<1>2. m.bar \in Int
  BY ExampleAssumption
<1>3. Encoding(m) \in ScalarFields
  BY <1>1, <1>2, FooEncoded
<1>4. m.bar # 0 => Len(Encoding(m)) # 0
  BY <1>1 DEF EncodeFoo, EncodeScalar
<1>5. MessageBytes(m) = ScalarBytes(Encoding(m))
  BY DEF MessageBytes
<1> QED
  BY <1>3, <1>4, <1>5, ScalarTakes

\* So do the people that every book has.
LEMMA BookWritten ==
  ASSUME NEW m \in Messages, m.proto = "address_book"
  PROVE  MessageBytes(m) \in Nat /\ MessageBytes(m) >= 1
<1> DEFINE people == m.people
           n == Len(people)
<1>1. people \in Seq(Persons) /\ n \in Nat /\ n # 0
  BY ExampleAssumption
<1>2. Encoding(m) = EncodeBook(m)
  BY DEF Encoding, EncodeMessage
<1>3. EncodeBook(m) \in BookFields
  BY <1>1, BookEncoded
<1>4. DOMAIN EncodeBook(m) = 1..n
  <2>1. DOMAIN people = 1..n
    BY <1>1
  <2> QED
    BY <2>1 DEF EncodeBook, EncodeRepeated
<1> HIDE DEF n
<1>5. Len(EncodeBook(m)) # 0
  <2> DEFINE e == EncodeBook(m)
  <2>1. DOMAIN e = 1..Len(e) /\ Len(e) \in Nat
    BY <1>3, FieldFacts DEF BookFields
  <2>2. DOMAIN e = 1..n /\ 1 \in 1..n
    BY <1>1, <1>4
  <2>3. Len(e) # 0
    <3> DEFINE k == Len(e)
    <3>1. 1 \in 1..k /\ k \in Nat
      BY <2>1, <2>2
    <3> HIDE DEF k, e
    <3>2. k # 0
      BY <3>1
    <3> QED
      BY <3>2 DEF k
  <2> QED
    BY <2>3 DEF e
<1>6. MessageBytes(m) = BookBytes(EncodeBook(m))
  BY <1>2 DEF MessageBytes
<1> QED
  BY <1>3, <1>5, <1>6, BookTakesBytes

-----------------------------------------------------------------------------
\* What a CPU has judged is what a client sent.
LEMMA SentByClient ==
  ASSUME IInv, NEW c \in Cpus, skb[c] # NULL
  PROVE  skb[c].frame.msg \in Messages
BY ExampleAssumption DEF IInv, TypeOK, ClientPacket, ClientFrame

\* A CPU about to return has judged what a client sent: by the rule of the
\* example, if it was written as at least one byte.

\* A verdict is right if the rule gives it on every message with bytes, and no
\* message without is to be dropped: those the hook accepts without looking.
LEMMA DecidedBy ==
  ASSUME IInv, NEW c \in Cpus, pc[c] = "return", skb[c] # NULL,
         NEW drop \in BOOLEAN,
         MessageBytes(skb[c].frame.msg) >= 1 =>
           ExampleVerdicts(skb[c].frame.msg) = DropIf(drop),
         drop => MessageBytes(skb[c].frame.msg) >= 1
  PROVE  Judged(c, drop)
<1> DEFINE p == skb[c]
           m == p.frame.msg
<1>1. p \in Packets /\ verdict[c] \in Allowed(p)
  BY DEF IInv, TypeOK, VerdictInv
<1>2. PICK sent \in Messages, nonlinear \in BOOLEAN : p = ClientPacket(sent, nonlinear)
  BY <1>1, ExampleAssumption
<1>3. /\ p.tcp /\ p.loopback /\ p.my_port /\ p.psh
      /\ p.frame = ClientFrame(sent) /\ m = sent /\ p.frame.len = MessageBytes(sent)
  BY <1>2 DEF ClientPacket, ClientFrame
<1>4. p.frame.len < BUFFER_SIZE /\ ProcessMessage(m) = ExampleVerdicts(m)
  BY <1>3, ExampleAssumption
<1>5. p.frame.len \in Nat /\ BUFFER_SIZE \in Nat /\ p.frame # NULL
  <2>1. MessageBytes(sent) \in Nat
    BY FooWritten, BookWritten
  <2>2. BUFFER_SIZE \in Nat /\ BUFFER_SIZE <= UINT_MAX /\ UINT_MAX \in Nat
    BY FramingAssumption DEF UINT_MAX
  <2>3. ClientFrame(sent) \in FrameType(Messages)
    BY <1>3, <1>4, <2>1, <2>2 DEF ClientFrame, FrameType
  <2> QED
    BY <1>3, <2>1, <2>2, <2>3, HookAssumption
<1>6. p.nonlinear \in BOOLEAN /\ p # NULL
  BY <1>2 DEF ClientPacket
<1>7. Allowed(p) = (IF p.frame.len >= 1 THEN ProcessMessage(m) ELSE {NF_ACCEPT})
                     \cup (IF p.nonlinear THEN {NF_DROP} ELSE {})
  <2>1. p.frame.len \in 1..(BUFFER_SIZE - 1) <=> p.frame.len >= 1
    BY <1>4, <1>5
  <2> QED
    BY <1>3, <1>5, <1>6, <2>1 DEF Allowed
<1> HIDE DEF p, m
<1>8. CASE p.frame.len >= 1
  <2>1. verdict[c] = (IF drop THEN NF_DROP ELSE NF_ACCEPT) \/ (p.nonlinear /\ verdict[c] = NF_DROP)
    BY <1>1, <1>3, <1>4, <1>7, <1>8 DEF DropIf, p, m
  <2> QED
    BY <2>1 DEF Judged, NF_ACCEPT, NF_DROP, p
<1>9. CASE ~(p.frame.len >= 1)
  <2>1. ~drop
    BY <1>3, <1>9 DEF p, m
  <2>2. verdict[c] = NF_ACCEPT \/ (p.nonlinear /\ verdict[c] = NF_DROP)
    BY <1>1, <1>7, <1>9
  <2> QED
    BY <2>1, <2>2 DEF Judged, NF_ACCEPT, NF_DROP, p
<1> QED
  BY <1>8, <1>9

-----------------------------------------------------------------------------
\* The rules, of what the clients meant

\* bar arrives in hello_world and in floats as it was sent.
LEMMA BarArrives ==
  ASSUME NEW wire \in {VARINT, I64, LEN, I32}, NEW m \in Messages
  PROVE  DecodeFoo(wire, EncodeFoo(wire, m), HEAP).msg.bar = m.bar
<1> DEFINE e == EncodeFoo(wire, m)
<1>1. m.bar \in Int
  BY ExampleAssumption
<1>2. e \in ScalarFields /\ Typed(e, <<wire>>) /\ Value(e, 1) = m.bar
  BY <1>1, FooEncoded
<1> HIDE DEF e
<1>3. DecodeFoo(wire, e, HEAP) = At(FooMeaning(e), HEAP)
  BY <1>2, FooDecoded
<1>4. DecodeFoo(wire, e, HEAP).msg.bar = m.bar
  BY <1>2, <1>3 DEF At, State, FooMeaning
<1> QED
  BY <1>4 DEF e

\* The hello_world module decodes bar as it was sent and compares it with 20.
LEMMA FooRule ==
  ASSUME NEW m \in Messages, m.proto = "hello_world"
  PROVE  ExampleVerdicts(m) = DropIf(m.bar >= 20)
<1>1. DecodeMessage(m.proto, Encoding(m), HEAP) = DecodeFoo(VARINT, EncodeFoo(VARINT, m), HEAP)
  BY DEF DecodeMessage, Encoding, EncodeMessage
<1>2. DecodeMessage(m.proto, Encoding(m), HEAP).msg.bar = m.bar
  BY <1>1, BarArrives
<1> QED
  BY <1>2 DEF ExampleVerdicts, HelloWorldVerdicts

\* The bits of a float above 10.1 are those from one behind TRESHOLD to INFINITY.
LEMMA AboveIsGreater ==
  ASSUME NEW m, m.bar \in Int
  PROVE  Above(m) <=> BarfGreater(m)
<1> DEFINE bar == m.bar
           q == bar \div 8388608
           r == bar % 8388608
<1>1. 2^23 = 8388608 /\ 2^20 = 1048576
  BY SMT
<1>2. \A b \in Int : /\ b \div 8388608 \in Int /\ b % 8388608 \in Int
                     /\ 0 <= b % 8388608 /\ b % 8388608 < 8388608
                     /\ b = 8388608 * (b \div 8388608) + (b % 8388608)
  BY SMT
<1>3. /\ bar \in Int /\ q \in Int /\ r \in Int /\ 0 <= r /\ r < 8388608
      /\ bar = 8388608 * q + r
  BY <1>2
<1>4. Above(m) <=> /\ bar >= 0
                   /\ q - 127 <= 127 \/ bar = 255 * 8388608
                   /\ q - 127 > 3 \/ (q - 127 = 3 /\ 10 * (8388608 + r - 1) > 101 * 1048576)
  BY <1>1, SMT DEF Above, INFINITY
<1>5. BarfGreater(m) <=> bar > 130 * 8388608 + 2202010 /\ bar <= 255 * 8388608
  BY <1>1, SMT DEF BarfGreater, INFINITY, TRESHOLD
<1> HIDE DEF bar, q, r
<1> QED
  BY <1>3, <1>4, <1>5, SMT

\* The floats module compares the bits of bar; that is to compare its value.
LEMMA FloatRule ==
  ASSUME NEW m \in Messages, m.proto = "floats"
  PROVE  ExampleVerdicts(m) = DropIf(Above(m)) /\ (Above(m) => m.bar # 0)
<1> DEFINE d == DecodeMessage(m.proto, Encoding(m), HEAP).msg
<1>1. DecodeMessage(m.proto, Encoding(m), HEAP) = DecodeFoo(I32, EncodeFoo(I32, m), HEAP)
  BY DEF DecodeMessage, Encoding, EncodeMessage
<1>2. d.bar = m.bar /\ m.bar \in Int
  BY <1>1, BarArrives, ExampleAssumption
<1>3. Above(m) <=> BarfGreater(m)
  BY <1>2, AboveIsGreater
<1>4. ExampleVerdicts(m) = FloatsVerdicts(d)
  BY DEF ExampleVerdicts
<1> HIDE DEF d
<1>5. BarfGreater(d) <=> BarfGreater(m)
  BY <1>2 DEF BarfGreater
<1>6. BarfGreater(m) => m.bar # 0
  BY <1>2, SMT DEF BarfGreater, TRESHOLD
<1> QED
  BY <1>3, <1>4, <1>5, <1>6 DEF FloatsVerdicts, DropIf

\* The strings that FirstPersonFits counts, with the room for them
LEMMA NumbersGiven ==
  ASSUME NEW phones \in Seq(PhoneNumbers)
  PROVE  Sum(PhoneSpaces(phones)) =
           STRING_SIZE * Cardinality({i \in DOMAIN phones : phones[i].number # 0})
<1> DEFINE n == Len(phones)
           a == PhoneSpaces(phones)
           fields == [j \in 1..n |-> [num |-> Given(phones[j].number)]]
<1>1. n \in Nat /\ DOMAIN phones = 1..n
  OBVIOUS
<1>2. \A k \in 1..n : a[k] = STRING_SIZE * Given(phones[k].number) /\ a[k] \in Nat
  BY Sizes DEF PhoneSpaces, Given
<1>3. a \in Seq(Nat) /\ Len(a) = n
  <2>1. a = [k \in 1..n |-> a[k]]
    BY DEF PhoneSpaces
  <2> HIDE DEF a, n
  <2> QED
    BY <1>1, <1>2, <2>1
<1>4. PICK t : IsSums(a, t) /\ Sum(a) = t[n]
  BY <1>3, SumRun
<1>5. t[0] = 0 /\ \A i \in 0..(n - 1) : t[i + 1] = t[i] + a[i + 1]
  BY <1>3, <1>4 DEF IsSums
<1> DEFINE S == {i \in 0..n : t[i] = StringsTo(fields, {1}, i)}
<1>6. 0 \in S
  BY <1>1, <1>5, StringsNone
<1>7. ASSUME NEW i \in 0..(n - 1), i \in S
      PROVE  i + 1 \in S
  <2>1. i \in Nat /\ i + 1 \in 0..n /\ i + 1 \in 1..n
    BY <1>1
  <2>2. fields[i + 1].num = Given(phones[i + 1].number)
    BY <2>1
  <2>3. a[i + 1] = IF fields[i + 1].num \in {1} THEN STRING_SIZE ELSE 0
    <3>1. a[i + 1] = STRING_SIZE * Given(phones[i + 1].number)
      BY <1>2, <2>1
    <3> HIDE DEF fields, a, n
    <3> QED
      BY <2>2, <3>1, Sizes DEF Given
  <2>4. StringsTo(fields, {1}, i + 1) =
          StringsTo(fields, {1}, i) + (IF fields[i + 1].num \in {1} THEN STRING_SIZE ELSE 0)
    <3> HIDE DEF fields, a, n
    <3> QED
      BY <2>1, StringsStep
  <2> HIDE DEF fields, a, n
  <2> QED
    BY <1>5, <1>7, <2>1, <2>3, <2>4
<1>8. 0..n \subseteq S
  <2> HIDE DEF S, n
  <2> QED
    BY <1>1, <1>6, <1>7, UpTo
<1>9. t[n] = STRING_SIZE * CountTo(fields, {1}, n)
  BY <1>1, <1>8 DEF StringsTo
<1>10. {j \in 1..n : fields[j].num \in {1}} = {i \in DOMAIN phones : phones[i].number # 0}
  BY <1>1 DEF Given
<1>11. CountTo(fields, {1}, n) = Cardinality({i \in DOMAIN phones : phones[i].number # 0})
  BY <1>10 DEF CountTo
<1> QED
  BY <1>4, <1>9, <1>11

\* The strings of a person, counted as a set and one by one.
LEMMA NamesGiven ==
  ASSUME NEW person
  PROVE  Cardinality({s \in {"name", "email"} : person[s] # 0})
           = Given(person.name) + Given(person.email)
<1> DEFINE given == {s \in {"name", "email"} : person[s] # 0}
<1>1. Cardinality({}) = 0 /\ \A x : Cardinality({x}) = 1 /\ IsFiniteSet({x})
  BY FS_EmptySet, FS_Singleton
<1>2. Cardinality({"name", "email"}) = 2
  <2>1. {"name", "email"} = {"name"} \cup {"email"} /\ "email" \notin {"name"}
    OBVIOUS
  <2>2. Cardinality({"name"}) = 1 /\ IsFiniteSet({"name"})
    BY <1>1
  <2>3. Cardinality({"name"} \cup {"email"}) = Cardinality({"name"}) + 1
    BY <2>1, <2>2, FS_AddElement
  <2>4. Cardinality({"name"} \cup {"email"}) = 2
    BY <2>2, <2>3
  <2> QED
    BY <2>1, <2>4
<1>3. CASE person["name"] = 0 /\ person["email"] = 0
  <2>1. given = {}
    BY <1>3
  <2> QED
    BY <1>1, <1>3, <2>1 DEF Given
<1>4. CASE person["name"] # 0 /\ person["email"] = 0
  <2>1. given = {"name"}
    BY <1>4
  <2> QED
    BY <1>1, <1>4, <2>1 DEF Given
<1>5. CASE person["name"] = 0 /\ person["email"] # 0
  <2>1. given = {"email"}
    BY <1>5
  <2> QED
    BY <1>1, <1>5, <2>1 DEF Given
<1>6. CASE person["name"] # 0 /\ person["email"] # 0
  <2>1. given = {"name", "email"}
    BY <1>6
  <2> QED
    BY <1>2, <1>6, <2>1 DEF Given
<1> QED
  BY <1>3, <1>4, <1>5, <1>6

\* What the first person takes is what FirstPersonFits counts.
LEMMA FirstFits ==
  ASSUME NEW person \in Persons
  PROVE  LET phones  == Len(person.phones) * PHONE_SIZE
             strings == Cardinality({s \in {"name", "email"} : person[s] # 0})
                          + Cardinality({i \in DOMAIN person.phones :
                                           person.phones[i].number # 0})
         IN  /\ PersonSpace(person) = phones + strings * STRING_SIZE
             /\ phones \in Nat /\ strings * STRING_SIZE \in Nat
<1> DEFINE x == Given(person.name) + Given(person.email)
           y == Cardinality({i \in DOMAIN person.phones : person.phones[i].number # 0})
           phones == person.phones
           room == Len(phones) * PHONE_SIZE
<1>1. phones \in Seq(PhoneNumbers) /\ Len(phones) \in Nat /\ DOMAIN phones = 1..Len(phones)
  BY DEF Persons
<1>2. x \in Nat /\ y \in Nat
  <2>1. y \in Nat
    <3> DEFINE numbered == {i \in DOMAIN phones : phones[i].number # 0}
    <3>1. IsFiniteSet(1..Len(phones)) /\ numbered \subseteq 1..Len(phones)
      BY <1>1, FS_Interval
    <3>2. Cardinality(numbered) \in Nat
      <4> HIDE DEF numbered
      <4> QED
        BY <3>1, FS_Subset, FS_CardinalityType
    <3> QED
      BY <3>2
  <2> QED
    BY <2>1, GivenNat
<1>3. Cardinality({s \in {"name", "email"} : person[s] # 0}) = x
  BY NamesGiven
<1>4. Sum(PhoneSpaces(phones)) = STRING_SIZE * y
  BY <1>1, NumbersGiven
<1>5. PersonSpace(person) = STRING_SIZE * x + room + STRING_SIZE * y
  BY <1>4 DEF PersonSpace
<1>6. room \in Nat
  BY <1>1, Sizes
<1> HIDE DEF x, y, room
<1>7. /\ STRING_SIZE * x + room + STRING_SIZE * y = room + (x + y) * STRING_SIZE
      /\ (x + y) * STRING_SIZE \in Nat
  <2>1. x + y \in Nat
    BY <1>2
  <2>2. \A k \in Nat : k * STRING_SIZE \in Nat
    BY Sizes
  <2>3. (x + y) * STRING_SIZE \in Nat
    BY <2>1, <2>2
  <2>4. STRING_SIZE * x + room + STRING_SIZE * y = room + (x + y) * STRING_SIZE
    BY <1>2, <1>6, Sizes
  <2> QED
    BY <2>3, <2>4
<1> QED
  BY <1>3, <1>5, <1>6, <1>7 DEF room, y

\* The first person arrives as it was sent, if the workspace holds the people and
\* what the first one has.
LEMMA FirstArrives ==
  ASSUME NEW m \in Messages, m.proto = "address_book", FirstPersonFits(m)
  PROVE  LET people == DecodeBook(EncodeBook(m), HEAP).msg.people
         IN  people # <<>> /\ people[1] = m.people[1]
<1> DEFINE people == m.people
           n == Len(people)
           first == people[1]
           e == EncodeBook(m)
           subs == Subs(e, 1)
           room == n * PERSON_SIZE
<1>1. people \in Seq(Persons) /\ n \in Nat /\ n >= 1 /\ HEAP \in Nat
  BY ExampleAssumption
<1>2. first \in Persons /\ DOMAIN people = 1..n
  BY <1>1
<1>3. e \in BookFields /\ BookTyped(e) /\ subs = EncodedPeople(people) /\ Len(subs) = n
  BY <1>1, BookEncoded
<1>4. subs[1] = EncodePerson(first)
  BY <1>1, <1>2, <1>3 DEF EncodedPeople
<1>5. PersonTyped(EncodePerson(first)) /\ PersonMeaning(EncodePerson(first)) = first
  BY <1>2, PersonEncoded
<1>6. PersonTakes(subs[1]) = PersonSpace(first)
  BY <1>2, <1>4, EncodedTakes
<1>7. room \in Nat
  BY <1>1, Sizes
<1>8. room + PersonSpace(first) <= HEAP
  <2> DEFINE phones == Len(first.phones) * PHONE_SIZE
             strings == (Cardinality({s \in {"name", "email"} : first[s] # 0})
                  + Cardinality({i \in DOMAIN first.phones : first.phones[i].number # 0}))
               * STRING_SIZE
  <2>1. room + phones + strings <= HEAP
    BY DEF FirstPersonFits
  <2>2. PersonSpace(first) = phones + strings /\ phones \in Nat /\ strings \in Nat
    BY <1>2, FirstFits
  <2> HIDE DEF phones, strings, room, first
  <2> QED
    BY <1>7, <2>1, <2>2
<1>9. Typed(e, BookWires)
  BY <1>3 DEF BookTyped, BookWires
<1> HIDE DEF people, n, first, e, subs, room
<1> DEFINE decoded == DecodeBook(e, HEAP).msg.people
<1>10. decoded # <<>> /\ decoded[1] = PersonMeaning(subs[1])
  <2>1. IsRoom(room, Len(subs), PERSON_SIZE)
    BY <1>3, <1>7 DEF IsRoom, room
  <2>2. Len(subs) >= 1 /\ PersonTyped(subs[1]) /\ room + PersonTakes(subs[1]) <= HEAP
    BY <1>1, <1>3, <1>4, <1>5, <1>6, <1>8
  <2> QED
    BY <1>1, <1>3, <1>9, <2>1, <2>2, FirstDecoded DEF subs
<1> QED
  BY <1>4, <1>5, <1>10 DEF e, first, people

\* The address_book module counts the WORK numbers the first person was sent
\* with.
LEMMA BookRule ==
  ASSUME NEW m \in Messages, m.proto = "address_book", FirstPersonFits(m)
  PROVE  ExampleVerdicts(m) = DropIf(WorkNumbers(m.people[1]) < 2)
<1> DEFINE d == DecodeMessage(m.proto, Encoding(m), HEAP).msg
<1>1. d = DecodeBook(EncodeBook(m), HEAP).msg
  BY DEF DecodeMessage, Encoding, EncodeMessage
<1>2. d.people # <<>> /\ d.people[1] = m.people[1]
  BY <1>1, FirstArrives
<1>3. ExampleVerdicts(m) = AddressBookVerdicts(d)
  BY DEF ExampleVerdicts
<1> HIDE DEF d
<1> QED
  BY <1>2, <1>3 DEF AddressBookVerdicts

-----------------------------------------------------------------------------
\* Theorems

\* hello_world: what its client sends passes exactly if bar < 20, through any
\* interleaving of the CPUs and also when bar is encoded as nothing.
THEOREM FooJudged == Spec => []FooVerdict
<1>1. ASSUME IInv, NEW c \in Returning("hello_world")
      PROVE  Judged(c, skb[c].frame.msg.bar >= 20)
  <2> DEFINE m == skb[c].frame.msg
  <2>1. c \in Cpus /\ pc[c] = "return" /\ skb[c] # NULL /\ m.proto = "hello_world"
    BY <1>1 DEF Returning
  <2>2. m \in Messages
    BY <1>1, <2>1, SentByClient
  <2>3. m.bar \in Int
    BY <2>2, ExampleAssumption
  <2>4. m.bar >= 20 => MessageBytes(m) >= 1
    BY <2>1, <2>2, <2>3, FooWritten
  <2> DEFINE drop == m.bar >= 20
  <2>5. drop \in BOOLEAN /\ ExampleVerdicts(m) = DropIf(drop)
    BY <2>1, <2>2, FooRule
  <2> HIDE DEF drop
  <2>6. Judged(c, drop)
    BY <1>1, <2>1, <2>4, <2>5, DecidedBy DEF drop
  <2> QED
    BY <2>6 DEF drop
<1>2. IInv => FooVerdict
  BY <1>1 DEF FooVerdict
<1> QED
  BY <1>2, Invariance, PTL

\* floats: exactly the values above 10.1 and +infinity are dropped, by the bits
\* of the float as the module gets them.
THEOREM FloatJudged == Spec => []FloatVerdict
<1>1. ASSUME IInv, NEW c \in Returning("floats")
      PROVE  Judged(c, Above(skb[c].frame.msg))
  <2> DEFINE m == skb[c].frame.msg
  <2>1. c \in Cpus /\ pc[c] = "return" /\ skb[c] # NULL /\ m.proto = "floats"
    BY <1>1 DEF Returning
  <2>2. m \in Messages
    BY <1>1, <2>1, SentByClient
  <2>3. Above(m) => MessageBytes(m) >= 1
    BY <2>1, <2>2, FloatRule, FooWritten
  <2>4. Above(m) \in BOOLEAN
    BY DEF Above
  <2> QED
    BY <1>1, <2>1, <2>2, <2>3, <2>4, FloatRule, DecidedBy
<1>2. IInv => FloatVerdict
  BY <1>1 DEF FloatVerdict
<1> QED
  BY <1>2, Invariance, PTL

\* address_book: the verdict is by the WORK numbers of the first person as the
\* client sent it, if the workspace holds the list of people and what the first
\* one has, also when memory runs out at another person.
THEOREM FirstPersonJudged == Spec => []FirstPersonVerdict
<1>1. ASSUME IInv, NEW c \in Returning("address_book"), FirstPersonFits(skb[c].frame.msg)
      PROVE  Judged(c, WorkNumbers(skb[c].frame.msg.people[1]) < 2)
  <2> DEFINE m == skb[c].frame.msg
  <2>1. c \in Cpus /\ pc[c] = "return" /\ skb[c] # NULL /\ m.proto = "address_book"
    BY <1>1 DEF Returning
  <2>2. m \in Messages
    BY <1>1, <2>1, SentByClient
  <2>3. MessageBytes(m) >= 1
    BY <2>1, <2>2, BookWritten
  <2>4. ExampleVerdicts(m) = DropIf(WorkNumbers(m.people[1]) < 2)
    BY <1>1, <2>1, <2>2, BookRule
  <2> DEFINE drop == WorkNumbers(m.people[1]) < 2
  <2>5. drop \in BOOLEAN /\ ExampleVerdicts(m) = DropIf(drop)
    BY <2>4
  <2> HIDE DEF drop
  <2>6. Judged(c, drop)
    BY <1>1, <2>1, <2>3, <2>5, DecidedBy
  <2> QED
    BY <2>6 DEF drop
<1>2. IInv => FirstPersonVerdict
  BY <1>1 DEF FirstPersonVerdict
<1> QED
  BY <1>2, Invariance, PTL

\* The same with the float compared in steps, between those of other CPUs, of
\* interrupts and of kernel code that uses the FPU.
THEOREM FpuKeepsVerdicts == FpuSpec => [](FooVerdict /\ FloatVerdict /\ FirstPersonVerdict)
BY FpuImplementsHook, FooJudged, FloatJudged, FirstPersonJudged, PTL DEF ImplementsHook

=============================================================================
