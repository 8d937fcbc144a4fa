# A verification of protobuf_lkm in TLA+

`protobuf_lkm` generates Linux kernel modules that decode protobuf messages:
one kind looks at TCP segments in a netfilter hook and drops some of them, the
other receives UDP datagrams. This directory holds TLA+ models of both kinds of
module, of the programs around them and of the generator with the build of its
package, the configurations that check them with
TLC, and proofs checked with TLAPS. Paths are relative to the repository.

## 1. Inventory

| Part | State it keeps | Operations | Interacts with |
|---|---|---|---|
| Netfilter module (`protobuf_lkm/lkm_netfilter/generate_main.py`, `examples/netfilter/*/module/main.c`) | `nfho`, registered or not; per call the packet, its copy and the place in `hook_func` | init, exit, `hook_func` with `handle_tcp_payload`, `extract_message_size`, `process_message` | called by the IPv4 stack on every CPU at once; takes memory with `skb_copy` |
| Rule of a filter (`process_message` of the three examples) | none; a 1024-byte workspace per call; the floats example opens an FPU section | decode, decide | generated message code, the FPU of the CPU it interrupts |
| UDP module (`protobuf_lkm/lkm_udp_sock/generate_main.py`, `examples/socket_udp/*/module/main.c`) | `sock`, the buffer, the place in init | init does everything: create, bind, receive (hello_world in a loop), release; exit only logs | `insmod`/`rmmod`, the UDP port it shares with other modules, clients |
| Generated message code (`examples/common/*/generated`) | a message in a workspace | new, init, encode, decode, their inner and repeated forms | pbtools |
| pbtools (`libs/pbtools`, a submodule that is not in the tree) | heap, encoder, decoder | used by the generated code only | - |
| TCP clients (`examples/netfilter/*/user_space/cmd/client`) | their connections, none of them ever closed | read input, dial, write prefix and message in one write | server, filter |
| TCP servers (`.../cmd/server`) | the connections accepted, closed when `main` returns | accept, read prefix, read message, decode, print | clients, filter |
| UDP clients (`examples/socket_udp/*/user_space`) | - | dial, write | UDP module |
| Generator (`protobuf_lkm/*.py`) | the output directory | parse, write `.c`/`.h`, copy pbtools, write `main.c`, `Makefile`, `.gitignore` | pbtools' code generator |
| Build of the package (`Makefile`, `generate_files.sh`) | the composed `parser.py`, `errors.py`, `generate_pbtools_*.py`, `c_source.py`, each made from some pbtools | `make protobuf_lkm`, `make clean-app` | the pbtools submodule, the generator |
| Modules' `Makefile`s | - | build, load (`insmod`, in the background for UDP), unload | the modules |

What is hard here, and what makes each part correct:

* **Netfilter module.** Many CPUs are in `hook_func` at the same time, memory
  may run out at any copy, the module is removed while packets are inside. It is
  correct if each packet leaves with exactly one verdict, one that its own
  content allows; if a nonlinear packet is read only from a linear copy that
  belongs to the CPU reading it; and if copies are given back.
* **UDP module.** Its life is a protocol: unloaded, in init, live. Signals,
  failures of `create` and `bind`, lost and empty datagrams and a second module
  on the port interfere. It is correct if the port and the sockets have one owner and
  are given back on every way out of init, if the datagrams are handled once
  and in order, if the loop stops when there is a reason to and not before, and if init returns.
* **Exchange.** TCP sends again what the filter drops, and the server waits for
  one connection at a time. Correct means: no dropped message arrives while the
  filter watches, and the others do arrive.
* **Message code.** Decoding is total, allocates within the workspace, and
  inverts encoding.
* **FPU section.** The registers belong to what the hook interrupted, and
  interrupt handlers come between the steps. Correct means: the registers are
  kept, the section is closed on every way out, and the comparison is of the message's float.
* **Generator and build.** Both write file after file, take nothing back when they
  fail, and start from what is there; make deletes the one target whose recipe a
  signal interrupts, whatever else the recipe has written. Correct means: what a call leaves
  that ends without error is one whole module, of one version of pbtools, and
  a file half written is never taken for a made one. The second holds of commands that
  fail and of crashes; of signals it does not, and section 3 says where.

## 2. Modules

| Module | What it is |
|---|---|
| `Framing` | the four-byte size prefix, read into a C `int` (`extract_message_size`) |
| `PacketFilter` | abstract specification of the netfilter module: enter, one decision, leave |
| `NetfilterHook` | the netfilter module, any rule; EXTENDS `Framing`, implements `PacketFilter` |
| `NetfilterHookProofs` | theorems about `NetfilterHook` |
| `MessageCodec` | the generated init, encode and decode functions of the three protos as operators |
| `MessageMeaning` | what an encoded message means, what workspace it needs, what types its fields must have, by the position of its fields; EXTENDS `MessageCodec` |
| `Decoding` | one message decoded and encoded again, against `MessageMeaning` |
| `FoldProofs` | what a fold over a sequence computes: the last state of a run through it |
| `MessageCodecProofs` | the loops of the generated code against `MessageMeaning`, for any message |
| `DecodingProofs` | theorems about `Decoding` |
| `ExampleFilters` | the three examples' rules and clients' packets on the hook; EXTENDS `NetfilterHook` and `MessageMeaning` |
| `FpuSection` | `process_message` of the floats example step by step, with the FPU and what the hook interrupts; EXTENDS `NetfilterHook` and implements it |
| `ExampleFiltersProofs` | theorems about `ExampleFilters` and `FpuSection`, with those of `NetfilterHookProofs` and the lemmas of `MessageCodecProofs` |
| `UdpReceiver` | UDP modules that share the port; EXTENDS `Framing` |
| `UdpReceiverProofs` | theorems about `UdpReceiver` |
| `FilteredExchange` | clients, TCP, filter and server of the netfilter examples |
| `FilteredExchangeProofs` | theorems about it |
| `PackageBuild` | `make protobuf_lkm`: the package composed from pbtools, file by file |
| `Generator` | `generate_lkm_source`, write by write, between builds; EXTENDS `PackageBuild` |
| `GeneratorProofs` | theorems about both |
| `MC...` | the instances TLC checks; one `.cfg` for each run |

`Framing` is shared by both kinds of module, as the function is in the code.
`FilteredExchange` takes the filter as one atomic decision per segment; that
this is what `hook_func` amounts to on any number of CPUs is the refinement
`NetfilterHook` => `PacketFilter`, checked and proved. `FpuSection` refines the one step
`Process` of `NetfilterHook` for the floats module; since it implements
`NetfilterHook`, it implements `PacketFilter` too.

### NetfilterHook

`pc[c]` is the place of CPU `c` in `hook_func`. A step is the code between two
accesses to what CPUs share (memory and the registration), so `HookFunc` covers
the tests of the headers, `SkbCopy` and `SkbLinearize` the two calls that can
fail with their error paths, `HandleTcpPayload` the reading of the prefix,
`Process` the rule. `Return` is the stack acting on the verdict. `allocated` is
the set of copies not freed; `Slots` is the memory. `ModuleInit` ends with the
hook registered or not, since the code does not look. `ModuleExit` takes the hook
out of the list; the text is freed (`ModuleFree`) when no CPU is inside any more.
A packet is a record of the answers to the tests the code makes, plus the frame
found where its payload begins. Of a payload that is shorter than its prefix, or than the prefix
says, a part of that frame is what lies in memory behind it, because the code compares neither
with `payload_len`. `ProcessMessage(m)` is the set of verdicts the rule
may give: more than one where the result depends on memory that nobody wrote.

### MessageCodec, MessageMeaning and Decoding

An encoded message is a sequence of fields, each with its number, its wire type
and a value or an embedded message; bytes are not modelled. A decode function of the
generated code is a loop with a switch, here a fold over the fields with an
operator for the switch (`FooField`, `PhoneField`, `PersonField`, `BookField`).
The state of the fold is the message so far, the bytes left in the workspace and
whether decoding has been aborted, after which the loop reads nothing. A repeated field
is counted in the loop, room for all its items is taken after it, and the
items are decoded then (`AllocRepeated`, `PutItem`), as in
`address_book_person_phones_decode`. What is needed of pbtools, which is not in
the tree, is in the first section of the module and external.

`Decoding` takes a message from the wire, decodes it in some workspace and
encodes the result. Its properties compare it with `Meaning`, `WellTyped` and `Need` of
`MessageMeaning`, which are defined from the fields by position and share nothing with the folds.

### ExampleFilters

One hook judges the packets of the three clients, each by the rule of its own
example: the modules differ in nothing else. A message is `[proto, bar, people]`; the
client encodes it (`ClientPacket`), the module decodes it in its workspace and applies
the rule to what is there (`ExampleVerdicts`). The bits of a float are a
signed 32-bit integer; `FloatsVerdicts` compares them as the code compares the
floats, and the property `FloatVerdict` recomputes the value from exponent and
fraction. `HEAP` is what the workspace of 1024 bytes has left when pbtools' heap
and the book itself are in it; `PERSON_SIZE`, `PHONE_SIZE` are those of the
generated structs on a 64-bit machine. A book without people, or with more than the
workspace has room for, is read through a pointer that was never written: the rule answers
`FAULT` or either verdict, and `ExampleAssumption` keeps such books out of the packets.

### FpuSection

`process_message` of the floats module is four steps: `FpuBegin`
(`local_irq_save`, `kernel_fpu_begin`), `LoadFloat`, `CompareFloat`, `FpuEnd` (both
undone, and the verdict). Between them, and whenever the hook is not running,
the kernel acts: code below the hook has FPU sections of its own
(`SectionBegin`, `SectionEnd`), interrupt handlers use the FPU if
`irq_fpu_usable` allows it (`HardIrq`), and user code gets its registers back
(`ReturnToUser`). `regs[c]` names the code whose values the registers hold,
`fpstate[c]` what is saved for the user. A comparison with registers that hold
something else than `barf` may come out either way. The kernel actions model x86 with
a `kernel_fpu_begin` that leaves softirqs on, which is the harder case.

### PackageBuild and Generator

A file of the package is the version of pbtools it was made from and the parts
written to it: `generate_files.sh` writes two of them in three parts. Each
redirection is a step that is done, leaves the file cut, or does not happen; after the
last two make and the script stop (a command that fails, a full disk, SIGKILL or a crash of the
machine, which lets nobody clean up). make goes by existence and, for `parser.py` and
`errors.py`, by the date of their prerequisite in the submodule, which is newer when
its version is another. Between calls the user pulls, updates the submodule, cleans and
makes again.

`Interrupt` is a signal that make can act on. It deletes the target it is making if the recipe has
changed it, which the Makefile does not prevent with `.PRECIOUS`. The rule with three targets is a rule for each of them, so that
of what the script has written it deletes one file, as a rule `generate_pbtools_c.py`. When `c_source.py` was there
already, written a moment ago or by an earlier call, it now stands without its library. `torn` is the history of this:
true from there until the script runs to its end or `clean-app` takes `c_source.py` away.

A call of the generator imports the package as it is at that moment (`code`) and writes a
header and a source for each proto file, then five files that every module
has. `WriteAt` is the sequence of writes; each is an `Open`, which empties the
file, and a `Write`. `Fail` may come at any point. `out` has for each
file what it was made from: the text of the templates is that of the modules
`NetfilterHook` and `UdpReceiver` model. A source made by a cut module of the
package is `Garbled` or whole, a cut `main.c` is one nobody has edited. `Edit` is the
user writing `process_message` into `main.c`. `code_torn` is `torn` of the package the call
has imported.

### UdpReceiver

`stage[m]` is the place of module `m` in its life. `Create`, `Bind`, `Recv`,
`RecvError`, `ExamineInLoop` or `ExamineOnce`, `Release` are the parts of init in
order. The datagrams at the port are `rcvq`; `buffer[m]` is the last frame written to
the module's buffer, which an empty datagram leaves alone. `heard` and
`handled` are histories of the current load. `StopsInTime` compares where a module goes
after a datagram with all that it has received (`NoReasonToStop`), and so finds an end that is too late and one that
is too early.

### FilteredExchange

`conns` lists the connections in the order they were dialed, which is the order
in which the server accepts them. `seg` says what became of the segment with
the message; `watched` and `dropped` are histories. `Transmit` is a
transmission or a retransmission.

## 3. Runs and bounds

Passing runs:

* `netfilter_hook`: 2 CPUs, 2 copies, 15 packets that take every way through the
  hook, with a payload that is cut among them. Two CPUs are enough for every interference (they share only memory and
  the registration), two copies for memory that is free, half used, used up and leaked.
  `BUFFER_SIZE` is the real one; `INT_MAX` is 32767 since TLC's integers could not hold
  twice the real one, and nothing lies between `BUFFER_SIZE` and `INT_MAX`. Checks the
  type, `CopyOwnership`, `LeakOnlyAfterInspection`, `VerdictReached` and the
  refinement `ImplementsFilter`.
* `message_decoding`: all sequences of up to three fields out of known, repeated,
  unknown and wrongly typed ones, for `Foo`, for the one person of a book and
  for books; workspaces from 0 to 976 bytes at the borders of what they need. Two
  fields with the same number and one between them are the longest pattern the
  loops tell apart. Checks `DecodesMeaning`, `AbortsForCause`,
  `AbortedBookIsPrefix`, `RoundTrip`.
* `example_filters`: one CPU (interference is checked in `netfilter_hook`) and the
  packets of the three clients, linear and not: integers at the borders of the
  rule and of the varint, floats next to 10.1 and at the ends of their range with both
  signs, infinities and what is not a number, books of 1 to 20 people whose
  first person has 0 to 3 phones, and the books of 3 people and 15 phones that the
  client draws, WORK or not for each phone of the first person. `ExampleAssumption` says that all fit the buffer, and the lists of people the workspace; the
  module `MCExampleFilters` also has TLC evaluate that a list of 21 people, or none, may end in `FAULT`.
  The float is compared in its section, with what the kernel does around
  it. Checks `FooVerdict`, `FloatVerdict`, `FirstPersonVerdict`, and of the section
  `UserRegistersKept`, `SectionClosed` and the refinement `ImplementsHook` (33,166
  states). The FPU belongs to a CPU, so that one CPU is enough. `HEAP` is 976: 1024 less
  what the book and pbtools' own header are taken to need, about 24 bytes each. It
  has room for a list of 20 people and not for one of 21.
* `udp_receiver`: the two examples loaded together, frames at the borders of the
  size check (0, 2, the 124 that fill the buffer, 128, a negative one) and of
  the loop's condition (5, 6), a queue of 2, 3 datagrams sent. Three datagrams are
  one more than the queue holds and allow message, empty datagram, message.
* `filtered_exchange`: 2 clients, 3 connections, 2 descriptors, a message that
  passes and one that does not.
* `generator`: 2 versions of pbtools, 2 calls of make and 3 calls in all, of make
  and the generator together; 3 proto files, two of which have the same base name,
  in 4 requests of both module types (1,847,800 states). Two builds are a failed one
  and its repair, two calls of the generator a module and what is written over it; both
  theorems behind it have no bounds. Every step of make may fail or be interrupted. Checks `ScriptFilesAgree`, `SuccessIsWhole`,
  `UserCodeSurvives`, of which the first and the library's part of the second except a package that a
  signal has torn. make runs one job at a time, `clean-app` is one step, and the
  generator does not run while make does: the repository does none of the three otherwise.

Runs that show where the program does not do what it says (each is a finding
of `PROJECT.json`, with the sentence it contradicts):

* `netfilter_skb_leak`: the copy of an inspected nonlinear packet is never freed.
* `udp_empty_package`: an empty datagram repeats the message before it.
* `udp_socket_leak`: a failed `bind` loses the socket.
* `exchange_unload`: a dropped message arrives after the module is unloaded.
* `exchange_blocked`: a dropped message holds back the accepted ones behind it.
* `address_book_readme`: the workspace is too small for a book that fits the
  buffer, and the book is dropped although its first person has two WORK numbers.
  The book has 19 or 20 people, whose list fits but not with the phones; with a smaller
  `HEAP` a book of fewer people shows the same.

Some more disagreements are plain from the code and need no run: init reports
the hook as registered whatever `nf_register_net_hook` answers
(`examples/netfilter/hello_world/module/main.c:183`); `examples/netfilter/README.md`
gives the rule of hello_world as `bar > 50`, the code has `bar >= 20`; and the root
`README.md` unloads the UDP module as its last step, which is refused as long as the
numbers sent were 5 or less, because init has not returned. The
comment before the FPU section of floats says "Save the current FPU state"
(`examples/netfilter/floats/module/main.c:63`), which `kernel_fpu_begin` does
for user code only. `README.md:45` says that the generated module builds and loads without
the user's intervention; with a proto file that uses messages of a second one it does
not, because only the first one's object is linked
(`protobuf_lkm/lkm_common/generate_makefile.py:16`). A `c_source.py`, `parser.py` or
`errors.py` that was cut by a full disk is never made again, and `parser.py` may be of another
version of pbtools than `c_source.py`: the properties say nothing of
the generated code then. No sentence of the repository says what becomes of the package when
make is interrupted, so this one is no finding, but it is a weakness the model shows: a signal in the last lines of
`generate_files.sh` (`generate_files.sh:135` and after) leaves `c_source.py` without `generate_pbtools_c.py`; if
a new pbtools is pulled and the disk is full when the next make has written the new `generate_pbtools_c.py`, the
old `generate_pbtools_h.py` stays, every target exists, make answers that all is made, and the generator writes a library whose
source and header are of different versions. Without the exception for `torn`, `ScriptFilesAgree` and
`SuccessIsWhole` are violated by this within the bounds of the run. Making `c_source.py` the only target of the rule, or
writing the library to temporary names, would close it.

The definitions with an underscore in their name (`Recv_Peeks`, ...) are
mistakes one could make in the code; each property is known to fail for one of them.

`CHECK_DEADLOCK FALSE` is set everywhere: the systems may come to rest
(a module nobody sends to, clients that have exited, the bound on datagrams).

### Fairness

* `NetfilterHook!FairSpec`: a CPU inside the hook goes on. Softirq context
  neither sleeps nor waits: `GFP_ATOMIC` fails instead.
* `UdpReceiver!FairSpec`: the process of `insmod` runs when it can; nothing is
  assumed of senders, signals, or the administrator.
* `FilteredExchange!FairSpec`: the server runs, a client that has connected
  writes, TCP (re)transmits. Nothing is assumed about input, loading,
  unloading, interruptions or TCP giving up.

## 4. Proofs

`NetfilterHookProofs`, for any sets of CPUs, packets, messages and memory and any rule:

* `TypeCorrect`, `CopiesAreOwned`: `Spec => []TypeOK`, `Spec => []CopyOwnership`.
  `CopyOwnership` is not inductive: it does not say that a packet at
  `skb_copy` is nonlinear, or that a CPU outside the inspection holds no copy.
  The inductive invariant `IInv` adds what each label says about its CPU: which tests
  the packet has passed (`PacketInv`), whether there is a copy (`CopyInv`), and
  that a verdict given is one the packet's content allows (`VerdictInv`).
  `NextInv` has a step for each action; `OtherCpus` is the
  frame argument for the CPUs that do not move.
* `LeaksComeFromInspections`: the error paths lose no copy.
* `Implementation`: `Spec => ImplementsFilter`, step by step: a step that ends
  `hook_func` is `Decide`, allowed by `VerdictInv`; others stutter.
* `PositiveSize` is the arithmetic fact under it: `extract_message_size`
  answers a positive number exactly for the prefixes 1 .. `BUFFER_SIZE` - 1.

`UdpReceiverProofs`, for any modules, sockets, datagrams and bounds:

* `TypeCorrect`. The one step that is not routine is that what is processed is a
  frame: a positive size is never read from a buffer nothing was written to
  (`PositiveSizeHasFrame`).
* `PortIsOwned`, `LeaksComeFromBind`: `PortOwnership` says of each module in init
  that its socket is open and its own, and of the port that it belongs to the module
  that has bound it; with the types it is inductive.
* `EachOnceInOrder`: `HandledInOrder` compares what was handled with what
  arrived. `OrderInv` says at each place where a datagram is: those not taken are
  the queue, the last one taken that was not empty is the buffer, the others
  are in `handled`. One lemma for each kind of step: `OrderRecv`,
  `OrderExamine`, `OrderHear`, and `OrderFrame` for modules that do not move.
  `OneHolder` is why the one queue belongs to one module.
* `StopsAtTheFirst`: the module decides by its buffer, `StopsInTime` by all that was received. `StopInv`
  says that a module still receiving has handled no datagram that ends it. With `OrderInv`, which says whose
  frame the buffer holds, the datagram just taken is the only one that can be a reason to stop
  (`ReasonToStop`): itself if it has bytes, or its being empty when it is the first.

`FilteredExchangeProofs`, for any clients, messages, descriptors and number of connections:

* `TypeCorrect`, `PrintedInOrder`, `NothingSlipsBy`. The inductive invariant has two
  parts besides the types. `ServerInv`: where the server stands in its loop tells how many
  messages it has printed, and the n-th is that of the n-th connection. `FilterInv`: a
  segment under way that has been watched has the filter in front of it, so that
  one the rule drops is not watched when it is delivered, and what is printed was
  delivered. `ServerFrame` and `FilterFrame` are what a step must do to the connections for
  them to stay.

`FoldProofs` has no result about the code but the lemmas the next two modules rest on, for any step
of a fold: a decode function is a `FoldLeft`, which the community
modules define over the sets of indices by a recursive function that is chosen.

* `FoldRun`: there is a run through the sequence, from the initial state, one step for each
  element in order, and the fold is its last state. `FoldExists` shows that the recursion has a
  solution; the states of the run are its values at the prefixes.
* `UpTo` is the induction all later proofs use. The library's induction
  theorems take a predicate as a parameter, which the provers cannot instantiate; here it is
  a set of numbers, obtained from well-founded relations (`WFMin`). A module takes the step of each loop
  with `INSTANCE FoldProofs WITH Op <- ...`.

`MessageCodecProofs`, for fields in any number and order, any embedded messages and any workspace:

* Decoding. Each loop has an invariant that says where it stands after `i` fields, from the
  values, strings and types of those fields (`FooRead`, `PhoneRead`, `PersonRead`, `BookRead`,
  with the lemmas `...ReadStep`), and the loop over the items of a repeated field one that says
  which are decoded, which one is in part and which are initial (`ItemsRead`). At the end
  they give `FooDecoded`, `PhoneDecoded`, `PersonDecoded`, `BookDecoded`: the message is what its fields mean
  and the workspace has become smaller by its need, or the decoding is aborted and what is left is a
  prefix (`BookPartial`). `FirstDecoded`: an abort at a later person leaves the first one whole.
* Encoding. `EncodeAppends` and `EncodeAppendsItems` say what a field or the items written
  behind others change; from them `FooEncoded`, `PersonEncoded`, `BookEncoded`: what is written is
  well typed and means the message.
* Space. `BookSpaceBound`: what is encoded of a decoded message never needs more than the message it came
  from, where a string given twice takes its room twice.

`DecodingProofs`, for any messages and workspaces:

* `MeaningDecoded`, `CausesOfAborts`, `AbortedBooksArePrefixes`, `DecodeInvertsEncode`. None of
  the four properties is inductive, since none says where `decoded` and `encoded` come from. `IInv` does:
  they are what the functions make of the message. The rest is in the lemmas above.

`ExampleFiltersProofs`, for any CPUs, any messages of the clients and any kernel around the hook:

* `FooJudged`, `FloatJudged`, `FirstPersonJudged`: each example's verdict is right by what the
  client meant. `DecidedBy` reduces this, from `VerdictInv` of the hook, to two facts about a
  message: the rule gives the verdict wanted, and a message of no bytes, which the hook accepts without
  looking, is not one to drop. The rules then are arithmetic on what has arrived: `FooRule`; `FloatRule`
  with `AboveIsGreater`, the comparison of exponent and fraction against that of the bits; `BookRule`
  with `FirstArrives`, which is `FirstDecoded` of what `BookEncoded` wrote.
* `FpuImplementsHook`: `FpuEnd` is `Process`, because `discard_f` is the comparison of the
  message; all other float and kernel steps stutter. It needs that the registers hold `barf`
  from `LoadFloat` to the end (`BarfInv`), and for this that no interrupt handler comes
  between (`OpenInv`: interrupts are off and the section is open in those steps).
* `RegistersKept`, `SectionsClosed`: from the same invariant, with `UserInv` and `ClosedInv`.
* `FpuKeepsHook`, `FpuKeepsVerdicts`: what is proved of the hook and of the verdicts holds with
  the section in it, by the refinement.

`GeneratorProofs`, for any versions, proto files, names, requests and bounds:

* `LibraryBeforeSource` (of `BuildSpec`) and `HalfMadePackage` (of `GenSpec`):
  `ScriptFilesAgree` does not say how far the script is. `ScriptInv` does: at each
  line, which parts of which files are written from the version checked out, and that `c_source.py`
  is missing until the last. The script starts only when one of its targets is
  missing; that `c_source.py` is missing then, unless the package is torn, is `ScriptFilesAgree` itself.
  `InterruptKeeps`: a signal either finds no `c_source.py`, or takes it away, or tears the package;
  `ScriptEndKeeps`: a script that runs to its end leaves four whole files of one version, also from a torn package.
* `WholeModule`, `KeepsUserCode`: `GenInv` says what is written before write number
  `next`. `ProtoInv`: the files of each proto file passed are whole and of one
  file of its name, or a later one of that name is just being written
  (`BeingWritten`). `CommonInv` is the same for the files that every module
  has, with `main.c` edited or not, and `RunInv` carries `ScriptFilesAgree` over to
  the package as the call imported it, unless that was torn (`code_torn`). `InfileOpened`, `HeaderWritten`, `SourceWritten`,
  `CommonOpened` and `CommonWritten` are the cases of one write; `OthersWhole` is
  the frame argument.

The assumptions are those of the modules, which the runs evaluate on their instances:

* `FramingAssumption`, `HookAssumption`, `UdpAssumption`, `ExchangeAssumption`: `BUFFER_SIZE` is a
  positive `int`, packets have the fields the code reads, the rule answers a verdict, the values the
  modules use as "none" are neither sockets, modules, frames nor messages.
* `CodecAssumption`, `DecodingAssumption`: the structs and strings have a size; messages are
  sequences of fields, nested as the protos nest them.
* `ExampleAssumption`: the packets are those of the clients, whose books have people, with a list that fits the
  workspace, and whose messages fit the buffer; each is judged by the rule of its own example. `FloatAssumption`: the rule of the floats
  module is to drop what is greater.
* `BuildAssumption`, `GeneratorAssumption`: every proto file has a name; the values used as
  "none" are neither files nor requests.

Only model-checked is liveness (`VerdictReached`, `InitReturns`, `ReceivedUnlessBlocked`), which
is out of the prover's reach. All invariants and all other temporal properties of the passing runs are
theorems.

## 5. Not modelled

* Segmentation: one message is one segment. The clients of the repository write prefix and
  message at once on a connection of their own; the messages fit one segment on loopback.
* A fault in the hook: reading behind a payload that is cut, or through the unwritten `items_p` of a book
  without people. The kernel stops then, and the model has no such state; the first is
  modelled as a message that may get either verdict, the second is kept out of the packets.
* Datagrams longer than the buffer of the UDP module, and those of 1 to 3 bytes or with fewer
  bytes than their prefix says. The latter overwrite a part of the buffer, and the module goes on with what is old behind
  it, as it does after an empty one, which is modelled. The clients' datagrams are whole frames that fit the buffer.
* `make -j`, a generator that runs while make does, two generators in one directory,
  and an interrupted `clean-app`. Of a signal that only make gets and does not pass on (SIGINT or SIGHUP sent to it
  by hand) the recipe would go on alone; the model has those that reach both. The targets `test`, `venv`, `docs` and
  `clean-examples` keep nothing the package is made from.
* The text of the generated files; pbtools' parser and C generator, a submodule that is not in the
  tree. Of a file cut by a failure it is only known that it is cut.
* FPU registers used by compiled code outside the section (`EXTRA_CFLAGS` allows it), and the
  registers of kernel code in an FPU section of its own: the hook does not ask
  whether it may open one inside.
* The buffer `encode` fills and the size it answers; bytes, tags and varints of
  the encoding are counted (`MessageBytes`) but not built. pbtools' library itself.
* `print_hex` and logging; the help targets; the Go code protoc generates.
* UDP address_book's checks of the decoded message, which only warn.

## 6. Plan

1. Proofs of the safety part of what the runs check as liveness: a rank that
   each step of `hook_func` and of a UDP module's init lowers, or leaves to the
   environment to lower.
2. `UdpReceiver` with datagrams that are cut: the buffer as prefix and message apart, each of
   the last datagram that had it.
3. `SegmentedStream`: messages over several segments and two in one, if a client of the
   repository comes to send them.
4. Concurrent makes (`make -j`) in `PackageBuild`.
5. A generator that writes to a temporary directory and renames, should the code
   get one: `Generator` would be its abstract specification.
