------------------------------ MODULE Generator ------------------------------
(***************************************************************************)
(* python3 -m protobuf_lkm generate_lkm_source: the files of a kernel      *)
(* module are written one after the other into an output directory, with   *)
(* whatever an earlier call, finished or not, has left there, and next to  *)
(* the process_message the user has written into main.c since.             *)
(*                                                                         *)
(* Each of the steps may fail: the package does not import, a proto file   *)
(* does not parse, a file cannot be opened or written to its end.  All of  *)
(* them end the program with an error, and nothing is taken back.          *)
(***************************************************************************)
EXTENDS PackageBuild

CONSTANTS Infiles,    \* proto files
          NameOf(_),  \* camel_to_snake_case of a file's base name
          Names,
          Requests,   \* the arguments of the calls: infiles and module_type
          MaxCalls    \* bound on the calls, of the generator and of make together

RequestType == [infiles : Seq(Infiles) \ {<<>>}, module_type : {"udp_socket", "netfilter"}]

ASSUME GeneratorAssumption ==
  /\ \A f \in Infiles : NameOf(f) \in Names
  /\ Requests \subseteq RequestType
  /\ NULL \notin Requests
  /\ MaxCalls \in Nat

VARIABLES out,      \* the files of the output directory
          request,  \* the arguments of the last call, or NULL
          code,     \* the package as that call has imported it
          code_torn,  \* it was torn by a signal then
          next,     \* the write it is at
          opened,   \* that write has opened its file
          exit,     \* running, ok or error
          runs

gen_vars == <<out, request, code, code_torn, next, opened, exit, runs>>

-----------------------------------------------------------------------------
\* The files

Header(name) == <<"generated", name, ".h">>
Source(name) == <<"generated", name, ".c">>
GitIgnore    == <<".", "gitignore", "">>
LibraryC     == <<".", "protobuf_lkm", ".c">>
LibraryH     == <<".", "protobuf_lkm", ".h">>
Main         == <<".", "main", ".c">>
Makefile     == <<".", "Makefile", "">>

Paths ==
  {Header(n) : n \in Names} \cup {Source(n) : n \in Names}
    \cup {GitIgnore, LibraryC, LibraryH, Main, Makefile}

\* What a file says.  subject is what it was made from: a proto file, a version
\* of pbtools or a module.
Text(kind, subject) == [kind |-> kind, subject |-> subject]
Cut    == Text("cut", NULL)
Edited == Text("edited", NULL)

\* The module of a request: its type, and the name of its first infile, which
\* names the module, is included by main.c and linked by the Makefile.
ModuleOf(req) == <<req.module_type, NameOf(req.infiles[1])>>

-----------------------------------------------------------------------------
\* generate_files

\* What every module has, after the files of its proto files
Common(req) ==
  << [path |-> GitIgnore, text |-> Text("gitignore", NULL)],
     [path |-> LibraryC,  text |-> Text("library", code[pbtoolsC].made_from)],
     [path |-> LibraryH,  text |-> Text("library", code[pbtoolsH].made_from)],
     [path |-> Main,      text |-> Text("main", ModuleOf(req))],
     [path |-> Makefile,  text |-> Text("Makefile", ModuleOf(req))] >>

\* The k-th infile has the writes 2k - 1, its header, and 2k, its source.
Last(req) == 2 * Len(req.infiles) + 5

\* the files that every module has written first
WriteAt_CommonFirst(req, k) ==
  IF k <= 5 THEN Common(req)[k]
  ELSE LET f == req.infiles[(k - 4) \div 2]
       IN  IF k % 2 = 0 THEN [path |-> Header(NameOf(f)), text |-> Text("header", f)]
                        ELSE [path |-> Source(NameOf(f)), text |-> Text("source", f)]

WriteAt(req, k) ==
  IF k > 2 * Len(req.infiles) THEN Common(req)[k - 2 * Len(req.infiles)]
  ELSE LET f == req.infiles[(k + 1) \div 2]
       IN  IF k % 2 = 1 THEN [path |-> Header(NameOf(f)), text |-> Text("header", f)]
                        ELSE [path |-> Source(NameOf(f)), text |-> Text("source", f)]

\* The modules of the package, and those a write takes its text from
CodeFiles == {parser, errors, pbtoolsC, pbtoolsH, c_source}

MadeBy(write) ==
  CASE write.text.kind \in {"header", "source"} -> {parser, errors, c_source}
    [] write.path = LibraryC                    -> {pbtoolsC}
    [] write.path = LibraryH                    -> {pbtoolsH}
    [] OTHER                                    -> {}

Sound(f) == code[f].parts = Parts(f)

Garbled == Text("garbled", NULL)

TextType ==
  [kind : {"cut", "edited", "garbled", "gitignore"}, subject : {NULL}]
    \cup [kind : {"header", "source"}, subject : Infiles]
    \cup [kind : {"library"}, subject : Versions]
    \cup [kind : {"main", "Makefile"}, subject : {"udp_socket", "netfilter"} \X Names]

GenTypeOK ==
  /\ out \in [Paths -> TextType \cup {NULL}]
  /\ request \in Requests \cup {NULL}
  /\ code \in [CodeFiles -> FileType] \cup {NULL}
  /\ code_torn \in BOOLEAN
  /\ next \in Nat
  /\ opened \in BOOLEAN
  /\ exit \in {"running", "ok", "error"}
  /\ runs \in Nat

GenInit ==
  /\ BuildInit
  /\ out = [p \in Paths |-> NULL]
  /\ request = NULL /\ code = NULL /\ code_torn = FALSE /\ next = 0 /\ opened = FALSE
  /\ exit = "ok" /\ runs = 0

-----------------------------------------------------------------------------

\* A call, not while make composes the package.  Without one of its files the
\* package does not import.
Start(req) ==
  /\ exit # "running" /\ target = 0 /\ builds + runs < MaxCalls
  /\ \A f \in CodeFiles : Exists(f)
  /\ runs' = runs + 1
  /\ request' = req
  /\ code' = [f \in CodeFiles |-> package[f]] /\ code_torn' = torn
  /\ next' = 1 /\ opened' = FALSE
  /\ exit' = "running"
  /\ UNCHANGED <<build_vars, out>>

\* The package does not import, makedirs fails, the next infile does not parse,
\* its file does not open, or the text does not fit the disk.
Fail ==
  /\ exit = "running" /\ next <= Last(request)
  /\ exit' = "error"
  /\ UNCHANGED <<build_vars, out, request, code, code_torn, next, opened, runs>>

\* a main.c that exists kept for the user
Open_KeepsMain ==
  /\ exit = "running" /\ ~opened /\ next <= Last(request)
  /\ LET path == WriteAt(request, next).path IN
       IF path = Main /\ out[Main] # NULL
         THEN next' = next + 1 /\ UNCHANGED <<out, opened>>
         ELSE out' = [out EXCEPT ![path] = Cut] /\ opened' = TRUE /\ UNCHANGED next
  /\ UNCHANGED <<build_vars, request, code, code_torn, exit, runs>>

\* open(filename, 'w') empties the file.
Open ==
  /\ exit = "running" /\ ~opened /\ next <= Last(request)
  /\ out' = [out EXCEPT ![WriteAt(request, next).path] = Cut]
  /\ opened' = TRUE
  /\ UNCHANGED <<build_vars, request, code, code_torn, next, exit, runs>>

\* fout.write and the end of the with.  A module of the package that was cut may
\* not import (Fail), or give any text.
Write ==
  /\ exit = "running" /\ opened
  /\ LET w == WriteAt(request, next) IN
       \E text \in {w.text} \cup IF \A f \in MadeBy(w) : Sound(f) THEN {} ELSE {Garbled} :
         out' = [out EXCEPT ![w.path] = text]
  /\ next' = next + 1
  /\ opened' = FALSE
  /\ UNCHANGED <<build_vars, request, code, code_torn, exit, runs>>

Exit ==
  /\ exit = "running" /\ next = Last(request) + 1
  /\ exit' = "ok"
  /\ UNCHANGED <<build_vars, out, request, code, code_torn, next, opened, runs>>

\* The user writes process_message.
Edit ==
  /\ exit # "running"
  /\ out[Main] \notin {NULL, Cut, Edited}
  /\ out' = [out EXCEPT ![Main] = Edited]
  /\ UNCHANGED <<build_vars, request, code, code_torn, next, opened, exit, runs>>

GenStep == (\E req \in Requests : Start(req)) \/ Fail \/ Open \/ Write \/ Exit \/ Edit

GenNext ==
  \/ GenStep
  \/ exit # "running" /\ builds + runs < MaxCalls /\ UserStep /\ UNCHANGED gen_vars
  \/ MakeStep /\ UNCHANGED gen_vars

all_vars == <<build_vars, gen_vars>>

GenSpec == GenInit /\ [][GenNext]_all_vars

-----------------------------------------------------------------------------
\* Properties

\* Header and source of an infile are whole and of the same file: its own, or
\* that of the last infile with the same base name, which overwrites it.
ProtosWhole(req) ==
  \A i \in 1..Len(req.infiles) :
    LET name == NameOf(req.infiles[i]) IN
      \E j \in i..Len(req.infiles) :
        /\ NameOf(req.infiles[j]) = name
        /\ out[Header(name)] = Text("header", req.infiles[j])
        /\ out[Source(name)] = Text("source", req.infiles[j])

\* A call that ends without error leaves one whole module, that of its arguments,
\* in any directory: nothing of what earlier calls left, finished or not, is
\* mixed into it.  The library in it is whole and of the version of pbtools
\* that the generated code was made by, even if commands of an earlier make had
\* failed or a first make was interrupted, but not if a signal has torn the
\* package.
SuccessIsWhole ==
  exit = "ok" /\ request # NULL =>
    /\ out[Makefile] = Text("Makefile", ModuleOf(request))
    /\ out[Main] \in {Text("main", ModuleOf(request)), Edited}
    /\ ~code_torn => /\ out[LibraryC] = Text("library", code[c_source].made_from)
                     /\ out[LibraryH] = out[LibraryC]
    /\ Sound(parser) /\ Sound(errors) /\ Sound(c_source) => ProtosWhole(request)

\* The process_message a user has written is given up only by a call that has
\* made everything it makes from the proto files: not by one that does not
\* import, or is given a file that does not parse.
UserCodeSurvives ==
  [][out[Main] = Edited /\ out'[Main] # Edited =>
       /\ exit = "running"
       /\ Sound(parser) /\ Sound(errors) /\ Sound(c_source) => ProtosWhole(request)]_all_vars

=============================================================================
