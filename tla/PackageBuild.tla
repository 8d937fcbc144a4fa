---------------------------- MODULE PackageBuild ----------------------------
(***************************************************************************)
(* make protobuf_lkm: the Python package is composed from the pbtools      *)
(* submodule by two rules of the Makefile and by generate_files.sh, which  *)
(* make runs when one of the script's three targets is missing.            *)
(*                                                                         *)
(* A file has the version of pbtools it was made from and the parts that   *)
(* were written to it.  A command may fail half way (a full disk), or all  *)
(* be killed at once (SIGKILL, a crash): the file stays, cut, and make     *)
(* takes a file that exists and is newer than its prerequisites as made.   *)
(* A signal that make can catch, or one that ends the shell of a recipe,   *)
(* stops it too, but then make deletes the target it was making: one file, *)
(* for a rule with three targets is three rules.  It is a signal that      *)
(* reaches the recipe with make (from the terminal, or SIGTERM, which make *)
(* passes on).  clean-app is one step, and make runs one job at a time.    *)
(***************************************************************************)
EXTENDS Naturals, Sequences

CONSTANTS Versions,    \* of pbtools
          MaxBuilds,   \* bound on the calls of make
          NULL

VARIABLES head,     \* the version of pbtools this repository asks for
          libs,     \* the version checked out under libs/pbtools, or NULL
          package,  \* the files made from it, each NULL while missing
          target,   \* the target make is at; 0 while make does not run
          line,     \* the line generate_files.sh is at; 0 while it does not run
          torn,     \* history: a signal has taken a library file from beside
                    \* c_source.py, and the script has not run to its end since
          builds

build_vars == <<head, libs, package, target, line, torn, builds>>

parser   == "parser.py"
errors   == "errors.py"
pbtoolsC == "generate_pbtools_c.py"
pbtoolsH == "generate_pbtools_h.py"
c_source == "c_source.py"
exampleC == "examples/common/protobuf_lkm.c"
exampleH == "examples/common/protobuf_lkm.h"

Files == {parser, errors, pbtoolsC, pbtoolsH, c_source, exampleC, exampleH}

\* What makes a file whole
Parts(f) == IF f \in {pbtoolsC, pbtoolsH} THEN <<"prelude", "code", "ending">>
                                          ELSE <<"code">>

PartNames == {"prelude", "code", "ending", "cut"}

FileType == [made_from : Versions, parts : Seq(PartNames)]

ASSUME BuildAssumption ==
  /\ MaxBuilds \in Nat
  /\ NULL \notin Versions
  /\ NULL \notin FileType

Exists(f) == package[f] # NULL
Whole(f)  == Exists(f) /\ package[f].parts = Parts(f)

BuildTypeOK ==
  /\ head \in Versions
  /\ libs \in Versions \cup {NULL}
  /\ package \in [Files -> FileType \cup {NULL}]
  /\ target \in 0..6
  /\ line \in 0..10
  /\ torn \in BOOLEAN
  /\ builds \in Nat

BuildInit ==
  /\ head \in Versions
  /\ libs = NULL
  /\ package = [f \in Files |-> NULL]
  /\ target = 0 /\ line = 0 /\ torn = FALSE /\ builds = 0

-----------------------------------------------------------------------------
\* The user

\* git pull: the repository asks for another pbtools.
Pull ==
  /\ target = 0
  /\ head' \in Versions \ {head}
  /\ UNCHANGED <<libs, package, target, line, torn, builds>>

\* git submodule update --init, the first step of the README
UpdateSubmodule ==
  /\ target = 0
  /\ libs # head
  /\ libs' = head
  /\ UNCHANGED <<head, package, target, line, torn, builds>>

\* make clean-app leaves the examples' copy of the library.
CleanApp ==
  /\ target = 0
  /\ \E f \in Files : Exists(f)
  /\ package' = [f \in Files |-> IF f \in {exampleC, exampleH} THEN package[f] ELSE NULL]
  /\ torn' = FALSE
  /\ UNCHANGED <<head, libs, target, line, builds>>

-----------------------------------------------------------------------------
\* The shell

\* The package after > f and after >> f
Overwrite(f, part) == [package EXCEPT ![f] = [made_from |-> libs, parts |-> <<part>>]]

AppendTo(f, part) ==
  [package EXCEPT ![f] = [made_from |-> libs, parts |-> Append(@.parts, part)]]

\* c_source.py composed before the library
Script_SourceFirst ==
  << <<">", c_source, "code">>,
     <<">", pbtoolsC, "prelude">>, <<">>", pbtoolsC, "code">>, <<">", exampleC, "code">>,
     <<">>", pbtoolsC, "ending">>,
     <<">", pbtoolsH, "prelude">>, <<">>", pbtoolsH, "code">>, <<">", exampleH, "code">>,
     <<">>", pbtoolsH, "ending">> >>

\* The writes of generate_files.sh to files that stay
Script ==
  << <<">", pbtoolsC, "prelude">>, <<">>", pbtoolsC, "code">>, <<">", exampleC, "code">>,
     <<">>", pbtoolsC, "ending">>,
     <<">", pbtoolsH, "prelude">>, <<">>", pbtoolsH, "code">>, <<">", exampleH, "code">>,
     <<">>", pbtoolsH, "ending">>,
     <<">", c_source, "code">> >>

Redirect(write, part) ==
  IF write[1] = ">" THEN Overwrite(write[2], part) ELSE AppendTo(write[2], part)

Targets == <<parser, errors, pbtoolsC, pbtoolsH, c_source>>

\* make stops at the first error, and generate_files.sh with set -e too.
Stop == target' = 0 /\ line' = 0

\* The script starts with git submodule update; so may a write before its first.
BeginScript ==
  /\ libs' = head
  /\ line' = 1
  /\ UNCHANGED target

\* One redirection; what is composed in .tmp before it may fail without it.
ScriptLine ==
  /\ line \in 1..Len(Script)
  /\ LET write == Script[line] IN
       \/ package' = Redirect(write, write[3]) /\ line' = line + 1 /\ UNCHANGED target
       \/ package' = Redirect(write, "cut") /\ Stop
       \/ UNCHANGED package /\ Stop
  /\ UNCHANGED <<head, libs, torn, builds>>

ScriptEnd ==
  /\ line = Len(Script) + 1
  /\ line' = 0
  /\ target' = target + 1
  /\ torn' = FALSE
  /\ UNCHANGED <<head, libs, package, builds>>

-----------------------------------------------------------------------------
\* make protobuf_lkm

Make ==
  /\ target = 0 /\ builds < MaxBuilds
  /\ builds' = builds + 1
  /\ target' = 1
  /\ UNCHANGED <<head, libs, package, line, torn>>

\* parser.py and errors.py have a prerequisite in libs/pbtools: without it there
\* is no rule to make them, and a newer one makes them out of date.  make may also
\* be stopped before the command has changed anything, here and at the next rules.
OutOfDate(f) == Exists(f) => package[f].made_from # libs

CopyTarget ==
  /\ target \in 1..2
  /\ LET f == Targets[target]
     IN  \/ Stop /\ UNCHANGED package
         \/ libs # NULL /\ ~OutOfDate(f) /\ target' = target + 1 /\ UNCHANGED <<line, package>>
         \/ libs # NULL /\ OutOfDate(f) /\ package' = Overwrite(f, "code")
              /\ target' = target + 1 /\ UNCHANGED line
         \/ libs # NULL /\ OutOfDate(f) /\ package' = Overwrite(f, "cut") /\ Stop
  /\ UNCHANGED <<head, libs, torn, builds>>

\* The script's targets have no prerequisites: they are made if they exist.
ScriptTarget ==
  /\ target \in 3..5 /\ line = 0
  /\ \/ /\ Exists(Targets[target])
        /\ target' = target + 1
        /\ UNCHANGED <<libs, line>>
     \/ ~Exists(Targets[target]) /\ BeginScript
     \/ Stop /\ UNCHANGED libs
  /\ UNCHANGED <<head, package, torn, builds>>

\* A signal in the recipe of a target that has changed it: sed and cp change
\* theirs at once, the script may be in the middle of a line or between two.
\* A signal that finds the target as it was is a Stop that leaves all files.
Interrupt ==
  /\ \/ /\ target \in 1..2 /\ libs # NULL /\ OutOfDate(Targets[target])
        /\ package' = [package EXCEPT ![Targets[target]] = NULL]
     \/ /\ line # 0
        /\ \E left \in {package} \cup {Redirect(Script[n], "cut") : n \in {line} \cap 1..Len(Script)} :
             package' = [left EXCEPT ![Targets[target]] = NULL]
  /\ Stop
  /\ torn' = ((torn \/ line # 0) /\ package'[c_source] # NULL)
  /\ UNCHANGED <<head, libs, builds>>

MakeDone ==
  /\ target = 6
  /\ target' = 0
  /\ UNCHANGED <<head, libs, package, line, torn, builds>>

UserStep == Pull \/ UpdateSubmodule \/ CleanApp \/ Make

MakeStep ==
  CopyTarget \/ ScriptTarget \/ ScriptLine \/ ScriptEnd \/ Interrupt \/ MakeDone

BuildNext == UserStep \/ MakeStep

BuildSpec == BuildInit /\ [][BuildNext]_build_vars

-----------------------------------------------------------------------------
\* Properties

\* make never looks into a file, and yet no half-written library outlives a
\* failed make: c_source.py, written last, exists only when the four files with
\* the library are whole and of its own version of pbtools, whatever commands
\* failed before, and whatever signals that found no c_source.py.  Only a signal
\* that finds one breaks that order, until the script runs to its end or
\* clean-app takes c_source.py away.
ScriptFilesAgree ==
  Exists(c_source) /\ ~torn =>
    \A f \in {pbtoolsC, pbtoolsH, exampleC, exampleH} :
      Whole(f) /\ package[f].made_from = package[c_source].made_from

=============================================================================
