--------------------------- MODULE GeneratorProofs ---------------------------
(***************************************************************************)
(* Proofs about PackageBuild and Generator, for any proto files, any calls *)
(* and any failures and signals: while no signal has torn the package,     *)
(* c_source.py exists only next to a whole library of its version, and a   *)
(* call that ends without error leaves one whole module.                   *)
(***************************************************************************)
EXTENDS Generator, SequenceTheorems, TLAPS

-----------------------------------------------------------------------------
\* The build: how far the script is tells what it has written.

Holds(f, parts) == package[f] = [made_from |-> libs, parts |-> parts]

Prelude == <<"prelude">>
Half    == <<"prelude", "code">>
Full    == <<"prelude", "code", "ending">>
Code    == <<"code">>

\* Nothing vouches for the library.
Unvouched == torn \/ package[c_source] = NULL

ScriptInv ==
  line > 0 =>
    /\ target \in 3..5
    /\ libs \in Versions
    /\ line < 10 => Unvouched
    /\ line = 2 => Holds(pbtoolsC, Prelude)
    /\ line \in 3..4 => Holds(pbtoolsC, Half)
    /\ line > 3 => Holds(exampleC, Code)
    /\ line > 4 => Holds(pbtoolsC, Full)
    /\ line = 6 => Holds(pbtoolsH, Prelude)
    /\ line \in 7..8 => Holds(pbtoolsH, Half)
    /\ line > 7 => Holds(exampleH, Code)
    /\ line > 8 => Holds(pbtoolsH, Full)
    /\ line = 10 => Holds(c_source, Code)

BuildInv == BuildTypeOK /\ ScriptInv /\ ScriptFilesAgree

\* BuildTypeOK but for the Boolean torn, which is no matter for arithmetic
BuildTypes ==
  /\ head \in Versions
  /\ libs \in Versions \cup {NULL}
  /\ package \in [Files -> FileType \cup {NULL}]
  /\ target \in 0..6
  /\ line \in 0..10
  /\ builds \in Nat

LEMMA SplitTypes ==
  BuildTypeOK <=> BuildTypes /\ torn \in BOOLEAN
BY Zenon DEF BuildTypeOK, BuildTypes

\* The nine redirections of generate_files.sh.
LEMMA ScriptLines ==
  /\ Len(Script) = 9
  /\ Script[1] = <<">", pbtoolsC, "prelude">>
  /\ Script[2] = <<">>", pbtoolsC, "code">>
  /\ Script[3] = <<">", exampleC, "code">>
  /\ Script[4] = <<">>", pbtoolsC, "ending">>
  /\ Script[5] = <<">", pbtoolsH, "prelude">>
  /\ Script[6] = <<">>", pbtoolsH, "code">>
  /\ Script[7] = <<">", exampleH, "code">>
  /\ Script[8] = <<">>", pbtoolsH, "ending">>
  /\ Script[9] = <<">", c_source, "code">>
<1>1. Len(Script) = 9
  BY DEF Script
<1>2. Script[1] = <<">", pbtoolsC, "prelude">> /\ Script[2] = <<">>", pbtoolsC, "code">>
  BY DEF Script
<1>3. Script[3] = <<">", exampleC, "code">> /\ Script[4] = <<">>", pbtoolsC, "ending">>
  BY DEF Script
<1>4. Script[5] = <<">", pbtoolsH, "prelude">> /\ Script[6] = <<">>", pbtoolsH, "code">>
  BY DEF Script
<1>5. Script[7] = <<">", exampleH, "code">> /\ Script[8] = <<">>", pbtoolsH, "ending">>
  BY DEF Script
<1>6. Script[9] = <<">", c_source, "code">>
  BY DEF Script
<1> QED
  BY <1>1, <1>2, <1>3, <1>4, <1>5, <1>6

\* What a redirection with >> does to the parts of a file.
LEMMA Appended ==
  ASSUME NEW seq \in Seq(PartNames), NEW part \in PartNames
  PROVE  /\ Append(seq, part) \in Seq(PartNames)
         /\ Len(Append(seq, part)) = Len(seq) + 1
         /\ \A i \in 1..Len(seq) : Append(seq, part)[i] = seq[i]
         /\ Append(seq, part)[Len(seq) + 1] = part
BY AppendProperties

\* The parts of the two library files, in the order of the script.
LEMMA Appending ==
  /\ Append(Prelude, "code") = Half
  /\ Append(Half, "ending") = Full
<1>1. Prelude \in Seq(PartNames) /\ Half \in Seq(PartNames) /\ Full \in Seq(PartNames)
  BY DEF Prelude, Half, Full, PartNames
<1>2. Append(Prelude, "code") = Half
  <2> DEFINE s == Append(Prelude, "code")
  <2>1. Len(Prelude) = 1 /\ Prelude[1] = "prelude"
    BY DEF Prelude
  <2>2. "code" \in PartNames
    BY DEF PartNames
  <2>3. s \in Seq(PartNames) /\ Len(s) = Len(Prelude) + 1
    BY <1>1, <2>2, Appended
  <2>4. \A i \in 1..Len(Prelude) : s[i] = Prelude[i]
    BY <1>1, <2>2, Appended
  <2>5. s[Len(Prelude) + 1] = "code"
    BY <1>1, <2>2, Appended
  <2>6. Len(Half) = 2 /\ Half[1] = "prelude" /\ Half[2] = "code"
    BY DEF Half
  <2> HIDE DEF s
  <2>7. Len(s) = 2 /\ \A i \in 1..Len(s) : s[i] = Half[i]
    BY <2>1, <2>3, <2>4, <2>5, <2>6
  <2>8. s = Half
    BY <1>1, <2>3, <2>6, <2>7, SeqEqual
  <2> QED
    BY <2>8 DEF s
<1>3. Append(Half, "ending") = Full
  <2> DEFINE s == Append(Half, "ending")
  <2>1. Len(Half) = 2 /\ Half[1] = "prelude" /\ Half[2] = "code"
    BY DEF Half
  <2>2. "ending" \in PartNames
    BY DEF PartNames
  <2>3. s \in Seq(PartNames) /\ Len(s) = Len(Half) + 1
    BY <1>1, <2>2, Appended
  <2>4. \A i \in 1..Len(Half) : s[i] = Half[i]
    BY <1>1, <2>2, Appended
  <2>5. s[Len(Half) + 1] = "ending"
    BY <1>1, <2>2, Appended
  <2>6. Len(Full) = 3 /\ Full[1] = "prelude" /\ Full[2] = "code" /\ Full[3] = "ending"
    BY DEF Full
  <2> HIDE DEF s
  <2>7. Len(s) = 3 /\ \A i \in 1..Len(s) : s[i] = Full[i]
    BY <2>1, <2>3, <2>4, <2>5, <2>6
  <2>8. s = Full
    BY <1>1, <2>3, <2>6, <2>7, SeqEqual
  <2> QED
    BY <2>8 DEF s
<1> QED
  BY <1>2, <1>3

\* The files of the package are different files.
LEMMA FileNames ==
  /\ Files = {parser, errors, pbtoolsC, pbtoolsH, c_source, exampleC, exampleH}
  /\ c_source \notin {parser, errors, pbtoolsC, pbtoolsH, exampleC, exampleH}
  /\ pbtoolsC \notin {parser, errors, pbtoolsH, exampleC, exampleH}
  /\ pbtoolsH \notin {parser, errors, exampleC, exampleH}
  /\ exampleC \notin {parser, errors, exampleH}
  /\ exampleH \notin {parser, errors}
BY DEF Files, parser, errors, pbtoolsC, pbtoolsH, c_source, exampleC, exampleH

\* What each file of the script has when it is whole.
LEMMA PartsOfFiles ==
  /\ Parts(pbtoolsC) = Full /\ Parts(pbtoolsH) = Full
  /\ Parts(exampleC) = Code /\ Parts(exampleH) = Code
BY FileNames DEF Parts, Full, Code

\* A redirection changes one file, and keeps its type.
LEMMA Redirection ==
  ASSUME BuildTypeOK, libs \in Versions,
         NEW f \in Files, NEW op \in {">", ">>"}, NEW part \in PartNames,
         op = ">>" => package[f] # NULL,
         NEW named \in PartNames,
         NEW left, left = Redirect(<<op, f, named>>, part)
  PROVE  /\ left \in [Files -> FileType \cup {NULL}]
         /\ \A g \in Files \ {f} : left[g] = package[g]
         /\ op = ">" => left[f] = [made_from |-> libs, parts |-> <<part>>]
         /\ op = ">>" => left[f] = [made_from |-> libs,
                                    parts |-> Append(package[f].parts, part)]
<1>1. CASE op = ">"
  <2>1. [made_from |-> libs, parts |-> <<part>>] \in FileType
    BY DEF FileType
  <2> QED
    BY <1>1, <2>1 DEF Redirect, Overwrite, BuildTypeOK
<1>2. CASE op = ">>"
  <2>1. package[f] \in FileType
    BY <1>2 DEF BuildTypeOK
  <2>2. [made_from |-> libs, parts |-> Append(package[f].parts, part)] \in FileType
    BY <2>1 DEF FileType
  <2> QED
    BY <1>2, <2>2 DEF Redirect, AppendTo, BuildTypeOK
<1> QED
  BY <1>1, <1>2

\* A fresh clone has none of the files.
LEMMA BuildInitInv == BuildInit => BuildInv
<1> SUFFICES ASSUME BuildInit PROVE BuildInv
  OBVIOUS
<1>1. BuildTypeOK
  <2>1. torn \in BOOLEAN
    BY Zenon DEF BuildInit
  <2>2. BuildTypes
    BY DEF BuildInit, BuildTypes
  <2> QED
    BY <2>1, <2>2, SplitTypes
<1>2. ScriptInv
  BY DEF BuildInit, ScriptInv
<1>3. ScriptFilesAgree
  BY FileNames DEF BuildInit, ScriptFilesAgree, Exists
<1> QED
  BY <1>1, <1>2, <1>3 DEF BuildInv

\* A file is not taken for a missing one.
LEMMA FileIsNotNull ==
  ASSUME NEW v \in Versions, NEW parts \in {Prelude, Half, Full, Code}
  PROVE  [made_from |-> v, parts |-> parts] # NULL
<1>1. /\ Prelude \in Seq(PartNames) /\ Half \in Seq(PartNames)
      /\ Full \in Seq(PartNames) /\ Code \in Seq(PartNames)
  BY DEF Prelude, Half, Full, Code, PartNames
<1>2. [made_from |-> v, parts |-> parts] \in FileType
  BY <1>1 DEF FileType
<1> QED
  BY <1>2, BuildAssumption

\* What ScriptFilesAgree needs when c_source.py is made
LibraryHolds ==
  /\ Holds(pbtoolsC, Full) /\ Holds(pbtoolsH, Full)
  /\ Holds(exampleC, Code) /\ Holds(exampleH, Code)

\* When the last line has been run, c_source.py agrees with the library files.
LEMMA LibraryAgrees ==
  ASSUME libs' \in Versions, LibraryHolds', package'[c_source].made_from = libs'
  PROVE  ScriptFilesAgree'
<1>1. ASSUME NEW f \in {pbtoolsC, pbtoolsH, exampleC, exampleH}
      PROVE  Holds(f, Parts(f))' /\ Parts(f) \in {Full, Code}
  BY PartsOfFiles DEF LibraryHolds
<1>2. ASSUME NEW f \in {pbtoolsC, pbtoolsH, exampleC, exampleH}
      PROVE  package'[f] # NULL /\ package'[f].parts = Parts(f) /\ package'[f].made_from = libs'
  BY <1>1, FileIsNotNull DEF Holds
<1> QED
  BY <1>2 DEF ScriptFilesAgree, Whole, Exists

\* The line the script is at, as a redirection.
LEMMA LineIsRedirection ==
  ASSUME BuildInv, line \in 1..Len(Script)
  PROVE  /\ line \in 1..9 /\ target \in 3..5 /\ libs \in Versions
         /\ Unvouched
         /\ \E op \in {">", ">>"}, f \in Files, part \in PartNames :
              /\ Script[line] = <<op, f, part>>
              /\ op = ">>" => package[f] # NULL
              /\ f = c_source <=> line = 9
<1>1. /\ line \in 1..9 /\ target \in 3..5 /\ libs \in Versions
      /\ Unvouched
  BY ScriptLines DEF BuildInv, ScriptInv
<1>2. CASE line \in {1, 3, 5, 7, 9}
  BY <1>1, <1>2, ScriptLines, FileNames DEF PartNames
<1>3. CASE line \in {2, 4}
  <2>1. package[pbtoolsC] # NULL
    <3>1. Holds(pbtoolsC, Prelude) \/ Holds(pbtoolsC, Half)
      BY <1>3 DEF BuildInv, ScriptInv
    <3> QED
      BY <3>1, <1>1, FileIsNotNull DEF Holds
  <2> QED
    BY <1>1, <1>3, <2>1, ScriptLines, FileNames DEF PartNames
<1>4. CASE line \in {6, 8}
  <2>1. package[pbtoolsH] # NULL
    <3>1. Holds(pbtoolsH, Prelude) \/ Holds(pbtoolsH, Half)
      BY <1>4 DEF BuildInv, ScriptInv
    <3> QED
      BY <3>1, <1>1, FileIsNotNull DEF Holds
  <2> QED
    BY <1>1, <1>4, <2>1, ScriptLines, FileNames DEF PartNames
<1> QED
  BY <1>1, <1>2, <1>3, <1>4

\* A line leaves c_source.py missing, unless it is torn, or is the last one.
LEMMA WrittenAgrees ==
  ASSUME BuildInv, line \in 1..9, libs \in Versions, libs' = libs, torn' = torn,
         Unvouched,
         NEW f \in Files, f = c_source <=> line = 9,
         NEW op, Script[line][1] = op, Script[line][2] = f, NEW parts,
         \A g \in Files \ {f} : package'[g] = package[g],
         op = ">" => package'[f] = [made_from |-> libs, parts |-> parts]
  PROVE  ScriptFilesAgree'
<1>1. CASE line # 9
  BY <1>1, FileNames DEF ScriptFilesAgree, Exists, Unvouched
<1>2. CASE line = 9
  <2>1. LibraryHolds
    BY <1>2 DEF BuildInv, ScriptInv, LibraryHolds
  <2>2. LibraryHolds'
    BY <1>2, <2>1, FileNames DEF LibraryHolds, Holds
  <2>3. package'[c_source].made_from = libs
    BY <1>2, ScriptLines
  <2> QED
    BY <2>2, <2>3, LibraryAgrees
<1> QED
  BY <1>1, <1>2

\* A line of the script, whole or cut, keeps the invariant of the build.
LEMMA ScriptLineKeeps ==
  ASSUME BuildInv, ScriptLine
  PROVE  BuildInv'
<1>1. /\ line \in 1..9 /\ target \in 3..5 /\ libs \in Versions
      /\ Unvouched
      /\ BuildTypeOK /\ UNCHANGED <<head, libs, builds>>
  BY LineIsRedirection DEF ScriptLine, BuildInv
<1>0. torn' = torn
  BY DEF ScriptLine
<1>2. PICK op \in {">", ">>"}, f \in Files, named \in PartNames :
        /\ Script[line] = <<op, f, named>>
        /\ op = ">>" => package[f] # NULL
        /\ f = c_source <=> line = 9
  BY LineIsRedirection DEF ScriptLine
<1>3. Script[line][1] = op /\ Script[line][2] = f /\ Script[line][3] = named
  BY <1>2
<1>4. CASE package' = Redirect(Script[line], Script[line][3]) /\ line' = line + 1 /\ UNCHANGED target
  <2>1. /\ package' \in [Files -> FileType \cup {NULL}]
        /\ \A g \in Files \ {f} : package'[g] = package[g]
        /\ op = ">" => package'[f] = [made_from |-> libs, parts |-> <<named>>]
        /\ op = ">>" => package'[f] = [made_from |-> libs,
                                       parts |-> Append(package[f].parts, named)]
    BY <1>1, <1>2, <1>3, <1>4, Redirection
  <2>2. BuildTypeOK'
    BY <1>0, <1>1, <1>4, <2>1 DEF BuildTypeOK
  <2>3. ScriptInv'
    <3>0. line # 9 => Unvouched'
      BY <1>0, <1>1, <1>2, <2>1, FileNames DEF Unvouched
    <3>10. line' = line + 1 /\ target' = target
      BY <1>4
    <3> USE <3>0, <3>10, <1>1, <1>2, <1>3, <2>1, ScriptLines, FileNames DEF BuildInv, ScriptInv, Holds
    <3>1. CASE line = 1
      BY <3>1 DEF Prelude
    <3>2. CASE line = 2
      <4>1. op = ">>" /\ f = pbtoolsC /\ named = "code" /\ package[f].parts = Prelude
        BY <3>2
      <4>2. package'[f] = [made_from |-> libs, parts |-> Half]
        BY <4>1, Appending
      <4> QED
        BY <3>2, <4>1, <4>2
    <3>3. CASE line = 3
      BY <3>3 DEF Code
    <3>4. CASE line = 4
      <4>1. op = ">>" /\ f = pbtoolsC /\ named = "ending" /\ package[f].parts = Half
        BY <3>4
      <4>2. package'[f] = [made_from |-> libs, parts |-> Full]
        BY <4>1, Appending
      <4> QED
        BY <3>4, <4>1, <4>2
    <3>5. CASE line = 5
      BY <3>5 DEF Prelude
    <3>6. CASE line = 6
      <4>1. op = ">>" /\ f = pbtoolsH /\ named = "code" /\ package[f].parts = Prelude
        BY <3>6
      <4>2. package'[f] = [made_from |-> libs, parts |-> Half]
        BY <4>1, Appending
      <4> QED
        BY <3>6, <4>1, <4>2
    <3>7. CASE line = 7
      BY <3>7 DEF Code
    <3>8. CASE line = 8
      <4>1. op = ">>" /\ f = pbtoolsH /\ named = "ending" /\ package[f].parts = Half
        BY <3>8
      <4>2. package'[f] = [made_from |-> libs, parts |-> Full]
        BY <4>1, Appending
      <4> QED
        BY <3>8, <4>1, <4>2
    <3>9. CASE line = 9
      BY <3>9 DEF Code
    <3> QED
      BY <3>1, <3>2, <3>3, <3>4, <3>5, <3>6, <3>7, <3>8, <3>9
  <2>4. ScriptFilesAgree'
    BY <1>0, <1>1, <1>2, <2>1, WrittenAgrees
  <2> QED
    BY <2>2, <2>3, <2>4 DEF BuildInv
<1>5. CASE package' = Redirect(Script[line], "cut") /\ Stop
  <2>1. /\ package' \in [Files -> FileType \cup {NULL}]
        /\ \A g \in Files \ {f} : package'[g] = package[g]
        /\ op = ">" => package'[f] = [made_from |-> libs, parts |-> <<"cut">>]
    <3>1. "cut" \in PartNames /\ package' = Redirect(<<op, f, named>>, "cut")
      BY <1>2, <1>5 DEF PartNames
    <3>2. BuildTypeOK /\ libs \in Versions /\ (op = ">>" => package[f] # NULL)
      BY <1>1, <1>2
    <3>3. ASSUME NEW part \in PartNames, package' = Redirect(<<op, f, named>>, part)
          PROVE  /\ package' \in [Files -> FileType \cup {NULL}]
                 /\ \A g \in Files \ {f} : package'[g] = package[g]
                 /\ op = ">" => package'[f] = [made_from |-> libs, parts |-> <<part>>]
                 /\ op = ">>" => package'[f] = [made_from |-> libs,
                                                parts |-> Append(package[f].parts, part)]
      BY <1>1, <1>2, <3>2, <3>3, Redirection
    <3> QED
      BY <3>1, <3>3
  <2>2. BuildTypeOK' /\ ScriptInv'
    BY <1>0, <1>1, <1>5, <2>1 DEF BuildTypeOK, Stop, ScriptInv
  <2>3. ScriptFilesAgree'
    BY <1>0, <1>1, <1>2, <2>1, WrittenAgrees
  <2> QED
    BY <2>2, <2>3 DEF BuildInv
<1>6. CASE UNCHANGED package /\ Stop
  BY <1>0, <1>1, <1>6 DEF BuildInv, BuildTypeOK, Stop, ScriptInv, ScriptFilesAgree, Exists, Whole
<1> QED
  BY <1>4, <1>5, <1>6 DEF ScriptLine

\* The files that c_source.py vouches for are the script's alone.
LEMMA Vouched ==
  ASSUME ScriptFilesAgree, torn => torn' \/ package'[c_source] = NULL,
         \A f \in Files \ {parser, errors} : package'[f] = package[f]
  PROVE  ScriptFilesAgree'
BY FileNames DEF ScriptFilesAgree, Exists, Whole

\* So does the copy of parser.py or errors.py.
LEMMA CopyTargetKeeps ==
  ASSUME BuildInv, CopyTarget
  PROVE  BuildInv'
<1> DEFINE f == Targets[target]
<1>1. f \in {parser, errors} /\ target \in 1..2 /\ line = 0 /\ BuildTypeOK
  BY DEF CopyTarget, Targets, BuildInv, BuildTypeOK, ScriptInv
<1> HIDE DEF f
<1>2. CASE UNCHANGED package
  <2>1. BuildTypeOK'
    BY <1>1, <1>2 DEF CopyTarget, Stop, BuildTypeOK
  <2>2. ScriptInv'
    BY <1>1 DEF CopyTarget, Stop, ScriptInv
  <2> QED
    BY <1>2, <2>1, <2>2 DEF CopyTarget, BuildInv, ScriptFilesAgree, Exists, Whole
<1>3. ASSUME NEW part \in {"code", "cut"}, package' = Overwrite(f, part), libs # NULL
      PROVE  BuildInv'
  <2>1. [made_from |-> libs, parts |-> <<part>>] \in FileType
    BY <1>1, <1>3 DEF FileType, PartNames, BuildTypeOK
  <2>2. package' = [package EXCEPT ![f] = [made_from |-> libs, parts |-> <<part>>]]
    BY <1>3 DEF Overwrite
  <2>3. BuildTypeOK'
    <3>1. package' \in [Files -> FileType \cup {NULL}]
      BY <1>1, <2>1, <2>2 DEF BuildTypeOK
    <3>2. target' \in 0..6 /\ line' = 0 /\ UNCHANGED <<head, libs, torn, builds>>
      BY <1>1 DEF CopyTarget, Stop
    <3> QED
      BY <1>1, <3>1, <3>2 DEF BuildTypeOK
  <2>4. ScriptInv'
    BY <1>1 DEF CopyTarget, Stop, ScriptInv
  <2>5. ScriptFilesAgree'
    BY <1>1, <2>2, Vouched DEF CopyTarget, BuildInv, BuildTypeOK
  <2> QED
    BY <2>3, <2>4, <2>5 DEF BuildInv
<1> QED
  BY <1>2, <1>3 DEF CopyTarget, f

\* The script is only started when c_source.py is missing, or the package torn:
\* it is missing if a file that is written before it is.
LEMMA ScriptTargetKeeps ==
  ASSUME BuildInv, ScriptTarget
  PROVE  BuildInv'
<1>1. BuildTypeOK'
  BY DEF ScriptTarget, Stop, BeginScript, BuildInv, BuildTypeOK
<1>2. ScriptFilesAgree'
  BY DEF ScriptTarget, BuildInv, ScriptFilesAgree, Exists, Whole
<1>3. ScriptInv'
  <2>1. CASE Exists(Targets[target]) \/ Stop
    BY <2>1 DEF ScriptTarget, BuildInv, BuildTypeOK, ScriptInv, Stop, BeginScript
  <2>2. CASE ~Exists(Targets[target]) /\ BeginScript
    <3>1. target \in 3..5
      BY DEF ScriptTarget
    <3>2. Targets[target] \in {pbtoolsC, pbtoolsH, c_source}
      BY <3>1 DEF Targets
    <3>3. Unvouched
      <4>1. ~Exists(Targets[target])
        BY <2>2
      <4>2. Exists(c_source) /\ ~torn => Exists(pbtoolsC) /\ Exists(pbtoolsH)
        BY Zenon DEF BuildInv, ScriptFilesAgree, Whole
      <4>3. ~Exists(pbtoolsC) \/ ~Exists(pbtoolsH) \/ ~Exists(c_source)
        BY <3>2, <4>1
      <4> QED
        BY <4>2, <4>3, Zenon DEF Unvouched, Exists
    <3>4. line' = 1 /\ target' \in 3..5 /\ libs' \in Versions /\ UNCHANGED <<package, torn>>
      BY <2>2, <3>1 DEF ScriptTarget, BeginScript, BuildInv, BuildTypeOK
    <3>5. Unvouched'
      BY <3>3, <3>4 DEF Unvouched
    <3> QED
      BY <3>4, <3>5 DEF ScriptInv
  <2> QED
    BY <2>1, <2>2 DEF ScriptTarget
<1> QED
  BY <1>1, <1>2, <1>3 DEF BuildInv

\* A signal in the script leaves no c_source.py, or a torn package; in the copy
\* of parser.py or errors.py it deletes that one.
LEMMA InterruptKeeps ==
  ASSUME BuildInv, Interrupt
  PROVE  BuildInv'
<1>1. BuildTypeOK /\ Stop /\ torn' \in BOOLEAN /\ UNCHANGED <<head, libs, builds>>
  BY DEF Interrupt, BuildInv
<1>2. CASE target \in 1..2 /\ package' = [package EXCEPT ![Targets[target]] = NULL]
  <2>1. Targets[target] \in {parser, errors} /\ line = 0
    BY <1>2 DEF Targets, BuildInv, ScriptInv, BuildTypeOK
  <2>2. /\ package' \in [Files -> FileType \cup {NULL}]
        /\ \A f \in Files \ {parser, errors} : package'[f] = package[f]
    BY <1>1, <1>2, <2>1 DEF BuildTypeOK
  <2>3. torn => torn' \/ package'[c_source] = NULL
    BY DEF Interrupt
  <2> QED
    BY <1>1, <2>2, <2>3, Vouched DEF BuildInv, BuildTypeOK, ScriptInv, Stop
<1>3. ASSUME line # 0, NEW left \in [Files -> FileType \cup {NULL}],
             package' = [left EXCEPT ![Targets[target]] = NULL]
      PROVE  BuildInv'
  <2>1. package' \in [Files -> FileType \cup {NULL}]
    BY <1>3
  <2>2. torn' \/ package'[c_source] = NULL
    BY <1>3 DEF Interrupt
  <2> QED
    BY <1>1, <2>1, <2>2 DEF BuildInv, BuildTypeOK, ScriptInv, Stop, ScriptFilesAgree, Exists
<1>4. ASSUME line \in 1..Len(Script)
      PROVE  Redirect(Script[line], "cut") \in [Files -> FileType \cup {NULL}]
  <2> DEFINE left == Redirect(Script[line], "cut")
  <2>1. PICK op \in {">", ">>"}, f \in Files, named \in PartNames :
          Script[line] = <<op, f, named>> /\ (op = ">>" => package[f] # NULL)
    BY <1>4, LineIsRedirection
  <2>2. libs \in Versions /\ "cut" \in PartNames
    BY <1>4, LineIsRedirection DEF PartNames
  <2>3. left = Redirect(<<op, f, named>>, "cut")
    BY <2>1
  <2> HIDE DEF left
  <2>4. left \in [Files -> FileType \cup {NULL}]
    BY <1>1, <2>1, <2>2, <2>3, Redirection, Zenon
  <2> QED
    BY <2>4 DEF left
<1>5. package \in [Files -> FileType \cup {NULL}]
  BY <1>1 DEF BuildTypeOK
<1> QED
  BY <1>2, <1>3, <1>4, <1>5 DEF Interrupt

\* The whole run of the script leaves a whole package, torn or not before.
LEMMA ScriptEndKeeps ==
  ASSUME BuildInv, ScriptEnd
  PROVE  BuildInv'
<1>1. line = 10 /\ line' = 0 /\ UNCHANGED <<libs, package>>
  BY ScriptLines DEF ScriptEnd
<1>2. BuildTypeOK'
  <2>1. torn' \in BOOLEAN
    BY Zenon DEF ScriptEnd
  <2>2. BuildTypes'
    BY <1>1 DEF ScriptEnd, BuildInv, BuildTypeOK, BuildTypes, ScriptInv
  <2> QED
    BY <2>1, <2>2, Zenon DEF BuildTypeOK, BuildTypes
<1>3. libs \in Versions /\ LibraryHolds /\ Holds(c_source, Code)
  BY <1>1 DEF BuildInv, ScriptInv, LibraryHolds
<1>4. libs' \in Versions /\ LibraryHolds' /\ package'[c_source].made_from = libs'
  BY <1>1, <1>3 DEF LibraryHolds, Holds
<1>5. ScriptFilesAgree'
  BY <1>4, LibraryAgrees
<1> QED
  BY <1>1, <1>2, <1>5 DEF BuildInv, ScriptInv

\* Every step of make and of the user keeps it.
LEMMA BuildNextInv == BuildInv /\ [BuildNext]_build_vars => BuildInv'
<1> SUFFICES ASSUME BuildInv, [BuildNext]_build_vars
             PROVE  BuildInv'
  OBVIOUS
<1> USE DEF BuildInv
<1>1. CASE UNCHANGED build_vars
  <2>1. UNCHANGED <<head, libs, package, target, line, builds>> /\ torn' = torn
    BY <1>1 DEF build_vars
  <2>2. BuildTypeOK' /\ ScriptFilesAgree'
    BY <2>1 DEF BuildTypeOK, ScriptFilesAgree, Exists, Whole
  <2>3. Unvouched' <=> Unvouched
    BY <2>1 DEF Unvouched
  <2>4. ScriptInv'
    BY <2>1, <2>3 DEF ScriptInv, Holds
  <2> QED
    BY <2>2, <2>4
<1>2. CASE Pull \/ UpdateSubmodule \/ Make
  <2>1. line = 0 /\ line' = 0 /\ UNCHANGED <<package, torn>>
    BY <1>2 DEF Pull, UpdateSubmodule, Make, ScriptInv, BuildTypeOK
  <2>2. BuildTypeOK'
    BY <1>2 DEF Pull, UpdateSubmodule, Make, BuildTypeOK
  <2> QED
    BY <2>1, <2>2 DEF ScriptInv, ScriptFilesAgree, Exists, Whole
<1>3. CASE CleanApp
  <2>1. line = 0 /\ line' = 0
    BY <1>3 DEF CleanApp, ScriptInv, BuildTypeOK
  <2>2. BuildTypeOK'
    BY <1>3 DEF CleanApp, BuildTypeOK
  <2>3. package'[c_source] = NULL
    BY <1>3, FileNames DEF CleanApp
  <2> QED
    BY <2>1, <2>2, <2>3 DEF ScriptInv, ScriptFilesAgree, Exists
<1>4. CASE CopyTarget
  BY <1>4, CopyTargetKeeps
<1>5. CASE ScriptTarget
  BY <1>5, ScriptTargetKeeps
<1>6. CASE ScriptLine
  BY <1>6, ScriptLineKeeps
<1>7. CASE ScriptEnd
  BY <1>7, ScriptEndKeeps
<1>8. CASE MakeDone
  <2>1. line = 0 /\ line' = 0 /\ UNCHANGED <<package, torn>>
    BY <1>8 DEF MakeDone, ScriptInv, BuildTypeOK
  <2>2. BuildTypeOK'
    BY <1>8 DEF MakeDone, BuildTypeOK
  <2> QED
    BY <2>1, <2>2 DEF ScriptInv, ScriptFilesAgree, Exists, Whole
<1>9. CASE Interrupt
  BY <1>9, InterruptKeeps
<1> QED
  BY <1>1, <1>2, <1>3, <1>4, <1>5, <1>6, <1>7, <1>8, <1>9 DEF BuildNext, UserStep, MakeStep

\* Whatever make and the user do, in any order and with any failures of commands,
\* c_source.py exists only next to the whole library of its version, unless a
\* signal has torn the package: deleted a library file beside a c_source.py, with
\* neither a whole run of the script nor clean-app since.
THEOREM LibraryBeforeSource == BuildSpec => []ScriptFilesAgree
<1>1. BuildInit => BuildInv
  BY BuildInitInv
<1>2. BuildInv /\ [BuildNext]_build_vars => BuildInv'
  BY BuildNextInv
<1>3. BuildInv => ScriptFilesAgree
  BY DEF BuildInv
<1> QED
  BY <1>1, <1>2, <1>3, PTL DEF BuildSpec

-----------------------------------------------------------------------------
\* The generator: what has been written by write number next.

Protos == request.infiles

ProtoSound == Sound(parser) /\ Sound(errors) /\ Sound(c_source)

LibrarySound ==
  /\ Sound(pbtoolsC) /\ Sound(pbtoolsH)
  /\ code[pbtoolsC].made_from = code[c_source].made_from
  /\ code[pbtoolsH].made_from = code[c_source].made_from

RunInv ==
  /\ exit = "running" => request # NULL
  /\ request # NULL =>
       /\ code \in [CodeFiles -> FileType]
       /\ ~code_torn => LibrarySound
       /\ next > 0
       /\ opened => next <= Last(request) /\ exit # "ok"
       /\ exit = "ok" => next = Last(request) + 1

\* The files of the i-th infile are those of one infile of its name ...
FileWhole(i) ==
  \E j \in i..Len(Protos) :
    /\ NameOf(Protos[j]) = NameOf(Protos[i])
    /\ out[Header(NameOf(Protos[i]))] = Text("header", Protos[j])
    /\ out[Source(NameOf(Protos[i]))] = Text("source", Protos[j])

\* ... or being overwritten by those of a later one.
BeingWritten(i) ==
  \E c \in 1..Len(Protos) :
    /\ next \in {2*c - 1, 2*c}
    /\ NameOf(Protos[c]) = NameOf(Protos[i])

ProtoInv ==
  request # NULL /\ ProtoSound =>
    /\ \A c \in 1..Len(Protos) :
         next = 2*c => out[Header(NameOf(Protos[c]))] = Text("header", Protos[c])
    /\ \A i \in 1..Len(Protos) : 2*i < next => FileWhole(i) \/ BeingWritten(i)

CommonInv ==
  request # NULL =>
    LET n == 2 * Len(Protos) IN
      /\ next > n + 2 /\ ~code_torn => out[LibraryC] = Text("library", code[pbtoolsC].made_from)
      /\ next > n + 3 /\ ~code_torn => out[LibraryH] = Text("library", code[pbtoolsH].made_from)
      /\ next > n + 4 => out[Main] \in {Text("main", ModuleOf(request)), Edited}
      /\ next > n + 5 => out[Makefile] = Text("Makefile", ModuleOf(request))

GenInv == BuildInv /\ GenTypeOK /\ RunInv /\ ProtoInv /\ CommonInv

\* The writes of a call
LEMMA RequestShape ==
  ASSUME request \in Requests
  PROVE  /\ Protos \in Seq(Infiles)
         /\ Len(Protos) \in Nat /\ Len(Protos) > 0
         /\ \A c \in 1..Len(Protos) : Protos[c] \in Infiles /\ NameOf(Protos[c]) \in Names
         /\ request.module_type \in {"udp_socket", "netfilter"}
         /\ Last(request) = 2 * Len(Protos) + 5
<1>1. request \in RequestType
  BY GeneratorAssumption
<1>2. Protos \in Seq(Infiles) /\ Protos # <<>> /\ request.module_type \in {"udp_socket", "netfilter"}
  BY <1>1 DEF RequestType, Protos
<1>3. Len(Protos) \in Nat /\ Len(Protos) > 0
  BY <1>2
<1>4. \A c \in 1..Len(Protos) : Protos[c] \in Infiles
  BY <1>2
<1> QED
  BY <1>2, <1>3, <1>4, GeneratorAssumption DEF Last, Protos

\* The writes of a proto file are its header and its source.
LEMMA ProtoWrites ==
  ASSUME request \in Requests, NEW c \in 1..Len(Protos)
  PROVE  /\ WriteAt(request, 2*c - 1)
              = [path |-> Header(NameOf(Protos[c])), text |-> Text("header", Protos[c])]
         /\ WriteAt(request, 2*c)
              = [path |-> Source(NameOf(Protos[c])), text |-> Text("source", Protos[c])]
<1>1. Len(Protos) \in Nat
  BY RequestShape
<1>2. 2*c - 1 <= 2 * Len(Protos) /\ 2*c <= 2 * Len(Protos)
  BY <1>1
<1>3. (2*c - 1 + 1) \div 2 = c /\ (2*c + 1) \div 2 = c
  BY <1>1
<1>4. (2*c - 1) % 2 = 1 /\ (2*c) % 2 = 0
  BY <1>1
<1>5. ASSUME NEW k, ~(k > 2 * Len(Protos)), (k + 1) \div 2 = c
      PROVE  /\ k % 2 = 1 => WriteAt(request, k)
                  = [path |-> Header(NameOf(Protos[c])), text |-> Text("header", Protos[c])]
             /\ k % 2 # 1 => WriteAt(request, k)
                  = [path |-> Source(NameOf(Protos[c])), text |-> Text("source", Protos[c])]
  BY <1>5, Zenon DEF WriteAt, Protos
<1>6. ~(2*c - 1 > 2 * Len(Protos)) /\ ~(2*c > 2 * Len(Protos))
  BY <1>1, <1>2
<1>7. (2*c) % 2 # 1
  BY <1>4
<1>8. WriteAt(request, 2*c - 1)
        = [path |-> Header(NameOf(Protos[c])), text |-> Text("header", Protos[c])]
  BY <1>3, <1>4, <1>5, <1>6, Zenon
<1>9. WriteAt(request, 2*c)
        = [path |-> Source(NameOf(Protos[c])), text |-> Text("source", Protos[c])]
  BY <1>3, <1>5, <1>6, <1>7, Zenon
<1> QED
  BY <1>8, <1>9

\* The five writes after those of the proto files.
LEMMA CommonWrites ==
  ASSUME request \in Requests
  PROVE  LET n == 2 * Len(Protos) IN
         /\ WriteAt(request, n + 1) = [path |-> GitIgnore, text |-> Text("gitignore", NULL)]
         /\ WriteAt(request, n + 2)
              = [path |-> LibraryC, text |-> Text("library", code[pbtoolsC].made_from)]
         /\ WriteAt(request, n + 3)
              = [path |-> LibraryH, text |-> Text("library", code[pbtoolsH].made_from)]
         /\ WriteAt(request, n + 4) = [path |-> Main, text |-> Text("main", ModuleOf(request))]
         /\ WriteAt(request, n + 5)
              = [path |-> Makefile, text |-> Text("Makefile", ModuleOf(request))]
<1> DEFINE n == 2 * Len(Protos)
<1>1. n \in Nat
  BY RequestShape
<1> HIDE DEF n
<1>2. ASSUME NEW k \in 1..5
      PROVE  WriteAt(request, n + k) = Common(request)[k]
  <2> DEFINE j == n + k
  <2>1. j > n /\ j - n = k
    BY <1>1
  <2> HIDE DEF j
  <2>2. WriteAt(request, j) = Common(request)[k]
    BY <2>1, Zenon DEF WriteAt, Protos, n
  <2> QED
    BY <2>2, Zenon DEF j
<1> QED
  <2>1. WriteAt(request, n + 1) = Common(request)[1] /\ WriteAt(request, n + 2) = Common(request)[2]
    BY <1>2
  <2>2. WriteAt(request, n + 3) = Common(request)[3] /\ WriteAt(request, n + 4) = Common(request)[4]
    BY <1>2
  <2>3. WriteAt(request, n + 5) = Common(request)[5]
    BY <1>2
  <2> QED
    BY <2>1, <2>2, <2>3 DEF Common, n

\* The same by the number of the write at hand.
LEMMA CommonWrite ==
  ASSUME request \in Requests, NEW k \in 1..5, next = 2 * Len(Protos) + k
  PROVE  /\ k = 1 => WriteAt(request, next) = [path |-> GitIgnore, text |-> Text("gitignore", NULL)]
         /\ k = 2 => WriteAt(request, next)
              = [path |-> LibraryC, text |-> Text("library", code[pbtoolsC].made_from)]
         /\ k = 3 => WriteAt(request, next)
              = [path |-> LibraryH, text |-> Text("library", code[pbtoolsH].made_from)]
         /\ k = 4 => WriteAt(request, next)
              = [path |-> Main, text |-> Text("main", ModuleOf(request))]
         /\ k = 5 => WriteAt(request, next)
              = [path |-> Makefile, text |-> Text("Makefile", ModuleOf(request))]
BY CommonWrites, Zenon

\* Which write is write number next
LEMMA WriteCases ==
  ASSUME request \in Requests, next \in Nat \ {0}, next <= Last(request)
  PROVE  \/ \E c \in 1..Len(Protos) : next = 2*c - 1
         \/ \E c \in 1..Len(Protos) : next = 2*c
         \/ \E k \in 1..5 : next = 2 * Len(Protos) + k
<1>1. Len(Protos) \in Nat /\ Last(request) = 2 * Len(Protos) + 5
  BY RequestShape
<1>2. CASE next > 2 * Len(Protos)
  <2>1. next - 2 * Len(Protos) \in 1..5 /\ next = 2 * Len(Protos) + (next - 2 * Len(Protos))
    BY <1>1, <1>2
  <2> QED
    BY <2>1
<1>3. CASE next <= 2 * Len(Protos)
  <2>1. \E c \in Nat : next = 2*c - 1 \/ next = 2*c
    <3>1. next = 2 * (next \div 2) \/ next = 2 * (next \div 2 + 1) - 1
      OBVIOUS
    <3>2. next \div 2 \in Nat /\ next \div 2 + 1 \in Nat
      OBVIOUS
    <3> QED
      BY <3>1, <3>2
  <2>2. PICK c \in Nat : next = 2*c - 1 \/ next = 2*c
    BY <2>1
  <2>3. c \in 1..Len(Protos)
    BY <1>1, <1>3, <2>2
  <2> QED
    BY <2>2, <2>3
<1> QED
  BY <1>1, <1>2, <1>3

\* The files have different names.
LEMMA PathNames ==
  /\ \A m, n : Header(m) = Header(n) <=> m = n
  /\ \A m, n : Source(m) = Source(n) <=> m = n
  /\ \A m, n : Header(m) # Source(n)
  /\ \A m : /\ Header(m) \notin {GitIgnore, LibraryC, LibraryH, Main, Makefile}
           /\ Source(m) \notin {GitIgnore, LibraryC, LibraryH, Main, Makefile}
  /\ \A m \in Names : Header(m) \in Paths /\ Source(m) \in Paths
  /\ {GitIgnore, LibraryC, LibraryH, Main, Makefile} \subseteq Paths
  /\ GitIgnore # LibraryC /\ GitIgnore # LibraryH /\ GitIgnore # Main /\ GitIgnore # Makefile
  /\ LibraryC # LibraryH /\ LibraryC # Main /\ LibraryC # Makefile
  /\ LibraryH # Main /\ LibraryH # Makefile /\ Main # Makefile
<1>1. \A m, n : Header(m) = Header(n) <=> m = n
  BY DEF Header
<1>2. \A m, n : Source(m) = Source(n) <=> m = n
  BY DEF Source
<1>3. \A m, n : Header(m) # Source(n)
  BY DEF Header, Source
<1>4. \A m : /\ Header(m) \notin {GitIgnore, LibraryC, LibraryH, Main, Makefile}
             /\ Source(m) \notin {GitIgnore, LibraryC, LibraryH, Main, Makefile}
  BY DEF Header, Source, GitIgnore, LibraryC, LibraryH, Main, Makefile
<1>5. /\ GitIgnore # LibraryC /\ GitIgnore # LibraryH /\ GitIgnore # Main /\ GitIgnore # Makefile
      /\ LibraryC # LibraryH /\ LibraryC # Main /\ LibraryC # Makefile
      /\ LibraryH # Main /\ LibraryH # Makefile /\ Main # Makefile
  BY DEF GitIgnore, LibraryC, LibraryH, Main, Makefile
<1>6. /\ \A m \in Names : Header(m) \in Paths /\ Source(m) \in Paths
      /\ {GitIgnore, LibraryC, LibraryH, Main, Makefile} \subseteq Paths
  BY DEF Paths
<1> QED
  BY <1>1, <1>2, <1>3, <1>4, <1>5, <1>6

\* What a write may say, and where
LEMMA Texts ==
  /\ Cut \in TextType /\ Edited \in TextType /\ Garbled \in TextType
  /\ Text("gitignore", NULL) \in TextType
  /\ \A f \in Infiles : Text("header", f) \in TextType /\ Text("source", f) \in TextType
  /\ \A v \in Versions : Text("library", v) \in TextType
  /\ \A m \in {"udp_socket", "netfilter"} \X Names :
       Text("main", m) \in TextType /\ Text("Makefile", m) \in TextType
BY DEF TextType, Text, Cut, Edited, Garbled

\* Every write is of some text to a file of the module.
LEMMA WriteType ==
  ASSUME request \in Requests, code \in [CodeFiles -> FileType],
         next \in Nat \ {0}, next <= Last(request)
  PROVE  WriteAt(request, next).path \in Paths /\ WriteAt(request, next).text \in TextType
<1>1. ASSUME NEW c \in 1..Len(Protos)
      PROVE  /\ Header(NameOf(Protos[c])) \in Paths /\ Source(NameOf(Protos[c])) \in Paths
             /\ Text("header", Protos[c]) \in TextType /\ Text("source", Protos[c]) \in TextType
  BY RequestShape, PathNames, Texts
<1>2. code[pbtoolsC].made_from \in Versions /\ code[pbtoolsH].made_from \in Versions
  BY DEF CodeFiles, FileType
<1>3. ModuleOf(request) \in {"udp_socket", "netfilter"} \X Names
  BY RequestShape DEF ModuleOf, Protos
<1>4. CASE \E c \in 1..Len(Protos) : next = 2*c - 1
  <2>1. PICK c \in 1..Len(Protos) : next = 2*c - 1
    BY <1>4
  <2>2. WriteAt(request, next)
          = [path |-> Header(NameOf(Protos[c])), text |-> Text("header", Protos[c])]
    BY <2>1, ProtoWrites
  <2> QED
    BY <1>1, <2>2
<1>5. CASE \E c \in 1..Len(Protos) : next = 2*c
  <2>1. PICK c \in 1..Len(Protos) : next = 2*c
    BY <1>5
  <2>2. WriteAt(request, next)
          = [path |-> Source(NameOf(Protos[c])), text |-> Text("source", Protos[c])]
    BY <2>1, ProtoWrites
  <2> QED
    BY <1>1, <2>2
<1>6. CASE \E k \in 1..5 : next = 2 * Len(Protos) + k
  <2>1. {GitIgnore, LibraryC, LibraryH, Main, Makefile} \subseteq Paths
    BY PathNames
  <2>2. /\ Text("gitignore", NULL) \in TextType
        /\ Text("library", code[pbtoolsC].made_from) \in TextType
        /\ Text("library", code[pbtoolsH].made_from) \in TextType
        /\ Text("main", ModuleOf(request)) \in TextType
        /\ Text("Makefile", ModuleOf(request)) \in TextType
    BY <1>2, <1>3, Texts
  <2> QED
    BY <1>6, <2>1, <2>2, CommonWrites
<1> QED
  BY <1>4, <1>5, <1>6, WriteCases

\* A write to another file leaves the files of an infile whole.
LEMMA OthersWhole ==
  ASSUME out \in [Paths -> TextType \cup {NULL}], UNCHANGED request, request \in Requests,
         NEW p, NEW t, out' = [out EXCEPT ![p] = t],
         NEW i \in 1..Len(Protos), FileWhole(i),
         p # Header(NameOf(Protos[i])), p # Source(NameOf(Protos[i]))
  PROVE  FileWhole(i)'
<1>1. Header(NameOf(Protos[i])) \in Paths /\ Source(NameOf(Protos[i])) \in Paths
  BY RequestShape, PathNames
<1>2. /\ out'[Header(NameOf(Protos[i]))] = out[Header(NameOf(Protos[i]))]
      /\ out'[Source(NameOf(Protos[i]))] = out[Source(NameOf(Protos[i]))]
  BY <1>1
<1>3. Protos' = Protos
  BY DEF Protos
<1> QED
  BY <1>2, <1>3 DEF FileWhole

\* Header and source of the c-th infile are opened.
LEMMA InfileOpened ==
  ASSUME GenTypeOK, ProtoInv, CommonInv, request \in Requests,
         UNCHANGED <<request, code, code_torn, next>>, NEW c \in 1..Len(Protos), NEW p,
         \/ next = 2*c - 1 /\ p = Header(NameOf(Protos[c]))
         \/ next = 2*c /\ p = Source(NameOf(Protos[c])),
         NEW t, out' = [out EXCEPT ![p] = t]
  PROVE  ProtoInv' /\ CommonInv'
<1>1. Len(Protos) \in Nat /\ Protos' = Protos /\ c \in Int /\ next \in Nat
  BY RequestShape DEF Protos, GenTypeOK
<1>2. next <= 2 * Len(Protos)
  BY <1>1
<1>3. CommonInv'
  BY <1>1, <1>2 DEF CommonInv
<1>4. ProtoInv'
  <2> SUFFICES ASSUME ProtoSound
               PROVE  /\ \A d \in 1..Len(Protos) : next = 2*d =>
                           out'[Header(NameOf(Protos[d]))] = Text("header", Protos[d])
                      /\ \A i \in 1..Len(Protos) :
                           2*i < next => FileWhole(i)' \/ BeingWritten(i)'
    BY <1>1 DEF ProtoInv, ProtoSound, Sound
  <2> request # NULL
    BY GeneratorAssumption
  <2>1. ASSUME NEW d \in 1..Len(Protos), next = 2*d
        PROVE  out'[Header(NameOf(Protos[d]))] = Text("header", Protos[d])
    <3>1. p = Source(NameOf(Protos[c]))
      BY <1>1, <2>1
    <3>2. out[Header(NameOf(Protos[d]))] = Text("header", Protos[d])
      BY <2>1 DEF ProtoInv
    <3>3. Header(NameOf(Protos[d])) \in Paths /\ Header(NameOf(Protos[d])) # p
      BY <3>1, PathNames, RequestShape
    <3> QED
      BY <3>2, <3>3 DEF GenTypeOK
  <2>2. ASSUME NEW i \in 1..Len(Protos), 2*i < next
        PROVE  FileWhole(i)' \/ BeingWritten(i)'
    <3>1. FileWhole(i) \/ BeingWritten(i)
      BY <2>2 DEF ProtoInv
    <3>2. CASE BeingWritten(i)
      BY <1>1, <3>2 DEF BeingWritten
    <3>3. CASE FileWhole(i) /\ ~BeingWritten(i)
      <4>1. NameOf(Protos[c]) # NameOf(Protos[i])
        BY <1>1, <3>3 DEF BeingWritten
      <4>2. p # Header(NameOf(Protos[i])) /\ p # Source(NameOf(Protos[i]))
        BY <4>1, PathNames
      <4> QED
        BY <3>3, <4>2, OthersWhole DEF GenTypeOK
    <3> QED
      BY <3>1, <3>2, <3>3
  <2> QED
    BY <2>1, <2>2
<1> QED
  BY <1>3, <1>4

\* The header of the c-th infile is written: those of its name are now being
\* written, c itself only later.
LEMMA HeaderWritten ==
  ASSUME GenTypeOK, ProtoInv, request \in Requests, UNCHANGED <<request, code, code_torn>>,
         NEW c \in 1..Len(Protos), next = 2*c - 1, next' = 2*c,
         NEW t, out' = [out EXCEPT ![Header(NameOf(Protos[c]))] = t],
         ProtoSound => t = Text("header", Protos[c])
  PROVE  ProtoInv' /\ CommonInv'
<1> DEFINE p == Header(NameOf(Protos[c]))
<1>1. Len(Protos) \in Nat /\ Protos' = Protos /\ c \in Int /\ next \in Nat
  BY RequestShape DEF Protos, GenTypeOK
<1>2. p \in Paths
  BY RequestShape, PathNames
<1>3. CommonInv'
  BY <1>1 DEF CommonInv
<1>4. ProtoInv'
  <2> SUFFICES ASSUME ProtoSound
               PROVE  /\ \A d \in 1..Len(Protos) : next' = 2*d =>
                           out'[Header(NameOf(Protos[d]))] = Text("header", Protos[d])
                      /\ \A i \in 1..Len(Protos) :
                           2*i < next' => FileWhole(i)' \/ BeingWritten(i)'
    BY <1>1 DEF ProtoInv, ProtoSound, Sound
  <2> request # NULL
    BY GeneratorAssumption
  <2>1. ASSUME NEW d \in 1..Len(Protos), next' = 2*d
        PROVE  out'[Header(NameOf(Protos[d]))] = Text("header", Protos[d])
    <3>1. d = c
      BY <1>1, <2>1
    <3> QED
      BY <1>2, <3>1 DEF GenTypeOK
  <2>2. ASSUME NEW i \in 1..Len(Protos), 2*i < next'
        PROVE  FileWhole(i)' \/ BeingWritten(i)'
    <3>1. FileWhole(i) \/ BeingWritten(i)
      <4>1. 2*i < next
        BY <1>1, <2>2
      <4> QED
        BY <4>1 DEF ProtoInv
    <3>2. CASE NameOf(Protos[c]) = NameOf(Protos[i])
      BY <1>1, <3>2 DEF BeingWritten
    <3>3. CASE NameOf(Protos[c]) # NameOf(Protos[i])
      <4>1. FileWhole(i)
        <5>1. ~BeingWritten(i)
          <6>1. \A d \in 1..Len(Protos) : next \in {2*d - 1, 2*d} => d = c
            BY <1>1
          <6> QED
            BY <3>3, <6>1 DEF BeingWritten
        <5> QED
          BY <3>1, <5>1
      <4>2. p # Header(NameOf(Protos[i])) /\ p # Source(NameOf(Protos[i]))
        BY <3>3, PathNames
      <4> QED
        BY <4>1, <4>2, OthersWhole DEF GenTypeOK
    <3> QED
      BY <3>2, <3>3
  <2> QED
    BY <2>1, <2>2
<1> QED
  BY <1>3, <1>4

\* Its source is written: now it is whole, and every earlier one of its name.
LEMMA SourceWritten ==
  ASSUME GenTypeOK, ProtoInv, request \in Requests, UNCHANGED <<request, code, code_torn>>,
         NEW c \in 1..Len(Protos), next = 2*c, next' = 2*c + 1,
         NEW t, out' = [out EXCEPT ![Source(NameOf(Protos[c]))] = t],
         ProtoSound => t = Text("source", Protos[c])
  PROVE  ProtoInv' /\ CommonInv'
<1> DEFINE p == Source(NameOf(Protos[c]))
<1>1. Len(Protos) \in Nat /\ Protos' = Protos /\ c \in Int /\ next \in Nat
  BY RequestShape DEF Protos, GenTypeOK
<1>2. /\ Header(NameOf(Protos[c])) \in Paths /\ p \in Paths
      /\ Header(NameOf(Protos[c])) # p
  BY RequestShape, PathNames
<1>3. CommonInv'
  BY <1>1 DEF CommonInv
<1>4. ProtoInv'
  <2> SUFFICES ASSUME ProtoSound
               PROVE  /\ \A d \in 1..Len(Protos) : next' # 2*d
                      /\ \A i \in 1..Len(Protos) : 2*i < next' => FileWhole(i)'
    BY <1>1 DEF ProtoInv, ProtoSound, Sound
  <2> request # NULL
    BY GeneratorAssumption
  <2>1. \A d \in 1..Len(Protos) : next' # 2*d
    BY <1>1
  <2>2. ASSUME NEW i \in 1..Len(Protos), 2*i < next'
        PROVE  FileWhole(i)'
    <3>1. CASE NameOf(Protos[c]) = NameOf(Protos[i])
      <4>1. out'[Header(NameOf(Protos[c]))] = Text("header", Protos[c])
        BY <1>2 DEF ProtoInv, GenTypeOK
      <4>2. out'[Source(NameOf(Protos[c]))] = Text("source", Protos[c])
        BY <1>2 DEF GenTypeOK
      <4>3. c \in i..Len(Protos)
        BY <1>1, <2>2
      <4> QED
        BY <1>1, <3>1, <4>1, <4>2, <4>3 DEF FileWhole
    <3>2. CASE NameOf(Protos[c]) # NameOf(Protos[i])
      <4>1. FileWhole(i)
        <5>1. 2*i < next
          <6>1. i # c
            BY <3>2
          <6> QED
            BY <1>1, <2>2, <6>1
        <5>2. ~BeingWritten(i)
          <6>1. \A d \in 1..Len(Protos) : next \in {2*d - 1, 2*d} => d = c
            BY <1>1
          <6> QED
            BY <3>2, <6>1 DEF BeingWritten
        <5> QED
          BY <5>1, <5>2 DEF ProtoInv
      <4>2. p # Header(NameOf(Protos[i])) /\ p # Source(NameOf(Protos[i]))
        BY <3>2, PathNames
      <4> QED
        BY <4>1, <4>2, OthersWhole DEF GenTypeOK
    <3> QED
      BY <3>1, <3>2
  <2> QED
    BY <2>1, <2>2
<1> QED
  BY <1>3, <1>4

\* Once the last infile is written, all of them are whole, and stay so.
LEMMA AllWhole ==
  ASSUME request \in Requests, ProtoInv, next \in Nat, next > 2 * Len(Protos), ProtoSound
  PROVE  \A i \in 1..Len(Protos) : FileWhole(i)
<1>1. Len(Protos) \in Nat /\ request # NULL
  BY RequestShape, GeneratorAssumption
<1>2. \A i \in 1..Len(Protos) : 2*i < next /\ next \notin {2*i - 1, 2*i}
  BY <1>1
<1>3. \A i \in 1..Len(Protos) : ~BeingWritten(i)
  BY <1>2 DEF BeingWritten
<1> QED
  BY <1>1, <1>2, <1>3 DEF ProtoInv

\* A write of a file that every module has leaves the proto files alone.
LEMMA CommonKeepsProtos ==
  ASSUME GenTypeOK, ProtoInv, request \in Requests, UNCHANGED <<request, code, code_torn>>,
         next > 2 * Len(Protos), next' \in {next, next + 1},
         NEW p \in {GitIgnore, LibraryC, LibraryH, Main, Makefile},
         NEW t, out' = [out EXCEPT ![p] = t]
  PROVE  ProtoInv'
<1>1. Len(Protos) \in Nat /\ Protos' = Protos /\ next \in Nat
  BY RequestShape DEF Protos, GenTypeOK
<1> SUFFICES ASSUME ProtoSound
             PROVE  /\ \A d \in 1..Len(Protos) : next' # 2*d
                    /\ \A i \in 1..Len(Protos) : FileWhole(i)'
  BY <1>1 DEF ProtoInv, ProtoSound, Sound
<1>2. \A d \in 1..Len(Protos) : next' # 2*d
  BY <1>1
<1>3. \A i \in 1..Len(Protos) : FileWhole(i)
  BY <1>1, AllWhole
<1>4. ASSUME NEW i \in 1..Len(Protos)
      PROVE  FileWhole(i)'
  <2>1. p # Header(NameOf(Protos[i])) /\ p # Source(NameOf(Protos[i]))
    BY PathNames
  <2> QED
    BY <1>3, <2>1, OthersWhole DEF GenTypeOK
<1> QED
  BY <1>2, <1>4

\* A file that all modules have is opened, or written with its text.
LEMMA CommonOpened ==
  ASSUME GenTypeOK, CommonInv, request \in Requests, UNCHANGED <<request, code, code_torn, next>>,
         NEW k \in 1..5, next = 2 * Len(Protos) + k,
         NEW t, out' = [out EXCEPT ![WriteAt(request, next).path] = t]
  PROVE  CommonInv'
<1>1. Len(Protos) \in Nat /\ Protos' = Protos
  BY RequestShape DEF Protos
<1> DEFINE w == WriteAt(request, next)
<1>2. /\ k = 1 => w = [path |-> GitIgnore, text |-> Text("gitignore", NULL)]
      /\ k = 2 => w = [path |-> LibraryC, text |-> Text("library", code[pbtoolsC].made_from)]
      /\ k = 3 => w = [path |-> LibraryH, text |-> Text("library", code[pbtoolsH].made_from)]
      /\ k = 4 => w = [path |-> Main, text |-> Text("main", ModuleOf(request))]
      /\ k = 5 => w = [path |-> Makefile, text |-> Text("Makefile", ModuleOf(request))]
  BY CommonWrite, Zenon
<1>3. out' = [out EXCEPT ![w.path] = t]
  OBVIOUS
<1> HIDE DEF w
<1>4. /\ k > 2 => w.path # LibraryC
      /\ k > 3 => w.path # LibraryH
      /\ k > 4 => w.path # Main
  <2>1. k > 2 => w.path \in {LibraryH, Main, Makefile}
    BY <1>2
  <2>2. k > 3 => w.path \in {Main, Makefile}
    BY <1>2
  <2>3. k > 4 => w.path = Makefile
    BY <1>2
  <2> QED
    BY <2>1, <2>2, <2>3, PathNames
<1>5. /\ k > 2 => out'[LibraryC] = out[LibraryC]
      /\ k > 3 => out'[LibraryH] = out[LibraryH]
      /\ k > 4 => out'[Main] = out[Main]
  BY <1>3, <1>4, PathNames DEF GenTypeOK
<1> QED
  BY <1>1, <1>5 DEF CommonInv, ModuleOf

\* Each of the five writes leaves its file whole, but for the library of a torn
\* package.
LEMMA CommonWritten ==
  ASSUME GenTypeOK, CommonInv, request \in Requests, UNCHANGED <<request, code, code_torn>>,
         NEW k \in 1..5, next = 2 * Len(Protos) + k, next' = next + 1,
         NEW t, ~code_torn \/ k \notin 2..3 => t = WriteAt(request, next).text,
         out' = [out EXCEPT ![WriteAt(request, next).path] = t]
  PROVE  CommonInv'
<1>1. Len(Protos) \in Nat /\ Protos' = Protos
  BY RequestShape DEF Protos
<1> DEFINE w == WriteAt(request, next)
<1>2. /\ k = 1 => w = [path |-> GitIgnore, text |-> Text("gitignore", NULL)]
      /\ k = 2 => w = [path |-> LibraryC, text |-> Text("library", code[pbtoolsC].made_from)]
      /\ k = 3 => w = [path |-> LibraryH, text |-> Text("library", code[pbtoolsH].made_from)]
      /\ k = 4 => w = [path |-> Main, text |-> Text("main", ModuleOf(request))]
      /\ k = 5 => w = [path |-> Makefile, text |-> Text("Makefile", ModuleOf(request))]
  BY CommonWrite, Zenon
<1>3. out' = [out EXCEPT ![w.path] = t] /\ (~code_torn \/ k \notin 2..3 => t = w.text)
  OBVIOUS
<1> HIDE DEF w
<1>4. /\ k > 2 => w.path # LibraryC
      /\ k > 3 => w.path # LibraryH
      /\ k > 4 => w.path # Main
  <2>1. k > 2 => w.path \in {LibraryH, Main, Makefile}
    BY <1>2
  <2>2. k > 3 => w.path \in {Main, Makefile}
    BY <1>2
  <2>3. k > 4 => w.path = Makefile
    BY <1>2
  <2> QED
    BY <2>1, <2>2, <2>3, PathNames
<1>5. /\ k > 2 => out'[LibraryC] = out[LibraryC]
      /\ k > 3 => out'[LibraryH] = out[LibraryH]
      /\ k > 4 => out'[Main] = out[Main]
  BY <1>3, <1>4, PathNames DEF GenTypeOK
<1>6. w.path \in Paths => out'[w.path] = t
  BY <1>3 DEF GenTypeOK
<1>7. /\ k = 2 /\ ~code_torn => out'[LibraryC] = Text("library", code[pbtoolsC].made_from)
      /\ k = 3 /\ ~code_torn => out'[LibraryH] = Text("library", code[pbtoolsH].made_from)
      /\ k = 4 => out'[Main] = Text("main", ModuleOf(request))
      /\ k = 5 => out'[Makefile] = Text("Makefile", ModuleOf(request))
  BY <1>2, <1>3, <1>6, PathNames
<1>8. /\ k > 2 /\ ~code_torn => out[LibraryC] = Text("library", code[pbtoolsC].made_from)
      /\ k > 3 /\ ~code_torn => out[LibraryH] = Text("library", code[pbtoolsH].made_from)
      /\ k > 4 => out[Main] \in {Text("main", ModuleOf(request)), Edited}
  BY <1>1, GeneratorAssumption DEF CommonInv
<1>9. /\ next' > 2 * Len(Protos) + 2 => k >= 2
      /\ next' > 2 * Len(Protos) + 3 => k >= 3
      /\ next' > 2 * Len(Protos) + 4 => k >= 4
      /\ next' > 2 * Len(Protos) + 5 => k = 5
  BY <1>1
<1>10. /\ k >= 2 /\ ~code_torn => out'[LibraryC] = Text("library", code[pbtoolsC].made_from)
       /\ k >= 3 /\ ~code_torn => out'[LibraryH] = Text("library", code[pbtoolsH].made_from)
       /\ k >= 4 => out'[Main] \in {Text("main", ModuleOf(request)), Edited}
  BY <1>5, <1>7, <1>8
<1> QED
  BY <1>1, <1>7, <1>9, <1>10 DEF CommonInv

-----------------------------------------------------------------------------
\* The steps of a call

\* What a call that has not ended has.
LEMMA Running ==
  ASSUME GenTypeOK, RunInv, exit = "running"
  PROVE  /\ request \in Requests /\ request # NULL
         /\ code \in [CodeFiles -> FileType]
         /\ Last(request) \in Nat
BY RequestShape DEF GenTypeOK, RunInv

\* Emptying the next file keeps the invariant of the generator.
LEMMA OpenKeeps ==
  ASSUME GenInv, Open
  PROVE  GenInv'
<1> USE DEF GenInv
<1>1. /\ request \in Requests /\ request # NULL /\ code \in [CodeFiles -> FileType]
      /\ UNCHANGED <<request, code, code_torn, next, exit, runs>> /\ UNCHANGED build_vars
      /\ opened' = TRUE /\ next <= Last(request)
      /\ out' = [out EXCEPT ![WriteAt(request, next).path] = Cut]
  BY Running DEF Open
<1>2. next \in Nat \ {0}
  BY <1>1 DEF GenTypeOK, RunInv
<1>3. BuildInv'
  BY <1>1, BuildNextInv DEF GenInv
<1>4. GenTypeOK'
  BY <1>1, Texts DEF GenTypeOK
<1>5. RunInv'
  BY <1>1 DEF RunInv, Open, LibrarySound, Sound, Last
<1>6. CASE \E c \in 1..Len(Protos) : next = 2*c - 1
  <2>1. PICK c \in 1..Len(Protos) : next = 2*c - 1
    BY <1>6
  <2>2. WriteAt(request, next)
          = [path |-> Header(NameOf(Protos[c])), text |-> Text("header", Protos[c])]
    BY <1>1, <2>1, ProtoWrites
  <2>3. out' = [out EXCEPT ![Header(NameOf(Protos[c]))] = Cut]
    BY <1>1, <2>2
  <2>4. ProtoInv' /\ CommonInv'
    BY <1>1, <2>1, <2>3, InfileOpened
  <2> QED
    BY <1>3, <1>4, <1>5, <2>4
<1>7. CASE \E c \in 1..Len(Protos) : next = 2*c
  <2>1. PICK c \in 1..Len(Protos) : next = 2*c
    BY <1>7
  <2>2. WriteAt(request, next)
          = [path |-> Source(NameOf(Protos[c])), text |-> Text("source", Protos[c])]
    BY <1>1, <2>1, ProtoWrites
  <2>3. out' = [out EXCEPT ![Source(NameOf(Protos[c]))] = Cut]
    BY <1>1, <2>2
  <2>4. ProtoInv' /\ CommonInv'
    BY <1>1, <2>1, <2>3, InfileOpened
  <2> QED
    BY <1>3, <1>4, <1>5, <2>4
<1>8. CASE \E k \in 1..5 : next = 2 * Len(Protos) + k
  <2>1. PICK k \in 1..5 : next = 2 * Len(Protos) + k
    BY <1>8
  <2>2. WriteAt(request, next).path \in {GitIgnore, LibraryC, LibraryH, Main, Makefile}
    BY <1>1, <2>1, CommonWrites
  <2>3. next > 2 * Len(Protos)
    BY <1>1, <2>1, RequestShape
  <2>4. ProtoInv'
    BY <1>1, <2>2, <2>3, CommonKeepsProtos
  <2>5. CommonInv'
    BY <1>1, <2>1, CommonOpened
  <2> QED
    BY <1>3, <1>4, <1>5, <2>4, <2>5
<1> QED
  BY <1>1, <1>2, <1>6, <1>7, <1>8, WriteCases

\* The library is sound unless the package is torn: c_source.py vouches for it.
LEMMA CommonSound ==
  ASSUME request \in Requests, NEW k \in 1..5, next = 2 * Len(Protos) + k,
         k \in 2..3 => Sound(pbtoolsC) /\ Sound(pbtoolsH)
  PROVE  \A f \in MadeBy(WriteAt(request, next)) : Sound(f)
<1> DEFINE w == WriteAt(request, next)
<1>1. /\ k = 1 => w = [path |-> GitIgnore, text |-> Text("gitignore", NULL)]
      /\ k = 2 => w = [path |-> LibraryC, text |-> Text("library", code[pbtoolsC].made_from)]
      /\ k = 3 => w = [path |-> LibraryH, text |-> Text("library", code[pbtoolsH].made_from)]
      /\ k = 4 => w = [path |-> Main, text |-> Text("main", ModuleOf(request))]
      /\ k = 5 => w = [path |-> Makefile, text |-> Text("Makefile", ModuleOf(request))]
  BY CommonWrite, Zenon
<1> HIDE DEF w
<1>2. w.text.kind \in {"gitignore", "library", "main", "Makefile"}
  BY <1>1 DEF Text
<1>3. ~(w.text.kind \in {"header", "source"})
  BY <1>2
<1>4. MadeBy(w) = {pbtoolsC} \/ MadeBy(w) = {pbtoolsH} \/ MadeBy(w) = {}
  BY <1>3, PathNames DEF MadeBy
<1>5. k \notin 2..3 => MadeBy(w) = {}
  <2>1. k \notin 2..3 => w.path \in {GitIgnore, Main, Makefile}
    BY <1>1
  <2> QED
    BY <1>3, <2>1, PathNames DEF MadeBy
<1> QED
  BY <1>4, <1>5 DEF w

\* So does writing it.
LEMMA WriteKeeps ==
  ASSUME GenInv, Write
  PROVE  GenInv'
<1> USE DEF GenInv
<1>1. /\ request \in Requests /\ request # NULL /\ code \in [CodeFiles -> FileType]
      /\ UNCHANGED <<request, code, code_torn, exit, runs>> /\ UNCHANGED build_vars
      /\ exit = "running" /\ opened' = FALSE /\ next' = next + 1
  BY Running DEF Write
<1>2. next \in Nat \ {0} /\ next <= Last(request) /\ Last(request) \in Nat
  BY <1>1, Running DEF GenTypeOK, RunInv, Write
<1> DEFINE w == WriteAt(request, next)
<1>3. w.path \in Paths /\ w.text \in TextType
  BY <1>1, <1>2, WriteType
<1>4. PICK t \in {w.text, Garbled} :
        /\ out' = [out EXCEPT ![w.path] = t]
        /\ (\A f \in MadeBy(w) : Sound(f)) => t = w.text
  BY DEF Write
<1> HIDE DEF w
<1>5. BuildInv'
  BY <1>1, BuildNextInv DEF GenInv
<1>6. GenTypeOK'
  <2>1. t \in TextType
    BY <1>3, <1>4, Texts
  <2>2. out' \in [Paths -> TextType \cup {NULL}]
    BY <1>3, <1>4, <2>1 DEF GenTypeOK
  <2>3. next' \in Nat
    <3>1. next \in Nat /\ next' = next + 1
      BY <1>1, <1>2
    <3> QED
      BY <3>1
  <2>4. UNCHANGED <<request, code, code_torn, exit, runs>>
    BY <1>1
  <2> QED
    BY <1>1, <2>2, <2>3, <2>4 DEF GenTypeOK
<1>7. RunInv'
  BY <1>1, <1>2 DEF RunInv, LibrarySound, Sound, Last
<1>8. CASE \E c \in 1..Len(Protos) : next = 2*c - 1
  <2>1. PICK c \in 1..Len(Protos) : next = 2*c - 1
    BY <1>8
  <2>2. w = [path |-> Header(NameOf(Protos[c])), text |-> Text("header", Protos[c])]
    BY <1>1, <2>1, ProtoWrites DEF w
  <2>3. ProtoSound => t = Text("header", Protos[c])
    <3>1. w.text = Text("header", Protos[c]) /\ w.text.kind \in {"header", "source"}
      BY <2>2 DEF Text
    <3>2. w.path # LibraryC /\ w.path # LibraryH
      BY <2>2, PathNames
    <3>3. MadeBy(w) = {parser, errors, c_source}
      BY <3>1, <3>2 DEF MadeBy
    <3> QED
      BY <1>4, <3>1, <3>3 DEF ProtoSound
  <2>4. out' = [out EXCEPT ![Header(NameOf(Protos[c]))] = t] /\ next' = 2*c
    BY <1>1, <1>4, <2>1, <2>2, RequestShape
  <2>5. ProtoInv' /\ CommonInv'
    BY <1>1, <2>1, <2>3, <2>4, HeaderWritten
  <2> QED
    BY <1>5, <1>6, <1>7, <2>5
<1>9. CASE \E c \in 1..Len(Protos) : next = 2*c
  <2>1. PICK c \in 1..Len(Protos) : next = 2*c
    BY <1>9
  <2>2. w = [path |-> Source(NameOf(Protos[c])), text |-> Text("source", Protos[c])]
    BY <1>1, <2>1, ProtoWrites DEF w
  <2>3. ProtoSound => t = Text("source", Protos[c])
    <3>1. w.text = Text("source", Protos[c]) /\ w.text.kind \in {"header", "source"}
      BY <2>2 DEF Text
    <3>2. w.path # LibraryC /\ w.path # LibraryH
      BY <2>2, PathNames
    <3>3. MadeBy(w) = {parser, errors, c_source}
      BY <3>1, <3>2 DEF MadeBy
    <3> QED
      BY <1>4, <3>1, <3>3 DEF ProtoSound
  <2>4. out' = [out EXCEPT ![Source(NameOf(Protos[c]))] = t] /\ next' = 2*c + 1
    BY <1>1, <1>4, <2>1, <2>2, RequestShape
  <2>5. ProtoInv' /\ CommonInv'
    BY <1>1, <2>1, <2>3, <2>4, SourceWritten
  <2> QED
    BY <1>5, <1>6, <1>7, <2>5
<1>10. CASE \E k \in 1..5 : next = 2 * Len(Protos) + k
  <2>1. PICK k \in 1..5 : next = 2 * Len(Protos) + k
    BY <1>10
  <2>2. ~code_torn \/ k \notin 2..3 => t = w.text
    <3>1. ~code_torn => Sound(pbtoolsC) /\ Sound(pbtoolsH)
      BY <1>1, Zenon DEF RunInv, LibrarySound
    <3>2. ASSUME k \in 2..3 => Sound(pbtoolsC) /\ Sound(pbtoolsH)
          PROVE  t = w.text
      BY <1>1, <1>4, <2>1, <3>2, CommonSound DEF w
    <3> QED
      BY <3>1, <3>2
  <2>3. CommonInv'
    BY <1>1, <1>4, <2>1, <2>2, CommonWritten DEF w
  <2>4. w.path \in {GitIgnore, LibraryC, LibraryH, Main, Makefile}
    BY <1>1, <2>1, CommonWrites DEF w
  <2>5. next > 2 * Len(Protos)
    BY <1>1, <2>1, RequestShape
  <2>6. ProtoInv'
    BY <1>1, <1>4, <2>4, <2>5, CommonKeepsProtos
  <2> QED
    BY <1>5, <1>6, <1>7, <2>3, <2>6
<1> QED
  BY <1>1, <1>2, <1>8, <1>9, <1>10, WriteCases

\* A call takes the package as it is, with what c_source.py vouches for.
LEMMA StartKeeps ==
  ASSUME GenInv, NEW req \in Requests, Start(req)
  PROVE  GenInv'
<1> USE DEF GenInv
<1>1. /\ request' = req /\ next' = 1 /\ opened' = FALSE /\ exit' = "running"
      /\ runs' = runs + 1 /\ UNCHANGED <<build_vars, out>>
      /\ code' = [f \in CodeFiles |-> package[f]]
      /\ \A f \in CodeFiles : Exists(f)
  BY DEF Start
<1>2. \A f \in CodeFiles : package[f] \in FileType
  BY <1>1 DEF BuildInv, BuildTypeOK, CodeFiles, Files, Exists
<1>3. code' \in [CodeFiles -> FileType]
  BY <1>1, <1>2
<1>4. BuildInv'
  BY <1>1, BuildNextInv DEF GenInv
<1>5. GenTypeOK'
  <2>1. out' = out /\ runs' \in Nat
    BY <1>1 DEF GenTypeOK
  <2>2. request' = req /\ next' = 1 /\ opened' = FALSE /\ exit' = "running"
    BY <1>1
  <2>3. code_torn' \in BOOLEAN
    BY Zenon DEF Start, BuildInv, BuildTypeOK
  <2> QED
    BY <1>3, <2>1, <2>2, <2>3 DEF GenTypeOK
<1>6. RunInv'
  <2>1. /\ code'[pbtoolsC] = package[pbtoolsC] /\ code'[pbtoolsH] = package[pbtoolsH]
        /\ code'[c_source] = package[c_source]
    BY <1>1 DEF CodeFiles
  <2>2. ASSUME ~torn
        PROVE  LibrarySound'
    <3>1. /\ Whole(pbtoolsC) /\ Whole(pbtoolsH)
          /\ package[pbtoolsC].made_from = package[c_source].made_from
          /\ package[pbtoolsH].made_from = package[c_source].made_from
      BY <1>1, <2>2 DEF BuildInv, ScriptFilesAgree, CodeFiles
    <3> QED
      BY <2>1, <3>1 DEF LibrarySound, Sound, Whole
  <2>3. code_torn' = torn
    BY DEF Start
  <2>4. ~code_torn' => LibrarySound'
    BY <2>2, <2>3
  <2>5. request' # NULL /\ next' = 1 /\ opened' = FALSE /\ exit' = "running"
    BY <1>1, GeneratorAssumption
  <2> QED
    BY <1>3, <2>4, <2>5 DEF RunInv
<1>7. ProtoInv' /\ CommonInv'
  <2>1. Len(Protos') \in Nat
    <3>1. req \in RequestType
      BY GeneratorAssumption
    <3> QED
      BY <1>1, <3>1 DEF Protos, RequestType
  <2> QED
    BY <1>1, <2>1 DEF ProtoInv, CommonInv
<1> QED
  BY <1>4, <1>5, <1>6, <1>7

\* The other steps leave what a call has written alone, but for the user's main.c.
LEMMA EditKeeps ==
  ASSUME GenInv, Edit
  PROVE  GenInv'
<1> USE DEF GenInv
<1>1. /\ UNCHANGED build_vars /\ UNCHANGED <<request, code, code_torn, next, opened, exit, runs>>
      /\ exit # "running" /\ out' = [out EXCEPT ![Main] = Edited]
  BY DEF Edit
<1>2. Main \in Paths /\ LibraryC # Main /\ LibraryH # Main /\ Makefile # Main
  BY PathNames
<1>3. BuildInv'
  BY <1>1, BuildNextInv DEF GenInv
<1>4. GenTypeOK'
  <2>1. out' \in [Paths -> TextType \cup {NULL}]
    BY <1>1, Texts DEF GenTypeOK
  <2> QED
    BY <1>1, <2>1 DEF GenTypeOK
<1>5. RunInv'
  BY <1>1 DEF RunInv, LibrarySound, Sound, Last
<1>6. out'[LibraryC] = out[LibraryC] /\ out'[LibraryH] = out[LibraryH]
        /\ out'[Makefile] = out[Makefile] /\ out'[Main] = Edited
  BY <1>1, <1>2 DEF GenTypeOK
<1>7. CommonInv'
  BY <1>1, <1>6 DEF CommonInv, ModuleOf, Protos
<1>8. ProtoInv'
  <2> SUFFICES ASSUME request # NULL, ProtoSound
               PROVE  /\ \A d \in 1..Len(Protos) : next = 2*d =>
                           out'[Header(NameOf(Protos[d]))] = Text("header", Protos[d])
                      /\ \A i \in 1..Len(Protos) :
                           2*i < next => FileWhole(i)' \/ BeingWritten(i)'
    BY <1>1 DEF ProtoInv, ProtoSound, Sound, Protos
  <2> request \in Requests
    BY DEF GenTypeOK
  <2>1. ASSUME NEW d \in 1..Len(Protos), next = 2*d
        PROVE  out'[Header(NameOf(Protos[d]))] = Text("header", Protos[d])
    <3>1. out[Header(NameOf(Protos[d]))] = Text("header", Protos[d])
      BY <2>1 DEF ProtoInv
    <3>2. Header(NameOf(Protos[d])) \in Paths /\ Header(NameOf(Protos[d])) # Main
      BY PathNames, RequestShape
    <3> QED
      BY <1>1, <3>1, <3>2 DEF GenTypeOK
  <2>2. ASSUME NEW i \in 1..Len(Protos), 2*i < next
        PROVE  FileWhole(i)' \/ BeingWritten(i)'
    <3>1. FileWhole(i) \/ BeingWritten(i)
      BY <2>2 DEF ProtoInv
    <3>2. BeingWritten(i) => BeingWritten(i)'
      BY <1>1 DEF BeingWritten, Protos
    <3>3. Main # Header(NameOf(Protos[i])) /\ Main # Source(NameOf(Protos[i]))
      BY PathNames
    <3>4. FileWhole(i) => FileWhole(i)'
      BY <1>1, <3>3, OthersWhole DEF GenTypeOK
    <3> QED
      BY <3>1, <3>2, <3>4
  <2> QED
    BY <2>1, <2>2
<1> QED
  BY <1>3, <1>4, <1>5, <1>7, <1>8

\* So does the end of a call, by an error or not.
LEMMA StopKeeps ==
  ASSUME GenInv, Fail \/ Exit
  PROVE  GenInv'
<1> USE DEF GenInv
<1>1. /\ UNCHANGED build_vars /\ UNCHANGED <<out, request, code, code_torn, next, opened, runs>>
      /\ exit = "running"
      /\ \/ exit' = "error"
         \/ exit' = "ok" /\ next = Last(request) + 1
  BY DEF Fail, Exit
<1>2. BuildInv'
  BY <1>1, BuildNextInv DEF GenInv
<1>3. GenTypeOK'
  BY <1>1 DEF GenTypeOK
<1>4. RunInv'
  <2>1. request # NULL /\ Last(request) \in Nat
    BY <1>1, Running
  <2>2. exit' = "ok" => ~opened
    BY <1>1, <2>1 DEF RunInv
  <2> QED
    BY <1>1, <2>1, <2>2 DEF RunInv, LibrarySound, Sound, Last
<1>5. ProtoInv'
  BY <1>1 DEF ProtoInv, ProtoSound, Sound, Protos, FileWhole, BeingWritten
<1>6. CommonInv'
  BY <1>1 DEF CommonInv, ModuleOf, Protos
<1> QED
  BY <1>2, <1>3, <1>4, <1>5, <1>6

\* A build leaves what a call has written alone.
LEMMA GenStutter ==
  ASSUME GenInv, UNCHANGED gen_vars, [BuildNext]_build_vars
  PROVE  GenInv'
<1>1. BuildInv'
  BY BuildNextInv DEF GenInv
<1>2. GenTypeOK'
  BY DEF GenInv, GenTypeOK, gen_vars
<1>3. RunInv'
  BY DEF GenInv, RunInv, gen_vars, LibrarySound, Sound, Last
<1>4. ProtoInv'
  BY DEF GenInv, ProtoInv, ProtoSound, Sound, Protos, FileWhole, BeingWritten, gen_vars
<1>5. CommonInv'
  BY DEF GenInv, CommonInv, ModuleOf, Protos, gen_vars
<1> QED
  BY <1>1, <1>2, <1>3, <1>4, <1>5 DEF GenInv

\* No call has been made.
LEMMA GenInitInv == GenInit => GenInv
<1> SUFFICES ASSUME GenInit
             PROVE  GenInv
  OBVIOUS
<1>1. BuildInv
  BY BuildInitInv DEF GenInit
<1>2. GenTypeOK
  BY DEF GenInit, GenTypeOK
<1>3. RunInv /\ ProtoInv /\ CommonInv
  BY DEF GenInit, RunInv, ProtoInv, CommonInv
<1> QED
  BY <1>1, <1>2, <1>3 DEF GenInv

\* Every step of the generator, the builds and the user keeps the invariant.
LEMMA GenNextInv == GenInv /\ [GenNext]_all_vars => GenInv'
<1> SUFFICES ASSUME GenInv, [GenNext]_all_vars
             PROVE  GenInv'
  OBVIOUS
<1>1. CASE \E req \in Requests : Start(req)
  BY <1>1, StartKeeps
<1>2. CASE Fail \/ Exit
  BY <1>2, StopKeeps
<1>3. CASE Open
  BY <1>3, OpenKeeps
<1>4. CASE Write
  BY <1>4, WriteKeeps
<1>5. CASE Edit
  BY <1>5, EditKeeps
<1>6. CASE (UserStep \/ MakeStep) /\ UNCHANGED gen_vars
  BY <1>6, GenStutter DEF BuildNext
<1>7. CASE UNCHANGED all_vars
  <2>1. UNCHANGED build_vars /\ UNCHANGED gen_vars
    BY <1>7 DEF all_vars
  <2> QED
    BY <2>1, GenStutter
<1> QED
  BY <1>1, <1>2, <1>3, <1>4, <1>5, <1>6, <1>7 DEF GenNext, GenStep

\* A library that a failed make left half written never looks made: c_source.py,
\* which make and the generator look for, exists only next to the whole library of
\* its version, whatever commands of make fail, whatever signals find no
\* c_source.py, and whatever the generator does between them.  After a signal that
\* finds one nothing is claimed until the script has run to its end again, which
\* makes the library whole however torn it was, or clean-app has been called.
THEOREM HalfMadePackage == GenSpec => []ScriptFilesAgree
<1>1. GenInv => ScriptFilesAgree
  BY DEF GenInv, BuildInv
<1> QED
  BY <1>1, GenInitInv, GenNextInv, PTL DEF GenSpec

\* A call that ends without error leaves one whole module of its arguments, for
\* any number of proto files, equal base names among them, in any directory; its
\* library is whole and of the version of the generated code unless the package
\* it was made with was torn by a signal.
THEOREM WholeModule == GenSpec => []SuccessIsWhole
<1>1. ASSUME GenInv
      PROVE  SuccessIsWhole
  <2> SUFFICES ASSUME exit = "ok", request # NULL
               PROVE  /\ out[Makefile] = Text("Makefile", ModuleOf(request))
                      /\ out[Main] \in {Text("main", ModuleOf(request)), Edited}
                      /\ ~code_torn =>
                           /\ out[LibraryC] = Text("library", code[c_source].made_from)
                           /\ out[LibraryH] = out[LibraryC]
                      /\ ProtoSound => ProtosWhole(request)
    BY DEF SuccessIsWhole, ProtoSound
  <2>1. request \in Requests /\ next \in Nat
    BY <1>1 DEF GenInv, GenTypeOK
  <2>2. next = 2 * Len(Protos) + 6 /\ Len(Protos) \in Nat
    BY <1>1, <2>1, RequestShape DEF GenInv, RunInv
  <2>3. /\ out[Makefile] = Text("Makefile", ModuleOf(request))
        /\ out[Main] \in {Text("main", ModuleOf(request)), Edited}
        /\ ~code_torn => /\ out[LibraryC] = Text("library", code[pbtoolsC].made_from)
                         /\ out[LibraryH] = Text("library", code[pbtoolsH].made_from)
    BY <1>1, <2>2 DEF GenInv, CommonInv
  <2>4. ~code_torn => /\ code[pbtoolsC].made_from = code[c_source].made_from
                      /\ code[pbtoolsH].made_from = code[c_source].made_from
    BY <1>1 DEF GenInv, RunInv, LibrarySound
  <2>5. ProtoSound => ProtosWhole(request)
    BY <1>1, <2>1, <2>2, AllWhole DEF GenInv, ProtosWhole, FileWhole, Protos
  <2> QED
    BY <2>3, <2>4, <2>5
<1> QED
  BY <1>1, GenInitInv, GenNextInv, PTL DEF GenSpec

\* The user's process_message is given up only by a call that has already made
\* everything it makes from the proto files.
THEOREM KeepsUserCode == GenSpec => UserCodeSurvives
<1> DEFINE Survives ==
      out[Main] = Edited /\ out'[Main] # Edited =>
        exit = "running" /\ (ProtoSound => ProtosWhole(request))
<1>1. ASSUME GenInv, [GenNext]_all_vars
      PROVE  Survives
  <2> USE DEF GenInv
  <2> SUFFICES ASSUME out[Main] = Edited, out'[Main] # Edited
               PROVE  exit = "running" /\ (ProtoSound => ProtosWhole(request))
    OBVIOUS
  <2>1. Open \/ Write
    <3>1. out' # out
      OBVIOUS
    <3>2. ~ \E req \in Requests : Start(req)
      BY <3>1 DEF Start
    <3>3. ~Fail /\ ~Exit
      BY <3>1 DEF Fail, Exit
    <3>4. ~Edit
      BY PathNames DEF Edit, GenTypeOK
    <3>5. ~UNCHANGED gen_vars /\ ~UNCHANGED all_vars
      BY <3>1 DEF gen_vars, all_vars
    <3> QED
      BY <1>1, <3>2, <3>3, <3>4, <3>5 DEF GenNext, GenStep
  <2>2. exit = "running"
    BY <2>1 DEF Open, Write
  <2>3. request \in Requests /\ Last(request) \in Nat /\ next \in Nat \ {0} /\ next <= Last(request)
    <3>1. request \in Requests /\ Last(request) \in Nat /\ request # NULL
      BY <1>1, <2>2, Running
    <3> QED
      BY <1>1, <2>1, <3>1 DEF GenTypeOK, RunInv, Open, Write
  <2>4. WriteAt(request, next).path = Main
    <3> DEFINE p == WriteAt(request, next).path
    <3>1. \E t : out' = [out EXCEPT ![p] = t]
      BY <2>1 DEF Open, Write
    <3> HIDE DEF p
    <3>2. PICK t : out' = [out EXCEPT ![p] = t]
      BY <3>1
    <3>3. Main \in DOMAIN out
      BY <1>1, PathNames DEF GenTypeOK
    <3>4. p = Main
      BY <3>2, <3>3
    <3> QED
      BY <3>4 DEF p
  <2>5. next > 2 * Len(Protos)
    <3>1. ~ \E c \in 1..Len(Protos) : next = 2*c - 1
      <4> SUFFICES ASSUME NEW c \in 1..Len(Protos), next = 2*c - 1
                   PROVE  FALSE
        OBVIOUS
      <4>1. WriteAt(request, next)
              = [path |-> Header(NameOf(Protos[c])), text |-> Text("header", Protos[c])]
        BY <2>3, ProtoWrites
      <4> QED
        BY <2>4, <4>1, PathNames
    <3>2. ~ \E c \in 1..Len(Protos) : next = 2*c
      <4> SUFFICES ASSUME NEW c \in 1..Len(Protos), next = 2*c
                   PROVE  FALSE
        OBVIOUS
      <4>1. WriteAt(request, next)
              = [path |-> Source(NameOf(Protos[c])), text |-> Text("source", Protos[c])]
        BY <2>3, ProtoWrites
      <4> QED
        BY <2>4, <4>1, PathNames
    <3>3. PICK k \in 1..5 : next = 2 * Len(Protos) + k
      BY <2>3, <3>1, <3>2, WriteCases
    <3> QED
      BY <2>3, <3>3, RequestShape
  <2>6. ProtoSound => ProtosWhole(request)
    BY <1>1, <2>3, <2>5, AllWhole DEF ProtosWhole, FileWhole, Protos
  <2> QED
    BY <2>2, <2>6
<1>2. GenInv /\ [GenNext]_all_vars => [Survives]_all_vars
  BY <1>1
<1>3. [][Survives]_all_vars => UserCodeSurvives
  BY PTL DEF UserCodeSurvives, ProtoSound
<1> QED
  BY <1>2, <1>3, GenInitInv, GenNextInv, PTL DEF GenSpec

=============================================================================
