--------------------------- MODULE InstrumentPhase ---------------------------
(***************************************************************************)
(* The build that follows RuleMatching.  go runs every compile command     *)
(* through the tool, which reads the stored rule sets, takes one by the    *)
(* import path of the command, and before it compiles writes changed files *)
(* to the work directory of the command and puts them into its arguments.  *)
(*                                                                         *)
(* The commands run side by side, each a process of its own with a work    *)
(* directory of its own; all read the stored sets and none writes them, so *)
(* the model follows one of them.                                          *)
(***************************************************************************)
EXTENDS RuleMatching

CONSTANT Layout  \* the layouts there may be, for each command

VARIABLES
  layout,     \* name, the base name of each source file of each command; ends,
              \* the pairs of names of which the first ends with the second;
              \* cgo, the commands with C; for each file rule base, the base
              \* name of its file, and text, the rules that fit what its file
              \* declares; replace, the file rules that replace a file
  cmd,        \* the command
  step,       \* "none", "apply", "done" or "failed", when the build fails
  set,        \* the command whose rule set it takes, or NoSet
  left,       \* the file rules still to be applied
  files,      \* the source files still to be changed
  args,       \* the go files in the arguments, as paths
  complete,   \* the flag -complete is among the arguments
  disk,       \* what the files in the work directory contain
  relocated   \* the file that stands for a file

toolexec == <<layout, cmd, step, set, left, files, args, complete, disk, relocated>>

NoCmd == "no command"
NoSet == "no rule set"
NoLayout == <<>>
Added == "added"          \* otel_inst_file_NAME in the work directory
Written == "written"      \* NAME in the work directory
OtelGlobalsFile == "otel.globals.go"

\* The source files of a command are in one directory, and the name of the file
\* that the tool adds is its own.
ASSUME LayoutAssumption ==
  /\ {Added, Written, NoCmd, NoSet} \intersect Cmd = {}
  /\ \A c \in Cmd : \A l \in Layout[c] :
       /\ \A p \in Project : Len(l.name[c]) = Len(p.decl[c])
       /\ \A k \in 1 .. Len(l.name[c]) :
            /\ l.name[c][k] # OtelGlobalsFile
            /\ \A j \in 1 .. Len(l.name[c]) : l.name[c][j] = l.name[c][k] => j = k

\* The map f with y for x.
Entered(f, x, y) == [z \in DOMAIN f \union {x} |-> IF z = x THEN y ELSE f[z]]

File(of, name) == [of |-> of, name |-> name]
Source(c, k) == File(c, layout.name[c][k])

\* What a file contains: what it was made from, the rules that fit what it
\* declares, and those applied to it.
Text(from, decl) == [from |-> from, decl |-> decl, applied |-> {}]
Contents(p) ==
  IF p \in DOMAIN disk THEN disk[p]
  ELSE Text(p, project.decl[p.of][CHOOSE k \in 1 .. Len(layout.name[p.of]) :
                                    layout.name[p.of][k] = p.name])

FileRules(c) == {r \in RulesIn(c) : attr[r].kind = "file"}

\* groupRules: of each source file the func and struct rules that took it.
CodeRules(c, k) == {r \in result[c][k] : attr[r].kind # "file"}
-----------------------------------------------------------------------------
BuildInit ==
  /\ Init
  /\ layout = NoLayout
  /\ cmd = NoCmd /\ step = "none" /\ set = NoSet
  /\ left = {} /\ files = {} /\ args = <<>> /\ complete = TRUE
  /\ disk = <<>> /\ relocated = <<>>

\* match: the first stored set with the import path of the command.
Fitting(c) == {i \in 1 .. Len(bundles) : ImportPath[bundles[i]] = ImportPath[c]}

Smallest(S) == CHOOSE i \in S : \A j \in S : i <= j

Taken(c) == bundles[Smallest(Fitting(c))]

\* interceptCompile, up to instrument.  What the files are called and contain
\* is looked at here for the first time.
Intercept(c) ==
  /\ pc = "stored" /\ step = "none" /\ c \in Commands
  /\ cmd' = c
  /\ layout' \in Layout[c]
  /\ args' = [k \in 1 .. Len(project.decl[c]) |-> File(c, layout'.name[c][k])]
  /\ IF Fitting(c) = {}
     THEN step' = "done" /\ UNCHANGED <<set, left, files>>
     ELSE /\ step' = "apply" /\ set' = Taken(c)
          /\ left' = FileRules(Taken(c))
          /\ files' = {k \in 1 .. Len(result[Taken(c)]) : CodeRules(Taken(c), k) # {}}
  /\ UNCHANGED <<vars, complete, disk, relocated>>

Fail ==
  /\ step' = "failed"
  /\ UNCHANGED <<set, left, files, args, complete, disk, relocated>>

EndsWith(p, name) == p.name = name \/ <<p.name, name>> \in layout.ends

\* Mutant: the paths of the arguments are looked for as they were.
TryRelocatedNever(p) == p

\* tryRelocated
TryRelocated(p) == IF p \in DOMAIN relocated THEN relocated[p] ELSE p

\* replaceCompileArg
ReplaceCompileArg(i, p) ==
  /\ args' = [args EXCEPT ![i] = p]
  /\ relocated' = Entered(relocated, args[i], p)

\* applyFileRule: a file that replaces another takes the place of the first
\* argument that ends with its name.
ApplyFileRule ==
  /\ step = "apply" /\ left # {}
  /\ LET r == FirstOf(left)
         p == File(Added, layout.base[r])
         Named == {i \in 1 .. Len(args) : EndsWith(args[i], layout.base[r])}
     IN  \/ /\ r \notin layout.replace
            /\ args' = Append(args, p)
            /\ disk' = Entered(disk, p, Text(p, layout.text[r]))
            /\ UNCHANGED relocated
         \/ /\ r \in layout.replace /\ Named # {}
            /\ ReplaceCompileArg(Smallest(Named), p)
            /\ disk' = Entered(disk, p, Text(p, layout.text[r]))
  /\ left' = left \ {FirstOf(left)}
  /\ UNCHANGED <<vars, layout, cmd, step, set, files, complete>>

ApplyFileRuleFails ==
  /\ step = "apply" /\ left # {} /\ FirstOf(left) \in layout.replace
  /\ \A i \in 1 .. Len(args) : ~ EndsWith(args[i], layout.base[FirstOf(left)])
  /\ Fail /\ UNCHANGED <<vars, layout, cmd>>

\* findSourceFile: cgo has put another file into the arguments, of which only
\* the name is known; the path is then that of an argument, if there is one.
SourceFiles(k) ==
  IF set \notin layout.cgo THEN {Source(set, k)}
  ELSE LET Named == {i \in 1 .. Len(args) : EndsWith(args[i], layout.name[set][k])}
       IN  IF Named = {} THEN {} ELSE {args[Smallest(Named)]}

\* instrument, for one file: parseAst, applyFuncRule and applyStructRule, whose
\* target must be there, and writeInstrumented, whose argument must be there.
Instrumentable(k) == \E p \in SourceFiles(k) :
  /\ CodeRules(set, k) \subseteq Contents(TryRelocated(p)).decl
  /\ \E i \in 1 .. Len(args) : args[i] = TryRelocated(p)

InstrumentFile(k) ==
  /\ step = "apply" /\ left = {} /\ k \in files /\ Instrumentable(k)
  /\ \E f \in SourceFiles(k) :
       LET p == TryRelocated(f)
           q == IF p.of = Added THEN p ELSE File(Written, p.name)
           t == Contents(p)
       IN  /\ disk' = Entered(disk, q, [t EXCEPT !.applied = @ \union CodeRules(set, k)])
           /\ ReplaceCompileArg(Smallest({i \in 1 .. Len(args) : args[i] = p}), q)
  /\ files' = files \ {k}
  /\ UNCHANGED <<vars, layout, cmd, step, set, left, complete>>

InstrumentFileFails(k) ==
  /\ step = "apply" /\ left = {} /\ k \in files /\ ~ Instrumentable(k)
  /\ Fail /\ UNCHANGED <<vars, layout, cmd>>

HasFuncRule ==
  \E k \in 1 .. Len(result[set]) : \E r \in CodeRules(set, k) : attr[r].kind # "struct"

\* writeGlobals, and stripCompleteFlag.
Finish ==
  /\ step = "apply" /\ left = {} /\ files = {}
  /\ LET p == File(Written, OtelGlobalsFile)
     IN  IF HasFuncRule
         THEN args' = Append(args, p) /\ disk' = Entered(disk, p, Text(p, {}))
         ELSE UNCHANGED <<args, disk>>
  /\ complete' = FALSE
  /\ step' = "done"
  /\ UNCHANGED <<vars, layout, cmd, set, left, files, relocated>>

BuildNext ==
  \/ Next /\ UNCHANGED toolexec
  \/ \E c \in Cmd : Intercept(c)
  \/ ApplyFileRule \/ ApplyFileRuleFails \/ Finish
  \/ \E k \in files : InstrumentFile(k) \/ InstrumentFileFails(k)

\* The tool goes on, and go with it.
BuildSpec ==
  BuildInit /\ [][BuildNext]_<<vars, toolexec>> /\ WF_<<vars, toolexec>>(BuildNext)
-----------------------------------------------------------------------------
(* Properties.                                                             *)

FilesFrom(x) == {i \in 1 .. Len(args) : Contents(args[i]).from = x}
Own == 1 .. Len(project.decl[cmd])

\* Two file rules have files of one name, or the first file that ends with a
\* name asked for has another one.
Confused ==
  LET R == FileRules(cmd)
      Wanted == {layout.base[r] : r \in R \intersect layout.replace}
                  \union IF cmd \in layout.cgo THEN {layout.name[cmd][k] : k \in Own} ELSE {}
  IN  \/ \E q, r \in R : q # r /\ layout.base[q] = layout.base[r]
      \/ \E n \in Wanted : \A k \in Own : layout.name[cmd][k] # n
      \/ \E n \in Wanted : \E k \in Own : <<layout.name[cmd][k], n>> \in layout.ends

AddedBy(r) == FilesFrom(File(Added, layout.base[r]))
ReplacedBy(k) == {r \in FileRules(cmd) \intersect layout.replace :
                    layout.base[r] = layout.name[cmd][k]}

\* The compiler gets what was matched: each source file once, or the file that
\* replaces it; each func and struct rule applied once, in the file that then
\* stands for the one it took; each file of a file rule; and the globals that
\* hooks need if there are hooks.  The build fails only if a rule's target is
\* not in the file that replaces it.  This is so for a command that has its
\* import path for itself, as all but main packages have, unless names of files
\* are confused.
CompiledAsMatched ==
  step \in {"done", "failed"} /\ set \in {cmd, NoSet} =>
    /\ set = NoSet => step = "done" /\ ~ IsValid(result[cmd]) /\ args = [k \in Own |-> Source(cmd, k)]
    /\ set = cmd /\ ~ Confused =>
         /\ step = "failed" => \E k \in Own : \E r \in ReplacedBy(k) :
                                ~ CodeRules(cmd, k) \subseteq layout.text[r]
         /\ step = "done" =>
              /\ \A k \in Own :
                   IF ReplacedBy(k) = {} THEN Cardinality(FilesFrom(Source(cmd, k))) = 1
                   ELSE FilesFrom(Source(cmd, k)) = {}
              /\ \A r \in FileRules(cmd) : Cardinality(AddedBy(r)) = 1
              /\ \A k \in Own : \A r \in CodeRules(cmd, k) :
                   \E i \in FilesFrom(Source(cmd, k)) \union UNION {AddedBy(q) : q \in ReplacedBy(k)} :
                     {j \in 1 .. Len(args) : r \in Contents(args[j]).applied} = {i}
              /\ FilesFrom(File(Written, OtelGlobalsFile)) # {} <=> HasFuncRule
              /\ complete => ~ HasFuncRule
=============================================================================
