--------------------------- MODULE BuildLifecycle ---------------------------
(***************************************************************************)
(* What "otel go build" does to the project it builds.  A run backs up     *)
(* go.mod, go.sum and go.work.sum, edits them, writes otel.runtime.go,     *)
(* matches rules in rounds, stores the matched rules, starts the real      *)
(* build, and puts the files back in a deferred call.  Any step may fail,  *)
(* which still runs that call, and the process may die at any point (a     *)
(* kill, or os.Exit in ex.Fatal and util.Assert), which does not.  Runs    *)
(* follow each other; SIGINT and SIGTERM do no more than let the go        *)
(* command that is running fail.                                           *)
(*                                                                         *)
(* The content of a file is the set of runs whose edits it holds.          *)
(***************************************************************************)
EXTENDS Integers

CONSTANTS
  MaxRuns,  \* bound: the number of runs
  Absent,   \* the file does not exist
  Torn      \* the file is truncated or written in part

ASSUME LifecycleAssumption ==
  /\ MaxRuns \in Nat
  /\ Absent # Torn /\ Absent # {} /\ Torn # {}

File == {"go.mod", "go.sum", "go.work.sum"}
Content == (SUBSET (1 .. MaxRuns)) \union {Absent, Torn}
Untouched == {}

\* The state between runs: the last one restored the files ("clean"), was in
\* debug mode, ended before it touched anything ("early"), failed to restore
\* ("broken") or died; or another command of the tool ran since ("idle").
Rest == {"idle", "clean", "debug", "early", "broken", "dead"}

Outcome == {"ok", "error", "dies"}

VARIABLES
  tree,        \* the project's files
  vendor,      \* the project's vendor directory
  runtime,     \* otel.runtime.go
  pkg,         \* .otel-build/alibaba-pkg, where go.mod points to without -pkg
  shared,      \* the directory of -pkg, where go.mod points to with it
  matched,     \* .otel-build/matched.json
  backup,      \* .otel-build/preprocess/backups
  stage,       \* the step of the run, or a member of Rest
  round,       \* the round of rule matching
  backups,     \* memory: the files backed up
  restored,    \* memory: the files restored
  debug,       \* the run was configured with -debug
  sharing,     \* the run was configured with -pkg
  vendorMode,  \* the run uses the vendor directory
  run,         \* the number of the run
  before,      \* history: the files when the run started
  foundPkg     \* history: the directory of -pkg when the run started

memory == <<backups, restored, debug, sharing, vendorMode, run, before, foundPkg>>
lifecycleVars == <<tree, vendor, runtime, pkg, shared, matched, backup, stage, round,
                   backups, restored, debug, sharing, vendorMode, run, before, foundPkg>>

LifecycleInit ==
  /\ tree \in {t \in [File -> {Untouched, Absent}] : t["go.mod"] = Untouched}
  /\ vendor \in {Untouched, Absent}
  /\ shared \in {Untouched, Absent}    \* of another version of the tool, or none
  /\ runtime = Absent /\ pkg = Absent /\ matched = Absent
  /\ backup = [f \in File |-> Absent]
  /\ stage = "idle"
  /\ round = 0
  /\ backups = {} /\ restored = {}
  /\ debug = FALSE /\ sharing = FALSE /\ vendorMode = FALSE
  /\ run = 0
  /\ before = tree /\ foundPkg = shared

Edited(c) == IF c = Torn THEN Torn ELSE (IF c = Absent THEN {} ELSE c) \union {run}

\* What a write of new over old leaves behind.
Written(o, old, new) == IF o = "ok" THEN {new} ELSE {old, Torn, new}

\* A step that fails returns through the deferred postProcess.
After(o, next) == [ok |-> next, error |-> "post", dies |-> "dead"][o]
-----------------------------------------------------------------------------
\* initTempDir empties .otel-build/preprocess, with the backups in it, and
\* keeps matched.json.
Start(d, p) ==
  /\ stage \in Rest /\ run < MaxRuns
  /\ run' = run + 1
  /\ before' = tree /\ foundPkg' = shared
  /\ backup' = [f \in File |-> Absent]
  /\ backups' = {} /\ restored' = {}
  /\ debug' = d /\ sharing' = p /\ vendorMode' = FALSE
  /\ round' = 0
  /\ stage' = "init"
  /\ UNCHANGED <<tree, vendor, runtime, pkg, shared, matched>>

\* "otel set" and "otel version" empty the directory as well.
OtherCommand ==
  /\ stage \in Rest
  /\ backup' = [f \in File |-> Absent]
  /\ stage' = "idle"
  /\ UNCHANGED <<tree, vendor, runtime, pkg, shared, matched, round, memory>>

\* Mutant: with -pkg, too, each run extracts the module anew.
FindAnew ==
  IF sharing THEN shared' = {run} /\ UNCHANGED pkg
             ELSE pkg' = {run} /\ UNCHANGED shared

\* findPkgModDir: without -pkg the embedded module is removed and extracted; with
\* it, what exists at the path is used as it is, whoever put it there and whether
\* it is complete.
FindPkgModDir ==
  IF sharing THEN /\ shared' = IF shared = Absent THEN {run} ELSE shared
                  /\ UNCHANGED pkg
             ELSE pkg' = {run} /\ UNCHANGED shared

\* init, when it succeeds; an argument -mod=mod makes the run ignore the vendor
\* directory.
InitRun ==
  /\ stage = "init" /\ tree["go.mod"] # Torn
  /\ FindPkgModDir
  /\ vendorMode' \in {FALSE, vendor # Absent}
  /\ stage' = "backup"
  /\ UNCHANGED <<tree, vendor, runtime, matched, backup, round, backups,
                 restored, debug, sharing, run, before, foundPkg>>

\* It fails, perhaps in the middle of the extraction: Preprocess returns before it
\* has deferred postProcess, or the process dies.
InitFails(o) ==
  /\ stage = "init"
  /\ \/ UNCHANGED <<pkg, shared>>
     \/ ~sharing /\ pkg' \in {Absent, Torn, {run}} /\ UNCHANGED shared
     \/ sharing /\ shared = Absent /\ shared' \in {Torn, {run}} /\ UNCHANGED pkg
  /\ stage' = [error |-> "early", dies |-> "dead"][o]
  /\ UNCHANGED <<tree, vendor, runtime, matched, backup, round, memory>>

\* The files that exist and are not backed up yet.
ToBackUp == {f \in File : tree[f] # Absent} \ backups

\* Mutant: the file is registered before it is copied.
BackupFileRegistersFirst(f, o) ==
  /\ stage = "backup" /\ f \in ToBackUp
  /\ \E c \in Written(o, backup[f], tree[f]) : backup' = [backup EXCEPT ![f] = c]
  /\ backups' = backups \union {f}
  /\ stage' = After(o, "backup")
  /\ UNCHANGED <<tree, vendor, runtime, pkg, shared, matched, round, restored, debug,
                 sharing, vendorMode, run, before, foundPkg>>

\* backupFile; only a complete copy is registered.
BackupFile(f, o) ==
  /\ stage = "backup" /\ f \in ToBackUp
  /\ \E c \in Written(o, backup[f], tree[f]) : backup' = [backup EXCEPT ![f] = c]
  /\ backups' = IF o = "ok" THEN backups \union {f} ELSE backups
  /\ stage' = After(o, "backup")
  /\ UNCHANGED <<tree, vendor, runtime, pkg, shared, matched, round, restored, debug,
                 sharing, vendorMode, run, before, foundPkg>>

\* The rest of updateGoMod: go.mod gets its requires and replaces, and the
\* replace of the pkg module is written whether it was there or not.
UpdateGoMod(o) ==
  /\ stage = "backup" /\ ToBackUp = {}
  /\ \E c \in Written(o, tree["go.mod"], Edited(tree["go.mod"])) :
       tree' = [tree EXCEPT !["go.mod"] = c]
  /\ stage' = After(o, "deps")
  /\ UNCHANGED <<vendor, runtime, pkg, shared, matched, backup, round, memory>>

\* newDeps writes otel.runtime.go and, in a round with matched rules, adds
\* what they import to go.mod.
NewDeps(o) ==
  /\ stage = "deps"
  /\ \E c \in Written(o, runtime, {run}) : runtime' = c
  /\ \/ UNCHANGED tree
     \/ /\ round > 0
        /\ \E c \in Written(o, tree["go.mod"], Edited(tree["go.mod"])) :
             tree' = [tree EXCEPT !["go.mod"] = c]
  /\ stage' = After(o, "sync")
  /\ UNCHANGED <<vendor, pkg, shared, matched, backup, round, memory>>

\* Mutant: the last round is one later.
SyncDepsOneMore(o) ==
  /\ stage = "sync"
  /\ \E F \in SUBSET ({f \in File : tree[f] # Absent} \union {"go.sum"}) :
       tree' = [f \in File |-> IF f \in F THEN Edited(tree[f]) ELSE tree[f]]
  /\ UNCHANGED vendor
  /\ stage' = After(o, IF round = 3 THEN "update" ELSE "match")
  /\ UNCHANGED <<runtime, pkg, shared, matched, backup, round, memory>>

\* go mod tidy and, in vendor mode, go mod vendor; the go command replaces
\* files as a whole and creates go.sum.
SyncDeps(o) ==
  /\ stage = "sync"
  /\ \E F \in SUBSET ({f \in File : tree[f] # Absent} \union {"go.sum"}) :
       tree' = [f \in File |-> IF f \in F THEN Edited(tree[f]) ELSE tree[f]]
  /\ IF vendorMode THEN \E c \in Written(o, vendor, Edited(vendor)) : vendor' = c
     ELSE UNCHANGED vendor
  /\ stage' = After(o, IF round = 2 THEN "update" ELSE "match")
  /\ UNCHANGED <<runtime, pkg, shared, matched, backup, round, memory>>

\* matchRules runs a dry build and changes no file of the project.
MatchRules(o) ==
  /\ stage = "match"
  /\ round' = round + 1
  /\ stage' = After(o, "deps")
  /\ UNCHANGED <<tree, vendor, runtime, pkg, shared, matched, backup, memory>>

\* updateRule changes rules in memory only.
UpdateRule(o) ==
  /\ stage = "update"
  /\ stage' = After(o, "store")
  /\ UNCHANGED <<tree, vendor, runtime, pkg, shared, matched, backup, round, memory>>

Store(o) ==
  /\ stage = "store"
  /\ \E c \in Written(o, matched, {run}) : matched' = c
  /\ stage' = After(o, "build")
  /\ UNCHANGED <<tree, vendor, runtime, pkg, shared, backup, round, memory>>

\* The build; the toolexec processes it starts read matched.json.
Build(o) ==
  /\ stage = "build"
  /\ stage' = After(o, "post")
  /\ UNCHANGED <<tree, vendor, runtime, pkg, shared, matched, backup, round, memory>>

PostProcess ==
  /\ stage = "post"
  /\ IF debug
     THEN stage' = "debug" /\ UNCHANGED <<runtime, pkg>>
     ELSE stage' = "restore" /\ runtime' = Absent /\ pkg' = Absent
  /\ UNCHANGED <<tree, vendor, shared, matched, backup, round, memory>>

\* restoreBackupFiles goes through a map and stops at the first error, which
\* postProcess ignores.
RestoreFile(f, o) ==
  /\ stage = "restore" /\ f \in backups \ restored
  /\ \E c \in Written(o, tree[f], backup[f]) : tree' = [tree EXCEPT ![f] = c]
  /\ restored' = restored \union {f}
  /\ stage' = [ok |-> "restore", error |-> "broken", dies |-> "dead"][o]
  /\ UNCHANGED <<vendor, runtime, pkg, shared, matched, backup, round, backups, debug,
                 sharing, vendorMode, run, before, foundPkg>>

RestoreDone ==
  /\ stage = "restore" /\ backups \subseteq restored
  /\ stage' = "clean"
  /\ UNCHANGED <<tree, vendor, runtime, pkg, shared, matched, backup, round, memory>>

\* The process dies between two steps.
Die ==
  /\ stage \notin Rest
  /\ stage' = "dead"
  /\ UNCHANGED <<tree, vendor, runtime, pkg, shared, matched, backup, round, memory>>

Step(o) == \/ \E f \in File : BackupFile(f, o) \/ RestoreFile(f, o)
           \/ UpdateGoMod(o) \/ NewDeps(o) \/ SyncDeps(o) \/ MatchRules(o)
           \/ UpdateRule(o) \/ Store(o) \/ Build(o)

LifecycleNext == \/ \E d, p \in BOOLEAN : Start(d, p)
                 \/ OtherCommand
                 \/ InitRun \/ \E o \in {"error", "dies"} : InitFails(o)
                 \/ \E o \in Outcome : Step(o)
                 \/ PostProcess \/ RestoreDone \/ Die

LifecycleSpec == LifecycleInit /\ [][LifecycleNext]_lifecycleVars
-----------------------------------------------------------------------------
(* Properties.                                                             *)

\* Every variable has its type; a run has at most three rounds.
LifecycleTypeOK ==
  /\ tree \in [File -> Content] /\ before \in [File -> Content]
  /\ backup \in [File -> Content]
  /\ vendor \in Content /\ runtime \in Content /\ pkg \in Content /\ matched \in Content
  /\ shared \in Content /\ foundPkg \in Content
  /\ stage \in Rest \union {"init", "backup", "deps", "sync", "match", "update",
                            "store", "build", "post", "restore"}
  /\ round \in 0 .. 2
  /\ backups \subseteq File /\ restored \subseteq File
  /\ debug \in BOOLEAN /\ sharing \in BOOLEAN /\ vendorMode \in BOOLEAN
  /\ run \in 0 .. MaxRuns

\* A run that ends by itself, wherever it failed, leaves every file that it
\* found as it found it, and nothing of its own beside it.  It may leave a
\* go.sum that was not there, the vendor directory of its go.mod and the -pkg one.
Restored ==
  /\ stage = "clean" => /\ \A f \in File : before[f] # Absent => tree[f] = before[f]
                        /\ runtime = Absent /\ pkg = Absent
  /\ stage = "early" => tree = before

\* From the start of a run until the next command of the tool, what a file
\* held when the run started exists: in place, or whole in the backups; also
\* when the process dies in the middle of a copy.
Recoverable == stage # "idle" =>
  \A f \in File : before[f] # Absent => before[f] \in {tree[f], backup[f]}

\* What a run finds is never lost: it exists as long as the run may still put
\* it back, and a run that ends by itself has put it back.
FilesSafe == Restored /\ Recoverable

\* The real build sees what this run prepared, whatever earlier runs left: its
\* rules, its otel.runtime.go, its edits of go.mod, and its pkg module.  With -pkg
\* the module is one for all builds that share the directory: what the run found
\* there, else its own, and a directory that exists never changes again.
BuildSeesThisRun ==
  /\ stage = "build" =>
       /\ matched = {run} /\ runtime = {run} /\ run \in tree["go.mod"]
       /\ IF sharing THEN shared = IF foundPkg = Absent THEN {run} ELSE foundPkg
                     ELSE pkg = {run}
  /\ foundPkg # Absent => shared = foundPkg
=============================================================================
