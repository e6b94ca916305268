---------------------------- MODULE BuildProofs -----------------------------
(* Proofs about BuildLifecycle, for any number of runs, and about Trampoline, *)
(* for any number of func rules on a function.                             *)
EXTENDS BuildLifecycle, Trampoline, SequenceTheorems, TLAPS

(* The life of a build.                                                    *)

\* A step of a run belongs to a run, and matching to one of the first rounds.
Running == /\ stage \notin Rest => run \in 1 .. MaxRuns
           /\ stage = "match" => round \in 0 .. 1

Types == LifecycleTypeOK /\ Running

\* Until the backups are wiped, a registered one is what the run found.
BackedUp == stage # "idle" => \A f \in backups : backup[f] = before[f]

\* A file that is not registered has not been touched.
OthersIntact == stage # "idle" =>
  \A f \in File \ backups : before[f] # Absent => tree[f] = before[f]

\* Nothing is edited before all that exists is registered.
EditsAfterBackups ==
  /\ stage \in {"init", "backup", "early"} => tree = before
  /\ stage \in {"deps", "sync", "match", "update", "store", "build"} =>
       \A f \in File : before[f] # Absent => f \in backups

\* The restore loop puts back what it has gone through.
RestoreLoop ==
  /\ stage \in {"init", "backup", "deps", "sync", "match", "update", "store",
                "build", "post"} => restored = {}
  /\ stage \in {"restore", "clean"} =>
       /\ \A f \in restored : tree[f] = backup[f]
       /\ runtime = Absent /\ pkg = Absent
  /\ stage = "clean" => backups \subseteq restored

SafeInv == BackedUp /\ OthersIntact /\ EditsAfterBackups /\ RestoreLoop

\* What the steps up to the build have prepared.
PreparedInv ==
  /\ stage = "backup" => tree["go.mod"] # Torn
  /\ foundPkg # Absent => shared = foundPkg
  /\ stage = "init" => shared = foundPkg
  /\ stage \in {"backup", "deps", "sync", "match", "update", "store", "build"} =>
       IF sharing THEN shared = IF foundPkg = Absent THEN {run} ELSE foundPkg
                  ELSE pkg = {run}
  /\ stage \in {"deps", "sync", "match", "update", "store", "build"} => run \in tree["go.mod"]
  /\ stage \in {"sync", "match", "update", "store", "build"} => runtime = {run}
  /\ stage = "build" => matched = {run}

\* An edit of a file is one of this run, and of no torn file.
LEMMA EditedContent ==
  ASSUME run \in 1 .. MaxRuns, NEW c \in Content
  PROVE  /\ Edited(c) \in Content
         /\ c # Torn \/ run \in c => run \in Edited(c)
<1>1. CASE c = Torn
  BY <1>1 DEF Edited
<1>2. CASE c # Torn /\ c = Absent
  <2>1. Edited(c) = {run}
    BY <1>2 DEF Edited
  <2> QED BY <2>1 DEF Content
<1>3. CASE c # Torn /\ c # Absent
  <2>1. c \in SUBSET (1 .. MaxRuns)
    BY <1>3 DEF Content
  <2>2. Edited(c) = c \union {run}
    BY <1>3 DEF Edited
  <2>3. c \union {run} \in SUBSET (1 .. MaxRuns)
    BY <2>1
  <2> QED BY <2>2, <2>3 DEF Content
<1> QED BY <1>1, <1>2, <1>3

\* A failed write leaves the old content, the new, or a torn file.
LEMMA WrittenContent ==
  ASSUME NEW o \in Outcome, NEW old \in Content, NEW new \in Content, NEW c \in Written(o, old, new)
  PROVE  c \in Content /\ (o = "ok" => c = new)
BY DEF Written, Content

LEMMA AfterStep ==
  ASSUME NEW o \in Outcome, NEW next
  PROVE  /\ o = "ok" => After(o, next) = next
         /\ o # "ok" => After(o, next) \in {"post", "dead"}
BY DEF After, Outcome

LEMMA TypesInit == LifecycleInit => Types
<1> SUFFICES ASSUME LifecycleInit
             PROVE  Types
  OBVIOUS
<1>1. Untouched \in Content /\ Absent \in Content
  BY DEF Untouched, Content
<1>2. tree \in [File -> Content]
  BY <1>1 DEF LifecycleInit
<1>3. debug \in BOOLEAN /\ vendorMode \in BOOLEAN
  BY DEF LifecycleInit
<1>4. /\ stage \in Rest /\ stage # "match" /\ run \in 0 .. MaxRuns /\ round \in 0 .. 2
      /\ backups \subseteq File /\ restored \subseteq File
  BY LifecycleAssumption DEF LifecycleInit, Rest
<1>5. /\ before \in [File -> Content] /\ backup \in [File -> Content]
      /\ vendor \in Content /\ runtime \in Content /\ pkg \in Content /\ matched \in Content
  BY <1>1, <1>2 DEF LifecycleInit
<1>6. shared \in Content /\ foundPkg \in Content /\ sharing \in BOOLEAN
  BY <1>1 DEF LifecycleInit
<1> QED BY <1>2, <1>3, <1>4, <1>5, <1>6 DEF Types, LifecycleTypeOK, Running

\* Every step keeps the types.
LEMMA TypesNext == Types /\ [LifecycleNext]_lifecycleVars => Types'
<1> SUFFICES ASSUME Types, [LifecycleNext]_lifecycleVars
             PROVE  Types'
  OBVIOUS
<1> USE LifecycleAssumption DEF Types, LifecycleTypeOK, Running
<1>0. /\ Absent \in Content /\ Torn \in Content
      /\ run \in 1 .. MaxRuns => {run} \in Content
  BY DEF Content
<1>1. ASSUME NEW d \in BOOLEAN, NEW p \in BOOLEAN, Start(d, p)
      PROVE  Types'
  <2>1. /\ stage' = "init" /\ run' \in 1 .. MaxRuns /\ run' \in 0 .. MaxRuns /\ round' \in 0 .. 2
        /\ backups' \subseteq File /\ restored' \subseteq File
    BY <1>1 DEF Start
  <2>2. debug' \in BOOLEAN /\ sharing' \in BOOLEAN /\ vendorMode' \in BOOLEAN
    BY <1>1, Zenon DEF Start
  <2>3. backup' \in [File -> Content] /\ before' \in [File -> Content]
    BY <1>0, <1>1 DEF Start
  <2> QED BY <1>1, <2>1, <2>2, <2>3 DEF Start
<1>2. CASE OtherCommand
  BY <1>0, <1>2 DEF OtherCommand, Rest, memory
<1>3. CASE InitRun
  BY <1>0, <1>3 DEF InitRun, FindPkgModDir, Rest
<1>4. ASSUME NEW o \in {"error", "dies"}, InitFails(o)
      PROVE  Types'
  <2>1. stage' \in {"early", "dead"}
    BY <1>4 DEF InitFails
  <2>2. pkg' \in Content /\ shared' \in Content
    BY <1>0, <1>4 DEF InitFails, Rest
  <2> QED BY <1>4, <2>1, <2>2 DEF InitFails, Rest, memory
<1>5. ASSUME NEW o \in Outcome, Step(o)
      PROVE  Types'
  <2>1. ASSUME NEW f \in File, BackupFile(f, o)
        PROVE  Types'
    <3>1. stage' \in {"backup", "post", "dead"}
      BY <2>1, AfterStep DEF BackupFile
    <3>2. backup' \in [File -> Content]
      BY <2>1, WrittenContent DEF BackupFile
    <3> QED BY <2>1, <3>1, <3>2 DEF BackupFile, Rest
  <2>2. ASSUME NEW f \in File, RestoreFile(f, o)
        PROVE  Types'
    <3>1. stage' \in {"restore", "broken", "dead"}
      BY <2>2 DEF RestoreFile, Outcome
    <3>2. tree' \in [File -> Content]
      BY <2>2, WrittenContent DEF RestoreFile
    <3> QED BY <2>2, <3>1, <3>2 DEF RestoreFile, Rest
  <2>3. CASE UpdateGoMod(o)
    <3>1. stage' \in {"deps", "post", "dead"}
      BY <2>3, AfterStep DEF UpdateGoMod
    <3>2. run \in 1 .. MaxRuns /\ tree["go.mod"] \in Content
      BY <2>3 DEF UpdateGoMod, Rest, File
    <3>3. tree' \in [File -> Content]
      <4>1. Edited(tree["go.mod"]) \in Content
        BY <3>2, EditedContent
      <4>2. PICK c \in Written(o, tree["go.mod"], Edited(tree["go.mod"])) :
              tree' = [tree EXCEPT !["go.mod"] = c]
        BY <2>3 DEF UpdateGoMod
      <4>3. c \in Content
        BY <3>2, <4>1, WrittenContent
      <4> QED BY <4>2, <4>3
    <3> QED BY <2>3, <3>1, <3>3 DEF UpdateGoMod, Rest, memory
  <2>4. CASE NewDeps(o)
    <3>1. stage' \in {"sync", "post", "dead"}
      BY <2>4, AfterStep DEF NewDeps
    <3>2. run \in 1 .. MaxRuns /\ tree["go.mod"] \in Content
      BY <2>4 DEF NewDeps, Rest, File
    <3>3. tree' \in [File -> Content]
      BY <2>4, <3>2, WrittenContent, EditedContent DEF NewDeps
    <3>4. runtime' \in Content
      BY <1>0, <2>4, <3>2, WrittenContent DEF NewDeps
    <3> QED BY <2>4, <3>1, <3>3, <3>4 DEF NewDeps, Rest, memory
  <2>5. CASE SyncDeps(o)
    <3>1. /\ stage' \in {"update", "match", "post", "dead"}
          /\ stage' = "match" => round # 2
      BY <2>5, AfterStep DEF SyncDeps
    <3>2. run \in 1 .. MaxRuns
      BY <2>5 DEF SyncDeps, Rest
    <3>3. tree' \in [File -> Content]
      BY <2>5, <3>2, EditedContent DEF SyncDeps
    <3>4. vendor' \in Content
      BY <2>5, <3>2, WrittenContent, EditedContent DEF SyncDeps
    <3> QED BY <2>5, <3>1, <3>3, <3>4 DEF SyncDeps, Rest, memory
  <2>6. CASE MatchRules(o)
    BY <2>6, AfterStep DEF MatchRules, Rest, memory
  <2>7. CASE UpdateRule(o)
    BY <2>7, AfterStep DEF UpdateRule, Rest, memory
  <2>8. CASE Store(o)
    BY <1>0, <2>8, AfterStep, WrittenContent DEF Store, Rest, memory
  <2>9. CASE Build(o)
    BY <2>9, AfterStep DEF Build, Rest, memory
  <2> QED BY <1>5, <2>1, <2>2, <2>3, <2>4, <2>5, <2>6, <2>7, <2>8, <2>9 DEF Step
<1>6. CASE PostProcess
  BY <1>0, <1>6 DEF PostProcess, Rest, memory
<1>7. CASE RestoreDone
  BY <1>7 DEF RestoreDone, Rest, memory
<1>8. CASE Die
  BY <1>8 DEF Die, Rest, memory
<1>9. CASE UNCHANGED lifecycleVars
  BY <1>9 DEF lifecycleVars
<1> QED BY <1>1, <1>2, <1>3, <1>4, <1>5, <1>6, <1>7, <1>8, <1>9 DEF LifecycleNext

LEMMA SafeInit == LifecycleInit => SafeInv
BY DEF LifecycleInit, SafeInv, BackedUp, OthersIntact, EditsAfterBackups, RestoreLoop

\* Every step preserves SafeInv.
LEMMA SafeNext == Types /\ SafeInv /\ [LifecycleNext]_lifecycleVars => SafeInv'
<1> SUFFICES ASSUME Types, SafeInv, [LifecycleNext]_lifecycleVars
             PROVE  SafeInv'
  OBVIOUS
<1> USE DEF SafeInv, BackedUp, OthersIntact, EditsAfterBackups, RestoreLoop
<1>0. /\ tree \in [File -> Content] /\ backup \in [File -> Content]
      /\ backups \subseteq File /\ restored \subseteq File
  BY DEF Types, LifecycleTypeOK
<1>1. ASSUME NEW d \in BOOLEAN, NEW p \in BOOLEAN, Start(d, p)
      PROVE  SafeInv'
  BY <1>1 DEF Start
<1>2. CASE OtherCommand
  BY <1>2 DEF OtherCommand, memory
<1>3. CASE InitRun
  BY <1>3 DEF InitRun, FindPkgModDir
<1>4. ASSUME NEW o \in {"error", "dies"}, InitFails(o)
      PROVE  SafeInv'
  BY <1>4 DEF InitFails, memory
<1>5. ASSUME NEW o \in Outcome, Step(o)
      PROVE  SafeInv'
  <2>1. ASSUME NEW f \in File, BackupFile(f, o)
        PROVE  SafeInv'
    <3>1. /\ o = "ok" => stage' = "backup" /\ backups' = backups \union {f} /\ backup'[f] = tree[f]
          /\ o # "ok" => stage' \in {"post", "dead"} /\ backups' = backups
          /\ \A g \in File \ {f} : backup'[g] = backup[g]
          /\ f \notin backups
      BY <1>0, <2>1, AfterStep DEF BackupFile, ToBackUp, Written
    <3>2. tree = before
      BY <2>1 DEF BackupFile
    <3> QED BY <1>0, <2>1, <3>1, <3>2 DEF BackupFile
  <2>2. ASSUME NEW f \in File, RestoreFile(f, o)
        PROVE  SafeInv'
    <3>1. /\ o = "ok" => stage' = "restore" /\ tree'[f] = backup[f]
          /\ o # "ok" => stage' \in {"broken", "dead"}
          /\ \A g \in File \ {f} : tree'[g] = tree[g]
      BY <1>0, <2>2 DEF RestoreFile, Written, Outcome
    <3> QED BY <1>0, <2>2, <3>1 DEF RestoreFile
  <2>3. CASE UpdateGoMod(o)
    <3>1. stage' \in {"deps", "post", "dead"}
      BY <2>3, AfterStep DEF UpdateGoMod
    <3>2. \A f \in File : before[f] # Absent => f \in backups
      BY <2>3 DEF UpdateGoMod, ToBackUp
    <3> QED BY <2>3, <3>1, <3>2 DEF UpdateGoMod, memory
  <2>4. CASE NewDeps(o)
    <3>1. stage' \in {"sync", "post", "dead"}
      BY <2>4, AfterStep DEF NewDeps
    <3> QED BY <2>4, <3>1 DEF NewDeps, memory
  <2>5. CASE SyncDeps(o)
    <3>1. stage' \in {"update", "match", "post", "dead"}
      BY <2>5, AfterStep DEF SyncDeps
    <3> QED BY <2>5, <3>1 DEF SyncDeps, memory
  <2>6. CASE MatchRules(o)
    BY <2>6, AfterStep DEF MatchRules, memory
  <2>7. CASE UpdateRule(o)
    BY <2>7, AfterStep DEF UpdateRule, memory
  <2>8. CASE Store(o)
    BY <2>8, AfterStep DEF Store, memory
  <2>9. CASE Build(o)
    BY <2>9, AfterStep DEF Build, memory
  <2> QED BY <1>5, <2>1, <2>2, <2>3, <2>4, <2>5, <2>6, <2>7, <2>8, <2>9 DEF Step
<1>6. CASE PostProcess
  BY <1>6 DEF PostProcess, memory
<1>7. CASE RestoreDone
  BY <1>7 DEF RestoreDone, memory
<1>8. CASE Die
  BY <1>8 DEF Die, Rest, memory
<1>9. CASE UNCHANGED lifecycleVars
  BY <1>9 DEF lifecycleVars
<1> QED BY <1>1, <1>2, <1>3, <1>4, <1>5, <1>6, <1>7, <1>8, <1>9 DEF LifecycleNext

LEMMA PreparedInit == LifecycleInit => PreparedInv
BY DEF LifecycleInit, PreparedInv

\* Every step preserves PreparedInv.
LEMMA PreparedNext == Types /\ PreparedInv /\ [LifecycleNext]_lifecycleVars => PreparedInv'
<1> SUFFICES ASSUME Types, PreparedInv, [LifecycleNext]_lifecycleVars
             PROVE  PreparedInv'
  OBVIOUS
<1> USE DEF PreparedInv
<1>0. /\ tree \in [File -> Content] /\ "go.mod" \in File
      /\ stage \notin Rest => run \in 1 .. MaxRuns
  BY DEF Types, LifecycleTypeOK, Running, File
<1>1. ASSUME NEW d \in BOOLEAN, NEW p \in BOOLEAN, Start(d, p)
      PROVE  PreparedInv'
  BY <1>1 DEF Start
<1>2. CASE OtherCommand
  BY <1>2 DEF OtherCommand, memory
<1>3. CASE InitRun
  BY <1>3 DEF InitRun, FindPkgModDir
<1>4. ASSUME NEW o \in {"error", "dies"}, InitFails(o)
      PROVE  PreparedInv'
  BY <1>4 DEF InitFails, memory
<1>5. ASSUME NEW o \in Outcome, Step(o)
      PROVE  PreparedInv'
  <2>1. ASSUME NEW f \in File, BackupFile(f, o)
        PROVE  PreparedInv'
    BY <2>1, AfterStep DEF BackupFile
  <2>2. ASSUME NEW f \in File, RestoreFile(f, o)
        PROVE  PreparedInv'
    <3>1. stage' \in {"restore", "broken", "dead"}
      BY <2>2 DEF RestoreFile, Outcome
    <3> QED BY <2>2, <3>1 DEF RestoreFile
  <2>3. CASE UpdateGoMod(o)
    <3>1. stage' \in {"deps", "post", "dead"} /\ (stage' = "deps" => o = "ok")
      BY <2>3, AfterStep DEF UpdateGoMod
    <3>2. run \in 1 .. MaxRuns /\ run \in Edited(tree["go.mod"])
      BY <1>0, <2>3, EditedContent DEF UpdateGoMod, Rest
    <3>3. o = "ok" => tree'["go.mod"] = Edited(tree["go.mod"])
      BY <1>0, <2>3 DEF UpdateGoMod, Written
    <3> QED BY <2>3, <3>1, <3>2, <3>3 DEF UpdateGoMod, memory
  <2>4. CASE NewDeps(o)
    <3>1. stage' \in {"sync", "post", "dead"} /\ (stage' = "sync" => o = "ok")
      BY <2>4, AfterStep DEF NewDeps
    <3>2. run \in 1 .. MaxRuns /\ run \in Edited(tree["go.mod"])
      BY <1>0, <2>4, EditedContent DEF NewDeps, Rest
    <3>3. o = "ok" => run \in tree'["go.mod"] /\ runtime' = {run}
      BY <1>0, <2>4, <3>2 DEF NewDeps, Written
    <3> QED BY <2>4, <3>1, <3>3 DEF NewDeps, memory
  <2>5. CASE SyncDeps(o)
    <3>1. stage' \in {"update", "match", "post", "dead"}
      BY <2>5, AfterStep DEF SyncDeps
    <3>2. run \in 1 .. MaxRuns /\ run \in Edited(tree["go.mod"])
      BY <1>0, <2>5, EditedContent DEF SyncDeps, Rest
    <3>3. run \in tree'["go.mod"]
      BY <1>0, <2>5, <3>2 DEF SyncDeps
    <3> QED BY <2>5, <3>1, <3>3 DEF SyncDeps, memory
  <2>6. CASE MatchRules(o)
    BY <2>6, AfterStep DEF MatchRules, memory
  <2>7. CASE UpdateRule(o)
    BY <2>7, AfterStep DEF UpdateRule, memory
  <2>8. CASE Store(o)
    <3>1. stage' \in {"build", "post", "dead"} /\ (stage' = "build" => o = "ok")
      BY <2>8, AfterStep DEF Store
    <3> QED BY <2>8, <3>1 DEF Store, Written, memory
  <2>9. CASE Build(o)
    BY <2>9, AfterStep DEF Build, memory
  <2> QED BY <1>5, <2>1, <2>2, <2>3, <2>4, <2>5, <2>6, <2>7, <2>8, <2>9 DEF Step
<1>6. CASE PostProcess
  BY <1>6 DEF PostProcess, memory
<1>7. CASE RestoreDone
  BY <1>7 DEF RestoreDone, memory
<1>8. CASE Die
  BY <1>8 DEF Die, memory
<1>9. CASE UNCHANGED lifecycleVars
  BY <1>9 DEF lifecycleVars
<1> QED BY <1>1, <1>2, <1>3, <1>4, <1>5, <1>6, <1>7, <1>8, <1>9 DEF LifecycleNext

\* The three parts are inductive together.
THEOREM LifecycleInvariance == LifecycleSpec => [](Types /\ SafeInv /\ PreparedInv)
BY TypesInit, TypesNext, SafeInit, SafeNext, PreparedInit, PreparedNext, PTL DEF LifecycleSpec

\* Every variable keeps its type, and no run has a fourth round of matching.
THEOREM LifecycleTypes == LifecycleSpec => []LifecycleTypeOK
<1>1. Types => LifecycleTypeOK
  BY DEF Types
<1> QED BY <1>1, LifecycleInvariance, PTL

\* A run that ends by itself leaves the files it found as it found them.
THEOREM AlwaysRestored == LifecycleSpec => []Restored
<1>1. Types /\ SafeInv => Restored
  BY DEF Types, LifecycleTypeOK, SafeInv, BackedUp, OthersIntact, EditsAfterBackups, RestoreLoop, Restored
<1> QED BY <1>1, LifecycleInvariance, PTL

\* At every moment of a run, and after it died, what it found exists whole.
THEOREM AlwaysRecoverable == LifecycleSpec => []Recoverable
<1>1. Types /\ SafeInv => Recoverable
  BY DEF Types, LifecycleTypeOK, SafeInv, BackedUp, OthersIntact, Recoverable
<1> QED BY <1>1, LifecycleInvariance, PTL

\* No file that a run found is ever lost to it.
THEOREM FilesAlwaysSafe == LifecycleSpec => []FilesSafe
<1>1. Restored /\ Recoverable => FilesSafe
  BY DEF FilesSafe
<1> QED BY <1>1, AlwaysRestored, AlwaysRecoverable, PTL

\* The build sees the rules, the otel.runtime.go and the edits of go.mod of its own
\* run, and its own pkg module, or with -pkg what the directory held when the run
\* started, and its own extraction if it did not exist.
THEOREM OwnPreparation == LifecycleSpec => []BuildSeesThisRun
<1>1. PreparedInv => BuildSeesThisRun
  BY DEF PreparedInv, BuildSeesThisRun
<1> QED BY <1>1, LifecycleInvariance, PTL
-----------------------------------------------------------------------------
(* The trampolines.                                                        *)

(* What applying a rule does to the body of a function.                    *)

\* The body after n rules: the original body last, a tjump for each hook rule
\* and the other statements for raw rules.
Statement == [op : {"tjump", "rawenter", "rawexit", "original"}, rule : 0 .. N]
Formed(b, n) ==
  /\ b \in Seq(Statement) /\ Len(b) >= 1
  /\ b[Len(b)] = Original
  /\ \A i \in 1 .. Len(b) - 1 : /\ b[i].op # "original" /\ b[i].rule \in 1 .. n
                                /\ b[i].op = "tjump" <=> ~ attr[b[i].rule].raw
                                /\ b[i].op = "rawexit" => attr[b[i].rule].exit

\* There is an end of the chain at the top for findJumpPoint to find.
IsChain(b, k) == /\ \A i \in 1 .. k : b[i].op = "tjump"
                 /\ b[k + 1].op # "tjump"
HasChain(b) == \E k \in 0 .. (Len(b) - 1) : IsChain(b, k)

\* No statement behind that of a raw rule belongs to a later rule.
RawFirst(b) == \A i, j \in 1 .. Len(b) :
  i < j /\ b[i].op \in {"rawenter", "rawexit"} => b[j].rule <= b[i].rule

\* Tjumps are in the order of their rules, but for raw rules between them.
TJumpOrder(b) == \A i, j \in 1 .. Len(b) :
  i < j /\ b[i].op = "tjump" /\ b[j].op = "tjump" =>
    \/ b[i].rule < b[j].rule
    \/ \E r \in b[j].rule .. b[i].rule : attr[r].raw

BodyInv(b, n) == Formed(b, n) /\ HasChain(b) /\ RawFirst(b) /\ TJumpOrder(b)

\* The statement the instrumented function starts from.
LEMMA OriginalStmt == Original.op = "original" /\ Original.rule = 0
BY DEF Original, Stmt

\* The second half of a concatenation, counted from its first element.
LEMMA Joined ==
  ASSUME NEW s \in Seq(Statement), NEW t \in Seq(Statement)
  PROVE  /\ s \o t \in Seq(Statement) /\ Len(s \o t) = Len(s) + Len(t)
         /\ \A i \in 1 .. Len(s) : (s \o t)[i] = s[i]
         /\ \A i \in 1 .. Len(t) : (s \o t)[Len(s) + i] = t[i]
<1>0. Len(s) \in Nat /\ Len(t) \in Nat
  BY LenProperties
<1>1. /\ s \o t \in Seq(Statement) /\ Len(s \o t) = Len(s) + Len(t)
      /\ \A i \in 1 .. Len(s) + Len(t) :
           (s \o t)[i] = IF i <= Len(s) THEN s[i] ELSE t[i - Len(s)]
  BY ConcatProperties
<1> DEFINE c == s \o t
<1> HIDE DEF c
<1>2. \A i \in 1 .. Len(s) + Len(t) : c[i] = IF i <= Len(s) THEN s[i] ELSE t[i - Len(s)]
  BY <1>1 DEF c
<1>3. \A i \in 1 .. Len(s) : c[i] = s[i]
  BY <1>0, <1>2
<1>4. ASSUME NEW i \in 1 .. Len(t) PROVE c[Len(s) + i] = t[i]
  <2>1. /\ Len(s) + i \in 1 .. Len(s) + Len(t)
        /\ ~ (Len(s) + i <= Len(s)) /\ (Len(s) + i) - Len(s) = i
    BY <1>0
  <2> QED BY <1>2, <2>1
<1> QED BY <1>1, <1>3, <1>4 DEF c

\* A hook rule applied to a body.
LEMMA InsertTJumpProperties ==
  ASSUME NEW n \in Nat, n < N, NEW b, BodyInv(b, n), ~ attr[n + 1].raw
  PROVE  BodyInv(InsertTJump(b, n + 1), n + 1)
<1> DEFINE k == ChainLength(b)
           r == n + 1
           t == Stmt("tjump", r)
           c == InsertTJump(b, r)
<1>1. /\ b \in Seq(Statement) /\ Len(b) \in Nat /\ Len(b) >= 1 /\ N \in Nat
      /\ \A i \in 1 .. Len(b) : b[i] \in Statement
  BY LenProperties, ElementOfSeq, TrampolineAssumption DEF BodyInv, Formed
<1>2. k \in 0 .. (Len(b) - 1) /\ IsChain(b, k)
  BY DEF BodyInv, HasChain, IsChain, ChainLength
<1>3. t \in Statement /\ t.op = "tjump" /\ t.rule = r
  BY <1>1 DEF Stmt, Statement
<1> HIDE DEF k, t
<1>4. /\ c \in Seq(Statement) /\ Len(c) = Len(b) + 1
      /\ \A i \in 1 .. Len(c) :
           c[i] = IF i <= k THEN b[i] ELSE IF i = k + 1 THEN t ELSE b[i - 1]
  <2> DEFINE u == SubSeq(b, 1, k)
             v == SubSeq(b, k + 1, Len(b))
             w == <<t>>
  <2>1. /\ u \in Seq(Statement) /\ Len(u) = k /\ \A i \in 1 .. k : u[i] = b[i]
    <3>1. \A i \in 1 .. k : b[i] \in Statement
      BY <1>1, <1>2
    <3>2. Len(u) = k
      BY <3>1, <1>2, SubSeqProperties
    <3> QED BY <3>1, <3>2, <1>2, SubSeqProperties
  <2>2. /\ v \in Seq(Statement) /\ Len(v) = Len(b) - k
        /\ \A i \in 1 .. Len(b) - k : v[i] = b[k + i]
    <3>1. \A i \in k + 1 .. Len(b) : b[i] \in Statement
      BY <1>1, <1>2
    <3>2. k + 1 \in Int /\ Len(b) \in Int /\ k + 1 <= Len(b)
      BY <1>1, <1>2
    <3> HIDE DEF v
    <3>3. /\ v \in Seq(Statement) /\ Len(v) = Len(b) - (k + 1) + 1
          /\ \A i \in 1 .. Len(b) - (k + 1) + 1 : v[i] = b[(k + 1) + i - 1]
      <4> USE DEF v
      <4> QED BY <3>1, <3>2, SubSeqProperties
    <3> QED BY <3>2, <3>3, <1>1, <1>2
  <2>3. w \in Seq(Statement) /\ Len(w) = 1 /\ w[1] = t
    BY <1>3
  <2>4. c = (u \o w) \o v
    BY DEF InsertTJump, k, t
  <2> HIDE DEF u, v, w, c
  <2> DEFINE x == u \o w
  <2>5. /\ x \in Seq(Statement) /\ Len(x) = k + 1
        /\ \A i \in 1 .. k : x[i] = u[i]
        /\ \A i \in 1 .. 1 : x[k + i] = w[i]
    <3>1. u \in Seq(Statement) /\ w \in Seq(Statement) /\ Len(u) = k /\ Len(w) = 1
      BY <2>1, <2>3
    <3>2. /\ u \o w \in Seq(Statement) /\ Len(u \o w) = Len(u) + Len(w)
          /\ \A i \in 1 .. Len(u) : (u \o w)[i] = u[i]
          /\ \A i \in 1 .. Len(w) : (u \o w)[Len(u) + i] = w[i]
      BY <3>1, Joined
    <3> HIDE DEF x
    <3>3. x = u \o w
      BY DEF x
    <3> QED BY <3>1, <3>2, <3>3
  <2>6. /\ c \in Seq(Statement) /\ Len(c) = (k + 1) + (Len(b) - k)
        /\ \A i \in 1 .. k + 1 : c[i] = x[i]
        /\ \A i \in 1 .. Len(b) - k : c[(k + 1) + i] = v[i]
    <3> HIDE DEF x
    <3>1. /\ x \in Seq(Statement) /\ Len(x) = k + 1
          /\ v \in Seq(Statement) /\ Len(v) = Len(b) - k
      BY <2>2, <2>5
    <3>2. /\ x \o v \in Seq(Statement) /\ Len(x \o v) = Len(x) + Len(v)
          /\ \A i \in 1 .. Len(x) : (x \o v)[i] = x[i]
          /\ \A i \in 1 .. Len(v) : (x \o v)[Len(x) + i] = v[i]
      BY <3>1, Joined
    <3>3. c = x \o v
      BY <2>4 DEF x
    <3> QED BY <3>1, <3>2, <3>3
  <2> HIDE DEF x
  <2>7. ASSUME NEW i \in 1 .. Len(c)
        PROVE  c[i] = IF i <= k THEN b[i] ELSE IF i = k + 1 THEN t ELSE b[i - 1]
    <3>1. CASE i <= k
      BY <1>2, <2>1, <2>5, <2>6, <3>1
    <3>2. CASE i = k + 1
      BY <1>2, <2>3, <2>5, <2>6, <3>2
    <3>3. CASE i > k + 1
      <4> DEFINE j == i - (k + 1)
      <4>1. j \in 1 .. Len(b) - k /\ (k + 1) + j = i /\ k + j = i - 1
        BY <1>1, <1>2, <2>6, <3>3
      <4>2. c[i] = v[j] /\ v[j] = b[k + j]
        BY <2>2, <2>6, <4>1
      <4> QED BY <1>2, <3>3, <4>1, <4>2
    <3> QED BY <1>2, <2>6, <3>1, <3>2, <3>3
  <2> QED BY <1>1, <1>2, <2>6, <2>7
<1> HIDE DEF c
<1>5. Formed(c, r)
  <2>1. \A i \in 1 .. Len(b) - 1 :
          /\ b[i].op # "original" /\ b[i].rule \in 1 .. n
          /\ b[i].op = "tjump" <=> ~ attr[b[i].rule].raw
          /\ b[i].op = "rawexit" => attr[b[i].rule].exit
    BY DEF BodyInv, Formed
  <2>2. c[Len(c)] = Original
    <3>1. Len(c) \in 1 .. Len(c) /\ Len(c) > k + 1 /\ Len(c) - 1 = Len(b)
      BY <1>1, <1>2, <1>4
    <3>2. c[Len(c)] = b[Len(c) - 1]
      BY <1>2, <1>4, <3>1
    <3> QED BY <3>1, <3>2 DEF BodyInv, Formed
  <2>3. ASSUME NEW i \in 1 .. Len(c) - 1
        PROVE  c[i] = t \/ \E j \in 1 .. Len(b) - 1 : c[i] = b[j]
    <3>0. i \in 1 .. Len(c) /\ Len(c) - 1 = Len(b) /\ k \in Nat /\ k <= Len(b) - 1
      BY <1>1, <1>2, <1>4
    <3>1. CASE i = k + 1
      BY <1>4, <3>0, <3>1
    <3>2. CASE i <= k
      <4>1. i \in 1 .. Len(b) - 1
        BY <1>1, <3>0, <3>2
      <4> QED BY <1>4, <3>0, <3>2, <4>1
    <3>3. CASE i > k + 1
      <4>1. i - 1 \in 1 .. Len(b) - 1 /\ ~ (i <= k) /\ i # k + 1
        BY <1>1, <3>0, <3>3
      <4> QED BY <1>4, <3>0, <4>1
    <3> QED BY <3>0, <3>1, <3>2, <3>3
  <2>4. \A i \in 1 .. Len(c) - 1 :
          /\ c[i].op # "original" /\ c[i].rule \in 1 .. r
          /\ c[i].op = "tjump" <=> ~ attr[c[i].rule].raw
          /\ c[i].op = "rawexit" => attr[c[i].rule].exit
    <3>1. t.op # "original" /\ t.rule \in 1 .. r /\ t.op = "tjump" /\ ~ attr[t.rule].raw
      BY <1>3
    <3>2. \A i \in 1 .. n : i \in 1 .. r
      OBVIOUS
    <3> QED BY <2>1, <2>3, <3>1, <3>2, SMTT(30)
  <2> QED BY <1>1, <1>4, <2>2, <2>4 DEF Formed
<1>6. HasChain(c)
  <2>1. IsChain(c, k + 1) /\ k + 1 \in 0 .. Len(c) - 1
    <3>1. \A i \in 1 .. k + 1 : c[i].op = "tjump"
      BY <1>1, <1>2, <1>3, <1>4 DEF IsChain
    <3>2. (k + 1) + 1 \in 1 .. Len(c) /\ k + 1 \in 0 .. Len(c) - 1 /\ (k + 1) + 1 - 1 = k + 1
      BY <1>1, <1>2, <1>4
    <3>3. c[(k + 1) + 1] = b[k + 1]
      BY <1>2, <1>4, <3>2
    <3> QED BY <1>2, <3>1, <3>2, <3>3 DEF IsChain
  <2> QED BY <2>1 DEF HasChain
<1> DEFINE old(i) == IF i <= k THEN i ELSE i - 1
<1>7. \A i \in 1 .. Len(c) : i # k + 1 => old(i) \in 1 .. Len(b) /\ c[i] = b[old(i)]
  BY <1>1, <1>2, <1>4
<1>8. \A i, j \in 1 .. Len(c) : i < j /\ i # k + 1 /\ j # k + 1 => old(i) < old(j)
  BY <1>1, <1>2, <1>4
<1>9. c[k + 1] = t
  BY <1>1, <1>2, <1>4
<1>10. \A i \in 1 .. Len(b) : b[i].rule \in 0 .. n
  BY <1>1, OriginalStmt DEF BodyInv, Formed
<1>11. \A i \in 1 .. Len(c) : i < k + 1 => c[i].op = "tjump"
  <2>1. \A i \in 1 .. Len(c) : i < k + 1 => i \in 1 .. k /\ i <= k /\ c[i] = b[i]
    BY <1>1, <1>2, <1>4
  <2>2. \A i \in 1 .. k : b[i].op = "tjump"
    BY <1>2 DEF IsChain
  <2> QED BY <2>1, <2>2
<1> HIDE DEF old
<1>12. RawFirst(c)
  <2> SUFFICES ASSUME NEW i \in 1 .. Len(c), NEW j \in 1 .. Len(c),
                      i < j, c[i].op \in {"rawenter", "rawexit"}
               PROVE  c[j].rule <= c[i].rule
    BY DEF RawFirst
  <2>1. i # k + 1 /\ j # k + 1
    BY <1>2, <1>3, <1>4, <1>9, <1>11
  <2>2. b[old(j)].rule <= b[old(i)].rule
    BY <1>7, <1>8, <2>1 DEF BodyInv, RawFirst
  <2> QED BY <1>7, <2>1, <2>2
<1>13. TJumpOrder(c)
  <2> SUFFICES ASSUME NEW i \in 1 .. Len(c), NEW j \in 1 .. Len(c),
                      i < j, c[i].op = "tjump", c[j].op = "tjump"
               PROVE  \/ c[i].rule < c[j].rule
                      \/ \E q \in c[j].rule .. c[i].rule : attr[q].raw
    BY DEF TJumpOrder
  <2>1. CASE i # k + 1 /\ j # k + 1
    BY <1>7, <1>8, <2>1 DEF BodyInv, TJumpOrder
  <2>2. CASE j = k + 1
    <3>1. c[i].rule \in 0 .. n
      BY <1>2, <1>7, <1>10, <2>2
    <3> QED BY <1>3, <1>9, <2>2, <3>1
  <2>3. CASE i = k + 1
    <3>2. c[j] = b[j - 1] /\ j - 1 \in 1 .. Len(b)
      BY <1>1, <1>2, <1>4, <2>3
    <3>3. j - 1 # k + 1
      BY <1>2, <3>2 DEF IsChain
    <3>4. j - 1 # Len(b) /\ k + 1 < j - 1 /\ k + 1 \in 1 .. Len(b) - 1
      BY <1>1, <1>2, <1>4, <2>3, <3>2, <3>3, OriginalStmt DEF BodyInv, Formed
    <3>5. /\ b[k + 1].op \in {"rawenter", "rawexit"}
          /\ b[k + 1].rule \in 1 .. n /\ attr[b[k + 1].rule].raw
      <4> DEFINE s == b[k + 1]
      <4>1. /\ s.op # "tjump" /\ s.op # "original" /\ s.rule \in 1 .. n
            /\ s.op = "tjump" <=> ~ attr[s.rule].raw
        BY <1>2, <3>4 DEF BodyInv, Formed, IsChain
      <4>2. s.op \in {"tjump", "rawenter", "rawexit", "original"}
        BY <1>1, <1>2 DEF Statement
      <4> QED BY <4>1, <4>2
    <3>6. b[j - 1].rule <= b[k + 1].rule
      <4>1. RawFirst(b) /\ k + 1 \in 1 .. Len(b)
        BY <1>1, <3>4 DEF BodyInv
      <4> QED BY <3>2, <3>4, <3>5, <4>1 DEF RawFirst
    <3>7. b[k + 1].rule \in c[j].rule .. c[i].rule
      BY <1>3, <1>9, <1>10, <2>3, <3>2, <3>5, <3>6
    <3> QED BY <3>5, <3>7
  <2> QED BY <2>1, <2>2, <2>3
<1>14. BodyInv(c, r)
  BY <1>5, <1>6, <1>12, <1>13 DEF BodyInv
<1> QED BY <1>14 DEF c

\* A raw rule applied to a body.
LEMMA InsertRawProperties ==
  ASSUME NEW n \in Nat, n < N, NEW b, BodyInv(b, n), attr \in [Rule -> Attribute],
         attr[n + 1].raw
  PROVE  BodyInv(InsertRaw(b, n + 1), n + 1)
<1> DEFINE r == n + 1
           p1 == IF attr[r].exit THEN <<Stmt("rawexit", r)>> ELSE <<>>
           p2 == IF attr[r].enter THEN <<Stmt("rawenter", r)>> ELSE <<>>
           p == p1 \o p2
           c == InsertRaw(b, r)
           m == Len(p)
           IsRaw(s) == /\ s \in Statement /\ s.op \in {"rawenter", "rawexit"} /\ s.rule = r
                       /\ s.op = "rawexit" => attr[r].exit
<1>1. /\ b \in Seq(Statement) /\ Len(b) \in Nat /\ Len(b) >= 1 /\ N \in Nat
      /\ \A i \in 1 .. Len(b) : b[i] \in Statement
  BY LenProperties, ElementOfSeq, TrampolineAssumption DEF BodyInv, Formed
<1>2. attr[r].enter \/ attr[r].exit
  BY <1>1 DEF Rule, Attribute
<1>3. (attr[r].exit => IsRaw(Stmt("rawexit", r))) /\ IsRaw(Stmt("rawenter", r))
  BY <1>1 DEF Stmt, Statement
<1> HIDE DEF IsRaw
<1>4. /\ p1 \in Seq(Statement) /\ Len(p1) \in {0, 1} /\ \A i \in 1 .. Len(p1) : IsRaw(p1[i])
      /\ attr[r].exit => Len(p1) = 1
  BY <1>3 DEF IsRaw
<1>5. /\ p2 \in Seq(Statement) /\ Len(p2) \in {0, 1} /\ \A i \in 1 .. Len(p2) : IsRaw(p2[i])
      /\ attr[r].enter => Len(p2) = 1
  BY <1>3 DEF IsRaw
<1>6. c = p \o b
  BY DEF InsertRaw
<1> HIDE DEF p1, p2, c
<1>7. /\ p \in Seq(Statement) /\ Len(p) = Len(p1) + Len(p2)
      /\ \A i \in 1 .. Len(p1) : p[i] = p1[i]
      /\ \A i \in 1 .. Len(p2) : p[Len(p1) + i] = p2[i]
  BY <1>4, <1>5, Joined
<1> HIDE DEF p
<1>8. m \in Nat /\ m >= 1 /\ \A i \in 1 .. m : IsRaw(p[i])
  <2>0. Len(p1) \in {0, 1} /\ Len(p2) \in {0, 1} /\ m = Len(p1) + Len(p2)
    BY <1>4, <1>5, <1>7
  <2>1. m \in Nat /\ m >= 1
    <3>1. Len(p1) = 1 \/ Len(p2) = 1
      BY <1>2, <1>4, <1>5, Zenon
    <3>2. \A u, v \in {0, 1} : u = 1 \/ v = 1 => u + v \in Nat /\ u + v >= 1
      OBVIOUS
    <3>3. Len(p1) + Len(p2) \in Nat /\ Len(p1) + Len(p2) >= 1
      BY <2>0, <3>1, <3>2, Zenon
    <3> QED BY <2>0, <3>3
  <2>2. ASSUME NEW i \in 1 .. m PROVE IsRaw(p[i])
    <3>1. CASE i <= Len(p1)
      BY <1>4, <1>7, <3>1
    <3>2. CASE i > Len(p1)
      <4>1. i - Len(p1) \in 1 .. Len(p2) /\ Len(p1) + (i - Len(p1)) = i
        BY <1>4, <1>5, <1>7, <3>2
      <4> QED BY <1>5, <1>7, <4>1
    <3> QED BY <1>4, <3>1, <3>2
  <2> QED BY <2>1, <2>2
<1>9. /\ c \in Seq(Statement) /\ Len(c) = m + Len(b)
      /\ \A i \in 1 .. m : c[i] = p[i]
      /\ \A i \in 1 .. Len(b) : c[m + i] = b[i]
  BY <1>1, <1>6, <1>7, Joined, ZenonT(30)
<1> HIDE DEF m
<1>10. \A i \in 1 .. m : IsRaw(c[i])
  BY <1>8, <1>9
<1>11. \A i \in 1 .. Len(c) : i > m => i - m \in 1 .. Len(b) /\ c[i] = b[i - m]
  <2> SUFFICES ASSUME NEW i \in 1 .. Len(c), i > m
               PROVE  i - m \in 1 .. Len(b) /\ c[i] = b[i - m]
    OBVIOUS
  <2>1. i - m \in 1 .. Len(b) /\ m + (i - m) = i
    BY <1>1, <1>8, <1>9
  <2> QED BY <1>9, <2>1
<1>12. Len(c) \in Nat /\ Len(c) > m
  BY <1>1, <1>8, <1>9
<1>13. \A i \in 1 .. Len(b) : b[i].rule \in 0 .. n
  <2>1. /\ b[Len(b)].rule = 0
        /\ \A i \in 1 .. Len(b) - 1 : b[i].rule \in 1 .. n
    BY OriginalStmt DEF BodyInv, Formed
  <2> QED
    BY <1>1, <2>1
<1>14. Formed(c, r)
  <2>1. c[Len(c)] = Original
    <3>1. b[Len(b)] = Original /\ Len(b) \in 1 .. Len(b)
      BY <1>1 DEF BodyInv, Formed
    <3> QED
      BY <1>9, <3>1
  <2>2. ASSUME NEW i \in 1 .. Len(c) - 1
        PROVE  /\ c[i].op # "original" /\ c[i].rule \in 1 .. r
               /\ c[i].op = "tjump" <=> ~ attr[c[i].rule].raw
               /\ c[i].op = "rawexit" => attr[c[i].rule].exit
    <3>1. CASE i <= m
      <4>1. i \in 1 .. m
        BY <1>8, <3>1
      <4> QED BY <1>10, <4>1 DEF IsRaw
    <3>2. CASE i > m
      <4>1. i - m \in 1 .. Len(b) - 1 /\ c[i] = b[i - m]
        <5>1. i \in 1 .. Len(c) /\ i - m \in 1 .. Len(b) - 1
          BY <1>1, <1>8, <1>9, <3>2
        <5> QED BY <1>11, <3>2, <5>1
      <4>2. b[i - m].rule \in 1 .. n => b[i - m].rule \in 1 .. r
        OBVIOUS
      <4> QED BY <4>1, <4>2 DEF BodyInv, Formed
    <3> QED BY <1>8, <1>12, <3>1, <3>2
  <2>3. Len(c) >= 1
    BY <1>8, <1>12
  <2> QED BY <1>9, <2>1, <2>2, <2>3 DEF Formed
<1>15. HasChain(c)
  <2>1. 1 \in 1 .. m /\ 0 \in 0 .. Len(c) - 1
    BY <1>8, <1>12
  <2>2. c[1].op # "tjump"
    BY <1>10, <2>1 DEF IsRaw
  <2>3. IsChain(c, 0)
    BY <2>2 DEF IsChain
  <2> QED BY <2>1, <2>3 DEF HasChain
<1>16. RawFirst(c)
  <2> SUFFICES ASSUME NEW i \in 1 .. Len(c), NEW j \in 1 .. Len(c),
                      i < j, c[i].op \in {"rawenter", "rawexit"}
               PROVE  c[j].rule <= c[i].rule
    BY DEF RawFirst
  <2>1. CASE i > m
    <3>0. j > m /\ i - m < j - m
      BY <1>8, <1>9, <2>1, SMTT(30)
    <3>1. /\ i - m \in 1 .. Len(b) /\ c[i] = b[i - m] /\ j - m \in 1 .. Len(b)
          /\ c[j] = b[j - m] /\ i - m < j - m
      BY <1>11, <2>1, <3>0
    <3> QED BY <3>1 DEF BodyInv, RawFirst
  <2>2. CASE i <= m
    <3>1. c[i].rule = r
      BY <1>10, <1>8, <2>2 DEF IsRaw
    <3>2. c[j].rule \in 0 .. r
      <4>1. CASE j <= m
        BY <1>8, <1>10, <4>1 DEF IsRaw
      <4>2. CASE j > m
        BY <1>11, <1>13, <4>2
      <4> QED BY <1>8, <4>1, <4>2
    <3> QED BY <3>1, <3>2
  <2> QED BY <1>8, <2>1, <2>2
<1>17. TJumpOrder(c)
  <2> SUFFICES ASSUME NEW i \in 1 .. Len(c), NEW j \in 1 .. Len(c),
                      i < j, c[i].op = "tjump", c[j].op = "tjump"
               PROVE  \/ c[i].rule < c[j].rule
                      \/ \E q \in c[j].rule .. c[i].rule : attr[q].raw
    BY DEF TJumpOrder
  <2>1. i > m
    BY <1>8, <1>10 DEF IsRaw
  <2>2. /\ i - m \in 1 .. Len(b) /\ c[i] = b[i - m] /\ j - m \in 1 .. Len(b)
        /\ c[j] = b[j - m] /\ i - m < j - m
    BY <1>8, <1>11, <2>1
  <2> QED BY <2>2 DEF BodyInv, TJumpOrder
<1>18. BodyInv(c, r)
  BY <1>14, <1>15, <1>16, <1>17 DEF BodyInv
<1> QED BY <1>18 DEF c
-----------------------------------------------------------------------------
(* What a call does.                                                       *)

\* What a call has done, by its mode: nothing yet before it leaves; the body
\* has run, or it panicked before, once it leaves.
Progress ==
  /\ mode \in {"compile", "run", "return", "panic", "returned", "panicked"}
  /\ ran \in {0, 1}
  /\ mode \in {"compile", "run"} => ran = 0 /\ exited = <<>>
  /\ mode \in {"return", "panic", "returned", "panicked"} => ran = 1 \/ threw

TInv == Progress /\ PanicsContained

\* No tjump takes the branch that leaves the function: its condition is the
\* SkipCall of a new context.
LEMMA TJumpGoesOn ==
  ASSUME NEW stores, NEW asks, NEW panics, TJump(stores, asks, panics)
  PROVE  /\ mode = "run" /\ mode' = "run"
         /\ UNCHANGED <<exited, ran, threw>>
BY DEF TJump, At, NewContext

\* Nothing has run at the start.
LEMMA TInvInit == Init => TInv
BY DEF Init, TInv, Progress, PanicsContained

\* Every step preserves TInv.
LEMMA TInvNext == TInv /\ [Next]_vars => TInv'
<1> SUFFICES ASSUME TInv, [Next]_vars
             PROVE  TInv'
  OBVIOUS
<1> USE DEF TInv, Progress, PanicsContained
<1>1. CASE ApplyFuncRule
  BY <1>1 DEF ApplyFuncRule
<1>2. CASE OptimizeTJumps
  BY <1>2 DEF OptimizeTJumps
<1>3. ASSUME NEW stores \in BOOLEAN, NEW asks \in BOOLEAN, NEW panics \in BOOLEAN,
             TJump(stores, asks, panics)
      PROVE  TInv'
  BY <1>3, TJumpGoesOn
<1>4. ASSUME NEW panics \in BOOLEAN, RawEnter(panics)
      PROVE  TInv'
  <2>1. CASE panics
    BY <1>4, <2>1 DEF RawEnter, At
  <2>2. CASE ~ panics
    BY <1>4, <2>2 DEF RawEnter, At
  <2> QED BY <2>1, <2>2
<1>5. ASSUME NEW panics \in BOOLEAN, OriginalBody(panics)
      PROVE  TInv'
  BY <1>5 DEF OriginalBody, At
<1>6. ASSUME NEW panics \in BOOLEAN, Deferred(panics)
      PROVE  TInv'
  <2> DEFINE raw == attr[defers[Len(defers)].rule].raw
  <2>1. CASE panics /\ raw
    BY <1>6, <2>1 DEF Deferred, Leaving
  <2>2. CASE ~ (panics /\ raw)
    BY <1>6, <2>2 DEF Deferred, Leaving
  <2> QED BY <2>1, <2>2
<1>7. CASE RawDefer
  BY <1>7 DEF RawDefer, Pass, At
<1>8. CASE Leave
  BY <1>8 DEF Leave, Leaving
<1>9. CASE UNCHANGED vars
  BY <1>9 DEF vars
<1> QED BY <1>1, <1>2, <1>3, <1>4, <1>5, <1>6, <1>7, <1>8, <1>9 DEF Next

\* TInv is an invariant, for any number of rules of any kind.
THEOREM TrampolineInvariance == Spec => []TInv
BY TInvInit, TInvNext, PTL DEF Spec

\* A panic of a hook stays inside its trampoline, and no hook swallows one of
\* the function: a call panics exactly when the body or a snippet did.
THEOREM HookPanicsStayInside == Spec => []PanicsContained
<1>1. TInv => PanicsContained
  BY DEF TInv
<1> QED BY <1>1, TrampolineInvariance, PTL

\* The body runs once, before any OnExit code, unless a snippet panicked: no
\* hook can make a call leave it out.
THEOREM BodyAlwaysRuns == Spec => []BodyRuns
<1>1. TInv => BodyRuns
  BY DEF TInv, Progress, BodyRuns
<1> QED BY <1>1, TrampolineInvariance, PTL

\* Whatever its hooks do, the function runs and panics as it would without.
THEOREM HooksNeverFelt == Spec => []HooksUnfelt
<1>1. PanicsContained /\ BodyRuns => HooksUnfelt
  BY DEF HooksUnfelt
<1> QED BY <1>1, HookPanicsStayInside, BodyAlwaysRuns, PTL
-----------------------------------------------------------------------------
Shape == [calls : BOOLEAN, tests : BOOLEAN, defers : BOOLEAN, ctx : Rule \union {Fresh}]
Call == [rule : Rule, ctx : Rule \union {Fresh}]

\* Each variable but body and pc has its type.
Typed ==
  /\ attr \in [Rule -> Attribute]
  /\ applied \in 0 .. N
  /\ form \in [Rule -> Shape]
  /\ mode \in {"compile", "run", "return", "panic", "returned", "panicked"}
  /\ defers \in Seq(Call)
  /\ ctx \in [Rule -> [data : Rule \union {NoData}, skip : BOOLEAN]]
  /\ passed \in Seq(Rule) /\ due \in Seq(Rule) /\ exited \in Seq(Rule)
  /\ found \in [Rule -> Rule \union {NoData}]
  /\ ran \in Nat
  /\ threw \in BOOLEAN

\* The body is that of the rules applied, and a call is somewhere in it once
\* all of them are.
Placed ==
  /\ BodyInv(body, applied)
  /\ pc \in 1 .. Len(body)
  /\ mode = "compile" => pc = 1 /\ passed = <<>> /\ defers = <<>>

\* A hook rule the call has passed has its tjump above the statement reached.
Visited == \A i \in 1 .. Len(passed) :
  ~ attr[passed[i]].raw =>
    \E q \in 1 .. pc - 1 : body[q].op = "tjump" /\ body[q].rule = passed[i]

\* The context a deferred OnExit trampoline gets is that of its own rule, or
\* a new one where no OnEnter hook could have stored anything.
ContextsMatch ==
  /\ mode # "compile" =>
       \A r \in Rule : ~ attr[r].raw => form[r] = Optimized(attr[r], r)
  /\ \A r \in Rule : ~ attr[r].enter => ctx[r].data = NoData
  /\ \A i \in 1 .. Len(defers) : ~ attr[defers[i].rule].raw =>
       defers[i].ctx = IF attr[defers[i].rule].enter THEN defers[i].rule ELSE Fresh

\* A call that is not yet at the original body can go on, and stands at the
\* statement of some rule.
LEMMA AtRule ==
  ASSUME Typed, Placed, NEW op, At(op), op # "original"
  PROVE  /\ pc + 1 \in 1 .. Len(body) /\ pc \in 1 .. Len(body)
         /\ Here \in Rule /\ Here \in 1 .. applied
         /\ op = "tjump" <=> ~ attr[Here].raw
         /\ op = "rawexit" => attr[Here].exit
         /\ mode = "run" /\ body[pc].op = op
<1>1. Len(body) \in Nat /\ pc \in 1 .. Len(body) /\ applied \in 0 .. N /\ N \in Nat
  BY LenProperties, TrampolineAssumption DEF Placed, BodyInv, Formed, Typed
<1>2. mode = "run" /\ body[pc].op = op
  BY DEF At
<1>3. pc # Len(body)
  BY <1>2, OriginalStmt DEF Placed, BodyInv, Formed
<1>4. pc \in 1 .. Len(body) - 1
  BY <1>1, <1>3
<1>5. Here \in 1 .. applied /\ (op = "tjump" <=> ~ attr[Here].raw)
      /\ (op = "rawexit" => attr[Here].exit)
  BY <1>2, <1>4 DEF Placed, BodyInv, Formed, Here
<1>6. Here \in Rule
  BY <1>1, <1>5 DEF Rule
<1> QED BY <1>1, <1>2, <1>4, <1>5, <1>6

\* What a tjump does, now that it never leaves the function.
LEMMA TJumpEffect ==
  ASSUME NEW stores, NEW asks, NEW panics, TJump(stores, asks, panics)
  PROVE  /\ stores => form[Here].calls
         /\ asks => attr[Here].skips
         /\ ctx' = [ctx EXCEPT ![Here] = [data |-> IF stores THEN Here ELSE NoData, skip |-> asks]]
         /\ passed' = Append(passed, Here)
         /\ due' = IF attr[Here].exit THEN Append(due, Here) ELSE due
         /\ defers' = IF form[Here].defers
                      THEN Append(defers, [rule |-> Here, ctx |-> form[Here].ctx])
                      ELSE defers
         /\ pc' = pc + 1
         /\ UNCHANGED <<attr, applied, body, form, mode, exited, found, ran, threw>>
         /\ At("tjump") /\ mode = "run"
<1>1. ~ NewContext.skip
  BY DEF NewContext
<1> QED BY <1>1 DEF TJump, Pass, At, code

\* The call that is next to run, and the others.
LEMMA LastDeferred ==
  ASSUME Typed, defers # <<>>
  PROVE  /\ Len(defers) \in 1 .. Len(defers) /\ defers[Len(defers)] \in Call
         /\ SubSeq(defers, 1, Len(defers) - 1) \in Seq(Call)
         /\ Len(SubSeq(defers, 1, Len(defers) - 1)) = Len(defers) - 1
         /\ \A i \in 1 .. Len(defers) - 1 : SubSeq(defers, 1, Len(defers) - 1)[i] = defers[i]
<1>1. /\ defers \in Seq(Call) /\ Len(defers) \in Nat /\ Len(defers) # 0
      /\ \A i \in 1 .. Len(defers) : defers[i] \in Call
  BY LenProperties, ElementOfSeq, EmptySeq DEF Typed
<1>2. \A i \in 1 .. Len(defers) - 1 : defers[i] \in Call
  BY <1>1
<1> DEFINE m == Len(defers) - 1
           front == SubSeq(defers, 1, m)
<1>3. m \in Int /\ 1 \in Int /\ 1 <= m + 1 /\ m - 1 + 1 = m
  BY <1>1
<1> HIDE DEF m
<1>4. Len(front) = m
  BY <1>2, <1>3, SubSeqProperties DEF m
<1>5. front \in Seq(Call) /\ \A i \in 1 .. m : front[i] = defers[i]
  BY <1>2, <1>3, <1>4, SubSeqProperties DEF m
<1> QED BY <1>1, <1>4, <1>5 DEF m

\* Every step keeps the types.
LEMMA TypedNext == Typed /\ Placed /\ [Next]_vars => Typed'
<1> SUFFICES ASSUME Typed, Placed, [Next]_vars
             PROVE  Typed'
  OBVIOUS
<1>0. N \in Nat
  BY TrampolineAssumption
<1>1. CASE ApplyFuncRule
  <2>1. applied' \in 0 .. N
    BY <1>0, <1>1 DEF ApplyFuncRule, Typed
  <2> QED BY <1>1, <2>1 DEF ApplyFuncRule, Typed
<1>2. CASE OptimizeTJumps
  <2>1. \A r \in Rule : (IF attr[r].raw THEN form[r] ELSE Optimized(attr[r], r)) \in Shape
    BY DEF Typed, Optimized, Shape, Attribute
  <2>2. form' \in [Rule -> Shape]
    BY <1>2, <2>1 DEF OptimizeTJumps
  <2> QED BY <1>2, <2>2 DEF OptimizeTJumps, Typed
<1>3. ASSUME NEW stores \in BOOLEAN, NEW asks \in BOOLEAN, NEW panics \in BOOLEAN,
             TJump(stores, asks, panics)
      PROVE  Typed'
  <2> DEFINE call == [rule |-> Here, ctx |-> form[Here].ctx]
             new  == [data |-> IF stores THEN Here ELSE NoData, skip |-> asks]
  <2>1. Here \in Rule
    BY <1>3, TJumpEffect, AtRule
  <2>2. /\ ctx' = [ctx EXCEPT ![Here] = new]
        /\ passed' = Append(passed, Here)
        /\ due' = IF attr[Here].exit THEN Append(due, Here) ELSE due
        /\ defers' = IF form[Here].defers THEN Append(defers, call) ELSE defers
        /\ UNCHANGED <<attr, applied, body, form, mode, exited, found, ran, threw>>
    BY <1>3, TJumpEffect
  <2>3. form[Here].ctx \in Rule \union {Fresh}
    BY <2>1 DEF Typed, Shape
  <2>4. call \in Call
    BY <2>1, <2>3 DEF Call
  <2>5. new \in [data : Rule \union {NoData}, skip : BOOLEAN]
    BY <2>1
  <2> HIDE DEF call, new
  <2>6. defers' \in Seq(Call)
    BY <2>2, <2>4, AppendProperties DEF Typed
  <2>7. passed' \in Seq(Rule) /\ due' \in Seq(Rule)
    BY <2>1, <2>2, AppendProperties DEF Typed
  <2>8. ctx' \in [Rule -> [data : Rule \union {NoData}, skip : BOOLEAN]]
    BY <2>2, <2>5 DEF Typed
  <2> QED BY <2>2, <2>6, <2>7, <2>8 DEF Typed
<1>4. ASSUME NEW panics \in BOOLEAN, RawEnter(panics)
      PROVE  Typed'
  <2>1. mode' \in {"run", "panic"} /\ threw' \in BOOLEAN
    BY <1>4 DEF RawEnter, At, Typed
  <2> QED BY <1>4, <2>1 DEF RawEnter, Typed, code
<1>5. ASSUME NEW panics \in BOOLEAN, OriginalBody(panics)
      PROVE  Typed'
  <2>1. mode' \in {"return", "panic"} /\ threw' \in BOOLEAN /\ ran' \in Nat
    BY <1>5 DEF OriginalBody, Typed
  <2> QED BY <1>5, <2>1 DEF OriginalBody, Typed, code
<1>6. ASSUME NEW panics \in BOOLEAN, Deferred(panics)
      PROVE  Typed'
  <2> DEFINE d == defers[Len(defers)]
  <2>1. d \in Call /\ defers' \in Seq(Call)
    BY <1>6, LastDeferred DEF Deferred
  <2>2. d.rule \in Rule /\ d.ctx \in Rule \union {Fresh}
    BY <2>1 DEF Call
  <2>3. exited' = Append(exited, d.rule)
    BY <1>6 DEF Deferred
  <2>4. found' = [found EXCEPT ![d.rule] = IF d.ctx = Fresh THEN NoData ELSE ctx[d.ctx].data]
    BY <1>6 DEF Deferred
  <2>5. mode' \in {"panic", mode} /\ threw' \in BOOLEAN
    BY <1>6 DEF Deferred, Typed
  <2> HIDE DEF d
  <2>6. exited' \in Seq(Rule)
    BY <2>2, <2>3, AppendProperties DEF Typed
  <2>7. (IF d.ctx = Fresh THEN NoData ELSE ctx[d.ctx].data) \in Rule \union {NoData}
    BY <2>2 DEF Typed
  <2>8. found' \in [Rule -> Rule \union {NoData}]
    BY <2>4, <2>7 DEF Typed
  <2> QED BY <1>6, <2>1, <2>5, <2>6, <2>8 DEF Deferred, Typed, code
<1>7. CASE RawDefer
  <2>1. Here \in Rule
    BY <1>7, AtRule DEF RawDefer, Pass
  <2>2. [rule |-> Here, ctx |-> Fresh] \in Call
    BY <2>1 DEF Call
  <2>3. defers' \in Seq(Call) /\ passed' \in Seq(Rule) /\ due' \in Seq(Rule)
    BY <1>7, <2>1, <2>2, AppendProperties DEF RawDefer, Pass, Typed
  <2> QED BY <1>7, <2>3 DEF RawDefer, Pass, Typed, code
<1>8. CASE Leave
  BY <1>8 DEF Leave, Typed, code
<1>9. CASE UNCHANGED vars
  BY <1>9 DEF vars, Typed
<1> QED BY <1>1, <1>2, <1>3, <1>4, <1>5, <1>6, <1>7, <1>8, <1>9 DEF Next

\* Every step keeps the body in shape and the call inside it.
LEMMA PlacedNext == Typed /\ Placed /\ [Next]_vars => Placed'
<1> SUFFICES ASSUME Typed, Placed, [Next]_vars
             PROVE  Placed'
  OBVIOUS
<1>1. CASE ApplyFuncRule
  <2>1. applied \in Nat /\ applied < N /\ BodyInv(body, applied)
    BY <1>1 DEF ApplyFuncRule, Typed, Placed
  <2>2. BodyInv(body', applied')
    <3>1. CASE attr[applied + 1].raw
      <4>1. BodyInv(InsertRaw(body, applied + 1), applied + 1)
        BY <2>1, <3>1, InsertRawProperties DEF Typed
      <4> QED BY <1>1, <3>1, <4>1 DEF ApplyFuncRule
    <3>2. CASE ~ attr[applied + 1].raw
      <4>1. BodyInv(InsertTJump(body, applied + 1), applied + 1)
        BY <2>1, <3>2, InsertTJumpProperties
      <4> QED BY <1>1, <3>2, <4>1 DEF ApplyFuncRule
    <3> QED BY <3>1, <3>2
  <2>3. BodyInv(body, applied)'
    BY <1>1, <2>2 DEF ApplyFuncRule, BodyInv, Formed, HasChain, IsChain, RawFirst, TJumpOrder
  <2>4. Len(body') \in Nat /\ Len(body') >= 1
    BY <2>2, LenProperties DEF BodyInv, Formed
  <2>5. pc' = 1 /\ passed' = <<>> /\ defers' = <<>> /\ 1 \in 1 .. Len(body')
    BY <1>1, <2>4 DEF ApplyFuncRule, Placed
  <2> QED BY <2>3, <2>5 DEF Placed
<1>2. CASE OptimizeTJumps
  BY <1>2 DEF OptimizeTJumps, Placed, BodyInv, Formed, HasChain, IsChain, RawFirst, TJumpOrder
<1>3. CASE UNCHANGED vars
  BY <1>3 DEF vars, Placed, BodyInv, Formed, HasChain, IsChain, RawFirst, TJumpOrder
<1>4. ASSUME UNCHANGED code, pc' \in 1 .. Len(body), mode' # "compile"
      PROVE  Placed'
  BY <1>4 DEF code, Placed, BodyInv, Formed, HasChain, IsChain, RawFirst, TJumpOrder
<1>5. ASSUME NEW stores \in BOOLEAN, NEW asks \in BOOLEAN, NEW panics \in BOOLEAN,
             TJump(stores, asks, panics)
      PROVE  Placed'
  <2>1. UNCHANGED code /\ mode' # "compile" /\ pc' = pc + 1 /\ At("tjump")
    BY <1>5, TJumpEffect DEF code
  <2> QED BY <1>4, <2>1, AtRule
<1>6. ASSUME NEW panics \in BOOLEAN, RawEnter(panics)
      PROVE  Placed'
  <2>1. UNCHANGED code /\ mode' # "compile" /\ pc' \in {pc, pc + 1} /\ At("rawenter")
    BY <1>6 DEF RawEnter, At
  <2> QED BY <1>4, <2>1, AtRule
<1>7. CASE RawDefer
  <2>1. UNCHANGED code /\ mode' # "compile" /\ pc' = pc + 1 /\ At("rawexit")
    BY <1>7 DEF RawDefer, Pass, At
  <2> QED BY <1>4, <2>1, AtRule
<1>8. ASSUME NEW panics \in BOOLEAN, OriginalBody(panics) \/ Deferred(panics) \/ Leave
      PROVE  Placed'
  <2>1. UNCHANGED code /\ mode' # "compile" /\ UNCHANGED pc
    BY <1>8 DEF OriginalBody, Deferred, Leave, Leaving
  <2> QED BY <1>4, <2>1 DEF Placed
<1> QED BY <1>1, <1>2, <1>3, <1>5, <1>6, <1>7, <1>8 DEF Next

\* The statement of a rule joins the ones passed.
LEMMA PassedGrows ==
  ASSUME Typed, NEW r \in Rule, passed' = Append(passed, r)
  PROVE  /\ Len(passed) \in Nat /\ Len(passed') = Len(passed) + 1
         /\ \A i \in 1 .. Len(passed) : passed'[i] = passed[i]
         /\ passed'[Len(passed) + 1] = r
BY AppendProperties, LenProperties DEF Typed

\* Every step keeps track of the tjumps passed.
LEMMA VisitedNext == Typed /\ Placed /\ Visited /\ [Next]_vars => Visited'
<1> SUFFICES ASSUME Typed, Placed, Visited, [Next]_vars
             PROVE  Visited'
  OBVIOUS
<1>1. ASSUME mode = "compile", UNCHANGED passed
      PROVE  Visited'
  BY <1>1 DEF Placed, Visited
<1>2. ASSUME UNCHANGED <<passed, attr, body>>, pc' \in {pc, pc + 1}
      PROVE  Visited'
  <2>0. pc \in Int
    BY DEF Placed
  <2>1. \A q \in 1 .. pc - 1 : q \in 1 .. pc' - 1
    <3>1. CASE pc' = pc
      BY <3>1
    <3>2. CASE pc' = pc + 1
      BY <2>0, <3>2
    <3> QED BY <1>2, <3>1, <3>2
  <2> QED BY <1>2, <2>1 DEF Visited
<1>3. CASE ApplyFuncRule \/ OptimizeTJumps
  BY <1>1, <1>3 DEF ApplyFuncRule, OptimizeTJumps
<1>4. ASSUME NEW stores \in BOOLEAN, NEW asks \in BOOLEAN, NEW panics \in BOOLEAN,
             TJump(stores, asks, panics)
      PROVE  Visited'
  <2>1. /\ Here \in Rule /\ passed' = Append(passed, Here) /\ pc' = pc + 1
        /\ UNCHANGED <<attr, body>> /\ body[pc].op = "tjump" /\ body[pc].rule = Here
    BY <1>4, TJumpEffect, AtRule DEF Here
  <2>2. pc \in Int /\ pc \in 1 .. pc' - 1 /\ \A q \in 1 .. pc - 1 : q \in 1 .. pc' - 1
    BY <2>1 DEF Placed
  <2>3. /\ Len(passed) \in Nat /\ Len(passed') = Len(passed) + 1
        /\ \A i \in 1 .. Len(passed) : passed'[i] = passed[i]
        /\ passed'[Len(passed) + 1] = Here
    BY <2>1, PassedGrows
  <2>4. ASSUME NEW i \in 1 .. Len(passed'), ~ attr[passed'[i]].raw
        PROVE  \E q \in 1 .. pc' - 1 : body[q].op = "tjump" /\ body[q].rule = passed'[i]
    <3>1. CASE i = Len(passed) + 1
      BY <2>1, <2>2, <2>3, <3>1
    <3>2. CASE i \in 1 .. Len(passed)
      BY <2>2, <2>3, <2>4, <3>2 DEF Visited
    <3> QED BY <2>3, <3>1, <3>2
  <2> QED BY <2>1, <2>4 DEF Visited
<1>5. ASSUME NEW panics \in BOOLEAN,
             RawEnter(panics) \/ OriginalBody(panics) \/ Deferred(panics) \/ Leave
      PROVE  Visited'
  BY <1>2, <1>5 DEF RawEnter, OriginalBody, Deferred, Leave, code
<1>6. CASE RawDefer
  <2>1. /\ Here \in Rule /\ passed' = Append(passed, Here) /\ pc' = pc + 1
        /\ UNCHANGED <<attr, body>> /\ attr[Here].raw
    <3>1. passed' = Append(passed, Here) /\ pc' = pc + 1 /\ UNCHANGED <<attr, body>> /\ At("rawexit")
      BY <1>6 DEF RawDefer, Pass, code
    <3> QED BY <3>1, AtRule
  <2>2. pc \in Int /\ \A q \in 1 .. pc - 1 : q \in 1 .. pc' - 1
    BY <2>1 DEF Placed
  <2>3. /\ Len(passed) \in Nat /\ Len(passed') = Len(passed) + 1
        /\ \A i \in 1 .. Len(passed) : passed'[i] = passed[i]
        /\ passed'[Len(passed) + 1] = Here
    BY <2>1, PassedGrows
  <2>4. ASSUME NEW i \in 1 .. Len(passed'), ~ attr[passed'[i]].raw
        PROVE  \E q \in 1 .. pc' - 1 : body[q].op = "tjump" /\ body[q].rule = passed'[i]
    <3>1. i \in 1 .. Len(passed)
      BY <2>1, <2>3, <2>4
    <3> QED BY <2>2, <2>3, <2>4, <3>1 DEF Visited
  <2> QED BY <2>1, <2>4 DEF Visited
<1>7. CASE UNCHANGED vars
  BY <1>2, <1>7 DEF vars
<1> QED BY <1>3, <1>4, <1>5, <1>6, <1>7 DEF Next

\* Every step keeps the order of the rules passed.
LEMMA RuleOrderNext ==
  Typed /\ Placed /\ Visited /\ RuleOrder /\ [Next]_vars => RuleOrder'
<1> SUFFICES ASSUME Typed, Placed, Visited, RuleOrder, [Next]_vars
             PROVE  RuleOrder'
  OBVIOUS
<1>1. ASSUME UNCHANGED <<passed, attr>>
      PROVE  RuleOrder'
  BY <1>1 DEF RuleOrder
<1>2. ASSUME NEW r \in Rule, passed' = Append(passed, r), UNCHANGED attr,
             attr[r].raw \/ (body[pc].op = "tjump" /\ body[pc].rule = r)
      PROVE  RuleOrder'
  <2>1. /\ Len(passed) \in Nat /\ Len(passed') = Len(passed) + 1
        /\ \A i \in 1 .. Len(passed) : passed'[i] = passed[i]
        /\ passed'[Len(passed) + 1] = r
    BY <1>2, PassedGrows
  <2>2. ASSUME NEW i \in 1 .. Len(passed'), NEW j \in 1 .. Len(passed'), i < j,
               ~ attr[passed'[i]].raw, ~ attr[passed'[j]].raw
        PROVE  \/ passed'[i] < passed'[j]
               \/ \E q \in passed'[j] .. passed'[i] : attr[q].raw
    <3>1. CASE j \in 1 .. Len(passed)
      <4>1. i \in 1 .. Len(passed)
        BY <2>1, <2>2, <3>1
      <4> QED BY <2>1, <2>2, <3>1, <4>1 DEF RuleOrder
    <3>2. CASE j = Len(passed) + 1
      <4>1. i \in 1 .. Len(passed) /\ passed'[i] = passed[i] /\ passed'[j] = r
        BY <2>1, <2>2, <3>2
      <4>2. body[pc].op = "tjump" /\ body[pc].rule = r
        BY <1>2, <2>2, <4>1
      <4>3. PICK q \in 1 .. pc - 1 : body[q].op = "tjump" /\ body[q].rule = passed[i]
        BY <2>2, <4>1 DEF Visited
      <4>4. q \in 1 .. Len(body) /\ pc \in 1 .. Len(body) /\ q < pc
        BY LenProperties DEF Placed, BodyInv, Formed
      <4> QED BY <4>1, <4>2, <4>3, <4>4 DEF Placed, BodyInv, TJumpOrder
    <3> QED BY <2>1, <3>1, <3>2
  <2> QED BY <1>2, <2>2 DEF RuleOrder
<1>3. CASE ApplyFuncRule \/ OptimizeTJumps \/ UNCHANGED vars
  BY <1>1, <1>3 DEF ApplyFuncRule, OptimizeTJumps, vars
<1>4. ASSUME NEW stores \in BOOLEAN, NEW asks \in BOOLEAN, NEW panics \in BOOLEAN,
             TJump(stores, asks, panics)
      PROVE  RuleOrder'
  <2>1. /\ Here \in Rule /\ passed' = Append(passed, Here) /\ UNCHANGED attr
        /\ body[pc].op = "tjump" /\ body[pc].rule = Here
    BY <1>4, TJumpEffect, AtRule DEF Here
  <2> QED BY <1>2, <2>1
<1>5. CASE RawDefer
  <2>1. /\ passed' = Append(passed, Here) /\ UNCHANGED attr /\ At("rawexit")
    BY <1>5 DEF RawDefer, Pass, code
  <2>2. Here \in Rule /\ attr[Here].raw
    BY <2>1, AtRule
  <2> QED BY <1>2, <2>1, <2>2
<1>6. ASSUME NEW panics \in BOOLEAN,
             RawEnter(panics) \/ OriginalBody(panics) \/ Deferred(panics) \/ Leave
      PROVE  RuleOrder'
  BY <1>1, <1>6 DEF RawEnter, OriginalBody, Deferred, Leave, code
<1> QED BY <1>3, <1>4, <1>5, <1>6 DEF Next

\* Every step keeps the contexts of the deferred calls right.
LEMMA ContextsMatchNext ==
  Typed /\ Placed /\ ContextsMatch /\ [Next]_vars => ContextsMatch'
<1> SUFFICES ASSUME Typed, Placed, ContextsMatch, [Next]_vars
             PROVE  ContextsMatch'
  OBVIOUS
<1> DEFINE Own(d) == ~ attr[d.rule].raw => d.ctx = IF attr[d.rule].enter THEN d.rule ELSE Fresh
<1>0. \A i \in 1 .. Len(defers) : Own(defers[i])
  BY DEF ContextsMatch
<1>1. CASE ApplyFuncRule
  BY <1>1 DEF ApplyFuncRule, ContextsMatch
<1>2. CASE OptimizeTJumps
  <2>1. /\ form' = [r \in Rule |-> IF attr[r].raw THEN form[r] ELSE Optimized(attr[r], r)]
        /\ UNCHANGED <<attr, ctx, defers>>
    BY <1>2 DEF OptimizeTJumps
  <2> QED BY <2>1 DEF ContextsMatch, Optimized
<1>3. ASSUME NEW d \in Call, Own(d), UNCHANGED attr,
             defers' = Append(defers, d)
      PROVE  \A i \in 1 .. Len(defers') : Own(defers'[i])
  <2> HIDE DEF Own
  <2>1. /\ Len(defers) \in Nat /\ Len(defers') = Len(defers) + 1
        /\ \A i \in 1 .. Len(defers) : defers'[i] = defers[i]
        /\ defers'[Len(defers) + 1] = d
    BY <1>3, AppendProperties, LenProperties DEF Typed
  <2>2. ASSUME NEW i \in 1 .. Len(defers')
        PROVE  Own(defers'[i])
    <3>1. CASE i = Len(defers) + 1
      BY <1>3, <2>1, <3>1
    <3>2. CASE i \in 1 .. Len(defers)
      BY <1>0, <2>1, <3>2
    <3> QED BY <2>1, <3>1, <3>2
  <2> QED BY <2>2
<1>4. ASSUME NEW stores \in BOOLEAN, NEW asks \in BOOLEAN, NEW panics \in BOOLEAN,
             TJump(stores, asks, panics)
      PROVE  ContextsMatch'
  <2> DEFINE call == [rule |-> Here, ctx |-> form[Here].ctx]
             new  == [data |-> IF stores THEN Here ELSE NoData, skip |-> asks]
  <2>1. Here \in Rule /\ ~ attr[Here].raw
    BY <1>4, TJumpEffect, AtRule
  <2>2. /\ ctx' = [ctx EXCEPT ![Here] = new] /\ (stores => form[Here].calls)
        /\ defers' = IF form[Here].defers THEN Append(defers, call) ELSE defers
        /\ UNCHANGED <<attr, form, mode>> /\ mode = "run"
    BY <1>4, TJumpEffect
  <2>3. form[Here] = Optimized(attr[Here], Here)
    BY <2>1, <2>2 DEF ContextsMatch
  <2>4. form[Here].calls = attr[Here].enter /\ form[Here].ctx = IF attr[Here].enter THEN Here ELSE Fresh
    BY <2>3 DEF Optimized
  <2>5. call \in Call /\ Own(call)
    BY <2>1, <2>4 DEF Call
  <2>6. ~ attr[Here].enter => new.data = NoData
    BY <2>2, <2>4
  <2> HIDE DEF call, new, Own
  <2>7. \A i \in 1 .. Len(defers') : Own(defers'[i])
    BY <1>0, <1>3, <2>2, <2>5
  <2>8. \A r \in Rule : ~ attr[r].enter => ctx'[r].data = NoData
    BY <2>1, <2>2, <2>6 DEF ContextsMatch, Typed
  <2> USE DEF Own
  <2>9. \A i \in 1 .. Len(defers') : ~ attr'[defers'[i].rule].raw =>
           defers'[i].ctx = IF attr'[defers'[i].rule].enter THEN defers'[i].rule ELSE Fresh
    BY <2>2, <2>7
  <2>10. \A r \in Rule : ~ attr'[r].raw => form'[r] = Optimized(attr'[r], r)
    BY <2>2 DEF ContextsMatch
  <2>11. \A r \in Rule : ~ attr'[r].enter => ctx'[r].data = NoData
    BY <2>2, <2>8
  <2> QED BY <2>9, <2>10, <2>11 DEF ContextsMatch
<1>5. ASSUME NEW panics \in BOOLEAN, RawEnter(panics) \/ OriginalBody(panics) \/ Leave
      PROVE  ContextsMatch'
  <2>1. UNCHANGED <<attr, form, ctx, defers>> /\ mode # "compile"
    BY <1>5 DEF RawEnter, OriginalBody, Leave, code, At, Leaving
  <2> QED BY <2>1 DEF ContextsMatch
<1>6. ASSUME NEW panics \in BOOLEAN, Deferred(panics)
      PROVE  ContextsMatch'
  <2>1. /\ UNCHANGED <<attr, form, ctx>> /\ mode # "compile" /\ defers # <<>>
        /\ defers' = SubSeq(defers, 1, Len(defers) - 1)
    BY <1>6 DEF Deferred, Leaving, code
  <2>2. /\ Len(defers) \in Nat /\ Len(defers') = Len(defers) - 1
        /\ \A i \in 1 .. Len(defers) - 1 : defers'[i] = defers[i]
    BY <2>1, LastDeferred
  <2>3. \A i \in 1 .. Len(defers') : i \in 1 .. Len(defers) /\ defers'[i] = defers[i]
    BY <2>2
  <2> QED BY <2>1, <2>3 DEF ContextsMatch
<1>7. CASE RawDefer
  <2> DEFINE call == [rule |-> Here, ctx |-> Fresh]
  <2>1. /\ UNCHANGED <<attr, form, ctx, mode>> /\ mode # "compile"
        /\ defers' = Append(defers, call) /\ At("rawexit")
    BY <1>7 DEF RawDefer, Pass, code, At
  <2>2. Here \in Rule /\ attr[Here].raw
    BY <2>1, AtRule
  <2>3. call \in Call /\ Own(call)
    BY <2>2 DEF Call
  <2> HIDE DEF call, Own
  <2>4. \A i \in 1 .. Len(defers') : Own(defers'[i])
    BY <1>3, <2>1, <2>3
  <2> USE DEF Own
  <2> QED BY <2>1, <2>4 DEF ContextsMatch
<1>8. CASE UNCHANGED vars
  BY <1>8 DEF vars, ContextsMatch
<1> QED BY <1>1, <1>2, <1>4, <1>5, <1>6, <1>7, <1>8 DEF Next

\* Every step keeps what the OnExit hooks found right: contexts change only
\* while no OnExit hook has run.
LEMMA DataReachesExitNext ==
  Typed /\ ContextsMatch /\ TInv /\ DataReachesExit /\ [Next]_vars => DataReachesExit'
<1> SUFFICES ASSUME Typed, ContextsMatch, TInv, DataReachesExit, [Next]_vars
             PROVE  DataReachesExit'
  OBVIOUS
<1>1. ASSUME UNCHANGED <<exited, found, ctx, attr>>
      PROVE  DataReachesExit'
  BY <1>1 DEF DataReachesExit
<1>2. ASSUME NEW stores \in BOOLEAN, NEW asks \in BOOLEAN, NEW panics \in BOOLEAN,
             TJump(stores, asks, panics)
      PROVE  DataReachesExit'
  <2>1. exited = <<>> /\ exited' = exited
    BY <1>2, TJumpGoesOn DEF TInv, Progress
  <2> QED BY <2>1 DEF DataReachesExit
<1>3. ASSUME NEW panics \in BOOLEAN, Deferred(panics)
      PROVE  DataReachesExit'
  <2> DEFINE d == defers[Len(defers)]
             data == IF d.ctx = Fresh THEN NoData ELSE ctx[d.ctx].data
  <2>1. /\ exited' = Append(exited, d.rule) /\ found' = [found EXCEPT ![d.rule] = data]
        /\ UNCHANGED <<attr, ctx>> /\ defers # <<>>
    BY <1>3 DEF Deferred, code
  <2>2. d \in Call /\ Len(defers) \in 1 .. Len(defers)
    BY <2>1, LastDeferred
  <2>3. d.rule \in Rule
    BY <2>2 DEF Call
  <2>4. ~ attr[d.rule].raw => data = ctx[d.rule].data
    <3>1. ~ attr[d.rule].raw => d.ctx = IF attr[d.rule].enter THEN d.rule ELSE Fresh
      BY <2>2 DEF ContextsMatch
    <3>2. d.rule # Fresh
      BY <2>3, TrampolineAssumption DEF Rule, Fresh
    <3>3. ~ attr[d.rule].enter => ctx[d.rule].data = NoData
      BY <2>3 DEF ContextsMatch
    <3> QED BY <3>1, <3>2, <3>3
  <2> HIDE DEF d, data
  <2>5. /\ Len(exited) \in Nat /\ Len(exited') = Len(exited) + 1
        /\ \A i \in 1 .. Len(exited) : exited'[i] = exited[i]
        /\ exited'[Len(exited) + 1] = d.rule
    BY <2>1, <2>3, AppendProperties, LenProperties DEF Typed
  <2>6. found'[d.rule] = data /\ \A r \in Rule : r # d.rule => found'[r] = found[r]
    BY <2>1, <2>3 DEF Typed
  <2>7. \A i \in 1 .. Len(exited) : exited[i] \in Rule
    BY ElementOfSeq DEF Typed
  <2>8. ASSUME NEW i \in 1 .. Len(exited'), ~ attr[exited'[i]].raw
        PROVE  found'[exited'[i]] = ctx[exited'[i]].data
    <3>1. CASE exited'[i] = d.rule
      BY <2>4, <2>6, <2>8, <3>1
    <3>2. CASE exited'[i] # d.rule
      <4>1. i \in 1 .. Len(exited)
        BY <2>5, <3>2
      <4> QED BY <2>5, <2>6, <2>7, <2>8, <3>2, <4>1 DEF DataReachesExit
    <3> QED BY <3>1, <3>2
  <2> QED BY <2>1, <2>8 DEF DataReachesExit
<1>4. ASSUME NEW panics \in BOOLEAN,
             RawEnter(panics) \/ OriginalBody(panics) \/ RawDefer \/ Leave
      PROVE  DataReachesExit'
  BY <1>1, <1>4 DEF RawEnter, OriginalBody, RawDefer, Leave, code
<1>5. CASE ApplyFuncRule \/ OptimizeTJumps \/ UNCHANGED vars
  BY <1>1, <1>5 DEF ApplyFuncRule, OptimizeTJumps, vars
<1> QED BY <1>2, <1>3, <1>4, <1>5 DEF Next

\* The order of the hooks and the data the OnExit hooks find, with all they
\* rest on.
CInv == Typed /\ Placed /\ Visited /\ ContextsMatch /\ RuleOrder /\ DataReachesExit

\* An untouched function satisfies it.
LEMMA CInvInit == Init => CInv
<1> SUFFICES ASSUME Init
             PROVE  CInv
  OBVIOUS
<1>1. N \in Nat
  BY TrampolineAssumption
<1>2. Typed
  <2>1. form \in [Rule -> Shape]
    BY DEF Init, Shape
  <2>2. ctx \in [Rule -> [data : Rule \union {NoData}, skip : BOOLEAN]]
    BY DEF Init, NewContext
  <2>3. found \in [Rule -> Rule \union {NoData}]
    BY DEF Init
  <2>4. defers \in Seq(Call) /\ passed \in Seq(Rule) /\ due \in Seq(Rule) /\ exited \in Seq(Rule)
    BY EmptySeq DEF Init
  <2>5. attr \in [Rule -> Attribute] /\ applied \in 0 .. N
    BY <1>1 DEF Init
  <2>6. mode = "compile" /\ ran = 0 /\ threw = FALSE
    BY DEF Init
  <2> QED BY <2>1, <2>2, <2>3, <2>4, <2>5, <2>6 DEF Typed
<1>3. Placed
  <2>1. Original \in Statement /\ Original.op = "original"
    BY <1>1, OriginalStmt DEF Original, Stmt, Statement
  <2>2. body = <<Original>> /\ applied = 0 /\ pc = 1 /\ passed = <<>> /\ defers = <<>>
    BY DEF Init
  <2>3. body \in Seq(Statement) /\ Len(body) = 1 /\ body[1] = Original
    BY <2>1, <2>2
  <2>4. Formed(body, applied)
    BY <2>3 DEF Formed
  <2>5. HasChain(body)
    BY <2>1, <2>3 DEF HasChain, IsChain
  <2>6. RawFirst(body) /\ TJumpOrder(body)
    BY <2>3 DEF RawFirst, TJumpOrder
  <2> QED BY <2>2, <2>3, <2>4, <2>5, <2>6 DEF Placed, BodyInv
<1>4. Visited /\ RuleOrder /\ DataReachesExit
  BY DEF Init, Visited, RuleOrder, DataReachesExit
<1>5. ContextsMatch
  BY DEF Init, ContextsMatch, NewContext
<1> QED BY <1>2, <1>3, <1>4, <1>5 DEF CInv

\* CInv is an invariant, for any number of rules of any kind.
THEOREM ChainInvariance == Spec => []CInv
<1>1. TInv /\ CInv /\ [Next]_vars => CInv'
  BY TypedNext, PlacedNext, VisitedNext, ContextsMatchNext, RuleOrderNext,
     DataReachesExitNext DEF CInv
<1> QED BY <1>1, CInvInit, TrampolineInvariance, PTL DEF Spec

\* Every variable has its type, the original body stays the last statement,
\* and a call never runs past it.
THEOREM TrampolineTypeOK == Spec => []TypeOK
<1>1. ASSUME Typed, Placed
      PROVE  TypeOK
  <2>1. /\ Len(body) \in Nat /\ applied \in 0 .. N /\ N \in Nat
        /\ body[Len(body)] = Original /\ Original.op = "original"
        /\ \A i \in 1 .. Len(body) : body[i] \in Statement
        /\ \A i \in 1 .. Len(body) - 1 : body[i].op # "original" /\ body[i].rule \in 1 .. applied
    BY <1>1, LenProperties, ElementOfSeq, TrampolineAssumption, OriginalStmt
       DEF Typed, Placed, BodyInv, Formed
  <2>2. ASSUME NEW i \in 1 .. Len(body)
        PROVE  /\ body[i] \in
                    ([op : {"tjump", "rawenter", "rawexit"}, rule : Rule] \union {Original})
               /\ body[i] = Original <=> i = Len(body)
    <3>1. CASE i = Len(body)
      BY <2>1, <3>1
    <3>2. CASE i # Len(body)
      <4>1. i \in 1 .. Len(body) - 1
        BY <2>1, <3>2
      <4>2. body[i].op # "original" /\ body[i].rule \in Rule /\ body[i] \in Statement
        BY <2>1, <4>1 DEF Rule
      <4>3. body[i] \in [op : {"tjump", "rawenter", "rawexit"}, rule : Rule]
        BY <4>2 DEF Statement
      <4> QED BY <2>1, <3>2, <4>2, <4>3
    <3> QED BY <3>1, <3>2
  <2>3. \A i \in 1 .. Len(defers) : defers[i] \in [rule : Rule, ctx : Rule \union {Fresh}]
    BY <1>1, ElementOfSeq DEF Typed, Call
  <2>4. form \in [Rule -> [calls : BOOLEAN, tests : BOOLEAN, defers : BOOLEAN,
                           ctx : Rule \union {Fresh}]]
    BY <1>1 DEF Typed, Shape
  <2>5. pc \in 1 .. Len(body)
    BY <1>1 DEF Placed
  <2> QED BY <1>1, <2>2, <2>3, <2>4, <2>5 DEF Typed, TypeOK
<1>2. CInv => TypeOK
  BY <1>1 DEF CInv
<1> QED BY <1>2, ChainInvariance, PTL

\* OnEnter hooks run in the order of their rules, except where a raw rule
\* applied between two of them turns them around.
THEOREM HooksEnterInOrder == Spec => []RuleOrder
<1>1. CInv => RuleOrder
  BY DEF CInv
<1> QED BY <1>1, ChainInvariance, PTL

\* An OnExit hook finds in its CallContext what the OnEnter hook of its rule
\* stored there, whichever way the optimised tjump passes the context.
THEOREM ContextReachesExit == Spec => []DataReachesExit
<1>1. CInv => DataReachesExit
  BY DEF CInv
<1> QED BY <1>1, ChainInvariance, PTL
-----------------------------------------------------------------------------
\* A statement whose OnExit code is deferred joins what is due, at the end of
\* both sequences, while nothing has run yet.
LEMMA MirrorGrows ==
  ASSUME Typed, ExitsMirrorEntries, exited = <<>>, UNCHANGED exited,
         NEW call \in Call, defers' = Append(defers, call), due' = Append(due, call.rule)
  PROVE  ExitsMirrorEntries'
<1>1. /\ Len(defers) \in Nat /\ Len(defers') = Len(defers) + 1
      /\ \A i \in 1 .. Len(defers) : defers'[i] = defers[i]
      /\ defers'[Len(defers) + 1] = call
  BY AppendProperties, LenProperties DEF Typed
<1>2. /\ Len(due) \in Nat /\ Len(due') = Len(due) + 1
      /\ \A i \in 1 .. Len(due) : due'[i] = due[i]
      /\ due'[Len(due) + 1] = call.rule
  <2>1. call.rule \in Rule
    BY DEF Call
  <2> QED
    BY <2>1, AppendProperties, LenProperties DEF Typed
<1>3. Len(exited) = 0 /\ Len(exited') = 0 /\ Len(defers) = Len(due)
  BY <1>1 DEF ExitsMirrorEntries
<1>4. Len(defers') + Len(exited') = Len(due')
  BY <1>1, <1>2, <1>3
<1>5. ASSUME NEW i \in 1 .. Len(defers') PROVE defers'[i].rule = due'[i]
  <2>0. i \in 1 .. Len(defers) + 1
    BY <1>1
  <2>1. CASE i = Len(defers) + 1
    BY <1>1, <1>2, <1>3, <2>1
  <2>2. CASE i \in 1 .. Len(defers)
    BY <1>1, <1>2, <1>3, <2>2 DEF ExitsMirrorEntries
  <2>3. i = Len(defers) + 1 \/ i \in 1 .. Len(defers)
    <3> DEFINE n == Len(defers)
    <3>1. n \in Nat /\ i \in 1 .. n + 1
      BY <1>1, <2>0
    <3> HIDE DEF n
    <3>2. i = n + 1 \/ i \in 1 .. n
      BY <3>1
    <3> QED
      BY <3>2 DEF n
  <2> QED
    BY <2>1, <2>2, <2>3
<1> QED
  BY <1>3, <1>4, <1>5 DEF ExitsMirrorEntries

\* Every step keeps the exits the mirror of the entries: an entry is deferred
\* when it is passed, and a deferred call that runs moves from the end of the
\* one sequence to the end of the other.
LEMMA MirrorNext ==
  TInv /\ Typed /\ Placed /\ ContextsMatch /\ ExitsMirrorEntries /\ [Next]_vars
    => ExitsMirrorEntries'
<1> SUFFICES ASSUME TInv, Typed, Placed, ContextsMatch, ExitsMirrorEntries, [Next]_vars
             PROVE  ExitsMirrorEntries'
  OBVIOUS
<1>1. CASE UNCHANGED <<defers, due, exited>>
  BY <1>1 DEF ExitsMirrorEntries
<1>2. ASSUME NEW stores \in BOOLEAN, NEW asks \in BOOLEAN, NEW panics \in BOOLEAN,
             TJump(stores, asks, panics)
      PROVE  ExitsMirrorEntries'
  <2> DEFINE call == [rule |-> Here, ctx |-> form[Here].ctx]
  <2>1. /\ Here \in Rule /\ ~ attr[Here].raw /\ mode = "run" /\ exited = <<>>
        /\ due' = IF attr[Here].exit THEN Append(due, Here) ELSE due
        /\ defers' = IF form[Here].defers THEN Append(defers, call) ELSE defers
        /\ UNCHANGED exited
    BY <1>2, TJumpEffect, AtRule DEF TInv, Progress
  <2>2. form[Here].defers = attr[Here].exit
    <3>1. form[Here] = Optimized(attr[Here], Here)
      BY <2>1 DEF ContextsMatch
    <3>2. Optimized(attr[Here], Here).defers = attr[Here].exit
      BY DEF Optimized
    <3> QED
      BY <3>1, <3>2, Zenon
  <2>3. call \in Call /\ call.rule = Here
    BY <2>1 DEF Typed, Shape, Call
  <2> HIDE DEF call
  <2>4. CASE attr[Here].exit
    BY <2>1, <2>2, <2>3, <2>4, MirrorGrows
  <2>5. CASE ~ attr[Here].exit
    BY <1>1, <2>1, <2>2, <2>5
  <2> QED
    BY <2>4, <2>5
<1>3. CASE RawDefer
  <2> DEFINE call == [rule |-> Here, ctx |-> Fresh]
  <2>1. /\ Here \in Rule /\ attr[Here].exit /\ mode = "run"
    BY <1>3, AtRule DEF RawDefer
  <2>2. /\ due' = Append(due, Here) /\ defers' = Append(defers, call)
        /\ exited = <<>> /\ UNCHANGED exited
    BY <1>3, <2>1 DEF RawDefer, Pass, TInv, Progress
  <2>3. call \in Call /\ call.rule = Here
    BY <2>1 DEF Call
  <2> HIDE DEF call
  <2> QED
    BY <2>2, <2>3, MirrorGrows
<1>4. ASSUME NEW panics \in BOOLEAN, Deferred(panics) PROVE ExitsMirrorEntries'
  <2> DEFINE n == Len(defers)
             d == defers[n]
  <2>1. /\ defers # <<>> /\ UNCHANGED due
        /\ exited' = Append(exited, d.rule) /\ defers' = SubSeq(defers, 1, n - 1)
    BY <1>4 DEF Deferred
  <2>2. /\ n \in 1 .. n /\ d \in Call /\ Len(defers') = n - 1
        /\ \A i \in 1 .. n - 1 : defers'[i] = defers[i]
    BY <2>1, LastDeferred
  <2>3. d.rule \in Rule
    BY <2>2 DEF Call
  <2>4. d.rule = due[n] /\ \A i \in 1 .. n - 1 : defers[i].rule = due[i]
    BY <2>2 DEF ExitsMirrorEntries
  <2> HIDE DEF d
  <2>5. /\ Len(exited) \in Nat /\ Len(exited') = Len(exited) + 1
        /\ \A i \in 1 .. Len(exited) : exited'[i] = exited[i]
        /\ exited'[Len(exited) + 1] = d.rule
    BY <2>1, <2>3, AppendProperties, LenProperties DEF Typed
  <2>6. n + Len(exited) = Len(due)
    BY DEF ExitsMirrorEntries
  <2> HIDE DEF n
  <2>7. n \in Nat /\ Len(due) + 1 - (Len(exited) + 1) = n
    BY <2>2, <2>5, <2>6
  <2>8. ASSUME NEW i \in 1 .. Len(exited') PROVE exited'[i] = due[Len(due) + 1 - i]
    <3>1. CASE i = Len(exited) + 1
      BY <2>4, <2>5, <2>7, <3>1
    <3>2. CASE i \in 1 .. Len(exited)
      BY <2>5, <3>2 DEF ExitsMirrorEntries
    <3> QED
      BY <2>5, <3>1, <3>2
  <2>9. Len(defers') + Len(exited') = Len(due')
    BY <2>1, <2>2, <2>5, <2>6, <2>7
  <2>10. \A i \in 1 .. Len(defers') : defers'[i].rule = due[i]
    BY <2>2, <2>4
  <2> QED
    BY <2>1, <2>8, <2>9, <2>10 DEF ExitsMirrorEntries
<1>5. ASSUME NEW panics \in BOOLEAN, RawEnter(panics) \/ OriginalBody(panics) PROVE ExitsMirrorEntries'
  BY <1>1, <1>5 DEF RawEnter, OriginalBody
<1>6. CASE ApplyFuncRule \/ OptimizeTJumps \/ Leave \/ UNCHANGED vars
  BY <1>1, <1>6 DEF ApplyFuncRule, OptimizeTJumps, Leave, vars
<1> QED
  BY <1>2, <1>3, <1>4, <1>5, <1>6 DEF Next

\* The OnExit code that is due or has run is that of the rules passed, in the
\* reverse of their order, each once, whoever panics.
THEOREM HooksLeaveInReverse == Spec => []ExitsMirrorEntries
<1>1. Init => ExitsMirrorEntries
  BY DEF Init, ExitsMirrorEntries
<1>2. CInv => Typed /\ Placed /\ ContextsMatch
  BY DEF CInv
<1> QED
  BY <1>1, <1>2, MirrorNext, TrampolineInvariance, ChainInvariance, PTL DEF Spec

\* The hooks of a call nest, for any number of rules of any kind.
THEOREM HooksAlwaysNest == Spec => []HooksNest
<1>1. RuleOrder /\ ExitsMirrorEntries => HooksNest
  BY DEF HooksNest
<1> QED
  BY <1>1, HooksEnterInOrder, HooksLeaveInReverse, PTL
=============================================================================
