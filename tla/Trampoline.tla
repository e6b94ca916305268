----------------------------- MODULE Trampoline -----------------------------
(***************************************************************************)
(* What the instrument phase does to one function and what one call of the *)
(* result does.  The func rules that target the function are applied in    *)
(* turn: a hook rule inserts a trampoline-jump-if (tjump), a raw rule      *)
(* prepends its snippets.  Then every tjump is optimised.  A call runs the *)
(* statements from the top, the original body last, and the deferred calls *)
(* when it leaves.                                                         *)
(*                                                                         *)
(* A tjump nests the next one at the end of its else block, where nothing  *)
(* follows it, so a chain of tjumps reads as a list of statements; two     *)
(* adjacent tjumps are always links of one chain.  Hooks are external: a   *)
(* hook may store data in its CallContext, ask to skip the call if its     *)
(* source lets it, and panic.  Rules are numbered as they are applied.     *)
(***************************************************************************)
EXTENDS Integers, Sequences

CONSTANT N   \* the number of func rules on the function

ASSUME TrampolineAssumption == N \in Nat

Rule == 1 .. N

\* raw: UseRaw; enter, exit: OnEnter, OnExit are set; skips: the source of
\* the OnEnter hook mentions SetSkipCall or lets its CallContext escape.
Attribute == {a \in [raw : BOOLEAN, enter : BOOLEAN, exit : BOOLEAN, skips : BOOLEAN] :
                /\ a.enter \/ a.exit
                /\ a.skips => a.enter /\ ~ a.raw}

VARIABLES
  attr,     \* the attributes of each rule
  applied,  \* the number of rules applied so far
  body,     \* the statements of the function
  form,     \* the shape of each rule's tjump
  mode,     \* "compile", "run", "return" or "panic" (deferred calls run),
            \* "returned" or "panicked"
  pc,       \* the statement a call runs next
  defers,   \* the calls it has deferred, [rule, ctx]: ctx is the rule whose
            \* OnEnter trampoline made the CallContext, or Fresh
  ctx,      \* the CallContext of each rule: the rule whose hook stored data
            \* in it, and SkipCall
  passed,   \* history: the rules whose statement has run, in that order
  due,      \* history: those of them that have OnExit code
  exited,   \* history: the rules whose OnExit code has run, in that order
  found,    \* history: the data each OnExit hook found in its CallContext
  ran,      \* history: how often the original body ran
  threw     \* history: the original body or a raw snippet panicked

code == <<attr, applied, body, form>>
vars == <<attr, applied, body, form, mode, pc, defers, ctx, passed, due, exited,
          found, ran, threw>>

NoData == 0
Fresh == 0
NewContext == [data |-> NoData, skip |-> FALSE]

Stmt(op, r) == [op |-> op, rule |-> r]
Original == Stmt("original", 0)

Init ==
  /\ attr \in [Rule -> Attribute]
  /\ applied = 0
  /\ body = <<Original>>
  /\ form = [r \in Rule |-> [calls |-> TRUE, tests |-> TRUE, defers |-> TRUE, ctx |-> r]]
  /\ mode = "compile"
  /\ pc = 1
  /\ defers = <<>>
  /\ ctx = [r \in Rule |-> NewContext]
  /\ passed = <<>>
  /\ due = <<>>
  /\ exited = <<>>
  /\ found = [r \in Rule |-> NoData]
  /\ ran = 0
  /\ threw = FALSE
-----------------------------------------------------------------------------
(* The instrument phase.                                                   *)

\* findJumpPoint: the end of the chain of tjumps at the top, if there is one.
ChainLength(b) == CHOOSE k \in 0 .. (Len(b) - 1) :
                    /\ \A i \in 1 .. k : b[i].op = "tjump"
                    /\ b[k + 1].op # "tjump"

\* Mutant: a tjump is always put in front.
InsertTJumpFirst(b, r) == <<Stmt("tjump", r)>> \o b

\* Mutant: the new tjump goes behind the statement after the chain.
InsertTJumpPast(b, r) ==
  LET k == ChainLength(b) + 1
  IN  SubSeq(b, 1, k) \o <<Stmt("tjump", r)>> \o SubSeq(b, k + 1, Len(b))

InsertTJump(b, r) ==
  LET k == ChainLength(b)
  IN  SubSeq(b, 1, k) \o <<Stmt("tjump", r)>> \o SubSeq(b, k + 1, Len(b))

\* The OnEnter snippet goes to the front, and the deferred OnExit snippet in
\* front of that.
InsertRaw(b, r) ==
  (IF attr[r].exit THEN <<Stmt("rawexit", r)>> ELSE <<>>)
    \o (IF attr[r].enter THEN <<Stmt("rawenter", r)>> ELSE <<>>)
    \o b

ApplyFuncRule ==
  /\ mode = "compile" /\ applied < N
  /\ applied' = applied + 1
  /\ body' = IF attr[applied + 1].raw THEN InsertRaw(body, applied + 1)
             ELSE InsertTJump(body, applied + 1)
  /\ UNCHANGED <<attr, form, mode, pc, defers, ctx, passed, due, exited, found, ran, threw>>

\* Mutant: flattening a tjump builds the context on the fly as well.
OptimizedFresh(a, r) ==
  [calls |-> a.enter, tests |-> a.skips, defers |-> a.exit, ctx |-> IF a.skips THEN r ELSE Fresh]

\* optimizeTJumps on one tjump: without an OnExit hook it defers nothing;
\* without an OnEnter hook it calls nothing, its condition is false and the
\* OnExit trampoline gets a new context; with an OnEnter hook that cannot
\* skip, its condition is false.
Optimized(a, r) ==
  [calls |-> a.enter, tests |-> a.skips, defers |-> a.exit, ctx |-> IF a.enter THEN r ELSE Fresh]

OptimizeTJumps ==
  /\ mode = "compile" /\ applied = N
  /\ form' = [r \in Rule |-> IF attr[r].raw THEN form[r] ELSE Optimized(attr[r], r)]
  /\ mode' = "run"
  /\ UNCHANGED <<attr, applied, body, pc, defers, ctx, passed, due, exited, found, ran, threw>>
-----------------------------------------------------------------------------
(* A call.                                                                 *)

At(op) == mode = "run" /\ body[pc].op = op
Here == body[pc].rule

\* The call passes the statement that holds the hooks of rule r.
Pass(r) == /\ passed' = Append(passed, r)
           /\ due' = IF attr[r].exit THEN Append(due, r) ELSE due

\* Mutant: a panic of an OnEnter hook is not recovered.
TJumpUnprotected(stores, asks, panics) ==
  /\ At("tjump")
  /\ stores => form[Here].calls
  /\ asks => attr[Here].skips
  /\ ctx' = [ctx EXCEPT ![Here] = [data |-> IF stores THEN Here ELSE NoData, skip |-> asks]]
  /\ Pass(Here)
  /\ IF panics /\ attr[Here].enter
     THEN mode' = "panic" /\ UNCHANGED <<pc, defers>>
     ELSE /\ defers' = IF form[Here].defers
                       THEN Append(defers, [rule |-> Here, ctx |-> form[Here].ctx])
                       ELSE defers
          /\ pc' = pc + 1
          /\ UNCHANGED mode
  /\ UNCHANGED <<code, exited, found, ran, threw>>

\* The OnEnter trampoline makes a context, reads its SkipCall into skip and
\* then calls the hook, so skip is the SkipCall of a new context.  A panic of
\* the hook ends in the trampoline, whose results are set by then.  If skip
\* holds and is tested, the OnExit trampoline is called and the call returns;
\* otherwise that call is deferred.
TJump(stores, asks, panics) ==
  LET skip == NewContext.skip
      out  == form[Here].tests /\ skip
  IN  /\ At("tjump")
      /\ stores => form[Here].calls
      /\ asks => attr[Here].skips
      /\ ctx' = [ctx EXCEPT ![Here] = [data |-> IF stores THEN Here ELSE NoData, skip |-> asks]]
      /\ Pass(Here)
      /\ defers' = IF form[Here].defers /\ ~ out
                   THEN Append(defers, [rule |-> Here, ctx |-> form[Here].ctx])
                   ELSE defers
      /\ exited' = IF out /\ attr[Here].exit THEN Append(exited, Here) ELSE exited
      /\ found' = IF out THEN [found EXCEPT ![Here] = ctx'[Here].data] ELSE found
      /\ mode' = IF out THEN "return" ELSE "run"
      /\ pc' = pc + 1
      /\ UNCHANGED <<code, ran, threw>>

\* A raw OnEnter snippet runs in the function itself: nothing recovers it.
RawEnter(panics) ==
  /\ At("rawenter")
  /\ IF panics THEN mode' = "panic" /\ threw' = TRUE /\ UNCHANGED pc
     ELSE pc' = pc + 1 /\ UNCHANGED <<mode, threw>>
  /\ UNCHANGED <<code, defers, ctx, passed, due, exited, found, ran>>

\* defer func(){ OnExit }()
RawDefer ==
  /\ At("rawexit")
  /\ defers' = Append(defers, [rule |-> Here, ctx |-> Fresh])
  /\ Pass(Here)
  /\ pc' = pc + 1
  /\ UNCHANGED <<code, mode, ctx, exited, found, ran, threw>>

OriginalBody(panics) ==
  /\ At("original")
  /\ ran' = ran + 1
  /\ threw' = panics
  /\ mode' = IF panics THEN "panic" ELSE "return"
  /\ UNCHANGED <<code, pc, defers, ctx, passed, due, exited, found>>

Leaving == mode \in {"return", "panic"}

\* The last deferred call runs.  An OnExit trampoline recovers its hook and
\* nothing else; a raw snippet that panics makes the call panic.
Deferred(panics) ==
  /\ Leaving /\ defers # <<>>
  /\ LET d == defers[Len(defers)]
     IN  /\ exited' = Append(exited, d.rule)
         /\ found' = [found EXCEPT ![d.rule] = IF d.ctx = Fresh THEN NoData ELSE ctx[d.ctx].data]
         /\ mode' = IF panics /\ attr[d.rule].raw THEN "panic" ELSE mode
         /\ threw' = (threw \/ (panics /\ attr[d.rule].raw))
  /\ defers' = SubSeq(defers, 1, Len(defers) - 1)
  /\ UNCHANGED <<code, pc, ctx, passed, due, ran>>

Leave ==
  /\ Leaving /\ defers = <<>>
  /\ mode' = IF mode = "return" THEN "returned" ELSE "panicked"
  /\ UNCHANGED <<code, pc, defers, ctx, passed, due, exited, found, ran, threw>>

Next == \/ ApplyFuncRule
        \/ OptimizeTJumps
        \/ \E stores, asks, panics \in BOOLEAN : TJump(stores, asks, panics)
        \/ \E panics \in BOOLEAN : RawEnter(panics) \/ OriginalBody(panics) \/ Deferred(panics)
        \/ RawDefer
        \/ Leave

Spec == Init /\ [][Next]_vars
-----------------------------------------------------------------------------
(* Properties.                                                             *)

\* Some OnEnter hook has called SetSkipCall(true).
Asked == \E r \in Rule : ctx[r].skip

\* Every variable has its type; the original body stays the last statement,
\* and a call never runs past it.
TypeOK ==
  /\ attr \in [Rule -> Attribute]
  /\ applied \in 0 .. N
  /\ \A i \in 1 .. Len(body) : body[i] \in
       [op : {"tjump", "rawenter", "rawexit"}, rule : Rule] \union {Original}
  /\ \A i \in 1 .. Len(body) : body[i] = Original <=> i = Len(body)
  /\ form \in [Rule -> [calls : BOOLEAN, tests : BOOLEAN, defers : BOOLEAN,
                        ctx : Rule \union {Fresh}]]
  /\ mode \in {"compile", "run", "return", "panic", "returned", "panicked"}
  /\ pc \in 1 .. Len(body)
  /\ \A i \in 1 .. Len(defers) : defers[i] \in [rule : Rule, ctx : Rule \union {Fresh}]
  /\ ctx \in [Rule -> [data : Rule \union {NoData}, skip : BOOLEAN]]
  /\ passed \in Seq(Rule) /\ due \in Seq(Rule) /\ exited \in Seq(Rule)
  /\ found \in [Rule -> Rule \union {NoData}]
  /\ ran \in Nat
  /\ threw \in BOOLEAN

\* OnEnter hooks run in the order of the rules, whatever the other rules on
\* the function have or lack.  Only a raw rule between two hook rules turns
\* them around: the later one starts a new chain in front of the snippet.
RuleOrder == \A i, j \in 1 .. Len(passed) :
  i < j /\ ~ attr[passed[i]].raw /\ ~ attr[passed[j]].raw =>
    \/ passed[i] < passed[j]
    \/ \E r \in passed[j] .. passed[i] : attr[r].raw

\* OnExit code mirrors the entries: the rules whose OnExit code is due or has
\* run are those the call has passed that have one, each once, the last
\* passed first; also when the body or a snippet panics.
ExitsMirrorEntries ==
  /\ Len(defers) + Len(exited) = Len(due)
  /\ \A i \in 1 .. Len(defers) : defers[i].rule = due[i]
  /\ \A i \in 1 .. Len(exited) : exited[i] = due[Len(due) + 1 - i]

\* The hooks of a call nest: entered in the order of the rules, left in the
\* reverse of the order they were entered in.
HooksNest == RuleOrder /\ ExitsMirrorEntries

\* An OnExit hook finds in its CallContext what the OnEnter hook of the same
\* rule stored there in this call, and nothing if there is no such hook,
\* although the optimisation passes contexts in two ways.
DataReachesExit == \A i \in 1 .. Len(exited) :
  ~ attr[exited[i]].raw => found[exited[i]] = ctx[exited[i]].data

\* A panic of a hook reaches neither the instrumented function nor its
\* caller, and no hook swallows a panic of the function.
PanicsContained == mode \in {"panic", "panicked"} <=> threw

\* The body runs at most once, before any OnExit code, and is left out only
\* by a call that was asked to skip it or that a raw snippet made panic.
BodyRuns == /\ ran <= 1
            /\ exited # <<>> \/ mode = "returned" => ran = 1 \/ threw \/ Asked

\* Hooks cannot be felt: their panics stay inside, and the body runs.
HooksUnfelt == PanicsContained /\ BodyRuns

\* api.go:28: "Skip the original function call".  The trampoline reads
\* SkipCall before the hook that may set it runs.
SkipHonoured == Asked => ran = 0
=============================================================================
