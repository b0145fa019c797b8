------------------------------- MODULE Policy -------------------------------
(***************************************************************************)
(* What a landing must pass: sigbound.policy as loaded from the tree of    *)
(* the pinned base and resolved against the flags (cmd/sig/policy.go,      *)
(* pkg/policy), the holdback of branches that touch an ack-path or the     *)
(* policy itself, -verify-impact (impact.go), -verify-cache                *)
(* (verifycache.go), the fixer's refusals, and the gate that an ack faces  *)
(* again when the base moved (park.go ackReverify).                        *)
(*                                                                         *)
(* A tree gives every path its content.  The content of the policy file    *)
(* stands for the policy it parses to; every other path is the one file of *)
(* a Go package of its own.  A verify command is a set of members, all of  *)
(* which must pass; whether one does is not a function of the tree, for    *)
(* it may be flaky.  Merge conflicts are module Occ's business.            *)
(***************************************************************************)
EXTENDS Integers, FiniteSets

CONSTANTS Runs,        \* calls of driveRun
          Branches,    \* each run's agent branches
          PolicyFile,
          Texts,       \* its contents
          PolicyAt,    \* what each of them parses to
          Packages,    \* the other paths
          Contents,    \* their contents
          Imports,     \* <<p, q>>: package p imports package q
          Members,     \* verify commands
          Flags,       \* each run's request
          Origin,      \* what every package holds at first
          RepairMax,
          WriteMax,    \* bound: paths a branch changes
          FixMax,      \* bound: paths a fix or a push changes
          MaxLive,     \* bound: runs at work at once
          MaxBase      \* bound: landings and pushes in a behaviour

Paths == Packages \union {PolicyFile}
Trees == {t \in [Paths -> Contents \union Texts] :
             t[PolicyFile] \in Texts /\ \A p \in Packages : t[p] \in Contents}
Commits == [id : Nat, tree : Trees]

\* What the policy file may ask for; an absent one is valid and asks for nothing.
Policies == [valid : BOOLEAN, verify : SUBSET Members, strict : BOOLEAN,
             ack : SUBSET Paths, deny : SUBSET Paths, maxAgents : Nat]

Requests == [verify : SUBSET Members, impact : BOOLEAN, cache : BOOLEAN,
             lanes : {"unset", "weak", "strict"}]

ASSUME PolicyAssumption ==
    /\ PolicyFile \notin Packages
    /\ Imports \subseteq Packages \X Packages
    /\ PolicyAt \in [Texts -> Policies]
    /\ Flags \in [Runs -> Requests]
    /\ Origin \in Contents
    /\ RepairMax \in Nat
    /\ {WriteMax, FixMax, MaxLive, MaxBase} \subseteq Nat

VARIABLES base,     \* the base ref: a commit's number and its tree
          cache,    \* .git/sigbound/verify-cache
          pc,
          mem,      \* what each run holds in memory
          parked    \* park.json

vars == <<base, cache, pc, mem, parked>>

-----------------------------------------------------------------------------
(* The policy's verdicts.                                                    *)

policyOf(tree) == PolicyAt[tree[PolicyFile]]

\* Parse and loadPolicy fail closed; a deliberate weaker flag and too many branches
\* are refused too.
acceptable(pol, flags, S) ==
    /\ pol.valid
    /\ ~(pol.strict /\ flags.lanes = "weak")
    /\ pol.maxAgents > 0 => Cardinality(S) <= pol.maxAgents

\* (mutant: an impact command survives the policy's battery)
resolveKeepingImpact(pol, flags) ==
    [verify |-> pol.verify \union flags.verify, impact |-> flags.impact,
     strict |-> pol.strict \/ flags.lanes = "strict", cache |-> flags.cache]

\* The battery is the policy's with the request's appended; floors are raised.
resolvePolicy(pol, flags) ==
    [verify |-> pol.verify \union flags.verify,
     impact |-> flags.impact /\ pol.verify = {},
     strict |-> pol.strict \/ flags.lanes = "strict",
     cache  |-> flags.cache]

validateVerifyPreconditions(e) == e.impact => e.verify # {}

\* HoldReason of an ordinary landing.
HoldReason(paths, pol) ==
    IF PolicyFile \in paths THEN "policy-modified"
    ELSE IF paths \intersect pol.ack # {} THEN "ack-paths" ELSE "none"

\* (mutant: the fixer is only told of repair-deny)
RepairDenyOnly(paths, pol) == paths \intersect pol.deny # {}

RepairRefusal(paths, pol) ==
    PolicyFile \in paths \/ paths \intersect pol.deny # {} \/ paths \intersect pol.ack # {}

\* The group of a branch: everything its write-set is entangled with.
Closed(ch, S) == \A b \in S, c \in Branches \ S : DOMAIN ch[b] \intersect DOMAIN ch[c] = {}
groupOf(ch, b) == {c \in Branches : \A S \in SUBSET Branches : b \in S /\ Closed(ch, S) => c \in S}

\* A group is held when any of its members triggers.
policyHoldback(ch, pol) ==
    {b \in Branches : \E c \in groupOf(ch, b) : HoldReason(DOMAIN ch[c], pol) # "none"}

writes(ch, S) == UNION {DOMAIN ch[b] : b \in S}

\* S merged onto a tree; of two that write a path either may have it.
Merged(tree, ch, S) ==
    {t \in Trees : \A p \in Paths :
        IF p \in writes(ch, S) THEN \E b \in S : p \in DOMAIN ch[b] /\ t[p] = ch[b][p]
        ELSE t[p] = tree[p]}

-----------------------------------------------------------------------------
(* -verify-impact.                                                           *)

\* impactedPackages: the closure of the changed packages under "is imported by".
impactedPackages(S) ==
    {p \in Packages : \A T \in SUBSET Packages :
        (S \subseteq T /\ \A e \in Imports : e[2] \in T => e[1] \in T) => p \in T}

\* computeImpact, when nothing is in doubt: no file is not Go.  Other doubts (go
\* list fails) may arise at any time.
Full == [kind |-> "full", pkgs |-> {}]
Scoped(S) == [kind |-> "impact", pkgs |-> impactedPackages(S)]

scopes(m) ==
    {Full} \union
    IF m.eff.impact /\ m.changed # {} /\ m.changed \subseteq Packages
    THEN {Scoped(m.changed)} ELSE {}

-----------------------------------------------------------------------------
(* runVerify, under the command it resolved to.                              *)

\* The command: the impact command (here no member) takes the place of -verify.
Command(verify, sc) == IF sc = Full THEN verify ELSE {}

\* What stands behind a verdict: the command and the tree it really ran on.
Verdict(m, sc, ok) ==
    [tree |-> m.cand, command |-> Command(m.eff.verify, sc), scope |-> sc, ok |-> ok]
NoVerdict == [ok |-> FALSE]

\* The tree and the command that runs: the impact command comes with its packages.
verifyCacheKey(m, sc) == <<m.cand, Command(m.eff.verify, sc), sc>>

entry(m, sc, v) == [key |-> verifyCacheKey(m, sc), verdict |-> v]
store(m, sc, v) == cache' = IF m.eff.cache THEN cache \union {entry(m, sc, v)} ELSE cache

\* A red verdict is never stored.
Fail(m, sc) == UNCHANGED cache

\* A green one is read from the cache, or earned and then remembered: v is the
\* verdict that stands behind it.
Pass(m, sc, v) ==
    \/ /\ m.eff.cache /\ entry(m, sc, v) \in cache
       /\ UNCHANGED cache
    \/ /\ v = Verdict(m, sc, TRUE)
       /\ store(m, sc, v)

verdicts(m, sc) == {e.verdict : e \in cache} \union {Verdict(m, sc, TRUE)}

-----------------------------------------------------------------------------
Gone == [held |-> {}]   \* the memory of a run that has ended

Init ==
    /\ base \in {[id |-> 0, tree |-> t] : t \in {t \in Trees : \A p \in Packages : t[p] = Origin}}
    /\ cache = {}
    /\ pc = [r \in Runs |-> "idle"]
    /\ mem = [r \in Runs |-> Gone]
    /\ parked = [r \in Runs |-> Gone]

Live(r) == pc[r] \notin {"idle", "parked", "end"}

Goto(r, l) == pc' = [pc EXCEPT ![r] = l]
Hold(r, m) == mem' = [mem EXCEPT ![r] = m]
Exit(r)    == Goto(r, "end") /\ Hold(r, Gone)

\* driveRun: pin, load, resolve, refuse.
Begin(r) ==
    /\ pc[r] = "idle" /\ Cardinality({q \in Runs : Live(q)}) < MaxLive
    /\ LET pol == policyOf(base.tree)
           e == resolvePolicy(pol, Flags[r])
       IN  IF acceptable(pol, Flags[r], Branches) /\ validateVerifyPreconditions(e)
           THEN /\ Goto(r, "agents")
                /\ Hold(r, [pin |-> base, eff |-> e, held |-> {}, cand |-> base.tree])
           ELSE Exit(r)
    /\ UNCHANGED <<base, cache, parked>>

\* What somebody may do to a tree: other contents for some paths.
Edits(tree, n) ==
    UNION {{ch \in [S -> Contents \union Texts] :
               \A p \in S : ch[p] # tree[p] /\ ch[p] \in IF p = PolicyFile THEN Texts ELSE Contents}
           : S \in {S \in SUBSET Paths : Cardinality(S) <= n}}

Edited(tree, ch) == [p \in Paths |-> IF p \in DOMAIN ch THEN ch[p] ELSE tree[p]]

\* The agents end; holdback and integration follow.
Integrate(r) ==
    /\ pc[r] = "agents"
    /\ \E ch \in [Branches -> Edits(mem[r].cand, WriteMax)] :
          LET h == policyHoldback(ch, policyOf(mem[r].pin.tree))
          IN  \E t \in Merged(mem[r].cand, ch, Branches \ h) :
                Hold(r, [pin |-> mem[r].pin, eff |-> mem[r].eff, cand |-> t, held |-> h,
                         changes |-> [b \in h |-> ch[b]], clear |-> Branches # h,
                         changed |-> writes(ch, Branches \ h), tries |-> 0,
                         scope |-> Full, verdict |-> NoVerdict])
    /\ Goto(r, IF mem[r].eff.verify = {} THEN "land" ELSE "verify")
    /\ UNCHANGED <<base, cache, parked>>

\* -verify, or the impact command in its place.
Verify(r) ==
    /\ pc[r] = "verify"
    /\ \E sc \in scopes(mem[r]) :
          \/ /\ \E v \in verdicts(mem[r], sc) :
                   Pass(mem[r], sc, v) /\ Hold(r, [mem[r] EXCEPT !.scope = sc, !.verdict = v])
             /\ Goto(r, "land")
          \/ /\ Fail(mem[r], sc)
             /\ \/ mem[r].tries < RepairMax /\ Goto(r, "repair") /\ UNCHANGED mem
                \/ mem[r].tries = RepairMax /\ Exit(r)
    /\ UNCHANGED <<base, parked>>

\* (mutant: the fixer's paths do not join changedFiles)
FixedUncounted(m, ch) == [m EXCEPT !.cand = Edited(m.cand, ch), !.tries = @ + 1]

Fixed(m, ch) == [m EXCEPT !.cand = Edited(m.cand, ch), !.tries = @ + 1,
                          !.changed = @ \union DOMAIN ch]

\* runRepair: a commit the policy allows; or one it refuses, or none.
Repair(r) ==
    /\ pc[r] = "repair"
    /\ \/ \E ch \in Edits(mem[r].cand, FixMax) :
             /\ DOMAIN ch # {} /\ ~RepairRefusal(DOMAIN ch, policyOf(mem[r].pin.tree))
             /\ Hold(r, Fixed(mem[r], ch)) /\ Goto(r, "verify")
       \/ Exit(r)
    /\ UNCHANGED <<base, cache, parked>>

\* The base moves to a candidate, from the commit it was computed against.
Swap(from, m) ==
    /\ base.id = from.id /\ base.id < MaxBase
    /\ base' = [id |-> base.id + 1, tree |-> m.cand]

\* landRef, when anything was merged or fixed; then the held groups' turn.
Land(r) ==
    /\ pc[r] = "land"
    /\ LET m == mem[r]
           moves == m.clear \/ m.tries > 0
           onto(c) == IF m.held = {} THEN Exit(r)
                      ELSE Goto(r, "park") /\ Hold(r, [m EXCEPT !.pin = c])
       IN  \/ moves /\ Swap(m.pin, m) /\ onto(base')
           \/ moves /\ base.id # m.pin.id /\ Exit(r) /\ UNCHANGED <<base>>
           \/ ~moves /\ onto(m.pin) /\ UNCHANGED <<base>>
    /\ UNCHANGED <<cache, parked>>

-----------------------------------------------------------------------------
(* Parks and acks: never under -verify-impact.                               *)

\* integrateVerifyPark: the held branches on the commit c, to be verified by e.
Candidates(m, c, e) ==
    {[pin |-> c, eff |-> e, cand |-> t, held |-> m.held, changes |-> m.changes,
      scope |-> Full, verdict |-> NoVerdict] : t \in Merged(c.tree, m.changes, m.held)}

\* The verdict on a candidate: nothing says no where there is no command.
PassFull(r, v) ==
    IF mem[r].eff.verify = {} THEN v = NoVerdict /\ UNCHANGED cache
    ELSE Pass(mem[r], Full, v)

FullVerdicts(r) == verdicts(mem[r], Full) \union {NoVerdict}

\* parkHeldGroups: onto what the run landed, by the battery that judged it.
Park(r) ==
    /\ pc[r] = "park"
    /\ \E m \in Candidates(mem[r], mem[r].pin, [mem[r].eff EXCEPT !.impact = FALSE]) : Hold(r, m)
    /\ Goto(r, "parking")
    /\ UNCHANGED <<base, cache, parked>>

\* A green candidate is recorded; a red one is dropped.
VerifyPark(r) ==
    /\ pc[r] = "parking"
    /\ \/ /\ \E v \in FullVerdicts(r) :
                PassFull(r, v) /\ parked' = [parked EXCEPT ![r] = [mem[r] EXCEPT !.verdict = v]]
          /\ Goto(r, "parked") /\ Hold(r, Gone)
       \/ Fail(mem[r], Full) /\ Exit(r) /\ UNCHANGED parked
    /\ UNCHANGED <<base>>

\* ackRun: the recorded tree, if the base is the one it was verified on.
Ack(r) ==
    /\ pc[r] = "parked"
    /\ Swap(parked[r].pin, parked[r]) /\ Exit(r)
    /\ UNCHANGED <<cache, parked>>

\* ackReverify: the request's own command under the new base's policy, no cache.
\* A policy that refuses is an attempt that failed.
ackRequest(r) == [verify |-> Flags[r].verify, impact |-> FALSE, cache |-> FALSE, lanes |-> "unset"]

Reverify(r) ==
    /\ pc[r] = "parked" /\ base.id # parked[r].pin.id
    /\ acceptable(policyOf(base.tree), ackRequest(r), parked[r].held)
    /\ \E m \in Candidates(parked[r], base, resolvePolicy(policyOf(base.tree), ackRequest(r))) : Hold(r, m)
    /\ Goto(r, "reverify")
    /\ UNCHANGED <<base, cache, parked>>

\* Green: recorded and landed, or, when the base moved meanwhile, parked on.
VerifyAck(r) ==
    /\ pc[r] = "reverify"
    /\ \/ \E v \in FullVerdicts(r) :
             LET m == [mem[r] EXCEPT !.verdict = v]
             IN  /\ PassFull(r, v)
                 /\ parked' = [parked EXCEPT ![r] = m]
                 /\ \/ Swap(m.pin, m) /\ Exit(r)
                    \/ /\ base.id # m.pin.id /\ Goto(r, "parked") /\ Hold(r, Gone)
                       /\ UNCHANGED <<base>>
       \/ Fail(mem[r], Full) /\ Goto(r, "parked") /\ Hold(r, Gone) /\ UNCHANGED <<base, parked>>

\* Somebody pushes.
Push ==
    /\ base.id < MaxBase
    /\ \E ch \in Edits(base.tree, FixMax) : base' = [id |-> base.id + 1, tree |-> Edited(base.tree, ch)]
    /\ UNCHANGED <<cache, pc, mem, parked>>

-----------------------------------------------------------------------------
RunStep(r) == \/ Begin(r) \/ Integrate(r) \/ Verify(r) \/ Repair(r) \/ Land(r)
              \/ Park(r) \/ VerifyPark(r) \/ Ack(r) \/ Reverify(r) \/ VerifyAck(r)

Next == Push \/ \E r \in Runs : RunStep(r)

Spec == Init /\ [][Next]_vars

-----------------------------------------------------------------------------
(* Properties.                                                               *)

\* r lands: what moved the base, and what the move changed.
Lands(r) == base' # base /\ pc'[r] # pc[r]
ByAck(r) == pc[r] \in {"parked", "reverify"}
landing(r) == IF ByAck(r) THEN parked'[r] ELSE mem[r]
Touched == {p \in Paths : base.tree[p] # base.tree'[p]}

\* Nothing a run lands on its own touches the policy file or an ack-path of the
\* policy in force on the base at that moment: not an agent, not a branch that is
\* entangled with one, not the fixer, whatever was pushed since the run read the
\* policy (policy.go: "a change cannot loosen the bar that gates it").
AckPathsNeedAnAck ==
    [][\A r \in Runs : Lands(r) /\ ~ByAck(r) =>
         HoldReason(Touched, policyOf(base.tree)) = "none"]_vars

\* Whatever lands, acked or not, was asked for under a policy that parses, was held
\* to its floors, and its very tree passed the whole battery of that policy and of
\* the request, or the impact command when the policy has no battery: for real,
\* not in another command's stead (verifycache.go: "A cache hit must NEVER weaken
\* the -verify gate"; park.go: "an ack cannot land under a laxer bar").
VerifiedInFull ==
    [][\A r \in Runs : Lands(r) =>
         LET pol == policyOf(base.tree)
             m == landing(r)
             asked == pol.verify \union Flags[r].verify
         IN  /\ base.tree' = m.cand /\ pol.valid
             /\ pol.strict => m.eff.strict
             /\ asked # {} => m.verdict = [tree |-> m.cand, command |-> Command(asked, m.scope),
                                           scope |-> m.scope, ok |-> TRUE]
             /\ pol.verify # {} \/ ByAck(r) => m.scope = Full]_vars

\* A landing that only the impact command judged changed nothing but packages it
\* was given, and it was given every package that imports one that changed, fixes
\* by the fixer included (run.go verifyWithRepair: "re-deciding scope from scratch").
ScopeCoversChange ==
    [][\A r \in Runs : Lands(r) /\ landing(r).scope # Full =>
         Touched \subseteq Packages /\ impactedPackages(Touched) \subseteq landing(r).scope.pkgs]_vars
=============================================================================
