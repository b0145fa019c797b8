------------------------------- MODULE Watch -------------------------------
(***************************************************************************)
(* The watch loop of `sig serve -watch' for one cell (cmd/sig/watch.go,    *)
(* cmd/sig/intent.go): authors push branches, the loop collects what has   *)
(* arrived, takes it into a run, settles what that run decided, and every  *)
(* other due tick at most fires one scheduled intent.                      *)
(*                                                                         *)
(* The loop is serial; what interleaves with it are the authors, everybody *)
(* else who moves the base or holds the cell's slot, acks, kills, a        *)
(* shutdown, and the loss of the records the loop keeps.                   *)
(*                                                                         *)
(* A branch's head is the version last pushed to it, <<branch, version>>   *)
(* stands for the commit.  A commit contains the base until the base moves *)
(* (every landing is a new merge commit), and is merged once it landed.    *)
(* Runs are module Run's; here one begins, ends in one of the ways it can, *)
(* and leaves a report and perhaps a park.                                 *)
(***************************************************************************)
EXTENDS Integers, Sequences, FiniteSets

CONSTANTS Pushed,      \* branches authors push: the first numbers, in name order
          Outside,     \* those of them outside agent/ and imported/
          Fires,       \* names for the branches of fires, numbers above
          Intents,     \* a sequence: by priority, then id
          Versions,    \* bound: pushes to a branch
          MaxEvents,   \* bound: pushes and mishaps, together
          Policy,      \* the watch keys and verify line of sigbound.policy
          Flags,       \* their flags
          Explicit,    \* ... and which of those were given
          MaxAgents    \* -max-agents-per-run, 0 for no limit

Branches == Pushed \union Fires
Commits  == Branches \X (1..Versions)
IntentSet == {Intents[n] : n \in 1..Len(Intents)}

ASSUME WatchAssumption ==
    /\ Pushed \in SUBSET Nat /\ Fires \in SUBSET Nat /\ Pushed \intersect Fires = {}
    /\ IsFiniteSet(Pushed) /\ IsFiniteSet(Fires)
    /\ Outside \subseteq Pushed
    /\ Versions \in Nat \ {0} /\ MaxAgents \in Nat
    /\ MaxEvents \in Nat
    /\ Flags.maxRed \in Nat \ {0}
    /\ Intents \in Seq(IntentSet)

VARIABLES head,     \* the version a branch is at, 0 for no branch
          onBase,   \* commits that contain the base
          merged,   \* commits the base contains
          parks,    \* open parks that hold a commit
          accepted, \* fire branches whose intent's acceptance passes
          reached,  \* pushed commits that a run of the loop landed or parked (history)
          denied,   \* ... whose landing the base refused (history)
          slot,     \* "free", or taken: by us, or by a run or ack over HTTP
          serving, cancelled,
          mishaps,  \* kills, shutdowns, records lost, runs of others (history)
          seen,     \* watch-seen.json
          fired,    \* intent-fired.json: the branches it names
          order,    \* ... and the intents, least recently fired first
          ripe,     \* intents whose schedule has elapsed since
          unnamed,  \* fires' branches that a lost or unwritten record omits (history)
          queued,   \* s.queued
          turn,     \* s.intentTick: the last due tick fired
          stage, due,  \* where the loop is, and in what kind of tick
          job,      \* what the run in flight is: a "cycle" or a "fire"
          batch,    \* what it took, at the commit it saw
          driven,   \* what the run adopted, at the commit it will merge
          moved,    \* the base has left the run's pin
          report    \* branches its report says landed, and parked

world == <<head, onBase, merged, parks, accepted, reached, denied>>
files == <<seen, fired, order, ripe, unnamed>>
loop  == <<turn, stage, due, job, batch, driven, moved, report>>
watchVars == <<world, slot, serving, mishaps, cancelled, files, queued, loop>>

None   == [ver |-> 0, kind |-> "none", red |-> 0]
Empty  == [b \in Branches |-> 0]
NoReport == [landed |-> {}, parked |-> {}]

-----------------------------------------------------------------------------
(* resolveWatchConfig: the policy sets the cadence, a flag against it is an *)
(* error, and so is a cell that nothing verifies.                           *)

Keys == {"batch", "maxRed"}
cfg  == [k \in Keys |-> IF Policy[k] > 0 THEN Policy[k] ELSE Flags[k]]

startWatch == /\ Policy.verify \/ Flags.verify
              /\ \A k \in Keys : ~(Policy[k] > 0 /\ k \in Explicit)

WatchInit ==
    /\ head = Empty /\ onBase = {} /\ merged = {} /\ parks = [c \in Commits |-> 0]
    /\ accepted = {} /\ reached = {} /\ denied = {} /\ slot = "free"
    /\ serving = startWatch /\ mishaps = 0 /\ cancelled = FALSE
    /\ seen = [b \in Branches |-> None] /\ unnamed = {}
    /\ fired = [i \in IntentSet |-> {}] /\ order = Intents /\ ripe = IntentSet
    /\ queued = {} /\ turn = FALSE
    /\ stage = "idle" /\ due = FALSE /\ job = "none" /\ batch = Empty /\ driven = Empty
    /\ moved = FALSE /\ report = NoReport

-----------------------------------------------------------------------------
(* The world around the loop.                                               *)

\* (bound)
Arrived == {c \in Pushed \X (1..Versions) : c[2] <= head[c[1]]}
MayHappen == mishaps + Cardinality(Arrived) < MaxEvents

\* A new version, on top of the base or of an older one.
Push(b) ==
    /\ b \in Pushed /\ head[b] < Versions /\ MayHappen
    /\ head' = [head EXCEPT ![b] = @ + 1]
    /\ onBase' \in {onBase, onBase \union {<<b, head[b] + 1>>}}
    /\ UNCHANGED <<merged, parks, accepted, reached, denied, slot, serving, mishaps,
                   cancelled, files, queued, loop>>

\* (bound) What the loop looks at only when it starts a tick changes between ticks.
Between == stage = "idle"

\* The base moves: no commit contains it any more.
Pinned == stage \in {"resolve", "run"}
BaseMoves == onBase' = {} /\ moved' = Pinned

Acked(c) ==
    /\ Between /\ parks[c] > 0 /\ slot = "free"
    /\ parks' = [parks EXCEPT ![c] = 0]
    /\ \/ merged' = merged \union {c} /\ BaseMoves
       \/ UNCHANGED <<merged, onBase, moved>>
    /\ UNCHANGED <<head, accepted, reached, denied, slot, serving, mishaps, cancelled,
                   files, queued, turn, stage, due, job, batch, driven, report>>

\* Somebody pushes to the base, or a run over HTTP takes the slot and gives it back.
OtherPush ==
    /\ stage = "idle" \/ stage = "adopt" \/ Pinned
    /\ (onBase # {} \/ (Pinned /\ ~moved)) /\ BaseMoves
    /\ UNCHANGED <<head, merged, parks, accepted, reached, denied, slot, serving, mishaps,
                   cancelled, files, queued, turn, stage, due, job, batch, driven, report>>

OtherRun ==
    /\ \/ Between /\ slot = "free" /\ MayHappen /\ slot' = "other" /\ mishaps' = mishaps + 1
       \/ slot = "other" /\ slot' = "free" /\ UNCHANGED mishaps
    /\ UNCHANGED <<head, onBase, merged, parks, accepted, reached, denied, serving, cancelled,
                   files, queued, loop>>

\* POST /queue: the branch must exist; the entry lasts as long as the process (and
\* says nothing of a branch that is listed anyway).
handleQueue(b) ==
    /\ Between /\ serving /\ b \in Outside /\ head[b] > 0
    /\ b \notin queued /\ queued' = queued \union {b}
    /\ UNCHANGED <<world, slot, serving, mishaps, cancelled, files, loop>>

\* An intent's schedule elapses.
Elapse(i) ==
    /\ Between /\ i \notin ripe /\ ripe' = ripe \union {i}
    /\ UNCHANGED <<world, slot, serving, mishaps, cancelled, seen, fired, order, unnamed,
                   queued, loop>>

\* watch-seen.json is gone or unreadable, which reads as empty.
LoseSeen ==
    /\ (Between \/ stage = "settle") /\ MayHappen
    /\ mishaps' = mishaps + 1 /\ seen' = [b \in Branches |-> None] /\ seen' # seen
    /\ UNCHANGED <<world, slot, serving, cancelled, fired, order, ripe, unnamed, queued, loop>>

\* So is intent-fired.json: no intent was ever fired, and no branch is named.
LoseFired ==
    /\ Between /\ MayHappen
    /\ mishaps' = mishaps + 1 /\ fired' = [i \in IntentSet |-> {}]
    /\ order' = Intents /\ ripe' = IntentSet /\ <<fired, order, ripe>>' # <<fired, order, ripe>>
    /\ unnamed' = unnamed \union UNION {fired[i] : i \in IntentSet}
    /\ UNCHANGED <<world, slot, serving, cancelled, seen, queued, loop>>

\* The process ends; what it had in memory goes.
Ends ==
    /\ serving' = FALSE /\ cancelled' = FALSE /\ slot' = "free" /\ queued' = {} /\ turn' = FALSE
    /\ stage' = "idle" /\ due' = FALSE /\ job' = "none" /\ batch' = Empty /\ driven' = Empty
    /\ moved' = FALSE /\ report' = NoReport
    /\ UNCHANGED <<world, files>>

Killed == serving /\ MayHappen /\ mishaps' = mishaps + 1 /\ Ends

\* A shutdown cancels the run in flight and waits for the loop.
Cancel == /\ serving /\ MayHappen /\ mishaps' = mishaps + 1 /\ ~cancelled /\ cancelled' = TRUE
          /\ UNCHANGED <<world, slot, serving, files, queued, loop>>

Drained == cancelled /\ stage = "idle" /\ Ends /\ UNCHANGED mishaps

Restart == /\ ~serving /\ startWatch /\ serving' = TRUE
           /\ UNCHANGED <<world, slot, mishaps, cancelled, files, queued, loop>>

-----------------------------------------------------------------------------
(* watchLoop, watchStep: one poll.                                          *)

\* A poll between two due ones looks for a full batch only.
Tick(d) ==
    /\ serving /\ stage = "idle" /\ ~cancelled
    /\ d \/ cfg["batch"] > 0
    /\ due' = d /\ stage' = IF d THEN "intents" ELSE "collect"
    /\ UNCHANGED <<world, slot, serving, mishaps, cancelled, files, queued, turn, job, batch,
                   driven, moved, report>>

Idle == /\ stage' = "idle" /\ job' = "none" /\ batch' = Empty /\ driven' = Empty
        /\ moved' = FALSE /\ report' = NoReport

intentTurn == ~turn

\* (mutant: by priority alone)
dueFirstByPriority(i) ==
    \E n \in 1..Len(Intents) : /\ Intents[n] = i /\ i \in ripe
                               /\ \A m \in 1..(n - 1) : Intents[m] \notin ripe

\* The least recently fired of those that are due.
dueIntent(i) ==
    \E n \in 1..Len(order) : /\ order[n] = i /\ i \in ripe
                             /\ \A m \in 1..(n - 1) : order[m] \notin ripe

Rotate(i) == \E n \in 1..Len(order) :
    /\ order[n] = i
    /\ order' = [m \in 1..Len(order) |-> IF m < n THEN order[m]
                                        ELSE IF m < Len(order) THEN order[m + 1] ELSE i]

liveBranches(S) == {b \in S : head[b] > 0}

\* The slot is taken, then one write stamps the fire and names its branch; a write
\* that fails is loud, and the fire goes on all the same.
Takes(f) ==
    /\ slot = "free" /\ head[f] = 0
    /\ slot' = "loop" /\ stage' = "agent" /\ job' = "fire" /\ batch' = [Empty EXCEPT ![f] = 1]
    /\ UNCHANGED <<world, serving, cancelled, seen, queued, turn, due, driven, moved, report>>

Unwritten(f) ==
    /\ MayHappen /\ mishaps' = mishaps + 1 /\ unnamed' = unnamed \union {f}
    /\ UNCHANGED <<fired, order, ripe>>

\* (mutant: the branch is named by nobody)
FireUnnamed(i, f) ==
    /\ stage = "intents" /\ intentTurn /\ dueIntent(i) /\ Takes(f)
    /\ fired' = [fired EXCEPT ![i] = liveBranches(@)]
    /\ Rotate(i) /\ ripe' = ripe \ {i} /\ unnamed' = unnamed \ {f} /\ UNCHANGED mishaps

Fire(i, f) ==
    /\ stage = "intents" /\ intentTurn /\ dueIntent(i) /\ Takes(f)
    /\ \/ /\ fired' = [fired EXCEPT ![i] = liveBranches(@) \union {f}]
          /\ Rotate(i) /\ ripe' = ripe \ {i} /\ unnamed' = unnamed \ {f} /\ UNCHANGED mishaps
       \/ Unwritten(f)

FreeName == \E f \in Fires : head[f] = 0

\* Not the intents' turn, none due, or the cell is busy: on to the arrivals.
NoFire ==
    /\ stage = "intents" /\ stage' = "collect" /\ turn' = FALSE
    /\ \/ ~intentTurn \/ ripe = {} \/ slot # "free"
       \/ ~FreeName  \* (bound)
    /\ UNCHANGED <<world, slot, serving, mishaps, cancelled, files, queued, due, job, batch,
                   driven, moved, report>>

-----------------------------------------------------------------------------
(* watchCollect and the first half of watchCycle.                           *)

tip(b) == <<b, head[b]>>

fireBranches == UNION {fired[i] : i \in IntentSet}

Listed == {b \in Branches : head[b] > 0 /\ (b \notin Outside \/ b \in queued)}

Decided(b) ==
    seen[b].ver = head[b] /\ (seen[b].kind \in {"done", "stale"} \/ seen[b].red >= cfg["maxRed"])

Offered == {b \in Listed : b \notin fireBranches /\ ~Decided(b)}

\* adoptableAgainst: neither merged nor stale.
adoptable(b) == tip(b) \in onBase \ merged

Pending == {b \in Offered : adoptable(b)}

\* (mutant: off by one)
TakenShort == {b \in Pending : MaxAgents = 0 \/ Cardinality({c \in Pending : c <= b}) < MaxAgents}

\* The batch, in name order, up to the quota; the rest is deferred.
Taken == {b \in Pending : MaxAgents = 0 \/ Cardinality({c \in Pending : c < b}) < MaxAgents}

\* What classifying found out, without the entries of branches that are gone.
Classified ==
    [b \in Branches |->
        IF head[b] = 0 \/ b \notin Listed THEN None
        ELSE IF b \in Offered /\ tip(b) \in merged THEN [ver |-> head[b], kind |-> "done", red |-> 0]
        ELSE IF b \in Offered /\ tip(b) \notin onBase THEN [ver |-> head[b], kind |-> "stale", red |-> 0]
        ELSE seen[b]]

Collect ==
    /\ stage = "collect" /\ seen' = Classified
    /\ IF /\ Pending # {} /\ slot = "free"
          /\ due \/ Cardinality(Pending) >= cfg["batch"]
       THEN /\ stage' = "adopt" /\ job' = "cycle" /\ slot' = "loop"
            /\ batch' = [b \in Branches |-> IF b \in Taken THEN head[b] ELSE 0]
            /\ UNCHANGED <<driven, moved, report>>
       ELSE Idle /\ UNCHANGED slot
    /\ UNCHANGED <<world, serving, mishaps, cancelled, fired, order, ripe, unnamed, queued,
                   turn, due>>

-----------------------------------------------------------------------------
(* The run: of a batch, or of a fire.                                       *)

\* adoptBranch, against the base the run pins and the heads it finds.
Adopt ==
    /\ stage = "adopt" /\ stage' = "resolve" /\ moved' = FALSE
    /\ driven' = [b \in Branches |-> IF batch[b] > 0 /\ head[b] > 0 /\ adoptable(b)
                                     THEN head[b] ELSE 0]
    /\ UNCHANGED <<world, slot, serving, mishaps, cancelled, files, queued, turn, due, job, batch,
                   report>>

\* (mutant: judges the commits that were adopted)
ContainsAdopted == \A b \in Branches : driven[b] > 0 => <<b, driven[b]>> \in onBase

\* Integrate reads the branches by name again, and takes what they hold by now; one
\* that does not contain the pinned base refuses the batch (requireContainsBase).  Of a
\* base that has moved since, a branch may contain the old one or not.
Contains == \A b \in Branches : driven[b] > 0 => tip(b) \in onBase

resolveTips ==
    /\ stage = "resolve" /\ stage' = "run"
    /\ \/ /\ moved \/ Contains
          /\ driven' = [b \in Branches |-> IF driven[b] > 0 THEN head[b] ELSE 0]
       \/ /\ moved \/ ~Contains
          /\ driven' = Empty
    /\ UNCHANGED <<world, slot, serving, mishaps, cancelled, files, queued, turn, due, job, batch,
                   moved, report>>

\* The fire's agent commits on the base, or leaves no branch.
Agent(f) ==
    /\ stage = "agent" /\ batch[f] = 1 /\ stage' = "run" /\ moved' = FALSE
    /\ \/ /\ head' = [head EXCEPT ![f] = 1] /\ onBase' = onBase \union {<<f, 1>>}
          /\ driven' = [driven EXCEPT ![f] = 1]
          /\ accepted' \in {accepted \union {f}, accepted \ {f}}
       \/ UNCHANGED <<head, onBase, driven, accepted>>
    /\ UNCHANGED <<merged, parks, reached, denied, slot, serving, mishaps, cancelled,
                   files, queued, turn, due, job, batch, report>>

Adopted == {b \in Branches : driven[b] > 0}
Carried(S) == {<<b, driven[b]>> : b \in S}

\* Verify is green: of a fire, its acceptance too.
Green(S) == job = "fire" => S \subseteq accepted

\* What folds cleanly lands by compare-and-swap, the rest of it parks.
Lands(S, P) ==
    /\ Green(S \union P) /\ (S = {} \/ ~moved)
    /\ merged' = merged \union Carried(S)
    /\ IF S = {} THEN UNCHANGED <<onBase, moved>> ELSE BaseMoves
    /\ parks' = [c \in Commits |-> parks[c] + IF c \in Carried(P) THEN 1 ELSE 0]
    /\ reached' = reached \union Carried((S \union P) \intersect Pushed)
    /\ report' = [landed |-> S, parked |-> P] /\ UNCHANGED denied

\* A refused swap ends the run with an error, and a report that says landed.
Refused(S) ==
    /\ Green(S) /\ moved /\ S # {}
    /\ report' = [landed |-> S, parked |-> {}]
    /\ denied' = denied \union Carried(S \intersect Pushed)
    /\ UNCHANGED <<merged, onBase, moved, parks, reached>>

\* Red, in conflict, over budget, cancelled.
Fails == /\ report' = NoReport
         /\ UNCHANGED <<merged, onBase, moved, parks, reached, denied>>

finishRun == slot' = "free"

execRun ==
    /\ stage = "run" /\ stage' = "settle" /\ finishRun
    /\ \/ /\ ~cancelled
          /\ \E S \in SUBSET Adopted : \/ Refused(S)
                                       \/ \E P \in SUBSET (Adopted \ S) : S \union P # {} /\ Lands(S, P)
       \/ Fails
    /\ UNCHANGED <<head, accepted, serving, mishaps, cancelled, files, queued, turn, due,
                   job, batch, driven>>

Red(b) == IF seen[b].ver = batch[b] THEN seen[b].red + 1 ELSE 1

\* Landed and parked branches are done; the others of the batch are red once more.
watchSettle ==
    /\ stage = "settle" /\ job = "cycle" /\ Idle
    /\ IF cancelled THEN UNCHANGED seen
       ELSE LET over == report.landed \union report.parked
                took == {b \in Branches : batch[b] > 0}
            IN  /\ seen' = [b \in Branches |->
                              IF b \notin took THEN seen[b]
                              ELSE IF b \in over THEN [ver |-> batch[b], kind |-> "done", red |-> 0]
                              ELSE [ver |-> batch[b], kind |-> "red", red |-> Red(b)]]
    /\ UNCHANGED <<world, slot, serving, mishaps, cancelled, fired, order, ripe, unnamed,
                   queued, turn, due>>

\* retireIntentBranch, then noteIntentFire: what the report says landed is deleted (or
\* the deletion fails), what it does not is done.  A name that is free again stands for a new commit.
Retire(f) ==
    /\ stage = "settle" /\ job = "fire" /\ batch[f] > 0 /\ Idle /\ turn' = TRUE
    /\ \/ /\ f \in report.landed /\ head' = [head EXCEPT ![f] = 0]
          /\ merged' = merged \ {<<f, 1>>} /\ onBase' = onBase \ {<<f, 1>>}
          /\ accepted' = accepted \ {f} /\ unnamed' = unnamed \ {f} /\ UNCHANGED seen
       \/ /\ head[f] > 0
          /\ seen' = [seen EXCEPT ![f] = [ver |-> head[f], kind |-> "done", red |-> 0]]
          /\ UNCHANGED <<head, merged, onBase, accepted, unnamed>>
       \/ head[f] = 0 /\ UNCHANGED <<head, merged, onBase, accepted, seen, unnamed>>
    /\ UNCHANGED <<parks, reached, denied, slot, serving, mishaps, cancelled, fired, order,
                   ripe, queued, due>>

-----------------------------------------------------------------------------
Loop ==
    \/ NoFire \/ Collect \/ Adopt \/ resolveTips \/ execRun \/ watchSettle \/ Drained
    \/ \E f \in Fires : Agent(f) \/ Retire(f) \/ \E i \in IntentSet : Fire(i, f)

WatchNext ==
    \/ Loop \/ Restart \/ (\E d \in BOOLEAN : Tick(d))
    \/ OtherPush \/ OtherRun \/ LoseSeen \/ LoseFired \/ Killed \/ Cancel
    \/ (\E b \in Branches : Push(b) \/ handleQueue(b))
    \/ (\E c \in Commits : Acked(c))
    \/ (\E i \in IntentSet : Elapse(i))

WatchSpec == WatchInit /\ [][WatchNext]_watchVars

\* The interval elapses whatever the polls in between do, a run ends, a run or an
\* ack over HTTP gives the slot back, and a daemon that went down is started again.
WatchFairSpec ==
    /\ WatchSpec /\ WF_watchVars(Loop) /\ SF_watchVars(Tick(TRUE)) /\ WF_watchVars(Restart)
    /\ WF_watchVars(slot = "other" /\ OtherRun)

-----------------------------------------------------------------------------
Kinds == {"none", "done", "stale", "red"}

\* Every variable has its type; the loop holds the slot exactly while its run is
\* in flight (acquireRun, finishRun).
WatchTypeOK ==
    /\ head \in [Branches -> 0..Versions]
    /\ onBase \subseteq Commits /\ merged \subseteq Commits
    /\ reached \subseteq Commits /\ denied \subseteq Commits /\ unnamed \subseteq Fires
    /\ parks \in [Commits -> Nat] /\ accepted \subseteq Fires
    /\ slot \in {"free", "loop", "other"}
    /\ slot = "loop" <=> stage \in {"agent", "adopt", "resolve", "run"}
    /\ serving \in BOOLEAN /\ mishaps \in Nat /\ cancelled \in BOOLEAN
    /\ seen \in [Branches -> [ver : 0..Versions, kind : Kinds, red : Nat]]
    /\ fired \in [IntentSet -> SUBSET Fires] /\ ripe \subseteq IntentSet
    /\ order \in Seq(IntentSet) /\ queued \subseteq Branches /\ turn \in BOOLEAN
    /\ stage \in {"idle", "intents", "collect", "agent", "adopt", "resolve", "run", "settle"}
    /\ due \in BOOLEAN /\ job \in {"none", "cycle", "fire"}
    /\ batch \in [Branches -> 0..Versions] /\ driven \in [Branches -> 0..Versions]
    /\ moved \in BOOLEAN /\ report \in [landed : SUBSET Branches, parked : SUBSET Branches]

\* What a run of the loop lands contains the base it lands on, so that it undoes
\* nothing, whoever moved the base between the tick that collected the branch,
\* the run that adopted it, a push after that and the swap (adoptableAgainst,
\* adoptBranch, requireContainsBase, landRef).
LandsOnTop == [][stage = "run" => merged' \ merged \subseteq onBase]_watchVars

\* Work of a scheduled intent that is in the base passed the intent's own
\* acceptance, also after a crash, and after the seen-set was lost (the fire's
\* branch is named before its run starts, and no cycle adopts a named branch);
\* unless the record that names it was lost, or could not be written.
AcceptanceJudges == \A f \in Fires : <<f, 1>> \in merged => f \in accepted \/ f \in unnamed

\* Whatever arrives is decided as it was last pushed, whatever the intents'
\* schedules, the quota and the others do: stale, or red too often, or done, and then
\* it landed or parked, or the run that was to land it reported so although the base
\* refused (watchSettle believes that report).
ArrivalsDecided ==
    \A b \in Pushed : b \in Listed ~>
        \/ b \notin Listed
        \/ Decided(b) /\ (seen[b].kind = "done" => tip(b) \in reached \union denied)

\* "Done: this SHA reached a decision -- it landed, it parked awaiting a human, or it
\* was already in the base" (watchSeenEntry).  The code does not keep it: see above.
DoneIsDecided ==
    \A b \in Pushed : Decided(b) /\ seen[b].kind = "done" => tip(b) \in reached

\* An intent whose schedule elapsed is fired, however often the others' do (the
\* names for its branch never run out in the code).
IntentsServed == \A i \in IntentSet : i \in ripe ~> (i \notin ripe \/ ~FreeName)

\* "A fire that did NOT land keeps its branch: work is never destroyed here"
\* (retireIntentBranch).  The code does not keep it: a report whose landing the base
\* refused reads as landed.
WorkNotDestroyed ==
    [][\A f \in Fires : head[f] = 1 /\ head'[f] = 0 => <<f, 1>> \in merged]_watchVars
=============================================================================
