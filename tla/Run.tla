-------------------------------- MODULE Run --------------------------------
(***************************************************************************)
(* The run pipeline of cmd/sig/run.go: driveRun and the bookkeeping runRun *)
(* does around it.  A run pins the base, lets one agent per task commit to *)
(* the branch agent/<id>, holds back what a policy wants a human for,      *)
(* integrates the rest detached, verifies, repairs and bisects it, moves   *)
(* the base by compare-and-swap, parks the held groups, and writes its     *)
(* report, usage, parking record and status, each a file of its own.       *)
(*                                                                         *)
(* Several runs share the base, the branches and the directory of runs.    *)
(* Any of them may be told to stop (a signal cancels its context, every    *)
(* later git call fails) or be killed outright; a daemon's startup then    *)
(* heals what it left (recoverStaleRuns).  Acks and rejects, which module  *)
(* Park takes apart, are one step each here.                               *)
(*                                                                         *)
(* A commit is the sequence of landings that built it (see Landing).  A    *)
(* landing names the work it carries: pairs of a task and the run whose    *)
(* agent committed it.  Each branch is a group of its own; which branches  *)
(* overlap, and what a conflict flags, is the integrator's business.       *)
(***************************************************************************)
EXTENDS Integers, Sequences, FiniteSets

CONSTANTS Runs,        \* calls of driveRun, all with the same -tasks
          Resuming,    \* those with -resume
          Tasks,       \* task ids
          Held,        \* tasks whose changes touch an ack-path
          RepairMax,   \* -repair-max
          Bisects,     \* -verify-bisect
          Foreign,     \* a landing by somebody else
          Root,        \* the base's history so far
          Nobody,
          MaxForeign,  \* bound: foreign landings in a behaviour
          Killable,    \* runs that may be killed
          Signalled,   \* runs that may be told to stop
          Faults       \* may a git or file operation fail for another reason?

Landings == [run : Runs, kind : {"run", "park"}, work : SUBSET (Tasks \X Runs),
             fix : 0..RepairMax, reverts : BOOLEAN]
Steps    == Landings \union {Foreign}
Commits  == Seq(Steps \union {Root})
NoCommit == << >>

ASSUME RunAssumption ==
    /\ Foreign \notin Landings /\ Root \notin Landings
    /\ Nobody \notin Runs
    /\ Resuming \subseteq Runs
    /\ IsFiniteSet(Tasks) /\ Held \subseteq Tasks
    /\ RepairMax \in Nat /\ MaxForeign \in Nat
    /\ Bisects \in BOOLEAN /\ Faults \in BOOLEAN

VARIABLES base, green,  \* as in Landing
          branch,       \* agent/<id>
          noted,        \* commits with a note under refs/notes/sigbound
          published,    \* commits handed to -publish
          status,       \* status.json of each run directory
          filed,        \* runs whose report.json is written
          usage,        \* usage.json's landed
          park,         \* park.json
          keep          \* the keep-alive ref

VARIABLES pc,
          pin,          \* baseSHA
          result,       \* each agent's verdict
          rep,          \* the report in memory
          fix,          \* repairs on the candidate
          pk,           \* rep.Park
          err,          \* driveRun's error
          stopped       \* the signal context is done

shared == <<base, green, branch>>
disk   == <<noted, published, status, filed, usage, park, keep>>
memory == <<pin, result, rep, fix, pk, err, stopped>>
vars   == <<base, green, branch, noted, published, status, filed, usage, park, keep,
            pc, pin, result, rep, fix, pk, err, stopped>>

-----------------------------------------------------------------------------
Branches == [by : Runs \union {Nobody}, fork : Commits, real : BOOLEAN]
NoBranch == [by |-> Nobody, fork |-> NoCommit, real |-> FALSE]

Reports == [landed : SUBSET Tasks, flagged : SUBSET Tasks, held : SUBSET Tasks,
            dropped : SUBSET Tasks, final : Commits, verify : {"none", "green", "red"}]
NoReport == [landed |-> {}, flagged |-> {}, held |-> {}, dropped |-> {},
             final |-> NoCommit, verify |-> "none"]

Parks  == [verifiedSHA : Commits, baseSHA : Commits, resolved : BOOLEAN]
NoPark == [verifiedSHA |-> NoCommit, baseSHA |-> NoCommit, resolved |-> TRUE]

Statuses == {"none", "running", "done", "awaiting-ack", "rejected", "error", "interrupted"}

Descends(b, a) == Len(a) <= Len(b) /\ \A i \in 1..Len(a) : b[i] = a[i]

work(S) == {<<t, branch[t].by>> : t \in S}

\* The branch's tip is an ancestor of c: it has nothing of its own, or a landing
\* below c had its tip among its parents.
Merged(t, c) == \/ ~branch[t].real
                \/ \E i \in 1..Len(c) : /\ c[i] \in Landings
                                        /\ <<t, branch[t].by>> \in c[i].work

\* A tip that does not contain base cannot be overlaid on it (requireContainsBase).
Stale(t, r) == ~Descends(branch[t].fork, pin[r])

\* The integrated commit of a set of branches, with n repairs on top.
candidate(r, S, n) ==
    IF S = {} /\ n = 0 THEN pin[r]
    ELSE Append(pin[r], [run |-> r, kind |-> "run", work |-> work(S), fix |-> n,
                         reverts |-> FALSE])

\* log.go: what the report alone says about the landing.
landed(r) == /\ rep[r].final # NoCommit /\ rep[r].final # pin[r]
             /\ rep[r].verify # "red"

\* diskRunStatus: an unresolved parking record outranks the phase marker.
diskRunStatus(r) ==
    IF status[r] \notin {"awaiting-ack", "rejected", "done"} /\ ~park[r].resolved
    THEN "awaiting-ack" ELSE status[r]

Alive(r) == pc[r] \notin {"idle", "end", "dead"}

-----------------------------------------------------------------------------
Init ==
    /\ base = <<Root>> /\ green = {}
    /\ branch = [t \in Tasks |-> NoBranch]
    /\ noted = {} /\ published = {} /\ filed = {}
    /\ status = [r \in Runs |-> "none"]
    /\ usage = [r \in Runs |-> FALSE]
    /\ park = [r \in Runs |-> NoPark]
    /\ keep = [r \in Runs |-> NoCommit]
    /\ pc = [r \in Runs |-> "idle"]
    /\ pin = [r \in Runs |-> base]
    /\ result = [r \in Runs |-> [t \in Tasks |-> "none"]]
    /\ rep = [r \in Runs |-> NoReport]
    /\ fix = [r \in Runs |-> 0]
    /\ pk = [r \in Runs |-> NoPark]
    /\ err = [r \in Runs |-> "none"]
    /\ stopped = [r \in Runs |-> FALSE]

Goto(r, l)  == pc' = [pc EXCEPT ![r] = l]
Set(v, r, x) == [v EXCEPT ![r] = x]

Report(r, x) == rep' = [rep EXCEPT ![r] = x]

\* driveRun returns an error: runRun files the partial report.
Abort(r, why) == err' = Set(err, r, why) /\ Goto(r, "file")

\* A command or a git call that is started under a cancelled context fails; any
\* other may.
MayFail(r) == stopped[r] \/ Faults

-----------------------------------------------------------------------------
(* Starting: the run directory, the pinned base, -resume's refusal.         *)

\* A run's manifest is written after its report, whatever became of it.
Manifest(q) == q \in filed /\ pc[q] \in {"label", "end"}

Begin(r) ==
    /\ pc[r] = "idle"
    /\ status' = Set(status, r, "running")
    /\ pin' = Set(pin, r, base)
    /\ \/ /\ \/ r \notin Resuming
             \/ \E q \in Runs : Manifest(q) /\ base = pin[q]
          /\ Goto(r, "agents") /\ UNCHANGED err
       \/ /\ \/ r \in Resuming /\ \E q \in Runs : Manifest(q) /\ base # pin[q]
             \/ Faults
          /\ err' = Set(err, r, "other") /\ Goto(r, "label")
    /\ UNCHANGED <<shared, noted, published, filed, usage, park, keep,
                   result, rep, fix, pk, stopped>>

-----------------------------------------------------------------------------
(* The agent phase, one task at a time.                                     *)

Verdict(r, t, v) == result' = Set(result, r, [result[r] EXCEPT ![t] = v])

\* resumeAgent: a tip that differs from the base counts as work to reuse.
Reuse(r, t) ==
    /\ r \in Resuming /\ branch[t] # NoBranch
    /\ branch[t].real \/ branch[t].fork # pin[r]
    /\ Verdict(r, t, "ok") /\ UNCHANGED branch

\* runAgentWithRetries on a new branch, or on one -resume cleared because its tip
\* was the base itself.  A failed agent may leave a commit behind.
Fresh(r, t) ==
    /\ \/ branch[t] = NoBranch
       \/ r \in Resuming /\ ~branch[t].real /\ branch[t].fork = pin[r]
    /\ \E real \in BOOLEAN :
          /\ branch' = Set(branch, t, [by |-> r, fork |-> pin[r], real |-> real])
          /\ \/ real /\ ~stopped[r] /\ Verdict(r, t, "ok")
             \/ Verdict(r, t, "failed")

\* AddWorktree refuses a branch this run did not create.
Collide(r, t) ==
    /\ r \notin Resuming /\ branch[t] # NoBranch
    /\ Verdict(r, t, "failed") /\ UNCHANGED branch

Agent(r, t) ==
    /\ pc[r] = "agents" /\ result[r][t] = "none"
    /\ Reuse(r, t) \/ Fresh(r, t) \/ Collide(r, t)
    /\ UNCHANGED <<base, green, disk, pc, pin, rep, fix, pk, err, stopped>>

-----------------------------------------------------------------------------
(* Holdback and integration.  A held branch is judged by its own write-set, *)
(* which is empty once its tip is part of the base.                         *)

okTasks(r) == {t \in Tasks : result[r][t] = "ok"}
heldOf(r)  == {t \in okTasks(r) \intersect Held : ~Merged(t, pin[r])}
clearOf(r) == okTasks(r) \ heldOf(r)

\* What the fold leaves out: never the first branch it meets.
Conflicts(S) == {F \in SUBSET S : F # S \/ S = {}}

\* (mutant: no ancestry guard)
IntegrateUnguarded(r) ==
    /\ pc[r] = "agents" /\ \A t \in Tasks : result[r][t] # "none"
    /\ \E F \in Conflicts(clearOf(r)) :
          Report(r, [NoReport EXCEPT !.landed = clearOf(r) \ F, !.flagged = F,
                                     !.held = heldOf(r),
                                     !.final = candidate(r, clearOf(r) \ F, 0)])
    /\ Goto(r, "verify")
    /\ UNCHANGED <<shared, disk, pin, result, fix, pk, err, stopped>>

Integrate(r) ==
    /\ pc[r] = "agents" /\ \A t \in Tasks : result[r][t] # "none"
    /\ \/ /\ ~stopped[r] \/ clearOf(r) = {}
          /\ \A t \in clearOf(r) : ~Stale(t, r)
          /\ \E F \in Conflicts(clearOf(r)) :
                Report(r, [NoReport EXCEPT !.landed = clearOf(r) \ F, !.flagged = F,
                                           !.held = heldOf(r),
                                           !.final = candidate(r, clearOf(r) \ F, 0)])
          /\ Goto(r, "verify") /\ UNCHANGED err
       \/ /\ clearOf(r) # {}
          /\ MayFail(r) \/ \E t \in clearOf(r) : Stale(t, r)
          /\ Abort(r, "other") /\ UNCHANGED rep
    /\ UNCHANGED <<shared, disk, pin, result, fix, pk, stopped>>

-----------------------------------------------------------------------------
(* verifyWithRepair: verify the candidate; while red, let the fixer commit  *)
(* on top of it and verify again.                                           *)

Verify(r) ==
    /\ pc[r] = "verify"
    /\ \/ /\ ~stopped[r] /\ green' = green \union {rep[r].final}
          /\ Report(r, [rep[r] EXCEPT !.verify = "green"]) /\ Goto(r, "land")
       \/ /\ Report(r, [rep[r] EXCEPT !.verify = "red"])
          /\ Goto(r, IF fix[r] < RepairMax THEN "repair" ELSE "red")
          /\ UNCHANGED green
    /\ UNCHANGED <<base, branch, disk, pin, result, fix, pk, err, stopped>>

\* (mutant: the attempt is not counted)
RepairUncounted(r) ==
    /\ pc[r] = "repair"
    /\ \/ Goto(r, "verify")
       \/ Goto(r, "red")
    /\ UNCHANGED <<shared, disk, memory>>

\* (mutant: a repaired tree lands as it is)
RepairUnverified(r) ==
    /\ pc[r] = "repair" /\ Goto(r, "land")
    /\ fix' = [fix EXCEPT ![r] = @ + 1]
    /\ Report(r, [rep[r] EXCEPT !.final = candidate(r, rep[r].landed, fix[r] + 1),
                                !.verify = "green"])
    /\ UNCHANGED <<shared, disk, pin, result, pk, err, stopped>>

\* The fixer commits; or it reaches for something it may not write, changes
\* nothing or fails, which ends the loop.
Repair(r) ==
    /\ pc[r] = "repair"
    /\ \/ /\ ~stopped[r] /\ fix' = [fix EXCEPT ![r] = @ + 1]
          /\ Report(r, [rep[r] EXCEPT !.final = candidate(r, rep[r].landed, fix[r] + 1)])
          /\ Goto(r, "verify")
       \/ Goto(r, "red") /\ UNCHANGED <<fix, rep>>
    /\ UNCHANGED <<shared, disk, pin, result, pk, err, stopped>>

\* (mutant: the report keeps the landed list of the full tree)
BisectKeepsLanded(r) ==
    /\ pc[r] = "red"
    /\ \E good \in SUBSET rep[r].landed \ {{}} :
          LET c == candidate(r, good, 0)
          IN  /\ green' = green \union {c}
              /\ Report(r, [rep[r] EXCEPT !.dropped = rep[r].landed \ good,
                                          !.final = c, !.verify = "green"])
    /\ Goto(r, "land")
    /\ UNCHANGED <<base, branch, disk, pin, result, fix, pk, err, stopped>>

\* Nothing green: a run that lands nothing is still a completed run.
GiveUp(r) ==
    /\ pc[r] = "red" /\ Goto(r, "file")
    /\ \/ /\ stopped[r] \/ ~Bisects \/ Cardinality(rep[r].landed) < 2
          /\ UNCHANGED rep
       \/ /\ Bisects /\ Cardinality(rep[r].landed) >= 2
          /\ Report(r, [rep[r] EXCEPT !.landed = {}, !.dropped = rep[r].landed])
    /\ UNCHANGED <<shared, disk, pin, result, fix, pk, err, stopped>>

\* verifyBisect: some groups are green alone, and the tree of exactly those is
\* verified again before it may land.
Bisect(r) ==
    /\ pc[r] = "red" /\ Bisects /\ ~stopped[r] /\ Cardinality(rep[r].landed) >= 2
    /\ \E good \in SUBSET rep[r].landed \ {{}} :
          LET c == candidate(r, good, 0)
          IN  /\ green' = green \union {c}
              /\ Report(r, [rep[r] EXCEPT !.landed = good, !.dropped = rep[r].landed \ good,
                                          !.final = c, !.verify = "green"])
    /\ Goto(r, "land")
    /\ UNCHANGED <<base, branch, disk, pin, result, fix, pk, err, stopped>>

-----------------------------------------------------------------------------
(* Landing, parking, noting, publishing.                                    *)

\* (mutant: the swap's error is dropped)
LandUnchecked(r) ==
    /\ pc[r] = "land" /\ Goto(r, "park")
    /\ base' = IF base = pin[r] THEN rep[r].final ELSE base
    /\ UNCHANGED <<green, branch, disk, memory>>

\* landRef, skipped when nothing was integrated.  The cancellation may also come
\* while git runs and kill it after it moved the ref.
Land(r) ==
    /\ pc[r] = "land"
    /\ \/ /\ rep[r].final = pin[r]
          /\ Goto(r, "park") /\ UNCHANGED <<base, err>>
       \/ /\ rep[r].final # pin[r] /\ base = pin[r] /\ ~stopped[r]
          /\ base' = rep[r].final /\ Goto(r, "park") /\ UNCHANGED err
       \/ /\ rep[r].final # pin[r] /\ base # pin[r] /\ ~stopped[r]
          /\ Abort(r, "refused") /\ UNCHANGED base
       \/ /\ rep[r].final # pin[r] /\ MayFail(r)
          /\ \/ UNCHANGED base
             \/ stopped[r] /\ base = pin[r] /\ base' = rep[r].final
          /\ Abort(r, "other")
    /\ UNCHANGED <<green, branch, disk, pin, result, rep, fix, pk, stopped>>

\* parkHeldGroups: the held branches are folded onto the landing with the pinned
\* base as their merge base, verified and pinned.  Seen from the pinned base, the
\* tree of a branch that forked earlier undoes what the base gained since.
ParkHeld(r) ==
    /\ pc[r] = "park" /\ Goto(r, "note")
    /\ \/ /\ rep[r].held # {} /\ ~stopped[r]
          /\ LET c == Append(rep[r].final,
                             [run |-> r, kind |-> "park", work |-> work(rep[r].held), fix |-> 0,
                              reverts |-> \E t \in rep[r].held : Stale(t, r)])
             IN  /\ green' = green \union {c}
                 /\ keep' = Set(keep, r, c)
                 /\ pk' = Set(pk, r, [verifiedSHA |-> c, baseSHA |-> rep[r].final,
                                      resolved |-> FALSE])
       \/ UNCHANGED <<green, keep, pk>>
    /\ UNCHANGED <<base, branch, noted, published, status, filed, usage, park,
                   pin, result, rep, fix, err, stopped>>

\* attachNote: best effort, never on the base itself.
Note(r) ==
    /\ pc[r] = "note" /\ Goto(r, "publish")
    /\ \/ rep[r].final # pin[r] /\ ~stopped[r] /\ noted' = noted \union {rep[r].final}
       \/ UNCHANGED noted
    /\ UNCHANGED <<shared, published, status, filed, usage, park, keep, memory>>

Publish(r) ==
    /\ pc[r] = "publish" /\ Goto(r, "file")
    /\ \/ rep[r].final # pin[r] /\ ~stopped[r] /\ published' = published \union {rep[r].final}
       \/ UNCHANGED published
    /\ UNCHANGED <<shared, noted, status, filed, usage, park, keep, memory>>

-----------------------------------------------------------------------------
(* What runRun leaves on disk, in the order it writes it.                   *)

\* writeRunReport
File(r) ==
    /\ pc[r] = "file" /\ Goto(r, "usage")
    /\ filed' = filed \union {r}
    /\ UNCHANGED <<shared, noted, published, status, usage, park, keep, memory>>

\* recordRunUsage: an error forces "not landed", whatever the report says.
recordRunUsage(r) ==
    /\ pc[r] = "usage" /\ Goto(r, IF err[r] = "none" THEN "finish" ELSE "label")
    /\ usage' = Set(usage, r, landed(r) /\ err[r] = "none")
    /\ UNCHANGED <<shared, noted, published, status, filed, park, keep, memory>>

\* finishRunDir: the parking record first.  If it cannot be written the run ends
\* in error.
Finish(r) ==
    /\ pc[r] = "finish"
    /\ \/ park' = Set(park, r, pk[r]) /\ Goto(r, "mark") /\ UNCHANGED status
       \/ /\ pk[r] # NoPark /\ Faults
          /\ status' = Set(status, r, "error") /\ Goto(r, "end") /\ UNCHANGED park
    /\ UNCHANGED <<shared, noted, published, filed, usage, keep, memory>>

\* (mutant: the marker does not know about parking)
MarkDone(r) ==
    /\ pc[r] = "mark" /\ Goto(r, "label")
    /\ status' = Set(status, r, "done")
    /\ UNCHANGED <<shared, noted, published, filed, usage, park, keep, memory>>

\* ... then the phase marker.
Mark(r) ==
    /\ pc[r] = "mark" /\ Goto(r, "label")
    /\ status' = Set(status, r, IF pk[r] = NoPark THEN "done" ELSE "awaiting-ack")
    /\ UNCHANGED <<shared, noted, published, filed, usage, park, keep, memory>>

\* A run that a signal ended says so, over whatever it wrote before.
Label(r) ==
    /\ pc[r] = "label" /\ Goto(r, "end")
    /\ status' = Set(status, r, IF stopped[r] THEN "interrupted"
                                ELSE IF err[r] # "none" THEN "error" ELSE status[r])
    /\ UNCHANGED <<shared, noted, published, filed, usage, park, keep, memory>>

-----------------------------------------------------------------------------
(* Signals, kills and recovery.                                             *)

Signal(r) ==
    /\ r \in Signalled /\ Alive(r) /\ ~stopped[r]
    /\ stopped' = Set(stopped, r, TRUE)
    /\ UNCHANGED <<shared, disk, pc, pin, result, rep, fix, pk, err>>

Kill(r) ==
    /\ r \in Killable /\ Alive(r) /\ Goto(r, "dead")
    /\ UNCHANGED <<shared, disk, memory>>

\* recoverStaleRuns, at a daemon's startup.
Recover(r) ==
    /\ pc[r] = "dead" /\ status[r] = "running"
    /\ status' = Set(status, r, IF park[r].resolved THEN "interrupted" ELSE "awaiting-ack")
    /\ UNCHANGED <<shared, noted, published, filed, usage, park, keep, pc, memory>>

-----------------------------------------------------------------------------
(* The park's resolution (module Park), and everybody else.                 *)

Resolve(r, phase) ==
    /\ diskRunStatus(r) = "awaiting-ack" /\ ~park[r].resolved
    /\ park' = [park EXCEPT ![r].resolved = TRUE]
    /\ status' = Set(status, r, phase)
    /\ keep' = Set(keep, r, NoCommit)

parked(r) == park[r].verifiedSHA[Len(park[r].verifiedSHA)]

\* ackRun, once the base moved: the same branches again, on the base as it stands.
Reverify(r) ==
    /\ diskRunStatus(r) = "awaiting-ack" /\ ~park[r].resolved
    /\ park[r].baseSHA # base
    /\ green' = green \union {Append(base, parked(r))}
    /\ UNCHANGED <<base, branch, disk, pc, memory>>

\* The swap of ackRun, to a commit verified on the base it replaces.
Ack(r) ==
    /\ Resolve(r, "done")
    /\ Append(base, parked(r)) \in green
    /\ base' = Append(base, parked(r))
    /\ noted' = noted \union {base'}
    /\ UNCHANGED <<green, branch, published, filed, usage, pc, memory>>

Reject(r) ==
    /\ Resolve(r, "rejected")
    /\ UNCHANGED <<shared, noted, published, filed, usage, pc, memory>>

ForeignLand ==
    /\ Len(SelectSeq(base, LAMBDA x : x = Foreign)) < MaxForeign
    /\ base' = Append(base, Foreign)
    /\ UNCHANGED <<green, branch, disk, pc, memory>>

-----------------------------------------------------------------------------
Pipeline(r) == Integrate(r) \/ Verify(r) \/ Repair(r) \/ GiveUp(r) \/ Bisect(r)
               \/ Land(r) \/ ParkHeld(r) \/ Note(r) \/ Publish(r)
Epilogue(r) == File(r) \/ recordRunUsage(r) \/ Finish(r) \/ Mark(r) \/ Label(r)
RunStep(r)  == Begin(r) \/ (\E t \in Tasks : Agent(r, t)) \/ Pipeline(r) \/ Epilogue(r)

Next == \/ \E r \in Runs : RunStep(r) \/ Signal(r) \/ Kill(r) \/ Recover(r)
                           \/ Reverify(r) \/ Ack(r) \/ Reject(r)
        \/ ForeignLand

Spec == Init /\ [][Next]_vars

\* A run that is not killed goes on (its agents and commands have timeouts), and a
\* daemon is started again some day.
Fairness == \A r \in Runs : WF_vars(RunStep(r)) /\ WF_vars(Recover(r))

FairSpec == Spec /\ Fairness

-----------------------------------------------------------------------------
(* Properties.                                                              *)

\* Every file and every run keeps its type; a run makes at most RepairMax repairs.
TypeOK ==
    /\ base \in Commits /\ green \in SUBSET Commits
    /\ branch \in [Tasks -> Branches]
    /\ noted \in SUBSET Commits /\ published \in SUBSET Commits
    /\ status \in [Runs -> Statuses]
    /\ filed \in SUBSET Runs /\ usage \in [Runs -> BOOLEAN]
    /\ park \in [Runs -> Parks] /\ keep \in [Runs -> Commits]
    /\ pc \in [Runs -> {"idle", "agents", "verify", "repair", "red", "land", "park", "note",
                        "publish", "file", "usage", "finish", "mark", "label", "end", "dead"}]
    /\ pin \in [Runs -> Commits]
    /\ result \in [Runs -> [Tasks -> {"none", "ok", "failed"}]]
    /\ rep \in [Runs -> Reports]
    /\ fix \in [Runs -> 0..RepairMax]
    /\ pk \in [Runs -> Parks]
    /\ err \in [Runs -> {"none", "refused", "other"}]
    /\ stopped \in [Runs -> BOOLEAN]

\* The landings on the base, and what each of them carries.
OnBase  == {base[i] : i \in 1..Len(base)} \intersect Landings
Positions(w) == {i \in 1..Len(base) : base[i] \in Landings /\ w \in base[i].work}

\* What a run lands is exactly what its report lists as landed, and a completed
\* report claims a landing exactly when the base has it (driveRun, verifyBisect,
\* log.go landed).
ReportMatchesBase ==
    \A r \in filed : err[r] = "none" =>
        /\ landed(r) <=> \E l \in OnBase : l.run = r /\ l.kind = "run"
        /\ \A l \in OnBase : l.run = r /\ l.kind = "run" => l.work = work(rep[r].landed)

\* Every branch an agent succeeded on is in exactly one place of a completed report:
\* landed, flagged by a conflict, held by the policy, or dropped by bisect.
EveryBranchAccounted ==
    \A r \in filed : err[r] = "none" =>
        LET R == rep[r]
        IN  /\ okTasks(r) = R.landed \union R.flagged \union R.held \union R.dropped
            /\ Cardinality(okTasks(r)) = Cardinality(R.landed) + Cardinality(R.flagged)
                                         + Cardinality(R.held) + Cardinality(R.dropped)

\* A verified landing that waits for a human can be reached by one: its phase reads
\* awaiting-ack, whoever was killed or signalled, and its commit is pinned.
OpenParkIsReachable ==
    \A r \in Runs : ~park[r].resolved =>
        /\ diskRunStatus(r) = "awaiting-ack"
        /\ keep[r] = park[r].verifiedSHA /\ park[r].verifiedSHA \in green

\* The same commit of an agent is never landed twice by runs, however often they are
\* resumed: a run that lands work finds none of it on the base already.
WorkLandsOnce ==
    \A r \in Runs, t \in Tasks :
        \A i, j \in Positions(<<t, r>>) : i < j => base[j].kind # "run"

\* A run that is not killed settles, and what a killed one left behind is healed.
RunsSettle == \A r \in Runs : status[r] = "running" ~> status[r] # "running"

\* log.go landed: what the report of a run that errored says is true as well.
LandedReadsTrue == \A r \in filed : landed(r) => Descends(base, rep[r].final)

\* A landing offered for an ack changes what its branches changed and nothing else:
\* it undoes nothing the base has gained since they forked.
ParkUndoesNothing ==
    \A r \in Runs : ~park[r].resolved =>
        ~parked(r).reverts

\* The base ref as every landing path promises it.
Base == INSTANCE Landing WITH Landings <- Landings, Foreign <- Foreign, Root <- Root,
                              base <- base, green <- green
LandingSpec == Base!Spec
=============================================================================
