------------------------------- MODULE Agents -------------------------------
(***************************************************************************)
(* The branches agent/<id> of one repository, and who makes, resets,       *)
(* reuses and deletes them: the agents of concurrent `sig run's (cmd/sig/  *)
(* run.go runAgentWithRetries, runAgent), -resume (resumeAgent), and       *)
(* `sig gc -delete' (cmd/sig/gc.go), each through git, which will neither  *)
(* reset nor delete a branch that some worktree has checked out.           *)
(*                                                                         *)
(* Every run here has the same tasks, so that they meet on every branch.   *)
(* A branch is missing, at the base, or at the work an attempt of a run    *)
(* committed.  What a run does with its branches after the agents is       *)
(* module Run's; here it reads their tips once more and ends.              *)
(***************************************************************************)
EXTENDS Integers, FiniteSets

CONSTANTS Runs,        \* calls of driveRun
          Resuming,    \* those with -resume
          Tasks,
          Collectors,  \* calls of sig gc -delete
          Nobody, NoBranch, AtBase,
          Retries,     \* -agent-retries
          KeepFailed,  \* those with -keep-failed
          Forcing,     \* those with -force
          Killable     \* runs that may be killed

Fresh == Runs \ Resuming
Work  == Runs \X (0..Retries)
Heads == Work \union {NoBranch, AtBase}

ASSUME AgentsAssumption ==
    /\ Resuming \subseteq Runs /\ Killable \subseteq Runs /\ KeepFailed \subseteq Runs
    /\ Runs \intersect Collectors = {} /\ Forcing \subseteq Collectors
    /\ Nobody \notin Runs
    /\ Retries \in Nat
    /\ NoBranch \notin Work /\ AtBase \notin Work /\ NoBranch # AtBase

VARIABLES branch,    \* refs/heads/agent/<id>
          old,       \* branches whose commit is older than -older-than
          checkedOut,\* the run whose worktree has the branch checked out
          phase,     \* where each run is
          pc,        \* where its agent for each task is
          tried,     \* attempts it has retried
          created,   \* it has made the branch before
          result,    \* perAgentJSON.OK, and why not
          sha,       \* perAgentJSON.SHA
          used,      \* the tips its integration read
          status,    \* status.json
          filed,     \* runs with a report.json
          doomed,    \* what each gc still has to delete
          pruning,   \* gcs that have yet to prune the worktrees
          swept,     \* gcs that have planned
          overtaken, \* history: those that planned next to a live run, or before one began
          pulled     \* history: branches deleted while a live run depended on them

agents == <<pc, tried, created, result, sha>>
gcs    == <<doomed, pruning, swept, overtaken>>
vars == <<branch, old, checkedOut, phase, pc, tried, created, result, sha, used, status,
          filed, doomed, pruning, swept, overtaken, pulled>>

Init ==
    /\ branch = [t \in Tasks |-> NoBranch]
    /\ old = {}
    /\ checkedOut = [t \in Tasks |-> Nobody]
    /\ phase = [r \in Runs |-> "idle"]
    /\ pc = [r \in Runs |-> [t \in Tasks |-> "idle"]]
    /\ tried = [r \in Runs |-> [t \in Tasks |-> 0]]
    /\ created = [r \in Runs |-> {}]
    /\ result = [r \in Runs |-> [t \in Tasks |-> "none"]]
    /\ sha = [r \in Runs |-> [t \in Tasks |-> NoBranch]]
    /\ used = [r \in Runs |-> [t \in Tasks |-> NoBranch]]
    /\ status = [r \in Runs |-> "none"]
    /\ filed = {}
    /\ doomed = [g \in Collectors |-> {}]
    /\ pruning = {} /\ swept = {} /\ overtaken = {} /\ pulled = {}

Live(r) == phase[r] \in {"agents", "integrated"}

\* A live run that is still at work on a branch it made, or is to integrate it.
Depends(r, t) == Live(r) /\ \/ t \in created[r] /\ pc[r][t] # "done"
                            \/ result[r][t] = "ok"

At(f, r, t, x) == [f EXCEPT ![r][t] = x]

\* git branch -D, by name.
BranchDelete(t) ==
    /\ branch' = [branch EXCEPT ![t] = NoBranch]
    /\ pulled' = IF \E r \in Runs : Depends(r, t) THEN pulled \union {t} ELSE pulled

-----------------------------------------------------------------------------
(* driveRun, up to the fan-out.  A -resume reads some run's report.          *)

Begin(r) ==
    /\ phase[r] = "idle"
    /\ r \in Resuming => filed # {}
    /\ phase' = [phase EXCEPT ![r] = "agents"]
    /\ status' = [status EXCEPT ![r] = "running"]
    /\ pc' = [pc EXCEPT ![r] = [t \in Tasks |-> IF r \in Resuming THEN "look" ELSE "add"]]
    /\ overtaken' = overtaken \union swept
    /\ UNCHANGED <<branch, old, checkedOut, tried, created, result, sha, used, filed,
                   doomed, pruning, swept, pulled>>

Done(r, t, v, h) ==
    /\ pc' = At(pc, r, t, "done")
    /\ result' = At(result, r, t, v)
    /\ sha' = At(sha, r, t, h)

\* The verdict on committed work: under -lanes strict it may have strayed, and a
\* write-set that cannot be read fails it.
verdicts == {"ok", "stray", "failed"}

\* resumeAgent: no branch (or none that git could read), a branch at the base, or
\* work to reuse as it is.
resumeAgent(r, t) ==
    /\ phase[r] = "agents" /\ pc[r][t] = "look"
    /\ \/ pc' = At(pc, r, t, "add") /\ UNCHANGED <<result, sha>>
       \/ branch[t] = AtBase /\ pc' = At(pc, r, t, "clear") /\ UNCHANGED <<result, sha>>
       \/ branch[t] \in Work /\ \E v \in verdicts : Done(r, t, v, branch[t])
    /\ UNCHANGED <<branch, old, checkedOut, phase, tried, created, used, status, filed,
                   gcs, pulled>>

\* Whatever the branch holds by now; git refuses while some worktree has it checked
\* out, and the refusal is ignored.
DeleteBranch(r, t) ==
    /\ phase[r] = "agents" /\ pc[r][t] = "clear"
    /\ IF checkedOut[t] = Nobody THEN BranchDelete(t) ELSE UNCHANGED <<branch, pulled>>
    /\ pc' = At(pc, r, t, "add")
    /\ UNCHANGED <<old, checkedOut, phase, tried, created, result, sha, used, status, filed,
                   gcs>>

-----------------------------------------------------------------------------
(* runAgentWithRetries and runAgent.                                         *)

\* (mutant: a retry's reset for every attempt)
AddableReset(r, t) == checkedOut[t] = Nobody

\* (mutant: git worktree add --force -B)
AddableForced(r, t) == TRUE

\* git worktree add -b refuses an existing branch; -B, for a branch this run made
\* itself, resets it, but not under another worktree.
Addable(r, t) == IF t \in created[r] THEN checkedOut[t] = Nobody ELSE branch[t] = NoBranch

\* cell.AddWorktree: the worktree without files, then the files.  Failing at
\* either ends the task, the second time with the branch left at the base.
AddWorktree(r, t) ==
    /\ phase[r] = "agents" /\ pc[r][t] = "add"
    /\ \/ /\ Addable(r, t)
          /\ branch' = [branch EXCEPT ![t] = AtBase]
          /\ old' = old \union {t}
          /\ \/ /\ checkedOut' = [checkedOut EXCEPT ![t] = r]
                /\ created' = [created EXCEPT ![r] = @ \union {t}]
                /\ pc' = At(pc, r, t, "work")
                /\ UNCHANGED <<result, sha>>
             \/ Done(r, t, "failed", NoBranch) /\ UNCHANGED <<checkedOut, created>>
       \/ /\ ~Addable(r, t)
          /\ Done(r, t, "failed", NoBranch)
          /\ UNCHANGED <<branch, old, checkedOut, created>>
    /\ UNCHANGED <<phase, tried, used, status, filed, gcs, pulled>>

\* The agent command, and the driver's commit for an agent that only edits.
Commit(r, t) ==
    /\ phase[r] = "agents" /\ pc[r][t] = "work"
    /\ \/ /\ branch' = [branch EXCEPT ![t] = <<r, tried[r][t]>>]
          /\ old' = old \ {t}
       \/ UNCHANGED <<branch, old>>
    /\ pc' = At(pc, r, t, "judge")
    /\ UNCHANGED <<checkedOut, phase, tried, created, result, sha, used, status, filed,
                   gcs, pulled>>

MayRetry(r, t) == tried[r][t] < Retries

\* (mutant: a retry is not counted)
JudgeUncounted(r, t) ==
    /\ phase[r] = "agents" /\ pc[r][t] = "judge"
    /\ checkedOut' = [checkedOut EXCEPT ![t] = Nobody]
    /\ \/ branch[t] \in Work /\ Done(r, t, "ok", branch[t])
       \/ MayRetry(r, t) /\ pc' = At(pc, r, t, "add") /\ UNCHANGED <<result, sha>>
    /\ UNCHANGED <<branch, old, phase, tried, created, used, status, filed, gcs, pulled>>

\* The exit code, the head of the worktree and the lane decide; the worktree goes,
\* unless the attempt that ends the loop failed and -keep-failed is set.  A bad
\* exit may be retried; a stray or an expired budget ends the loop.
Judge(r, t) ==
    LET keep == checkedOut' = IF r \in KeepFailed THEN checkedOut
                              ELSE [checkedOut EXCEPT ![t] = Nobody]
        drop == checkedOut' = [checkedOut EXCEPT ![t] = Nobody]
    IN  /\ phase[r] = "agents" /\ pc[r][t] = "judge"
        /\ \/ branch[t] \in Work /\ Done(r, t, "ok", branch[t]) /\ drop /\ UNCHANGED tried
           \/ branch[t] \in Work /\ Done(r, t, "stray", branch[t]) /\ keep /\ UNCHANGED tried
           \/ Done(r, t, "failed", branch[t]) /\ keep /\ UNCHANGED tried
           \/ /\ MayRetry(r, t) /\ drop
              /\ tried' = At(tried, r, t, tried[r][t] + 1)
              /\ pc' = At(pc, r, t, "add") /\ UNCHANGED <<result, sha>>
        /\ UNCHANGED <<branch, old, phase, created, used, status, filed, gcs, pulled>>

-----------------------------------------------------------------------------
(* The rest of the run.                                                      *)

okTasks(r) == {t \in Tasks : result[r][t] = "ok"}

\* Integration, verify and the holdback resolve the branches by name, after the
\* agents' commits and write-sets were read (resolveTips).
Integrate(r) ==
    /\ phase[r] = "agents" /\ \A t \in Tasks : pc[r][t] = "done"
    /\ phase' = [phase EXCEPT ![r] = "integrated"]
    /\ used' = [used EXCEPT ![r] = [t \in Tasks |-> IF t \in okTasks(r) THEN branch[t] ELSE NoBranch]]
    /\ UNCHANGED <<branch, old, checkedOut, agents, status, filed, gcs, pulled>>

\* The report, then the phase: landed, parked, failed.  A tip that is missing fails
\* the run; "red" is a "done" whose report says that verify failed.
End(r) ==
    /\ phase[r] = "integrated"
    /\ phase' = [phase EXCEPT ![r] = "end"]
    /\ \E s \in {"done", "red", "error", "awaiting-ack"} :
         /\ (\E t \in okTasks(r) : used[r][t] = NoBranch) => s = "error"
         /\ s = "awaiting-ack" => okTasks(r) # {}
         /\ status' = [status EXCEPT ![r] = s]
    /\ filed' = filed \union {r}
    /\ UNCHANGED <<branch, old, checkedOut, agents, used, gcs, pulled>>

\* An ack or a rejection.
Resolve(r) ==
    /\ status[r] = "awaiting-ack"
    /\ status' = [status EXCEPT ![r] = "done"]
    /\ UNCHANGED <<branch, old, checkedOut, phase, agents, used, filed, gcs, pulled>>

\* Killed: worktrees stay registered, no report is written.
Kill(r) ==
    /\ r \in Killable /\ Live(r)
    /\ phase' = [phase EXCEPT ![r] = "dead"]
    /\ status' = [status EXCEPT ![r] = "interrupted"]
    /\ UNCHANGED <<branch, old, checkedOut, agents, used, filed, gcs, pulled>>

-----------------------------------------------------------------------------
(* sig gc -delete.                                                           *)

\* Work grows older than -older-than.  No run lives that long after it commits.
Age(t) ==
    /\ branch[t] \in Work /\ t \notin old
    /\ ~Live(branch[t][1])
    /\ old' = old \union {t}
    /\ UNCHANGED <<branch, checkedOut, phase, agents, used, status, filed, gcs, pulled>>

\* The park record of an open park names the branches it holds.
loadParkedBranches == {t \in Tasks : \E r \in Runs : status[r] = "awaiting-ack" /\ t \in okTasks(r)}

Finished(r) == status[r] \in {"done", "red"}

\* Every branch a report names, unless its run is done or rejected.
loadProtectedBranches == IF \E r \in filed : ~Finished(r) THEN Tasks ELSE {}

\* (mutant: every branch that is old)
gcPlanAll(g) == {t \in old : branch[t] # NoBranch}

\* Old branches, unless an open park holds them or a report of an unresolved run
\* names them.
gcPlanFor(g) ==
    {t \in old : /\ branch[t] # NoBranch
                 /\ t \notin loadParkedBranches
                 /\ g \in Forcing \/ t \notin loadProtectedBranches}

\* A worktree is prunable once the tempdir of the dead run that left it has gone.
abandoned == {t \in Tasks : checkedOut[t] # Nobody /\ phase[checkedOut[t]] = "dead"}

Plan(g) ==
    /\ g \notin swept
    /\ swept' = swept \union {g}
    /\ doomed' = [doomed EXCEPT ![g] = gcPlanFor(g)]
    /\ \/ abandoned # {} /\ pruning' = pruning \union {g}
       \/ UNCHANGED pruning
    /\ overtaken' = IF \E r \in Runs : Live(r) THEN overtaken \union {g} ELSE overtaken
    /\ UNCHANGED <<branch, old, checkedOut, phase, agents, used, status, filed, pulled>>

\* applyGC: first git worktree prune, which takes whatever is prunable by then ...
Prune(g) ==
    /\ g \in pruning
    /\ pruning' = pruning \ {g}
    /\ \E T \in SUBSET abandoned :
         checkedOut' = [t \in Tasks |-> IF t \in T THEN Nobody ELSE checkedOut[t]]
    /\ UNCHANGED <<branch, old, phase, agents, used, status, filed, doomed, swept, overtaken,
                   pulled>>

\* ... then branch after branch.  One that is missing, or that git refuses to delete,
\* ends the sweep.
Delete(g) == g \notin pruning /\ \E t \in doomed[g] :
    /\ \/ /\ branch[t] # NoBranch /\ checkedOut[t] = Nobody
          /\ BranchDelete(t)
          /\ doomed' = [doomed EXCEPT ![g] = @ \ {t}]
       \/ /\ branch[t] = NoBranch \/ checkedOut[t] # Nobody
          /\ doomed' = [doomed EXCEPT ![g] = {}]
          /\ UNCHANGED <<branch, pulled>>
    /\ UNCHANGED <<old, checkedOut, phase, agents, used, status, filed, pruning, swept, overtaken>>

applyGC(g) == Prune(g) \/ Delete(g)

-----------------------------------------------------------------------------
AgentStep(r, t) == resumeAgent(r, t) \/ DeleteBranch(r, t) \/ AddWorktree(r, t)
                   \/ Commit(r, t) \/ Judge(r, t)
RunStep(r) == Integrate(r) \/ End(r) \/ \E t \in Tasks : AgentStep(r, t)

Next == \/ \E r \in Runs : Begin(r) \/ RunStep(r) \/ Resolve(r) \/ Kill(r)
        \/ \E t \in Tasks : Age(t)
        \/ \E g \in Collectors : Plan(g) \/ applyGC(g)

Spec == Init /\ [][Next]_vars

\* Agents are under -agent-timeout; a run that is not killed goes on.
FairSpec == Spec /\ \A r \in Runs : WF_vars(RunStep(r))

-----------------------------------------------------------------------------
(* Properties.                                                               *)

\* Every variable keeps its type; no agent makes more than -agent-retries retries.
TypeOK ==
    /\ branch \in [Tasks -> Heads]
    /\ old \in SUBSET Tasks
    /\ checkedOut \in [Tasks -> Runs \union {Nobody}]
    /\ phase \in [Runs -> {"idle", "agents", "integrated", "end", "dead"}]
    /\ pc \in [Runs -> [Tasks -> {"idle", "look", "clear", "add", "work", "judge", "done"}]]
    /\ tried \in [Runs -> [Tasks -> 0..Retries]]
    /\ created \in [Runs -> SUBSET Tasks]
    /\ result \in [Runs -> [Tasks -> {"none", "ok", "stray", "failed"}]]
    /\ sha \in [Runs -> [Tasks -> Heads]]
    /\ used \in [Runs -> [Tasks -> Heads]]
    /\ status \in [Runs -> {"none", "running", "done", "red", "awaiting-ack", "error", "interrupted"}]
    /\ filed \in SUBSET Runs
    /\ doomed \in [Collectors -> SUBSET Tasks]
    /\ {pruning, swept, overtaken} \subseteq SUBSET Collectors
    /\ pulled \in SUBSET Tasks

\* Who moves a branch that has work on it: a run that tries a task again, a -resume
\* that found the branch at the base when it looked, and gc.
TriesAgain(r, t) == pc[r][t] = "add" /\ tried[r][t] > 0 /\ pc'[r][t] # "add"
Clears(r, t) == pc[r][t] = "clear" /\ pc'[r][t] = "add"
Sweeps(g, t) == t \in doomed[g] /\ t \notin doomed'[g]

\* The attempt that committed this work was judged failed, and its run tried again.
Discarded(w, t) == tried[w[1]][t] > w[2]

Resumable(r) == r \in filed /\ ~Finished(r)

\* Whatever overlaps, committed work leaves its branch only so: the run that made it
\* tries the task again; another run does that whose own branch was deleted under it; a
\* -resume clears what it saw at the base (it may hold work by now: README, section 5);
\* gc takes it, and then it is old, unparked and in no live run's hands, and the run
\* that made it is finished or filed no report (or -force), unless a run was live when
\* that gc planned or has begun since.  In particular no first attempt ever takes work
\* from a branch, nor a retry that of a run whose branch nobody deleted (run.go
\* runAgent: "rather than silently resetting someone else's committed work";
\* resumeAgent; gc.go).
WorkSurvives ==
    [][\A t \in Tasks : branch[t] \in Work /\ branch'[t] # branch[t] =>
         \/ \E r \in Runs : TriesAgain(r, t) /\ (r = branch[t][1] \/ t \in pulled)
         \/ \E r \in Runs : Clears(r, t)
         \/ \E g \in Collectors : Sweeps(g, t) /\
              \/ g \in overtaken
              \/ /\ t \in old /\ t \notin loadParkedBranches
                 /\ \A r \in Runs : ~Depends(r, t)
                 /\ g \in Forcing \/ ~Resumable(branch[t][1])]_vars

\* What a run integrates is what its agent phase read and judged, although it resolves
\* the branch by name a second time: the commit whose write-set was classified is the
\* tip that was merged (run.go: writeSets reuses each agent's actual write-set).  It
\* holds across every overlap of runs, resumes, retries and collections, with two
\* exceptions: the branch was deleted by name while a live run depended on it, or a
\* -resume took over an attempt that its own run then discarded.
UsesWhatItRead ==
    \A r \in Runs : phase[r] \in {"integrated", "end"} =>
        \A t \in okTasks(r) :
            used[r][t] = sha[r][t] \/ t \in pulled \/ Discarded(sha[r][t], t)

\* What the sources say of -resume and gc, and the code does not keep.
\* resumeAgent of a branch found at the base: "deleted here -- its content is
\* byte-identical to base, so nothing is lost".
ClearingLosesNothing ==
    [][\A r \in Runs, t \in Tasks :
         Clears(r, t) /\ branch[t] \in Work => branch'[t] = branch[t]]_vars

\* docs/USAGE.md of sig gc, of the branches of a run that is running: "Protected. The
\* run is live." (-force aside)
PhaseProtects ==
    [][\A g \in Collectors \ Forcing : \A t \in doomed'[g] \ doomed[g], r \in Runs :
         t \in okTasks(r) /\ sha[r][t] = branch[t] => status[r] # "running"]_vars

\* loadProtectedBranches drops a run's protection when its status says "done", "(it
\* landed)": without -force gc plans to delete no work of a run that did not land.
DoneMeansLanded ==
    [][\A g \in Collectors \ Forcing : \A t \in doomed'[g] \ doomed[g] :
         branch[t] \in Work => status[branch[t][1]] # "red"]_vars

\* No two runs' agents work on the same branch at once, and while one does, the
\* branch holds its work or the base (git's refusals, run.go's created latch).
Working(r, t) == phase[r] = "agents" /\ pc[r][t] \in {"work", "judge"}
OwnBranch ==
    \A r \in Runs, t \in Tasks : Working(r, t) =>
        /\ checkedOut[t] = r
        /\ branch[t] \in {AtBase, <<r, tried[r][t]>>}

\* The agent phase of a run that is not killed ends, whatever collides.
AgentsEnd == \A r \in Runs : phase[r] = "agents" ~> phase[r] # "agents"
=============================================================================
