# sigbound in TLA+

A TLA+ model of sigbound, the landing engine in this repository: many agents
commit to branches of their own, sigbound integrates the branches off to the
side, verifies the result, and moves the base branch to it by one
compare-and-swap, or parks it until a human acknowledges it. What has to be
right is small to say and hard to test: *nothing reaches the base that was not
verified on the head it replaces, nothing lands twice, nothing a human has to
see lands without one, and nobody's work is lost*, while acks, rejects,
deadlines, signals, kills, resumes and other people's pushes interleave freely.

| module | models | checked by | proved in |
|---|---|---|---|
| `Landing` | what every landing path promises about the base ref | (the abstract specification) | |
| `Park` | `cmd/sig/park.go`: claim, lock, record, ack, re-verify, reject, timeout; gc as it meets a park | `MCPark` | `ParkProofs` |
| `Run` | `cmd/sig/run.go`: one or more runs from base pin to status marker | `MCRun` | `RunProofs` |
| `Agents` | `cmd/sig/run.go`, `cell/worktree.go`, `cmd/sig/gc.go`: who makes, resets, reuses and deletes the agents' branches | `MCAgents` | `AgentsProofs` |
| `Policy` | `cmd/sig/policy.go`, `pkg/policy`, `impact.go`, `verifycache.go`: what a landing must pass, while the policy itself is a file that changes | `MCPolicy` | `PolicyProofs` |
| `Watch` | `cmd/sig/watch.go`, `intent.go`: the watch loop, the seen-set, scheduled intents | `MCWatch` | `ServeProofs` |
| `Unland` | `cmd/sig/unland.go`: taking one run back, among runs, acks and other unlands | `MCUnland` | `UnlandProofs` |
| `Occ` | `cell/occ.go`, `cell/integrate.go`: partition, parallel folds, combine | `MCOcc` | `AgentsProofs` |
| `Blobs` | `pkg/gitobject/reader.go`, `cell.BlobsBatch`: a git daemon read by many calls, and the fallback | `MCBlobs` | `BlobsProofs` |
| `Serve` | `cmd/sig/serve.go`: several daemons over one set of run directories: admission, run goroutines, acks, reads, drain, kill, recovery | `MCServe` | `ServeProofs` |
| `Ledger` | `cmd/sig/log.go`, `release.go`, `board.go`: what readers conclude about the past from reports, records, statuses and notes | `MCLedger` | `LedgerProofs` |
| `EventPush` | `cmd/sig/eventpush.go`: sinks, bounded queue, delivery, shutdown | `MCEventPush` | `LedgerProofs` |

`PROJECT.json` maps each definition to the source lines it stands for, gives for
each property a small change of a mapped definition that breaks it, and lists
the hazards of the code at their lines. Definitions keep the source's names
where TLA+ lets them. The operators marked `(mutant: ...)` in the modules are
those small changes; no specification uses them.

Run a configuration with `tlc -config RunSettles.cfg MCRun`, check proofs with
`tlapm ParkProofs.tla`, and so for the other `...Proofs` modules.

## 1. The system

### Components

**Run pipeline** (`cmd/sig/run.go`). State: the pinned base head, each agent's
verdict, the report being built, the repair counter, `driveRun`'s error, a
signal context; on disk the run directory with `status.json`, `report.json`,
`usage.json`, `park.json`, `resume.json`. Operations: begin (with `-resume`,
refuse a moved base), fan out agents, hold back what the policy wants acked,
integrate the rest, verify with repair, bisect, land by compare-and-swap, park
the held groups, note, publish, and write each file. *Hard:* minutes pass
between reading the base and swapping it; each file is written by itself, so a
kill leaves any prefix; a cancelled context makes every later git call fail;
two runs and a resume share branches by name. *Correct when* the report, the
usage record and the status agree with what the base really holds, every
agent's branch is accounted for once, a park is never lost, every run settles.

**Parking** (`cmd/sig/park.go`). State: the record, the phase marker, a
keep-alive ref, a claim file, an advisory lock file. Operations: ack (direct,
or after a re-verify on a moved base), reject, a lazy timeout sweep by any
reader, parking by a run. *Hard:* processes share only files; the claim may be
stolen or removed as vestigial; compare and rename are two system calls; the
record is written before the ref moves. *Correct when* one resolver wins, a
rejection is final, a landing is verified on the head it replaces and happens
at most once, the commit of an open park stays pinned.

**GC** (`cmd/sig/gc.go`). State: none of its own: a plan read from refs, reports
and parks, then applied. *Hard:* the plan is stale when applied. *Correct when*
nothing an open park or an unlanded run needs is deleted.

**Cell and integration** (`cell/`). State: union-find forest, group folds,
levels of the pairwise combine; the cell's worktrees. Operations: partition by
write-set and semantic edges, fold each group, resolve conflicts, combine or
overlay. *Hard:* groups fold concurrently, in any order, and are combined
without looking at content again. *Correct when* groups are disjoint, no group
is larger than it must be, and the result is the serial one.

**Agents' branches** (`cmd/sig/run.go`, `cell/worktree.go`). State: the branches
`agent/<id>`, which worktree has which checked out, per task the attempt and its
verdict. Operations: add a worktree (`-b`, or `-B` on a retry), run the agent,
commit, judge, retry; with `-resume` look at what is there, reuse it or delete
it. *Hard:* a branch name is shared by every run with that task, by resumes and
by gc, and git's refusal to touch a checked-out branch is the only lock.
*Correct when* committed work is not lost, two agents never share a branch, and
what is integrated is what was judged.

**Landing policy** (`cmd/sig/policy.go`, `pkg/policy`, `impact.go`). State: none
but a file of the tree itself, read at the pinned base. Ack-paths, deny-paths,
floors, the verify battery; its holdback grouping decides what parks,
`-verify-impact` what is verified. *Hard:* the fixer changes the tree after all
of that was computed; the policy changes under an open park. *Correct when* a
group with an ack-path never lands unacked, and nothing lands under a laxer bar
than the policy on the base asks for.

**Verify cache** (`cmd/sig/verifycache.go`). State: green verdicts by tree and
command. *Correct when* a hit never stands for a check that did not run.

**Object reader** (`pkg/gitobject`, `cell.BlobsBatch`, `internal/gitx`). State: a
`git cat-file --batch-command` process, the place in its stream, a gate, poison,
closed; the cell's daemon and `blobMu`. *Hard:* the stream carries no request
ids; a cancellation armed for one call may fire in the next. *Correct when* no
call gets another's blob, a broken daemon costs only speed, and no process is
left behind.

**Daemon** (`cmd/sig/serve.go`). State: `busy` per cell, `activeRuns`, the
in-memory run records, queues of branches, all under one mutex; the run
directories. Operations: admit or refuse a run, execute it in a goroutine,
answer reads from memory or disk, recover stale runs at startup, ack and reject
over HTTP. *Hard:* admission against completion, memory against disk, a
restart while another process still owns runs (pid files, pid reuse). *Correct
when* a cell never runs two runs, no slot leaks, and a live run is never marked
interrupted.

**Event delivery** (`cmd/sig/eventpush.go`). State: a bounded queue, one
consumer, three counters. *Hard:* overflow, retries, shutdown in mid-flight.
*Correct when* the emitter never blocks, delivery is FIFO, each event is sent,
failed or dropped, and counted.

**Watch queue and intents** (`cmd/sig/watch.go`, `cmd/sig/intent.go`). State:
`watch-seen.json`, `intent-fired.json`, explicitly queued branches, the
alternation bit between intents and branches. Operations: poll, collect, run a
cycle through the pipeline (adopting branches), settle the seen-set, retire
intent branches. *Hard:* the seen-set is a cache written after the run; a crash
between the landing and the write; a branch pushed again meanwhile. *Correct
when* a branch is not landed twice, not forgotten, and neither kind of work
starves the other.

**Unland** (`cmd/sig/unland.go`). State: an inverse branch and a run directory.
It folds the inverse on the current head, verifies, and lands or parks it.
*Hard:* the base moves meanwhile; later runs overlap. *Correct when* only the
target run's contribution is taken back.

**Journal, board, release notes, usage, inbox** (`log.go`, `board.go`,
`release.go`, `usage.go`, `inbox.go`). State: none; readers of run directories and
notes, file by file, that decide "landed" from the report (`landed(rep)`) or from an
acked record under a status `done` (`ackedLandedSHA`). *Hard:* reports are older than
acks, than refused swaps and than whatever moved the base; directories vanish, notes
are copied, runs go on while they are read. *Correct when* no answer names a landing
that did not happen, each landing is listed once, what is not listed is counted, and
a waiting park is shown.

**Planner** (`plan.go`): an external command with a bounded retry.
**Git plumbing** (the rest of `internal/gitx`), **worker and bundles** (`worker`,
`cell/bundle.go`, `cmd/sig/bundle.go`), **attestation** (`pkg/attest`): stateless
wrappers and formats. **Authoring, presets, doctor, config, env, replay,
semantic** and the **benchmarks**: text in, text out.

### How they interact

```
 watch loop, intents (Watch) --\
 sig run / POST /runs (Serve) ----> Run pipeline --> agents' branches (Agents) <-- sig gc
                                 |  \--> cell integration (Occ) --> blob daemon (Blobs)
                                 |  \--> policy, impact, cache, verify, fixer (Policy)
                                 |--> base ref, by compare-and-swap  <--- git push by others
                                 |--> run directory: report, usage, park, status
                                 |          ^            ^
 sig ack / reject / readers / serve's HTTP -+            |
      (Park: claim, record, swap, status)                |
 serve's startup: recoverStaleRuns ----------------------+
 sig gc: reads reports and parks, deletes branches and keep-alive refs
 sig unland: reads reports, builds an inverse, lands or parks it (Unland)
```

The base ref is the one thing everybody writes; git's compare-and-swap is the
only atomic step between processes besides `O_EXCL` and `rename`.

## 2. The modules

### Landing

A commit is the *sequence of landings* that built it: its parent is its front,
ancestry is the prefix order, and two commits are equal when they were built
from the same landings in the same order. `Landing` says that the base moves by
one landing at a time, to a child of the head it held that is in `green` (its
tree passed verify), or by a `Foreign` landing. `Park`, `Run` and `Unland` instantiate it
with their own `Landings` and are proved to implement it; TLC checks it of the first two
as well (`LandingSpec` as a PROPERTY).

### Park

One action per system call that another process can see: `Create`, `Confirm`,
`Exists`, `Vestige`, `Stat`, `Steal`, `Unclaim` are `claimPark`; `Compare` and
`Write` are the two halves of `writeParkCAS`; `Lock`, `Look`, `Verify`, `Pin`,
`Swap`, `Refuse` and `Rewind` are `ackRun` and `ackReverify`; `Phase`, `Note` and
`Unpin` the tails they share with `rejectRun` and `enforceParkTimeout`; `Plan`
and `applyGC` gc's two halves. A call's position is its `pc`,
the `claimPark` section it is in is `at`, its copy of `park.json` is `mine`.
Abstractions, each named in the module:

- A claim becomes stale (`parkClaimStale`, a generous time) only when its
  holder has died. A holder that is alive is taken to be quicker.
- `resolvedAt` is a boolean; an ack that re-verified is named by itself, as its
  commit is a new object.
- Stealing the advisory lock is one step; a platform on which a pid cannot be
  probed (Windows) makes an ack `Blind`, and such an ack may take a lock that is held.
- Acks, rejects and gcs run once each; a reader polls again and again. `Casts`
  says which calls take part together, so that one run holds several instances.
- `recheckResolvable` reads status and record in one step.
- A file or git operation of a `Faulty` call may fail, which releases the claim.
- A commit that no ref pins may or may not be pruned when it is looked up.
- A verify command is set (without one every tree counts as green).

### Run

One action per phase of `driveRun` and one per file `runRun` writes afterwards,
in their order: `Begin`, `Agent` (per task: `Fresh`, `Reuse`, `Collide`),
`Integrate`, `Verify`, `Repair`, `Bisect` or `GiveUp`, `Land`, `ParkHeld`,
`Note`, `Publish`, then `File`, `recordRunUsage`, `Finish`, `Mark`, `Label`.
An error aborts to `File`, as `runRun` still writes what it has. `Signal`
cancels a run's context and every command it starts afterwards fails; the
signal may also kill git right after it moved the ref, so an error can be
reported for a landing that happened. `Kill` stops a run between any two
actions, `Recover` is `recoverStaleRuns`. `Reverify`, `Ack`, `Reject` are Park's
protocol in one step each, because what matters here is what a run leaves for
them. A landing names the work it carries (task and run whose agent committed
it), so the same commit on the base twice is visible, and `reverts` says that
its tree was merged with the wrong merge base.
Abstractions: an agent is one step (`Agents` takes it apart); every branch is an
integration group of its own (`Occ` is about groups); what the policy holds is a
constant (`Policy` computes it); a fold's conflicts are any set of branches that
leaves one; adoption is `Watch`'s, the environment is left out.

### Agents

`Begin` is `driveRun` up to the fan-out. Per task `resumeAgent` looks at the branch,
`DeleteBranch` is the `git branch -D` of an unused one, `AddWorktree` the two git
calls of `cell.AddWorktree` (either may fail, the second after the branch was made),
`Commit` the agent command with the driver's commit, `Judge` the verdict, the
removal of the worktree and the retry. `Integrate` reads the tips a second time
(`resolveTips`), `End` files the report. `Plan` and `applyGC` are gc's halves, `Age`
makes work older than `-older-than`. A branch is missing, at the base, or at the
work one attempt of one run committed; `checkedOut` is the worktree git protects it
for. Every run has the same tasks, so they meet on every branch, and nothing keeps a
`-resume` or a gc from overlapping live runs: the code does not. Two history variables name
what the properties must except: `pulled`, branches deleted by name while a live run
depended on them, and `overtaken`, collections that planned next to a live run or before one
began. `git worktree prune` is a step of `applyGC` (`Prune`), which takes whatever is
prunable by then. Abstractions: the agent's content, the write-set (it is judged, strays, or
cannot be read), budgets (an expired one fails the attempt), the order in which tasks get a
slot; a gc's age limit is longer than a run lives after its commit (`Age`).

### Policy

A tree gives each path its content; the policy file's content *is* the policy it
parses to, every other path a package of its own. `Begin` pins, loads and resolves
(`acceptable`, `resolvePolicy`, `validateVerifyPreconditions`), `Integrate` computes
`policyHoldback` over the groups and merges what is clear, `Verify` picks a scope and
asks or fills the cache, `Repair` is the fixer with `RepairRefusal`, `Land` the swap,
`Park`/`VerifyPark` are `parkHeldGroups`, `Ack` the direct landing, `Reverify`/`VerifyAck`
`ackReverify` under the policy of the new head, and `Push` anybody else, who may
change the policy too. A verdict carries the tree and the command that really ran, so
a cache hit that stands for something else is visible. Abstractions: a glob is the
set of paths it matches, a policy text that does not parse is one bit (no text of the
checked instance has it set; the proofs cover it), merge conflicts, semantic edges and bisect are `Occ`'s and `Run`'s,
whether a command passes is a free choice every time.

### Watch

`Tick(d)` is a poll (d: a due one, else a look for a full batch only); `Fire` and
`NoFire` are the intents' turn, `Collect` is `watchCollect` with classification and
quota, `Adopt` the run's second look at each branch, `resolveTips` the third, by name and
with `requireContainsBase` (a branch pushed again in between lands as it is by then), `Agent`
a fire's agent, `execRun`
the run in the one of the ways it can end, `watchSettle` and `Retire` what the loop
concludes. `seen` and `fired` are the two files; either may be lost, and the second may fail
to be written (`Unwritten`), after which the fire goes on. Around them `Push`, `OtherPush`,
`OtherRun`, `Acked`, `handleQueue`, `Elapse`, `LoseSeen`, `LoseFired`, `Killed`, `Cancel`,
`Drained`, `Restart`. A commit contains the base until the base moves, and is merged once it
landed. Abstractions: what the loop looks at only when it starts a tick changes only
between ticks (`Between`); an intent's schedule is one bit, its priority its place in
`Intents`; a name for a fire's branch is reused once it is gone (in the code it
carries the time); `requireContainsBase` and `resolveTips`, a few system calls apart, are
one step.

### Unland

A file is cut into regions, the stretches that a three-way merge takes from one side or the
other (git's hunks), and a tree maps each region to the commit that wrote it; `file`, one of
`Layouts`, says which path a region is in and never changes. Merges and conflicts are of regions (`Clash`), so an unland that
overlaps later work in one file lands when the regions differ (`entangledRun`:
`unland.go:89`); write-sets, groups and the blast radius are of paths (`Names`). `planUnland`
is every guard,
the write-set, the blast radius and `startRunDir`, read at one moment; `Fold` is
`buildInverse` with `integrateVerifyPark` (the inverse lands, parks, or is empty),
`Blocked` its failures, `Land` the swap, `Report` note, event and `finish`. `Begin`,
`End`, `Ack`, `Reverify` are other runs and acks of anything parked, each reduced to
what it leaves in its run directory; `ForeignLand` is a push. Ids are given out in
order, runs and unlands share them. A run makes at most one direct and one parked
landing. `TakenBackOnce` allows a second unland of a target when another unland took
something back in between. That case is real, with five ids: run 1, unland 2 of 1, unland
3 of 2, unland 4 of 1 (its work is on the base again) and unland 5 of 2. Left out: unland's own `-resolver`, `-dry-run`, an unland killed in the
middle (it takes no further step) and the daemon's endpoint.

### Blobs

A reader is a process with the commands git has not answered (`asked`) and the
answers nobody has read (`told`); an answer is the command it really answers, so a
mistaken one is visible although the code sees only its shape (`Plausible`). `Lock`
is `Cell.BlobsBatch` up to the daemon's Read, `Spawn` the fallback, `Turned` and `Gate`
the ways into a Read, `Ask` and `Hear` one command and its answer, `Return` the end of
a chunk, `Failed` what every error path does, `Reap` Close's Wait; `Break`, `Die`,
`CtxDone`, `Cancel`, `Close` and `Closed` happen around them. `via` chooses between
calls through a cell and calls that share one Reader. Contents are the spec they
belong to; framing errors are not distinguished from each other.

### Occ

`IntegrateOCC`: `Index`/`NextBranch`/`Edge` build the union-find forest over an
inverted index in any order of a branch's paths (a Go map), with path halving
and union by rank (`halve` is one turn of find's loop); `Bucket` makes the groups, sets
whose members are folded in input order; `Fold(g)` folds one branch of one
group, groups interleaving; `Pair`/`Level` are the pairwise reduction, whose
"partition invariant violated" error `HeadsDisjoint` excludes (in the run it would show as
a deadlock, so deadlock is checked). `OverlayTrees` and `IntegrateNaive` are the other two ways to the same
tree. A path's content is the set of branches whose edits it holds; which pairs
of edits clash and which clashes the resolver settles is chosen freely. Paths
are independent: a file standing where another branch needs a directory is not
modelled (git reports it and the run errors).

### Serve

A daemon's memory is `busy`, `active` and `mem` (one mutex, so each section under
it is one step); the directories are `status` (the phase and the process that
wrote it) and `park`. `acquireRun(p, r, c)` is the admission of run `r` for cell
`c` with its first marker; `Begin`, `Drive`, `Park`, `Mark`, `Finish` are `execRun`
and `finishRunDir` in the order of their writes; `Ack` and `Read` are
`handleAckReject` and `handleGetRun`, with `Resolve`, `MarkResolved` and `Answer`
as the record, the marker and the view in memory, or `Decline`; `Start`, `Look`,
`Judge`, `Heal`, `Listen` are `newServer` with `recoverStaleRuns`, one directory at
a time while other daemons run; `Drain`, `Stop` and `Kill` end a process, and
`Dies` is what goes with it. Abstractions:

- Each daemon is started once; a restart is another one over the same
  directories, and the sweep a `sig run` does at its start is like a daemon's.
- `driveRun` is one step (module `Run` is about it); it lands, parks or fails.
- A resolution is the record and the status, in that order, and nothing else
  (module `Park` is about it). A call of kind `"other"` is whatever resolves a
  park outside a run's slot: a shell, `GET /inbox`, `expireParks`.
- Pids are readable and mean the process that wrote them. Where they are not
  (Windows), the code says that a live run may be taken for a dead one.
- `Shutdown` waits 30 seconds for a handler, so `Stop` may cut one off; it waits
  for every run.
- The watch loop (module `Watch`) and unland take a slot as an ack does; request
  validation and the read-only endpoints are left out.

### Ledger

`Begin` to `Finish`, `AckRecord` to `AckNote`, `Reject`, `Kill`, `Sweep`, `Delete`, `Copy`
and `Push` leave the traces, each reduced to what a reader can see of it (modules
`Run`, `Park` and `Unland` are about the writers). `AskSha`, `ShaNote`, `ShaWalk` are
`resolveProvenance`; `AskRelease`, `ReleaseWalk`, `ReleaseRow`, `ReleaseList`, `ReleaseNote`
are `buildRelease`, one read of a directory (`readRunReport`, then `readLogRow` when there
was no report) or one note at a time, and `AskBoard`, `ReadStatus`, `ReadRow`
are `scanRuns` with `boardColumn`. A run's tips may be an earlier run's (`-resume`, a
watch cycle), so two reports can name one commit. A query's `known` is history: what
held when the question was asked.
Abstractions: one reader asks one question and nothing new begins meanwhile (`Quiet`,
`Over`); status and report are one read in `readLogRow`; every run is taken to be of one card; the board's `limit` (50 runs by default) is left out, and
a park older than it is not shown; the record and the marker of a run that parked are
one step, as `diskRunStatus` makes them one to a reader; a note is copied, with or without
its run id, but is never forged.

### EventPush

`Write` and `Enqueue` are the two selects of `eventSink.Write` (is the reader gone;
enqueue or drop); `Take`, `Post`, `Retry`, `Backoff`, `Leave`, `Close` are
`eventPusher.loop`, `deliver` and `post`. The receiver may take a line although the
answer never arrives. `got` and `total` are history. Lines that enter the queue
after the loop's last look at it are neither sent nor dropped; the loop's comment
accepts them, and `Conserved` says that they are the only ones. A line's content,
the signature and the URL are left out.

## 3. What the runs check

| run | instance | what it shows | states |
|---|---|---|---|
| `Park` | three casts: 1 ack, 1 reject and 1 polling reader; 2 acks, one of them killable, failing and blind to pids, and 1 gc, with or without `-force`; that ack and a reader. 1 foreign landing, deadline at any time, either phase marker a crash may leave | a rejection is final; a park lands at most once; an open park keeps its branches and its pin, unless a forced gc planned while an ack had the record resolved; implements `Landing`; an expired park is resolved although its resolver died | 1.0 M |
| `RunSettles` | 1 run of 3 tasks, 1 held, 2 repairs, bisect, signal, kill, faults, 1 foreign landing | the report agrees with the base; every branch accounted for; parks reachable; implements `Landing`; the run settles | 0.09 M |
| `RunResume` | 2 fresh runs and a resume over 2 shared branches, 1 held | work lands once | 0.67 M |
| `Agents` | 2 fresh runs (one `-keep-failed` and killable), 1 resume, 1 gc, 1 task, 1 retry, overlapping freely | one agent per branch; what is integrated was judged, unless the branch was deleted by name under a live run; committed work goes only by a retry, a resume's deletion or a gc that may take it; the phase ends | 1.7 M |
| `Policy` | 2 runs (one with impact, both cached), 2 branches of up to 2 paths, 3 paths, 2 policies (none; battery, ack-path, deny-path, floor), 1 repair, 2 landings or pushes | nothing reserved for an ack lands without one; what lands passed its base's whole battery on that tree; an impact scope covers what changed | 2.8 M |
| `Watch` | 2 events out of: a push (to 2 branches, one outside the prefix, up to twice), a kill, a drain, a run of others, a lost seen-set, a lost or unwritten record of fires; 2 intents, a quota of 1, a policy that sets batch and verify, fairness | landings undo nothing; acceptance judges every fire on record; every arrival is decided; every ripe intent fires | 0.99 M |
| `Unland` | 2 unlands, 2 runs, 4 run directories, 2 regions, in two files or in one, scan limit 1, 1 foreign landing | an unland undoes its target and nothing else, in files others wrote to as well; its outcome is true; work is taken back once, unless another unland put it back | 1.5 M |
| `Ledger` | 2 runs or unlands of 1 branch, 1 push or mishap (a kill, a deleted directory, a note copied with or without its run id), each of the three questions | no false landing, and rows credit what their landing brought; one row per landing, but for a note with and one without a run id; no silent gap, but for a report filed while the document was made; a card shows a park | 2.7 M |
| `Occ` | 4 branches, 3 paths, up to 2 paths each, up to 2 clashes, 1 semantic edge | the combined tree is the serial fold's and the overlay's | 0.56 M |
| `Blobs` | 2 calls (a blob, a missing one and a blob in two Reads; a blob, a tree and one too large), via a cell or one Reader, 2 process faults, cancellation and Close at any time | no call gets another's blob; calls fail open; every call ends unless git is silent under a context nobody cancels | 0.09 M |
| `Serve` | 2 daemons, one killable, 2 runs, 2 cells, 1 call of any kind, a quota of 1, fairness | one run or ack per cell; live runs never healed, dead ones always; every slot returns | 0.51 M |
| `EventPush` | 2 emitters of 2 lines, a queue of 1, 2 attempts, cancelled at any time, fairness | every line counted; order; emitting never waits | 0.03 M |

Each module also has its type invariant `TypeOK` (`WatchTypeOK`, `PushTypeOK`, `OccTypeOK`). Where a proof
shows it (`TypeCorrect`) the run does not repeat it, and neither does one repeat
`Park!LandsOnlyVerified`, `Serve!QuotaHolds` and `Occ!HeadsDisjoint`, nor `Unland!LandingSpec`, which
are theorems too.

**Why the bounds are enough.** The interesting Park states need a resolver that
holds the claim, one that takes it for dead, and one that profits: three calls,
and `Casts` names the three sets of calls that differ in what can go wrong. (Two
acks *and* a reject would be the fourth, and the code does not survive it: section 5; the
proofs say which steps of it are to blame.)
One run meets every phase; three tasks let bisect drop one branch, land another
and hold a third; two repairs reach the cap after a repair that was not the last.
Reuse needs a branch left by one run, the manifest of another and the resume:
three runs. In `Agents` tasks meet only at the end, so one task with all three runs on
it is the case; a kept worktree and a dead one are what makes git refuse. One gc meets a
run at each of its steps; two differ from it only in who finds a branch gone. In `Policy`
two paths per branch entangle two branches, one of them with an ack-path; one import
makes a changed package reach one that did not change; the second landing lets a
park meet another policy. In `Watch` two intents are needed for one to starve the
other and two branches for a quota of one to defer; a mishap is a restart between any two
steps, and `MaxEvents` lets a behaviour have two of them all: both branches, one pushed
again, or one and a mishap. In `Unland` two runs on
the same path and two unlands make: the same target twice, the unland of an unland,
an overlap that must be refused, a park overtaken by either; four ids are one each. Two
regions of a file (`Layouts`) are an overlap that merges and one that does not. In
`Ledger` two runs are a run and its resume or its unland, and the mishap takes the
directory, copies the note, kills the writer or merges its branch by hand. Union by rank first differs from a naive union at four
elements, and four groups give the pairwise combine two levels, three an odd one
out. A second daemon is both the restart that sweeps and the neighbour whose
runs it must leave alone; two runs and two cells with a quota of one meet both
refusals (cell busy, too many runs); one call meets a run or a sweep at each of
its steps. In `Blobs` two calls are the one that broke the stream and the one that finds it
broken; two faults take away the daemon and its successor. A queue of one overflows
at the second line, and with two emitters an overflow of one falls between two lines
of the other. The bounds are named in the modules: `MaxForeign`, `RepairMax`,
`WriteMax`, `FixMax`, `MaxLive`, `MaxBase`, `EdgeMax`, `ClashMax`, `MaxConcurrent`, `Versions`,
`MaxEvents`, `MaxIds`, `MaxRuns`, `MaxMishaps`, `Pushes`, `MaxFaults`, `Lines`, `Queue`, `Attempts`, `Retries`,
and the sets of daemons, runs, calls, branches and paths. Symmetry is used where the
model treats values alike and nothing is about liveness: the paths of `Occ`, the fresh runs of
`RunResume`, the branches of `Policy`, the regions and the unlanders of `Unland`.
Deadlock is checked in `Occ` and `Watch`. `CHECK_DEADLOCK FALSE` is set elsewhere: calls,
runs and lines happen once and then the system stops. For the same reason
`SlotsReturn` asks for `[]<>` idle daemons.

**Fairness.** `Run`: weak fairness of each run's own steps (agents, verify and
fixer run under timeouts, and nothing in the pipeline waits for another run) and
of `Recover` (a daemon is started again some day). There is none for kills,
signals, acks, rejects or pushes. `Agents`: weak fairness of the steps of a run that is
not killed. `Park`: weak fairness of each call's steps,
of a reader looking again, and of time (`Age`). A killed call takes no steps;
neither do acks and rejects that were not called. `Watch`: weak fairness of the
loop's own steps and of a restart; of the run or ack over HTTP that holds the slot giving it
back; strong fairness of the *due* tick, as the interval elapses however many polls for a
full batch fall in between and disable it for a moment. `Serve`: weak fairness of each
run's goroutine, of `driveRun` (`Run` shows that it ends), of each call once made,
and of each daemon's start and, once draining, its end; none for requests, drain
and kills. `EventPush`: weak fairness of the delivery goroutine (a POST ends by
its timeout) and of an emitter in the middle of `Write`; none for the context's
cancellation or the next line. `Blobs`: weak fairness of each call's steps, of a git
that is not silent, of a killed process dying and of a goroutine that was started;
none for cancellation, faults or `Close`. `Policy`, `Unland` and `Ledger` state no liveness.

## 4. What is proved

For every value of the constants (any sets of calls, runs and tasks, any bounds,
any fault switches), checked by TLAPS:

- `ParkProofs!TypeCorrect`, `ParkProofs!OnlyVerifiedLands`,
  `ParkProofs!ParkImplementsLanding`. The inductive invariant adds to the types:
  `Roles` (only acks reach the landing sections), `GoodRecords` (the record on
  disk and every call's copy names a verified child of the base it names),
  `Copies` (a call past its claim holds an unresolved record), `Verdicts` (a
  green verdict stands for a commit that passed on the head the ack read) and
  `FirstGreen`. The types alone are not inductive for the property: that a swap
  lands something green depends on which record the ack read, minutes earlier,
  and who wrote it. No lock or claim is needed for this theorem: it holds when
  every race for them is lost.
- `ParkProofs!LandsOnce`, `RejectionIsFinal`, `OpenParkStays`: the other three do need the
  claim, and the claim does not always hold (section 5). They are proved for every cast,
  with kills, faults, blind acks and forced gcs, as long as the protocol is `Undisturbed`: no
  claim has gone stale and no ack is taking a lost landing back. Either one alone breaks
  them. The invariant `PInv`: while the park is open, whoever is past its claim is the one
  on disk (`OneHolder`); a call about to write holds the open record, and one past a
  resolution holds the record on disk (`Intents`); the base and the phase marker agree
  with the record (`Outcome`); nobody is about to take what an open park needs, and a
  re-verify, which moves the pin, is only ever under way on a moved base (`OpenPark`).
  For the branches of an open park `OpenParkStays` then says more than the run, which has to
  except a forced gc that planned next to an ack that lost its swap: they stay, whatever the
  base (`ParkedBranchesKept`).
- `RunProofs!TypeCorrect` and `RunProofs!RunImplementsLanding`. The invariant
  adds `Owned` (an agent that succeeded left a branch owned by a run, although
  any later run may have reset others), `Reported` (reports name such branches
  only), `Rounds` (the repair counter is below its cap where it may grow),
  `Candidates` (what is verified or landed is the pin or one landing on it),
  `Verified` (what is about to land is green) and `Parked` (an open park ends in
  a landing, which an ack can replay). It is why a repaired or bisected tree,
  which replaces the candidate after it was red, cannot land unverified.
- `RunProofs!ReportsAreTrue`, `NothingLandsTwice`, `ParkStaysReachable`, `NoBranchIsLost`, for any
  number of runs, resumes, acks, kills, signals and faults, from one invariant `JInv`:
  `Trunk` (branches fork from, and runs pin, what the base once was), `Told` (a candidate
  carries the branches its report lists, a report's four lists split what the agents made),
  `Placed` (a run has nothing on the base before its swap, and then what its report
  lists), `LandedWork` (work on the base is a real commit of a branch that forked before it
  landed) and `Open` (while a run may still write, its park, marker and keep-alive ref agree).
  Together they are why no work lands twice: a branch that misses some of the pin does not
  get as far as the swap, so what lands forked from the very head it replaces, and work
  that is on the base already forked before it landed there.
- `AgentsProofs!TypeCorrect`, `OneAgentPerBranch`. `OwnBranch` is inductive over the
  types: whoever resets or deletes a branch must find it checked out by nobody, who
  makes it must find it missing, and a branch an agent works on is neither. The theorem
  does not assume that a killed run's worktree is gone.
- `AgentsProofs!IntegratesWhatWasJudged`, `WorkIsKept`, for every overlap of runs, resumes,
  retries and collections. One invariant (`KInv`) says of each live run's task what its place
  in the driver tells of the branch (`Stage`, `Held`), for as long as nobody deleted the branch by name under
  the run (`pulled`), and of each collection that met no live run that what it planned to
  delete may still be deleted when it comes to it (`Sweep`). A verdict stays true of its branch because
  whoever else would reset the branch must find it missing; what is left of the two
  properties without the exceptions is false (section 5).
- `AgentsProofs!OccTypeCorrect`, `CombineNeverConflicts`, `ParallelIsSerial`, of `Occ`: the
  parallel integrator lands what the serial one lands, for any number of branches, paths and
  semantic edges, any clashes and any resolver. The invariant `OccInv` follows the data
  through the phases. `FinderOK`: some assignment of roots (`Roots`) that the forest agrees
  with puts each branch with the owner of every path of it that went through the index;
  path halving keeps any such assignment and a union merges two classes of one
  (`FindsRoot`, `UnionJoins`). find's loop ends within N turns because each turn climbs to a higher
  rank, which fewer branches exceed (`FewerHigher`). `GroupsOK`: branches that share a path
  are in one group. `FoldsOK(D)` compares each fold with the set `D` the serial integrator
  lands, which is the only set in which a branch is exactly when the resolver settles
  whatever it and the earlier branches of the set clash about (`Chosen`, `SerialChooses`,
  `ChosenOnce`): all the earlier branches of it that touch a path of the next one are of its
  group, so the group decides alike (`GroupDecides`). `CombineOK(D)`: the heads of a level hold
  all edits of `D`, each path's in one of them, and half as many heads still do
  (`HalfTheHeads`). Both recursions, find's and the serial fold's, are functions that are shown
  to exist and to be what they say by induction over a set of numbers (`UpTo`).
- `UnlandProofs!TypeCorrect`, `UnlandImplementsLanding`, `OutcomesHold`. The
  invariant ties an unland to *its* run directory: `GoodEntries` (a green report and a
  park name verified commits of their own run, on a head that existed) and `GoodCalls`
  (an unland at work has a directory nobody else has, still running and empty, and
  lands a verified child of the head it planned on). `OutcomesHold` adds to it what a directory says: a
  landing on the base is recorded by the directory it is named after, or by the unland
  that is about to write it. Distinct ids are what makes it inductive: two unlands that
  shared a directory would overwrite each other's outcome.
- `UnlandProofs!UndoesExactly`, `TakesBackOnce`, both for `Resolver = FALSE`: a resolver's settlement
  is whatever it wrote. For the first, `Undoing` says that commits ever made are never made
  again (`OldCommits`), so a tree once recorded stands, and that what an unland is about to
  land, or has parked, is its target's inverse merged clean (`UndoEntry`, `UndoCall`,
  `OldFolds`). The second is about the whole past of the base, and `History` says what it
  takes: each content on the base was written by a landing on it (`Written`), each landing
  changed its predecessor's tree as a run or as an unland does (`Changes`), no landing is
  there twice, and a region that holds a target's content after the target was taken back got
  it from another directory's unland (`Again`).
- `PolicyProofs!NoLandingWithoutAck`, `LandsFullyVerified`, `ImpactSuffices`. All three
  follow from one invariant: `PinOK` (a pin with the base's number *is* the base, so a swap that succeeds was
  computed under the policy in force), `Judged` (memory was resolved under the policy
  of its pin), `Clear` (a candidate differs from its pin on counted paths only, none of
  which needs an ack), `Passed`, `Scope`, `Battery` (a park was judged by the whole battery of its pin) and
  `CacheOK` (a cached verdict is about the tree, command and packages of its key).
  `Clear` is why the fixer must be refused ack-paths and its paths counted.
- `ServeProofs!TypeCorrect`, `OnePerCell`, `RunsAreCounted`, `LiveRunsSpared`. The
  slots are inductive only together with `Accepted` and `Called` (a run's daemon
  and cell, a call's target stand still while it holds the slot, so what it frees
  is what it took). The last theorem needs `Owned`: a queued or running marker
  names the daemon that executes the run, which is up, and a sweep that found it
  gone has seen the last of the run, however long it then takes to write. It is
  where the assumption that a pid names one process for ever is used.
- `ServeProofs!WatchTypeCorrect`, `FiresPassAcceptance`, `WatchLandsOnTop`, for any policy,
  intents, branches, pushes, kills and runs of others. Acceptance is judged once, in the
  fire's own run, so the theorem is that no other run ever takes a fire's branch. `World`
  says what outlives a crash: a branch of a fire is named in `fired` as long as it exists, or its
  record was lost or not written (`unnamed`), a
  name that is free stands for work that was neither landed nor parked, and what is parked
  was accepted. `Flight` says what the loop holds between its stages: a cycle nothing of a
  fire, a fire its one branch (`CycleTakesNoFire`, `FireTakesOne`, `FireIsFresh`). The seen-set
  is in neither: that it may be lost or written late costs nothing here. `AdoptedOnTop`
  (what a run adopted contains the base, unless the base has moved) is what `LandsOnTop` needs,
  as a moved base refuses the swap.
- `LedgerProofs!AnswersAreTrue`, `OneRowEach`, `NoLandingLeftOut`, `CardsTell`, `LedgerTypeCorrect`,
  for any number of runs, branches, pushes and mishaps. `LedgerInv` has two halves. `Traces`
  is about the writers: a report says "landed" of nothing but its run's own landing, which
  is on the base unless the swap was refused, and the base has the landing only if the
  report says so (`Reports`); statuses and parking records follow the work (`Marks`); a note
  repeats what the report of a run that ended says, whoever copied it (`NoteSays`). `Reader`
  is about what was concluded so far: the answer of `-sha` and the unlands it met
  (`Sayings`), the rows (`RowsTrue`, `RowsOnce`), who is left to account for the rest
  (`OpenExplained`), the cards and the parks still to come (`CardsTrue`, `ParksSeen`). The
  argument is that `Traces` only ever grows (`Onward`: the base gets longer, a run that ended
  keeps its report, a run marked done stays done), so that what the reader took from one file
  stays true while it reads the next (`ReaderStands`). What two readings of a directory may
  miss between them, and what two notes with different keys may double, are the two cases the
  properties except (section 5).
- `LedgerProofs!PushTypeCorrect` and `EveryLineCounted`, of `EventPush`. The balance
  is not inductive by itself: taking a line keeps it only if the hand was empty,
  and the last look at the queue only if it is the first. `Placed` says so: a line
  is in hand exactly while one is delivered, and nothing was given up before.
  `ReceivedInOrder` needs the history of the receiver: `Stream` orders what it got before the
  line in hand, and that before the queue; `Written` bounds them all by what was emitted.
- `BlobsProofs!TypeCorrect`, `BatchesMatch`. An answer on the stream carries no name, so
  that a batch is right follows only from who may use the stream and what is on it:
  `Locked` (in a cell blobMu is held by the call that is served), `Places` (a call at work has
  a reader), `Streams` (the stream of a usable reader with an open gate is empty, and the
  call in the gate has at most its own command on it) and `Progress` (what a call has got
  is what its specs name, as far as it has read).
- `BlobsProofs!DaemonFailsOpen` adds, for a cell, `Budget` (a call that may have all it asks
  for has what is left after the sizes it has heard), `Intact` (a reader of a call's own is
  closed by nobody, and poisoned, killed or silent only if the call's context ended or the
  process failed) and `Started` (whatever a context's end is about to poison exists, so
  a new reader is not it). What may be asked is a running total over the specs of a batch; that it is one
  is an induction over the set of the places where it is (`AllNumbers`, `TotalsExist`,
  `BulkAdds`).

The assumptions are the modules' own (`ParkAssumption`, `RunAssumption`,
`AgentsAssumption`, `UnlandAssumption`, `PolicyAssumption`, `ServeAssumption`,
`PushAssumption`, `BlobsAssumption`, `WatchAssumption`, `LedgerAssumption`,
`OccAssumption`: roles are disjoint, bounds are numbers, a run's tasks are
finite, the root, the foreign landing and "nobody" are distinct from the rest); TLC
evaluates them in every run. `~Resolver` and `[]Undisturbed` are hypotheses of
the theorems that name them; the first is so in the runs. `Park`, `Run`
and `Unland` are the doors through which the base moves, and each is proved to refine
the same `Landing`: each step of theirs is a step of it or leaves the base alone and
only adds to `green`.

**Only model-checked:** liveness (`ExpiredParkResolves`, `RunsSettle`, `AgentsEnd`,
`ArrivalsDecided`, `IntentsServed`, `CallsEnd`, `StaleRunsHealed`, `SlotsReturn`,
`WritesReturn`), which is out of the prover's reach. Every invariant and every action
property of the runs is stated by a theorem; some are not true of every instance, so that
the theorem has a condition: `RejectedNeverLands`,
`LandsAtMostOnce` and `OpenParkIsKept` hold of the casts of the run, in which claims do go stale
and landings are taken back, but not of larger ones; `UndoesItsTarget` and `TakenBackOnce` fail
with `Resolver = TRUE`.

## 5. What disagrees with the code's own words

The runs state what the code keeps; where it breaks a sentence of its comments or documents,
the property of the run names the exception, and the sentence without it is a formula that TLC
refutes in the instance given at the end of this section.

**A forced gc may take a parked branch** (`ParkedBranchesKept`; `park.go:1731`: "UNCONDITIONAL ... no age
cutoff and no -force may sweep it"). An ack resolves the record before its swap; a gc that plans
in that moment sees no park. The swap is refused, the ack takes the record back, and the plan
deletes the branches of a park that is open.

**A resume's deletion is by name** (`ClearingLosesNothing`; `run.go:3243`: "nothing is lost"). Between
`resumeAgent`'s look, which found the branch at the base, and its `branch -D` at `run.go:3266`
another run's agent commits, and lets go of the worktree.

**Protection reads reports, and phases that do not say enough** (`gc.go:352`, `gc.go:366`). A live
run has no report yet, so a collection protects nothing for it (`PhaseProtects`; `docs/USAGE.md:2671`
of a running run: "Protected. The run is live."): a `-resume` of a run that ended red reuses
branches that may be old. And that red run is marked `done`, read here as "it landed"
(`DoneMeansLanded`; `gc.go:321`). A plan is also stale when applied.

**The base refuses, the report says landed** (`log.go:629`: "an actual landing needs both a
moved ref and a green-or-unset verify"). A run whose compare-and-swap was refused returns
its report with a final commit and a green verify, `execRun` files it, and `landed(rep)`
reads it as a landing. So `retireIntentBranch` deletes the branch of a fire that did not
land (`WorkNotDestroyed`; `watch.go:604`: "work is never destroyed here"), and `watchSettle` marks a
cycle's branches done (`DoneIsDecided`; `watch.go:133`: "it landed, it parked awaiting a human, or
it was already in the base"). The release document inherits it: "a run claims a commit only if
it actually LANDED it" (`release.go:20`), but when another landing brings the branch of a run
that was refused, that run gets a landing row, with a commit that is not on the base.

**One landing, two rows** (`OneRowPerLanding`; `release.go:448`: "One landing, one row";
`docs/USAGE.md:2911`). A landing known from its notes is remembered by run id or by landed sha,
whichever the first note has (`release.go:473`), so a second note with the other one makes
another row.

**Seen in neither** (`NoneSeenInNeither`; `release.go:360`, `release.go:367`). A run without `-notes` that
files its report between `readRunReport` and `readLogRow` has no row because of the first and is
not incomplete because of the second: its landing is unattributed, and nothing says why.

**`unlandedBy` is not exact** (`log.go:469`): `docs/USAGE.md:2247` says it is; an unland
that parked and was acked took its target back, and its report has no landing.

**Unattributed is not unclaimed** (`release.go:445`): `docs/USAGE.md:2923` and the
document's footer say that ledger and note of such a commit are gone; a landing released by
an ack has both and is counted there, which the code's comment admits.

The formulas and the instances that refute them (change the constants of the module's run as
given, and check the formula named):

| where | instance | what happens |
|---|---|---|
| `park.go:1756` | `Park`, `Casts <- AckAndCollector`, nobody killed, failing or blind, `ParkedBranchesKept` | a forced gc plans while the ack has the record resolved, and deletes the branches of the park the ack reopens |
| `run.go:3266` | `Agents`, no gc, no retry, nothing killed or kept, `ClearingLosesNothing` | a resume deletes by name a branch that another run's agent committed on after it looked |
| `gc.go:352` | `Agents`, a run and its resume, no retry, nothing killed or kept, `PhaseProtects` | a gc plans to delete the branch a running resume took over |
| `gc.go:366` | `Agents`, two fresh runs, no retry, nothing killed or kept, `DoneMeansLanded` | a gc plans to delete the branch of a run that ended red, as it is marked done |
| `watch.go:656` | `Watch`, `Pushed = {1}`, none outside, `Intents <- OneIntent`, one version and event, `DoneIsDecided` | a branch whose landing the base refused is marked done |
| `watch.go:613` | the same, `WorkNotDestroyed` | the branch of a fire whose landing the base refused is deleted, the only ref to its work |
| `release.go:473` | `Ledger`, `MaxRuns = 1`, no push, `MaxMishaps = 2`, releases only, `OneRowPerLanding` | a note with and one without a run id tell of one landing, and it has two rows |
| `release.go:367` | the same with `MaxMishaps = 0`, `NoneSeenInNeither` | a report filed between the two reads: no row, not incomplete, not running |
| `log.go:629` | `RunSettles`, `LandedReadsTrue` | a refused swap's report reads as a landing |
| `release.go:515` | `Ledger`, `MaxMishaps = 0`, `LandingsLanded` | the refused run's row, as above |
| `log.go:469` | `Ledger`, `MaxMishaps = 0`, `UnlandedByExact` | `-sha` walks past an unland that an ack released |
| `release.go:445` | `Ledger`, `MaxRuns = 1`, `UnattributedIsUnclaimed` | an acked landing is counted as unattributed |
| `park.go:687` | `Park`, a cast `{a1, a2, r1}`, `RejectedNeverLands` | the claim of a live ack whose record is already resolved is taken for a leftover and removed, after which a reject succeeds while an ack lands |
| `park.go:687` | `Park`, a cast of four acks, nobody killed or failing, `LandsAtMostOnce` | a first ack's swap is refused; while it takes its record back and releases, a second one that saw the resolved record removes as a leftover what is by now the claim of a third; a fourth claims too, both compare and both write; one lands, the other is refused and reopens the park, which the second then lands again |
| `park.go:698` | `Park`, a cast `{a1, a2, r1}`, `Crashable = {a2}`, `MaxForeign = 0`, `RejectedNeverLands` | two calls judge a killed ack's claim stale, and the second removes the first one's new claim; both compare, then both write: one lands while the record says rejected. The comment at `park.go:636` knows both holders and both writes, and expects "one WHOLE record"; it is, but the one overwritten is the one that lands |
| `run.go:3259` | `RunResume` with `MaxForeign = 1`, `ParkUndoesNothing` | `-resume` reuses a branch that does not contain the base, and the parking path merges it with the wrong base, so the park reverts what landed since |
| `serve.go:778` | `Serve` with two calls, `ReadsKnowRejected` | a read refreshes the record in memory only if it did the rejecting itself, and repeats `awaiting-ack` otherwise |
| `unland.go:260` | `Unland`, `Limit = 0`, `NamesLaterRuns` | "every run older than it is by construction not later" (`unland.go:248`): a run that started before the target, parked, and was acked after it landed later on the same paths, and the scan stops before it. Refused landings are counted, as `landed` takes them for landings |

Seen while modelling: the lock that is said to keep two re-verifies apart is released
before the ref moves (`park.go:1187`); a resolver killed between its record and its status leaves a run
that nothing resolves any more, which the code accepts (`park.go:1148`); a recovery
sweep, or the marker `finishRunDir` writes last, may overwrite that of a resolution
which came between (`serve.go:2121`, `serve.go:1883`). In `Watch`: an outside branch's
seen entry is pruned when its queue entry goes with the process; one commit may be
parked twice (pushed between collection and adoption, or a kill between park and
settle); a stray branch of another kind of run may be adopted. In `Unland`: the acked second landing of a mixed run is not taken back, and
`notLandedReason` says so; acking a second unland of one run lands an empty commit. In `Ledger`: a run that was killed
after its swap reads as `running` until something sweeps it, and is not counted as
incomplete until then; a note-sourced row claims only the commit that carries the note,
so the tips of its members stay unattributed. In
`Agents`: a worktree kept by `-keep-failed`, or left by a kill, makes git refuse the
deletion, which is ignored, and the fresh add then fails. In `Policy`: the cache's
key leaves out `SIGBOUND_CHANGED_FILES`, which the battery also gets; parks use the
run's cache, re-verifies none. In `Blobs`: a cancellation armed for one call may poison
the daemon under the next, which falls back; a batch after `Close` starts a new daemon;
`blobMu` is waited for without looking at the context, so one silent git under a context
that is never cancelled blocks every caller (`Wedged` in `CallsEnd`).

## 6. Plan

What is worth adding next:

1. `EventPush` against an abstract lossy FIFO, with the refinement.
2. `Serve` composed with `Watch` and `Unland`, which share its slots.
3. `Bisect`: the search for green groups inside `verifyBisect`, on the groups `Occ` makes.

## 7. Not modelled

The content of commands (agents, verify, fixer, resolver, planner), git's object
store and merge beyond what the models say of them, HTTP, flags, environment,
formatting, parsing and rendering. Whole files of that kind: policy authoring
(`policyinit.go`, `workflowscan.go`), presets, the planner, `worker` and bundles,
attestation, doctor, config, env, version, the benchmarks, and what the usage
report, the inbox, the board's metrics and a release's other sections make of the
records they read. They hold no
protocol of their own; where their result matters it is a free choice in the models.
