------------------------------- MODULE Serve -------------------------------
(***************************************************************************)
(* The daemon of cmd/sig/serve.go, as several `sig serve' processes over   *)
(* one set of repositories: admission (acquireRun), the run goroutine      *)
(* (execRun), acks and rejects over HTTP or from a shell, the lazy timeout *)
(* of GET /runs/{id}, draining, kills, and the recovery sweep every start  *)
(* does over the run directories the others share.                         *)
(*                                                                         *)
(* What driveRun does is module Run's; how a park is resolved is module    *)
(* Park's: here a run ends as landed, parked or failed, and a resolution   *)
(* is two writes, the record and the status.  A process's memory (busy,    *)
(* activeRuns, runs) is under one mutex and dies with it; the directories  *)
(* are read and written file by file.                                      *)
(***************************************************************************)
EXTENDS Integers, FiniteSets

CONSTANTS Daemons,      \* processes, each started at most once
          Runs,         \* POST /runs requests
          Calls,        \* whatever resolves or reads a park
          Cells,
          MaxConcurrent,\* -max-concurrent-runs, 0 for no limit
          Killable,     \* daemons that may be killed
          Nobody

ASSUME ServeAssumption ==
    /\ Nobody \notin Daemons \union Runs \union Cells
    /\ IsFiniteSet(Runs)
    /\ MaxConcurrent \in Nat

VARIABLES up,      \* off, recovering, serving, draining, stopped, dead
          busy,    \* s.busy: the cells whose slot is taken
          active,  \* s.activeRuns
          mem,     \* s.runs[id].status
          todo,    \* directories the recovery sweep has yet to look at
          sight,   \* what it knows of the one it looks at
          status,  \* status.json: the phase, and the process that wrote it
          park,    \* park.json
          host,    \* the daemon that accepted the run
          cell,    \* ... for which cell
          pc,      \* where execRun is
          outcome, \* what driveRun returned
          call,    \* where each call is
          kind,    \* POST .../ack or .../reject; GET /runs/{id}; or one that holds no slot
                   \* and is not remembered (a shell's, GET /inbox, expireParks)
          via,     \* the daemon that serves it
          target,  \* the run it is for
          verdict  \* what it decided, or will answer

memory == <<busy, active, mem>>
sweep  == <<todo, sight>>
disk   == <<status, park>>
runs   == <<host, cell, pc, outcome>>
calls  == <<call, kind, via, target, verdict>>
serveVars == <<up, memory, sweep, disk, runs, calls>>

Phases == {"none", "queued", "running", "done", "awaiting-ack", "rejected", "error", "interrupted"}
Unseen == [run |-> Nobody, owner |-> Nobody, judged |-> FALSE, parked |-> FALSE]

Init ==
    /\ up = [p \in Daemons |-> "off"]
    /\ busy = [p \in Daemons |-> {}]
    /\ active = [p \in Daemons |-> 0]
    /\ mem = [p \in Daemons |-> [r \in Runs |-> "none"]]
    /\ todo = [p \in Daemons |-> {}]
    /\ sight = [p \in Daemons |-> Unseen]
    /\ status = [r \in Runs |-> [phase |-> "none", owner |-> Nobody]]
    /\ park = [r \in Runs |-> "none"]
    /\ host = [r \in Runs |-> Nobody]
    /\ cell = [r \in Runs |-> Nobody]
    /\ pc = [r \in Runs |-> "none"]
    /\ outcome = [r \in Runs |-> "none"]
    /\ call = [k \in Calls |-> "idle"]
    /\ kind = [k \in Calls |-> "none"]
    /\ via = [k \in Calls |-> Nobody]
    /\ target = [k \in Calls |-> Nobody]
    /\ verdict = [k \in Calls |-> "none"]

Alive(p)     == p \in Daemons /\ up[p] \in {"recovering", "serving", "draining"}
Executing(r) == pc[r] \notin {"none", "end"}

Record(r, phase, p)   == status' = [status EXCEPT ![r] = [phase |-> phase, owner |-> p]]
Remember(p, r, phase) == mem' = [mem EXCEPT ![p][r] = phase]
Take(p, c)            == busy' = [busy EXCEPT ![p] = @ \union {c}]
Free(p, c)            == busy' = [busy EXCEPT ![p] = @ \ {c}]

\* diskRunStatus
diskRunStatus(r) ==
    IF park[r] = "open" /\ status[r].phase \notin {"awaiting-ack", "rejected", "done"}
    THEN "awaiting-ack" ELSE status[r].phase

-----------------------------------------------------------------------------
(* newServer: recoverStaleRuns, directory by directory.                     *)

Start(p) ==
    /\ up[p] = "off" /\ up' = [up EXCEPT ![p] = "recovering"]
    /\ todo' = [todo EXCEPT ![p] = {r \in Runs : status[r].phase # "none"}]
    /\ UNCHANGED <<memory, sight, disk, runs, calls>>

\* (mutant: a run that was accepted and not yet started is nobody's)
LookRunning(p, r) ==
    /\ up[p] = "recovering" /\ sight[p] = Unseen /\ r \in todo[p]
    /\ \/ /\ status[r].phase = "running"
          /\ sight' = [sight EXCEPT ![p] = [run |-> r, owner |-> status[r].owner,
                                            judged |-> FALSE, parked |-> FALSE]]
          /\ UNCHANGED todo
       \/ /\ status[r].phase # "running"
          /\ todo' = [todo EXCEPT ![p] = @ \ {r}] /\ UNCHANGED sight
    /\ UNCHANGED <<up, memory, disk, runs, calls>>

\* readRunStatus
Look(p, r) ==
    /\ up[p] = "recovering" /\ sight[p] = Unseen /\ r \in todo[p]
    /\ \/ /\ status[r].phase \in {"queued", "running"}
          /\ sight' = [sight EXCEPT ![p] = [run |-> r, owner |-> status[r].owner,
                                            judged |-> FALSE, parked |-> FALSE]]
          /\ UNCHANGED todo
       \/ /\ status[r].phase \notin {"queued", "running"}
          /\ todo' = [todo EXCEPT ![p] = @ \ {r}] /\ UNCHANGED sight
    /\ UNCHANGED <<up, memory, disk, runs, calls>>

\* (mutant: an owner is never recognised)
ownedByNobody(o) == o = Nobody

\* A pid of this host and boot names its process (not so on Windows).
ownedByLiveProcess(o) == Alive(o)

\* ... and, of a dead owner's run, the parking record.
Judge(p) ==
    LET r == sight[p].run
    IN  /\ up[p] = "recovering" /\ r \in Runs /\ ~sight[p].judged
        /\ \/ /\ ownedByLiveProcess(sight[p].owner)
              /\ todo' = [todo EXCEPT ![p] = @ \ {r}]
              /\ sight' = [sight EXCEPT ![p] = Unseen]
           \/ /\ ~ownedByLiveProcess(sight[p].owner)
              /\ sight' = [sight EXCEPT ![p].judged = TRUE, ![p].parked = (park[r] = "open")]
              /\ UNCHANGED todo
        /\ UNCHANGED <<up, memory, disk, runs, calls>>

\* writeRunStatus, over whatever the directory says by now.
Heal(p) ==
    /\ up[p] = "recovering" /\ sight[p].judged
    /\ Record(sight[p].run, IF sight[p].parked THEN "awaiting-ack" ELSE "interrupted", p)
    /\ todo' = [todo EXCEPT ![p] = @ \ {sight[p].run}]
    /\ sight' = [sight EXCEPT ![p] = Unseen]
    /\ UNCHANGED <<up, memory, park, runs, calls>>

Listen(p) ==
    /\ up[p] = "recovering" /\ todo[p] = {} /\ up' = [up EXCEPT ![p] = "serving"]
    /\ UNCHANGED <<memory, sweep, disk, runs, calls>>

-----------------------------------------------------------------------------
(* acquireRun, under the mutex.  A refusal (409, 429) changes nothing.      *)

Quota(p) == MaxConcurrent > 0 => active[p] < MaxConcurrent

acquireRun(p, r, c) ==
    /\ up[p] \in {"serving", "draining"} /\ pc[r] = "none"
    /\ c \notin busy[p] /\ Quota(p)
    /\ Record(r, "queued", p) /\ Take(p, c)
    /\ active' = [active EXCEPT ![p] = @ + 1]
    /\ Remember(p, r, "queued")
    /\ host' = [host EXCEPT ![r] = p] /\ cell' = [cell EXCEPT ![r] = c]
    /\ pc' = [pc EXCEPT ![r] = "queued"]
    /\ UNCHANGED <<up, sweep, park, outcome, calls>>

-----------------------------------------------------------------------------
(* execRun, in host[r]'s own goroutine.                                     *)

At(r, l)    == pc[r] = l
Goto(r, l)  == pc' = [pc EXCEPT ![r] = l]

\* The record in memory, then the one on disk.
Begin(r) ==
    /\ At(r, "queued") /\ Goto(r, "driving")
    /\ Remember(host[r], r, "running") /\ Record(r, "running", host[r])
    /\ UNCHANGED <<up, busy, active, sweep, park, host, cell, outcome, calls>>

\* driveRun: landed (or nothing to land), parked, or failed.
Drive(r) ==
    /\ At(r, "driving")
    /\ \E o \in {"done", "awaiting-ack", "error"} :
          /\ outcome' = [outcome EXCEPT ![r] = o]
          /\ Goto(r, IF o = "awaiting-ack" THEN "park" ELSE "mark")
    /\ UNCHANGED <<up, memory, sweep, disk, host, cell, calls>>

\* finishRunDir: the parking record, without which the run has failed, ...
Park(r) ==
    /\ At(r, "park") /\ Goto(r, "mark")
    /\ \/ park' = [park EXCEPT ![r] = "open"] /\ UNCHANGED outcome
       \/ outcome' = [outcome EXCEPT ![r] = "error"] /\ UNCHANGED park
    /\ UNCHANGED <<up, memory, sweep, status, host, cell, calls>>

\* ... then the marker; failRun writes its own.
Mark(r) ==
    /\ At(r, "mark") /\ Goto(r, "finish")
    /\ Record(r, outcome[r], host[r])
    /\ UNCHANGED <<up, memory, sweep, park, host, cell, outcome, calls>>

Finished(r) == /\ At(r, "finish") /\ Goto(r, "end")
               /\ Remember(host[r], r, outcome[r])
               /\ outcome' = [outcome EXCEPT ![r] = "none"]

\* (mutant: a run that fails keeps its slot)
FinishKeeping(r) ==
    /\ Finished(r)
    /\ IF outcome[r] = "error" THEN UNCHANGED <<busy, active>>
       ELSE Free(host[r], cell[r]) /\ active' = [active EXCEPT ![host[r]] = @ - 1]
    /\ UNCHANGED <<up, sweep, disk, host, cell, calls>>

\* The record in memory, then the deferred release, which every path reaches.
Finish(r) ==
    /\ Finished(r)
    /\ Free(host[r], cell[r]) /\ active' = [active EXCEPT ![host[r]] = @ - 1]
    /\ UNCHANGED <<up, sweep, disk, host, cell, calls>>

-----------------------------------------------------------------------------
(* handleAckReject, handleGetRun, and who else resolves a park.             *)

CallAt(k, l)   == call[k] = l
CallGoto(k, l) == call' = [call EXCEPT ![k] = l]
Becomes(k, d)  == kind' = [kind EXCEPT ![k] = d]
Exists(r)      == status[r].phase # "none"
For(k, r)      == target' = [target EXCEPT ![k] = r]
Via(k, p)      == via' = [via EXCEPT ![k] = p]
Says(k, v)     == verdict' = [verdict EXCEPT ![k] = v]

\* (mutant: the slot is taken without a look)
AckUnasked(k) ==
    /\ CallAt(k, "idle") /\ Becomes(k, "ack")
    /\ \E p \in Daemons, r \in Runs : /\ up[p] \in {"serving", "draining"} /\ Exists(r)
                                     /\ Take(p, cell[r]) /\ For(k, r) /\ Via(k, p)
    /\ CallGoto(k, "resolve")
    /\ UNCHANGED <<up, active, mem, sweep, disk, runs, verdict>>

\* An ack or reject holds the cell's slot like a run, and does not count as one.
Ack(k) ==
    /\ CallAt(k, "idle") /\ Becomes(k, "ack")
    /\ \E p \in Daemons, r \in Runs : /\ up[p] \in {"serving", "draining"} /\ Exists(r)
                                     /\ cell[r] \notin busy[p]
                                     /\ Take(p, cell[r]) /\ For(k, r) /\ Via(k, p)
    /\ CallGoto(k, "resolve")
    /\ UNCHANGED <<up, active, mem, sweep, disk, runs, verdict>>

\* A read answers from memory what this process started, from disk the rest.
Read(k) ==
    /\ CallAt(k, "idle") /\ Becomes(k, "read")
    /\ \E p \in Daemons, r \in Runs :
          /\ up[p] \in {"serving", "draining"} /\ Exists(r)
          /\ For(k, r) /\ Via(k, p)
          /\ Says(k, IF mem[p][r] = "none" THEN diskRunStatus(r) ELSE mem[p][r])
    /\ CallGoto(k, "resolve")
    /\ UNCHANGED <<up, memory, sweep, disk, runs>>

Other(k) ==
    /\ CallAt(k, "idle") /\ Becomes(k, "other")
    /\ \E r \in Runs : Exists(r) /\ For(k, r)
    /\ CallGoto(k, "resolve")
    /\ UNCHANGED <<up, memory, sweep, disk, runs, via, verdict>>

\* ackRun, rejectRun or enforceParkTimeout (module Park) resolves the record, ...
Resolve(k) ==
    LET r == target[k]
    IN  /\ CallAt(k, "resolve") /\ diskRunStatus(r) = "awaiting-ack" /\ park[r] = "open"
        /\ park' = [park EXCEPT ![r] = "resolved"]
        /\ \/ Says(k, "rejected")
           \/ kind[k] # "read" /\ Says(k, "done")
        /\ CallGoto(k, "mark")
        /\ UNCHANGED <<up, memory, sweep, status, runs, kind, via, target>>

\* The end of a call: an ack gives its slot back.
Ended(k) ==
    /\ CallGoto(k, "end")
    /\ IF kind[k] = "ack" THEN Free(via[k], cell[target[k]]) ELSE UNCHANGED busy
    /\ Becomes(k, "none") /\ Via(k, Nobody) /\ For(k, Nobody) /\ Says(k, "none")

\* ... or does not: refused, failed, or not due yet.
Decline(k) ==
    /\ CallAt(k, "resolve") /\ Ended(k)
    /\ UNCHANGED <<up, active, mem, sweep, disk, runs>>

MarkResolved(k) ==
    /\ CallAt(k, "mark") /\ CallGoto(k, "answer")
    /\ Record(target[k], verdict[k], via[k])
    /\ UNCHANGED <<up, memory, sweep, park, runs, kind, via, target, verdict>>

\* The view in memory, of a run this process started.
Answer(k) ==
    LET p == via[k]
        r == target[k]
        v == IF kind[k] = "read" THEN diskRunStatus(r) ELSE verdict[k]
    IN  /\ CallAt(k, "answer") /\ Ended(k)
        /\ IF kind[k] # "other" /\ mem[p][r] # "none" THEN Remember(p, r, v)
           ELSE UNCHANGED mem
        /\ UNCHANGED <<up, active, sweep, disk, runs>>

-----------------------------------------------------------------------------
(* Shutdown and kills.                                                      *)

Drain(p) ==
    /\ up[p] = "serving" /\ up' = [up EXCEPT ![p] = "draining"]
    /\ UNCHANGED <<memory, sweep, disk, runs, calls>>

\* What a process takes with it.
Dies(p) ==
    /\ busy' = [busy EXCEPT ![p] = {}] /\ active' = [active EXCEPT ![p] = 0]
    /\ mem' = [mem EXCEPT ![p] = [r \in Runs |-> "none"]]
    /\ todo' = [todo EXCEPT ![p] = {}] /\ sight' = [sight EXCEPT ![p] = Unseen]
    /\ pc' = [r \in Runs |-> IF host[r] = p THEN "end" ELSE pc[r]]
    /\ outcome' = [r \in Runs |-> IF host[r] = p THEN "none" ELSE outcome[r]]
    /\ call' = [k \in Calls |-> IF via[k] = p THEN "end" ELSE call[k]]
    /\ kind' = [k \in Calls |-> IF via[k] = p THEN "none" ELSE kind[k]]
    /\ target' = [k \in Calls |-> IF via[k] = p THEN Nobody ELSE target[k]]
    /\ verdict' = [k \in Calls |-> IF via[k] = p THEN "none" ELSE verdict[k]]
    /\ via' = [k \in Calls |-> IF via[k] = p THEN Nobody ELSE via[k]]
    /\ UNCHANGED <<disk, host, cell>>

\* s.wg.Wait() waits for the runs; Shutdown waits for a handler only so long.
Stop(p) ==
    /\ up[p] = "draining" /\ \A r \in Runs : host[r] = p => pc[r] = "end"
    /\ up' = [up EXCEPT ![p] = "stopped"] /\ Dies(p)

Kill(p) ==
    /\ p \in Killable /\ Alive(p) /\ up' = [up EXCEPT ![p] = "dead"] /\ Dies(p)

-----------------------------------------------------------------------------
Recovery(p) == Start(p) \/ (\E r \in Runs : Look(p, r)) \/ Judge(p) \/ Heal(p) \/ Listen(p)
Exec(r)     == Begin(r) \/ Park(r) \/ Mark(r) \/ Finish(r)
CallStep(k) == Resolve(k) \/ Decline(k) \/ MarkResolved(k) \/ Answer(k)

Next == \/ \E p \in Daemons : \/ Recovery(p) \/ Drain(p) \/ Stop(p) \/ Kill(p)
                              \/ \E r \in Runs, c \in Cells : acquireRun(p, r, c)
        \/ \E r \in Runs : Exec(r) \/ Drive(r)
        \/ \E k \in Calls : Ack(k) \/ Read(k) \/ Other(k) \/ CallStep(k)

Spec == Init /\ [][Next]_serveVars

\* Goroutines are scheduled and driveRun ends (module Run); a daemon is started again
\* some day, and one told to stop does.
Fairness ==
    /\ \A p \in Daemons : WF_serveVars(Recovery(p) \/ Stop(p))
    /\ \A r \in Runs : WF_serveVars(Exec(r) \/ Drive(r))
    /\ \A k \in Calls : WF_serveVars(CallStep(k))

FairSpec == Spec /\ Fairness

-----------------------------------------------------------------------------
(* Properties.                                                              *)

\* Memory, directories and calls keep their types; the run counter is never negative.
TypeOK ==
    /\ up \in [Daemons -> {"off", "recovering", "serving", "draining", "stopped", "dead"}]
    /\ busy \in [Daemons -> SUBSET Cells] /\ active \in [Daemons -> Nat]
    /\ mem \in [Daemons -> [Runs -> Phases]]
    /\ todo \in [Daemons -> SUBSET Runs]
    /\ sight \in [Daemons -> [run : Runs \union {Nobody}, owner : Daemons \union {Nobody},
                              judged : BOOLEAN, parked : BOOLEAN]]
    /\ status \in [Runs -> [phase : Phases, owner : Daemons \union {Nobody}]]
    /\ park \in [Runs -> {"none", "open", "resolved"}]
    /\ host \in [Runs -> Daemons \union {Nobody}] /\ cell \in [Runs -> Cells \union {Nobody}]
    /\ pc \in [Runs -> {"none", "queued", "driving", "park", "mark", "finish", "end"}]
    /\ outcome \in [Runs -> {"none", "done", "awaiting-ack", "error"}]
    /\ call \in [Calls -> {"idle", "resolve", "mark", "answer", "end"}]
    /\ kind \in [Calls -> {"none", "ack", "read", "other"}]
    /\ via \in [Calls -> Daemons \union {Nobody}] /\ target \in [Calls -> Runs \union {Nobody}]
    /\ verdict \in [Calls -> Phases]

\* Who holds the slot of a cell in a daemon.
runsIn(p, c) == {r \in Runs : host[r] = p /\ cell[r] = c /\ pc[r] \notin {"none", "end"}}
acksIn(p, c) == {k \in Calls : kind[k] = "ack" /\ via[k] = p /\ cell[target[k]] = c}

\* A cell has one run, ack or reject in flight at a time in a daemon, and its slot is
\* taken exactly while it has one.
SlotExclusion ==
    \A p \in Daemons, c \in Cells :
        /\ c \in busy[p] <=> runsIn(p, c) \union acksIn(p, c) # {}
        /\ \A x, y \in runsIn(p, c) : x = y
        /\ \A x, y \in acksIn(p, c) : x = y
        /\ runsIn(p, c) = {} \/ acksIn(p, c) = {}

\* A daemon counts the runs it executes, and they are never more than its limit.
QuotaHolds ==
    \A p \in Daemons :
        /\ active[p] = Cardinality({r \in Runs : host[r] = p /\ Executing(r)})
        /\ MaxConcurrent > 0 => active[p] <= MaxConcurrent

\* A recovery sweep never calls a run interrupted that a process is still executing.
LiveRunsLeftAlone ==
    \A r \in Runs : status[r].phase = "interrupted" => ~Executing(r)

Stale(r) == status[r].phase \in {"queued", "running"} /\ ~Alive(status[r].owner)

\* What a dead process left queued or running does not read so for ever: the next
\* daemon to start heals it.
StaleRunsHealed ==
    \A p \in Daemons \ Killable, r \in Runs : up[p] = "off" /\ Stale(r) ~> ~Stale(r)

\* However runs and acks end, every slot is given back: requests being finite here, each
\* daemon is idle again.
SlotsReturn == []<>(\A p \in Daemons : busy[p] = {} /\ active[p] = 0)

\* With nothing else in flight, a read does not say awaiting-ack of a run that is
\* rejected, or of a park past its deadline.
ReadsKnowRejected ==
    [][\A k \in Calls :
          /\ \A j \in Calls : call[j] \in {"idle", "end"}
          /\ call[k] = "idle" /\ verdict'[k] = "awaiting-ack"
          => status[target'[k]].phase # "rejected"]_serveVars
=============================================================================
