----------------------------- MODULE RunProofs -----------------------------
(***************************************************************************)
(* What the run pipeline guarantees for any number of concurrent and       *)
(* resumed runs, any tasks, any repair bound, and any of them signalled,   *)
(* killed or failing at any step: the base moves one landing at a time,    *)
(* and only to a commit verified on exactly the head it replaces.          *)
(***************************************************************************)
EXTENDS Run, SequenceTheorems, FiniteSetTheorems, TLAPS

(* Every branch is some run's, and an agent that succeeded left one. *)
Owned ==
    /\ \A t \in Tasks : branch[t] = NoBranch \/ branch[t].by \in Runs
    /\ \A r \in Runs, t \in Tasks : result[r][t] = "ok" => branch[t].by \in Runs

(* A report only ever names branches whose agent succeeded. *)
Reported == \A r \in Runs : rep[r].landed \union rep[r].held \subseteq okTasks(r)

Rounds == \A r \in Runs : pc[r] = "repair" => fix[r] < RepairMax

OnPin(c, p) == c = p \/ \E l \in Landings : c = Append(p, l)

(* The candidate is the pinned base or one landing on top of it. *)
Candidates == \A r \in Runs :
    pc[r] \in {"verify", "repair", "red", "land"} => OnPin(rep[r].final, pin[r])

(* What is about to land has passed verify. *)
Verified == \A r \in Runs : pc[r] = "land" => rep[r].final \in green

GoodPark(p) == ~p.resolved => \E c \in Commits, l \in Landings : p.verifiedSHA = Append(c, l)

(* Every open park ends in a landing of its own. *)
Parked == \A r \in Runs : GoodPark(park[r]) /\ GoodPark(pk[r])

(* Where the repair counter, the candidate and the verdict stand. *)
Control == Rounds /\ Candidates /\ Verified

IInv == TypeOK /\ Owned /\ Reported /\ Control /\ Parked

-----------------------------------------------------------------------------
(* A commit, a park and a report are the records the model builds them as. *)
LEMMA CommitTypes ==
    /\ NoCommit \in Commits /\ <<Root>> \in Commits
    /\ \A c \in Commits, x \in Steps : Append(c, x) \in Commits
BY DEF NoCommit, Commits, Steps

(* The work of branches whose agents succeeded is owned by runs. *)
LEMMA WorkTyped ==
    ASSUME TypeOK, Owned, NEW r \in Runs, NEW S \in SUBSET okTasks(r)
    PROVE  work(S) \in SUBSET (Tasks \X Runs)
BY DEF TypeOK, Owned, okTasks, work

(* What integration hands to verify is a commit on the base the run pinned. *)
LEMMA CandidateTyped ==
    ASSUME TypeOK, Owned, NEW r \in Runs, NEW S \in SUBSET okTasks(r), NEW n \in 0..RepairMax
    PROVE  /\ candidate(r, S, n) \in Commits
           /\ OnPin(candidate(r, S, n), pin[r])
<1> DEFINE l == [run |-> r, kind |-> "run", work |-> work(S), fix |-> n, reverts |-> FALSE]
<1>1. l \in Landings
  BY WorkTyped DEF Landings
<1>2. pin[r] \in Commits
  BY DEF TypeOK
<1>3. Append(pin[r], l) \in Commits
  BY <1>1, <1>2, CommitTypes DEF Steps
<1> QED
  BY <1>1, <1>2, <1>3 DEF candidate, OnPin

(* The commit parkHeldGroups pins. *)
LEMMA ParkTyped ==
    ASSUME TypeOK, Owned, Reported, NEW r \in Runs, NEW b \in BOOLEAN
    PROVE  LET l == [run |-> r, kind |-> "park", work |-> work(rep[r].held), fix |-> 0,
                     reverts |-> b]
           IN  l \in Landings /\ Append(rep[r].final, l) \in Commits
<1> DEFINE l == [run |-> r, kind |-> "park", work |-> work(rep[r].held), fix |-> 0,
                 reverts |-> b]
<1>1. work(rep[r].held) \in SUBSET (Tasks \X Runs)
  BY WorkTyped DEF Reported
<1>2. l \in Landings
  BY <1>1, RunAssumption DEF Landings
<1>3. rep[r].final \in Commits
  BY DEF TypeOK, Reports
<1> QED
  BY <1>2, <1>3, CommitTypes DEF Steps

(* The updates of a report keep it one. *)
LEMMA ReportTyped ==
    ASSUME NEW R \in Reports, NEW c \in Commits, NEW v \in {"none", "green", "red"},
           NEW L \in SUBSET Tasks, NEW D \in SUBSET Tasks
    PROVE  /\ [R EXCEPT !.verify = v] \in Reports
           /\ [R EXCEPT !.final = c] \in Reports
           /\ [R EXCEPT !.landed = L, !.dropped = D] \in Reports
           /\ [R EXCEPT !.landed = L, !.dropped = D, !.final = c, !.verify = v] \in Reports
BY DEF Reports

(* The last commit of a park is the one its open record offers to an ack. *)
LEMMA LastOfPark ==
    ASSUME TypeOK, Parked, NEW r \in Runs, ~park[r].resolved
    PROVE  parked(r) \in Landings
<1>1. PICK c \in Commits, l \in Landings : park[r].verifiedSHA = Append(c, l)
  BY DEF Parked, GoodPark
<1>2. Append(c, l)[Len(Append(c, l))] = l
  BY <1>1 DEF Commits, Steps
<1> QED
  BY <1>1, <1>2 DEF parked

-----------------------------------------------------------------------------
(* Runs start with nothing on disk, and nothing has its type. *)
LEMMA TypeInit == Init => TypeOK
<1> SUFFICES ASSUME Init PROVE TypeOK
  OBVIOUS
<1>1. NoBranch \in Branches /\ NoReport \in Reports /\ NoPark \in Parks
  BY CommitTypes DEF NoBranch, Branches, NoReport, Reports, NoPark, Parks
<1>2. base \in Commits /\ RepairMax \in Nat
  BY CommitTypes, RunAssumption DEF Init
<1> QED
  BY <1>1, <1>2, CommitTypes DEF Init, TypeOK, Statuses

(* Each step of a run, an ack, a reject or a pusher keeps every file typed. *)
LEMMA TypeStep ==
    ASSUME TypeOK, Owned, Reported, Rounds, Parked, Next
    PROVE  TypeOK'
<1> USE DEF Goto, Set, Abort, Report, shared, disk, memory
<1>1. ASSUME NEW r \in Runs, Begin(r) PROVE TypeOK'
  BY <1>1 DEF TypeOK, Begin, Statuses
<1>2. ASSUME NEW r \in Runs, NEW t \in Tasks, Agent(r, t) PROVE TypeOK'
  <2>1. \A b \in BOOLEAN : [by |-> r, fork |-> pin[r], real |-> b] \in Branches
    BY DEF TypeOK, Branches
  <2>2. branch' \in [Tasks -> Branches] /\ result' \in [Runs -> [Tasks -> {"none", "ok", "failed"}]]
    <3>1. \A v \in {"ok", "failed"} :
            [result[r] EXCEPT ![t] = v] \in [Tasks -> {"none", "ok", "failed"}]
      BY DEF TypeOK
    <3>2. ASSUME NEW v \in {"ok", "failed"}, Verdict(r, t, v)
          PROVE  result' \in [Runs -> [Tasks -> {"none", "ok", "failed"}]]
      BY <3>1, <3>2 DEF TypeOK, Verdict
    <3>3. result' \in [Runs -> [Tasks -> {"none", "ok", "failed"}]]
      BY <1>2, <3>2 DEF Agent, Reuse, Fresh, Collide
    <3>4. branch' \in [Tasks -> Branches]
      BY <1>2, <2>1 DEF TypeOK, Agent, Reuse, Fresh, Collide
    <3> QED
      BY <3>3, <3>4
  <2> QED
    BY <1>2, <2>2 DEF TypeOK, Agent
<1>3. ASSUME NEW r \in Runs, Integrate(r) PROVE TypeOK'
  <2>1. rep' \in [Runs -> Reports]
    <3>1. CASE UNCHANGED rep
      BY <3>1 DEF TypeOK
    <3>2. ASSUME NEW F \in SUBSET clearOf(r),
                 Report(r, [NoReport EXCEPT !.landed = clearOf(r) \ F, !.flagged = F,
                                            !.held = heldOf(r),
                                            !.final = candidate(r, clearOf(r) \ F, 0)])
          PROVE  rep' \in [Runs -> Reports]
      <4>1. clearOf(r) \ F \in SUBSET okTasks(r) /\ 0 \in 0..RepairMax
        BY RunAssumption DEF clearOf
      <4>2. candidate(r, clearOf(r) \ F, 0) \in Commits
        BY <4>1, CandidateTyped
      <4>3. F \in SUBSET Tasks /\ clearOf(r) \ F \in SUBSET Tasks /\ heldOf(r) \in SUBSET Tasks
        BY DEF clearOf, heldOf, okTasks
      <4> QED
        BY <3>2, <4>2, <4>3 DEF TypeOK, Reports, NoReport
    <3> QED
      BY <1>3, <3>1, <3>2 DEF Integrate, Conflicts
  <2> QED
    BY <1>3, <2>1 DEF TypeOK, Integrate
<1>4. ASSUME NEW r \in Runs, Verify(r) PROVE TypeOK'
  <2>1. rep[r] \in Reports /\ rep[r].final \in Commits
    BY DEF TypeOK, Reports
  <2>2. /\ [rep[r] EXCEPT !.verify = "green"] \in Reports
        /\ [rep[r] EXCEPT !.verify = "red"] \in Reports
    BY <2>1, ReportTyped
  <2>3. \E e \in Reports : rep' = [rep EXCEPT ![r] = e]
    BY <1>4, <2>2 DEF Verify, Report
  <2>4. rep' \in [Runs -> Reports]
    BY <2>3 DEF TypeOK
  <2> QED
    BY <1>4, <2>1, <2>4 DEF TypeOK, Verify
<1>5. ASSUME NEW r \in Runs, Repair(r) PROVE TypeOK'
  <2>1. CASE UNCHANGED <<fix, rep>>
    BY <1>5, <2>1 DEF TypeOK, Repair
  <2>2. CASE /\ fix' = [fix EXCEPT ![r] = @ + 1]
             /\ Report(r, [rep[r] EXCEPT !.final = candidate(r, rep[r].landed, fix[r] + 1)])
    <3>1. fix[r] + 1 \in 0..RepairMax
      BY <1>5, RunAssumption DEF TypeOK, Rounds, Repair
    <3>2. candidate(r, rep[r].landed, fix[r] + 1) \in Commits
      BY <3>1, CandidateTyped DEF Reported
    <3>3. rep' \in [Runs -> Reports]
      BY <2>2, <3>2, ReportTyped DEF TypeOK
    <3> QED
      BY <1>5, <2>2, <3>1, <3>3 DEF TypeOK, Repair
  <2> QED
    BY <1>5, <2>1, <2>2 DEF Repair
<1>6. ASSUME NEW r \in Runs, GiveUp(r) PROVE TypeOK'
  <2>1. rep[r] \in Reports /\ rep[r].landed \in SUBSET Tasks
    BY DEF TypeOK, Reports
  <2>2. [rep[r] EXCEPT !.landed = {}, !.dropped = rep[r].landed] \in Reports
    BY <2>1 DEF Reports
  <2>3. rep' \in [Runs -> Reports]
    BY <1>6, <2>2 DEF TypeOK, GiveUp
  <2> QED
    BY <1>6, <2>3 DEF TypeOK, GiveUp
<1>7. ASSUME NEW r \in Runs, Bisect(r) PROVE TypeOK'
  <2>1. PICK good \in SUBSET rep[r].landed :
          /\ green' = green \union {candidate(r, good, 0)}
          /\ Report(r, [rep[r] EXCEPT !.landed = good, !.dropped = rep[r].landed \ good,
                                      !.final = candidate(r, good, 0), !.verify = "green"])
    BY <1>7 DEF Bisect
  <2>2. candidate(r, good, 0) \in Commits
    BY CandidateTyped, RunAssumption DEF Reported
  <2>3. rep' \in [Runs -> Reports]
    <3>1. rep[r] \in Reports /\ rep[r].landed \in SUBSET Tasks
      BY DEF TypeOK, Reports
    <3>2. [rep[r] EXCEPT !.landed = good, !.dropped = rep[r].landed \ good,
                         !.final = candidate(r, good, 0), !.verify = "green"] \in Reports
      BY <2>2, <3>1 DEF Reports
    <3> QED
      BY <2>1, <3>2 DEF TypeOK
  <2> QED
    BY <1>7, <2>1, <2>2, <2>3 DEF TypeOK, Bisect
<1>8. ASSUME NEW r \in Runs, Land(r) PROVE TypeOK'
  <2>1. rep[r].final \in Commits
    BY DEF TypeOK, Reports
  <2> QED
    BY <1>8, <2>1 DEF TypeOK, Land
<1>9. ASSUME NEW r \in Runs, ParkHeld(r) PROVE TypeOK'
  <2>1. CASE UNCHANGED <<green, keep, pk>>
    BY <1>9, <2>1 DEF TypeOK, ParkHeld
  <2>2. ASSUME NEW c \in Commits, green' = green \union {c}, keep' = Set(keep, r, c),
               pk' = Set(pk, r, [verifiedSHA |-> c, baseSHA |-> rep[r].final, resolved |-> FALSE])
        PROVE  TypeOK'
    BY <1>9, <2>2 DEF TypeOK, ParkHeld, Reports, Parks
  <2>3. (\E t \in rep[r].held : Stale(t, r)) \in BOOLEAN
    OBVIOUS
  <2> QED
    BY <1>9, <2>1, <2>2, <2>3, ParkTyped DEF ParkHeld
<1>10. ASSUME NEW r \in Runs, Note(r) \/ Publish(r) PROVE TypeOK'
  <2>1. rep[r].final \in Commits
    BY DEF TypeOK, Reports
  <2>2. noted' \in SUBSET Commits /\ published' \in SUBSET Commits
    BY <1>10, <2>1 DEF TypeOK, Note, Publish
  <2> QED
    BY <1>10, <2>2 DEF TypeOK, Note, Publish
<1>11. ASSUME NEW r \in Runs, File(r) \/ recordRunUsage(r) PROVE TypeOK'
  BY <1>11 DEF TypeOK, File, recordRunUsage, landed
<1>12. ASSUME NEW r \in Runs, Finish(r) PROVE TypeOK'
  <2>1. pk[r] \in Parks /\ "error" \in Statuses
    BY DEF TypeOK, Statuses
  <2>2. park' \in [Runs -> Parks]
    BY <1>12, <2>1 DEF TypeOK, Finish
  <2>3. status' \in [Runs -> Statuses]
    BY <1>12, <2>1 DEF TypeOK, Finish
  <2> QED
    BY <1>12, <2>2, <2>3 DEF TypeOK, Finish
<1>13. ASSUME NEW r \in Runs, Mark(r) \/ Label(r) \/ Recover(r) PROVE TypeOK'
  BY <1>13 DEF TypeOK, Mark, Label, Recover, Statuses
<1>14. ASSUME NEW r \in Runs, Signal(r) \/ Kill(r) PROVE TypeOK'
  BY <1>14 DEF TypeOK, Signal, Kill
<1>15. ASSUME NEW r \in Runs, Reverify(r) PROVE TypeOK'
  <2>1. Append(base, parked(r)) \in Commits
    BY <1>15, LastOfPark, CommitTypes DEF TypeOK, Reverify, Steps
  <2> QED
    BY <1>15, <2>1 DEF TypeOK, Reverify
<1>16. ASSUME NEW r \in Runs, NEW phase \in Statuses, Resolve(r, phase)
       PROVE  /\ park' \in [Runs -> Parks] /\ status' \in [Runs -> Statuses]
              /\ keep' \in [Runs -> Commits]
  <2>1. /\ park' = [park EXCEPT ![r] = [@ EXCEPT !.resolved = TRUE]]
        /\ status' = [status EXCEPT ![r] = phase] /\ keep' = [keep EXCEPT ![r] = NoCommit]
    BY <1>16 DEF Resolve, Set
  <2>2. [park[r] EXCEPT !.resolved = TRUE] \in Parks
    <3>1. park[r] \in Parks
      BY DEF TypeOK
    <3> QED
      BY <3>1 DEF Parks
  <2>3. park' \in [Runs -> Parks]
    BY <2>1, <2>2 DEF TypeOK
  <2>4. status' \in [Runs -> Statuses] /\ keep' \in [Runs -> Commits]
    BY <2>1, CommitTypes DEF TypeOK
  <2> QED
    BY <2>3, <2>4
<1>17. ASSUME NEW r \in Runs, Ack(r) PROVE TypeOK'
  <2>1. Append(base, parked(r)) \in Commits
    BY <1>17 DEF TypeOK, Ack
  <2>2. /\ park' \in [Runs -> Parks] /\ status' \in [Runs -> Statuses]
        /\ keep' \in [Runs -> Commits]
    BY <1>16, <1>17 DEF Ack, Statuses
  <2> QED
    BY <1>17, <2>1, <2>2 DEF TypeOK, Ack
<1>18. ASSUME NEW r \in Runs, Reject(r) PROVE TypeOK'
  <2>1. /\ park' \in [Runs -> Parks] /\ status' \in [Runs -> Statuses]
        /\ keep' \in [Runs -> Commits]
    BY <1>16, <1>18 DEF Reject, Statuses
  <2> QED
    BY <1>18, <2>1 DEF TypeOK, Reject
<1>19. CASE ForeignLand
  <2>1. Append(base, Foreign) \in Commits
    BY CommitTypes DEF TypeOK, Steps
  <2> QED
    BY <1>19, <2>1 DEF TypeOK, ForeignLand
<1> QED
  BY <1>1, <1>2, <1>3, <1>4, <1>5, <1>6, <1>7, <1>8, <1>9, <1>10, <1>11, <1>12, <1>13,
     <1>14, <1>15, <1>17, <1>18, <1>19
     DEF Next, RunStep, Pipeline, Epilogue

-----------------------------------------------------------------------------
(* Only agents touch branches and verdicts, and an agent has one verdict.    *)
LEMMA AgentFrame ==
    ASSUME Next, \A r \in Runs, t \in Tasks : ~Agent(r, t)
    PROVE  UNCHANGED <<branch, result>>
<1> USE DEF shared, memory
<1>1. ASSUME NEW r \in Runs, Begin(r) \/ Pipeline(r) PROVE UNCHANGED <<branch, result>>
  BY <1>1 DEF Begin, Pipeline, Integrate, Verify, Repair, GiveUp, Bisect, Land, ParkHeld, Note,
              Publish
<1>2. ASSUME NEW r \in Runs, Epilogue(r) PROVE UNCHANGED <<branch, result>>
  BY <1>2 DEF Epilogue, File, recordRunUsage, Finish, Mark, Label
<1>3. ASSUME NEW r \in Runs,
             Signal(r) \/ Kill(r) \/ Recover(r) \/ Reverify(r) \/ Ack(r) \/ Reject(r)
      PROVE  UNCHANGED <<branch, result>>
  BY <1>3 DEF Signal, Kill, Recover, Reverify, Ack, Reject
<1>4. CASE ForeignLand
  BY <1>4 DEF ForeignLand
<1> QED
  BY <1>1, <1>2, <1>3, <1>4 DEF Next, RunStep

(* A successful agent's branch stays with a run, and stays successful.      *)
LEMMA OwnedStep ==
    ASSUME TypeOK, Owned, Next
    PROVE  Owned' /\ \A r \in Runs : okTasks(r) \subseteq okTasks(r)'
<1>1. CASE \A r \in Runs, t \in Tasks : ~Agent(r, t)
  BY <1>1, AgentFrame DEF Owned, okTasks
<1>2. ASSUME NEW r \in Runs, NEW t \in Tasks, Agent(r, t)
      PROVE  Owned' /\ \A q \in Runs : okTasks(q) \subseteq okTasks(q)'
  <2>1. PICK v \in {"ok", "failed"} : Verdict(r, t, v)
    BY <1>2 DEF Agent, Reuse, Fresh, Collide
  <2>2. result[r][t] = "none"
    BY <1>2 DEF Agent
  <2>3. \A q \in Runs, u \in Tasks : <<q, u>> # <<r, t>> => result'[q][u] = result[q][u]
    BY <2>1 DEF Verdict, Set, TypeOK
  <2>4. \A q \in Runs : okTasks(q) \subseteq okTasks(q)'
    BY <2>2, <2>3 DEF okTasks
  <2>5. \A u \in Tasks : branch[u].by \in Runs => branch'[u].by \in Runs
    BY <1>2 DEF Agent, Reuse, Fresh, Collide, Set, TypeOK
  <2>6. result'[r][t] = "ok" => branch'[t].by \in Runs
    <3>1. CASE Reuse(r, t)
      <4>1. branch[t] \in Branches /\ branch[t] # NoBranch /\ UNCHANGED branch
        BY <3>1 DEF TypeOK, Reuse
      <4>2. branch[t].by \in Runs
        BY <3>1, <4>1 DEF Owned
      <4> QED
        BY <4>1, <4>2
    <3>2. CASE Fresh(r, t)
      BY <3>2 DEF Fresh, Set, TypeOK
    <3>3. CASE Collide(r, t)
      BY <3>3 DEF Collide, Verdict, Set, TypeOK
    <3> QED
      BY <1>2, <3>1, <3>2, <3>3 DEF Agent
  <2>7. \A u \in Tasks : branch[u] = NoBranch \/ branch[u].by \in Runs
                       => branch'[u] = NoBranch \/ branch'[u].by \in Runs
    BY <1>2 DEF Agent, Reuse, Fresh, Collide, Set, TypeOK
  <2>8. Owned'
    BY <2>3, <2>5, <2>6, <2>7 DEF Owned
  <2> QED
    BY <2>4, <2>8
<1> QED
  BY <1>1, <1>2

(* Reports only gain names from the verdicts, and lose them again.          *)
LEMMA ReportedStep ==
    ASSUME TypeOK, Owned, Reported, Next
    PROVE  Reported'
<1> USE DEF Report, shared, disk, memory
<1>1. \A r \in Runs : okTasks(r) \subseteq okTasks(r)'
  BY OwnedStep
<1>2. CASE UNCHANGED rep
  BY <1>1, <1>2 DEF Reported
<1>3. ASSUME NEW r \in Runs, NEW R \in Reports, Report(r, R),
             R.landed \union R.held \subseteq okTasks(r)
      PROVE  Reported'
  BY <1>1, <1>3 DEF Reported, TypeOK
<1>4. \A r \in Runs : rep[r] \in Reports /\ rep[r].landed \union rep[r].held \subseteq okTasks(r)
  BY DEF TypeOK, Reported
<1>5. ASSUME NEW r \in Runs, Integrate(r) PROVE Reported'
  <2>1. ASSUME NEW F \in SUBSET clearOf(r),
               Report(r, [NoReport EXCEPT !.landed = clearOf(r) \ F, !.flagged = F,
                                          !.held = heldOf(r),
                                          !.final = candidate(r, clearOf(r) \ F, 0)])
        PROVE  Reported'
    <3> DEFINE R == [NoReport EXCEPT !.landed = clearOf(r) \ F, !.flagged = F,
                                     !.held = heldOf(r),
                                     !.final = candidate(r, clearOf(r) \ F, 0)]
    <3>1. R.landed = clearOf(r) \ F /\ R.held = heldOf(r)
      BY DEF NoReport
    <3>2. R.landed \union R.held \subseteq okTasks(r)
      BY <3>1 DEF clearOf, heldOf
    <3> HIDE DEF R
    <3> QED
      BY <1>1, <2>1, <3>2 DEF Reported, TypeOK, R
  <2> QED
    BY <1>2, <1>5, <2>1 DEF Integrate, Conflicts
<1>6. ASSUME NEW r \in Runs, Verify(r) PROVE Reported'
  <2>1. \A v \in {"green", "red"} :
          LET R == [rep[r] EXCEPT !.verify = v]
          IN  R \in Reports /\ R.landed = rep[r].landed /\ R.held = rep[r].held
    BY <1>4 DEF Reports
  <2>2. ASSUME NEW v \in {"green", "red"}, Report(r, [rep[r] EXCEPT !.verify = v])
        PROVE  Reported'
    BY <1>3, <1>4, <2>1, <2>2
  <2> QED
    BY <1>6, <2>2 DEF Verify
<1>7. ASSUME NEW r \in Runs, Repair(r) PROVE Reported'
  <2>1. CASE Report(r, [rep[r] EXCEPT !.final = candidate(r, rep[r].landed, fix[r] + 1)])
    <3> DEFINE R == [rep[r] EXCEPT !.final = candidate(r, rep[r].landed, fix[r] + 1)]
    <3>1. R.landed = rep[r].landed /\ R.held = rep[r].held
      BY <1>4 DEF Reports
    <3>2. R.landed \union R.held \subseteq okTasks(r)
      BY <1>4, <3>1
    <3> HIDE DEF R
    <3> QED
      BY <1>1, <2>1, <3>2 DEF Reported, TypeOK, R
  <2> QED
    BY <1>2, <1>7, <2>1 DEF Repair
<1>8. ASSUME NEW r \in Runs, GiveUp(r) PROVE Reported'
  <2>1. CASE Report(r, [rep[r] EXCEPT !.landed = {}, !.dropped = rep[r].landed])
    <3> DEFINE R == [rep[r] EXCEPT !.landed = {}, !.dropped = rep[r].landed]
    <3>1. R.landed = {} /\ R.held = rep[r].held
      BY <1>4 DEF Reports
    <3>2. R.landed \union R.held \subseteq okTasks(r)
      BY <1>4, <3>1
    <3> HIDE DEF R
    <3> QED
      BY <1>1, <2>1, <3>2 DEF Reported, TypeOK, R
  <2> QED
    BY <1>2, <1>8, <2>1 DEF GiveUp
<1>9. ASSUME NEW r \in Runs, Bisect(r) PROVE Reported'
  <2>1. PICK good \in SUBSET rep[r].landed :
          Report(r, [rep[r] EXCEPT !.landed = good, !.dropped = rep[r].landed \ good,
                                   !.final = candidate(r, good, 0), !.verify = "green"])
    BY <1>9 DEF Bisect
  <2> DEFINE R == [rep[r] EXCEPT !.landed = good, !.dropped = rep[r].landed \ good,
                                 !.final = candidate(r, good, 0), !.verify = "green"]
  <2>2. R.landed = good /\ R.held = rep[r].held
    BY <1>4 DEF Reports
  <2>3. R.landed \union R.held \subseteq okTasks(r)
    BY <1>4, <2>2
  <2> HIDE DEF R
  <2> QED
    BY <1>1, <2>1, <2>3 DEF Reported, TypeOK, R
<1>10. ASSUME NEW r \in Runs, Begin(r) \/ Land(r) \/ ParkHeld(r) \/ Note(r) \/ Publish(r)
       PROVE  UNCHANGED rep
  BY <1>10 DEF Begin, Land, ParkHeld, Note, Publish
<1>11. ASSUME NEW r \in Runs, NEW t \in Tasks, Agent(r, t) PROVE UNCHANGED rep
  BY <1>11 DEF Agent
<1>12. ASSUME NEW r \in Runs, Epilogue(r) PROVE UNCHANGED rep
  BY <1>12 DEF Epilogue, File, recordRunUsage, Finish, Mark, Label
<1>13. ASSUME NEW r \in Runs,
              Signal(r) \/ Kill(r) \/ Recover(r) \/ Reverify(r) \/ Ack(r) \/ Reject(r)
       PROVE  UNCHANGED rep
  BY <1>13 DEF Signal, Kill, Recover, Reverify, Ack, Reject
<1>14. CASE ForeignLand
  BY <1>2, <1>14 DEF ForeignLand
<1> QED
  BY <1>2, <1>5, <1>6, <1>7, <1>8, <1>9, <1>10, <1>11, <1>12, <1>13, <1>14
     DEF Next, RunStep, Pipeline

-----------------------------------------------------------------------------
(* Every step of one run's control: the others' are untouched.               *)
LEMMA ControlOf ==
    ASSUME TypeOK, Control, NEW r \in Runs,
           \A q \in Runs \ {r} : /\ pc'[q] = pc[q] /\ fix'[q] = fix[q]
                                 /\ rep'[q] = rep[q] /\ pin'[q] = pin[q],
           green \subseteq green',
           pc'[r] = "repair" => fix'[r] < RepairMax,
           pc'[r] \in {"verify", "repair", "red", "land"} => OnPin(rep'[r].final, pin'[r]),
           pc'[r] = "land" => rep'[r].final \in green'
    PROVE  Control'
BY DEF Control, Rounds, Candidates, Verified

(* Each step of a run keeps its rounds, its candidate and its verdict true. *)
LEMMA ControlStep ==
    ASSUME TypeOK, Owned, Reported, Control, Next
    PROVE  Control'
<1> USE DEF Goto, Set, Abort, Report, shared, disk, memory
<1>1. ASSUME NEW r \in Runs,
             \/ UNCHANGED pc /\ UNCHANGED <<fix, rep, pin>>
             \/ /\ \E l \in {"idle", "agents", "park", "note", "publish", "file", "usage", "finish",
                             "mark", "label", "end", "dead"} : Goto(r, l)
                /\ UNCHANGED <<fix, rep, pin>>,
             green \subseteq green'
      PROVE  Control'
  <2>1. CASE UNCHANGED pc /\ UNCHANGED <<fix, rep, pin>>
    BY <1>1, <2>1 DEF Control, Rounds, Candidates, Verified
  <2>2. CASE /\ \E l \in {"idle", "agents", "park", "note", "publish", "file", "usage", "finish",
                          "mark", "label", "end", "dead"} : Goto(r, l)
             /\ UNCHANGED <<fix, rep, pin>>
    <3>1. /\ \A q \in Runs \ {r} : pc'[q] = pc[q]
          /\ pc'[r] \notin {"verify", "repair", "red", "land"}
      BY <2>2 DEF TypeOK
    <3> QED
      BY <1>1, <2>2, <3>1, ControlOf
  <2> QED
    BY <1>1, <2>1, <2>2
<1>2. ASSUME NEW r \in Runs, Begin(r) PROVE Control'
  <2>1. /\ \A q \in Runs \ {r} : pc'[q] = pc[q] /\ pin'[q] = pin[q]
        /\ pc'[r] \in {"agents", "label"} /\ UNCHANGED <<fix, rep, green>>
    BY <1>2 DEF TypeOK, Begin
  <2> QED
    BY <2>1, ControlOf
<1>3. ASSUME NEW r \in Runs, NEW t \in Tasks, Agent(r, t) PROVE Control'
  BY <1>1, <1>3 DEF Agent
<1>4. ASSUME NEW r \in Runs, Integrate(r) PROVE Control'
  <2>1. CASE Goto(r, "file") /\ UNCHANGED rep
    BY <1>1, <1>4, <2>1 DEF Integrate
  <2>2. ASSUME NEW F \in SUBSET clearOf(r), Goto(r, "verify"),
               Report(r, [NoReport EXCEPT !.landed = clearOf(r) \ F, !.flagged = F,
                                          !.held = heldOf(r),
                                          !.final = candidate(r, clearOf(r) \ F, 0)])
        PROVE  Control'
    <3>1. OnPin(candidate(r, clearOf(r) \ F, 0), pin[r])
      BY CandidateTyped, RunAssumption DEF clearOf
    <3>2. [NoReport EXCEPT !.landed = clearOf(r) \ F, !.flagged = F, !.held = heldOf(r),
                           !.final = candidate(r, clearOf(r) \ F, 0)].final
          = candidate(r, clearOf(r) \ F, 0)
      BY DEF NoReport
    <3>3. rep'[r].final = candidate(r, clearOf(r) \ F, 0)
      BY <2>2, <3>2 DEF TypeOK
    <3>4. /\ \A q \in Runs \ {r} : pc'[q] = pc[q] /\ rep'[q] = rep[q]
          /\ pc'[r] = "verify" /\ UNCHANGED <<fix, pin, green>>
      BY <1>4, <2>2 DEF TypeOK, Integrate
    <3> QED
      BY <3>1, <3>3, <3>4, ControlOf
  <2> QED
    BY <1>4, <2>1, <2>2 DEF Integrate, Conflicts
<1>5. ASSUME NEW r \in Runs, Verify(r) PROVE Control'
  <2>1. rep[r] \in Reports /\ OnPin(rep[r].final, pin[r])
    BY <1>5 DEF TypeOK, Verify, Control, Candidates
  <2>2. /\ [rep[r] EXCEPT !.verify = "green"].final = rep[r].final
        /\ [rep[r] EXCEPT !.verify = "red"].final = rep[r].final
    BY <2>1 DEF Reports
  <2>3. /\ \A q \in Runs \ {r} : pc'[q] = pc[q] /\ rep'[q] = rep[q]
        /\ rep'[r].final = rep[r].final
        /\ UNCHANGED <<fix, pin>> /\ green \subseteq green'
    BY <1>5, <2>2 DEF TypeOK, Verify
  <2>4. pc'[r] = "repair" => fix[r] < RepairMax
    BY <1>5 DEF TypeOK, Verify
  <2>5. pc'[r] = "land" => rep[r].final \in green'
    BY <1>5 DEF TypeOK, Verify
  <2> QED
    BY <2>1, <2>3, <2>4, <2>5, ControlOf
<1>6. ASSUME NEW r \in Runs, Repair(r) PROVE Control'
  <2>1. fix[r] < RepairMax /\ fix[r] \in Nat /\ RepairMax \in Nat /\ OnPin(rep[r].final, pin[r])
    BY <1>6, RunAssumption DEF TypeOK, Repair, Control, Rounds, Candidates
  <2>2. CASE Goto(r, "red") /\ UNCHANGED <<fix, rep>>
    <3>1. /\ \A q \in Runs \ {r} : pc'[q] = pc[q]
          /\ pc'[r] = "red" /\ UNCHANGED <<fix, rep, pin, green>>
      BY <1>6, <2>2 DEF TypeOK, Repair
    <3> QED
      BY <2>1, <3>1, ControlOf
  <2>3. CASE /\ fix' = [fix EXCEPT ![r] = @ + 1] /\ Goto(r, "verify")
             /\ Report(r, [rep[r] EXCEPT !.final = candidate(r, rep[r].landed, fix[r] + 1)])
    <3>1. OnPin(candidate(r, rep[r].landed, fix[r] + 1), pin[r])
      BY <2>1, CandidateTyped DEF Reported
    <3>2. [rep[r] EXCEPT !.final = candidate(r, rep[r].landed, fix[r] + 1)].final
          = candidate(r, rep[r].landed, fix[r] + 1)
      BY DEF TypeOK, Reports
    <3>3. rep'[r].final = candidate(r, rep[r].landed, fix[r] + 1)
      BY <2>3, <3>2 DEF TypeOK
    <3>4. /\ \A q \in Runs \ {r} : pc'[q] = pc[q] /\ rep'[q] = rep[q] /\ fix'[q] = fix[q]
          /\ pc'[r] = "verify" /\ UNCHANGED <<pin, green>>
      BY <1>6, <2>3 DEF TypeOK, Repair
    <3> QED
      BY <3>1, <3>3, <3>4, ControlOf
  <2> QED
    BY <1>6, <2>2, <2>3 DEF Repair
<1>7. ASSUME NEW r \in Runs, GiveUp(r) PROVE Control'
  <2>1. /\ \A q \in Runs \ {r} : pc'[q] = pc[q] /\ rep'[q] = rep[q]
        /\ pc'[r] = "file" /\ UNCHANGED <<fix, pin, green>>
    BY <1>7 DEF TypeOK, GiveUp
  <2> QED
    BY <2>1, ControlOf
<1>8. ASSUME NEW r \in Runs, Bisect(r) PROVE Control'
  <2>1. PICK good \in SUBSET rep[r].landed :
          /\ green' = green \union {candidate(r, good, 0)}
          /\ Report(r, [rep[r] EXCEPT !.landed = good, !.dropped = rep[r].landed \ good,
                                      !.final = candidate(r, good, 0), !.verify = "green"])
    BY <1>8 DEF Bisect
  <2>2. OnPin(candidate(r, good, 0), pin[r])
    BY CandidateTyped, RunAssumption DEF Reported
  <2>3. [rep[r] EXCEPT !.landed = good, !.dropped = rep[r].landed \ good,
                       !.final = candidate(r, good, 0), !.verify = "green"].final
        = candidate(r, good, 0)
    BY DEF TypeOK, Reports
  <2>4. rep'[r].final = candidate(r, good, 0)
    BY <2>1, <2>3 DEF TypeOK
  <2>5. /\ \A q \in Runs \ {r} : pc'[q] = pc[q] /\ rep'[q] = rep[q]
        /\ pc'[r] = "land" /\ UNCHANGED <<fix, pin>>
    BY <1>8, <2>1 DEF TypeOK, Bisect
  <2> QED
    BY <2>1, <2>2, <2>4, <2>5, ControlOf
<1>9. ASSUME NEW r \in Runs, Land(r) \/ Note(r) \/ Publish(r) PROVE Control'
  BY <1>1, <1>9 DEF Land, Note, Publish
<1>10. ASSUME NEW r \in Runs, ParkHeld(r) PROVE Control'
  BY <1>1, <1>10 DEF ParkHeld
<1>11. ASSUME NEW r \in Runs, Epilogue(r) PROVE Control'
  BY <1>1, <1>11 DEF Epilogue, File, recordRunUsage, Finish, Mark, Label
<1>12. ASSUME NEW r \in Runs,
              Signal(r) \/ Kill(r) \/ Recover(r) \/ Reverify(r) \/ Ack(r) \/ Reject(r)
       PROVE  Control'
  BY <1>1, <1>12 DEF Signal, Kill, Recover, Reverify, Ack, Reject
<1>13. CASE ForeignLand
  BY <1>13 DEF ForeignLand, Control, Rounds, Candidates, Verified
<1> QED
  BY <1>2, <1>3, <1>4, <1>5, <1>6, <1>7, <1>8, <1>9, <1>10, <1>11, <1>12, <1>13
     DEF Next, RunStep, Pipeline

-----------------------------------------------------------------------------
(* A park is born from a landing of its own and only ever resolved.          *)
LEMMA ParkedStep ==
    ASSUME TypeOK, Owned, Reported, Parked, Next
    PROVE  Parked'
<1> USE DEF Goto, Set, Abort, shared, disk, memory
<1>1. CASE UNCHANGED <<park, pk>>
  BY <1>1 DEF Parked, GoodPark
<1>2. ASSUME NEW r \in Runs, ParkHeld(r) PROVE Parked'
  <2>1. CASE UNCHANGED pk
    BY <1>1, <1>2, <2>1 DEF ParkHeld
  <2>2. ASSUME NEW l \in Landings,
               pk' = Set(pk, r, [verifiedSHA |-> Append(rep[r].final, l),
                                 baseSHA |-> rep[r].final, resolved |-> FALSE])
        PROVE  Parked'
    <3>1. rep[r].final \in Commits
      BY DEF TypeOK, Reports
    <3>2. GoodPark([verifiedSHA |-> Append(rep[r].final, l),
                    baseSHA |-> rep[r].final, resolved |-> FALSE])
      BY <3>1 DEF GoodPark
    <3> QED
      BY <1>2, <2>2, <3>2 DEF TypeOK, Parked, ParkHeld
  <2>3. (\E t \in rep[r].held : Stale(t, r)) \in BOOLEAN
    OBVIOUS
  <2> QED
    BY <1>2, <2>1, <2>2, <2>3, ParkTyped DEF ParkHeld
<1>3. ASSUME NEW r \in Runs, Finish(r) PROVE Parked'
  BY <1>3 DEF TypeOK, Parked, Finish
<1>4. ASSUME NEW r \in Runs, NEW phase, Resolve(r, phase), UNCHANGED pk PROVE Parked'
  <2>1. park' = [park EXCEPT ![r] = [park[r] EXCEPT !.resolved = TRUE]]
    BY <1>4 DEF TypeOK, Resolve
  <2>2. [park[r] EXCEPT !.resolved = TRUE].resolved
    BY DEF TypeOK, Parks
  <2>3. GoodPark([park[r] EXCEPT !.resolved = TRUE])
    BY <2>2 DEF GoodPark
  <2> QED
    BY <1>4, <2>1, <2>3 DEF TypeOK, Parked
<1>5. ASSUME NEW r \in Runs, Ack(r) \/ Reject(r) PROVE Parked'
  BY <1>4, <1>5 DEF Ack, Reject
<1>6. ASSUME NEW r \in Runs, Begin(r) \/ Land(r) \/ Note(r) \/ Publish(r)
                            \/ Integrate(r) \/ Verify(r) \/ Repair(r) \/ GiveUp(r) \/ Bisect(r)
      PROVE  UNCHANGED <<park, pk>>
  BY <1>6 DEF Begin, Land, Note, Publish, Integrate, Verify, Repair, GiveUp, Bisect
<1>7. ASSUME NEW r \in Runs, NEW t \in Tasks, Agent(r, t) PROVE UNCHANGED <<park, pk>>
  BY <1>7 DEF Agent
<1>8. ASSUME NEW r \in Runs, \/ File(r) \/ recordRunUsage(r) \/ Mark(r) \/ Label(r)
                             \/ Signal(r) \/ Kill(r) \/ Recover(r) \/ Reverify(r)
      PROVE  UNCHANGED <<park, pk>>
  BY <1>8 DEF File, recordRunUsage, Mark, Label, Signal, Kill, Recover, Reverify
<1>9. CASE ForeignLand
  BY <1>1, <1>9 DEF ForeignLand
<1> QED
  BY <1>1, <1>2, <1>3, <1>5, <1>6, <1>7, <1>8, <1>9 DEF Next, RunStep, Pipeline, Epilogue

-----------------------------------------------------------------------------
(* The inductive invariant holds before any run has begun ... *)
LEMMA IInvInit == Init => IInv
<1> SUFFICES ASSUME Init PROVE IInv
  OBVIOUS
<1>1. Owned /\ Reported
  BY DEF Init, Owned, Reported, okTasks, NoReport
<1>2. Control
  BY DEF Init, Control, Rounds, Candidates, Verified
<1>3. Parked
  BY DEF Init, Parked, GoodPark, NoPark
<1> QED
  BY <1>1, <1>2, <1>3, TypeInit DEF IInv

(* ... and survives each step of any process, ... *)
LEMMA IInvStep == IInv /\ [Next]_vars => IInv'
<1> SUFFICES ASSUME IInv, [Next]_vars PROVE IInv'
  OBVIOUS
<1>1. CASE Next
  <2>1. Rounds
    BY DEF IInv, Control
  <2> QED
    BY <1>1, <2>1, TypeStep, OwnedStep, ReportedStep, ControlStep, ParkedStep DEF IInv
<1>2. CASE UNCHANGED vars
  <2> USE <1>2 DEF vars, IInv
  <2>1. TypeOK'
    BY DEF TypeOK
  <2>2. Owned' /\ Reported'
    BY DEF Owned, Reported, okTasks
  <2>3. Control'
    BY DEF Control, Rounds, Candidates, Verified
  <2>4. Parked'
    BY DEF Parked, GoodPark
  <2> QED
    BY <2>1, <2>2, <2>3, <2>4
<1> QED
  BY <1>1, <1>2

(* ... so it holds throughout. *)
LEMMA Invariance == Spec => []IInv
BY IInvInit, IInvStep, PTL DEF Spec

(* Whatever the sets of runs and tasks and the repair bound, and whoever is  *)
(* signalled, killed or failing: the files and the state of the runs keep    *)
(* their types and no run repairs more often than -repair-max.               *)
THEOREM TypeCorrect == Spec => []TypeOK
<1>1. IInv => TypeOK
  BY DEF IInv
<1> QED
  BY <1>1, Invariance, PTL

-----------------------------------------------------------------------------
(* The base moves only in a landing, an ack or somebody else's push.         *)
LEMMA BaseFrame ==
    ASSUME Next, \A r \in Runs : ~Land(r) /\ ~Ack(r), ~ForeignLand
    PROVE  UNCHANGED base
<1> USE DEF shared, memory
<1>1. ASSUME NEW r \in Runs, Begin(r) \/ ParkHeld(r) \/ Note(r) \/ Publish(r)
                            \/ Integrate(r) \/ Verify(r) \/ Repair(r) \/ GiveUp(r) \/ Bisect(r)
      PROVE  UNCHANGED base
  BY <1>1 DEF Begin, ParkHeld, Note, Publish, Integrate, Verify, Repair, GiveUp, Bisect
<1>2. ASSUME NEW r \in Runs, NEW t \in Tasks, Agent(r, t) PROVE UNCHANGED base
  BY <1>2 DEF Agent
<1>3. ASSUME NEW r \in Runs, Epilogue(r) PROVE UNCHANGED base
  BY <1>3 DEF Epilogue, File, recordRunUsage, Finish, Mark, Label
<1>4. ASSUME NEW r \in Runs, Signal(r) \/ Kill(r) \/ Recover(r) \/ Reverify(r) \/ Reject(r)
      PROVE  UNCHANGED base
  BY <1>4 DEF Signal, Kill, Recover, Reverify, Reject
<1> QED
  BY <1>1, <1>2, <1>3, <1>4 DEF Next, RunStep, Pipeline

(* No verdict is ever taken back.                                           *)
LEMMA GreenGrows == ASSUME Next PROVE green \subseteq green'
<1> USE DEF shared, memory
<1>1. ASSUME NEW r \in Runs, Begin(r) \/ Pipeline(r) PROVE green \subseteq green'
  BY <1>1 DEF Begin, Pipeline, Integrate, Verify, Repair, GiveUp, Bisect, Land, ParkHeld, Note,
              Publish
<1>2. ASSUME NEW r \in Runs, NEW t \in Tasks, Agent(r, t) PROVE green \subseteq green'
  BY <1>2 DEF Agent
<1>3. ASSUME NEW r \in Runs, Epilogue(r) PROVE green \subseteq green'
  BY <1>3 DEF Epilogue, File, recordRunUsage, Finish, Mark, Label
<1>4. ASSUME NEW r \in Runs,
             Signal(r) \/ Kill(r) \/ Recover(r) \/ Reverify(r) \/ Ack(r) \/ Reject(r)
      PROVE  green \subseteq green'
  BY <1>4 DEF Signal, Kill, Recover, Reverify, Ack, Reject
<1>5. CASE ForeignLand
  BY <1>5 DEF ForeignLand
<1> QED
  BY <1>1, <1>2, <1>3, <1>4, <1>5 DEF Next, RunStep

(* A run's landing, a signal's in the middle of the swap included, puts a    *)
(* verified landing on the head the run pinned.                              *)
LEMMA LandLandsGreenChild ==
    ASSUME IInv, NEW r \in Runs, Land(r), base' # base
    PROVE  /\ base' \in green /\ UNCHANGED green
           /\ \E l \in Landings : base' = Append(base, l)
<1>1. pc[r] = "land" /\ base = pin[r] /\ base' = rep[r].final /\ UNCHANGED green
  BY DEF Land, Abort
<1>2. base' \in green
  BY <1>1 DEF IInv, Control, Verified
<1>3. OnPin(base', base)
  BY <1>1 DEF IInv, Control, Candidates
<1> QED
  BY <1>1, <1>2, <1>3 DEF OnPin

(* ... and so does an ack. *)
LEMMA AckLandsGreenChild ==
    ASSUME IInv, NEW r \in Runs, Ack(r)
    PROVE  /\ base' \in green /\ UNCHANGED green
           /\ \E l \in Landings : base' = Append(base, l)
<1>1. ~park[r].resolved
  BY DEF Ack, Resolve
<1>2. parked(r) \in Landings
  BY <1>1, LastOfPark DEF IInv
<1> QED
  BY <1>2 DEF Ack

(* For any number of concurrent, resumed, signalled and killed runs, with    *)
(* acks, rejects and foreign pushes in between: the base moves by one landing*)
(* at a time, on the head it held, to a commit that passed verify as it is,  *)
(* repaired or bisected as it may be.                                        *)
THEOREM RunImplementsLanding == Spec => LandingSpec
<1>1. Init => Base!Init
  BY TypeInit DEF TypeOK, Base!Init, Base!Commits, Base!Steps, Commits, Steps
<1>2. ASSUME IInv, IInv', [Next]_vars PROVE [Base!Next]_(Base!landingVars)
  <2>1. CASE UNCHANGED vars
    BY <2>1 DEF vars, Base!landingVars
  <2>2. CASE Next /\ UNCHANGED base
    <3>1. green \subseteq green' /\ green' \subseteq Base!Commits
      BY <1>2, <2>2, GreenGrows DEF IInv, TypeOK, Base!Commits, Base!Steps, Commits, Steps
    <3> QED
      BY <2>2, <3>1 DEF Base!Next, Base!PassVerify
  <2>3. CASE ForeignLand
    BY <2>3 DEF ForeignLand, Base!Next, Base!ForeignLand
  <2>4. ASSUME NEW r \in Runs, base' # base, Land(r) \/ Ack(r) PROVE Base!Next
    <3>1. /\ base' \in green /\ UNCHANGED green
          /\ \E l \in Landings : base' = Append(base, l)
      BY <1>2, <2>4, LandLandsGreenChild, AckLandsGreenChild
    <3> QED
      BY <3>1 DEF Base!Next, Base!Land, Base!ChildOf, Base!Steps
  <2> QED
    BY <1>2, <2>1, <2>2, <2>3, <2>4, BaseFrame
<1> QED
  BY <1>1, <1>2, Invariance, PTL DEF Spec, LandingSpec, Base!Spec

-----------------------------------------------------------------------------
(* What a run's report and its parking record say.  A record of one run is   *)
(* compared with the base and with branches that any run may touch, so it    *)
(* needs to be known where branches fork, which of them may still be reset,  *)
(* and whose landings are on the base.                                       *)

(* Branches fork from, and runs pin, what the base once was.  An agent that  *)
(* succeeded has work of its own, or a branch that forked elsewhere.         *)
Trunk ==
    /\ \A t \in Tasks : Descends(base, branch[t].fork)
    /\ \A r \in Runs : Descends(base, pin[r])
    /\ \A r \in Runs, t \in Tasks : result[r][t] = "ok" =>
          branch[t] # NoBranch /\ (branch[t].real \/ branch[t].fork # pin[r])
    /\ \A r \in Runs : pc[r] = "idle" => \A t \in Tasks : result[r][t] = "none"

(* The candidate carries the branches its report lists, if those forked from *)
(* the pinned base; no branch that misses some of that base gets so far.     *)
Built(r) ==
    /\ \A t \in rep[r].landed : Descends(branch[t].fork, pin[r])
    /\ \/ rep[r].final = pin[r]
       \/ \E l \in Landings :
            /\ rep[r].final = Append(pin[r], l) /\ l.run = r /\ l.kind = "run"
            /\ (\A t \in rep[r].landed : branch[t].fork = pin[r]) => l.work = work(rep[r].landed)

(* The agents that succeeded, split in four. *)
Split(r) ==
    LET R == rep[r]
    IN  /\ okTasks(r) = R.landed \union R.flagged \union R.held \union R.dropped
        /\ R.landed \intersect R.flagged = {}
        /\ (R.landed \union R.flagged) \intersect R.held = {}
        /\ (R.landed \union R.flagged \union R.held) \intersect R.dropped = {}

(* What the report says before the base is asked. *)
Told(r) ==
    /\ pc[r] \in {"verify", "repair", "red", "land"} => Built(r)
    /\ pc[r] \in {"repair", "red"} => rep[r].verify = "red"
    /\ pc[r] = "land" => rep[r].verify = "green"
    /\ pc[r] \in {"verify", "repair", "red"} => rep[r].dropped = {}
    /\ \A t \in rep[r].held : branch[t].real
    /\ (pc[r] \notin {"idle", "agents", "dead"} \/ r \in filed) /\ err[r] = "none" => Split(r)

(* A run has nothing on the base before it lands, and afterwards what it     *)
(* reports, from branches that no run resets any more.                       *)
Mine(r) == {l \in OnBase : l.run = r /\ l.kind = "run"}
Match(r) ==
    /\ landed(r) <=> Mine(r) # {}
    /\ \A l \in Mine(r) : l.work = work(rep[r].landed) /\ \A t \in rep[r].landed : branch[t].real
Placed(r) ==
    /\ pc[r] \in {"idle", "agents", "verify", "repair", "red", "land"} => Mine(r) = {} /\ r \notin filed
    /\ \/ pc[r] \in {"park", "note", "publish"}
       \/ (pc[r] = "file" \/ r \in filed) /\ err[r] = "none"
       => Match(r)

(* Work on the base is a branch's that forked before it landed. *)
Real(w) == w[1] \in Tasks /\ branch[w[1]].real /\ branch[w[1]].by = w[2]
LandedWork ==
    \A i \in 1..Len(base) : base[i] \in Landings =>
        \A w \in base[i].work : Real(w) /\ Len(branch[w[1]].fork) < i

(* A parking record is the run's own until it is written, and open only in   *)
(* phases that let an ack reach it.                                          *)
OwnPark(p) == ~p.resolved =>
    LET l == p.verifiedSHA[Len(p.verifiedSHA)]
    IN  l.kind = "park" /\ \A w \in l.work : Real(w)
Open(r) ==
    /\ OwnPark(pk[r]) /\ OwnPark(park[r])
    /\ pc[r] \notin {"mark", "label", "end", "dead"} =>
         /\ park[r] = NoPark /\ status[r] \in {"none", "running"}
         /\ ~pk[r].resolved => keep[r] = pk[r].verifiedSHA /\ keep[r] \in green
    /\ ~park[r].resolved =>
         /\ park[r] = pk[r] /\ status[r] \notin {"done", "rejected"}
         /\ keep[r] = park[r].verifiedSHA /\ keep[r] \in green

JInv ==
    /\ Trunk /\ LandedWork /\ WorkLandsOnce
    /\ \A r \in Runs : Told(r) /\ Placed(r) /\ Open(r)

-----------------------------------------------------------------------------
(* Commits and their ancestors.                                              *)

LEMMA DescendsItself == ASSUME NEW a \in Commits PROVE Descends(a, a)
  BY DEF Descends, Commits

LEMMA DescendsMore == ASSUME NEW a \in Commits, NEW b \in Commits, NEW x \in Steps, Descends(b, a)
                      PROVE  Descends(Append(b, x), a)
  BY DEF Descends, Commits

LEMMA DescendsBoth == ASSUME NEW a \in Commits, NEW b \in Commits, Descends(a, b), Descends(b, a)
                      PROVE  a = b
  BY DEF Descends, Commits

LEMMA DescendsNothing == ASSUME NEW a \in Commits PROVE Descends(a, NoCommit)
  BY DEF Descends, Commits, NoCommit

LEMMA Appended == ASSUME NEW a \in Commits, NEW x \in Steps
                  PROVE  /\ Append(a, x) \in Commits /\ Append(a, x) # a /\ Append(a, x) # NoCommit
                         /\ Len(Append(a, x)) = Len(a) + 1 /\ Append(a, x)[Len(a) + 1] = x
                         /\ Append(a, x)[Len(Append(a, x))] = x
                         /\ \A i \in 1..Len(a) : Append(a, x)[i] = a[i]
  BY DEF Commits, NoCommit

-----------------------------------------------------------------------------
(* Frames: what a step leaves alone.                                         *)

(* Everything that is a run's own. *)
Same(q) ==
    /\ pc'[q] = pc[q] /\ pin'[q] = pin[q] /\ result'[q] = result[q] /\ rep'[q] = rep[q]
    /\ err'[q] = err[q] /\ pk'[q] = pk[q] /\ park'[q] = park[q]
    /\ status'[q] = status[q] /\ keep'[q] = keep[q] /\ (q \in filed' <=> q \in filed)

(* A step of one run, or of its park, leaves the others' to them. *)
LEMMA OthersSame ==
    ASSUME TypeOK, NEW r \in Runs, NEW q \in Runs, q # r,
           \/ RunStep(r) \/ Signal(r) \/ Kill(r) \/ Recover(r) \/ Reverify(r) \/ Ack(r) \/ Reject(r)
    PROVE  Same(q)
<1> USE DEF TypeOK, Goto, Set, Abort, Report, shared, disk, memory, Same
<1>1. ASSUME Begin(r) PROVE Same(q)
  BY <1>1 DEF Begin
<1>2. ASSUME NEW t \in Tasks, Agent(r, t) PROVE Same(q)
  BY <1>2 DEF Agent, Reuse, Fresh, Collide, Verdict
<1>3. ASSUME Integrate(r) \/ Verify(r) PROVE Same(q)
  BY <1>3 DEF Integrate, Verify
<1>4. ASSUME Repair(r) \/ GiveUp(r) PROVE Same(q)
  BY <1>4 DEF Repair, GiveUp
<1>5. ASSUME Bisect(r) \/ Land(r) PROVE Same(q)
  BY <1>5 DEF Bisect, Land
<1>6. ASSUME ParkHeld(r) \/ Note(r) \/ Publish(r) PROVE Same(q)
  BY <1>6 DEF ParkHeld, Note, Publish
<1>7. ASSUME Epilogue(r) PROVE Same(q)
  BY <1>7 DEF Epilogue, File, recordRunUsage, Finish, Mark, Label
<1>8. ASSUME Signal(r) \/ Kill(r) \/ Recover(r) \/ Reverify(r) PROVE Same(q)
  BY <1>8 DEF Signal, Kill, Recover, Reverify
<1>9. ASSUME Ack(r) \/ Reject(r) PROVE Same(q)
  BY <1>9 DEF Ack, Reject, Resolve
<1> QED
  BY <1>1, <1>2, <1>3, <1>4, <1>5, <1>6, <1>7, <1>8, <1>9 DEF RunStep, Pipeline

(* A branch keeps its fork, and one with work of its own is never reset. *)
Kept ==
    \A t \in Tasks : branch[t] # NoBranch =>
        /\ branch'[t] # NoBranch /\ branch'[t].fork = branch[t].fork
        /\ branch[t].real => branch'[t] = branch[t]

LEMMA BranchesKept == ASSUME TypeOK, Next PROVE Kept
<1>1. CASE \A r \in Runs, t \in Tasks : ~Agent(r, t)
  BY <1>1, AgentFrame DEF Kept
<1>2. ASSUME NEW r \in Runs, NEW u \in Tasks, Agent(r, u) PROVE Kept
  <2>1. CASE UNCHANGED branch
    BY <2>1 DEF Kept
  <2>2. CASE Fresh(r, u)
    <3>1. PICK real \in BOOLEAN :
            branch' = [branch EXCEPT ![u] = [by |-> r, fork |-> pin[r], real |-> real]]
      BY <2>2 DEF Fresh, Set
    <3>2. branch'[u] # NoBranch /\ branch'[u].fork = pin[r]
      BY <3>1, RunAssumption DEF TypeOK, NoBranch, RunAssumption
    <3>3. \A t \in Tasks : t # u => branch'[t] = branch[t]
      BY <3>1 DEF TypeOK
    <3>4. branch[u] # NoBranch => ~branch[u].real /\ branch[u].fork = pin[r]
      BY <2>2 DEF Fresh
    <3> QED
      BY <3>2, <3>3, <3>4 DEF Kept
  <2> QED
    BY <1>2, <2>1, <2>2 DEF Agent, Reuse, Collide
<1> QED
  BY <1>1, <1>2

(* The base stands or grows by one. *)
LEMMA BaseGrows ==
    ASSUME IInv, Next
    PROVE  base' = base \/ \E x \in Steps : base' = Append(base, x)
<1>1. ASSUME NEW r \in Runs, base' # base, Land(r) \/ Ack(r) PROVE \E l \in Landings : base' = Append(base, l)
  BY <1>1, LandLandsGreenChild, AckLandsGreenChild
<1>2. CASE ForeignLand
  BY <1>2 DEF ForeignLand, Steps
<1> QED
  BY <1>1, <1>2, BaseFrame DEF Steps

LEMMA ForkIsPin ==
    ASSUME TypeOK, Next, NEW t \in Tasks
    PROVE  branch'[t].fork = branch[t].fork \/ \E r \in Runs : branch'[t].fork = pin[r]
<1>1. CASE \A r \in Runs, u \in Tasks : ~Agent(r, u)
  BY <1>1, AgentFrame
<1>2. ASSUME NEW r \in Runs, NEW u \in Tasks, Agent(r, u), branch'[t] # branch[t]
      PROVE  branch'[t].fork = pin[r]
  BY <1>2 DEF Agent, Reuse, Fresh, Collide, Set, TypeOK
<1> QED
  BY <1>1, <1>2

(* A run pins the base once, before its agents start. *)
LEMMA PinOnce ==
    ASSUME TypeOK, Next, NEW q \in Runs
    PROVE  /\ pc[q] # "idle" => pin'[q] = pin[q]
           /\ pc[q] = "idle" => pin'[q] \in {pin[q], base}
           /\ pc'[q] = "idle" => pc[q] = "idle"
           /\ pc[q] = "idle" /\ pc'[q] # "idle" => result'[q] = result[q]
<1> USE DEF TypeOK, Goto, Set, Abort, Report, shared, disk, memory
<1>1. ASSUME NEW r \in Runs, r # q,
             \/ RunStep(r) \/ Signal(r) \/ Kill(r) \/ Recover(r) \/ Reverify(r) \/ Ack(r) \/ Reject(r)
      PROVE  pin'[q] = pin[q] /\ pc'[q] = pc[q]
  BY <1>1, OthersSame DEF Same
<1>2. ASSUME Begin(q) PROVE /\ pin'[q] = base /\ pc[q] = "idle" /\ pc'[q] # "idle"
                            /\ UNCHANGED result
  BY <1>2 DEF Begin
<1>3. ASSUME NEW t \in Tasks, Agent(q, t) PROVE pc[q] # "idle" /\ pc' = pc /\ pin' = pin
  BY <1>3 DEF Agent
<1>4. ASSUME Pipeline(q) PROVE pc[q] # "idle" /\ pc'[q] # "idle" /\ pin' = pin
  BY <1>4 DEF Pipeline, Integrate, Verify, Repair, GiveUp, Bisect, Land, ParkHeld, Note, Publish
<1>5. ASSUME Epilogue(q) PROVE pc[q] # "idle" /\ pc'[q] # "idle" /\ pin' = pin
  BY <1>5 DEF Epilogue, File, recordRunUsage, Finish, Mark, Label
<1>6. ASSUME Kill(q) PROVE pc[q] # "idle" /\ pc'[q] # "idle" /\ pin' = pin
  BY <1>6 DEF Kill, Alive
<1>7. ASSUME Signal(q) \/ Recover(q) \/ Reverify(q) \/ Ack(q) \/ Reject(q) PROVE UNCHANGED <<pc, pin>>
  BY <1>7 DEF Signal, Recover, Reverify, Ack, Reject
<1>8. ASSUME ForeignLand PROVE UNCHANGED <<pc, pin>>
  BY <1>8 DEF ForeignLand
<1> QED
  BY <1>1, <1>2, <1>3, <1>4, <1>5, <1>6, <1>7, <1>8 DEF Next, RunStep

LEMMA TrunkStep == ASSUME IInv, Trunk, Next PROVE Trunk'
<1>1. TypeOK /\ Kept /\ base \in Commits /\ \A t \in Tasks : branch[t].fork \in Commits
  BY BranchesKept DEF IInv, TypeOK, Branches
<1>2. \A a \in Commits : Descends(base, a) => Descends(base', a)
  BY <1>1, BaseGrows, DescendsMore
<1>3. \A r \in Runs : pin[r] \in Commits /\ Descends(base', pin[r])
  BY <1>1, <1>2 DEF Trunk, TypeOK
<1>4. \A t \in Tasks : Descends(base', branch'[t].fork)
  BY <1>1, <1>2, <1>3, ForkIsPin DEF Trunk
<1>5. \A r \in Runs : Descends(base', pin'[r])
  BY <1>1, <1>2, <1>3, PinOnce, DescendsItself
<1>6. \A r \in Runs : pc'[r] = "idle" => \A t \in Tasks : result'[r][t] = "none"
  <2> SUFFICES ASSUME NEW r \in Runs, NEW t \in Tasks, pc'[r] = "idle" PROVE result'[r][t] = "none"
    OBVIOUS
  <2>1. pc[r] = "idle" /\ result[r][t] = "none"
    BY <1>1, PinOnce DEF Trunk
  <2>2. CASE \A q \in Runs, u \in Tasks : ~Agent(q, u)
    BY <2>1, <2>2, AgentFrame
  <2>3. ASSUME NEW q \in Runs, NEW u \in Tasks, Agent(q, u) PROVE result'[r][t] = "none"
    BY <1>1, <2>1, <2>3 DEF Agent, Reuse, Fresh, Collide, Verdict, Set, TypeOK
  <2> QED
    BY <2>2, <2>3
<1>7. ASSUME NEW r \in Runs, NEW t \in Tasks, result'[r][t] = "ok"
      PROVE  branch'[t] # NoBranch /\ (branch'[t].real \/ branch'[t].fork # pin'[r])
  <2>1. CASE result[r][t] = "ok"
    <3>1. pin'[r] = pin[r]
      BY <1>1, <2>1, PinOnce DEF Trunk
    <3> QED
      BY <1>1, <2>1, <3>1 DEF Trunk, Kept
  <2>2. CASE result[r][t] # "ok"
    <3>1. PICK q \in Runs, u \in Tasks : Agent(q, u)
      BY <1>7, <2>2, AgentFrame
    <3>2. q = r /\ u = t /\ UNCHANGED pin
      <4>1. PICK v : result' = [result EXCEPT ![q] = [result[q] EXCEPT ![u] = v]]
        BY <3>1 DEF Agent, Reuse, Fresh, Collide, Verdict, Set
      <4>2. q = r /\ u = t
        BY <1>1, <1>7, <2>2, <4>1 DEF TypeOK
      <4> QED
        BY <3>1, <4>2 DEF Agent, disk
    <3>3. CASE Reuse(r, t)
      BY <3>2, <3>3 DEF Reuse
    <3>4. CASE Fresh(r, t)
      <4>1. branch'[t].by = r /\ branch'[t].real
        BY <1>1, <1>7, <3>4 DEF Fresh, Verdict, Set, TypeOK
      <4> QED
        BY <4>1, RunAssumption DEF NoBranch, RunAssumption
    <3>5. CASE Collide(r, t)
      BY <1>1, <1>7, <3>5 DEF Collide, Verdict, Set, TypeOK
    <3> QED
      BY <3>1, <3>2, <3>3, <3>4, <3>5 DEF Agent
  <2> QED
    BY <2>1, <2>2
<1> QED
  BY <1>4, <1>5, <1>6, <1>7 DEF Trunk

-----------------------------------------------------------------------------
(* What other runs, acks and pushes do to a run's own: nothing.              *)

(* The work of branches that are not reset stays what it is. *)
LEMMA WorkKept ==
    ASSUME Kept, NEW S \in SUBSET Tasks, \A t \in S : branch[t].real
    PROVE  work(S)' = work(S) /\ \A t \in S : branch'[t].real
<1>1. \A t \in S : branch[t] # NoBranch
  BY DEF NoBranch
<1> QED
  BY <1>1 DEF Kept, work

LEMMA BuiltStands ==
    ASSUME TypeOK, Trunk, Kept, NEW q \in Runs, Reported, Built(q),
           pin'[q] = pin[q], rep'[q].landed = rep[q].landed, rep'[q].final = rep[q].final
    PROVE  Built(q)'
<1> DEFINE L == rep[q].landed
<1>1. L \in SUBSET Tasks /\ \A t \in L : result[q][t] = "ok"
  BY DEF Reported, okTasks
<1>2. \A t \in L : branch[t] # NoBranch /\ branch'[t].fork = branch[t].fork
  BY <1>1 DEF Trunk, Kept
<1>3. (\A t \in L : branch[t].fork = pin[q]) => work(L)' = work(L)
  BY <1>1, WorkKept DEF Trunk
<1> QED
  BY <1>2, <1>3 DEF Built

LEMMA ToldStands ==
    ASSUME TypeOK, Trunk, Kept, NEW q \in Runs, Reported, Told(q),
           pc'[q] = pc[q], pin'[q] = pin[q], result'[q] = result[q], rep'[q] = rep[q],
           err'[q] = err[q], q \in filed' <=> q \in filed
    PROVE  Told(q)'
<1>1. rep[q].held \in SUBSET Tasks
  BY DEF TypeOK, Reports
<1>2. \A t \in rep'[q].held : branch'[t].real
  BY <1>1, WorkKept DEF Told
<1>3. pc'[q] \in {"verify", "repair", "red", "land"} => Built(q)'
  BY BuiltStands DEF Told
<1>4. okTasks(q)' = okTasks(q)
  BY DEF okTasks
<1>5. Split(q) => Split(q)'
  BY <1>4 DEF Split
<1> QED
  BY <1>2, <1>3, <1>5 DEF Told

(* A landing of another run, or of a park, is not a run's own. *)
LEMMA MineStands ==
    ASSUME TypeOK, NEW q \in Runs,
           \/ base' = base
           \/ \E x \in Steps : base' = Append(base, x) /\ (x \in Landings => x.run # q \/ x.kind # "run")
    PROVE  Mine(q)' = Mine(q)
<1>1. CASE base' = base
  BY <1>1 DEF Mine, OnBase
<1>2. ASSUME NEW x \in Steps, base' = Append(base, x), x \in Landings => x.run # q \/ x.kind # "run"
      PROVE  Mine(q)' = Mine(q)
  <2>1. OnBase' = OnBase \union ({x} \intersect Landings)
    BY <1>2, Appended DEF OnBase, TypeOK, Commits
  <2> QED
    BY <1>2, <2>1 DEF Mine
<1> QED
  BY <1>1, <1>2

LEMMA MatchStands ==
    ASSUME TypeOK, Kept, NEW q \in Runs, Match(q), Mine(q)' = Mine(q), landed(q)' = landed(q),
           rep'[q].landed = rep[q].landed
    PROVE  Match(q)'
<1>1. rep[q].landed \in SUBSET Tasks
  BY DEF TypeOK, Reports
<1>2. CASE Mine(q) = {}
  BY <1>2 DEF Match
<1>3. CASE Mine(q) # {}
  <2>1. \A t \in rep[q].landed : branch[t].real
    BY <1>3 DEF Match
  <2>2. work(rep[q].landed)' = work(rep[q].landed) /\ \A t \in rep[q].landed : branch'[t].real
    <3>1. work(rep[q].landed)' = {<<t, branch'[t].by>> : t \in rep[q].landed}
      BY DEF work
    <3>2. \A t \in rep[q].landed : branch'[t] = branch[t]
      BY <1>1, <2>1 DEF Kept, NoBranch
    <3> QED
      BY <2>1, <3>1, <3>2 DEF work
  <2> QED
    BY <1>3, <2>2 DEF Match
<1> QED
  BY <1>2, <1>3

LEMMA PlacedStands ==
    ASSUME TypeOK, Kept, NEW q \in Runs, Placed(q), Mine(q)' = Mine(q),
           pc'[q] = pc[q], pin'[q] = pin[q], rep'[q] = rep[q], err'[q] = err[q],
           q \in filed' <=> q \in filed
    PROVE  Placed(q)'
<1>1. landed(q)' = landed(q)
  BY DEF landed
<1>2. Match(q) => Match(q)'
  BY <1>1, MatchStands
<1> QED
  BY <1>2 DEF Placed

LEMMA RealKept == ASSUME Kept, NEW w, Real(w) PROVE Real(w)' /\ branch'[w[1]] = branch[w[1]]
  BY DEF Kept, Real, NoBranch

LEMMA OpenStands ==
    ASSUME Kept, green \subseteq green', NEW q \in Runs, Open(q), Same(q)
    PROVE  Open(q)'
<1>1. \A p : OwnPark(p) => OwnPark(p)'
  BY RealKept DEF OwnPark
<1> QED
  BY <1>1 DEF Open, Same

-----------------------------------------------------------------------------
(* A run's own steps: its report.                                            *)

LEMMA ToldLater ==
    ASSUME TypeOK, Kept, NEW r \in Runs, Told(r), rep'[r] = rep[r],
           pc'[r] \notin {"verify", "repair", "red", "land"},
           (pc'[r] \notin {"idle", "agents", "dead"} \/ r \in filed') /\ err'[r] = "none" =>
               Split(r) /\ result'[r] = result[r]
    PROVE  Told(r)'
<1>1. rep[r].held \in SUBSET Tasks
  BY DEF TypeOK, Reports
<1>2. \A t \in rep'[r].held : branch'[t].real
  BY <1>1, WorkKept DEF Told
<1>3. Split(r) /\ result'[r] = result[r] => Split(r)'
  BY DEF Split, okTasks
<1> QED
  BY <1>2, <1>3 DEF Told

(* A candidate carries the branches it is made of. *)
LEMMA CandidateCarries ==
    ASSUME TypeOK, Owned, NEW r \in Runs, NEW S \in SUBSET okTasks(r), NEW n \in 0..RepairMax
    PROVE  \/ candidate(r, S, n) = pin[r]
           \/ \E l \in Landings : /\ candidate(r, S, n) = Append(pin[r], l)
                                  /\ l.run = r /\ l.kind = "run" /\ l.work = work(S)
<1> DEFINE l == [run |-> r, kind |-> "run", work |-> work(S), fix |-> n, reverts |-> FALSE]
<1>1. l \in Landings
  BY WorkTyped DEF Landings
<1> QED
  BY <1>1 DEF candidate

(* A report made, or remade, of some branches that were not stale. *)
LEMMA BuiltAgain ==
    ASSUME TypeOK, Owned, NEW r \in Runs, NEW S \in SUBSET okTasks(r), NEW n \in 0..RepairMax,
           \A t \in S : Descends(branch[t].fork, pin[r]), UNCHANGED <<branch, pin>>,
           rep'[r].landed = S, rep'[r].final = candidate(r, S, n)
    PROVE  Built(r)'
<1>1. work(S)' = work(S)
  BY DEF work
<1> QED
  BY <1>1, CandidateCarries DEF Built

LEMMA IntegrateTold == ASSUME IInv, JInv, NEW r \in Runs, Integrate(r), Kept PROVE Told(r)'
<1> USE DEF Goto, Set, Abort, Report, shared, disk, memory
<1>0. TypeOK /\ Told(r) /\ Owned /\ 0 \in 0..RepairMax
  BY RunAssumption DEF IInv, JInv, RunAssumption
<1>1. CASE Goto(r, "file") /\ err' = [err EXCEPT ![r] = "other"] /\ UNCHANGED rep
  <2>1. pc'[r] = "file" /\ err'[r] = "other" /\ rep'[r] = rep[r]
    BY <1>0, <1>1 DEF TypeOK
  <2> QED
    BY <1>0, <2>1, ToldLater
<1>2. ASSUME NEW F \in SUBSET clearOf(r), \A t \in clearOf(r) : ~Stale(t, r),
             Report(r, [NoReport EXCEPT !.landed = clearOf(r) \ F, !.flagged = F,
                                        !.held = heldOf(r),
                                        !.final = candidate(r, clearOf(r) \ F, 0)]),
             Goto(r, "verify"), UNCHANGED err
      PROVE  Told(r)'
  <2> DEFINE S == clearOf(r) \ F
             R == [NoReport EXCEPT !.landed = S, !.flagged = F, !.held = heldOf(r),
                                   !.final = candidate(r, S, 0)]
  <2>1. /\ R.landed = S /\ R.flagged = F /\ R.held = heldOf(r) /\ R.dropped = {}
        /\ R.final = candidate(r, S, 0)
    BY DEF NoReport
  <2>2. rep'[r] = R /\ pc'[r] = "verify" /\ UNCHANGED <<branch, pin, result>>
    BY <1>0, <1>2 DEF TypeOK, Integrate
  <2> HIDE DEF R
  <2>3. S \in SUBSET okTasks(r) /\ \A t \in S : Descends(branch[t].fork, pin[r])
    BY <1>2 DEF clearOf, Stale
  <2>4. Built(r)'
    BY <1>0, <2>1, <2>2, <2>3, BuiltAgain
  <2>5. \A t \in heldOf(r) : branch[t].real
    BY DEF heldOf, Merged
  <2>6. Split(r)'
    <3>1. okTasks(r)' = okTasks(r)
      BY <2>2 DEF okTasks
    <3>2. okTasks(r) = clearOf(r) \union heldOf(r) /\ clearOf(r) \intersect heldOf(r) = {}
      BY DEF clearOf, heldOf
    <3> QED
      BY <1>2, <2>1, <2>2, <3>1, <3>2 DEF Split
  <2> QED
    BY <2>1, <2>2, <2>4, <2>5, <2>6 DEF Told
<1> QED
  BY <1>1, <1>2 DEF Integrate, Conflicts

LEMMA VerifyTold == ASSUME IInv, JInv, NEW r \in Runs, Verify(r), Kept PROVE Told(r)'
<1> USE DEF Goto, Set, Abort, Report, shared, disk, memory
<1>0. TypeOK /\ Told(r) /\ Owned /\ rep[r] \in Reports
  BY DEF IInv, JInv, TypeOK
<1>1. PICK v \in {"green", "red"} :
        /\ rep' = [rep EXCEPT ![r] = [rep[r] EXCEPT !.verify = v]]
        /\ pc' = [pc EXCEPT ![r] = IF v = "green" THEN "land"
                                    ELSE IF fix[r] < RepairMax THEN "repair" ELSE "red"]
  BY DEF Verify
<1>2. UNCHANGED <<branch, pin, result, err, filed>> /\ pc[r] = "verify"
  BY DEF Verify
<1>3. /\ rep'[r].landed = rep[r].landed /\ rep'[r].flagged = rep[r].flagged
      /\ rep'[r].held = rep[r].held /\ rep'[r].dropped = rep[r].dropped
      /\ rep'[r].final = rep[r].final /\ rep'[r].verify = v
      /\ pc'[r] = IF v = "green" THEN "land" ELSE IF fix[r] < RepairMax THEN "repair" ELSE "red"
  BY <1>0, <1>1 DEF TypeOK, Reports
<1>4. Built(r)'
  BY <1>0, <1>2, <1>3, BuiltStands DEF Told, IInv, JInv
<1>5. Split(r) => Split(r)'
  BY <1>2, <1>3 DEF Split, okTasks
<1> QED
  BY <1>0, <1>2, <1>3, <1>4, <1>5 DEF Told

LEMMA RepairTold == ASSUME IInv, JInv, NEW r \in Runs, Repair(r), Kept PROVE Told(r)'
<1> USE DEF Goto, Set, Abort, Report, shared, disk, memory
<1>0. /\ TypeOK /\ Told(r) /\ Owned /\ rep[r] \in Reports /\ pc[r] = "repair"
      /\ UNCHANGED <<branch, pin, result, err, filed>> /\ fix[r] + 1 \in 0..RepairMax
  BY RunAssumption DEF IInv, JInv, TypeOK, Repair, Control, Rounds, RunAssumption
<1>1. CASE Goto(r, "red") /\ UNCHANGED <<fix, rep>>
  <2>1. pc'[r] = "red" /\ rep'[r] = rep[r]
    BY <1>0, <1>1 DEF TypeOK
  <2>2. Built(r)'
    BY <1>0, <2>1, BuiltStands DEF Told, IInv, JInv
  <2>3. Split(r) => Split(r)'
    BY <1>0, <2>1 DEF Split, okTasks
  <2> QED
    BY <1>0, <2>1, <2>2, <2>3 DEF Told
<1>2. CASE /\ Goto(r, "verify")
           /\ Report(r, [rep[r] EXCEPT !.final = candidate(r, rep[r].landed, fix[r] + 1)])
  <2>1. /\ rep'[r].landed = rep[r].landed /\ rep'[r].flagged = rep[r].flagged
        /\ rep'[r].held = rep[r].held /\ rep'[r].dropped = rep[r].dropped
        /\ rep'[r].final = candidate(r, rep[r].landed, fix[r] + 1) /\ pc'[r] = "verify"
    BY <1>0, <1>2 DEF TypeOK, Reports
  <2>2. rep[r].landed \in SUBSET okTasks(r) /\ \A t \in rep[r].landed : Descends(branch[t].fork, pin[r])
    BY <1>0 DEF Told, Built, IInv, Reported
  <2>3. Built(r)'
    BY <1>0, <2>1, <2>2, BuiltAgain
  <2>4. Split(r) => Split(r)'
    BY <1>0, <2>1 DEF Split, okTasks
  <2> QED
    BY <1>0, <2>1, <2>3, <2>4 DEF Told
<1> QED
  BY <1>1, <1>2 DEF Repair

LEMMA RedTold == ASSUME IInv, JInv, NEW r \in Runs, GiveUp(r) \/ Bisect(r), Kept PROVE Told(r)'
<1> USE DEF Goto, Set, Abort, Report, shared, disk, memory
<1>0. /\ TypeOK /\ Told(r) /\ Owned /\ rep[r] \in Reports /\ pc[r] = "red" /\ 0 \in 0..RepairMax
      /\ UNCHANGED <<branch, pin, result, err, filed>> /\ rep[r].dropped = {}
  <2>1. TypeOK /\ Told(r) /\ Owned /\ rep[r] \in Reports /\ 0 \in 0..RepairMax
    BY RunAssumption DEF IInv, JInv, TypeOK
  <2>2. pc[r] = "red" /\ UNCHANGED <<branch, pin, result, err, filed>>
    BY DEF GiveUp, Bisect
  <2> QED
    BY <2>1, <2>2 DEF Told
<1>1. CASE GiveUp(r)
  <2>1. pc'[r] = "file"
    BY <1>0, <1>1 DEF TypeOK, GiveUp
  <2>2. CASE UNCHANGED rep
    BY <1>0, <2>1, <2>2, ToldLater DEF Told
  <2>3. CASE Report(r, [rep[r] EXCEPT !.landed = {}, !.dropped = rep[r].landed])
    <3>1. /\ rep'[r].landed = {} /\ rep'[r].flagged = rep[r].flagged
          /\ rep'[r].held = rep[r].held /\ rep'[r].dropped = rep[r].landed
      BY <1>0, <2>3 DEF TypeOK, Reports
    <3>2. Split(r) => Split(r)'
      BY <1>0, <3>1 DEF Split, okTasks
    <3> QED
      BY <1>0, <2>1, <3>1, <3>2 DEF Told
  <2> QED
    BY <1>1, <2>2, <2>3 DEF GiveUp
<1>2. CASE Bisect(r)
  <2>1. PICK good \in SUBSET rep[r].landed :
          Report(r, [rep[r] EXCEPT !.landed = good, !.dropped = rep[r].landed \ good,
                                   !.final = candidate(r, good, 0), !.verify = "green"])
    BY <1>2 DEF Bisect
  <2>2. /\ rep'[r].landed = good /\ rep'[r].flagged = rep[r].flagged
        /\ rep'[r].held = rep[r].held /\ rep'[r].dropped = rep[r].landed \ good
        /\ rep'[r].final = candidate(r, good, 0) /\ rep'[r].verify = "green" /\ pc'[r] = "land"
    BY <1>0, <1>2, <2>1 DEF TypeOK, Reports, Bisect
  <2>3. good \in SUBSET okTasks(r) /\ \A t \in good : Descends(branch[t].fork, pin[r])
    BY <1>0 DEF Told, Built, IInv, Reported
  <2>4. Built(r)'
    BY <1>0, <2>2, <2>3, BuiltAgain
  <2>5. Split(r) => Split(r)'
    BY <1>0, <2>2 DEF Split, okTasks
  <2> QED
    BY <1>0, <2>2, <2>4, <2>5 DEF Told
<1> QED
  BY <1>1, <1>2

(* The report is true to the agents' verdicts and to the candidate. *)
LEMMA ToldStep == ASSUME IInv, JInv, Next, NEW r \in Runs PROVE Told(r)'
<1> USE DEF Goto, Set, Abort, Report, shared, disk, memory
<1>0. TypeOK /\ Trunk /\ Kept /\ Reported /\ Told(r) /\ Placed(r)
  BY BranchesKept DEF IInv, JInv
<1>1. ASSUME NEW q \in Runs, q # r,
             \/ RunStep(q) \/ Signal(q) \/ Kill(q) \/ Recover(q) \/ Reverify(q) \/ Ack(q) \/ Reject(q)
      PROVE  Told(r)'
  BY <1>0, <1>1, OthersSame, ToldStands DEF Same
<1>2. CASE ForeignLand
  BY <1>0, <1>2, ToldStands DEF ForeignLand
<1>3. CASE Signal(r) \/ Recover(r) \/ Reverify(r) \/ Ack(r) \/ Reject(r)
  BY <1>0, <1>3, ToldStands DEF Signal, Recover, Reverify, Ack, Reject
<1>4. CASE Kill(r)
  <2>1. pc'[r] = "dead" /\ UNCHANGED <<rep, result, err, filed>>
    BY <1>0, <1>4 DEF TypeOK, Kill
  <2> QED
    BY <1>0, <2>1, ToldLater DEF Told
<1>5. CASE Begin(r)
  <2>1. /\ pc'[r] \in {"agents", "label"} /\ (pc'[r] = "label" => err'[r] = "other")
        /\ UNCHANGED <<rep, filed>> /\ pc[r] = "idle"
    BY <1>0, <1>5 DEF TypeOK, Begin
  <2> QED
    BY <1>0, <2>1, ToldLater DEF Placed
<1>6. ASSUME NEW t \in Tasks, Agent(r, t) PROVE Told(r)'
  <2>1. pc[r] = "agents" /\ UNCHANGED <<pc, rep, filed>>
    BY <1>6 DEF Agent
  <2> QED
    BY <1>0, <2>1, ToldLater DEF Placed
<1>7. CASE Integrate(r) \/ Verify(r) \/ Repair(r) \/ GiveUp(r) \/ Bisect(r)
  BY <1>0, <1>7, IntegrateTold, VerifyTold, RepairTold, RedTold
<1>8. CASE Land(r) \/ ParkHeld(r) \/ Note(r) \/ Publish(r)
  <2>1. /\ pc[r] \in {"land", "park", "note", "publish"} /\ pc'[r] \in {"park", "note", "publish", "file"}
        /\ UNCHANGED <<rep, result, filed>> /\ (err'[r] = "none" => err[r] = "none")
    BY <1>0, <1>8 DEF TypeOK, Land, ParkHeld, Note, Publish
  <2> QED
    BY <1>0, <2>1, ToldLater DEF Told
<1>9. CASE Epilogue(r)
  <2>1. /\ pc[r] \in {"file", "usage", "finish", "mark", "label"}
        /\ pc'[r] \in {"usage", "finish", "mark", "label", "end"}
        /\ UNCHANGED <<rep, result, err>>
    BY <1>0, <1>9 DEF TypeOK, Epilogue, File, recordRunUsage, Finish, Mark, Label
  <2> QED
    BY <1>0, <2>1, ToldLater DEF Told
<1> QED
  BY <1>1, <1>2, <1>3, <1>4, <1>5, <1>6, <1>7, <1>8, <1>9 DEF Next, RunStep, Pipeline

-----------------------------------------------------------------------------
(* A run's own steps: what it puts on the base.                              *)

(* A run that swaps the base swaps it for the branches its report lists, all *)
(* of them forked from the head it replaces.                                 *)
LEMMA LandsItsReport ==
    ASSUME IInv, JInv, NEW r \in Runs, Land(r), base' # base
    PROVE  /\ UNCHANGED <<branch, rep, pin>> /\ base = pin[r] /\ rep[r].verify = "green"
           /\ \A t \in rep[r].landed : branch[t].real /\ branch[t].fork = base
           /\ \E l \in Landings : /\ base' = Append(base, l) /\ rep[r].final = Append(base, l)
                                  /\ l.run = r /\ l.kind = "run" /\ l.work = work(rep[r].landed)
<1>1. /\ pc[r] = "land" /\ base = pin[r] /\ base' = rep[r].final /\ base \in Commits
      /\ UNCHANGED <<branch, rep, pin>>
  BY DEF Land, Abort, IInv, TypeOK
<1>2. Built(r) /\ rep[r].verify = "green" /\ Trunk
  BY <1>1 DEF JInv, Told
<1>3. ASSUME NEW t \in rep[r].landed PROVE branch[t].real /\ branch[t].fork = base
  <2>1. t \in Tasks /\ result[r][t] = "ok"
    BY DEF IInv, Reported, okTasks
  <2>2. branch[t].fork \in Commits
    BY <2>1 DEF IInv, TypeOK, Branches
  <2>3. branch[t].fork = base
    BY <1>1, <1>2, <2>1, <2>2, DescendsBoth DEF Built, Trunk
  <2> QED
    BY <1>1, <1>2, <2>1, <2>3 DEF Trunk
<1> QED
  BY <1>1, <1>2, <1>3 DEF Built

(* Nobody else lands in a run's name. *)
LEMMA NotMine == ASSUME IInv, JInv, Next, NEW r \in Runs, ~Land(r) \/ base' = base
                 PROVE  Mine(r)' = Mine(r)
<1>0. TypeOK /\ Landings \subseteq Steps
  BY DEF IInv, Steps
<1>1. CASE base' = base
  BY <1>0, <1>1, MineStands
<1>2. ASSUME NEW q \in Runs, q # r, Land(q), base' # base PROVE Mine(r)' = Mine(r)
  BY <1>0, <1>2, LandsItsReport, MineStands
<1>3. ASSUME NEW q \in Runs, Ack(q) PROVE Mine(r)' = Mine(r)
  <2>1. base' = Append(base, parked(q)) /\ ~park[q].resolved /\ parked(q) \in Landings
    BY <1>3, LastOfPark DEF Ack, Resolve, IInv
  <2>2. parked(q).kind = "park"
    BY <2>1 DEF JInv, Open, OwnPark, parked
  <2> QED
    BY <1>0, <2>1, <2>2, MineStands
<1>4. CASE ForeignLand
  <2>1. base' = Append(base, Foreign) /\ Foreign \in Steps /\ Foreign \notin Landings
    BY <1>4, RunAssumption DEF ForeignLand, Steps, RunAssumption
  <2> QED
    BY <1>0, <2>1, MineStands
<1> QED
  BY <1>1, <1>2, <1>3, <1>4, BaseFrame

LEMMA PlacedLater ==
    ASSUME TypeOK, Kept, NEW r \in Runs, rep'[r] = rep[r], pin'[r] = pin[r], Mine(r)' = Mine(r),
           pc'[r] \notin {"idle", "agents", "verify", "repair", "red", "land"},
           \/ pc'[r] \in {"park", "note", "publish"}
           \/ (pc'[r] = "file" \/ r \in filed') /\ err'[r] = "none"
           => Match(r)
    PROVE  Placed(r)'
<1>1. landed(r)' = landed(r)
  BY DEF landed
<1>2. Match(r) => Match(r)'
  BY <1>1, MatchStands
<1> QED
  BY <1>2 DEF Placed

LEMMA PlacedEarly ==
    ASSUME NEW r \in Runs, Placed(r), Mine(r)' = Mine(r),
           pc[r] \in {"idle", "agents", "verify", "repair", "red", "land"}, filed' = filed,
           \/ pc'[r] \in {"agents", "verify", "repair", "red", "land", "label", "dead"}
           \/ pc'[r] = "file" /\ err'[r] # "none"
    PROVE  Placed(r)'
BY DEF Placed

LEMMA LandPlaced == ASSUME IInv, JInv, NEW r \in Runs, Land(r), Next PROVE Placed(r)'
<1> USE DEF Goto, Set, Abort, Report, shared, disk, memory
<1>0. /\ TypeOK /\ Placed(r) /\ pc[r] = "land" /\ UNCHANGED <<rep, pin, filed, branch>> /\ Kept
      /\ Mine(r) = {} /\ r \notin filed
  BY BranchesKept DEF IInv, JInv, Land, Placed
<1>1. CASE base' = base
  <2>1. Mine(r)' = Mine(r)
    BY <1>1, NotMine
  <2>2. CASE rep[r].final = pin[r] /\ Goto(r, "park")
    <3>1. Match(r)
      BY <1>0, <2>2 DEF Match, landed
    <3>2. pc'[r] = "park"
      BY <1>0, <2>2 DEF TypeOK
    <3> QED
      BY <1>0, <2>1, <3>1, <3>2, PlacedLater
  <2>3. CASE rep[r].final # pin[r]
    <3>1. base = pin[r] => base' # rep[r].final
      BY <1>1, <2>3
    <3>2. pc'[r] = "file" /\ err'[r] # "none"
      BY <1>0, <2>3, <3>1 DEF TypeOK, Land
    <3> QED
      BY <1>0, <2>1, <3>2, PlacedEarly
  <2> QED
    BY <2>2, <2>3 DEF Land
<1>2. CASE base' # base
  <2>1. PICK l \in Landings : /\ base' = Append(base, l) /\ rep[r].final = Append(base, l)
                              /\ l.run = r /\ l.kind = "run" /\ l.work = work(rep[r].landed)
    BY <1>2, LandsItsReport
  <2>2. /\ base = pin[r] /\ rep[r].verify = "green" /\ base \in Commits /\ l \in Steps
        /\ \A t \in rep[r].landed : branch[t].real
    BY <1>0, <1>2, LandsItsReport DEF TypeOK, Steps
  <2>3. Mine(r)' = {l}
    <3>1. OnBase' = OnBase \union {l}
      BY <2>1, <2>2, Appended DEF OnBase, Commits
    <3> QED
      BY <1>0, <2>1, <3>1 DEF Mine
  <2>4. landed(r)'
    BY <1>0, <2>1, <2>2, Appended DEF landed
  <2>5. work(rep[r].landed)' = work(rep[r].landed)
    BY <1>0 DEF work
  <2>6. Match(r)'
    BY <1>0, <2>1, <2>2, <2>3, <2>4, <2>5 DEF Match
  <2>7. pc'[r] \in {"park", "file"}
    BY <1>0 DEF TypeOK, Land
  <2> QED
    BY <1>0, <2>6, <2>7 DEF Placed
<1> QED
  BY <1>1, <1>2

(* The base has what a run reports to have landed, and nothing else of it. *)
LEMMA PlacedStep == ASSUME IInv, JInv, Next, NEW r \in Runs PROVE Placed(r)'
<1> USE DEF Goto, Set, Abort, Report, shared, disk, memory
<1>0. TypeOK /\ Kept /\ Told(r) /\ Placed(r) /\ (~Land(r) => Mine(r)' = Mine(r))
  BY BranchesKept, NotMine DEF IInv, JInv
<1>1. ASSUME NEW q \in Runs, q # r, ~Land(r),
             \/ RunStep(q) \/ Signal(q) \/ Kill(q) \/ Recover(q) \/ Reverify(q) \/ Ack(q) \/ Reject(q)
      PROVE  Placed(r)'
  BY <1>0, <1>1, OthersSame, PlacedStands DEF Same
<1>2. CASE ForeignLand /\ ~Land(r)
  BY <1>0, <1>2, PlacedStands DEF ForeignLand
<1>3. CASE (Signal(r) \/ Recover(r) \/ Reverify(r) \/ Ack(r) \/ Reject(r)) /\ ~Land(r)
  BY <1>0, <1>3, PlacedStands DEF Signal, Recover, Reverify, Ack, Reject
<1>4. CASE Kill(r) /\ ~Land(r)
  <2>1. pc'[r] = "dead" /\ UNCHANGED <<rep, pin, err, filed>>
    BY <1>0, <1>4 DEF TypeOK, Kill
  <2> QED
    BY <1>0, <1>4, <2>1, PlacedLater DEF Placed
<1>5. CASE Begin(r) /\ ~Land(r)
  <2>1. pc'[r] \in {"agents", "label"} /\ UNCHANGED filed /\ pc[r] = "idle"
    BY <1>0, <1>5 DEF TypeOK, Begin
  <2> QED
    BY <1>0, <1>5, <2>1, PlacedEarly
<1>6. ASSUME NEW t \in Tasks, Agent(r, t), ~Land(r) PROVE Placed(r)'
  <2>1. pc[r] = "agents" /\ UNCHANGED <<pc, filed>>
    BY <1>6 DEF Agent
  <2> QED
    BY <1>0, <1>6, <2>1, PlacedEarly
<1>7. CASE (Integrate(r) \/ Verify(r) \/ Repair(r) \/ Bisect(r)) /\ ~Land(r)
  <2>1. /\ pc[r] \in {"agents", "verify", "repair", "red"} /\ UNCHANGED filed
        /\ \/ pc'[r] \in {"verify", "repair", "red", "land"}
           \/ pc'[r] = "file" /\ err'[r] # "none"
    BY <1>0, <1>7 DEF TypeOK, Integrate, Verify, Repair, Bisect
  <2> QED
    BY <1>0, <1>7, <2>1, PlacedEarly
<1>8. CASE GiveUp(r) /\ ~Land(r)
  <2>1. /\ pc[r] = "red" /\ pc'[r] = "file" /\ UNCHANGED <<filed, pin>> /\ rep[r].verify = "red"
        /\ rep'[r].verify = rep[r].verify
    <3>1. pc[r] = "red" /\ pc'[r] = "file" /\ UNCHANGED <<filed, pin>>
      BY <1>0, <1>8 DEF TypeOK, GiveUp
    <3>2. rep[r].verify = "red" /\ rep[r] \in Reports
      BY <1>0, <3>1 DEF TypeOK, Told
    <3>3. CASE UNCHANGED rep
      BY <3>1, <3>2, <3>3
    <3>4. CASE Report(r, [rep[r] EXCEPT !.landed = {}, !.dropped = rep[r].landed])
      <4>1. rep'[r] = [rep[r] EXCEPT !.landed = {}, !.dropped = rep[r].landed]
        BY <1>0, <3>4 DEF TypeOK
      <4>2. rep'[r].verify = rep[r].verify
        BY <3>2, <4>1 DEF Reports
      <4> QED
        BY <3>1, <3>2, <4>2
    <3> QED
      BY <1>8, <3>3, <3>4 DEF GiveUp
  <2>2. Mine(r)' = {}
    BY <1>0, <1>8, <2>1 DEF Placed
  <2>3. Match(r)'
    BY <2>1, <2>2 DEF Match, landed
  <2> QED
    BY <2>1, <2>3 DEF Placed
<1>9. CASE Land(r)
  BY <1>9, LandPlaced
<1>10. CASE (ParkHeld(r) \/ Note(r) \/ Publish(r)) /\ ~Land(r)
  <2>1. /\ pc[r] \in {"park", "note", "publish"} /\ pc'[r] \in {"note", "publish", "file"}
        /\ UNCHANGED <<rep, pin, err, filed>>
    BY <1>0, <1>10 DEF TypeOK, ParkHeld, Note, Publish
  <2> QED
    BY <1>0, <1>10, <2>1, PlacedLater DEF Placed
<1>11. CASE Epilogue(r) /\ ~Land(r)
  <2>1. /\ pc'[r] \in {"usage", "finish", "mark", "label", "end"}
        /\ UNCHANGED <<rep, pin, err>> /\ (r \in filed' => pc[r] = "file" \/ r \in filed)
    BY <1>0, <1>11 DEF TypeOK, Epilogue, File, recordRunUsage, Finish, Mark, Label
  <2> QED
    BY <1>0, <1>11, <2>1, PlacedLater DEF Placed
<1> QED
  BY <1>1, <1>2, <1>3, <1>4, <1>5, <1>6, <1>7, <1>8, <1>9, <1>10, <1>11 DEF Next, RunStep, Pipeline

-----------------------------------------------------------------------------
(* What is on the base.                                                      *)

(* A landing, if it carries work, carries that of branches below it. *)
LEMMA NewestLanding ==
    ASSUME IInv, JInv, Next, base' # base
    PROVE  \E x \in Steps :
             /\ base' = Append(base, x)
             /\ x \in Landings =>
                  /\ \A w \in x.work : Real(w) /\ Len(branch[w[1]].fork) <= Len(base)
                  /\ x.kind = "run" => \A w \in x.work : branch[w[1]].fork = base
<1>0. TypeOK /\ Trunk /\ Landings \subseteq Steps /\ Len(base) \in Nat
  BY DEF IInv, JInv, Steps, TypeOK, Commits
<1>1. ASSUME NEW r \in Runs, Land(r) PROVE \E l \in Landings :
             /\ base' = Append(base, l)
             /\ \A w \in l.work : Real(w) /\ branch[w[1]].fork = base
  <2>1. PICK l \in Landings : base' = Append(base, l) /\ l.work = work(rep[r].landed)
    BY <1>1, LandsItsReport
  <2>2. \A t \in rep[r].landed : t \in Tasks /\ branch[t].real /\ branch[t].fork = base
    BY <1>0, <1>1, LandsItsReport DEF TypeOK, Reports
  <2>3. \A w \in work(rep[r].landed) : \E t \in rep[r].landed : w = <<t, branch[t].by>>
    BY DEF work
  <2> QED
    BY <2>1, <2>2, <2>3 DEF Real
<1>2. ASSUME NEW r \in Runs, Ack(r) PROVE \E l \in Landings :
             /\ base' = Append(base, l) /\ l.kind = "park"
             /\ \A w \in l.work : Real(w) /\ Len(branch[w[1]].fork) <= Len(base)
  <2>1. base' = Append(base, parked(r)) /\ ~park[r].resolved /\ parked(r) \in Landings
    BY <1>2, LastOfPark DEF Ack, Resolve, IInv
  <2>2. parked(r).kind = "park" /\ \A w \in parked(r).work : Real(w)
    BY <2>1 DEF JInv, Open, OwnPark, parked
  <2>3. \A t \in Tasks : Len(branch[t].fork) <= Len(base)
    BY <1>0 DEF Trunk, Descends
  <2> QED
    BY <2>1, <2>2, <2>3 DEF Real
<1>3. ASSUME ForeignLand PROVE base' = Append(base, Foreign) /\ Foreign \in Steps /\ Foreign \notin Landings
  BY <1>3, RunAssumption DEF ForeignLand, Steps
<1> QED
  BY <1>0, <1>1, <1>2, <1>3, BaseFrame

LEMMA LandedWorkStep == ASSUME IInv, JInv, Next PROVE LandedWork'
<1>0. Kept /\ LandedWork /\ base \in Commits
  BY BranchesKept DEF IInv, TypeOK, JInv
<1>1. CASE base' = base
  BY <1>0, <1>1, RealKept DEF LandedWork
<1>2. CASE base' # base
  <2>1. PICK x \in Steps :
             /\ base' = Append(base, x)
             /\ x \in Landings => \A w \in x.work : Real(w) /\ Len(branch[w[1]].fork) <= Len(base)
    BY <1>2, NewestLanding
  <2>2. /\ Len(base) \in Nat /\ Len(base') = Len(base) + 1 /\ base'[Len(base) + 1] = x
        /\ \A i \in 1..Len(base) : base'[i] = base[i]
    BY <1>0, <2>1, Appended DEF Commits
  <2>3. ASSUME NEW i \in 1..Len(base'), base'[i] \in Landings, NEW w \in base'[i].work
        PROVE  Real(w)' /\ Len(branch'[w[1]].fork) < i
    <3>1. CASE i \in 1..Len(base)
      BY <1>0, <2>2, <2>3, <3>1, RealKept DEF LandedWork
    <3>2. CASE i \notin 1..Len(base)
      <4>1. i = Len(base) + 1
        BY <2>2, <3>2
      <4>2. Real(w) /\ Len(branch[w[1]].fork) <= Len(base)
        BY <2>1, <2>2, <2>3, <4>1
      <4>3. w[1] \in Tasks /\ branch[w[1]].fork \in Commits
        BY <4>2 DEF Real, IInv, TypeOK, Branches
      <4> QED
        BY <1>0, <2>2, <4>1, <4>2, <4>3, RealKept DEF Commits
    <3> QED
      BY <3>1, <3>2
  <2> QED
    BY <2>3 DEF LandedWork
<1> QED
  BY <1>1, <1>2

(* A run that lands work forked it from the very head it lands on, where no  *)
(* landing can carry it yet.                                                 *)
LEMMA OnceStep == ASSUME IInv, JInv, Next PROVE WorkLandsOnce'
<1>0. WorkLandsOnce /\ LandedWork /\ base \in Commits
  BY DEF IInv, TypeOK, JInv
<1>1. CASE base' = base
  BY <1>0, <1>1 DEF WorkLandsOnce, Positions
<1>2. CASE base' # base
  <2>1. PICK x \in Steps :
             /\ base' = Append(base, x)
             /\ x \in Landings /\ x.kind = "run" => \A w \in x.work : branch[w[1]].fork = base
    BY <1>2, NewestLanding
  <2>2. /\ Len(base) \in Nat /\ Len(base') = Len(base) + 1 /\ base'[Len(base) + 1] = x
        /\ \A i \in 1..Len(base) : base'[i] = base[i]
    BY <1>0, <2>1, Appended DEF Commits
  <2>3. ASSUME NEW q \in Runs, NEW t \in Tasks, NEW i \in Positions(<<t, q>>)',
               NEW j \in Positions(<<t, q>>)', i < j, base'[j].kind = "run"
        PROVE  FALSE
    <3>1. /\ i \in 1..Len(base') /\ j \in 1..Len(base') /\ base'[i] \in Landings
          /\ base'[j] \in Landings /\ <<t, q>> \in base'[i].work /\ <<t, q>> \in base'[j].work
      BY DEF Positions
    <3>2. i \in 1..Len(base) /\ base[i] = base'[i] /\ i \in Positions(<<t, q>>)
      BY <2>2, <2>3, <3>1 DEF Positions
    <3>3. CASE j \in 1..Len(base)
      BY <1>0, <2>2, <2>3, <3>1, <3>2, <3>3 DEF WorkLandsOnce, Positions
    <3>4. CASE j \notin 1..Len(base)
      <4>1. j = Len(base) + 1 /\ base'[j] = x
        BY <2>2, <3>1, <3>4
      <4>2. branch[t].fork = base
        BY <2>1, <2>3, <3>1, <4>1
      <4>3. Len(branch[t].fork) < i
        BY <1>0, <3>1, <3>2 DEF LandedWork
      <4> QED
        BY <2>2, <3>2, <4>2, <4>3
    <3> QED
      BY <3>3, <3>4
  <2> QED
    BY <2>3 DEF WorkLandsOnce
<1> QED
  BY <1>1, <1>2

-----------------------------------------------------------------------------
(* A run's own steps: its park.                                              *)

LEMMA OpenLater ==
    ASSUME Kept, green \subseteq green', NEW r \in Runs, Open(r),
           pk'[r] = pk[r], park'[r] = park[r], keep'[r] = keep[r],
           pc'[r] \notin {"mark", "label", "end", "dead"} =>
               /\ pc[r] \notin {"mark", "label", "end", "dead"}
               /\ status'[r] = status[r] \/ status'[r] = "running",
           ~park[r].resolved => status'[r] \notin {"done", "rejected"}
    PROVE  Open(r)'
<1>1. \A p : OwnPark(p) => OwnPark(p)'
  BY RealKept DEF OwnPark
<1> QED
  BY <1>1 DEF Open

LEMMA ParkHeldOpen == ASSUME IInv, JInv, NEW r \in Runs, ParkHeld(r), Next PROVE Open(r)'
<1> USE DEF Goto, Set, Abort, Report, shared, disk, memory
<1>0. /\ TypeOK /\ Kept /\ green \subseteq green' /\ Open(r) /\ pc[r] = "park" /\ pc'[r] = "note"
      /\ UNCHANGED <<branch, park, status>>
  BY BranchesKept, GreenGrows DEF IInv, JInv, TypeOK, ParkHeld
<1>1. CASE UNCHANGED <<keep, pk>>
  BY <1>0, <1>1, OpenLater DEF Open
<1>2. CASE ~UNCHANGED <<keep, pk>>
  <2> DEFINE l == [run |-> r, kind |-> "park", work |-> work(rep[r].held), fix |-> 0,
                   reverts |-> \E t \in rep[r].held : Stale(t, r)]
             c == Append(rep[r].final, l)
  <2>1. /\ green' = green \union {c} /\ keep' = [keep EXCEPT ![r] = c]
        /\ pk' = [pk EXCEPT ![r] = [verifiedSHA |-> c, baseSHA |-> rep[r].final, resolved |-> FALSE]]
    BY <1>2 DEF ParkHeld
  <2>2. l \in Steps /\ rep[r].final \in Commits
    <3>1. (\E t \in rep[r].held : Stale(t, r)) \in BOOLEAN
      OBVIOUS
    <3> QED
      BY <3>1, ParkTyped DEF IInv, Steps, TypeOK, Reports
  <2>3. l.kind = "park" /\ \A w \in l.work : Real(w)
    <3>1. \A t \in rep[r].held : t \in Tasks /\ branch[t].real
      BY <1>0 DEF JInv, Told, TypeOK, Reports
    <3> QED
      BY <3>1 DEF work, Real
  <2> HIDE DEF l
  <2>4. c[Len(c)] = l
    BY <2>2, Appended
  <2> HIDE DEF c
  <2>5. /\ pk'[r].verifiedSHA = c /\ ~pk'[r].resolved /\ keep'[r] = c /\ c \in green'
    BY <1>0, <2>1 DEF TypeOK
  <2>6. OwnPark(pk[r])'
    BY <1>0, <2>3, <2>4, <2>5, RealKept DEF OwnPark
  <2>7. OwnPark(park[r])'
    BY <1>0 DEF Open, OwnPark, NoPark
  <2> QED
    BY <1>0, <2>5, <2>6, <2>7 DEF Open, NoPark
<1> QED
  BY <1>1, <1>2

LEMMA FinishOpen == ASSUME IInv, JInv, NEW r \in Runs, Finish(r), Next PROVE Open(r)'
<1> USE DEF Goto, Set, Abort, Report, shared, disk, memory
<1>0. /\ TypeOK /\ Kept /\ green \subseteq green' /\ Open(r) /\ pc[r] = "finish"
      /\ UNCHANGED <<branch, pk, keep>>
  BY BranchesKept, GreenGrows DEF IInv, JInv, TypeOK, Finish
<1>1. CASE park' = [park EXCEPT ![r] = pk[r]] /\ Goto(r, "mark") /\ UNCHANGED status
  <2>1. park'[r] = pk[r] /\ pc'[r] = "mark" /\ status'[r] = status[r]
    BY <1>0, <1>1 DEF TypeOK
  <2>2. OwnPark(pk[r])'
    BY <1>0, RealKept DEF Open, OwnPark
  <2> QED
    BY <1>0, <2>1, <2>2 DEF Open, OwnPark
<1>2. CASE status' = [status EXCEPT ![r] = "error"] /\ Goto(r, "end") /\ UNCHANGED park
  <2>1. status'[r] = "error" /\ pc'[r] = "end"
    BY <1>0, <1>2 DEF TypeOK
  <2> QED
    BY <1>0, <1>2, <2>1, OpenLater
<1> QED
  BY <1>1, <1>2 DEF Finish

(* An open park stays within reach of an ack. *)
LEMMA OpenStep == ASSUME IInv, JInv, Next, NEW r \in Runs PROVE Open(r)'
<1> USE DEF Goto, Set, Abort, Report, shared, disk, memory
<1>0. TypeOK /\ Kept /\ green \subseteq green' /\ Open(r)
  BY BranchesKept, GreenGrows DEF IInv, JInv
<1>1. ASSUME NEW q \in Runs, q # r,
             \/ RunStep(q) \/ Signal(q) \/ Kill(q) \/ Recover(q) \/ Reverify(q) \/ Ack(q) \/ Reject(q)
      PROVE  Open(r)'
  BY <1>0, <1>1, OthersSame, OpenStands
<1>2. CASE ForeignLand \/ Signal(r) \/ Reverify(r)
  <2>1. Same(r)
    BY <1>2 DEF ForeignLand, Signal, Reverify, Same
  <2> QED
    BY <1>0, <2>1, OpenStands
<1>3. CASE Kill(r) \/ Recover(r)
  <2>1. /\ pc'[r] = "dead" /\ UNCHANGED <<pk, park, keep>>
        /\ status'[r] \in {status[r], "interrupted", "awaiting-ack"}
    BY <1>0, <1>3 DEF TypeOK, Kill, Recover
  <2> QED
    BY <1>0, <2>1, OpenLater DEF Open
<1>4. ASSUME NEW phase, Resolve(r, phase), UNCHANGED <<pc, pk>> PROVE Open(r)'
  <2>1. ~park[r].resolved /\ park'[r].resolved
    BY <1>0, <1>4 DEF Resolve, TypeOK, Parks
  <2>2. pc'[r] \in {"mark", "label", "end", "dead"}
    BY <1>0, <1>4, <2>1 DEF Open, NoPark, TypeOK
  <2>3. OwnPark(pk[r])'
    BY <1>0, <1>4, RealKept DEF Open, OwnPark
  <2> QED
    BY <2>1, <2>2, <2>3 DEF Open, OwnPark
<1>5. CASE Ack(r) \/ Reject(r)
  BY <1>4, <1>5 DEF Ack, Reject
<1>6. CASE Begin(r)
  <2>1. /\ pc[r] = "idle" /\ pc'[r] \in {"agents", "label"} /\ status'[r] = "running"
        /\ UNCHANGED <<pk, park, keep>>
    BY <1>0, <1>6 DEF TypeOK, Begin
  <2> QED
    BY <1>0, <2>1, OpenLater
<1>7. ASSUME NEW t \in Tasks, Agent(r, t) PROVE Open(r)'
  BY <1>0, <1>7, OpenLater DEF Agent, Open
<1>8. CASE Integrate(r) \/ Verify(r) \/ Repair(r) \/ GiveUp(r) \/ Bisect(r)
  <2>1. /\ pc[r] \in {"agents", "verify", "repair", "red"} /\ UNCHANGED <<pk, park, keep, status>>
    BY <1>8 DEF Integrate, Verify, Repair, GiveUp, Bisect
  <2> QED
    BY <1>0, <2>1, OpenLater DEF Open
<1>9. CASE Land(r) \/ Note(r) \/ Publish(r)
  <2>1. /\ pc[r] \in {"land", "note", "publish"} /\ UNCHANGED <<pk, park, keep, status>>
    BY <1>9 DEF Land, Note, Publish
  <2> QED
    BY <1>0, <2>1, OpenLater DEF Open
<1>10. CASE ParkHeld(r)
  BY <1>10, ParkHeldOpen
<1>11. CASE Finish(r)
  BY <1>11, FinishOpen
<1>12. CASE File(r) \/ recordRunUsage(r)
  <2>1. /\ pc[r] \in {"file", "usage"} /\ UNCHANGED <<pk, park, keep, status>>
    BY <1>12 DEF File, recordRunUsage
  <2> QED
    BY <1>0, <2>1, OpenLater DEF Open
<1>13. CASE Mark(r)
  <2>1. /\ pc'[r] = "label" /\ UNCHANGED <<pk, park, keep>>
        /\ status'[r] = IF pk[r] = NoPark THEN "done" ELSE "awaiting-ack"
    BY <1>0, <1>13 DEF TypeOK, Mark
  <2>2. ~park[r].resolved => pk[r] # NoPark
    BY <1>0 DEF Open, NoPark
  <2>3. ~park[r].resolved => status'[r] \notin {"done", "rejected"}
    BY <2>1, <2>2
  <2> QED
    BY <1>0, <2>1, <2>3, OpenLater
<1>14. CASE Label(r)
  <2>1. /\ pc'[r] = "end" /\ UNCHANGED <<pk, park, keep>>
        /\ status'[r] \in {status[r], "interrupted", "error"}
    BY <1>0, <1>14 DEF TypeOK, Label
  <2>2. ~park[r].resolved => status'[r] \notin {"done", "rejected"}
    BY <1>0, <2>1 DEF Open
  <2>3. pk'[r] = pk[r] /\ park'[r] = park[r] /\ keep'[r] = keep[r]
    BY <2>1
  <2> QED
    BY <1>0, <2>1, <2>2, <2>3, OpenLater
<1> QED
  BY <1>1, <1>2, <1>3, <1>5, <1>6, <1>7, <1>8, <1>9, <1>10, <1>11, <1>12, <1>13, <1>14
     DEF Next, RunStep, Pipeline, Epilogue

-----------------------------------------------------------------------------
(* The second invariant holds before any run has begun ... *)
LEMMA JInvInit == Init => JInv
<1> SUFFICES ASSUME Init PROVE JInv
  OBVIOUS
<1>1. /\ base = <<Root>> /\ Len(base) = 1 /\ base[1] = Root /\ Root \notin Landings
      /\ base \in Commits /\ branch = [t \in Tasks |-> NoBranch]
  BY RunAssumption DEF Init, RunAssumption, Commits
<1>2. Trunk
  <2>1. \A t \in Tasks : branch[t] = NoBranch /\ branch[t].fork = NoCommit
    BY <1>1 DEF NoBranch
  <2>2. /\ pin = [r \in Runs |-> base]
        /\ result = [r \in Runs |-> [t \in Tasks |-> "none"]]
    BY DEF Init
  <2>3. \A r \in Runs : pin[r] = base /\ \A t \in Tasks : result[r][t] = "none"
    BY <2>2
  <2>4. Descends(base, NoCommit) /\ Descends(base, base)
    BY <1>1, DescendsItself, DescendsNothing
  <2> QED
    BY <2>1, <2>3, <2>4 DEF Trunk
<1>3. OnBase = {}
  BY <1>1 DEF OnBase
<1>4. LandedWork /\ WorkLandsOnce
  BY <1>1 DEF LandedWork, WorkLandsOnce, Positions
<1>5. ASSUME NEW r \in Runs PROVE Told(r) /\ Placed(r) /\ Open(r)
  <2>1. Told(r)
    BY <1>5 DEF Init, Told, NoReport
  <2>2. Placed(r)
    BY <1>3, <1>5 DEF Init, Placed, Mine
  <2>3. Open(r)
    BY <1>5 DEF Init, Open, OwnPark, NoPark
  <2> QED
    BY <2>1, <2>2, <2>3
<1> QED
  BY <1>2, <1>4, <1>5 DEF JInv

(* ... and survives each step of any process, ... *)
LEMMA JInvStep == IInv /\ JInv /\ [Next]_vars => JInv'
<1> SUFFICES ASSUME IInv, JInv, [Next]_vars PROVE JInv'
  OBVIOUS
<1>1. CASE Next
  <2>1. Trunk'
    BY <1>1, TrunkStep DEF JInv
  <2>2. \A r \in Runs : Told(r)' /\ Placed(r)' /\ Open(r)'
    BY <1>1, ToldStep, PlacedStep, OpenStep
  <2> QED
    BY <1>1, <2>1, <2>2, LandedWorkStep, OnceStep DEF JInv
<1>2. CASE UNCHANGED vars
  <2>1. UNCHANGED <<base, green, branch>>
    BY <1>2 DEF vars
  <2>2. Trunk' /\ LandedWork' /\ WorkLandsOnce'
    BY <1>2 DEF vars, JInv, Trunk, Descends, LandedWork, Real, WorkLandsOnce, Positions
  <2>3. ASSUME NEW r \in Runs PROVE Told(r)' /\ Placed(r)' /\ Open(r)'
    <3>1. Told(r)'
      BY <1>2, <2>3 DEF vars, JInv, Told, Built, Split, okTasks, work, Descends
    <3>2. Placed(r)'
      BY <1>2, <2>3 DEF vars, JInv, Placed, Mine, Match, OnBase, landed, work
    <3>3. Open(r)'
      BY <1>2, <2>3 DEF vars, JInv, Open, OwnPark, Real
    <3> QED
      BY <3>1, <3>2, <3>3
  <2> QED
    BY <2>2, <2>3 DEF JInv
<1> QED
  BY <1>1, <1>2

(* ... so it holds throughout. *)
LEMMA Accounts == Spec => [](IInv /\ JInv)
<1>1. Init => IInv /\ JInv
  BY IInvInit, JInvInit
<1>2. IInv /\ JInv /\ [Next]_vars => (IInv /\ JInv)'
  BY IInvStep, JInvStep
<1> QED
  BY <1>1, <1>2, PTL DEF Spec

(* However many runs share the base, resume one another's branches, are       *)
(* signalled or killed: a completed report claims a landing exactly when the  *)
(* base has one of that run, and what that landing carries is exactly what    *)
(* the report lists as landed (driveRun, verifyBisect, log.go landed).        *)
THEOREM ReportsAreTrue == Spec => []ReportMatchesBase
<1>1. IInv /\ JInv => ReportMatchesBase
  <2> SUFFICES ASSUME IInv, JInv, NEW r \in Runs, r \in filed, err[r] = "none"
               PROVE  /\ landed(r) <=> \E l \in OnBase : l.run = r /\ l.kind = "run"
                      /\ \A l \in OnBase : l.run = r /\ l.kind = "run"
                                           => l.work = work(rep[r].landed)
    BY DEF ReportMatchesBase, IInv, TypeOK
  <2>1. Match(r)
    BY DEF JInv, Placed
  <2>2. Mine(r) # {} <=> \E l \in OnBase : l.run = r /\ l.kind = "run"
    BY DEF Mine
  <2>3. \A l \in OnBase : l.run = r /\ l.kind = "run" => l \in Mine(r)
    BY DEF Mine
  <2> QED
    BY <2>1, <2>2, <2>3 DEF Match
<1> QED
  BY <1>1, Accounts, PTL

(* The same commit of an agent is never landed twice by runs, however often  *)
(* -resume takes a branch up again: a branch that forked from the very head  *)
(* the landing replaces is on none of the landings below it.                 *)
THEOREM NothingLandsTwice == Spec => []WorkLandsOnce
<1>1. JInv => WorkLandsOnce
  BY DEF JInv
<1> QED
  BY <1>1, Accounts, PTL

(* Whoever is killed, signalled or recovered and wherever: an open parking   *)
(* record reads awaiting-ack, and its verified commit is pinned              *)
(* (finishRunDir, diskRunStatus, recoverStaleRuns).                          *)
THEOREM ParkStaysReachable == Spec => []OpenParkIsReachable
<1>1. JInv => OpenParkIsReachable
  BY DEF JInv, Open, OpenParkIsReachable, diskRunStatus
<1> QED
  BY <1>1, Accounts, PTL

(* The four lists of a report are apart, so their sizes add up. *)
LEMMA SizesAdd ==
    ASSUME NEW A \in SUBSET Tasks, NEW B \in SUBSET Tasks, A \intersect B = {}
    PROVE  Cardinality(A \union B) = Cardinality(A) + Cardinality(B)
<1>1. IsFiniteSet(A) /\ IsFiniteSet(B)
  BY FS_Subset, RunAssumption DEF RunAssumption
<1>2. Cardinality(A) \in Nat /\ Cardinality(B) \in Nat
  BY <1>1, FS_CardinalityType
<1>3. Cardinality(A \intersect B) = 0
  BY FS_EmptySet
<1>4. Cardinality(A \union B) = Cardinality(A) + Cardinality(B) - Cardinality(A \intersect B)
  BY <1>1, FS_Union
<1> QED
  BY <1>2, <1>3, <1>4

(* Whatever an agent's branch meets, a conflict, the policy, a red verify    *)
(* bisected away: it is in exactly one list of a completed report.           *)
THEOREM NoBranchIsLost == Spec => []EveryBranchAccounted
<1>1. IInv /\ JInv => EveryBranchAccounted
  <2> SUFFICES ASSUME IInv, JInv, NEW r \in Runs, r \in filed, err[r] = "none"
               PROVE  /\ okTasks(r) = rep[r].landed \union rep[r].flagged
                                      \union rep[r].held \union rep[r].dropped
                      /\ Cardinality(okTasks(r)) = Cardinality(rep[r].landed)
                           + Cardinality(rep[r].flagged) + Cardinality(rep[r].held)
                           + Cardinality(rep[r].dropped)
    BY DEF EveryBranchAccounted, IInv, TypeOK
  <2> DEFINE A == rep[r].landed
             B == rep[r].flagged
             C == rep[r].held
             D == rep[r].dropped
  <2>1. Split(r)
    BY DEF JInv, Told
  <2>2. /\ A \in SUBSET Tasks /\ B \in SUBSET Tasks /\ C \in SUBSET Tasks /\ D \in SUBSET Tasks
    BY DEF IInv, TypeOK, Reports
  <2>3. /\ okTasks(r) = A \union B \union C \union D
        /\ A \intersect B = {} /\ (A \union B) \intersect C = {}
        /\ (A \union B \union C) \intersect D = {}
    BY <2>1 DEF Split
  <2> HIDE DEF A, B, C, D
  <2>4. Cardinality(A \union B) = Cardinality(A) + Cardinality(B)
    BY <2>2, <2>3, SizesAdd
  <2>5. Cardinality(A \union B \union C) = Cardinality(A \union B) + Cardinality(C)
    BY <2>2, <2>3, SizesAdd
  <2>6. Cardinality(A \union B \union C \union D) = Cardinality(A \union B \union C) + Cardinality(D)
    BY <2>2, <2>3, SizesAdd
  <2>7. Cardinality(okTasks(r)) = Cardinality(A) + Cardinality(B) + Cardinality(C) + Cardinality(D)
    BY <2>3, <2>4, <2>5, <2>6
  <2> QED
    BY <2>3, <2>7 DEF A, B, C, D
<1> QED
  BY <1>1, Accounts, PTL
=============================================================================
