---------------------------- MODULE AgentsProofs ----------------------------
(***************************************************************************)
(* That no two agents ever work on one branch, for any number of runs,     *)
(* resumes, tasks, retries and collections, with kills anywhere.           *)
(*                                                                         *)
(* OwnBranch is inductive over the types alone: whoever is to reset or     *)
(* delete a branch must find it checked out by nobody, and whoever is to   *)
(* make it must find it missing; a branch that an agent works on is        *)
(* neither, because the agent's worktree has it and it holds the base or   *)
(* the agent's own commit.                                                 *)
(*                                                                         *)
(* And that committed work is kept, and integrated as it was judged, in    *)
(* every overlap of runs, resumes and collections, with the exceptions the *)
(* two properties name: as long as nobody deletes a branch under a live    *)
(* run that depends on it, one live run at most is at work on it, and what *)
(* it holds is that run's.                                                 *)
(*                                                                         *)
(* And, at the end, that the parallel integrator (Occ) lands what the      *)
(* serial one lands, with the same tree.                                   *)
(***************************************************************************)
EXTENDS Agents, Occ, SequenceTheorems, FiniteSetTheorems, WellFoundedInduction, TLAPS

\* The initial state.
LEMMA InitOK == Init => TypeOK /\ OwnBranch
  BY AgentsAssumption DEF Init, TypeOK, OwnBranch, Working, Heads, AgentsAssumption

\* Two tables of tables, and what At changes of one.
LEMMA AtChanges ==
  ASSUME NEW S, NEW f \in [Runs -> [Tasks -> S]], NEW r \in Runs, NEW t \in Tasks, NEW x \in S
  PROVE  /\ At(f, r, t, x) \in [Runs -> [Tasks -> S]]
         /\ \A q \in Runs, s \in Tasks :
               At(f, r, t, x)[q][s] = IF q = r /\ s = t THEN x ELSE f[q][s]
  BY DEF At

-----------------------------------------------------------------------------
(* Types.                                                                   *)

\* The steps of one agent keep the types.
LEMMA AgentTypes ==
  ASSUME TypeOK, NEW r \in Runs, NEW t \in Tasks, AgentStep(r, t) PROVE TypeOK'
  <1> USE AgentsAssumption DEF AgentsAssumption
  <1> DEFINE Places == {"idle", "look", "clear", "add", "work", "judge", "done"}
             Verdicts == {"none", "ok", "stray", "failed"}
  <1>1. /\ pc \in [Runs -> [Tasks -> Places]] /\ result \in [Runs -> [Tasks -> Verdicts]]
        /\ sha \in [Runs -> [Tasks -> Heads]] /\ tried \in [Runs -> [Tasks -> 0..Retries]]
    BY DEF TypeOK
  <1>2. \A x \in Places : At(pc, r, t, x) \in [Runs -> [Tasks -> Places]]
    BY <1>1, AtChanges
  <1>3. ASSUME NEW v \in Verdicts, NEW h \in Heads, Done(r, t, v, h)
        PROVE  /\ pc' \in [Runs -> [Tasks -> Places]] /\ result' \in [Runs -> [Tasks -> Verdicts]]
               /\ sha' \in [Runs -> [Tasks -> Heads]]
    <2>1. /\ At(result, r, t, v) \in [Runs -> [Tasks -> Verdicts]]
          /\ At(sha, r, t, h) \in [Runs -> [Tasks -> Heads]]
      BY <1>1, AtChanges
    <2> QED
      BY <1>2, <1>3, <2>1 DEF Done
  <1>4. /\ NoBranch \in Heads /\ AtBase \in Heads /\ branch[t] \in Heads
        /\ <<r, tried[r][t]>> \in Heads
    BY <1>1 DEF Heads, Work, TypeOK
  <1>5. CASE resumeAgent(r, t)
    <2>1. ASSUME NEW x \in {"add", "clear"}, pc' = At(pc, r, t, x), UNCHANGED <<result, sha>>
          PROVE  TypeOK'
      BY <1>2, <1>5, <2>1 DEF resumeAgent, TypeOK, gcs
    <2>2. ASSUME NEW v \in verdicts, Done(r, t, v, branch[t]) PROVE TypeOK'
      BY <1>3, <1>4, <1>5, <2>2 DEF resumeAgent, verdicts, TypeOK, gcs
    <2> QED
      BY <1>5, <2>1, <2>2 DEF resumeAgent
  <1>a. \A h \in Heads : [branch EXCEPT ![t] = h] \in [Tasks -> Heads]
    BY DEF TypeOK
  <1>b. \A q \in Runs : [checkedOut EXCEPT ![t] = q] \in [Tasks -> Runs \union {Nobody}]
    BY DEF TypeOK
  <1>c. [created EXCEPT ![r] = @ \union {t}] \in [Runs -> SUBSET Tasks]
    BY DEF TypeOK
  <1>6. CASE DeleteBranch(r, t)
    <2>1. branch' \in [Tasks -> Heads]
      BY <1>4, <1>6, <1>a DEF DeleteBranch, BranchDelete, TypeOK
    <2>2. pulled' \in {pulled, pulled \union {t}}
      BY <1>6 DEF DeleteBranch, BranchDelete
    <2>3. pulled' \in SUBSET Tasks
      BY <2>2 DEF TypeOK
    <2> QED
      BY <1>2, <1>6, <2>1, <2>3 DEF DeleteBranch, TypeOK, gcs
  <1>7. CASE AddWorktree(r, t)
    <2>0. /\ branch' \in [Tasks -> Heads] /\ old' \in SUBSET Tasks
          /\ checkedOut' \in [Tasks -> Runs \union {Nobody}] /\ created' \in [Runs -> SUBSET Tasks]
          /\ UNCHANGED <<phase, tried, used, status, filed, doomed, pruning, swept, overtaken,
                         pulled>>
      <3>1. branch' = [branch EXCEPT ![t] = AtBase] \/ UNCHANGED branch
        BY <1>7 DEF AddWorktree
      <3>2. old' = old \union {t} \/ UNCHANGED old
        BY <1>7 DEF AddWorktree
      <3>3. \/ checkedOut' = [checkedOut EXCEPT ![t] = r]
            \/ UNCHANGED checkedOut
        BY <1>7 DEF AddWorktree
      <3>4. created' = [created EXCEPT ![r] = @ \union {t}] \/ UNCHANGED created
        BY <1>7 DEF AddWorktree
      <3>5. branch' \in [Tasks -> Heads]
        BY <1>4, <1>a, <3>1 DEF TypeOK
      <3>6. old' \in SUBSET Tasks
        BY <3>2 DEF TypeOK
      <3>7. checkedOut' \in [Tasks -> Runs \union {Nobody}]
        BY <1>b, <3>3 DEF TypeOK
      <3>8. created' \in [Runs -> SUBSET Tasks]
        BY <1>c, <3>4 DEF TypeOK
      <3> QED
        BY <1>7, <3>5, <3>6, <3>7, <3>8 DEF AddWorktree, gcs
    <2>1. CASE Done(r, t, "failed", NoBranch)
      BY <1>3, <1>4, <2>0, <2>1 DEF TypeOK
    <2>2. CASE pc' = At(pc, r, t, "work") /\ UNCHANGED <<result, sha>>
      BY <1>2, <2>0, <2>2 DEF TypeOK
    <2> QED
      BY <1>7, <2>1, <2>2 DEF AddWorktree
  <1>8. CASE Commit(r, t)
    <2>1. branch' \in [Tasks -> Heads] /\ old' \in SUBSET Tasks /\ pc' \in [Runs -> [Tasks -> Places]]
      <3>1. /\ branch' = [branch EXCEPT ![t] = <<r, tried[r][t]>>] /\ old' = old \ {t}
            \/ UNCHANGED <<branch, old>>
        BY <1>8 DEF Commit
      <3> DEFINE w == <<r, tried[r][t]>>
      <3>a. w \in Heads
        BY <1>4
      <3>b. branch' = [branch EXCEPT ![t] = w] \/ UNCHANGED branch
        BY <3>1
      <3> HIDE DEF w
      <3>2. branch' \in [Tasks -> Heads]
        BY <1>a, <3>a, <3>b DEF TypeOK
      <3>3. old' \in SUBSET Tasks
        BY <3>1 DEF TypeOK
      <3> QED
        BY <1>2, <1>8, <3>2, <3>3 DEF Commit
    <2> QED
      BY <1>8, <2>1 DEF Commit, TypeOK, gcs
  <1>9. CASE Judge(r, t)
    <2>0. checkedOut' \in [Tasks -> Runs \union {Nobody}]
      BY <1>9 DEF Judge, TypeOK
    <2>1. ASSUME NEW v \in {"ok", "stray", "failed"}, Done(r, t, v, branch[t]), UNCHANGED tried
          PROVE  TypeOK'
      BY <1>3, <1>4, <1>9, <2>0, <2>1 DEF Judge, TypeOK, gcs
    <2>2. CASE /\ MayRetry(r, t) /\ tried' = At(tried, r, t, tried[r][t] + 1)
               /\ pc' = At(pc, r, t, "add") /\ UNCHANGED <<result, sha>>
      <3>1. tried[r][t] + 1 \in 0..Retries
        BY <1>1, <2>2 DEF MayRetry
      <3>2. tried' \in [Runs -> [Tasks -> 0..Retries]]
        BY <1>1, <2>2, <3>1, AtChanges
      <3> QED
        BY <1>2, <1>9, <2>0, <2>2, <3>2 DEF Judge, TypeOK, gcs
    <2> QED
      BY <1>9, <2>1, <2>2 DEF Judge
  <1> QED
    BY <1>5, <1>6, <1>7, <1>8, <1>9 DEF AgentStep

\* And so do all the others.
LEMMA TypeStep == TypeOK /\ [Next]_vars => TypeOK'
  <1> SUFFICES ASSUME TypeOK, [Next]_vars PROVE TypeOK'
    OBVIOUS
  <1> USE AgentsAssumption DEF AgentsAssumption
  <1>1. ASSUME NEW r \in Runs, Begin(r) PROVE TypeOK'
    BY <1>1 DEF Begin, TypeOK
  <1>2. ASSUME NEW r \in Runs, Integrate(r) PROVE TypeOK'
    <2>1. [t \in Tasks |-> IF t \in okTasks(r) THEN branch[t] ELSE NoBranch] \in [Tasks -> Heads]
      BY DEF TypeOK, Heads
    <2> QED
      BY <1>2, <2>1 DEF Integrate, TypeOK, agents, gcs
  <1>3. ASSUME NEW r \in Runs, End(r) PROVE TypeOK'
    BY <1>3 DEF End, TypeOK, agents, gcs
  <1>4. ASSUME NEW r \in Runs, Resolve(r) PROVE TypeOK'
    BY <1>4 DEF Resolve, TypeOK, agents, gcs
  <1>5. ASSUME NEW r \in Runs, Kill(r) PROVE TypeOK'
    BY <1>5 DEF Kill, TypeOK, agents, gcs
  <1>6. ASSUME NEW t \in Tasks, Age(t) PROVE TypeOK'
    BY <1>6 DEF Age, TypeOK, agents, gcs
  <1>7. ASSUME NEW g \in Collectors, Plan(g) PROVE TypeOK'
    <2>1. gcPlanFor(g) \in SUBSET Tasks
      BY DEF gcPlanFor, TypeOK
    <2> QED
      BY <1>7, <2>1 DEF Plan, TypeOK, agents
  <1>8. ASSUME NEW g \in Collectors, Prune(g) PROVE TypeOK'
    <2>1. checkedOut' \in [Tasks -> Runs \union {Nobody}]
      BY <1>8 DEF Prune, TypeOK
    <2> QED
      BY <1>8, <2>1 DEF Prune, TypeOK, agents
  <1>9. ASSUME NEW g \in Collectors, Delete(g) PROVE TypeOK'
    <2> PICK t \in doomed[g] :
               /\ BranchDelete(t) \/ UNCHANGED <<branch, pulled>>
               /\ \/ doomed' = [doomed EXCEPT ![g] = @ \ {t}]
                  \/ doomed' = [doomed EXCEPT ![g] = {}]
      BY <1>9 DEF Delete
    <2>1. t \in Tasks /\ NoBranch \in Heads
      BY DEF TypeOK, Heads
    <2>2. branch' \in [Tasks -> Heads] /\ pulled' \in SUBSET Tasks
      <3>1. /\ branch' \in {branch, [branch EXCEPT ![t] = NoBranch]}
            /\ pulled' \in {pulled, pulled \union {t}}
        BY DEF BranchDelete
      <3> QED
        BY <2>1, <3>1 DEF TypeOK
    <2>3. doomed' \in [Collectors -> SUBSET Tasks]
      BY DEF TypeOK
    <2> QED
      BY <1>9, <2>2, <2>3 DEF Delete, TypeOK, agents
  <1>10. CASE UNCHANGED vars
    BY <1>10 DEF vars, TypeOK
  <1> QED
    BY <1>1, <1>2, <1>3, <1>4, <1>5, <1>6, <1>7, <1>8, <1>9, <1>10, AgentTypes
       DEF Next, RunStep, applyGC

-----------------------------------------------------------------------------
(* Ownership.                                                               *)

\* A step that moves no worktree and no branch, and puts no agent to work, takes
\* nothing from anybody.
LEMMA StillOwned ==
  ASSUME OwnBranch, UNCHANGED <<branch, checkedOut, tried>>,
         \A r \in Runs, t \in Tasks : Working(r, t)' => Working(r, t)
  PROVE  OwnBranch'
  BY DEF OwnBranch

\* What git asks for before it gives a branch to anybody else.
LEMMA Unowned ==
  ASSUME TypeOK, OwnBranch, NEW t \in Tasks, checkedOut[t] = Nobody \/ branch[t] = NoBranch
  PROVE  \A r \in Runs : ~Working(r, t)
  BY AgentsAssumption DEF OwnBranch, TypeOK, Work, AgentsAssumption

\* The steps of one agent, on its own branch.
LEMMA AgentOwns ==
  ASSUME TypeOK, OwnBranch, NEW r \in Runs, NEW t \in Tasks, AgentStep(r, t) PROVE OwnBranch'
  <1> USE AgentsAssumption DEF AgentsAssumption
  <1>1. ASSUME NEW x
        PROVE  /\ At(pc, r, t, x)[r][t] = x
               /\ \A q \in Runs, s \in Tasks : q # r \/ s # t => At(pc, r, t, x)[q][s] = pc[q][s]
    BY DEF At, TypeOK
  <1>2. ASSUME NEW x, x \notin {"work", "judge"}, pc' = At(pc, r, t, x), UNCHANGED phase
        PROVE  /\ \A q \in Runs, s \in Tasks : Working(q, s)' => Working(q, s)
               /\ ~Working(r, t)'
    BY <1>1, <1>2 DEF Working
  <1>3. CASE resumeAgent(r, t)
    <2>1. \E x : x \notin {"work", "judge"} /\ pc' = At(pc, r, t, x)
      BY <1>3 DEF resumeAgent, Done
    <2> QED
      BY <1>2, <1>3, <2>1, StillOwned DEF resumeAgent
  <1>4. CASE DeleteBranch(r, t)
    <2>1. CASE checkedOut[t] = Nobody
      <3>1. /\ \A s \in Tasks : s # t => branch'[s] = branch[s]
            /\ UNCHANGED <<checkedOut, tried>>
        BY <1>4, <2>1 DEF DeleteBranch, BranchDelete, TypeOK
      <3>2. \A q \in Runs, s \in Tasks : Working(q, s)' => Working(q, s) /\ s # t
        BY <1>2, <1>4, <2>1, Unowned DEF DeleteBranch
      <3> QED
        BY <3>1, <3>2 DEF OwnBranch
    <2>2. CASE checkedOut[t] # Nobody
      <3>1. UNCHANGED <<branch, checkedOut, tried>>
        BY <1>4, <2>2 DEF DeleteBranch, TypeOK
      <3> QED
        BY <1>2, <1>4, <3>1, StillOwned DEF DeleteBranch
    <2> QED
      BY <2>1, <2>2
  <1>5. CASE AddWorktree(r, t)
    <2>1. CASE Addable(r, t)
      <3>1. \A q \in Runs : ~Working(q, t)
        BY <2>1, Unowned DEF Addable
      <3>2. CASE pc' = At(pc, r, t, "work") /\ checkedOut' = [checkedOut EXCEPT ![t] = r]
                 /\ branch' = [branch EXCEPT ![t] = AtBase]
        <4>1. \A q \in Runs, s \in Tasks : Working(q, s)' => (q = r /\ s = t) \/ Working(q, s)
          BY <1>1, <1>5, <3>2 DEF Working, AddWorktree
        <4> QED
          BY <1>5, <3>1, <3>2, <4>1 DEF AddWorktree, OwnBranch, TypeOK
      <3>3. CASE Done(r, t, "failed", NoBranch) /\ UNCHANGED checkedOut
                 /\ branch' = [branch EXCEPT ![t] = AtBase]
        <4>1. \A q \in Runs, s \in Tasks : Working(q, s)' => Working(q, s)
          BY <1>2, <1>5, <3>3 DEF Done, AddWorktree
        <4> QED
          BY <1>5, <3>1, <3>3, <4>1 DEF AddWorktree, OwnBranch, TypeOK
      <3> QED
        BY <1>5, <2>1, <3>2, <3>3 DEF AddWorktree
    <2>2. CASE ~Addable(r, t)
      BY <1>2, <1>5, <2>2, StillOwned DEF AddWorktree, Done
    <2> QED
      BY <2>1, <2>2
  <1>6. CASE Commit(r, t)
    <2>1. Working(r, t) /\ checkedOut[t] = r
      BY <1>6 DEF Commit, Working, OwnBranch
    <2>2. \A q \in Runs, s \in Tasks : Working(q, s)' => Working(q, s)
      BY <1>1, <1>6, <2>1 DEF Working, Commit
    <2>3. \A q \in Runs \ {r} : ~Working(q, t)
      BY <2>1 DEF OwnBranch
    <2>4. /\ \A s \in Tasks : s # t => branch'[s] = branch[s]
          /\ branch'[t] \in {branch[t], <<r, tried[r][t]>>}
          /\ UNCHANGED <<checkedOut, tried>>
      BY <1>6 DEF Commit, TypeOK
    <2> QED
      BY <2>1, <2>2, <2>3, <2>4 DEF OwnBranch
  <1>7. CASE Judge(r, t)
    <2>1. Working(r, t) /\ checkedOut[t] = r
      BY <1>7 DEF Judge, Working, OwnBranch
    <2>2. /\ \A q \in Runs, s \in Tasks : Working(q, s)' => Working(q, s)
          /\ ~Working(r, t)'
      <3>1. \E x \in {"done", "add"} : pc' = At(pc, r, t, x)
        BY <1>7 DEF Judge, Done
      <3> QED
        BY <1>2, <1>7, <3>1 DEF Judge
    <2>3. \A q \in Runs \ {r} : ~Working(q, t)
      BY <2>1 DEF OwnBranch
    <2>4. \A q \in Runs, s \in Tasks : q # r \/ s # t => tried'[q][s] = tried[q][s]
      BY <1>7 DEF Judge, At, TypeOK
    <2>5. UNCHANGED branch /\ \A s \in Tasks : s # t => checkedOut'[s] = checkedOut[s]
      BY <1>7 DEF Judge, TypeOK
    <2> QED
      BY <2>2, <2>3, <2>4, <2>5 DEF OwnBranch
  <1> QED
    BY <1>3, <1>4, <1>5, <1>6, <1>7 DEF AgentStep

\* Every step.
LEMMA OwnStep == TypeOK /\ OwnBranch /\ [Next]_vars => OwnBranch'
  <1> SUFFICES ASSUME TypeOK, OwnBranch, [Next]_vars PROVE OwnBranch'
    OBVIOUS
  <1> USE AgentsAssumption DEF AgentsAssumption
  <1>1. ASSUME NEW r \in Runs, Begin(r) PROVE OwnBranch'
    <2>1. \A q \in Runs, t \in Tasks : Working(q, t)' => Working(q, t)
      BY <1>1 DEF Begin, Working, TypeOK
    <2> QED
      BY <1>1, <2>1, StillOwned DEF Begin
  <1>2. ASSUME NEW r \in Runs, Integrate(r) \/ End(r) \/ Resolve(r) \/ Kill(r) PROVE OwnBranch'
    <2>1. /\ \A q \in Runs, t \in Tasks : Working(q, t)' => Working(q, t)
          /\ UNCHANGED <<branch, checkedOut, tried>>
      BY <1>2 DEF Integrate, End, Resolve, Kill, Working, TypeOK, agents
    <2> QED
      BY <2>1, StillOwned
  <1>3. ASSUME NEW t \in Tasks, Age(t) PROVE OwnBranch'
    BY <1>3, StillOwned DEF Age, Working, agents
  <1>4. ASSUME NEW g \in Collectors, Plan(g) PROVE OwnBranch'
    BY <1>4, StillOwned DEF Plan, Working, agents
  <1>5. ASSUME NEW g \in Collectors, Prune(g) PROVE OwnBranch'
    <2>1. \A q \in Runs, t \in Tasks : Working(q, t) => t \notin abandoned
      BY DEF Working, OwnBranch, abandoned
    <2> QED
      BY <1>5, <2>1 DEF Prune, OwnBranch, Working, agents
  <1>6. ASSUME NEW g \in Collectors, Delete(g) PROVE OwnBranch'
    <2> PICK t \in doomed[g] : \/ checkedOut[t] = Nobody /\ branch' = [branch EXCEPT ![t] = NoBranch]
                               \/ UNCHANGED branch
      BY <1>6 DEF Delete, BranchDelete
    <2>1. t \in Tasks /\ UNCHANGED <<checkedOut, phase, pc, tried>>
      BY <1>6 DEF Delete, agents, TypeOK
    <2>2. CASE checkedOut[t] = Nobody /\ branch' = [branch EXCEPT ![t] = NoBranch]
      BY <2>1, <2>2, Unowned DEF OwnBranch, Working, TypeOK
    <2> QED
      BY <2>1, <2>2 DEF OwnBranch, Working
  <1>7. CASE UNCHANGED vars
    BY <1>7 DEF vars, OwnBranch, Working
  <1> QED
    BY <1>1, <1>2, <1>3, <1>4, <1>5, <1>6, <1>7, AgentOwns DEF Next, RunStep, applyGC

-----------------------------------------------------------------------------
\* Every variable keeps its type, and no agent is retried more often than
\* -agent-retries says (run.go runAgentWithRetries).
THEOREM TypeCorrect == Spec => []TypeOK
  <1>1. Init => TypeOK
    BY InitOK
  <1> QED
    BY <1>1, TypeStep, PTL DEF Spec

\* At most one agent works on a branch, and it finds there what it put there
\* (run.go runAgent, created; git's refusals; gc.go applyGC).
THEOREM OneAgentPerBranch == Spec => []OwnBranch
  <1>1. Init => TypeOK /\ OwnBranch
    BY InitOK
  <1>2. (TypeOK /\ OwnBranch) /\ [Next]_vars => (TypeOK /\ OwnBranch)'
    BY TypeStep, OwnStep
  <1> QED
    BY <1>1, <1>2, PTL DEF Spec

-----------------------------------------------------------------------------(* Work that is kept, and integrated as it was judged.                       *)

\* How far a run has come with a task.
Stage(r, t) ==
    /\ phase[r] = "idle" => pc[r][t] = "idle"
    /\ pc[r][t] \in {"idle", "look", "clear"} => t \notin created[r]
    /\ pc[r][t] = "add" /\ t \in created[r] => tried[r][t] > 0
    /\ pc[r][t] \in {"work", "judge"} => t \in created[r]
    /\ result[r][t] = "ok" => pc[r][t] = "done" /\ sha[r][t] \in Work

\* It is at work on a branch it made: the first half of Depends.
Holds(r, t) == Live(r) /\ t \in created[r] /\ pc[r][t] # "done"

\* Unless the branch was deleted under a live run: whoever is at work on it is alone
\* with it, and it is at the base or at its work; and work to integrate is there, or
\* its own run has given it up.
Held(r, t) ==
    /\ Holds(r, t) => /\ branch[t] # NoBranch
                      /\ branch[t] \in Work => /\ branch[t][1] = r
                                               /\ pc[r][t] = "add" => branch[t][2] < tried[r][t]
                      /\ \A q \in Runs : Holds(q, t) => q = r
    /\ Live(r) /\ result[r][t] = "ok" => branch[t] = sha[r][t] \/ Discarded(sha[r][t], t)

\* What a gc that nothing overtook found when it planned still holds when it deletes.
Sweepable(g, t) ==
    branch[t] # NoBranch =>
        /\ t \in old /\ t \notin loadParkedBranches
        /\ branch[t] \in Work => g \in Forcing \/ ~Resumable(branch[t][1])

Sweep(g) ==
    doomed[g] # {} => /\ g \in swept
                      /\ g \notin overtaken => /\ \A r \in Runs : ~Live(r)
                                               /\ \A t \in doomed[g] : Sweepable(g, t)

KInv ==
    /\ \A r \in Runs, t \in Tasks : Stage(r, t) /\ (t \notin pulled => Held(r, t))
    /\ \A g \in Collectors : Sweep(g)
    /\ UsesWhatItRead

-----------------------------------------------------------------------------
(* Frames.                                                                   *)

\* The runs' tables, without the rest of their types.
LEMMA Tables ==
  ASSUME TypeOK
  PROVE  /\ pc \in [Runs -> [Tasks -> {"idle", "look", "clear", "add", "work", "judge", "done"}]]
         /\ result \in [Runs -> [Tasks -> {"none", "ok", "stray", "failed"}]]
         /\ sha \in [Runs -> [Tasks -> Heads]] /\ tried \in [Runs -> [Tasks -> 0..Retries]]
  BY DEF TypeOK

LEMMA AtElse ==
  ASSUME TypeOK, NEW r \in Runs, NEW t \in Tasks
  PROVE  /\ \A x : /\ At(pc, r, t, x)[r][t] = x
                  /\ \A q \in Runs, s \in Tasks : q # r \/ s # t => At(pc, r, t, x)[q][s] = pc[q][s]
         /\ \A x : /\ At(result, r, t, x)[r][t] = x
                  /\ \A q \in Runs, s \in Tasks : q # r \/ s # t => At(result, r, t, x)[q][s] = result[q][s]
         /\ \A x : /\ At(sha, r, t, x)[r][t] = x
                  /\ \A q \in Runs, s \in Tasks : q # r \/ s # t => At(sha, r, t, x)[q][s] = sha[q][s]
         /\ \A x : /\ At(tried, r, t, x)[r][t] = x
                  /\ \A q \in Runs, s \in Tasks : q # r \/ s # t => At(tried, r, t, x)[q][s] = tried[q][s]
  <1>1. \A x : /\ At(pc, r, t, x)[r][t] = x
             /\ \A q \in Runs, s \in Tasks : q # r \/ s # t => At(pc, r, t, x)[q][s] = pc[q][s]
    BY Tables DEF At
  <1>2. \A x : /\ At(result, r, t, x)[r][t] = x
             /\ \A q \in Runs, s \in Tasks : q # r \/ s # t => At(result, r, t, x)[q][s] = result[q][s]
    BY Tables DEF At
  <1>3. \A x : /\ At(sha, r, t, x)[r][t] = x
             /\ \A q \in Runs, s \in Tasks : q # r \/ s # t => At(sha, r, t, x)[q][s] = sha[q][s]
    BY Tables DEF At
  <1>4. \A x : /\ At(tried, r, t, x)[r][t] = x
             /\ \A q \in Runs, s \in Tasks : q # r \/ s # t => At(tried, r, t, x)[q][s] = tried[q][s]
    BY Tables DEF At
  <1> QED
    BY <1>1, <1>2, <1>3, <1>4

\* What Done writes.
LEMMA DoneWrites ==
  ASSUME TypeOK, NEW r \in Runs, NEW t \in Tasks, NEW v, NEW h, Done(r, t, v, h)
  PROVE  /\ pc'[r][t] = "done" /\ result'[r][t] = v /\ sha'[r][t] = h
         /\ \A q \in Runs, s \in Tasks : q # r \/ s # t =>
              pc'[q][s] = pc[q][s] /\ result'[q][s] = result[q][s] /\ sha'[q][s] = sha[q][s]
  BY AtElse DEF Done

\* git branch -D touches one branch, and notes whom it takes it from.
LEMMA DeleteChanges ==
  ASSUME TypeOK, NEW t \in Tasks, BranchDelete(t)
  PROVE  /\ branch'[t] = NoBranch /\ \A s \in Tasks : s # t => branch'[s] = branch[s]
         /\ pulled \subseteq pulled' /\ \A s \in Tasks : s # t => (s \in pulled' => s \in pulled)
         /\ t \notin pulled' => \A r \in Runs : ~Depends(r, t)
  BY DEF BranchDelete, TypeOK

\* A step of one agent leaves the other agents and the other branches alone.
LEMMA Elsewhere ==
  ASSUME TypeOK, NEW r \in Runs, NEW t \in Tasks, AgentStep(r, t)
  PROVE  /\ phase[r] = "agents" /\ UNCHANGED <<phase, used, status, filed, gcs>>
         /\ \A q \in Runs, s \in Tasks : q # r \/ s # t =>
              /\ pc'[q][s] = pc[q][s] /\ result'[q][s] = result[q][s]
              /\ sha'[q][s] = sha[q][s] /\ tried'[q][s] = tried[q][s]
              /\ (s \in created'[q] <=> s \in created[q])
         /\ \A s \in Tasks : s # t => branch'[s] = branch[s] /\ (s \in pulled' => s \in pulled)
         /\ \A q \in Runs : created[q] \subseteq created'[q]
         /\ tried[r][t] <= tried'[r][t] /\ pulled \subseteq pulled'
  <1>1. phase[r] = "agents" /\ UNCHANGED <<phase, used, status, filed, gcs>>
    BY DEF AgentStep, resumeAgent, DeleteBranch, AddWorktree, Commit, Judge
  <1>2. ASSUME NEW q \in Runs, NEW s \in Tasks, q # r \/ s # t
        PROVE  pc'[q][s] = pc[q][s] /\ result'[q][s] = result[q][s] /\ sha'[q][s] = sha[q][s]
    <2>1. ASSUME NEW v, NEW h, Done(r, t, v, h)
          PROVE  pc'[q][s] = pc[q][s] /\ result'[q][s] = result[q][s] /\ sha'[q][s] = sha[q][s]
      BY <1>2, <2>1, DoneWrites
    <2>2. ASSUME NEW x, pc' = At(pc, r, t, x), UNCHANGED <<result, sha>>
          PROVE  pc'[q][s] = pc[q][s] /\ result'[q][s] = result[q][s] /\ sha'[q][s] = sha[q][s]
      BY <1>2, <2>2, AtElse
    <2>3. \/ \E v, h : Done(r, t, v, h)
          \/ \E x : pc' = At(pc, r, t, x) /\ UNCHANGED <<result, sha>>
      BY DEF AgentStep, resumeAgent, DeleteBranch, AddWorktree, Commit, Judge
    <2> QED
      BY <2>1, <2>2, <2>3
  <1>3. /\ \A q \in Runs, s \in Tasks : q # r \/ s # t => tried'[q][s] = tried[q][s]
        /\ tried[r][t] <= tried'[r][t]
    <2>1. UNCHANGED tried \/ tried' = At(tried, r, t, tried[r][t] + 1)
      BY DEF AgentStep, resumeAgent, DeleteBranch, AddWorktree, Commit, Judge
    <2>2. tried[r][t] \in Nat
      BY Tables
    <2> QED
      BY <2>1, <2>2, AtElse
  <1>4. /\ \A q \in Runs, s \in Tasks : q # r \/ s # t => (s \in created'[q] <=> s \in created[q])
        /\ \A q \in Runs : created[q] \subseteq created'[q]
    <2>1. UNCHANGED created \/ created' = [created EXCEPT ![r] = @ \union {t}]
      BY DEF AgentStep, resumeAgent, DeleteBranch, AddWorktree, Commit, Judge
    <2>2. created \in [Runs -> SUBSET Tasks]
      BY DEF TypeOK
    <2>3. CASE UNCHANGED created
      BY <2>3
    <2>4. CASE created' = [created EXCEPT ![r] = @ \union {t}]
      BY <2>2, <2>4
    <2> QED
      BY <2>1, <2>3, <2>4
  <1>5. /\ \A s \in Tasks : s # t => branch'[s] = branch[s] /\ (s \in pulled' => s \in pulled)
        /\ pulled \subseteq pulled'
    <2>1. CASE BranchDelete(t)
      BY <2>1, DeleteChanges
    <2>2. CASE UNCHANGED pulled /\ (UNCHANGED branch \/ \E x : branch' = [branch EXCEPT ![t] = x])
      BY <2>2 DEF TypeOK
    <2> QED
      BY <2>1, <2>2 DEF AgentStep, resumeAgent, DeleteBranch, AddWorktree, Commit, Judge
  <1> QED
    BY <1>1, <1>2, <1>3, <1>4, <1>5

\* Work that was given up stays given up.
LEMMA StaysDiscarded ==
  ASSUME TypeOK, TypeOK', NEW t \in Tasks, NEW w \in Work, tried[w[1]][t] > w[2],
         \A q \in Runs : tried[q][t] <= tried'[q][t]
  PROVE  tried'[w[1]][t] > w[2]
  <1>1. w[1] \in Runs /\ w[2] \in Nat
    BY DEF Work
  <1>2. tried[w[1]][t] \in Nat /\ tried'[w[1]][t] \in Nat
    BY <1>1, Tables DEF TypeOK
  <1> QED
    BY <1>1, <1>2

-----------------------------------------------------------------------------
(* The steps of one agent.                                                   *)

LEMMA StageStep ==
  ASSUME TypeOK, KInv, NEW r \in Runs, NEW t \in Tasks, AgentStep(r, t)
  PROVE  Stage(r, t)'
  <1>0. /\ Stage(r, t) /\ phase'[r] # "idle" /\ tried[r][t] \in Nat
        /\ t \in created[r] => t \in created'[r]
    BY Elsewhere, Tables DEF KInv
  <1>1. CASE resumeAgent(r, t)
    <2>1. ASSUME NEW x \in {"add", "clear"}, pc' = At(pc, r, t, x), UNCHANGED <<result, sha>>
          PROVE  Stage(r, t)'
      <3>1. pc'[r][t] \in {"add", "clear"} /\ t \notin created'[r] /\ result'[r][t] # "ok"
        BY <1>0, <1>1, <2>1, AtElse DEF resumeAgent, Stage
      <3> QED
        BY <1>0, <3>1 DEF Stage
    <2>2. ASSUME NEW v \in verdicts, Done(r, t, v, branch[t]), branch[t] \in Work
          PROVE  Stage(r, t)'
      BY <1>0, <2>2, DoneWrites DEF Stage
    <2> QED
      BY <1>1, <2>1, <2>2 DEF resumeAgent
  <1>2. CASE DeleteBranch(r, t)
    <2>1. pc'[r][t] = "add" /\ UNCHANGED <<created, result>>
      BY <1>2, AtElse DEF DeleteBranch
    <2> QED
      BY <1>0, <1>2, <2>1 DEF DeleteBranch, Stage
  <1>3. CASE AddWorktree(r, t)
    <2>1. CASE Done(r, t, "failed", NoBranch)
      BY <1>0, <1>3, <2>1, DoneWrites DEF AddWorktree, Stage
    <2>2. CASE /\ pc' = At(pc, r, t, "work") /\ UNCHANGED <<result, sha>>
               /\ created' = [created EXCEPT ![r] = @ \union {t}]
      <3>1. pc'[r][t] = "work" /\ t \in created'[r]
        BY <2>2, AtElse DEF TypeOK
      <3> QED
        BY <1>0, <1>3, <2>2, <3>1 DEF AddWorktree, Stage
    <2> QED
      BY <1>3, <2>1, <2>2 DEF AddWorktree
  <1>4. CASE Commit(r, t)
    <2>1. pc'[r][t] = "judge" /\ UNCHANGED <<created, result>>
      BY <1>4, AtElse DEF Commit
    <2> QED
      BY <1>0, <1>4, <2>1 DEF Commit, Stage
  <1>5. CASE Judge(r, t)
    <2>1. ASSUME NEW v, Done(r, t, v, branch[t]), v = "ok" => branch[t] \in Work
          PROVE  Stage(r, t)'
      BY <1>0, <1>5, <2>1, DoneWrites DEF Judge, Stage
    <2>2. CASE /\ tried' = At(tried, r, t, tried[r][t] + 1)
               /\ pc' = At(pc, r, t, "add") /\ UNCHANGED <<result, sha>>
      <3>1. pc'[r][t] = "add" /\ tried'[r][t] = tried[r][t] + 1
        BY <2>2, AtElse
      <3>2. tried'[r][t] > 0
        BY <1>0, <3>1
      <3> QED
        BY <1>0, <1>5, <2>2, <3>1, <3>2 DEF Judge, Stage
    <2> QED
      BY <1>5, <2>1, <2>2 DEF Judge
  <1> QED
    BY <1>1, <1>2, <1>3, <1>4, <1>5 DEF AgentStep

\* Whoever is at work on a branch that was not pulled is alone with it.
LEMMA Exclusive ==
  ASSUME KInv, NEW r \in Runs, NEW t \in Tasks, t \notin pulled,
         Holds(r, t) \/ branch[t] = NoBranch
  PROVE  \A q \in Runs \ {r} : ~Holds(q, t)
  BY DEF KInv, Held

\* What an agent's step may do to its branch.
LEMMA Moves ==
  ASSUME TypeOK, OwnBranch, KInv, NEW r \in Runs, NEW t \in Tasks, AgentStep(r, t),
         branch'[t] # branch[t]
  PROVE  \/ DeleteBranch(r, t) /\ BranchDelete(t)
         \/ /\ AddWorktree(r, t) /\ pc[r][t] = "add" /\ branch'[t] = AtBase
            /\ Holds(r, t) \/ branch[t] = NoBranch
         \/ Commit(r, t) /\ Holds(r, t) /\ branch[t] = AtBase
  <1>1. phase[r] = "agents" /\ Live(r) /\ Stage(r, t)
    BY Elsewhere DEF Live, KInv
  <1>2. CASE DeleteBranch(r, t)
    BY <1>2 DEF DeleteBranch
  <1>3. CASE AddWorktree(r, t)
    <2>1. Addable(r, t) /\ branch'[t] = AtBase /\ pc[r][t] = "add"
      BY <1>3 DEF AddWorktree, TypeOK
    <2> QED
      BY <1>1, <1>3, <2>1 DEF Addable, Holds
  <1>4. CASE Commit(r, t)
    <2>1. Working(r, t) /\ Holds(r, t)
      BY <1>1, <1>4 DEF Commit, Working, Stage, Holds
    <2>2. branch'[t] = <<r, tried[r][t]>>
      BY <1>4 DEF Commit, TypeOK
    <2> QED
      BY <1>4, <2>1, <2>2 DEF OwnBranch
  <1> QED
    BY <1>2, <1>3, <1>4 DEF AgentStep, resumeAgent, Judge

\* Who is at work on a branch after an agent's step was so before, or has just made it.
LEMMA NewHolder ==
  ASSUME TypeOK, KInv, NEW r \in Runs, NEW t \in Tasks, AgentStep(r, t),
         NEW q \in Runs, Holds(q, t)', ~Holds(q, t)
  PROVE  q = r /\ branch[t] = NoBranch
  <1>1. phase[r] = "agents" /\ Live(r) /\ UNCHANGED phase
    BY Elsewhere DEF Live
  <1>2. q = r
    BY <1>1, Elsewhere DEF Holds, Live
  <1>3. pc[r][t] # "done"
    BY DEF AgentStep, resumeAgent, DeleteBranch, AddWorktree, Commit, Judge
  <1>4. t \notin created[r] /\ t \in created'[r]
    BY <1>1, <1>2, <1>3 DEF Holds
  <1>5. AddWorktree(r, t) /\ Addable(r, t)
    BY <1>4 DEF AgentStep, resumeAgent, DeleteBranch, AddWorktree, Commit, Judge
  <1> QED
    BY <1>2, <1>4, <1>5 DEF Addable

\* The branch of an agent that is at work on it.
LEMMA HeldWork ==
  ASSUME TypeOK, OwnBranch, KInv, NEW r \in Runs, NEW t \in Tasks, AgentStep(r, t),
         t \notin pulled', NEW q \in Runs, Holds(q, t)'
  PROVE  /\ branch'[t] # NoBranch
         /\ branch'[t] \in Work => /\ branch'[t][1] = q
                                   /\ pc'[q][t] = "add" => branch'[t][2] < tried'[q][t]
         /\ \A u \in Runs : Holds(u, t)' => u = q
  <1> USE AgentsAssumption DEF AgentsAssumption
  <1>0. /\ t \notin pulled /\ Held(q, t) /\ Held(r, t) /\ Stage(r, t) /\ UNCHANGED phase
        /\ phase[r] = "agents" /\ Live(r) /\ \A u \in Runs : Holds(u, t) => Depends(u, t)
    BY Elsewhere DEF KInv, Live, Holds, Depends
  <1>1. ASSUME NEW u \in Runs, Holds(u, t)' PROVE u = q
    <2>1. CASE Holds(u, t) /\ Holds(q, t)
      BY <1>0, <2>1 DEF Held
    <2>2. CASE ~Holds(q, t)
      BY <1>0, <1>1, <2>2, NewHolder, Exclusive
    <2>3. CASE ~Holds(u, t)
      BY <1>0, <1>1, <2>3, NewHolder, Exclusive
    <2> QED
      BY <2>1, <2>2, <2>3
  <1>2. CASE q # r
    <2>1. Holds(q, t) /\ pc'[q][t] = pc[q][t] /\ tried'[q][t] = tried[q][t]
      BY <1>2, NewHolder, Elsewhere
    <2>2. branch'[t] = branch[t]
      <3>1. ASSUME branch'[t] # branch[t] PROVE FALSE
        <4>1. ~(DeleteBranch(r, t) /\ BranchDelete(t))
          BY <1>0, <2>1, DeleteChanges
        <4>2. ~Holds(r, t) /\ branch[t] # NoBranch
          BY <1>0, <1>2, <2>1 DEF Held
        <4> QED
          BY <3>1, <4>1, <4>2, Moves
      <3> QED
        BY <3>1
    <2> QED
      BY <1>0, <1>1, <2>1, <2>2 DEF Held
  <1>3. CASE q = r
    <2>0. t \in created'[r] /\ pc'[r][t] # "done"
      BY <1>3 DEF Holds
    <2>1. ~resumeAgent(r, t)
      <3>1. ASSUME resumeAgent(r, t) PROVE FALSE
        BY <1>0, <2>0, <3>1 DEF resumeAgent, Stage
      <3> QED
        BY <3>1
    <2>2. ~DeleteBranch(r, t)
      BY <1>0, <2>0 DEF DeleteBranch, Stage
    <2>3. CASE AddWorktree(r, t)
      <3>1. ~Done(r, t, "failed", NoBranch)
        BY <2>0, DoneWrites
      <3>2. branch' = [branch EXCEPT ![t] = AtBase]
        BY <2>3, <3>1 DEF AddWorktree
      <3> QED
        BY <1>1, <1>3, <3>2 DEF TypeOK
    <2>4. CASE Commit(r, t)
      <3>1. Working(r, t) /\ pc'[r][t] = "judge"
        BY <2>4, AtElse DEF Commit, Working
      <3>2. branch'[t] = <<r, tried[r][t]>> \/ branch'[t] = branch[t]
        BY <2>4 DEF Commit, TypeOK
      <3>3. branch'[t] = AtBase \/ branch'[t] = <<r, tried[r][t]>>
        BY <3>1, <3>2 DEF OwnBranch
      <3>4. <<r, tried[r][t]>> \in Work /\ <<r, tried[r][t]>>[1] = r
        BY Tables DEF Work
      <3> QED
        BY <1>1, <1>3, <3>1, <3>3, <3>4
    <2>5. CASE Judge(r, t)
      <3>1. Working(r, t) /\ UNCHANGED branch
        BY <2>5 DEF Judge, Working
      <3>2. branch'[t] = AtBase \/ branch'[t] = <<r, tried[r][t]>>
        BY <3>1 DEF OwnBranch
      <3>3. tried' = At(tried, r, t, tried[r][t] + 1)
        <4>1. \A v, h : ~Done(r, t, v, h)
          BY <2>0, DoneWrites
        <4> QED
          BY <2>5, <4>1 DEF Judge
      <3>4. tried'[r][t] = tried[r][t] + 1 /\ tried[r][t] \in Nat
        BY <3>3, AtElse, Tables
      <3>5. <<r, tried[r][t]>> \in Work /\ tried[r][t] < tried'[r][t]
        BY <3>4, Tables DEF Work
      <3> QED
        BY <1>1, <1>3, <3>2, <3>5
    <2> QED
      BY <2>1, <2>2, <2>3, <2>4, <2>5 DEF AgentStep
  <1> QED
    BY <1>1, <1>2, <1>3

\* The branch a live run is to integrate.
LEMMA HeldResult ==
  ASSUME TypeOK, TypeOK', OwnBranch, KInv, NEW r \in Runs, NEW t \in Tasks, AgentStep(r, t),
         t \notin pulled', NEW q \in Runs, Live(q)', result'[q][t] = "ok"
  PROVE  branch'[t] = sha'[q][t] \/ Discarded(sha[q][t], t)'
  <1> USE AgentsAssumption DEF AgentsAssumption
  <1>0. /\ t \notin pulled /\ Held(q, t) /\ Held(r, t) /\ Stage(r, t) /\ Stage(q, t)
        /\ UNCHANGED phase /\ Live(q) /\ Live(r)
    BY Elsewhere DEF KInv, Live
  <1>1. pc[r][t] # "done" /\ result[r][t] # "ok"
    <2>1. pc[r][t] # "done"
      BY DEF AgentStep, resumeAgent, DeleteBranch, AddWorktree, Commit, Judge
    <2> QED
      BY <1>0, <2>1 DEF Stage
  <1>2. CASE q = r
    <2>1. ASSUME NEW v, NEW h, Done(r, t, v, h), v # "ok" PROVE FALSE
      BY <1>2, <2>1, DoneWrites
    <2>2. ASSUME UNCHANGED result PROVE FALSE
      BY <1>1, <1>2, <2>2
    <2>3. Done(r, t, "ok", branch[t]) /\ UNCHANGED branch
      BY <2>1, <2>2 DEF AgentStep, resumeAgent, DeleteBranch, AddWorktree, Commit, Judge
    <2> QED
      BY <1>2, <2>3, DoneWrites
  <1>3. CASE q # r
    <2>1. result[q][t] = "ok" /\ sha'[q][t] = sha[q][t] /\ sha[q][t] \in Work
      BY <1>0, <1>3, Elsewhere DEF Stage
    <2>2. \A u \in Runs : tried[u][t] <= tried'[u][t]
      <3>1. \A u \in Runs : tried[u][t] \in Nat
        BY Tables
      <3> QED
        BY <3>1, Elsewhere
    <2>3. CASE Discarded(sha[q][t], t)
      BY <2>1, <2>2, <2>3, StaysDiscarded DEF Discarded
    <2>4. CASE branch[t] = sha[q][t] /\ branch'[t] # branch[t]
      <3>1. branch[t] \in Work /\ branch[t] # NoBranch /\ branch[t] # AtBase
        BY <2>1, <2>4
      <3>2. ~(DeleteBranch(r, t) /\ BranchDelete(t))
        BY <1>0, <2>1, DeleteChanges DEF Depends
      <3>3. Holds(r, t) /\ pc[r][t] = "add"
        BY <2>4, <3>1, <3>2, Moves
      <3>4. Discarded(sha[q][t], t)
        BY <1>0, <2>4, <3>1, <3>3 DEF Held, Discarded
      <3> QED
        BY <2>1, <2>2, <3>4, StaysDiscarded DEF Discarded
    <2>5. CASE branch[t] = sha[q][t] /\ branch'[t] = branch[t]
      BY <2>1, <2>5
    <2> QED
      BY <1>0, <2>1, <2>3, <2>4, <2>5 DEF Held
  <1> QED
    BY <1>2, <1>3

LEMMA HeldStep ==
  ASSUME TypeOK, TypeOK', OwnBranch, KInv, NEW r \in Runs, NEW t \in Tasks, AgentStep(r, t),
         NEW q \in Runs, NEW s \in Tasks, s \notin pulled'
  PROVE  Held(q, s)'
  <1>1. CASE s = t
    <2>1. /\ Holds(q, t)' => /\ branch'[t] # NoBranch
                             /\ branch'[t] \in Work =>
                                  /\ branch'[t][1] = q
                                  /\ pc'[q][t] = "add" => branch'[t][2] < tried'[q][t]
                             /\ \A u \in Runs : Holds(u, t)' => u = q
      BY <1>1, HeldWork
    <2>2. Live(q)' /\ result'[q][t] = "ok"
             => branch'[t] = sha'[q][t] \/ Discarded(sha[q][t], t)'
      BY <1>1, HeldResult
    <2> QED
      BY <1>1, <2>1, <2>2 DEF Held
  <1>2. CASE s # t
    <2>1. Held(q, s) /\ Stage(q, s) /\ UNCHANGED phase /\ branch'[s] = branch[s]
      BY <1>2, Elsewhere DEF KInv
    <2>2. \A u \in Runs : /\ tried'[u][s] = tried[u][s] /\ Holds(u, s)' = Holds(u, s)
                          /\ pc'[u][s] = pc[u][s]
      BY <1>2, <2>1, Elsewhere DEF Holds, Live
    <2>3. /\ result'[q][s] = result[q][s] /\ sha'[q][s] = sha[q][s] /\ Live(q)' = Live(q)
      BY <1>2, <2>1, Elsewhere DEF Live
    <2>4. sha[q][s] \in Work => sha[q][s][1] \in Runs
      BY DEF Work
    <2>5. result[q][s] = "ok" => Discarded(sha[q][s], s)' = Discarded(sha[q][s], s)
      BY <2>1, <2>2, <2>3, <2>4 DEF Stage, Discarded
    <2> QED
      BY <2>1, <2>2, <2>3, <2>5 DEF Held
  <1> QED
    BY <1>1, <1>2

\* No gc that nothing overtook is about when an agent lives.
LEMMA NoSweep ==
  ASSUME KInv, NEW r \in Runs, Live(r), NEW g \in Collectors, doomed[g] # {}
  PROVE  g \in swept /\ g \in overtaken
  BY DEF KInv, Sweep

LEMMA AgentKeeps ==
  ASSUME TypeOK, TypeOK', OwnBranch, KInv, NEW r \in Runs, NEW t \in Tasks, AgentStep(r, t)
  PROVE  KInv'
  <1>1. ASSUME NEW q \in Runs, NEW s \in Tasks PROVE Stage(q, s)'
    <2>1. CASE q = r /\ s = t
      BY <2>1, StageStep
    <2>2. CASE q # r \/ s # t
      BY <2>2, Elsewhere DEF KInv, Stage
    <2> QED
      BY <2>1, <2>2
  <1>2. \A q \in Runs, s \in Tasks : s \notin pulled' => Held(q, s)'
    BY HeldStep
  <1>3. \A g \in Collectors : Sweep(g)'
    <2>1. Live(r) /\ UNCHANGED <<doomed, swept, overtaken>>
      BY Elsewhere DEF Live, gcs
    <2> QED
      BY <2>1, NoSweep DEF Sweep
  <1>4. UsesWhatItRead'
    <2>1. ASSUME NEW q \in Runs, phase'[q] \in {"integrated", "end"}, NEW s \in okTasks(q)'
          PROVE  used'[q][s] = sha'[q][s] \/ s \in pulled' \/ Discarded(sha[q][s], s)'
      <3>1. q # r /\ phase[q] \in {"integrated", "end"} /\ UNCHANGED used
        BY <2>1, Elsewhere
      <3>2. s \in okTasks(q) /\ Stage(q, s) /\ sha'[q][s] = sha[q][s] /\ s \in Tasks
        BY <2>1, <3>1, Elsewhere DEF okTasks, KInv
      <3>3. sha[q][s] \in Work
        BY <3>2 DEF okTasks, Stage
      <3>4. \A u \in Runs : tried[u][s] <= tried'[u][s]
        <4>1. \A u \in Runs : tried[u][s] \in Nat
          BY <3>2, Tables
        <4> QED
          BY <3>2, <4>1, Elsewhere
      <3>5. tried[sha[q][s][1]][s] > sha[q][s][2] => tried'[sha[q][s][1]][s] > sha[q][s][2]
        BY <3>2, <3>3, <3>4, StaysDiscarded
      <3>6. used[q][s] = sha[q][s] \/ s \in pulled \/ tried[sha[q][s][1]][s] > sha[q][s][2]
        BY <3>1, <3>2 DEF KInv, UsesWhatItRead, Discarded
      <3> QED
        BY <3>1, <3>2, <3>5, <3>6, Elsewhere DEF Discarded
    <2> QED
      BY <2>1 DEF UsesWhatItRead
  <1> QED
    BY <1>1, <1>2, <1>3, <1>4 DEF KInv

-----------------------------------------------------------------------------
(* The other steps.                                                          *)

\* Where a step only lets runs end, what a live run holds stays.
LEMMA HeldStands ==
  ASSUME UNCHANGED <<branch, tried, created, result, sha, pc, pulled>>, NEW t \in Tasks,
         \A u \in Runs : Live(u)' => Live(u) \/ (t \notin created[u] /\ result[u][t] # "ok"),
         NEW q \in Runs, t \notin pulled => Held(q, t), t \notin pulled'
  PROVE  Held(q, t)'
  <1>1. \A u \in Runs : Holds(u, t)' => Holds(u, t)
    BY DEF Holds
  <1> QED
    BY <1>1 DEF Held, Discarded

\* What runs integrated stays as it was, where a step neither integrates nor judges.
LEMMA UsedStands ==
  ASSUME UsesWhatItRead, UNCHANGED <<tried, result, sha, used>>, pulled \subseteq pulled',
         \A q \in Runs : phase'[q] \in {"integrated", "end"} => phase[q] \in {"integrated", "end"}
  PROVE  UsesWhatItRead'
  BY DEF UsesWhatItRead, okTasks, Discarded

\* Where no run is resumable or parked that was not, a plan stands.
LEMMA SweepStands ==
  ASSUME TypeOK, UNCHANGED <<result, swept>>, old \subseteq old', overtaken \subseteq overtaken',
         \A t \in Tasks : branch'[t] \in {NoBranch, branch[t]},
         NEW g \in Collectors, Sweep(g), doomed'[g] \subseteq doomed[g],
         g \notin overtaken' => \A r \in Runs : Live(r)' => Live(r),
         g \notin overtaken' => \A r \in Runs : /\ status'[r] = "awaiting-ack" => status[r] = "awaiting-ack"
                                                /\ Resumable(r)' => Resumable(r)
  PROVE  Sweep(g)'
  <1>1. ASSUME doomed'[g] # {}, g \notin overtaken', NEW t \in doomed'[g] PROVE Sweepable(g, t)'
    <2>1. t \in Tasks /\ Sweepable(g, t) /\ (branch[t] \in Work => branch[t][1] \in Runs)
      BY <1>1 DEF Sweep, TypeOK, Work
    <2>2. t \notin loadParkedBranches => t \notin loadParkedBranches'
      BY <1>1 DEF loadParkedBranches, okTasks
    <2> QED
      BY <1>1, <2>1, <2>2 DEF Sweepable
  <1> QED
    BY <1>1 DEF Sweep

LEMMA BeginKeeps == ASSUME TypeOK, KInv, NEW r \in Runs, Begin(r) PROVE KInv'
  <1>0. /\ phase[r] = "idle" /\ phase'[r] = "agents"
        /\ \A q \in Runs : q # r => phase'[q] = phase[q] /\ \A t \in Tasks : pc'[q][t] = pc[q][t]
        /\ \A t \in Tasks : pc'[r][t] \in {"look", "add"}
        /\ overtaken' = overtaken \union swept
        /\ UNCHANGED <<branch, old, tried, created, result, sha, used, filed, doomed, swept, pulled>>
    BY DEF Begin, TypeOK
  <1>1. \A t \in Tasks : t \notin created[r] /\ result[r][t] # "ok"
    BY <1>0 DEF KInv, Stage
  <1>2. ASSUME NEW q \in Runs, NEW t \in Tasks PROVE Stage(q, t)'
    BY <1>0, <1>1 DEF KInv, Stage
  <1>3. ASSUME NEW q \in Runs, NEW t \in Tasks, t \notin pulled' PROVE Held(q, t)'
    <2>1. \A u \in Runs : Holds(u, t)' <=> Holds(u, t)
      BY <1>0, <1>1 DEF Holds, Live
    <2>2. Live(q)' /\ result[q][t] = "ok" => Live(q)
      BY <1>0, <1>1 DEF Live
    <2>3. Held(q, t) /\ (Holds(q, t) => pc'[q][t] = pc[q][t])
      BY <1>0, <1>1, <1>3 DEF KInv, Holds
    <2> QED
      BY <1>0, <2>1, <2>2, <2>3 DEF Held, Discarded
  <1>4. \A g \in Collectors : Sweep(g)'
    BY <1>0 DEF KInv, Sweep
  <1>5. UsesWhatItRead'
    BY <1>0, UsedStands DEF KInv
  <1> QED
    BY <1>2, <1>3, <1>4, <1>5 DEF KInv

LEMMA IntegrateKeeps == ASSUME TypeOK, KInv, NEW r \in Runs, Integrate(r) PROVE KInv'
  <1>0. /\ phase[r] = "agents" /\ phase'[r] = "integrated"
        /\ \A q \in Runs : q # r => phase'[q] = phase[q] /\ used'[q] = used[q]
        /\ used'[r] = [t \in Tasks |-> IF t \in okTasks(r) THEN branch[t] ELSE NoBranch]
        /\ UNCHANGED <<branch, old, pc, tried, created, result, sha, status, filed, doomed,
                       swept, overtaken, pulled>>
        /\ \A q \in Runs : Live(q)' <=> Live(q)
    BY DEF Integrate, TypeOK, agents, gcs, Live
  <1>1. \A q \in Runs, t \in Tasks : Stage(q, t)'
    BY <1>0 DEF KInv, Stage
  <1>2. \A q \in Runs, t \in Tasks : t \notin pulled' => Held(q, t)'
    BY <1>0, HeldStands DEF KInv
  <1>3. \A g \in Collectors : Sweep(g)'
    BY <1>0, NoSweep DEF Sweep, Live
  <1>4. UsesWhatItRead'
    <2>1. ASSUME NEW t \in okTasks(r)
          PROVE  used'[r][t] = sha[r][t] \/ t \in pulled \/ Discarded(sha[r][t], t)
      <3>1. t \in Tasks /\ result[r][t] = "ok" /\ (t \notin pulled => Held(r, t))
        BY <2>1 DEF okTasks, KInv
      <3> QED
        BY <1>0, <2>1, <3>1 DEF Held, Live
    <2> QED
      BY <1>0, <2>1 DEF KInv, UsesWhatItRead, okTasks, Discarded
  <1> QED
    BY <1>1, <1>2, <1>3, <1>4 DEF KInv

\* Runs that end, die or are resolved.
LEMMA EndKeeps ==
  ASSUME TypeOK, KInv, NEW r \in Runs, End(r) \/ Kill(r) \/ Resolve(r) PROVE KInv'
  <1>0. /\ \A q \in Runs : phase'[q] = "idle" <=> phase[q] = "idle"
        /\ \A q \in Runs : phase'[q] \in {"integrated", "end"} => phase[q] \in {"integrated", "end"}
        /\ \A q \in Runs : Live(q)' => Live(q)
        /\ UNCHANGED <<branch, old, pc, tried, created, result, sha, used, doomed, swept,
                       overtaken, pulled>>
    BY DEF End, Kill, Resolve, TypeOK, agents, gcs, Live
  <1>1. \A q \in Runs, t \in Tasks : Stage(q, t)'
    BY <1>0 DEF KInv, Stage
  <1>2. \A q \in Runs, t \in Tasks : t \notin pulled' => Held(q, t)'
    BY <1>0, HeldStands DEF KInv
  <1>3. ASSUME NEW g \in Collectors PROVE Sweep(g)'
    <2>1. CASE Live(r)
      BY <1>0, <2>1, NoSweep DEF Sweep
    <2>2. CASE Resolve(r)
      <3>1. /\ UNCHANGED filed
            /\ \A q \in Runs : status'[q] = status[q] \/ status'[q] = "done"
        BY <2>2 DEF Resolve, TypeOK
      <3> QED
        BY <1>0, <3>1, SweepStands DEF KInv, Resumable, Finished
    <2> QED
      BY <2>1, <2>2 DEF End, Kill, Live
  <1>4. UsesWhatItRead'
    BY <1>0, UsedStands DEF KInv
  <1> QED
    BY <1>1, <1>2, <1>3, <1>4 DEF KInv

\* Time passes; gc plans, prunes and deletes.
LEMMA AgeKeeps ==
  ASSUME TypeOK, KInv, (\E t \in Tasks : Age(t)) \/ (\E g \in Collectors : Prune(g)) PROVE KInv'
  <1>0. /\ UNCHANGED <<branch, phase, pc, tried, created, result, sha, used, status, filed,
                       doomed, swept, overtaken, pulled>>
        /\ old \subseteq old'
    BY DEF Age, Prune, agents, gcs
  <1>1. \A q \in Runs, t \in Tasks : Stage(q, t)'
    BY <1>0 DEF KInv, Stage
  <1>2. \A q \in Runs, t \in Tasks : t \notin pulled' => Held(q, t)'
    BY <1>0, HeldStands DEF KInv, Live
  <1>3. \A g \in Collectors : Sweep(g)'
    BY <1>0, SweepStands DEF KInv, Resumable, Finished, Live
  <1>4. UsesWhatItRead'
    BY <1>0, UsedStands DEF KInv
  <1> QED
    BY <1>1, <1>2, <1>3, <1>4 DEF KInv

LEMMA PlanKeeps == ASSUME TypeOK, KInv, NEW g \in Collectors, Plan(g) PROVE KInv'
  <1>0. /\ UNCHANGED <<branch, old, phase, pc, tried, created, result, sha, used, status, filed,
                       pulled>>
        /\ doomed'[g] = gcPlanFor(g) /\ \A h \in Collectors : h # g => doomed'[h] = doomed[h]
        /\ swept' = swept \union {g} /\ overtaken \subseteq overtaken'
        /\ g \notin overtaken' => \A r \in Runs : ~Live(r)
        /\ \A h \in Collectors : h # g /\ h \in overtaken' => h \in overtaken
    BY DEF Plan, agents, TypeOK
  <1>1. \A q \in Runs, t \in Tasks : Stage(q, t)'
    BY <1>0 DEF KInv, Stage
  <1>2. \A q \in Runs, t \in Tasks : t \notin pulled' => Held(q, t)'
    BY <1>0, HeldStands DEF KInv, Live
  <1>3. ASSUME NEW t \in gcPlanFor(g) PROVE Sweepable(g, t)'
    <2>1. /\ t \in Tasks /\ t \in old /\ branch[t] # NoBranch /\ t \notin loadParkedBranches
          /\ g \in Forcing \/ t \notin loadProtectedBranches
      BY <1>3 DEF gcPlanFor, TypeOK
    <2>2. g \in Forcing \/ \A r \in Runs : ~Resumable(r)
      BY <2>1 DEF loadProtectedBranches, Resumable
    <2>3. branch[t] \in Work => branch[t][1] \in Runs
      BY DEF Work
    <2>4. t \notin loadParkedBranches'
      BY <1>0, <2>1 DEF loadParkedBranches, okTasks
    <2> QED
      BY <1>0, <2>1, <2>2, <2>3, <2>4 DEF Sweepable, Resumable, Finished
  <1>4. Sweep(g)'
    BY <1>0, <1>3 DEF Sweep, Live
  <1>5. ASSUME NEW h \in Collectors, h # g PROVE Sweep(h)'
    <2>1. Sweep(h) /\ doomed[h] \subseteq Tasks
      BY DEF KInv, TypeOK
    <2>2. \A t \in Tasks : Sweepable(h, t)' <=> Sweepable(h, t)
      BY <1>0 DEF Sweepable, loadParkedBranches, okTasks, Resumable, Finished
    <2> QED
      BY <1>0, <1>5, <2>1, <2>2 DEF Sweep, Live
  <1>6. UsesWhatItRead'
    BY <1>0, UsedStands DEF KInv
  <1> QED
    BY <1>1, <1>2, <1>4, <1>5, <1>6 DEF KInv

LEMMA DeleteKeeps == ASSUME TypeOK, KInv, NEW g \in Collectors, Delete(g) PROVE KInv'
  <1> PICK t \in doomed[g] : /\ BranchDelete(t) \/ UNCHANGED <<branch, pulled>>
                             /\ \/ doomed' = [doomed EXCEPT ![g] = @ \ {t}]
                                \/ doomed' = [doomed EXCEPT ![g] = {}]
    BY DEF Delete
  <1>0. /\ t \in Tasks
        /\ UNCHANGED <<old, phase, pc, tried, created, result, sha, used, status, filed, swept,
                       overtaken>>
        /\ \A s \in Tasks : s # t => branch'[s] = branch[s] /\ (s \in pulled' => s \in pulled)
        /\ branch'[t] \in {NoBranch, branch[t]} /\ pulled \subseteq pulled'
        /\ branch'[t] # branch[t] /\ t \notin pulled' => \A r \in Runs : ~Depends(r, t)
        /\ \A h \in Collectors : doomed'[h] \subseteq doomed[h]
    <2>1. t \in Tasks /\ \A h \in Collectors : doomed'[h] \subseteq doomed[h]
      BY DEF TypeOK
    <2>2. UNCHANGED <<old, phase, pc, tried, created, result, sha, used, status, filed, swept,
                      overtaken>>
      BY DEF Delete, agents
    <2>3. CASE BranchDelete(t)
      BY <2>1, <2>2, <2>3, DeleteChanges
    <2>4. CASE UNCHANGED <<branch, pulled>>
      BY <2>1, <2>2, <2>4
    <2> QED
      BY <2>3, <2>4
  <1>1. \A q \in Runs, s \in Tasks : Stage(q, s)'
    BY <1>0 DEF KInv, Stage
  <1>2. ASSUME NEW q \in Runs, NEW s \in Tasks, s \notin pulled' PROVE Held(q, s)'
    <2>1. Held(q, s) /\ s \notin pulled
      BY <1>0, <1>2 DEF KInv
    <2>2. \A u \in Runs : Holds(u, s)' <=> Holds(u, s)
      BY <1>0 DEF Holds, Live
    <2>3. CASE branch'[s] = branch[s]
      BY <1>0, <2>1, <2>2, <2>3 DEF Held, Discarded, Live
    <2>4. CASE branch'[s] # branch[s]
      <3>1. ~Depends(q, s)
        BY <1>0, <1>2, <2>4
      <3>2. ~Holds(q, s) /\ ~(Live(q) /\ result[q][s] = "ok")
        BY <3>1 DEF Depends, Holds
      <3> QED
        BY <1>0, <2>2, <3>2 DEF Held, Live
    <2> QED
      BY <2>3, <2>4
  <1>3. \A h \in Collectors : Sweep(h)'
    BY <1>0, SweepStands DEF KInv, Resumable, Finished, Live
  <1>4. UsesWhatItRead'
    BY <1>0, UsedStands DEF KInv
  <1> QED
    BY <1>1, <1>2, <1>3, <1>4 DEF KInv

LEMMA KeptAtFirst == Init => KInv
  <1> SUFFICES ASSUME Init PROVE KInv
    OBVIOUS
  <1>1. \A r \in Runs, t \in Tasks : Stage(r, t) /\ Held(r, t)
    BY DEF Init, Stage, Held, Holds, Live
  <1>2. UsesWhatItRead /\ \A g \in Collectors : Sweep(g)
    BY DEF Init, UsesWhatItRead, Sweep
  <1> QED
    BY <1>1, <1>2 DEF KInv

LEMMA KeptStep == TypeOK /\ TypeOK' /\ OwnBranch /\ KInv /\ [Next]_vars => KInv'
  <1> SUFFICES ASSUME TypeOK, TypeOK', OwnBranch, KInv, [Next]_vars PROVE KInv'
    OBVIOUS
  <1>1. CASE UNCHANGED vars
    <2> USE <1>1 DEF vars
    <2>1. \A q \in Runs, t \in Tasks : Stage(q, t)'
      BY DEF KInv, Stage
    <2>2. \A q \in Runs, t \in Tasks : t \notin pulled' => Held(q, t)'
      BY HeldStands DEF KInv, Live
    <2>3. \A g \in Collectors : Sweep(g)'
      BY SweepStands DEF KInv, Resumable, Finished, Live
    <2>4. UsesWhatItRead'
      BY UsedStands DEF KInv
    <2> QED
      BY <2>1, <2>2, <2>3, <2>4 DEF KInv
  <1> QED
    BY <1>1, AgentKeeps, BeginKeeps, IntegrateKeeps, EndKeeps, AgeKeeps, PlanKeeps, DeleteKeeps
       DEF Next, RunStep, applyGC

\* What a run integrates are the very commits whose write-sets its agent phase read
\* and judged, although it resolves the branches by name a second time; but for a
\* branch deleted under a live run, and for an attempt that its own run discarded
\* after a -resume took it over.  For any overlap of any number of runs, resumes,
\* retries and collections, with kills anywhere (run.go resumeAgent, runAgent,
\* resolveTips; gc.go applyGC).
THEOREM IntegratesWhatWasJudged == Spec => []UsesWhatItRead
  <1>1. Init => TypeOK /\ OwnBranch /\ KInv
    BY InitOK, KeptAtFirst
  <1>2. (TypeOK /\ OwnBranch /\ KInv) /\ [Next]_vars => (TypeOK /\ OwnBranch /\ KInv)'
    BY TypeStep, OwnStep, KeptStep
  <1>3. TypeOK /\ OwnBranch /\ KInv => UsesWhatItRead
    BY DEF KInv
  <1> QED
    BY <1>1, <1>2, <1>3, PTL DEF Spec

\* How committed work may leave its branch.
Allowed(t) ==
    \/ \E r \in Runs : TriesAgain(r, t) /\ (r = branch[t][1] \/ t \in pulled)
    \/ \E r \in Runs : Clears(r, t)
    \/ \E g \in Collectors : Sweeps(g, t) /\
         \/ g \in overtaken
         \/ /\ t \in old /\ t \notin loadParkedBranches
            /\ \A r \in Runs : ~Depends(r, t)
            /\ g \in Forcing \/ ~Resumable(branch[t][1])

\* Who moves a branch that has work: who tries again on it, who clears it, or gc.
LEMMA WorkMoves ==
  ASSUME TypeOK, OwnBranch, KInv, Next, NEW t \in Tasks, branch[t] \in Work, branch'[t] # branch[t]
  PROVE  Allowed(t)
  <1> USE AgentsAssumption DEF AgentsAssumption
  <1>0. branch[t] # NoBranch /\ branch[t] # AtBase
    OBVIOUS
  <1>1. ASSUME NEW r \in Runs, NEW s \in Tasks, AgentStep(r, s) PROVE Allowed(t)
    <2>1. s = t /\ Stage(r, t) /\ (t \notin pulled => Held(r, t))
      BY <1>1, Elsewhere DEF KInv
    <2>2. CASE DeleteBranch(r, t)
      <3>1. pc[r][t] = "clear" /\ pc'[r][t] = "add"
        BY <2>2, AtElse DEF DeleteBranch
      <3> QED
        BY <3>1 DEF Allowed, Clears
    <2>3. CASE AddWorktree(r, t) /\ pc[r][t] = "add" /\ Holds(r, t)
      <3>1. pc'[r][t] # "add"
        BY <2>3, AtElse, DoneWrites DEF AddWorktree
      <3>2. tried[r][t] > 0 /\ (t \notin pulled => branch[t][1] = r)
        BY <2>1, <2>3 DEF Stage, Holds, Held
      <3> QED
        BY <2>3, <3>1, <3>2 DEF Allowed, TriesAgain
    <2> QED
      BY <1>0, <1>1, <2>1, <2>2, <2>3, Moves
  <1>2. ASSUME NEW g \in Collectors, Delete(g) PROVE Allowed(t)
    <2>1. PICK s \in doomed[g] : /\ BranchDelete(s) \/ UNCHANGED branch
                                 /\ \/ doomed' = [doomed EXCEPT ![g] = @ \ {s}]
                                    \/ doomed' = [doomed EXCEPT ![g] = {}]
      BY <1>2 DEF Delete
    <2>2. s = t /\ t \notin doomed'[g]
      <3>1. s \in Tasks
        BY DEF TypeOK
      <3> QED
        BY <2>1, <3>1, DeleteChanges DEF TypeOK
    <2>3. Sweeps(g, t)
      BY <2>2 DEF Sweeps
    <2>4. g \notin overtaken => (\A r \in Runs : ~Live(r)) /\ Sweepable(g, t)
      BY <2>2 DEF KInv, Sweep
    <2> QED
      BY <1>0, <2>3, <2>4 DEF Allowed, Sweepable, Depends
  <1>3. \A r \in Runs : ~Begin(r) /\ ~Integrate(r) /\ ~End(r) /\ ~Resolve(r) /\ ~Kill(r)
    BY DEF Begin, Integrate, End, Resolve, Kill
  <1>4. (\A s \in Tasks : ~Age(s)) /\ (\A g \in Collectors : ~Plan(g) /\ ~Prune(g))
    BY DEF Age, Plan, Prune
  <1> QED
    BY <1>1, <1>2, <1>3, <1>4 DEF Next, RunStep, applyGC

\* Committed work leaves its branch only when the run that made it tries the task
\* again, when a run does so whose own branch was deleted under it, when a -resume
\* clears what it had seen at the base, or when gc takes it, and then (unless a run
\* was live when that gc planned, or has begun since) it is old, unparked, in no live
\* run's hands, and of a finished or unreported run (or -force).  For any overlap of
\* any number of runs, resumes, retries and collections, with kills anywhere (run.go
\* runAgent, resumeAgent; gc.go).
THEOREM WorkIsKept == Spec => WorkSurvives
  <1>1. Init => TypeOK /\ OwnBranch /\ KInv
    BY InitOK, KeptAtFirst
  <1>2. (TypeOK /\ OwnBranch /\ KInv) /\ [Next]_vars => (TypeOK /\ OwnBranch /\ KInv)'
    BY TypeStep, OwnStep, KeptStep
  <1>3. (TypeOK /\ OwnBranch /\ KInv) /\ [Next]_vars =>
          [\A t \in Tasks : branch[t] \in Work /\ branch'[t] # branch[t] =>
             \/ \E r \in Runs : TriesAgain(r, t) /\ (r = branch[t][1] \/ t \in pulled)
             \/ \E r \in Runs : Clears(r, t)
             \/ \E g \in Collectors : Sweeps(g, t) /\
                  \/ g \in overtaken
                  \/ /\ t \in old /\ t \notin loadParkedBranches
                     /\ \A r \in Runs : ~Depends(r, t)
                     /\ g \in Forcing \/ ~Resumable(branch[t][1])]_vars
    BY WorkMoves DEF Allowed
  <1> QED
    BY <1>1, <1>2, <1>3, PTL DEF Spec, WorkSurvives

-----------------------------------------------------------------------------
(* The parallel integrator.  First, numbers.                                *)

\* A set of numbers that is not empty has a least one.
LEMMA LeastNumber == ASSUME NEW S \in SUBSET Nat, S # {} PROVE \E n \in S : \A m \in S : n <= m
  <1> DEFINE Lt == {ss \in Nat \X Nat : ss[1] < ss[2]}
  <1>1. IsWellFoundedOn(Lt, Nat)
    BY NatLessThanWellFounded DEF OpToRel
  <1> HIDE DEF Lt
  <1>2. PICK n \in S : \A m \in S : ~(<<m, n>> \in Lt)
    BY <1>1, WFMin, Zenon
  <1>3. \A m \in S : m \in Nat /\ n \in Nat /\ ~(m < n)
    BY <1>2 DEF Lt
  <1> QED
    BY <1>3

\* What holds of 0, and of n + 1 when it holds of n < m, holds up to m.
LEMMA UpTo ==
  ASSUME NEW m \in Nat, NEW S, 0 \in S, \A n \in 0..(m - 1) : n \in S => n + 1 \in S
  PROVE  \A n \in 0..m : n \in S
  <1> DEFINE T == {n \in 0..m : n \notin S}
  <1>1. ASSUME T # {} PROVE FALSE
    <2>1. T \in SUBSET Nat
      OBVIOUS
    <2>2. PICK n \in T : \A k \in T : n <= k
      BY <1>1, <2>1, LeastNumber
    <2>3. n # 0 /\ n - 1 \in 0..(m - 1)
      BY <2>2
    <2>4. n - 1 \in S
      BY <2>2, <2>3
    <2> QED
      BY <2>2, <2>3, <2>4
  <1> QED
    BY <1>1

\* The least of a set of branches.
LEMMA LeastBranch ==
  ASSUME NEW S \in SUBSET Branch, S # {}
  PROVE  least(S) \in S /\ \A c \in S : least(S) <= c
  <1>1. S \in SUBSET Nat
    BY DEF Branch
  <1>2. \E b \in S : \A c \in S : b <= c
    BY <1>1, LeastNumber
  <1> QED
    BY <1>2, Zenon DEF least

-----------------------------------------------------------------------------
(* Union-find.  Ranks grow along the links, so that find reaches a root     *)
(* before it runs out of turns; and whatever tells the roots of the         *)
(* branches (rt) before find has halved their paths tells them afterwards.  *)

Ranked(up, rk) == \A x \in Branch : up[x] = x \/ rk[x] < rk[up[x]]

Roots(up, rt) ==
    /\ rt \in [Branch -> Branch]
    /\ \A x \in Branch : rt[x] = rt[up[x]] /\ up[rt[x]] = rt[x] /\ (up[x] = x => rt[x] = x)

Higher(rk, x) == {y \in Branch : rk[x] < rk[y]}

\* Fewer branches rank above a branch the higher it ranks itself.
LEMMA FewerHigher ==
  ASSUME NEW rk \in [Branch -> Nat], NEW x \in Branch
  PROVE  /\ Cardinality(Higher(rk, x)) \in Nat /\ Cardinality(Higher(rk, x)) < N
         /\ \A y \in Branch : rk[x] < rk[y] => Cardinality(Higher(rk, y)) < Cardinality(Higher(rk, x))
  <1>1. IsFiniteSet(Branch) /\ Cardinality(Branch) = N
    BY FS_Interval, OccAssumption DEF Branch, OccAssumption
  <1>2. IsFiniteSet(Higher(rk, x)) /\ Cardinality(Higher(rk, x)) \in Nat
    BY <1>1, FS_Subset, FS_CardinalityType DEF Higher
  <1>3. Cardinality(Higher(rk, x)) < N
    <2>1. Higher(rk, x) \subseteq Branch /\ Higher(rk, x) # Branch
      BY DEF Higher
    <2> QED
      BY <1>1, <1>2, <2>1, FS_Subset, OccAssumption DEF OccAssumption
  <1>4. ASSUME NEW y \in Branch, rk[x] < rk[y]
        PROVE  Cardinality(Higher(rk, y)) < Cardinality(Higher(rk, x))
    <2>1. Higher(rk, y) \subseteq Higher(rk, x) /\ y \in Higher(rk, x) /\ y \notin Higher(rk, y)
      BY <1>4 DEF Higher
    <2> QED
      BY <1>2, <2>1, FS_Subset, FS_CardinalityType
  <1> QED
    BY <1>2, <1>3, <1>4

\* One turn of find.
LEMMA HalveKeeps ==
  ASSUME NEW rk \in [Branch -> Nat], NEW rt, NEW at,
         at = [root |-> at.root, parent |-> at.parent],
         at.root \in Branch, at.parent \in [Branch -> Branch],
         Ranked(at.parent, rk), Roots(at.parent, rt)
  PROVE  /\ halve(at) = [root |-> halve(at).root, parent |-> halve(at).parent]
         /\ halve(at).root \in Branch /\ halve(at).parent \in [Branch -> Branch]
         /\ Ranked(halve(at).parent, rk) /\ Roots(halve(at).parent, rt)
         /\ rt[halve(at).root] = rt[at.root]
         /\ at.parent[at.root] = at.root => halve(at) = at
         /\ at.parent[at.root] # at.root => rk[at.root] < rk[halve(at).root]
  <1>1. CASE at.parent[at.root] = at.root
    <2>1. halve(at) = at
      BY <1>1 DEF halve
    <2> QED
      BY <1>1, <2>1
  <1>2. CASE at.parent[at.root] # at.root
    <2> DEFINE x == at.root
               p == at.parent[x]
               up == at.parent[p]
    <2>1. halve(at) = [root |-> up, parent |-> [at.parent EXCEPT ![x] = up]]
      BY <1>2 DEF halve
    <2>2. halve(at).root = up /\ halve(at).parent = [at.parent EXCEPT ![x] = up]
      BY <2>1
    <2>3. x \in Branch /\ p \in Branch /\ up \in Branch /\ p # x
      BY <1>2
    <2>4. rk[x] < rk[p] /\ (up = p \/ rk[p] < rk[up])
      BY <2>3 DEF Ranked
    <2>5. rk[x] < rk[up] /\ up # x
      BY <2>3, <2>4
    <2>6. rt[up] = rt[x]
      BY <2>3 DEF Roots
    <2> HIDE DEF x, p, up
    <2>7. at.parent[x] # x
      BY <2>3 DEF p
    <2>8. \A y \in Branch : halve(at).parent[y] = IF y = x THEN up ELSE at.parent[y]
      BY <2>2, <2>3
    <2>9. Ranked(halve(at).parent, rk)
      BY <2>3, <2>5, <2>8 DEF Ranked
    <2>10. Roots(halve(at).parent, rt)
      <3>1. rt \in [Branch -> Branch]
        BY DEF Roots
      <3>2. ASSUME NEW y \in Branch
            PROVE  rt[y] = rt[halve(at).parent[y]] /\ halve(at).parent[rt[y]] = rt[y]
                   /\ (halve(at).parent[y] = y => rt[y] = y)
        <4>1. rt[y] = rt[at.parent[y]] /\ at.parent[rt[y]] = rt[y] /\ (at.parent[y] = y => rt[y] = y)
          BY DEF Roots
        <4>2. rt[y] # x
          BY <2>7, <4>1
        <4> QED
          BY <2>3, <2>5, <2>6, <2>8, <3>1, <4>1, <4>2
      <3> QED
        BY <3>1, <3>2 DEF Roots
    <2>11. halve(at).parent \in [Branch -> Branch]
      BY <2>2, <2>3
    <2> QED
      BY <1>2, <2>1, <2>2, <2>3, <2>5, <2>6, <2>9, <2>10, <2>11 DEF x
  <1> QED
    BY <1>1, <1>2

\* The recursion in find is well founded: there is a function that satisfies it.
LEMMA ClimbDefined ==
  ASSUME NEW up, NEW x
  PROVE  \E climb : /\ climb = [n \in 0..N |-> IF n = 0 THEN [root |-> x, parent |-> up]
                                              ELSE halve(climb[n - 1])]
                    /\ find(up, x) = climb[N]
  <1> DEFINE start == [root |-> x, parent |-> up]
             Climbs(c, m) == c = [n \in 0..m |-> IF n = 0 THEN start ELSE halve(c[n - 1])]
             S == {m \in 0..N : \E c : Climbs(c, m)}
  <1>0. N \in Nat
    BY OccAssumption DEF OccAssumption
  <1> HIDE DEF start
  <1>1. 0 \in S
    <2> DEFINE c == [n \in 0..0 |-> start]
    <2>1. Climbs(c, 0)
      OBVIOUS
    <2> HIDE DEF c, Climbs
    <2> QED
      BY <1>0, <2>1
  <1>2. ASSUME NEW m \in 0..(N - 1), m \in S PROVE m + 1 \in S
    <2>1. PICK c : Climbs(c, m)
      BY <1>2
    <2> DEFINE d == [n \in 0..(m + 1) |-> IF n = m + 1 THEN halve(c[m]) ELSE c[n]]
    <2>2. \A n \in 0..m : c[n] = IF n = 0 THEN start ELSE halve(c[n - 1])
      BY <2>1
    <2>3. \A n \in 0..(m + 1) : d[n] = IF n = 0 THEN start ELSE halve(d[n - 1])
      <3> TAKE n \in 0..(m + 1)
      <3>1. CASE n = 0
        BY <3>1, <2>2, <1>0
      <3>2. CASE n \in 1..m
        <4>1. d[n] = c[n] /\ d[n - 1] = c[n - 1]
          BY <3>2, <1>0
        <4> QED
          BY <3>2, <4>1, <2>2, <1>0
      <3>3. CASE n = m + 1
        <4>1. d[n] = halve(c[m]) /\ d[n - 1] = c[m] /\ n # 0
          BY <3>3, <1>0
        <4> QED
          BY <4>1
      <3> QED
        BY <3>1, <3>2, <3>3, <1>0
    <2>4. d = [n \in 0..(m + 1) |-> d[n]]
      OBVIOUS
    <2> HIDE DEF d
    <2>5. Climbs(d, m + 1)
      BY <2>3, <2>4
    <2> HIDE DEF Climbs
    <2> QED
      BY <2>5, <1>0
  <1>3. N \in S
    <2> HIDE DEF S
    <2> QED
      BY <1>0, <1>1, <1>2, UpTo
  <1>4. PICK c : Climbs(c, N)
    BY <1>3
  <1> DEFINE d == CHOOSE c1 : Climbs(c1, N)
  <1>5. Climbs(d, N)
    <2> HIDE DEF Climbs
    <2> QED
      BY <1>4
  <1>6. find(up, x) = d[N]
    BY DEF find, start
  <1> HIDE DEF d
  <1> QED
    BY <1>5, <1>6 DEF start

\* find ends at the root and leaves the roots as they are.
LEMMA FindsRoot ==
  ASSUME NEW rk \in [Branch -> Nat], NEW rt, NEW up \in [Branch -> Branch], NEW x \in Branch,
         Ranked(up, rk), Roots(up, rt)
  PROVE  /\ find(up, x).root = rt[x]
         /\ find(up, x).parent \in [Branch -> Branch]
         /\ Ranked(find(up, x).parent, rk) /\ Roots(find(up, x).parent, rt)
  <1>0. N \in Nat
    BY OccAssumption DEF OccAssumption
  <1>1. PICK climb : /\ climb = [n \in 0..N |-> IF n = 0 THEN [root |-> x, parent |-> up]
                                              ELSE halve(climb[n - 1])]
                     /\ find(up, x) = climb[N]
    BY ClimbDefined
  <1>2. climb[0] = [root |-> x, parent |-> up]
    BY <1>0, <1>1
  <1>3. \A n \in 0..(N - 1) : climb[n + 1] = halve(climb[n])
    <2> TAKE n \in 0..(N - 1)
    <2>1. n + 1 \in 0..N /\ n + 1 # 0 /\ (n + 1) - 1 = n
      BY <1>0
    <2> QED
      BY <1>1, <2>1
  <1> DEFINE Good(at) == /\ at = [root |-> at.root, parent |-> at.parent]
                         /\ at.root \in Branch /\ at.parent \in [Branch -> Branch]
                         /\ Ranked(at.parent, rk) /\ Roots(at.parent, rt) /\ rt[at.root] = rt[x]
             S == {n \in 0..N : /\ Good(climb[n])
                                /\ \/ climb[n].parent[climb[n].root] = climb[n].root
                                   \/ Cardinality(Higher(rk, climb[n].root)) + n < N}
  <1>4. 0 \in S
    <2>1. Good(climb[0]) /\ climb[0].root = x
      BY <1>2
    <2> HIDE DEF Good
    <2> QED
      BY <1>0, <2>1, FewerHigher
  <1>5. ASSUME NEW n \in 0..(N - 1), n \in S PROVE n + 1 \in S
    <2> DEFINE at == climb[n]
    <2>1. Good(at)
      BY <1>5
    <2>2. climb[n + 1] = halve(at) /\ n + 1 \in 0..N
      BY <1>0, <1>3
    <2>3. at.parent[at.root] = at.root \/ Cardinality(Higher(rk, at.root)) + n < N
      BY <1>5
    <2> HIDE DEF at
    <2>4. /\ Good(halve(at))
          /\ at.parent[at.root] = at.root => halve(at) = at
          /\ at.parent[at.root] # at.root => rk[at.root] < rk[halve(at).root]
      BY <2>1, HalveKeeps
    <2>5. halve(at).parent[halve(at).root] = halve(at).root
          \/ Cardinality(Higher(rk, halve(at).root)) + n + 1 < N
      <3>1. CASE at.parent[at.root] = at.root
        BY <2>4, <3>1
      <3>2. CASE at.parent[at.root] # at.root
        <4>1. at.root \in Branch /\ halve(at).root \in Branch
          BY <2>1, <2>4
        <4>2. /\ Cardinality(Higher(rk, halve(at).root)) < Cardinality(Higher(rk, at.root))
              /\ Cardinality(Higher(rk, halve(at).root)) \in Nat
              /\ Cardinality(Higher(rk, at.root)) \in Nat
          BY <2>4, <3>2, <4>1, FewerHigher
        <4> QED
          BY <1>0, <2>3, <3>2, <4>2
      <3> QED
        BY <3>1, <3>2
    <2> HIDE DEF Good
    <2>6. Cardinality(Higher(rk, halve(at).root)) + n + 1 = Cardinality(Higher(rk, halve(at).root)) + (n + 1)
      <3>1. halve(at).root \in Branch
        BY <2>4 DEF Good
      <3>2. Cardinality(Higher(rk, halve(at).root)) \in Nat
        BY <3>1, FewerHigher
      <3> QED
        BY <1>0, <3>2
    <2> QED
      BY <2>2, <2>4, <2>5, <2>6
  <1>6. N \in S
    <2> HIDE DEF S, Good
    <2>1. \A n \in 0..(N - 1) : n \in S => n + 1 \in S
      BY <1>5
    <2>2. \A n \in 0..N : n \in S
      BY <1>0, <1>4, <2>1, UpTo, Zenon
    <2> QED
      BY <1>0, <2>2
  <1> DEFINE last == climb[N]
  <1>7. Good(last) /\ find(up, x) = last
    BY <1>1, <1>6
  <1>8. last.parent[last.root] = last.root
    <2>1. Cardinality(Higher(rk, last.root)) \in Nat
      BY <1>7, FewerHigher
    <2> QED
      BY <1>0, <1>6, <2>1
  <1> HIDE DEF last
  <1>9. last.root = rt[x]
    BY <1>7, <1>8 DEF Roots
  <1> QED
    BY <1>7, <1>9

\* union joins the trees of two branches and parts no others.
LEMMA UnionJoins ==
  ASSUME parent \in [Branch -> Branch], rank \in [Branch -> Nat], Ranked(parent, rank),
         NEW rt, Roots(parent, rt), NEW a \in Branch, NEW b \in Branch, Union(a, b)
  PROVE  /\ parent' \in [Branch -> Branch] /\ rank' \in [Branch -> Nat] /\ Ranked(parent', rank')
         /\ \E to : /\ Roots(parent', to) /\ to[a] = to[b]
                    /\ \A x, y \in Branch : rt[x] = rt[y] => to[x] = to[y]
  <1> DEFINE fa == find(parent, a)
             fb == find(fa.parent, b)
             hi == IF rank[fa.root] < rank[fb.root] THEN fb.root ELSE fa.root
             lo == IF hi = fa.root THEN fb.root ELSE fa.root
  <1>1. /\ fa.root = rt[a] /\ fa.parent \in [Branch -> Branch]
        /\ Ranked(fa.parent, rank) /\ Roots(fa.parent, rt)
    BY FindsRoot
  <1> HIDE DEF fa
  <1>2. /\ fb.root = rt[b] /\ fb.parent \in [Branch -> Branch]
        /\ Ranked(fb.parent, rank) /\ Roots(fb.parent, rt)
    BY <1>1, FindsRoot
  <1>3. rt \in [Branch -> Branch] /\ rt[a] \in Branch /\ rt[b] \in Branch
    BY DEF Roots
  <1>4. CASE fa.root = fb.root
    <2>1. parent' = fb.parent /\ rank' = rank
      BY <1>4 DEF Union, fa
    <2>2. Roots(parent', rt) /\ rt[a] = rt[b]
      BY <1>1, <1>2, <1>4, <2>1
    <2> QED
      BY <1>2, <2>1, <2>2
  <1>5. CASE fa.root # fb.root
    <2>1. /\ parent' = [fb.parent EXCEPT ![lo] = hi]
          /\ rank' = [rank EXCEPT ![hi] = IF rank[hi] = rank[lo] THEN @ + 1 ELSE @]
      BY <1>5 DEF Union, fa
    <2> DEFINE up == fb.parent
    <2>2. up \in [Branch -> Branch] /\ Ranked(up, rank) /\ Roots(up, rt)
      BY <1>2
    <2> HIDE DEF fb
    <2>3. /\ hi \in Branch /\ lo \in Branch /\ hi # lo /\ {hi, lo} = {rt[a], rt[b]}
          /\ rank[lo] <= rank[hi]
      BY <1>1, <1>2, <1>3, <1>5
    <2>4. parent' = [up EXCEPT ![lo] = hi]
      BY <2>1
    <2> HIDE DEF hi, lo, up
    <2>5. up[hi] = hi /\ up[lo] = lo
      <3>1. up[rt[a]] = rt[a] /\ up[rt[b]] = rt[b]
        BY <2>2 DEF Roots
      <3> QED
        BY <2>3, <3>1
    <2>6. parent' \in [Branch -> Branch] /\ \A x \in Branch : parent'[x] = IF x = lo THEN hi ELSE up[x]
      BY <2>2, <2>3, <2>4
    <2>7. /\ rank' \in [Branch -> Nat] /\ rank[lo] < rank'[hi] /\ rank[hi] <= rank'[hi]
          /\ \A x \in Branch : x # hi => rank'[x] = rank[x]
      BY <2>1, <2>3
    <2>8. Ranked(parent', rank')
      <3> SUFFICES ASSUME NEW x \in Branch, parent'[x] # x PROVE rank'[x] < rank'[parent'[x]]
        BY DEF Ranked
      <3>1. CASE x = lo
        BY <2>3, <2>6, <2>7, <3>1
      <3>2. CASE x # lo
        <4>1. parent'[x] = up[x] /\ up[x] # x /\ up[x] \in Branch
          BY <2>2, <2>6, <3>2
        <4>2. rank[x] < rank[up[x]] /\ x # hi
          BY <2>2, <2>5, <4>1 DEF Ranked
        <4>3. rank'[x] = rank[x] /\ rank[up[x]] <= rank'[up[x]]
          BY <2>7, <4>1, <4>2
        <4>4. rank[x] \in Nat /\ rank[up[x]] \in Nat /\ rank'[up[x]] \in Nat
          BY <2>7, <4>1
        <4> QED
          BY <4>1, <4>2, <4>3, <4>4
      <3> QED
        BY <3>1, <3>2
    <2> DEFINE to == [x \in Branch |-> IF rt[x] = lo THEN hi ELSE rt[x]]
    <2>9. Roots(parent', to)
      <3>1. to \in [Branch -> Branch]
        BY <1>3, <2>3
      <3>2. ASSUME NEW x \in Branch
            PROVE  to[x] = to[parent'[x]] /\ parent'[to[x]] = to[x] /\ (parent'[x] = x => to[x] = x)
        <4>1. rt[x] = rt[up[x]] /\ up[rt[x]] = rt[x] /\ (up[x] = x => rt[x] = x)
              /\ rt[x] \in Branch /\ up[x] \in Branch
          BY <1>3, <2>2 DEF Roots
        <4>2. rt[hi] = hi /\ rt[lo] = lo
          BY <2>2, <2>3, <2>5 DEF Roots
        <4>3. to[x] = to[parent'[x]]
          BY <2>3, <2>6, <4>1, <4>2
        <4>4. parent'[to[x]] = to[x]
          BY <2>3, <2>5, <2>6, <4>1
        <4>5. parent'[x] = x => to[x] = x
          BY <2>3, <2>6, <4>1
        <4> QED
          BY <4>3, <4>4, <4>5
      <3> QED
        BY <3>1, <3>2 DEF Roots
    <2>10. to[a] = to[b]
      BY <1>3, <2>3
    <2>11. \A x, y \in Branch : rt[x] = rt[y] => to[x] = to[y]
      OBVIOUS
    <2> QED
      BY <2>6, <2>7, <2>8, <2>9, <2>10, <2>11
  <1> QED
    BY <1>4, <1>5

-----------------------------------------------------------------------------
(* The serial integrator.  What it lands is the one set (Chosen) in which a *)
(* branch is exactly when the resolver settles whatever it and the earlier  *)
(* branches of the set clash about.                                         *)

InputsOK ==
    /\ writeSet \in [Branch -> SUBSET Paths] /\ edges \in Seq(Branch \X Branch)
    /\ clash \subseteq Clashes /\ resolvable \subseteq clash

\* The edits of a set of branches.
Content(L) == [p \in Paths |-> {b \in L : p \in writeSet[b]}]

\* The clashes of a branch with any of a set.
Meet(L, b) == {c \in clash : /\ c[2] \in writeSet[b]
                             /\ \E a \in L : c[2] \in writeSet[a] /\ c[1] = {a, b}}

Chosen(D) == \A b \in Branch : b \in D <=> Meet({c \in D : c < b}, b) \subseteq resolvable

\* The tree of a set of branches, one more of them, and what that one clashes about.
LEMMA ContentGrows ==
  ASSUME InputsOK, NEW L \in SUBSET Branch, NEW b \in Branch
  PROVE  /\ Content(L) \in Trees
         /\ MergeTree(Content(L), tip(b)) = Content(L \union {b})
         /\ clashes(Content(L), tip(b)) = Meet(L, b)
         /\ Lands(Content(L), b, L = {}) <=> Meet(L, b) \subseteq resolvable
  <1>1. Content(L) \in Trees
    BY DEF Content, Trees
  <1>2. tip(b) = [p \in Paths |-> IF p \in writeSet[b] THEN {b} ELSE {}]
    BY DEF tip
  <1>3. MergeTree(Content(L), tip(b)) = Content(L \union {b})
    <2>1. \A p \in Paths : Content(L)[p] \union tip(b)[p] = {c \in L \union {b} : p \in writeSet[c]}
      BY <1>2 DEF Content
    <2> QED
      BY <2>1 DEF MergeTree, Content
  <1>4. clashes(Content(L), tip(b)) = Meet(L, b)
    <2>1. \A c \in clash : c[2] \in Paths
      BY DEF InputsOK, Clashes
    <2>2. ASSUME NEW c \in clash
          PROVE  (\E x \in Content(L)[c[2]], y \in tip(b)[c[2]] : c[1] = {x, y})
                 <=> (c[2] \in writeSet[b] /\ \E a \in L : c[2] \in writeSet[a] /\ c[1] = {a, b})
      <3>1. \A y : y \in tip(b)[c[2]] <=> (c[2] \in writeSet[b] /\ y = b)
        BY <1>2, <2>1
      <3>2. \A x : x \in Content(L)[c[2]] <=> (x \in L /\ c[2] \in writeSet[x])
        BY <2>1 DEF Content
      <3> QED
        BY <3>1, <3>2
    <2> QED
      BY <2>2 DEF clashes, Meet
  <1>5. L = {} => Meet(L, b) = {}
    BY DEF Meet
  <1> QED
    BY <1>1, <1>3, <1>4, <1>5 DEF Lands

\* The recursion in naive is well founded.
LEMMA NaiveDefined ==
  naive = [n \in 0..N |->
             IF n = 0 THEN [tree |-> base, landed |-> {}]
             ELSE IF Lands(naive[n - 1].tree, n, naive[n - 1].landed = {})
                  THEN [tree |-> MergeTree(naive[n - 1].tree, tip(n)),
                        landed |-> naive[n - 1].landed \union {n}]
                  ELSE naive[n - 1]]
  <1> DEFINE start == [tree |-> base, landed |-> {}]
             turn(acc, n) == IF Lands(acc.tree, n, acc.landed = {})
                             THEN [tree |-> MergeTree(acc.tree, tip(n)), landed |-> acc.landed \union {n}]
                             ELSE acc
             Folds(c, m) == c = [n \in 0..m |-> IF n = 0 THEN start ELSE turn(c[n - 1], n)]
             S == {m \in 0..N : \E c : Folds(c, m)}
  <1>0. N \in Nat
    BY OccAssumption DEF OccAssumption
  <1>7. naive = CHOOSE c : Folds(c, N)
    BY DEF naive
  <1> HIDE DEF start, turn
  <1>1. 0 \in S
    <2> DEFINE c == [n \in 0..0 |-> start]
    <2>1. Folds(c, 0)
      OBVIOUS
    <2> HIDE DEF c, Folds
    <2> QED
      BY <1>0, <2>1
  <1>2. ASSUME NEW m \in 0..(N - 1), m \in S PROVE m + 1 \in S
    <2>1. PICK c : Folds(c, m)
      BY <1>2
    <2> DEFINE d == [n \in 0..(m + 1) |-> IF n = m + 1 THEN turn(c[m], n) ELSE c[n]]
    <2>2. \A n \in 0..m : c[n] = IF n = 0 THEN start ELSE turn(c[n - 1], n)
      BY <2>1
    <2>3. \A n \in 0..(m + 1) : d[n] = IF n = 0 THEN start ELSE turn(d[n - 1], n)
      <3> TAKE n \in 0..(m + 1)
      <3>1. CASE n = 0
        BY <3>1, <2>2, <1>0
      <3>2. CASE n \in 1..m
        <4>1. d[n] = c[n] /\ d[n - 1] = c[n - 1]
          BY <3>2, <1>0
        <4> QED
          BY <3>2, <4>1, <2>2, <1>0
      <3>3. CASE n = m + 1
        <4>1. d[n] = turn(c[m], n) /\ d[n - 1] = c[m] /\ n # 0
          BY <3>3, <1>0
        <4> QED
          BY <4>1
      <3> QED
        BY <3>1, <3>2, <3>3, <1>0
    <2>4. d = [n \in 0..(m + 1) |-> d[n]]
      OBVIOUS
    <2> HIDE DEF d
    <2>5. Folds(d, m + 1)
      BY <2>3, <2>4
    <2> HIDE DEF Folds
    <2> QED
      BY <2>5, <1>0
  <1>3. N \in S
    <2> HIDE DEF S
    <2> QED
      BY <1>0, <1>1, <1>2, UpTo
  <1>4. PICK c : Folds(c, N)
    BY <1>3
  <1>5. Folds(naive, N)
    <2> HIDE DEF Folds
    <2> QED
      BY <1>4, <1>7
  <1> QED
    BY <1>5 DEF start, turn

\* What the serial integrator lands is chosen, and its tree holds just the edits of it.
LEMMA SerialChooses ==
  ASSUME InputsOK
  PROVE  /\ IntegrateNaive.landed \in SUBSET Branch /\ Chosen(IntegrateNaive.landed)
         /\ IntegrateNaive.tree = Content(IntegrateNaive.landed)
  <1>0. N \in Nat
    BY OccAssumption DEF OccAssumption
  <1>1. naive[0] = [tree |-> base, landed |-> {}]
    BY <1>0, NaiveDefined
  <1>2. \A n \in 0..(N - 1) :
           naive[n + 1] = IF Lands(naive[n].tree, n + 1, naive[n].landed = {})
                          THEN [tree |-> MergeTree(naive[n].tree, tip(n + 1)),
                                landed |-> naive[n].landed \union {n + 1}]
                          ELSE naive[n]
    <2> TAKE n \in 0..(N - 1)
    <2>1. n + 1 \in 0..N /\ n + 1 # 0 /\ (n + 1) - 1 = n
      BY <1>0
    <2> QED
      BY NaiveDefined, <2>1
  <1> DEFINE Fits(L, b) == b \in L <=> Meet({c \in L : c < b}, b) \subseteq resolvable
             S == {n \in 0..N : /\ naive[n].landed \in SUBSET (1..n)
                                /\ naive[n].tree = Content(naive[n].landed)
                                /\ \A b \in 1..n : Fits(naive[n].landed, b)}
  <1>3. 0 \in S
    <2>1. Content({}) = base
      BY DEF Content, base
    <2> QED
      BY <1>0, <1>1, <2>1
  <1>4. ASSUME NEW n \in 0..(N - 1), n \in S PROVE n + 1 \in S
    <2> DEFINE L == naive[n].landed
               M == naive[n + 1].landed
    <2>1. n \in Nat /\ n + 1 \in Branch /\ n + 1 \in 0..N /\ 1..n \subseteq Branch
      BY <1>0 DEF Branch
    <2>2. /\ L \in SUBSET (1..n) /\ L \in SUBSET Branch /\ naive[n].tree = Content(L)
          /\ \A b \in 1..n : Fits(L, b)
      BY <1>4, <2>1
    <2>3. Lands(naive[n].tree, n + 1, L = {}) <=> Meet(L, n + 1) \subseteq resolvable
      <3> HIDE DEF L
      <3>1. Lands(Content(L), n + 1, L = {}) <=> Meet(L, n + 1) \subseteq resolvable
        BY <2>1, <2>2, ContentGrows
      <3> QED
        BY <2>2, <3>1, Zenon
    <2>4. /\ naive[n + 1].tree = Content(M)
          /\ M = IF Meet(L, n + 1) \subseteq resolvable THEN L \union {n + 1} ELSE L
      <3>1. CASE Meet(L, n + 1) \subseteq resolvable
        <4>1. naive[n + 1] = [tree |-> MergeTree(naive[n].tree, tip(n + 1)), landed |-> L \union {n + 1}]
          BY <1>2, <2>3, <3>1
        <4>2. MergeTree(naive[n].tree, tip(n + 1)) = Content(L \union {n + 1})
          BY <2>1, <2>2, ContentGrows
        <4> QED
          BY <3>1, <4>1, <4>2
      <3>2. CASE ~(Meet(L, n + 1) \subseteq resolvable)
        <4>1. naive[n + 1] = naive[n]
          BY <1>2, <2>3, <3>2
        <4> QED
          BY <2>2, <3>2, <4>1
      <3> QED
        BY <3>1, <3>2
    <2> HIDE DEF L, M
    <2>5. M \in SUBSET (1..(n + 1)) /\ M \ {n + 1} = L
      BY <2>1, <2>2, <2>4
    <2>6. ASSUME NEW b \in 1..(n + 1) PROVE Fits(M, b)
      <3>1. CASE b \in 1..n
        <4>1. {c \in M : c < b} = {c \in L : c < b}
          BY <2>1, <2>5, <3>1
        <4>2. b \in M <=> b \in L
          BY <2>1, <2>5, <3>1
        <4> QED
          BY <2>2, <3>1, <4>1, <4>2
      <3>2. CASE b = n + 1
        <4>1. {c \in M : c < b} = L
          <5>1. \A c \in M : c < n + 1 <=> c \in L
            BY <2>1, <2>2, <2>5
          <5>2. L \subseteq M
            BY <2>5
          <5> QED
            BY <3>2, <5>1, <5>2
        <4>2. n + 1 \in M <=> Meet(L, n + 1) \subseteq resolvable
          BY <2>1, <2>2, <2>4
        <4> QED
          BY <3>2, <4>1, <4>2
      <3> QED
        BY <2>1, <3>1, <3>2
    <2> HIDE DEF Fits
    <2> QED
      BY <2>1, <2>4, <2>5, <2>6 DEF M
  <1>5. N \in S
    <2> HIDE DEF S, Fits
    <2>1. \A n \in 0..(N - 1) : n \in S => n + 1 \in S
      BY <1>4
    <2>2. \A n \in 0..N : n \in S
      BY <1>0, <1>3, <2>1, UpTo, Zenon
    <2> QED
      BY <1>0, <2>2
  <1> QED
    BY <1>5 DEF IntegrateNaive, Chosen, Branch

\* No two sets are chosen: the first branch that only one of them has is the same question.
LEMMA ChosenOnce ==
  ASSUME NEW C \in SUBSET Branch, NEW D \in SUBSET Branch, Chosen(C), Chosen(D)
  PROVE  C = D
  <1> DEFINE S == {b \in Branch : ~(b \in C <=> b \in D)}
  <1>1. ASSUME S # {} PROVE FALSE
    <2>1. PICK b \in S : \A c \in S : b <= c
      <3>1. S \in SUBSET Nat
        BY DEF Branch
      <3> QED
        BY <1>1, <3>1, LeastNumber
    <2>2. \A c \in Branch : c < b => (c \in C <=> c \in D)
      BY <2>1 DEF Branch
    <2>3. {c \in C : c < b} = {c \in D : c < b}
      BY <2>2
    <2> QED
      BY <2>1, <2>3 DEF Chosen
  <1> QED
    BY <1>1

-----------------------------------------------------------------------------
(* The invariant.  The finder has together whatever branches share a path    *)
(* it has seen; so groups that share a path are one group; so a fold sees,   *)
(* of the branches chosen before a branch, all that touch a path of it, and  *)
(* decides as the serial one does; and the heads that are combined hold      *)
(* every edit of the chosen branches, each path's in one of them.            *)

\* Path p of branch b has been through the index.
Seen(b, p) == p \in writeSet[b] /\ (b < i \/ (b = i /\ p \notin todo))

FinderOK ==
    /\ parent \in [Branch -> Branch] /\ rank \in [Branch -> Nat] /\ Ranked(parent, rank)
    /\ owner \in [Paths -> 0..N] /\ todo \in SUBSET Paths /\ i \in Nat /\ 1 <= i
    /\ \E rt : /\ Roots(parent, rt)
               /\ \A b \in Branch, p \in Paths : Seen(b, p) => owner[p] # 0 /\ rt[b] = rt[owner[p]]

\* Nothing is grouped, folded or combined before the partition is made.
StagesOK ==
    /\ groups = << >> => tree = << >> /\ landed = << >> /\ flagged = << >> /\ left = << >> /\ cur = << >>
    /\ groups # << >> => i = N + Len(edges) + 2

GroupsOK ==
    /\ \E n \in Nat : groups \in [1..n -> SUBSET Branch]
    /\ groups # << >> => \A b \in Branch : \E g \in DOMAIN groups : b \in groups[g]
    /\ \A g, h \in DOMAIN groups : \A b \in groups[g], c \in groups[h] :
          b = c \/ writeSet[b] \intersect writeSet[c] # {} => g = h

FoldsOK(D) ==
    /\ tree \in [DOMAIN groups -> Trees] /\ landed \in [DOMAIN groups -> SUBSET Branch]
    /\ flagged \in [DOMAIN groups -> SUBSET Branch] /\ left \in [DOMAIN groups -> SUBSET Branch]
    /\ \A g \in DOMAIN groups :
          /\ left[g] \subseteq groups[g]
          /\ \A b \in left[g], c \in groups[g] \ left[g] : c < b
          /\ landed[g] = D \intersect (groups[g] \ left[g])
          /\ flagged[g] = (groups[g] \ left[g]) \ D
          /\ tree[g] = Content(landed[g])

\* The heads of a level that has m of them.
LevelOK(heads, m, D) ==
    /\ heads \in [1..m -> Trees]
    /\ \A j, k \in 1..m : \A p \in Paths : j # k => heads[j][p] = {} \/ heads[k][p] = {}
    /\ \A p \in Paths : \A b \in Branch :
          (b \in D /\ p \in writeSet[b]) <=> \E k \in 1..m : b \in heads[k][p]

Merged(heads, m, k) ==
    MergeTree(heads[2 * k - 1], IF 2 * k <= m THEN heads[2 * k] ELSE base)

CombineOK(D) ==
    \/ cur = << >> /\ next = << >>
    \/ /\ Folded
       /\ \E m \in Nat : /\ m > 0 /\ LevelOK(cur, m, D)
                         /\ DOMAIN next = 1..((m + 1) \div 2)
                         /\ next = [k \in DOMAIN next |-> next[k]]
                         /\ \A k \in DOMAIN next :
                               next[k] = << >> \/ next[k] = <<Merged(cur, m, k)>>

OccInv == /\ InputsOK /\ FinderOK /\ StagesOK /\ GroupsOK
          /\ \E D \in SUBSET Branch : Chosen(D) /\ FoldsOK(D) /\ CombineOK(D)

LEMMA NOK == N \in Nat
  BY OccAssumption DEF OccAssumption

\* A function on 1..m is a sequence of length m.
LEMMA LengthOf ==
  ASSUME NEW m \in Nat, NEW S, NEW s \in [1..m -> S]
  PROVE  s \in Seq(S) /\ Len(s) = m /\ (s = << >> <=> m = 0)
  <1>1. s \in Seq(S)
    OBVIOUS
  <1>2. Len(s) \in Nat /\ DOMAIN s = 1..Len(s) /\ DOMAIN s = 1..m
    BY <1>1, LenProperties
  <1>3. Len(s) = m
    BY <1>2
  <1> QED
    BY <1>1, <1>3, EmptySeq

\* The initial state.
LEMMA OccStarts == OccInit => OccInv
  <1> SUFFICES ASSUME OccInit PROVE OccInv
    OBVIOUS
  <1>1. InputsOK
    <2>1. edges \in Seq(Branch \X Branch)
      <3>1. PICK m \in Nat : edges \in [1..m -> EdgeChoices]
        BY OccAssumption DEF OccInit, SeqOf, OccAssumption
      <3>2. edges \in [1..m -> Branch \X Branch]
        BY <3>1, OccAssumption DEF OccAssumption
      <3> QED
        BY <3>2, LengthOf
    <2>2. clash \subseteq Clashes
      BY DEF OccInit, kSubset
    <2>3. writeSet \in [Branch -> SUBSET Paths] /\ resolvable \subseteq clash
      BY DEF OccInit
    <2> QED
      BY <2>1, <2>2, <2>3 DEF InputsOK
  <1>2. FinderOK
    <2>1. /\ parent = [b \in Branch |-> b] /\ rank = [b \in Branch |-> 0]
          /\ owner = [p \in Paths |-> 0] /\ i = 1 /\ todo = IF N > 0 THEN writeSet[1] ELSE {}
      BY DEF OccInit
    <2>2. todo \in SUBSET Paths
      BY <1>1, <2>1, NOK DEF InputsOK, Branch
    <2> DEFINE rt == [b \in Branch |-> b]
    <2>3. Roots(parent, rt)
      BY <2>1 DEF Roots
    <2>4. \A b \in Branch, p \in Paths : ~Seen(b, p)
      BY <2>1, NOK DEF Seen, Branch
    <2> HIDE DEF rt
    <2> QED
      BY <2>1, <2>2, <2>3, <2>4, NOK DEF FinderOK, Ranked
  <1>3. /\ groups = << >> /\ tree = << >> /\ landed = << >> /\ flagged = << >> /\ left = << >>
        /\ cur = << >> /\ next = << >>
    BY DEF OccInit
  <1>4. StagesOK
    BY <1>3 DEF StagesOK
  <1>5. DOMAIN groups = {} /\ groups \in [1..0 -> SUBSET Branch]
    BY <1>3
  <1>6. GroupsOK
    BY <1>3, <1>5 DEF GroupsOK
  <1>7. FoldsOK(IntegrateNaive.landed)
    <2>1. \A S : << >> \in [{} -> S]
      OBVIOUS
    <2> QED
      BY <1>3, <1>5, <2>1 DEF FoldsOK
  <1> QED
    BY <1>1, <1>2, <1>3, <1>4, <1>6, <1>7, SerialChooses DEF OccInv, CombineOK

-----------------------------------------------------------------------------
(* The partition's steps.                                                   *)

\* What the steps of the finder leave alone keeps what it was.
LEMMA FinderFrame ==
  ASSUME OccInv, UNCHANGED <<inputs, groups, folds, cur, next>>, FinderOK',
         groups # << >> => i' = i
  PROVE  OccInv'
  <1>1. InputsOK'
    BY DEF OccInv, InputsOK, inputs, Clashes
  <1>2. StagesOK' /\ GroupsOK'
    BY DEF OccInv, StagesOK, GroupsOK, inputs, folds
  <1>3. PICK D \in SUBSET Branch : Chosen(D) /\ FoldsOK(D) /\ CombineOK(D)
    BY DEF OccInv
  <1>4. Chosen(D)'
    BY <1>3 DEF Chosen, Meet, inputs
  <1>5. FoldsOK(D)'
    BY <1>3 DEF FoldsOK, Content, inputs, folds
  <1>6. CombineOK(D)'
    BY <1>3 DEF CombineOK, LevelOK, Merged, MergeTree, Folded, inputs, folds
  <1> QED
    BY <1>1, <1>2, <1>3, <1>4, <1>5, <1>6 DEF OccInv

\* One path of a branch.
LEMMA IndexKeeps == ASSUME OccInv, Index PROVE OccInv'
  <1>1. /\ InputsOK /\ FinderOK /\ StagesOK
        /\ i \in Branch /\ i # 0 /\ i <= N /\ i' = i /\ UNCHANGED <<inputs, groups, folds, cur, next>>
    <2>1. InputsOK /\ FinderOK /\ StagesOK
      BY DEF OccInv
    <2>2. i \in Nat /\ 1 <= i
      BY <2>1 DEF FinderOK
    <2>3. i <= N /\ UNCHANGED <<inputs, i, groups, folds, cur, next>>
      BY DEF Index
    <2>4. i \in Branch
      BY <2>2, <2>3, NOK DEF Branch
    <2> QED
      BY <2>1, <2>2, <2>3, <2>4
  <1>2. PICK p \in todo : /\ todo' = todo \ {p}
                          /\ \/ /\ owner[p] = 0 /\ owner' = [owner EXCEPT ![p] = i]
                                /\ UNCHANGED <<parent, rank>>
                             \/ owner[p] # 0 /\ Union(i, owner[p]) /\ UNCHANGED owner
    BY DEF Index
  <1>3. p \in Paths /\ todo' \in SUBSET Paths
    BY <1>1, <1>2 DEF FinderOK
  <1>4. PICK rt : /\ Roots(parent, rt)
                  /\ \A b \in Branch, q \in Paths : Seen(b, q) => owner[q] # 0 /\ rt[b] = rt[owner[q]]
    BY <1>1 DEF FinderOK
  <1>5. \A b \in Branch, q \in Paths : Seen(b, q)' => Seen(b, q) \/ (b = i /\ q = p)
    BY <1>1, <1>2 DEF Seen, inputs
  <1>6. FinderOK'
    <2>1. CASE owner[p] = 0 /\ owner' = [owner EXCEPT ![p] = i] /\ UNCHANGED <<parent, rank>>
      <3>1. owner' \in [Paths -> 0..N] /\ owner'[p] = i /\ \A q \in Paths : q # p => owner'[q] = owner[q]
        BY <1>1, <1>3, <2>1, NOK DEF FinderOK, Branch
      <3>2. \A b \in Branch, q \in Paths : Seen(b, q)' => owner'[q] # 0 /\ rt[b] = rt[owner'[q]]
        BY <1>1, <1>3, <1>4, <1>5, <2>1, <3>1
      <3> QED
        BY <1>1, <1>3, <1>4, <2>1, <3>1, <3>2 DEF FinderOK
    <2>2. CASE owner[p] # 0 /\ Union(i, owner[p]) /\ UNCHANGED owner
      <3>1. owner[p] \in Branch
        BY <1>1, <1>3, <2>2, NOK DEF FinderOK, Branch
      <3>2. /\ parent' \in [Branch -> Branch] /\ rank' \in [Branch -> Nat] /\ Ranked(parent', rank')
            /\ \E to : /\ Roots(parent', to) /\ to[i] = to[owner[p]]
                       /\ \A x, y \in Branch : rt[x] = rt[y] => to[x] = to[y]
        BY <1>1, <1>4, <2>2, <3>1, UnionJoins DEF FinderOK
      <3>3. PICK to : /\ Roots(parent', to) /\ to[i] = to[owner[p]]
                      /\ \A x, y \in Branch : rt[x] = rt[y] => to[x] = to[y]
        BY <3>2
      <3>4. \A b \in Branch, q \in Paths : Seen(b, q)' => owner'[q] # 0 /\ to[b] = to[owner'[q]]
        <4> SUFFICES ASSUME NEW b \in Branch, NEW q \in Paths, Seen(b, q)'
                     PROVE  owner'[q] # 0 /\ to[b] = to[owner'[q]]
          OBVIOUS
        <4>1. CASE b = i /\ q = p
          BY <2>2, <3>3, <4>1
        <4>2. CASE Seen(b, q)
          <5>1. owner[q] # 0 /\ rt[b] = rt[owner[q]] /\ owner[q] \in Branch
            BY <1>1, <1>4, <4>2, NOK DEF FinderOK, Branch
          <5> QED
            BY <2>2, <3>3, <5>1
        <4> QED
          BY <1>5, <4>1, <4>2
      <3> QED
        BY <1>1, <1>3, <2>2, <3>2, <3>3, <3>4 DEF FinderOK
    <2> QED
      BY <1>2, <2>1, <2>2
  <1> QED
    BY <1>1, <1>6, FinderFrame

\* The next branch.
LEMMA NextBranchKeeps == ASSUME OccInv, NextBranch PROVE OccInv'
  <1>1. /\ InputsOK /\ FinderOK /\ StagesOK
        /\ i \in Nat /\ 1 <= i /\ i <= N /\ todo = {} /\ i' = i + 1
        /\ todo' = IF i < N THEN writeSet[i + 1] ELSE {}
        /\ UNCHANGED <<inputs, parent, rank, owner, groups, folds, cur, next>>
    BY NOK DEF OccInv, FinderOK, NextBranch
  <1>2. todo' \in SUBSET Paths
    BY <1>1, NOK DEF InputsOK, Branch
  <1>3. \A b \in Branch, q \in Paths : Seen(b, q)' => Seen(b, q)
    <2> SUFFICES ASSUME NEW b \in Branch, NEW q \in Paths, Seen(b, q)' PROVE Seen(b, q)
      OBVIOUS
    <2>1. q \in writeSet[b] /\ (b < i + 1 \/ (b = i + 1 /\ q \notin todo'))
      BY <1>1 DEF Seen, inputs
    <2>2. CASE b < i + 1
      BY <1>1, <2>1, <2>2 DEF Seen, Branch
    <2>3. CASE b = i + 1 /\ q \notin todo'
      BY <1>1, <2>1, <2>3, NOK DEF Branch
    <2> QED
      BY <2>1, <2>2, <2>3
  <1>4. FinderOK'
    BY <1>1, <1>2, <1>3 DEF FinderOK
  <1>5. groups = << >>
    BY <1>1, NOK, LenProperties DEF InputsOK, StagesOK
  <1> QED
    BY <1>1, <1>4, <1>5, FinderFrame

\* One semantic edge.
LEMMA EdgeKeeps == ASSUME OccInv, Edge PROVE OccInv'
  <1>1. /\ InputsOK /\ FinderOK /\ StagesOK /\ Len(edges) \in Nat
        /\ i \in Nat /\ i > N /\ i <= N + Len(edges) /\ i' = i + 1
        /\ UNCHANGED <<inputs, owner, todo, groups, folds, cur, next>>
    BY NOK, LenProperties DEF OccInv, FinderOK, InputsOK, Edge
  <1> DEFINE a == edges[i - N][1]
             b == edges[i - N][2]
  <1>2. a \in Branch /\ b \in Branch
    <2>1. i - N \in 1..Len(edges)
      BY <1>1, NOK
    <2>2. edges[i - N] \in Branch \X Branch
      BY <1>1, <2>1, ElementOfSeq DEF InputsOK
    <2> QED
      BY <2>2
  <1>3. Union(a, b)
    BY DEF Edge
  <1> HIDE DEF a, b
  <1>4. PICK rt : /\ Roots(parent, rt)
                  /\ \A x \in Branch, q \in Paths : Seen(x, q) => owner[q] # 0 /\ rt[x] = rt[owner[q]]
    BY <1>1 DEF FinderOK
  <1>5. /\ parent' \in [Branch -> Branch] /\ rank' \in [Branch -> Nat] /\ Ranked(parent', rank')
        /\ \E to : /\ Roots(parent', to) /\ to[a] = to[b]
                   /\ \A x, y \in Branch : rt[x] = rt[y] => to[x] = to[y]
    BY <1>1, <1>2, <1>3, <1>4, UnionJoins DEF FinderOK
  <1>6. PICK to : /\ Roots(parent', to)
                  /\ \A x, y \in Branch : rt[x] = rt[y] => to[x] = to[y]
    BY <1>5
  <1>7. \A x \in Branch, q \in Paths : Seen(x, q)' => owner'[q] # 0 /\ to[x] = to[owner'[q]]
    <2> SUFFICES ASSUME NEW x \in Branch, NEW q \in Paths, Seen(x, q)'
                 PROVE  owner'[q] # 0 /\ to[x] = to[owner'[q]]
      OBVIOUS
    <2>1. Seen(x, q)
      BY <1>1, NOK DEF Seen, inputs, Branch
    <2>2. owner[q] # 0 /\ rt[x] = rt[owner[q]] /\ owner[q] \in Branch
      BY <1>1, <1>4, <2>1, NOK DEF FinderOK, Branch
    <2> QED
      BY <1>1, <1>6, <2>2
  <1>8. FinderOK'
    BY <1>1, <1>5, <1>6, <1>7 DEF FinderOK
  <1>9. groups = << >>
    BY <1>1, NOK DEF StagesOK
  <1> QED
    BY <1>1, <1>8, <1>9, FinderFrame

\* The groups.
LEMMA BucketKeeps == ASSUME OccInv, Bucket PROVE OccInv'
  <1> DEFINE members(r) == {b \in Branch : find(parent, b).root = r}
             buckets == {members(r) : r \in Branch} \ {{}}
             n == Cardinality(buckets)
  <1>1. /\ InputsOK /\ FinderOK /\ StagesOK /\ Len(edges) \in Nat
        /\ i \in Nat /\ i = N + Len(edges) + 1 /\ i' = i + 1
        /\ UNCHANGED <<inputs, parent, rank, owner, todo, cur, next>>
    BY NOK, LenProperties DEF OccInv, FinderOK, InputsOK, Bucket
  <1>2. /\ groups' \in [1..n -> buckets]
        /\ \A B \in buckets : \E k \in DOMAIN groups' : groups'[k] = B
        /\ \A j, k \in DOMAIN groups' : j < k => least(groups'[j]) < least(groups'[k])
    BY DEF Bucket
  <1>3. /\ tree' = [k \in DOMAIN groups' |-> base] /\ landed' = [k \in DOMAIN groups' |-> {}]
        /\ flagged' = [k \in DOMAIN groups' |-> {}] /\ left' = groups'
    BY DEF Bucket
  <1>4. PICK rt : /\ Roots(parent, rt)
                  /\ \A b \in Branch, q \in Paths : Seen(b, q) => owner[q] # 0 /\ rt[b] = rt[owner[q]]
    BY <1>1 DEF FinderOK
  <1>5. \A b \in Branch : find(parent, b).root = rt[b] /\ rt[b] \in Branch
    <2>1. parent \in [Branch -> Branch] /\ rank \in [Branch -> Nat] /\ Ranked(parent, rank)
      BY <1>1 DEF FinderOK
    <2>2. \A b \in Branch : find(parent, b).root = rt[b]
      BY <1>4, <2>1, FindsRoot
    <2> QED
      BY <1>4, <2>2 DEF Roots
  <1>6. \A b, c \in Branch : writeSet[b] \intersect writeSet[c] # {} => rt[b] = rt[c]
    <2> SUFFICES ASSUME NEW b \in Branch, NEW c \in Branch, NEW p \in writeSet[b], p \in writeSet[c]
                 PROVE  rt[b] = rt[c]
      OBVIOUS
    <2>1. p \in Paths
      BY <1>1 DEF InputsOK
    <2>2. Seen(b, p) /\ Seen(c, p)
      BY <1>1, NOK DEF Seen, Branch
    <2> QED
      BY <1>4, <2>1, <2>2
  <1>7. \A B \in buckets : /\ B \in SUBSET Branch /\ B # {}
                           /\ \A b \in B : B = {c \in Branch : rt[c] = rt[b]}
    BY <1>5
  <1>8. \A b \in Branch : \E B \in buckets : b \in B
    <2> TAKE b \in Branch
    <2>1. b \in members(rt[b]) /\ rt[b] \in Branch
      BY <1>5
    <2> HIDE DEF members
    <2> QED
      BY <2>1
  <1>9. n \in Nat
    <2>1. IsFiniteSet(SUBSET Branch)
      <3>1. IsFiniteSet(Branch)
        BY NOK, FS_Interval DEF Branch
      <3> QED
        BY <3>1, FS_SUBSET
    <2>2. buckets \subseteq SUBSET Branch
      BY <1>7
    <2> HIDE DEF buckets
    <2> QED
      BY <2>1, <2>2, FS_Subset, FS_CardinalityType
  <1> HIDE DEF members, buckets, n
  <1>10. groups' \in [1..n -> SUBSET Branch] /\ DOMAIN groups' = 1..n
    BY <1>2, <1>7
  <1>11. GroupsOK'
    <2>1. \A b \in Branch : \E g \in DOMAIN groups' : b \in groups'[g]
      BY <1>2, <1>8
    <2>2. ASSUME NEW g \in 1..n, NEW h \in 1..n, NEW b \in groups'[g], NEW c \in groups'[h],
                 b = c \/ writeSet[b] \intersect writeSet[c] # {}
          PROVE  g = h
      <3>1. groups'[g] \in buckets /\ groups'[h] \in buckets /\ b \in Branch /\ c \in Branch
        BY <1>2, <1>10
      <3>2. rt[b] = rt[c]
        BY <1>6, <2>2, <3>1
      <3>3. groups'[g] = groups'[h]
        <4>1. groups'[g] = {x \in Branch : rt[x] = rt[b]} /\ groups'[h] = {x \in Branch : rt[x] = rt[c]}
          BY <1>7, <3>1
        <4> QED
          BY <3>2, <4>1, Zenon
      <3>4. least(groups'[g]) \in Nat
        BY <1>7, <3>1, LeastBranch DEF Branch
      <3>5. ~(g < h) /\ ~(h < g)
        <4> DEFINE l(k) == least(groups'[k])
        <4>1. l(g) = l(h) /\ l(g) \in Nat
          BY <3>3, <3>4
        <4>2. (g < h => l(g) < l(h)) /\ (h < g => l(h) < l(g))
          BY <1>2, <1>10
        <4> HIDE DEF l
        <4> QED
          BY <4>1, <4>2
      <3> QED
        BY <1>9, <3>5
    <2>3. writeSet' = writeSet
      BY <1>1 DEF inputs
    <2> QED
      BY <1>9, <1>10, <2>1, <2>2, <2>3 DEF GroupsOK
  <1>12. cur = << >> /\ next = << >>
    <2>1. groups = << >> /\ cur = << >>
      BY <1>1, NOK DEF StagesOK
    <2>2. PICK D : CombineOK(D)
      BY DEF OccInv
    <2>3. ASSUME NEW m \in Nat, m > 0, LevelOK(cur, m, D) PROVE FALSE
      BY <2>1, <2>3, LengthOf DEF LevelOK
    <2> QED
      BY <2>1, <2>2, <2>3 DEF CombineOK
  <1>13. StagesOK'
    <2>1. groups' = << >> => n = 0
      BY <1>9, <1>10, LengthOf
    <2>2. base \in Trees
      BY DEF base, Trees
    <2>3. /\ tree' \in [1..n -> Trees] /\ landed' \in [1..n -> SUBSET Branch]
          /\ flagged' \in [1..n -> SUBSET Branch] /\ left' \in [1..n -> SUBSET Branch]
      BY <1>3, <1>10, <2>2
    <2>4. groups' = << >> => tree' = << >> /\ landed' = << >> /\ flagged' = << >> /\ left' = << >>
      BY <1>9, <2>1, <2>3, LengthOf
    <2>5. i' = N + Len(edges') + 2
      BY <1>1, NOK DEF inputs
    <2> QED
      BY <1>1, <1>12, <2>4, <2>5 DEF StagesOK
  <1>14. FinderOK'
    <2>1. \A b \in Branch, q \in Paths : Seen(b, q)' => Seen(b, q)
      BY <1>1, NOK DEF Seen, Branch, inputs
    <2> QED
      BY <1>1, <1>4, <2>1 DEF FinderOK
  <1>15. InputsOK'
    BY <1>1 DEF InputsOK, inputs, Clashes
  <1>16. PICK D \in SUBSET Branch : Chosen(D)
    BY DEF OccInv
  <1>17. Chosen(D)'
    BY <1>1, <1>16 DEF Chosen, Meet, inputs
  <1>18. FoldsOK(D)'
    <2>1. base \in Trees /\ Content({})' = base
      BY DEF base, Trees, Content
    <2> QED
      BY <1>3, <1>10, <2>1 DEF FoldsOK
  <1> QED
    BY <1>1, <1>11, <1>12, <1>13, <1>14, <1>15, <1>17, <1>18 DEF OccInv, CombineOK

-----------------------------------------------------------------------------
(* The folds and the combine.                                               *)

\* The steps after the partition leave its half of the invariant.
LEMMA FoldFrame ==
  ASSUME OccInv, UNCHANGED <<inputs, finder, groups>>
  PROVE  /\ InputsOK /\ InputsOK' /\ FinderOK' /\ GroupsOK /\ GroupsOK'
         /\ \A D : Chosen(D) => Chosen(D)'
         /\ \A L : Content(L)' = Content(L)
         /\ \E n \in Nat : groups \in [1..n -> SUBSET Branch]
  <1>1. InputsOK /\ FinderOK /\ GroupsOK
    BY DEF OccInv
  <1>2. InputsOK'
    BY <1>1 DEF InputsOK, inputs, Clashes
  <1>3. FinderOK'
    <2>1. \A b \in Branch, q \in Paths : Seen(b, q)' <=> Seen(b, q)
      BY DEF Seen, inputs, finder
    <2> QED
      BY <1>1, <2>1 DEF FinderOK, finder
  <1>4. GroupsOK'
    BY <1>1 DEF GroupsOK, inputs
  <1>5. \A D : Chosen(D) => Chosen(D)'
    BY DEF Chosen, Meet, inputs
  <1>6. \A L : Content(L)' = Content(L)
    BY DEF Content, inputs
  <1> QED
    BY <1>1, <1>2, <1>3, <1>4, <1>5, <1>6 DEF GroupsOK

\* A group decides about its next branch as the serial integrator does.
LEMMA GroupDecides ==
  ASSUME InputsOK, GroupsOK, NEW D \in SUBSET Branch, Chosen(D), FoldsOK(D),
         NEW g \in DOMAIN groups, left[g] # {}
  PROVE  /\ least(left[g]) \in left[g] /\ least(left[g]) \in Branch
         /\ Lands(tree[g], least(left[g]), landed[g] = {}) <=> least(left[g]) \in D
  <1> DEFINE b == least(left[g])
             L == landed[g]
             E == {c \in D : c < b}
  <1>1. /\ left[g] \in SUBSET Branch /\ groups[g] \in SUBSET Branch /\ left[g] \subseteq groups[g]
        /\ \A x \in left[g], c \in groups[g] \ left[g] : c < x
        /\ L = D \intersect (groups[g] \ left[g]) /\ tree[g] = Content(L)
    BY DEF FoldsOK, GroupsOK
  <1>2. b \in left[g] /\ b \in Branch /\ \A c \in left[g] : b <= c
    BY <1>1, LeastBranch
  <1> HIDE DEF b, L
  <1>3. Meet(L, b) = Meet(E, b)
    <2>1. L \subseteq E
      BY <1>1, <1>2
    <2>2. ASSUME NEW a \in E, writeSet[a] \intersect writeSet[b] # {} PROVE a \in L
      <3>1. a \in Branch /\ a < b /\ a \in D
        OBVIOUS
      <3>2. PICK h \in DOMAIN groups : a \in groups[h]
        <4>1. groups # << >>
          OBVIOUS
        <4> QED
          BY <3>1, <4>1 DEF GroupsOK
      <3>3. h = g
        BY <1>1, <1>2, <2>2, <3>2 DEF GroupsOK
      <3>4. a \notin left[g]
        BY <1>2, <3>1 DEF Branch
      <3> QED
        BY <1>1, <3>1, <3>2, <3>3, <3>4
    <2> HIDE DEF E
    <2> QED
      BY <2>1, <2>2 DEF Meet
  <1>4. b \in D <=> Meet(E, b) \subseteq resolvable
    BY <1>2 DEF Chosen
  <1>5. Lands(Content(L), b, L = {}) <=> Meet(L, b) \subseteq resolvable
    BY <1>1, <1>2, ContentGrows
  <1>6. Lands(tree[g], b, L = {}) <=> b \in D
    <2> HIDE DEF E
    <2> QED
      BY <1>1, <1>3, <1>4, <1>5, Zenon
  <1> QED
    BY <1>2, <1>6 DEF b, L

\* One branch of a group.
LEMMA FoldKeeps == ASSUME OccInv, NEW g \in DOMAIN groups, Fold(g) PROVE OccInv'
  <1> DEFINE b == least(left[g])
  <1>1. /\ left[g] # {} /\ left' = [left EXCEPT ![g] = left[g] \ {b}]
        /\ UNCHANGED <<inputs, finder, groups, cur, next>>
    BY DEF Fold
  <1>2. /\ InputsOK /\ InputsOK' /\ FinderOK' /\ GroupsOK /\ GroupsOK' /\ StagesOK
        /\ \A L : Content(L)' = Content(L)
    BY <1>1, FoldFrame DEF OccInv
  <1>3. PICK D \in SUBSET Branch : Chosen(D) /\ FoldsOK(D) /\ CombineOK(D)
    BY DEF OccInv
  <1>4. Chosen(D)'
    BY <1>1, <1>3, FoldFrame
  <1>5. b \in left[g] /\ b \in Branch /\ (Lands(tree[g], b, landed[g] = {}) <=> b \in D)
    BY <1>1, <1>2, <1>3, GroupDecides
  <1>6. \/ /\ b \in D /\ tree' = [tree EXCEPT ![g] = MergeTree(tree[g], tip(b))]
           /\ landed' = [landed EXCEPT ![g] = landed[g] \union {b}] /\ UNCHANGED flagged
        \/ /\ b \notin D /\ flagged' = [flagged EXCEPT ![g] = flagged[g] \union {b}]
           /\ UNCHANGED <<tree, landed>>
    <2> DEFINE lands == Lands(tree[g], b, landed[g] = {})
    <2>1. \/ /\ lands /\ tree' = [tree EXCEPT ![g] = MergeTree(tree[g], tip(b))]
             /\ landed' = [landed EXCEPT ![g] = landed[g] \union {b}] /\ UNCHANGED flagged
          \/ /\ ~lands /\ flagged' = [flagged EXCEPT ![g] = flagged[g] \union {b}]
             /\ UNCHANGED <<tree, landed>>
      BY DEF Fold
    <2>2. lands <=> b \in D
      BY <1>5
    <2> HIDE DEF lands, b
    <2> QED
      BY <2>1, <2>2, Zenon
  <1> HIDE DEF b
  <1>7. /\ tree \in [DOMAIN groups -> Trees] /\ landed \in [DOMAIN groups -> SUBSET Branch]
        /\ flagged \in [DOMAIN groups -> SUBSET Branch] /\ left \in [DOMAIN groups -> SUBSET Branch]
        /\ \A h \in DOMAIN groups :
              /\ left[h] \subseteq groups[h]
              /\ \A x \in left[h], c \in groups[h] \ left[h] : c < x
              /\ landed[h] = D \intersect (groups[h] \ left[h])
              /\ flagged[h] = (groups[h] \ left[h]) \ D
              /\ tree[h] = Content(landed[h])
    BY <1>3 DEF FoldsOK
  <1>8. MergeTree(tree[g], tip(b)) = Content(landed[g] \union {b})
        /\ Content(landed[g] \union {b}) \in Trees
    <2>1. landed[g] \in SUBSET Branch /\ landed[g] \union {b} \in SUBSET Branch
      BY <1>5, <1>7
    <2> QED
      BY <1>2, <1>5, <1>7, <2>1, ContentGrows
  <1>9. /\ tree' \in [DOMAIN groups -> Trees] /\ landed' \in [DOMAIN groups -> SUBSET Branch]
        /\ flagged' \in [DOMAIN groups -> SUBSET Branch] /\ left' \in [DOMAIN groups -> SUBSET Branch]
    BY <1>1, <1>5, <1>6, <1>7, <1>8
  <1>10. ASSUME NEW h \in DOMAIN groups
         PROVE  /\ left'[h] \subseteq groups[h]
                /\ \A x \in left'[h], c \in groups[h] \ left'[h] : c < x
                /\ landed'[h] = D \intersect (groups[h] \ left'[h])
                /\ flagged'[h] = (groups[h] \ left'[h]) \ D
                /\ tree'[h] = Content(landed'[h])
    <2>1. CASE h # g
      <3>1. /\ left'[h] = left[h] /\ landed'[h] = landed[h] /\ flagged'[h] = flagged[h]
            /\ tree'[h] = tree[h]
        BY <1>1, <1>6, <1>7, <2>1
      <3> QED
        BY <1>7, <3>1
    <2>2. CASE h = g
      <3>1. left'[h] = left[g] \ {b} /\ b \in groups[g] /\ left[g] \subseteq groups[g]
        BY <1>1, <1>5, <1>7, <2>2
      <3>2. \A x \in left'[h], c \in groups[h] \ left'[h] : c < x
        <4> SUFFICES ASSUME NEW x \in left[g], x # b, NEW c \in groups[g], c \notin left[g] \/ c = b
                     PROVE  c < x
          BY <2>2, <3>1
        <4>1. b <= x
          <5>1. left[g] \in SUBSET Branch
            BY <1>7
          <5> QED
            BY <5>1, LeastBranch DEF b
        <4>2. b \in Nat /\ x \in Nat
          BY <1>5, <1>7 DEF Branch
        <4> QED
          BY <1>7, <4>1, <4>2
      <3>3. groups[g] \ left'[h] = (groups[g] \ left[g]) \union {b}
        BY <3>1
      <3>4. CASE b \in D
        <4>1. /\ tree'[h] = Content(landed[g] \union {b}) /\ landed'[h] = landed[g] \union {b}
              /\ flagged'[h] = flagged[g]
          BY <1>6, <1>7, <1>8, <2>2, <3>4
        <4> QED
          BY <1>7, <2>2, <3>1, <3>2, <3>3, <3>4, <4>1
      <3>5. CASE b \notin D
        <4>1. /\ tree'[h] = tree[g] /\ landed'[h] = landed[g] /\ flagged'[h] = flagged[g] \union {b}
          BY <1>6, <1>7, <2>2, <3>5
        <4> QED
          BY <1>7, <2>2, <3>1, <3>2, <3>3, <3>5, <4>1
      <3> QED
        BY <3>4, <3>5
    <2> QED
      BY <2>1, <2>2
  <1>11. FoldsOK(D)'
    BY <1>1, <1>2, <1>9, <1>10 DEF FoldsOK
  <1>12. cur = << >> /\ next = << >>
    <2>1. g \in DOMAIN left
      BY <1>7
    <2> QED
      BY <1>1, <1>3, <2>1 DEF CombineOK, Folded
  <1>13. StagesOK'
    BY <1>1, <1>2 DEF StagesOK, inputs, finder
  <1> QED
    BY <1>1, <1>2, <1>4, <1>11, <1>12, <1>13 DEF OccInv, CombineOK

\* The rest of what the combine leaves alone.
LEMMA CombineFrame ==
  ASSUME OccInv, UNCHANGED <<inputs, finder, groups, folds>>, groups # << >>,
         NEW D \in SUBSET Branch, Chosen(D), FoldsOK(D), CombineOK(D)'
  PROVE  OccInv'
  <1>1. /\ InputsOK' /\ FinderOK' /\ GroupsOK' /\ StagesOK /\ Chosen(D)'
        /\ \A L : Content(L)' = Content(L)
    BY FoldFrame DEF OccInv
  <1>2. FoldsOK(D)'
    BY <1>1 DEF FoldsOK, folds
  <1>3. StagesOK'
    BY <1>1 DEF StagesOK, inputs, finder
  <1> QED
    BY <1>1, <1>2, <1>3 DEF OccInv

\* The group heads hold each path in one place, and all that is chosen.
LEMMA GroupHeads ==
  ASSUME InputsOK, GroupsOK, NEW D \in SUBSET Branch, FoldsOK(D), Folded,
         NEW m \in Nat, groups \in [1..m -> SUBSET Branch]
  PROVE  LevelOK(tree, m, D)
  <1>1. DOMAIN groups = 1..m /\ tree \in [1..m -> Trees]
    BY DEF FoldsOK
  <1>2. \A g \in 1..m : tree[g] = Content(D \intersect groups[g])
    <2> TAKE g \in 1..m
    <2>1. g \in DOMAIN left
      BY <1>1 DEF FoldsOK
    <2>2. left[g] = {}
      BY <2>1 DEF Folded
    <2> QED
      BY <1>1, <2>2 DEF FoldsOK
  <1>3. \A g \in 1..m : \A p \in Paths : \A b :
           b \in tree[g][p] <=> b \in D /\ b \in groups[g] /\ p \in writeSet[b]
    <2> TAKE g \in 1..m
    <2> TAKE p \in Paths
    <2>1. tree[g] = [q \in Paths |-> {b \in D \intersect groups[g] : q \in writeSet[b]}]
      BY <1>2 DEF Content
    <2>2. tree[g][p] = {b \in D \intersect groups[g] : p \in writeSet[b]}
      BY <2>1
    <2> QED
      BY <2>2
  <1>4. ASSUME NEW j \in 1..m, NEW k \in 1..m, NEW p \in Paths, j # k
        PROVE  tree[j][p] = {} \/ tree[k][p] = {}
    <2> SUFFICES ASSUME NEW a \in tree[j][p], NEW b \in tree[k][p] PROVE FALSE
      OBVIOUS
    <2>1. a \in groups[j] /\ b \in groups[k] /\ p \in writeSet[a] /\ p \in writeSet[b]
      BY <1>3
    <2> QED
      BY <1>1, <1>4, <2>1 DEF GroupsOK
  <1>5. ASSUME NEW p \in Paths, NEW b \in Branch
        PROVE  (b \in D /\ p \in writeSet[b]) <=> \E k \in 1..m : b \in tree[k][p]
    <2>1. \E k \in 1..m : b \in groups[k]
      BY <1>1 DEF GroupsOK, Folded
    <2> QED
      BY <1>3, <2>1
  <1> QED
    BY <1>1, <1>4, <1>5 DEF LevelOK

\* The combine starts from the group heads.
LEMMA StartCombineKeeps == ASSUME OccInv, StartCombine PROVE OccInv'
  <1>1. /\ Folded /\ groups # << >> /\ cur' = tree
        /\ next' = [k \in 1..((Len(tree) + 1) \div 2) |-> << >>]
        /\ UNCHANGED <<inputs, finder, groups, folds>>
    BY DEF StartCombine, Folded
  <1>2. PICK D \in SUBSET Branch : Chosen(D) /\ FoldsOK(D) /\ CombineOK(D)
    BY DEF OccInv
  <1>3. PICK m \in Nat : groups \in [1..m -> SUBSET Branch]
    BY DEF OccInv, GroupsOK
  <1>4. m > 0
    BY <1>1, <1>3, LengthOf
  <1>5. LevelOK(tree, m, D)
    BY <1>1, <1>2, <1>3, GroupHeads DEF OccInv
  <1>6. Len(tree) = m
    BY <1>5, LengthOf DEF LevelOK
  <1>7. Folded'
    BY <1>1 DEF Folded, folds
  <1>8. LevelOK(cur, m, D)'
    BY <1>1, <1>5 DEF LevelOK, inputs
  <1>9. CombineOK(D)'
    <2>1. /\ DOMAIN next' = 1..((m + 1) \div 2) /\ next' = [k \in DOMAIN next' |-> next'[k]]
          /\ \A k \in DOMAIN next' : next'[k] = << >>
      BY <1>1, <1>6
    <2> QED
      BY <1>4, <1>7, <1>8, <2>1 DEF CombineOK
  <1> QED
    BY <1>1, <1>2, <1>9, CombineFrame

\* One pair of a level.
LEMMA PairKeeps == ASSUME OccInv, NEW k \in DOMAIN next, Pair(k) PROVE OccInv'
  <1>1. /\ Len(cur) > 1 /\ next[k] = << >> /\ UNCHANGED <<inputs, finder, groups, folds, cur>>
        /\ next' = [next EXCEPT ![k] = <<MergeTree(cur[2 * k - 1],
                                          IF 2 * k <= Len(cur) THEN cur[2 * k] ELSE base)>>]
    BY DEF Pair
  <1>2. PICK D \in SUBSET Branch : Chosen(D) /\ FoldsOK(D) /\ CombineOK(D)
    BY DEF OccInv
  <1>3. cur # << >>
    BY <1>1, EmptySeq
  <1>4. Folded
    BY <1>2, <1>3 DEF CombineOK
  <1>5. PICK m \in Nat : /\ m > 0 /\ LevelOK(cur, m, D)
                         /\ DOMAIN next = 1..((m + 1) \div 2)
                         /\ next = [j \in DOMAIN next |-> next[j]]
                         /\ \A j \in DOMAIN next :
                               next[j] = << >> \/ next[j] = <<Merged(cur, m, j)>>
    BY <1>2, <1>3 DEF CombineOK
  <1>6. Len(cur) = m
    BY <1>5, LengthOf DEF LevelOK
  <1>7. next' = [next EXCEPT ![k] = <<Merged(cur, m, k)>>]
    BY <1>1, <1>6 DEF Merged
  <1>8. /\ DOMAIN next' = 1..((m + 1) \div 2) /\ next' = [j \in DOMAIN next' |-> next'[j]]
        /\ \A j \in DOMAIN next' : next'[j] = << >> \/ next'[j] = <<Merged(cur, m, j)>>
    <2> DEFINE new == <<Merged(cur, m, k)>>
    <2>1. next' = [next EXCEPT ![k] = new]
      BY <1>7
    <2> HIDE DEF new
    <2>2. DOMAIN next' = DOMAIN next /\ \A j \in DOMAIN next : next'[j] = IF j = k THEN new ELSE next[j]
      BY <1>5, <2>1
    <2>3. next' = [j \in DOMAIN next' |-> next'[j]]
      BY <2>1
    <2> QED
      BY <1>5, <2>2, <2>3 DEF new
  <1>9. \A j : Merged(cur, m, j)' = Merged(cur, m, j)
    BY <1>1 DEF Merged, MergeTree, base
  <1>10. LevelOK(cur, m, D)' /\ Folded'
    BY <1>1, <1>4, <1>5 DEF LevelOK, Folded, folds, inputs
  <1>11. CombineOK(D)'
    BY <1>5, <1>8, <1>9, <1>10 DEF CombineOK
  <1>12. groups # << >>
    BY <1>4 DEF Folded
  <1> QED
    BY <1>1, <1>2, <1>11, <1>12, CombineFrame

\* Half as many heads with the same edits, each path's still in one of them.
LEMMA HalfTheHeads ==
  ASSUME NEW heads, NEW m \in Nat, m > 0, NEW D \in SUBSET Branch, LevelOK(heads, m, D)
  PROVE  LevelOK([k \in 1..((m + 1) \div 2) |-> Merged(heads, m, k)], (m + 1) \div 2, D)
  <1> DEFINE h == (m + 1) \div 2
             up == [k \in 1..h |-> Merged(heads, m, k)]
  <1>1. h \in Nat /\ \A k \in 1..h : 2 * k - 1 \in 1..m /\ (2 * k <= m => 2 * k \in 1..m)
    OBVIOUS
  <1>2. \A j \in 1..m : \E k \in 1..h : j = 2 * k - 1 \/ j = 2 * k
    <2> TAKE j \in 1..m
    <2>1. (j + 1) \div 2 \in 1..h /\ (j = 2 * ((j + 1) \div 2) - 1 \/ j = 2 * ((j + 1) \div 2))
      OBVIOUS
    <2> QED
      BY <2>1
  <1> HIDE DEF h
  <1>3. ASSUME NEW k \in 1..h
        PROVE  /\ up[k] \in Trees
               /\ \A p \in Paths : \A b :
                     b \in up[k][p] <=> \/ b \in heads[2 * k - 1][p]
                                        \/ 2 * k <= m /\ b \in heads[2 * k][p]
    <2> DEFINE x == heads[2 * k - 1]
               y == IF 2 * k <= m THEN heads[2 * k] ELSE base
    <2>1. up[k] = [p \in Paths |-> x[p] \union y[p]]
      BY DEF Merged, MergeTree
    <2>2. x \in Trees /\ y \in Trees
      BY <1>1 DEF LevelOK, base, Trees
    <2>3. up[k] \in Trees
      <3> HIDE DEF x, y, up
      <3> QED
        BY <2>1, <2>2 DEF Trees
    <2>4. \A p \in Paths : up[k][p] = x[p] \union y[p]
      BY <2>1
    <2>5. \A p \in Paths : \A b : b \in y[p] <=> 2 * k <= m /\ b \in heads[2 * k][p]
      BY DEF base
    <2> HIDE DEF up, y
    <2> QED
      BY <2>3, <2>4, <2>5
  <1>4. up \in [1..h -> Trees]
    <2>1. \A k \in 1..h : up[k] \in Trees
      BY <1>3
    <2> QED
      BY <2>1
  <1> HIDE DEF up
  <1>5. ASSUME NEW j \in 1..h, NEW k \in 1..h, NEW p \in Paths, j # k
        PROVE  up[j][p] = {} \/ up[k][p] = {}
    <2> SUFFICES ASSUME NEW a \in up[j][p], NEW b \in up[k][p] PROVE FALSE
      OBVIOUS
    <2>1. PICK s \in {2 * j - 1, 2 * j} : s \in 1..m /\ a \in heads[s][p]
      BY <1>1, <1>3
    <2>2. PICK t \in {2 * k - 1, 2 * k} : t \in 1..m /\ b \in heads[t][p]
      BY <1>1, <1>3
    <2>3. s # t
      BY <1>1, <1>5, <2>1, <2>2
    <2> QED
      BY <2>1, <2>2, <2>3 DEF LevelOK
  <1>6. ASSUME NEW p \in Paths, NEW b \in Branch
        PROVE  (b \in D /\ p \in writeSet[b]) <=> \E k \in 1..h : b \in up[k][p]
    <2>1. (b \in D /\ p \in writeSet[b]) <=> \E j \in 1..m : b \in heads[j][p]
      BY DEF LevelOK
    <2>2. ASSUME NEW j \in 1..m, b \in heads[j][p] PROVE \E k \in 1..h : b \in up[k][p]
      <3>1. PICK k \in 1..h : j = 2 * k - 1 \/ j = 2 * k
        BY <1>2
      <3> QED
        BY <1>3, <2>2, <3>1
    <2>3. ASSUME NEW k \in 1..h, b \in up[k][p] PROVE \E j \in 1..m : b \in heads[j][p]
      BY <1>1, <1>3, <2>3
    <2> QED
      BY <2>1, <2>2, <2>3
  <1>7. LevelOK(up, h, D)
    BY <1>4, <1>5, <1>6 DEF LevelOK
  <1> QED
    BY <1>7 DEF up, h

\* The next level.
LEMMA LevelKeeps == ASSUME OccInv, Level PROVE OccInv'
  <1>1. /\ Len(cur) > 1 /\ \A k \in DOMAIN next : next[k] # << >>
        /\ cur' = [k \in DOMAIN next |-> next[k][1]]
        /\ next' = [k \in 1..((Len(next) + 1) \div 2) |-> << >>]
        /\ UNCHANGED <<inputs, finder, groups, folds>>
    BY DEF Level
  <1>2. PICK D \in SUBSET Branch : Chosen(D) /\ FoldsOK(D) /\ CombineOK(D)
    BY DEF OccInv
  <1>3. cur # << >>
    BY <1>1, EmptySeq
  <1>4. Folded
    BY <1>2, <1>3 DEF CombineOK
  <1>5. PICK m \in Nat : /\ m > 0 /\ LevelOK(cur, m, D)
                         /\ DOMAIN next = 1..((m + 1) \div 2)
                         /\ next = [j \in DOMAIN next |-> next[j]]
                         /\ \A j \in DOMAIN next :
                               next[j] = << >> \/ next[j] = <<Merged(cur, m, j)>>
    BY <1>2, <1>3 DEF CombineOK
  <1> DEFINE h == (m + 1) \div 2
  <1>6. h \in Nat /\ h > 0
    BY <1>5
  <1>7. Len(next) = h
    <2>1. next \in [1..h -> {next[j] : j \in DOMAIN next}]
      BY <1>5
    <2> HIDE DEF h
    <2> QED
      BY <1>6, <2>1, LengthOf
  <1>8. cur' = [k \in 1..h |-> Merged(cur, m, k)]
    <2>1. \A k \in 1..h : next[k][1] = Merged(cur, m, k)
      BY <1>1, <1>5
    <2> QED
      BY <1>1, <1>5, <2>1
  <1>9. LevelOK(cur', h, D)
    BY <1>5, <1>8, HalfTheHeads
  <1> HIDE DEF h
  <1>10. LevelOK(cur, h, D)'
    BY <1>1, <1>9 DEF LevelOK, inputs
  <1>11. CombineOK(D)'
    <2>1. /\ DOMAIN next' = 1..((h + 1) \div 2) /\ next' = [j \in DOMAIN next' |-> next'[j]]
          /\ \A j \in DOMAIN next' : next'[j] = << >>
      BY <1>1, <1>7
    <2>2. Folded'
      BY <1>1, <1>4 DEF Folded, folds
    <2> QED
      BY <1>6, <1>10, <2>1, <2>2 DEF CombineOK
  <1>12. groups # << >>
    BY <1>4 DEF Folded
  <1> QED
    BY <1>1, <1>2, <1>11, <1>12, CombineFrame

-----------------------------------------------------------------------------
(* The theorems.                                                            *)

LEMMA OccInvariant == OccSpec => []OccInv
  <1>1. ASSUME OccInv, [OccNext]_occVars PROVE OccInv'
    <2>1. CASE UNCHANGED occVars
      <3>1. UNCHANGED <<inputs, groups, folds, cur, next>> /\ UNCHANGED finder
        BY <2>1 DEF occVars
      <3>2. FinderOK'
        BY <1>1, <3>1, FoldFrame
      <3> QED
        BY <1>1, <3>1, <3>2, FinderFrame DEF finder
    <2>2. CASE Index
      BY <1>1, <2>2, IndexKeeps
    <2>3. CASE NextBranch
      BY <1>1, <2>3, NextBranchKeeps
    <2>4. CASE Edge
      BY <1>1, <2>4, EdgeKeeps
    <2>5. CASE Bucket
      BY <1>1, <2>5, BucketKeeps
    <2>6. CASE \E g \in DOMAIN groups : Fold(g)
      BY <1>1, <2>6, FoldKeeps
    <2>7. CASE StartCombine
      BY <1>1, <2>7, StartCombineKeeps
    <2>8. CASE \E k \in DOMAIN next : Pair(k)
      BY <1>1, <2>8, PairKeeps
    <2>9. CASE Level
      BY <1>1, <2>9, LevelKeeps
    <2>10. CASE OccDone
      BY <2>1, <2>10 DEF OccDone
    <2> QED
      BY <1>1, <2>1, <2>2, <2>3, <2>4, <2>5, <2>6, <2>7, <2>8, <2>9, <2>10 DEF OccNext
  <1> QED
    BY OccStarts, <1>1, PTL DEF OccSpec

\* Types; union by rank lets ranks grow towards the roots, so that find's loop (occ.go:139)
\* ends; and a branch of a group is landed, flagged or still to be folded.
THEOREM OccTypeCorrect == OccSpec => []OccTypeOK
  <1>1. OccInv => OccTypeOK
    <2> SUFFICES ASSUME OccInv PROVE OccTypeOK
      OBVIOUS
    <2>1. PICK D : FoldsOK(D)
      BY DEF OccInv
    <2>2. \A g \in DOMAIN groups : /\ tree[g] \in Trees
                                   /\ landed[g] \union flagged[g] \union left[g] = groups[g]
                                   /\ landed[g] \intersect flagged[g] = {}
      BY <2>1 DEF FoldsOK
    <2> QED
      BY <2>2 DEF OccInv, OccTypeOK, FinderOK, Ranked
  <1> QED
    BY <1>1, OccInvariant, PTL

\* No merge of two heads conflicts, for any branches, clashes and semantic edges: the
\* error of combineDisjoint (integrate.go:525) is never taken.
THEOREM CombineNeverConflicts == OccSpec => []HeadsDisjoint
  <1>1. OccInv => HeadsDisjoint
    <2> SUFFICES ASSUME OccInv, NEW j \in DOMAIN cur, NEW k \in DOMAIN cur, j # k
                 PROVE  /\ clashes(cur[j], cur[k]) = {}
                        /\ \A p \in Paths : cur[j][p] = {} \/ cur[k][p] = {}
      BY DEF HeadsDisjoint
    <2>1. PICK D, m : LevelOK(cur, m, D)
      <3>1. cur # << >>
        OBVIOUS
      <3> QED
        BY <3>1 DEF OccInv, CombineOK
    <2>2. \A p \in Paths : cur[j][p] = {} \/ cur[k][p] = {}
      BY <2>1 DEF LevelOK
    <2>3. clashes(cur[j], cur[k]) = {}
      <3>1. \A c \in clash : c[2] \in Paths
        BY DEF OccInv, InputsOK, Clashes
      <3> QED
        BY <2>2, <3>1 DEF clashes
    <2> QED
      BY <2>2, <2>3
  <1> QED
    BY <1>1, OccInvariant, PTL

\* The overlay of trees each path of which one of them holds is the edits of the branches.
LEMMA OverlayIsContent ==
  ASSUME NEW m \in Nat, NEW D \in SUBSET Branch, LevelOK(tree, m, D)
  PROVE  OverlayTrees(tree) = Content(D)
  <1> DEFINE changed(p) == {k \in DOMAIN tree : tree[k][p] # {}}
             top(p) == CHOOSE k \in changed(p) : \A j \in changed(p) : j <= k
  <1>1. DOMAIN tree = 1..m /\ tree \in [1..m -> Trees]
    BY DEF LevelOK
  <1>2. ASSUME NEW p \in Paths
        PROVE  (IF changed(p) = {} THEN {} ELSE tree[top(p)][p]) = {b \in D : p \in writeSet[b]}
    <2>1. \A b \in Branch : (b \in D /\ p \in writeSet[b]) <=> \E k \in 1..m : b \in tree[k][p]
      BY DEF LevelOK
    <2>2. CASE changed(p) = {}
      <3>1. {b \in D : p \in writeSet[b]} = {}
        BY <1>1, <2>1, <2>2
      <3> QED
        BY <2>2, <3>1
    <2>3. CASE changed(p) # {}
      <3>1. PICK k \in changed(p) : TRUE
        BY <2>3
      <3>2. k \in 1..m /\ tree[k][p] # {} /\ \A j \in 1..m : j # k => tree[j][p] = {}
        BY <1>1, <3>1 DEF LevelOK
      <3>3. changed(p) = {k}
        BY <1>1, <3>2
      <3>4. top(p) = k
        <4>1. k <= k
          BY <3>2
        <4> HIDE DEF changed
        <4>2. \E x \in changed(p) : \A j \in changed(p) : j <= x
          BY <3>3, <4>1
        <4>3. top(p) \in changed(p)
          BY <4>2, Zenon
        <4> HIDE DEF top
        <4> QED
          BY <3>3, <4>3
      <3>5. tree[k][p] \in SUBSET Branch
        BY <1>1, <3>2 DEF Trees
      <3>6. \A b \in Branch : b \in tree[k][p] <=> b \in D /\ p \in writeSet[b]
        BY <2>1, <3>2
      <3>7. tree[k][p] = {b \in D : p \in writeSet[b]}
        BY <3>5, <3>6
      <3> HIDE DEF changed, top
      <3> QED
        BY <2>3, <3>4, <3>7
    <2> QED
      BY <2>2, <2>3
  <1>3. OverlayTrees(tree) = [p \in Paths |-> IF changed(p) = {} THEN {} ELSE tree[top(p)][p]]
    BY DEF OverlayTrees
  <1> HIDE DEF changed, top
  <1> QED
    BY <1>2, <1>3 DEF Content

\* Serial equivalence: whatever the branches touch, clash about and are grouped by, and
\* in whatever order the groups fold and their heads combine, the branches that land and
\* the tree they make are IntegrateNaive's, by pairwise merges and by the overlay alike.
THEOREM ParallelIsSerial == OccSpec => []AgreesWithSerial
  <1>1. OccInv => AgreesWithSerial
    <2> SUFFICES ASSUME OccInv, Combined
                 PROVE  /\ Landed = IntegrateNaive.landed
                        /\ cur[1] = IntegrateNaive.tree
                        /\ cur[1] = OverlayTrees(tree)
                        /\ \A p \in Paths : cur[1][p] = {b \in Landed : p \in writeSet[b]}
      BY DEF AgreesWithSerial
    <2>1. PICK D \in SUBSET Branch : Chosen(D) /\ FoldsOK(D) /\ CombineOK(D)
      BY DEF OccInv
    <2>2. cur # << >>
      BY EmptySeq DEF Combined
    <2>3. Folded
      BY <2>1, <2>2 DEF CombineOK
    <2>4. PICK m \in Nat : LevelOK(cur, m, D)
      BY <2>1, <2>2 DEF CombineOK
    <2>5. m = 1
      BY <2>4, LengthOf DEF LevelOK, Combined
    <2>6. D = IntegrateNaive.landed /\ IntegrateNaive.tree = Content(D)
      BY <2>1, SerialChooses, ChosenOnce DEF OccInv
    <2>7. /\ cur[1] \in Trees
          /\ \A p \in Paths, b \in Branch : (b \in D /\ p \in writeSet[b]) <=> b \in cur[1][p]
      BY <2>4, <2>5 DEF LevelOK
    <2>8. cur[1] = Content(D)
      <3>1. Content(D) = [p \in Paths |-> {b \in D : p \in writeSet[b]}]
        BY DEF Content
      <3>2. cur[1] = [p \in Paths |-> cur[1][p]] /\ \A p \in Paths : cur[1][p] \in SUBSET Branch
        BY <2>7 DEF Trees
      <3>3. \A p \in Paths : cur[1][p] = {b \in D : p \in writeSet[b]}
        BY <2>7, <3>2
      <3> QED
        BY <3>1, <3>2, <3>3
    <2>9. PICK n \in Nat : groups \in [1..n -> SUBSET Branch]
      BY DEF OccInv, GroupsOK
    <2>10. OverlayTrees(tree) = Content(D)
      <3>1. LevelOK(tree, n, D)
        BY <2>1, <2>3, <2>9, GroupHeads DEF OccInv
      <3> QED
        BY <3>1, OverlayIsContent
    <2>11. Landed = D
      <3>1. DOMAIN landed = DOMAIN groups /\ DOMAIN left = DOMAIN groups
        BY <2>1 DEF FoldsOK
      <3>2. \A g \in DOMAIN groups : landed[g] = D \intersect groups[g]
        BY <2>1, <2>3, <3>1 DEF FoldsOK, Folded
      <3>3. \A b \in D : \E g \in DOMAIN groups : b \in groups[g]
        BY <2>3 DEF OccInv, GroupsOK, Folded
      <3> QED
        BY <3>1, <3>2, <3>3 DEF Landed
    <2>12. \A p \in Paths : cur[1][p] = {b \in Landed : p \in writeSet[b]}
      BY <2>8, <2>11 DEF Content
    <2> QED
      BY <2>6, <2>8, <2>10, <2>11, <2>12
  <1> QED
    BY <1>1, OccInvariant, PTL
=============================================================================
