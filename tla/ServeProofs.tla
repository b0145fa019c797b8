---------------------------- MODULE ServeProofs ----------------------------
(***************************************************************************)
(* That a daemon keeps one run or ack per cell, counts its runs, and never *)
(* calls a run interrupted that another one executes, for any number of    *)
(* daemons, runs, calls and cells, with kills and sweeps anywhere; and, at *)
(* the end, that its watch loop lands on top of the base, and of a fire    *)
(* only what passed the intent's acceptance.                               *)
(*                                                                         *)
(* The slots alone are not inductive: a slot is freed for the cell a run   *)
(* or an ack names at its end, so these names must stand still meanwhile.  *)
(* Nor are the sweeps': a verdict on an owner is acted on later, and holds *)
(* then because a process that is gone does not come back.                 *)
(***************************************************************************)
EXTENDS Serve, Watch, FiniteSetTheorems, TLAPS

\* A run has its daemon, its cell and a marker from the moment it is accepted, and an
\* outcome once driveRun returned.
Accepted ==
    /\ \A r \in Runs : /\ pc[r] = "none" <=> host[r] = Nobody
                       /\ pc[r] = "none" <=> cell[r] = Nobody
                       /\ pc[r] = "none" <=> status[r].phase = "none"
    /\ \A r \in Runs : pc[r] \in {"park", "mark", "finish"} => outcome[r] # "none"

\* A call in flight is for an accepted run, in a daemon unless it is nobody's.
Called ==
    \A k \in Calls : /\ kind[k] = "none" <=> call[k] \in {"idle", "end"}
                     /\ kind[k] # "none" => target[k] \in Runs /\ pc[target[k]] # "none"
                     /\ kind[k] \in {"ack", "read"} => via[k] \in Daemons
                     /\ call[k] = "mark" => verdict[k] # "none"

\* A sweep judges accepted runs.
Swept ==
    \A p \in Daemons : /\ sight[p].judged => sight[p].run \in Runs
                       /\ sight[p].run \in Runs => pc[sight[p].run] # "none"

IInv == TypeOK /\ Accepted /\ Called /\ Swept /\ SlotExclusion /\ QuotaHolds

Running(p) == {r \in Runs : host[r] = p /\ Executing(r)}

-----------------------------------------------------------------------------
\* Steps that leave the slots and their holders where they are.
Still ==
    /\ UNCHANGED <<busy, active, host, cell>>
    /\ \A r \in Runs : pc'[r] \in {"none", "end"} <=> pc[r] \in {"none", "end"}
    /\ \A k \in Calls : \/ kind[k] # "ack" /\ kind'[k] # "ack"
                        \/ kind'[k] = kind[k] /\ via'[k] = via[k] /\ target'[k] = target[k]

\* Such a step disturbs neither the slots nor the counter.
LEMMA StillSlots == SlotExclusion /\ QuotaHolds /\ Still => SlotExclusion' /\ QuotaHolds'
  <1> SUFFICES ASSUME SlotExclusion, QuotaHolds, Still PROVE SlotExclusion' /\ QuotaHolds'
    OBVIOUS
  <1>1. \A p \in Daemons, c \in Cells : runsIn(p, c)' = runsIn(p, c) /\ acksIn(p, c)' = acksIn(p, c)
    BY DEF Still, runsIn, acksIn
  <1>2. \A p \in Daemons :
           {r \in Runs : host[r] = p /\ Executing(r)}' = {r \in Runs : host[r] = p /\ Executing(r)}
    BY DEF Still, Executing
  <1>3. SlotExclusion'
    BY <1>1 DEF Still, SlotExclusion
  <1>4. QuotaHolds'
    BY <1>2 DEF Still, QuotaHolds
  <1> QED
    BY <1>3, <1>4

\* The initial state.
LEMMA InitOK == Init => IInv
  <1> SUFFICES ASSUME Init PROVE IInv
    OBVIOUS
  <1> USE ServeAssumption DEF Init, ServeAssumption
  <1>1. TypeOK
    BY DEF TypeOK, Unseen, Phases
  <1>2. Accepted /\ Called /\ Swept
    BY DEF Accepted, Called, Swept, Unseen
  <1>3. SlotExclusion
    BY DEF SlotExclusion, runsIn, acksIn
  <1>4. QuotaHolds
    <2>1. \A p \in Daemons : {r \in Runs : host[r] = p /\ Executing(r)} = {}
      BY DEF Executing
    <2>2. \A p \in Daemons : active[p] = 0
      OBVIOUS
    <2> HIDE DEF Init
    <2> QED
      BY <2>1, <2>2, FS_EmptySet DEF QuotaHolds
  <1> QED
    BY <1>1, <1>2, <1>3, <1>4 DEF IInv

-----------------------------------------------------------------------------
\* The recovery sweep reads other processes' directories and writes markers, and holds
\* no slot.
LEMMA RecoveryOK == ASSUME IInv, NEW p \in Daemons, Recovery(p) PROVE IInv'
  <1> USE ServeAssumption DEF ServeAssumption
  <1>0. TypeOK /\ Accepted /\ Called /\ Swept /\ SlotExclusion /\ QuotaHolds
    BY DEF IInv
  <1>1. Still
    BY DEF Recovery, Start, Look, Judge, Heal, Listen, Still, memory, sweep, disk, runs, calls
  <1>2. SlotExclusion' /\ QuotaHolds'
    BY <1>0, <1>1, StillSlots
  <1>3. CASE Start(p)
    <2>1. TypeOK'
      BY <1>0, <1>3 DEF Start, TypeOK, memory, sweep, disk, runs, calls
    <2>2. Accepted' /\ Called' /\ Swept'
      BY <1>0, <1>3 DEF Start, Accepted, Called, Swept, memory, sweep, disk, runs, calls
    <2> QED
      BY <1>2, <2>1, <2>2 DEF IInv
  <1> DEFINE Sight == [run : Runs \union {Nobody}, owner : Daemons \union {Nobody},
                       judged : BOOLEAN, parked : BOOLEAN]
  <1>a. /\ sight \in [Daemons -> Sight] /\ Unseen \in Sight /\ Unseen.run \notin Runs /\ ~Unseen.judged
        /\ sight = [sight EXCEPT ![p] = sight[p]]
        /\ todo \in [Daemons -> SUBSET Runs]
    BY <1>0 DEF TypeOK, Unseen
  <1>b. \A x \in Sight : sight' = [sight EXCEPT ![p] = x]
                         => sight' \in [Daemons -> Sight] /\ sight'[p] = x
                            /\ \A q \in Daemons \ {p} : sight'[q] = sight[q]
    BY <1>a
  <1>4. ASSUME NEW r \in Runs, Look(p, r) PROVE IInv'
    <2>1. PICK x \in Sight : /\ sight' = [sight EXCEPT ![p] = x]
                             /\ \/ x = sight[p]
                                \/ x.run = r /\ ~x.judged /\ pc[r] # "none"
      <3>1. CASE sight' = sight
        BY <1>a, <3>1
      <3>2. CASE sight' # sight
        <4> DEFINE y == [run |-> r, owner |-> status[r].owner, judged |-> FALSE, parked |-> FALSE]
        <4>1. sight' = [sight EXCEPT ![p] = y] /\ status[r].phase # "none"
          BY <1>4, <3>2 DEF Look
        <4>2. y \in Sight
          BY <1>0, <1>4 DEF TypeOK
        <4> QED
          BY <1>0, <1>4, <4>1, <4>2 DEF Accepted
      <3> QED
        BY <3>1, <3>2
    <2>2. todo' \in [Daemons -> SUBSET Runs]
      BY <1>a, <1>4 DEF Look
    <2>3. UNCHANGED <<up, memory, disk, runs, calls>>
      BY <1>4 DEF Look
    <2>4. TypeOK'
      <3> HIDE DEF Sight
      <3>1. sight' \in [Daemons -> Sight]
        BY <1>b, <2>1
      <3> QED
        BY <1>0, <2>2, <2>3, <3>1 DEF TypeOK, memory, disk, runs, calls, Sight
    <2>5. Accepted' /\ Called'
      BY <1>0, <2>3 DEF Accepted, Called, disk, runs, calls
    <2>6. Swept'
      BY <1>0, <1>b, <2>1, <2>3 DEF Swept, runs
    <2> QED
      BY <1>2, <2>4, <2>5, <2>6 DEF IInv
  <1>5. CASE Judge(p)
    <2>1. PICK x \in Sight : /\ sight' = [sight EXCEPT ![p] = x]
                             /\ \/ x = Unseen
                                \/ x.run = sight[p].run /\ x.run \in Runs
      <3>1. CASE sight' = [sight EXCEPT ![p] = Unseen]
        <4>1. Unseen \in Sight
          BY <1>a
        <4> HIDE DEF Sight
        <4> QED
          BY <3>1, <4>1
      <3>2. CASE sight' = [sight EXCEPT ![p].judged = TRUE, ![p].parked = (park[sight[p].run] = "open")]
        <4> DEFINE y == [sight[p] EXCEPT !.judged = TRUE, !.parked = (park[sight[p].run] = "open")]
        <4>1. sight[p] \in Sight /\ sight[p].run \in Runs
          BY <1>a, <1>5 DEF Judge
        <4>2. y \in Sight /\ y.run = sight[p].run
          BY <4>1
        <4>3. sight' = [sight EXCEPT ![p] = y]
          BY <1>a, <3>2
        <4> QED
          BY <4>1, <4>2, <4>3
      <3> QED
        BY <1>5, <3>1, <3>2 DEF Judge
    <2>2. todo' \in [Daemons -> SUBSET Runs]
      BY <1>a, <1>5 DEF Judge
    <2>3. UNCHANGED <<up, memory, disk, runs, calls>>
      BY <1>5 DEF Judge
    <2>4. TypeOK'
      <3> HIDE DEF Sight
      <3>1. sight' \in [Daemons -> Sight]
        BY <1>b, <2>1
      <3> QED
        BY <1>0, <2>2, <2>3, <3>1 DEF TypeOK, memory, disk, runs, calls, Sight
    <2>5. Accepted' /\ Called'
      BY <1>0, <2>3 DEF Accepted, Called, disk, runs, calls
    <2>6. Swept'
      BY <1>0, <1>a, <1>b, <2>1, <2>3 DEF Swept, runs
    <2> QED
      BY <1>2, <2>4, <2>5, <2>6 DEF IInv
  <1>6. CASE Heal(p)
    <2>1. TypeOK'
      BY <1>0, <1>6 DEF Heal, Record, TypeOK, Swept, Unseen, Phases, memory, sweep, disk, runs, calls
    <2>2. Accepted' /\ Called'
      BY <1>0, <1>6 DEF Heal, Record, TypeOK, Accepted, Called, Swept, memory, sweep, disk, runs, calls
    <2>3. Swept'
      BY <1>0, <1>6 DEF Heal, Swept, TypeOK, Unseen, runs
    <2> QED
      BY <1>2, <2>1, <2>2, <2>3 DEF IInv
  <1>7. CASE Listen(p)
    <2>1. TypeOK'
      BY <1>0, <1>7 DEF Listen, TypeOK, memory, sweep, disk, runs, calls
    <2>2. Accepted' /\ Called' /\ Swept'
      BY <1>0, <1>7 DEF Listen, Accepted, Called, Swept, memory, sweep, disk, runs, calls
    <2> QED
      BY <1>2, <2>1, <2>2 DEF IInv
  <1> QED
    BY <1>3, <1>4, <1>5, <1>6, <1>7 DEF Recovery

-----------------------------------------------------------------------------
\* An accepted run takes a free slot and is one more to count.
LEMMA AcquireOK == ASSUME IInv, NEW p \in Daemons, NEW r \in Runs, NEW c \in Cells,
                          acquireRun(p, r, c)
                   PROVE  IInv'
  <1> USE ServeAssumption DEF ServeAssumption
  <1>0. TypeOK /\ Accepted /\ Called /\ Swept /\ SlotExclusion /\ QuotaHolds
    BY DEF IInv
  <1>1. /\ pc[r] = "none" /\ c \notin busy[p] /\ Quota(p)
        /\ host' = [host EXCEPT ![r] = p] /\ cell' = [cell EXCEPT ![r] = c]
        /\ pc' = [pc EXCEPT ![r] = "queued"]
        /\ busy' = [busy EXCEPT ![p] = @ \union {c}]
        /\ active' = [active EXCEPT ![p] = @ + 1]
        /\ mem' = [mem EXCEPT ![p][r] = "queued"]
        /\ status' = [status EXCEPT ![r] = [phase |-> "queued", owner |-> p]]
        /\ UNCHANGED <<up, todo, sight, park, outcome, call, kind, via, target, verdict>>
    BY DEF acquireRun, Record, Take, Remember, sweep, calls
  <1>2. TypeOK'
    <2>1. host' \in [Runs -> Daemons \union {Nobody}] /\ cell' \in [Runs -> Cells \union {Nobody}]
      BY <1>0, <1>1 DEF TypeOK
    <2>2. busy' \in [Daemons -> SUBSET Cells] /\ active' \in [Daemons -> Nat]
      BY <1>0, <1>1 DEF TypeOK
    <2>3. mem' \in [Daemons -> [Runs -> Phases]]
      BY <1>0, <1>1 DEF TypeOK, Phases
    <2>4. status' \in [Runs -> [phase : Phases, owner : Daemons \union {Nobody}]]
      BY <1>0, <1>1 DEF TypeOK, Phases
    <2>5. pc' \in [Runs -> {"none", "queued", "driving", "park", "mark", "finish", "end"}]
      BY <1>0, <1>1 DEF TypeOK
    <2> QED
      BY <1>0, <1>1, <2>1, <2>2, <2>3, <2>4, <2>5 DEF TypeOK
  <1>3. Accepted' /\ Called' /\ Swept'
    BY <1>0, <1>1 DEF TypeOK, Accepted, Called, Swept
  <1>4. SlotExclusion'
    <2>1. \A q \in Daemons, d \in Cells : acksIn(q, d)' = acksIn(q, d)
      BY <1>0, <1>1 DEF acksIn, Called, TypeOK
    <2>2. runsIn(p, c)' = runsIn(p, c) \union {r}
      BY <1>0, <1>1 DEF runsIn, TypeOK, Accepted
    <2>3. \A q \in Daemons, d \in Cells : q # p \/ d # c => runsIn(q, d)' = runsIn(q, d)
      BY <1>0, <1>1 DEF runsIn, TypeOK, Accepted
    <2>4. runsIn(p, c) = {} /\ acksIn(p, c) = {}
      BY <1>0, <1>1 DEF SlotExclusion
    <2>5. \A q \in Daemons, d \in Cells : d \in busy'[q] <=> d \in busy[q] \/ (q = p /\ d = c)
      BY <1>0, <1>1 DEF TypeOK
    <2> QED
      BY <1>0, <2>1, <2>2, <2>3, <2>4, <2>5 DEF SlotExclusion
  <1>5. QuotaHolds'
    <2>1. Running(p)' = Running(p) \union {r} /\ r \notin Running(p)
      BY <1>0, <1>1 DEF Running, Executing, TypeOK, Accepted
    <2>2. \A q \in Daemons \ {p} : Running(q)' = Running(q) /\ active'[q] = active[q]
      BY <1>0, <1>1 DEF Running, Executing, TypeOK, Accepted
    <2>3. IsFiniteSet(Running(p))
      BY FS_Subset DEF Running
    <2>4. Cardinality(Running(p)') = Cardinality(Running(p)) + 1
      BY <2>1, <2>3, FS_AddElement
    <2>5. active'[p] = active[p] + 1 /\ active[p] \in Nat
      BY <1>0, <1>1 DEF TypeOK
    <2>6. active[p] = Cardinality(Running(p)) /\ (MaxConcurrent > 0 => active[p] < MaxConcurrent)
      BY <1>0, <1>1 DEF QuotaHolds, Running, Quota
    <2>7. active'[p] = Cardinality(Running(p)') /\ (MaxConcurrent > 0 => active'[p] <= MaxConcurrent)
      BY <2>4, <2>5, <2>6
    <2> QED
      BY <1>0, <2>2, <2>7 DEF QuotaHolds, Running
  <1> QED
    BY <1>0, <1>2, <1>3, <1>4, <1>5 DEF IInv

\* A run moves through execRun without leaving its slot.
LEMMA ExecOK == ASSUME IInv, NEW r \in Runs, Begin(r) \/ Drive(r) \/ Park(r) \/ Mark(r)
                PROVE  IInv'
  <1> USE ServeAssumption DEF ServeAssumption
  <1>0. TypeOK /\ Accepted /\ Called /\ Swept /\ SlotExclusion /\ QuotaHolds
    BY DEF IInv
  <1>1. PICK l \in {"driving", "park", "mark", "finish"} : pc' = [pc EXCEPT ![r] = l]
    BY DEF Begin, Drive, Park, Mark, Goto
  <1>2. /\ pc[r] \in {"queued", "driving", "park", "mark"}
        /\ UNCHANGED <<up, busy, active, todo, sight, host, cell, call, kind, via, target, verdict>>
    BY DEF Begin, Drive, Park, Mark, At, memory, sweep, disk, runs, calls
  <1>3. Still
    BY <1>0, <1>1, <1>2 DEF Still, TypeOK
  <1>4. SlotExclusion' /\ QuotaHolds'
    BY <1>0, <1>3, StillSlots
  <1>5. host[r] \in Daemons
    BY <1>0, <1>2 DEF Accepted, TypeOK
  <1>6. /\ outcome' \in [Runs -> {"none", "done", "awaiting-ack", "error"}]
        /\ pc'[r] \in {"park", "mark", "finish"} => outcome'[r] # "none"
        /\ \A x \in Runs \ {r} : outcome'[x] = outcome[x]
    <2>1. /\ outcome \in [Runs -> {"none", "done", "awaiting-ack", "error"}]
          /\ pc'[r] \in {"driving", "park", "mark", "finish"}
      BY <1>0, <1>1 DEF TypeOK
    <2>2. CASE Begin(r) \/ Mark(r)
      BY <1>0, <2>1, <2>2 DEF Begin, Mark, At, Goto, Accepted, TypeOK
    <2>3. CASE Drive(r)
      BY <2>1, <2>3 DEF Drive
    <2>4. CASE Park(r)
      BY <1>0, <2>1, <2>4 DEF Park, At, Accepted
    <2> QED
      BY <2>2, <2>3, <2>4
  <1>7. \/ status' = status
        \/ \E ph \in Phases \ {"none"} :
              status' = [status EXCEPT ![r] = [phase |-> ph, owner |-> host[r]]]
    BY <1>0 DEF Begin, Drive, Park, Mark, At, Record, Accepted, TypeOK, Phases, disk
  <1>8. /\ status' \in [Runs -> [phase : Phases, owner : Daemons \union {Nobody}]]
        /\ \A x \in Runs : status'[x].phase = "none" <=> status[x].phase = "none"
    <2>1. status \in [Runs -> [phase : Phases, owner : Daemons \union {Nobody}]]
      BY <1>0 DEF TypeOK
    <2>2. status[r].phase # "none"
      BY <1>0, <1>2 DEF Accepted
    <2> QED
      BY <1>5, <1>7, <2>1, <2>2
  <1>9. /\ park' \in [Runs -> {"none", "open", "resolved"}]
        /\ mem' \in [Daemons -> [Runs -> Phases]]
    <2>1. /\ park \in [Runs -> {"none", "open", "resolved"}]
          /\ mem \in [Daemons -> [Runs -> Phases]]
          /\ "running" \in Phases
      BY <1>0 DEF TypeOK, Phases
    <2>2. CASE Begin(r)
      BY <1>5, <2>1, <2>2 DEF Begin, Remember
    <2>3. CASE Drive(r)
      BY <2>1, <2>3 DEF Drive, memory, disk
    <2>4. CASE Park(r)
      BY <2>1, <2>4 DEF Park, memory
    <2>5. CASE Mark(r)
      BY <2>1, <2>5 DEF Mark, memory
    <2> QED
      BY <2>2, <2>3, <2>4, <2>5
  <1>10. TypeOK'
    BY <1>0, <1>1, <1>2, <1>6, <1>8, <1>9 DEF TypeOK
  <1>11. Accepted'
    BY <1>0, <1>1, <1>2, <1>6, <1>8 DEF Accepted, TypeOK
  <1>12. Called' /\ Swept'
    BY <1>0, <1>1, <1>2 DEF Called, Swept, TypeOK
  <1> QED
    BY <1>4, <1>10, <1>11, <1>12 DEF IInv

\* The last step of a run gives its slot back, and it was the run's.
LEMMA FinishOK == ASSUME IInv, NEW r \in Runs, Finish(r) PROVE IInv'
  <1> USE ServeAssumption DEF ServeAssumption
  <1>0. TypeOK /\ Accepted /\ Called /\ Swept /\ SlotExclusion /\ QuotaHolds
    BY DEF IInv
  <1> DEFINE p == host[r]
             c == cell[r]
  <1>1. /\ pc[r] = "finish" /\ pc' = [pc EXCEPT ![r] = "end"]
        /\ mem' = [mem EXCEPT ![p][r] = outcome[r]]
        /\ outcome' = [outcome EXCEPT ![r] = "none"]
        /\ busy' = [busy EXCEPT ![p] = @ \ {c}]
        /\ active' = [active EXCEPT ![p] = @ - 1]
        /\ UNCHANGED <<up, todo, sight, status, park, host, cell, call, kind, via, target, verdict>>
    BY DEF Finish, Finished, Free, Remember, At, Goto, sweep, disk, calls
  <1>2. p \in Daemons /\ c \in Cells
    BY <1>0, <1>1 DEF Accepted, TypeOK
  <1>3. QuotaHolds' /\ active' \in [Daemons -> Nat]
    <2>1. Running(p)' = Running(p) \ {r} /\ r \in Running(p)
      BY <1>0, <1>1 DEF Running, Executing, TypeOK
    <2>2. \A q \in Daemons \ {p} : Running(q)' = Running(q) /\ active'[q] = active[q]
      BY <1>0, <1>1, <1>2 DEF Running, Executing, TypeOK
    <2>3. IsFiniteSet(Running(p))
      BY FS_Subset DEF Running
    <2>4. Cardinality(Running(p)') = Cardinality(Running(p)) - 1
      BY <2>1, <2>3, FS_RemoveElement
    <2>5. active'[p] = active[p] - 1 /\ active[p] \in Nat
      BY <1>0, <1>1, <1>2 DEF TypeOK
    <2>6. active[p] = Cardinality(Running(p)) /\ (MaxConcurrent > 0 => active[p] <= MaxConcurrent)
      BY <1>0, <1>2 DEF QuotaHolds, Running
    <2>7. Cardinality(Running(p)') \in Nat
      BY <2>1, <2>3, FS_RemoveElement, FS_CardinalityType
    <2>8. /\ active'[p] = Cardinality(Running(p)') /\ active'[p] \in Nat
          /\ MaxConcurrent > 0 => active'[p] <= MaxConcurrent
      BY <2>4, <2>5, <2>6, <2>7
    <2>9. QuotaHolds'
      BY <1>0, <1>1, <2>2, <2>8 DEF QuotaHolds, Running
    <2> QED
      BY <1>0, <1>1, <1>2, <2>8, <2>9 DEF TypeOK
  <1>4. TypeOK'
    <2>1. mem' \in [Daemons -> [Runs -> Phases]]
      BY <1>0, <1>1, <1>2 DEF TypeOK, Phases
    <2>2. busy' \in [Daemons -> SUBSET Cells]
      BY <1>0, <1>1, <1>2 DEF TypeOK
    <2>3. outcome' \in [Runs -> {"none", "done", "awaiting-ack", "error"}]
      BY <1>0, <1>1 DEF TypeOK
    <2>4. pc' \in [Runs -> {"none", "queued", "driving", "park", "mark", "finish", "end"}]
      BY <1>0, <1>1 DEF TypeOK
    <2> QED
      BY <1>0, <1>1, <1>3, <2>1, <2>2, <2>3, <2>4 DEF TypeOK
  <1>5. Accepted' /\ Called' /\ Swept'
    BY <1>0, <1>1 DEF TypeOK, Accepted, Called, Swept
  <1>6. SlotExclusion'
    <2>1. \A q \in Daemons, d \in Cells : acksIn(q, d)' = acksIn(q, d)
      BY <1>1 DEF acksIn
    <2>2. \A q \in Daemons, d \in Cells : runsIn(q, d)' = runsIn(q, d) \ {r}
      BY <1>0, <1>1 DEF runsIn, TypeOK
    <2>3. r \in runsIn(p, c)
      BY <1>1 DEF runsIn
    <2>4. runsIn(p, c) = {r} /\ acksIn(p, c) = {}
      BY <1>0, <1>2, <2>3 DEF SlotExclusion
    <2>5. \A q \in Daemons, d \in Cells : r \in runsIn(q, d) => q = p /\ d = c
      BY DEF runsIn
    <2>6. \A q \in Daemons, d \in Cells : d \in busy'[q] <=> d \in busy[q] /\ (q # p \/ d # c)
      BY <1>0, <1>1, <1>2 DEF TypeOK
    <2> QED
      BY <1>0, <2>1, <2>2, <2>4, <2>5, <2>6 DEF SlotExclusion
  <1> QED
    BY <1>3, <1>4, <1>5, <1>6 DEF IInv

-----------------------------------------------------------------------------
\* An ack or reject takes a free slot of the cell whose run it is for.
LEMMA AckOK == ASSUME IInv, NEW k \in Calls, Ack(k) PROVE IInv'
  <1> USE ServeAssumption DEF ServeAssumption
  <1>0. TypeOK /\ Accepted /\ Called /\ Swept /\ SlotExclusion /\ QuotaHolds
    BY DEF IInv
  <1>1. PICK p \in Daemons, r \in Runs :
           /\ status[r].phase # "none" /\ cell[r] \notin busy[p]
           /\ busy' = [busy EXCEPT ![p] = @ \union {cell[r]}]
           /\ target' = [target EXCEPT ![k] = r] /\ via' = [via EXCEPT ![k] = p]
    BY DEF Ack, Exists, Take, For, Via
  <1>2. /\ call[k] = "idle" /\ call' = [call EXCEPT ![k] = "resolve"]
        /\ kind' = [kind EXCEPT ![k] = "ack"]
        /\ UNCHANGED <<up, active, mem, todo, sight, status, park, host, cell, pc, outcome, verdict>>
    BY DEF Ack, CallAt, CallGoto, Becomes, sweep, disk, runs
  <1>3. pc[r] # "none" /\ cell[r] \in Cells /\ kind[k] = "none"
    BY <1>0, <1>1, <1>2 DEF Accepted, Called, TypeOK
  <1>4. TypeOK'
    <2>1. busy' \in [Daemons -> SUBSET Cells]
      BY <1>0, <1>1, <1>3 DEF TypeOK
    <2>2. /\ call' \in [Calls -> {"idle", "resolve", "mark", "answer", "end"}]
          /\ kind' \in [Calls -> {"none", "ack", "read", "other"}]
          /\ via' \in [Calls -> Daemons \union {Nobody}]
          /\ target' \in [Calls -> Runs \union {Nobody}]
      BY <1>0, <1>1, <1>2 DEF TypeOK
    <2> QED
      BY <1>0, <1>2, <2>1, <2>2 DEF TypeOK
  <1>5. Accepted' /\ Swept'
    BY <1>0, <1>2 DEF Accepted, Swept
  <1>6. Called'
    BY <1>0, <1>1, <1>2, <1>3 DEF Called, TypeOK
  <1>7. SlotExclusion'
    <2>0. PICK c \in Cells : c = cell[r]
      BY <1>3
    <2>1. \A q \in Daemons, d \in Cells : runsIn(q, d)' = runsIn(q, d)
      BY <1>2 DEF runsIn
    <2>2. acksIn(p, c)' = acksIn(p, c) \union {k}
      BY <1>0, <2>0, <1>1, <1>2 DEF acksIn, TypeOK
    <2>3. \A q \in Daemons, d \in Cells : q # p \/ d # c => acksIn(q, d)' = acksIn(q, d)
      BY <1>0, <2>0, <1>1, <1>2, <1>3 DEF acksIn, TypeOK
    <2>4. runsIn(p, c) = {} /\ acksIn(p, c) = {}
      BY <1>0, <2>0, <1>1, <1>3 DEF SlotExclusion
    <2>5. \A q \in Daemons, d \in Cells : d \in busy'[q] <=> d \in busy[q] \/ (q = p /\ d = c)
      BY <1>0, <2>0, <1>1 DEF TypeOK
    <2>6. acksIn(p, c)' = {k}
      BY <2>2, <2>4
    <2> QED
      BY <1>0, <2>1, <2>3, <2>4, <2>5, <2>6 DEF SlotExclusion
  <1>8. QuotaHolds'
    BY <1>0, <1>2 DEF QuotaHolds, Executing
  <1> QED
    BY <1>4, <1>5, <1>6, <1>7, <1>8 DEF IInv

\* The calls that hold no slot, and the steps of a call before its end.
LEMMA CallOK == ASSUME IInv, NEW k \in Calls, Read(k) \/ Other(k) \/ Resolve(k) \/ MarkResolved(k)
                PROVE  IInv'
  <1> USE ServeAssumption DEF ServeAssumption
  <1>0. TypeOK /\ Accepted /\ Called /\ Swept /\ SlotExclusion /\ QuotaHolds
    BY DEF IInv
  <1>1. UNCHANGED <<up, busy, active, mem, todo, sight, host, cell, pc, outcome>>
    BY DEF Read, Other, Resolve, MarkResolved, memory, sweep, runs
  <1>2. /\ kind[k] = "none" => call[k] \in {"idle", "end"}
        /\ kind[k] # "none" => target[k] \in Runs /\ pc[target[k]] # "none"
    BY <1>0 DEF Called
  <1>3. Still
    <2>1. CASE Read(k) \/ Other(k)
      <3>1. kind[k] = "none" /\ \E d \in {"read", "other"} : kind' = [kind EXCEPT ![k] = d]
        BY <1>0, <2>1 DEF Read, Other, CallAt, Becomes, Called
      <3>2. \A j \in Calls \ {k} : via'[j] = via[j] /\ target'[j] = target[j]
        BY <1>0, <2>1 DEF Read, Other, For, Via, TypeOK
      <3> QED
        BY <1>0, <1>1, <3>1, <3>2 DEF Still, TypeOK
    <2>2. CASE Resolve(k) \/ MarkResolved(k)
      BY <1>1, <2>2 DEF Resolve, MarkResolved, Still
    <2> QED
      BY <2>1, <2>2
  <1>4. SlotExclusion' /\ QuotaHolds'
    BY <1>0, <1>3, StillSlots
  <1>5. \A r \in Runs : diskRunStatus(r) \in Phases
    BY <1>0 DEF diskRunStatus, TypeOK, Phases
  <1>6. ASSUME status' \in [Runs -> [phase : Phases, owner : Daemons \union {Nobody}]],
               park' \in [Runs -> {"none", "open", "resolved"}],
               call' \in [Calls -> {"idle", "resolve", "mark", "answer", "end"}],
               kind' \in [Calls -> {"none", "ack", "read", "other"}],
               via' \in [Calls -> Daemons \union {Nobody}],
               target' \in [Calls -> Runs \union {Nobody}],
               verdict' \in [Calls -> Phases],
               \A r \in Runs : status'[r].phase = "none" <=> status[r].phase = "none",
               Called'
        PROVE  IInv'
    <2>1. TypeOK'
      BY <1>0, <1>1, <1>6 DEF TypeOK
    <2>2. Accepted' /\ Swept'
      BY <1>0, <1>1, <1>6 DEF Accepted, Swept
    <2> QED
      BY <1>4, <1>6, <2>1, <2>2 DEF IInv
  <1> DEFINE TypedCalls ==
               /\ call \in [Calls -> {"idle", "resolve", "mark", "answer", "end"}]
               /\ kind \in [Calls -> {"none", "ack", "read", "other"}]
               /\ via \in [Calls -> Daemons \union {Nobody}]
               /\ target \in [Calls -> Runs \union {Nobody}]
               /\ verdict \in [Calls -> Phases]
  <1>7. /\ TypedCalls
        /\ status \in [Runs -> [phase : Phases, owner : Daemons \union {Nobody}]]
        /\ park \in [Runs -> {"none", "open", "resolved"}]
        /\ mem \in [Daemons -> [Runs -> Phases]]
    BY <1>0 DEF TypeOK
  <1>8. CASE Read(k)
    <2>1. PICK p \in Daemons, r \in Runs :
             /\ status[r].phase # "none" /\ target' = [target EXCEPT ![k] = r]
             /\ via' = [via EXCEPT ![k] = p]
             /\ verdict' = [verdict EXCEPT ![k] = IF mem[p][r] = "none" THEN diskRunStatus(r)
                                                  ELSE mem[p][r]]
      BY <1>8 DEF Read, Exists, For, Via, Says
    <2>2. /\ kind' = [kind EXCEPT ![k] = "read"] /\ call' = [call EXCEPT ![k] = "resolve"]
          /\ UNCHANGED <<status, park>>
      BY <1>8 DEF Read, Becomes, CallGoto, disk
    <2>3. pc[r] # "none"
      BY <1>0, <2>1 DEF Accepted
    <2>4. TypedCalls'
      BY <1>5, <1>7, <2>1, <2>2
    <2>5. Called'
      BY <1>0, <1>1, <1>7, <2>1, <2>2, <2>3 DEF Called
    <2> QED
      BY <1>6, <1>7, <2>2, <2>4, <2>5
  <1>9. CASE Other(k)
    <2>1. PICK r \in Runs : status[r].phase # "none" /\ target' = [target EXCEPT ![k] = r]
      BY <1>9 DEF Other, Exists, For
    <2>2. /\ kind' = [kind EXCEPT ![k] = "other"] /\ call' = [call EXCEPT ![k] = "resolve"]
          /\ UNCHANGED <<status, park, via, verdict>>
      BY <1>9 DEF Other, Becomes, CallGoto, disk
    <2>3. pc[r] # "none"
      BY <1>0, <2>1 DEF Accepted
    <2>4. TypedCalls'
      BY <1>7, <2>1, <2>2
    <2>5. Called'
      BY <1>0, <1>1, <1>7, <2>1, <2>2, <2>3 DEF Called
    <2> QED
      BY <1>6, <1>7, <2>2, <2>4, <2>5
  <1>10. CASE Resolve(k)
    <2>1. PICK v \in {"rejected", "done"} : verdict' = [verdict EXCEPT ![k] = v]
      BY <1>10 DEF Resolve, Says
    <2>2. /\ call[k] = "resolve" /\ call' = [call EXCEPT ![k] = "mark"]
          /\ park' = [park EXCEPT ![target[k]] = "resolved"]
          /\ UNCHANGED <<status, kind, via, target>>
      BY <1>10 DEF Resolve, CallAt, CallGoto
    <2>3. TypedCalls'
      BY <1>7, <2>1, <2>2 DEF Phases
    <2>4. Called'
      BY <1>0, <1>1, <1>7, <2>1, <2>2 DEF Called
    <2>5. park' \in [Runs -> {"none", "open", "resolved"}]
      BY <1>7, <2>2
    <2> QED
      BY <1>6, <1>7, <2>2, <2>3, <2>4, <2>5
  <1>11. CASE MarkResolved(k)
    <2>1. /\ call[k] = "mark" /\ call' = [call EXCEPT ![k] = "answer"]
          /\ status' = [status EXCEPT ![target[k]] = [phase |-> verdict[k], owner |-> via[k]]]
          /\ UNCHANGED <<park, kind, via, target, verdict>>
      BY <1>11 DEF MarkResolved, CallAt, CallGoto, Record
    <2>2. /\ target[k] \in Runs /\ pc[target[k]] # "none" /\ status[target[k]].phase # "none"
          /\ verdict[k] # "none"
      BY <1>0, <1>2, <2>1 DEF Called, Accepted
    <2>3. TypedCalls'
      BY <1>7, <2>1
    <2>4. Called'
      BY <1>0, <1>1, <1>7, <2>1 DEF Called
    <2>5. /\ status' \in [Runs -> [phase : Phases, owner : Daemons \union {Nobody}]]
          /\ \A r \in Runs : status'[r].phase = "none" <=> status[r].phase = "none"
      BY <1>7, <2>1, <2>2
    <2> QED
      BY <1>6, <1>7, <2>1, <2>3, <2>4, <2>5
  <1> QED
    BY <1>8, <1>9, <1>10, <1>11

\* A call ends and gives back the slot it holds, if it is an ack's.
LEMMA EndedOK == ASSUME IInv, NEW k \in Calls, kind[k] # "none", Ended(k),
                        mem' \in [Daemons -> [Runs -> Phases]],
                        UNCHANGED <<up, active, sweep, disk, runs>>
                 PROVE  IInv'
  <1> USE ServeAssumption DEF ServeAssumption
  <1>0. TypeOK /\ Accepted /\ Called /\ Swept /\ SlotExclusion /\ QuotaHolds
    BY DEF IInv
  <1>1. /\ call' = [call EXCEPT ![k] = "end"] /\ kind' = [kind EXCEPT ![k] = "none"]
        /\ via' = [via EXCEPT ![k] = Nobody] /\ target' = [target EXCEPT ![k] = Nobody]
        /\ verdict' = [verdict EXCEPT ![k] = "none"]
        /\ UNCHANGED <<up, active, todo, sight, status, park, host, cell, pc, outcome>>
    BY DEF Ended, CallGoto, Becomes, Via, For, Says, sweep, disk, runs
  <1>2. /\ call' \in [Calls -> {"idle", "resolve", "mark", "answer", "end"}]
        /\ kind' \in [Calls -> {"none", "ack", "read", "other"}]
        /\ via' \in [Calls -> Daemons \union {Nobody}]
        /\ target' \in [Calls -> Runs \union {Nobody}]
        /\ verdict' \in [Calls -> Phases]
    BY <1>0, <1>1 DEF TypeOK, Phases
  <1>3. Accepted' /\ Swept'
    BY <1>0, <1>1 DEF Accepted, Swept
  <1>4. Called'
    BY <1>0, <1>1 DEF Called, TypeOK
  <1>5. QuotaHolds'
    BY <1>0, <1>1 DEF QuotaHolds, Executing
  <1>6. busy' \in [Daemons -> SUBSET Cells] /\ SlotExclusion'
    <2>1. CASE kind[k] # "ack"
      <3>1. busy' = busy
        BY <2>1 DEF Ended
      <3>2. Still
        BY <1>0, <1>1, <2>1, <3>1 DEF Still, TypeOK
      <3> QED
        BY <1>0, <3>1, <3>2, StillSlots DEF TypeOK
    <2>2. CASE kind[k] = "ack"
      <3>1. PICK p \in Daemons, c \in Cells : p = via[k] /\ c = cell[target[k]]
        BY <1>0, <2>2 DEF Called, Accepted, TypeOK
      <3>2. busy' = [busy EXCEPT ![p] = @ \ {c}]
        BY <2>2, <3>1 DEF Ended, Free
      <3>3. busy' \in [Daemons -> SUBSET Cells]
        BY <1>0, <3>2 DEF TypeOK
      <3>4. \A q \in Daemons, d \in Cells : runsIn(q, d)' = runsIn(q, d)
        BY <1>1 DEF runsIn
      <3>5. \A q \in Daemons, d \in Cells : acksIn(q, d)' = acksIn(q, d) \ {k}
        BY <1>0, <1>1 DEF acksIn, TypeOK
      <3>6. k \in acksIn(p, c)
        BY <2>2, <3>1 DEF acksIn
      <3>7. acksIn(p, c) = {k} /\ runsIn(p, c) = {}
        BY <1>0, <3>6 DEF SlotExclusion
      <3>8. \A q \in Daemons, d \in Cells : k \in acksIn(q, d) => q = p /\ d = c
        BY <3>1 DEF acksIn
      <3>9. \A q \in Daemons, d \in Cells : d \in busy'[q] <=> d \in busy[q] /\ (q # p \/ d # c)
        BY <1>0, <3>2 DEF TypeOK
      <3>10. SlotExclusion'
        BY <1>0, <3>4, <3>5, <3>7, <3>8, <3>9 DEF SlotExclusion
      <3> QED
        BY <3>3, <3>10
    <2> QED
      BY <2>1, <2>2
  <1>7. TypeOK'
    BY <1>0, <1>1, <1>2, <1>6 DEF TypeOK
  <1> QED
    BY <1>3, <1>4, <1>5, <1>6, <1>7 DEF IInv

\* The last step of a call.
LEMMA CallEndsOK == ASSUME IInv, NEW k \in Calls, Decline(k) \/ Answer(k) PROVE IInv'
  <1>0. TypeOK /\ Called
    BY DEF IInv
  <1>1. kind[k] # "none"
    BY <1>0 DEF Decline, Answer, CallAt, Called
  <1>2. mem \in [Daemons -> [Runs -> Phases]]
    BY <1>0 DEF TypeOK
  <1>3. CASE Decline(k)
    BY <1>1, <1>2, <1>3, EndedOK DEF Decline
  <1>4. CASE Answer(k)
    <2> DEFINE v == IF kind[k] = "read" THEN diskRunStatus(target[k]) ELSE verdict[k]
    <2>1. target[k] \in Runs /\ (kind[k] # "other" => via[k] \in Daemons)
      BY <1>0, <1>1 DEF Called, TypeOK
    <2>2. v \in Phases
      BY <1>0, <2>1 DEF diskRunStatus, TypeOK, Phases
    <2>3. \/ mem' = mem
          \/ kind[k] # "other" /\ mem' = [mem EXCEPT ![via[k]][target[k]] = v]
      BY <1>4 DEF Answer, Remember
    <2> HIDE DEF v
    <2>4. mem' \in [Daemons -> [Runs -> Phases]]
      BY <1>2, <2>1, <2>2, <2>3
    <2> QED
      BY <1>1, <1>4, <2>4, EndedOK DEF Answer
  <1> QED
    BY <1>3, <1>4

-----------------------------------------------------------------------------
\* A process takes its slots with it, and everybody who held one of them.
LEMMA DiesOK == ASSUME IInv, NEW p \in Daemons, Dies(p),
                       up' \in [Daemons -> {"off", "recovering", "serving", "draining",
                                            "stopped", "dead"}]
                PROVE  IInv'
  <1> USE ServeAssumption DEF ServeAssumption
  <1>0. TypeOK /\ Accepted /\ Called /\ Swept /\ SlotExclusion /\ QuotaHolds
    BY DEF IInv
  <1>1. UNCHANGED <<status, park, host, cell>>
    BY DEF Dies, disk
  <1>2. \A r \in Runs : IF host[r] = p THEN pc'[r] = "end" /\ outcome'[r] = "none"
                                       ELSE pc'[r] = pc[r] /\ outcome'[r] = outcome[r]
    BY DEF Dies
  <1>3. \A k \in Calls :
           IF via[k] = p THEN /\ call'[k] = "end" /\ kind'[k] = "none" /\ via'[k] = Nobody
                              /\ target'[k] = Nobody /\ verdict'[k] = "none"
           ELSE /\ call'[k] = call[k] /\ kind'[k] = kind[k] /\ via'[k] = via[k]
                /\ target'[k] = target[k] /\ verdict'[k] = verdict[k]
    BY DEF Dies
  <1>4. \A r \in Runs : pc'[r] = "none" <=> pc[r] = "none"
    BY <1>0, <1>2 DEF Accepted
  <1>5. \A q \in Daemons : IF q = p THEN busy'[q] = {} /\ active'[q] = 0
                                    ELSE busy'[q] = busy[q] /\ active'[q] = active[q]
    BY <1>0 DEF Dies, TypeOK
  <1>6. TypeOK'
    <2>1. busy' \in [Daemons -> SUBSET Cells] /\ active' \in [Daemons -> Nat]
      BY <1>0 DEF Dies, TypeOK
    <2>2. mem' \in [Daemons -> [Runs -> Phases]] /\ todo' \in [Daemons -> SUBSET Runs]
      BY <1>0 DEF Dies, TypeOK, Phases
    <2>3. sight' \in [Daemons -> [run : Runs \union {Nobody}, owner : Daemons \union {Nobody},
                                 judged : BOOLEAN, parked : BOOLEAN]]
      BY <1>0 DEF Dies, TypeOK, Unseen
    <2>4. /\ pc' \in [Runs -> {"none", "queued", "driving", "park", "mark", "finish", "end"}]
          /\ outcome' \in [Runs -> {"none", "done", "awaiting-ack", "error"}]
      BY <1>0 DEF Dies, TypeOK
    <2>5. /\ call' \in [Calls -> {"idle", "resolve", "mark", "answer", "end"}]
          /\ kind' \in [Calls -> {"none", "ack", "read", "other"}]
          /\ via' \in [Calls -> Daemons \union {Nobody}]
          /\ target' \in [Calls -> Runs \union {Nobody}]
          /\ verdict' \in [Calls -> Phases]
      BY <1>0 DEF Dies, TypeOK, Phases
    <2> QED
      BY <1>0, <1>1, <2>1, <2>2, <2>3, <2>4, <2>5 DEF TypeOK
  <1>7. Accepted'
    BY <1>0, <1>1, <1>2, <1>4 DEF Accepted
  <1>8. Called'
    BY <1>0, <1>3, <1>4 DEF Called, TypeOK
  <1>9. Swept'
    <2>1. \A q \in Daemons : sight'[q] = sight[q] \/ sight'[q] = Unseen
      BY <1>0 DEF Dies, TypeOK
    <2> QED
      BY <1>0, <1>4, <2>1 DEF Swept, Unseen
  <1>10. SlotExclusion'
    <2>1. \A c \in Cells : runsIn(p, c)' = {} /\ acksIn(p, c)' = {}
      BY <1>1, <1>2, <1>3 DEF runsIn, acksIn
    <2>2. \A q \in Daemons \ {p}, c \in Cells : runsIn(q, c)' = runsIn(q, c)
      BY <1>1, <1>2 DEF runsIn
    <2>3. \A q \in Daemons \ {p}, c \in Cells : acksIn(q, c)' = acksIn(q, c)
      BY <1>1, <1>3 DEF acksIn
    <2> QED
      BY <1>0, <1>5, <2>1, <2>2, <2>3 DEF SlotExclusion
  <1>11. QuotaHolds'
    <2>1. Running(p)' = {} /\ Cardinality({}) = 0
      BY <1>1, <1>2, FS_EmptySet DEF Running, Executing
    <2>2. \A q \in Daemons \ {p} : Running(q)' = Running(q)
      BY <1>1, <1>2 DEF Running, Executing
    <2> QED
      BY <1>0, <1>5, <2>1, <2>2 DEF QuotaHolds, Running
  <1> QED
    BY <1>6, <1>7, <1>8, <1>9, <1>10, <1>11 DEF IInv

\* The invariant does not ask whether a process is told to stop.
LEMMA IdleOK == ASSUME IInv, UNCHANGED <<memory, sweep, disk, runs, calls>>,
                       up' \in [Daemons -> {"off", "recovering", "serving", "draining",
                                            "stopped", "dead"}]
                PROVE  IInv'
  <1>0. TypeOK /\ Accepted /\ Called /\ Swept /\ SlotExclusion /\ QuotaHolds
    BY DEF IInv
  <1>1. Still
    BY DEF Still, memory, runs, calls
  <1>2. SlotExclusion' /\ QuotaHolds'
    BY <1>0, <1>1, StillSlots
  <1>3. TypeOK'
    BY <1>0 DEF TypeOK, memory, sweep, disk, runs, calls
  <1>4. Accepted' /\ Called' /\ Swept'
    BY <1>0 DEF Accepted, Called, Swept, sweep, disk, runs, calls
  <1> QED
    BY <1>2, <1>3, <1>4 DEF IInv

\* Draining, stopping, being killed.
LEMMA EndOK == ASSUME IInv, NEW p \in Daemons, Drain(p) \/ Stop(p) \/ Kill(p) PROVE IInv'
  <1>0. up \in [Daemons -> {"off", "recovering", "serving", "draining", "stopped", "dead"}]
    BY DEF IInv, TypeOK
  <1>1. \E w \in {"draining", "stopped", "dead"} : up' = [up EXCEPT ![p] = w]
    BY DEF Drain, Stop, Kill
  <1>2. up' \in [Daemons -> {"off", "recovering", "serving", "draining", "stopped", "dead"}]
    BY <1>0, <1>1
  <1>3. CASE Drain(p)
    BY <1>2, <1>3, IdleOK DEF Drain
  <1>4. CASE Stop(p) \/ Kill(p)
    BY <1>2, <1>4, DiesOK DEF Stop, Kill
  <1> QED
    BY <1>3, <1>4

\* Each step preserves the invariant.
LEMMA StepOK == IInv /\ [Next]_serveVars => IInv'
  <1> SUFFICES ASSUME IInv, [Next]_serveVars PROVE IInv'
    OBVIOUS
  <1>1. ASSUME NEW p \in Daemons, Recovery(p) \/ Drain(p) \/ Stop(p) \/ Kill(p) PROVE IInv'
    BY <1>1, RecoveryOK, EndOK
  <1>2. ASSUME NEW p \in Daemons, NEW r \in Runs, NEW c \in Cells, acquireRun(p, r, c) PROVE IInv'
    BY <1>2, AcquireOK
  <1>3. ASSUME NEW r \in Runs, Exec(r) \/ Drive(r) PROVE IInv'
    BY <1>3, ExecOK, FinishOK DEF Exec
  <1>4. ASSUME NEW k \in Calls, Ack(k) \/ Read(k) \/ Other(k) \/ CallStep(k) PROVE IInv'
    BY <1>4, AckOK, CallOK, CallEndsOK DEF CallStep
  <1>5. CASE UNCHANGED serveVars
    <2>1. UNCHANGED <<memory, sweep, disk, runs, calls>> /\ up' = up
      BY <1>5 DEF serveVars
    <2>2. up' \in [Daemons -> {"off", "recovering", "serving", "draining", "stopped", "dead"}]
      BY <2>1 DEF IInv, TypeOK
    <2> QED
      BY <2>1, <2>2, IdleOK
  <1> QED
    BY <1>1, <1>2, <1>3, <1>4, <1>5 DEF Next

\* The invariant holds throughout.
LEMMA Invariant == Spec => []IInv
  BY InitOK, StepOK, PTL DEF Spec

-----------------------------------------------------------------------------
\* A daemon's memory, its sweep and the directories keep their types, and the run counter
\* is never negative (server, acquireRun, recoverStaleRuns).
THEOREM TypeCorrect == Spec => []TypeOK
  <1>1. IInv => TypeOK
    BY DEF IInv
  <1> QED
    BY <1>1, Invariant, PTL

\* In a daemon a cell has one run, ack or reject at a time, and its slot is taken exactly
\* while it has one, however runs, acks and daemons end (acquireRun, acquireCell, release).
THEOREM OnePerCell == Spec => []SlotExclusion
  <1>1. IInv => SlotExclusion
    BY DEF IInv
  <1> QED
    BY <1>1, Invariant, PTL

\* s.activeRuns is the number of runs a daemon executes, and within its limit.
THEOREM RunsAreCounted == Spec => []QuotaHolds
  <1>1. IInv => QuotaHolds
    BY DEF IInv
  <1> QED
    BY <1>1, Invariant, PTL

-----------------------------------------------------------------------------
\* Who wrote a marker is who executes the run: a daemon that executes one is up, a
\* queued or running marker names the run's daemon, and a sweep that found its owner
\* gone has seen the last of the run.
Owned ==
    /\ \A r \in Runs : Executing(r) => up[host[r]] \in {"serving", "draining"}
    /\ \A r \in Runs : status[r].phase \in {"queued", "running"} => status[r].owner = host[r]
    /\ \A p \in Daemons : /\ sight[p].run \in Runs => sight[p].owner = host[sight[p].run]
                          /\ sight[p].judged => ~Executing(sight[p].run)
    /\ \A k \in Calls : call[k] = "mark" => verdict[k] \in {"rejected", "done"}

OInv == Owned /\ LiveRunsLeftAlone

\* Initially nothing is accepted.
LEMMA OwnedInit == Init => OInv
  BY ServeAssumption DEF ServeAssumption, Init, OInv, Owned, LiveRunsLeftAlone, Executing, Unseen

\* A sweep interrupts only what no process executes any more.
LEMMA OwnedRecovery == ASSUME IInv, OInv, NEW p \in Daemons, Recovery(p) PROVE OInv'
  <1> USE ServeAssumption DEF ServeAssumption
  <1>0. TypeOK /\ Accepted /\ Swept /\ Owned /\ LiveRunsLeftAlone
    BY DEF IInv, OInv
  <1>1. UNCHANGED <<host, pc, call, verdict>>
    BY DEF Recovery, Start, Look, Judge, Heal, Listen, runs, calls
  <1>2. /\ up \in [Daemons -> {"off", "recovering", "serving", "draining", "stopped", "dead"}]
        /\ sight \in [Daemons -> [run : Runs \union {Nobody}, owner : Daemons \union {Nobody},
                                 judged : BOOLEAN, parked : BOOLEAN]]
        /\ status \in [Runs -> [phase : Phases, owner : Daemons \union {Nobody}]]
        /\ \A r \in Runs : Executing(r) => host[r] \in Daemons
    BY <1>0 DEF TypeOK, Accepted, Executing
  <1>3. \A r \in Runs : Executing(r) => up'[host[r]] \in {"serving", "draining"}
    BY <1>0, <1>2 DEF Owned, Recovery, Start, Look, Judge, Heal, Listen
  <1>4. CASE Start(p) \/ Listen(p)
    BY <1>0, <1>1, <1>3, <1>4
       DEF Start, Listen, OInv, Owned, LiveRunsLeftAlone, Executing, memory, disk, runs, calls, sweep
  <1>5. ASSUME NEW r \in Runs, Look(p, r) PROVE OInv'
    <2>1. /\ status' = status
          /\ \/ sight' = sight
             \/ /\ status[r].phase \in {"queued", "running"}
                /\ sight' = [sight EXCEPT ![p] = [run |-> r, owner |-> status[r].owner,
                                                judged |-> FALSE, parked |-> FALSE]]
      BY <1>5 DEF Look, disk
    <2>2. \A q \in Daemons : \/ sight'[q] = sight[q]
                             \/ sight'[q].run = r /\ sight'[q].owner = host[r] /\ ~sight'[q].judged
      BY <1>0, <1>2, <2>1 DEF Owned
    <2> QED
      BY <1>0, <1>1, <1>3, <2>1, <2>2 DEF OInv, Owned, LiveRunsLeftAlone, Executing
  <1>6. CASE Judge(p)
    <2>1. status' = status
      BY <1>6 DEF Judge, disk
    <2>2. \A q \in Daemons \ {p} : sight'[q] = sight[q]
      BY <1>2, <1>6 DEF Judge
    <2>3. CASE sight' = [sight EXCEPT ![p] = Unseen]
      <3>1. sight'[p].run \notin Runs /\ ~sight'[p].judged
        BY <1>2, <2>3 DEF Unseen
      <3> QED
        BY <1>0, <1>1, <1>3, <2>1, <2>2, <3>1 DEF OInv, Owned, LiveRunsLeftAlone, Executing
    <2>4. CASE /\ ~ownedByLiveProcess(sight[p].owner)
               /\ sight' = [sight EXCEPT ![p].judged = TRUE, ![p].parked = (park[sight[p].run] = "open")]
      <3>1. sight[p].run \in Runs /\ sight[p].owner = host[sight[p].run]
        BY <1>0, <1>6 DEF Judge, Owned
      <3>2. ~Executing(sight[p].run)
        BY <1>0, <1>2, <2>4, <3>1 DEF Owned, ownedByLiveProcess, Alive
      <3>3. sight'[p].run = sight[p].run /\ sight'[p].owner = sight[p].owner
        BY <1>2, <2>4
      <3> QED
        BY <1>0, <1>1, <1>3, <2>1, <2>2, <3>1, <3>2, <3>3 DEF OInv, Owned, LiveRunsLeftAlone, Executing
    <2> QED
      BY <1>6, <2>3, <2>4 DEF Judge
  <1>7. CASE Heal(p)
    <2>1. PICK x \in Runs, ph \in {"awaiting-ack", "interrupted"} :
             x = sight[p].run /\ status' = [status EXCEPT ![x] = [phase |-> ph, owner |-> p]]
      BY <1>0, <1>7 DEF Heal, Record, Swept
    <2>2. ~Executing(x)
      BY <1>0, <1>7, <2>1 DEF Heal, Owned
    <2>3. \A q \in Daemons : \/ sight'[q] = sight[q]
                             \/ sight'[q].run \notin Runs /\ ~sight'[q].judged
      BY <1>2, <1>7 DEF Heal, Unseen
    <2>4. \A y \in Runs : y # x => status'[y] = status[y]
      BY <1>2, <2>1
    <2>5. status'[x].phase \in {"awaiting-ack", "interrupted"}
      BY <1>2, <2>1
    <2> QED
      BY <1>0, <1>1, <1>3, <2>2, <2>3, <2>4, <2>5 DEF OInv, Owned, LiveRunsLeftAlone, Executing
  <1> QED
    BY <1>4, <1>5, <1>6, <1>7 DEF Recovery

\* A run is accepted by a daemon that is up, and its markers name that daemon.
LEMMA OwnedRun == ASSUME IInv, OInv,
                         \/ \E p \in Daemons, r \in Runs, c \in Cells : acquireRun(p, r, c)
                         \/ \E r \in Runs : Exec(r) \/ Drive(r)
                  PROVE  OInv'
  <1>0. TypeOK /\ Accepted /\ Swept /\ Owned /\ LiveRunsLeftAlone
    BY DEF IInv, OInv
  <1>1. /\ up' = up /\ sight' = sight /\ call' = call /\ verdict' = verdict
    BY DEF Exec, acquireRun, Begin, Drive, Park, Mark, Finish, sweep, calls
  <1>2. /\ pc \in [Runs -> {"none", "queued", "driving", "park", "mark", "finish", "end"}]
        /\ host \in [Runs -> Daemons \union {Nobody}]
        /\ status \in [Runs -> [phase : Phases, owner : Daemons \union {Nobody}]]
        /\ outcome \in [Runs -> {"none", "done", "awaiting-ack", "error"}]
    BY <1>0 DEF TypeOK
  <1>3. ASSUME NEW p \in Daemons, NEW r \in Runs, NEW c \in Cells, acquireRun(p, r, c) PROVE OInv'
    <2>1. /\ pc[r] = "none" /\ up[p] \in {"serving", "draining"}
          /\ host' = [host EXCEPT ![r] = p] /\ pc' = [pc EXCEPT ![r] = "queued"]
          /\ status' = [status EXCEPT ![r] = [phase |-> "queued", owner |-> p]]
      BY <1>3 DEF acquireRun, Record
    <2>2. \A x \in Runs : x # r => host'[x] = host[x] /\ pc'[x] = pc[x] /\ status'[x] = status[x]
      BY <1>2, <2>1
    <2>3. host'[r] = p /\ status'[r] = [phase |-> "queued", owner |-> p]
      BY <1>2, <2>1
    <2>4. \A q \in Daemons : sight[q].run # r
      BY <1>0, <2>1 DEF Swept
    <2>5. \A q \in Daemons : sight[q].judged => sight[q].run \in Runs
      BY <1>0 DEF Swept
    <2> QED
      BY <1>0, <1>1, <2>1, <2>2, <2>3, <2>4, <2>5 DEF OInv, Owned, LiveRunsLeftAlone, Executing
  <1>4. ASSUME NEW r \in Runs, Exec(r) \/ Drive(r) PROVE OInv'
    <2>1. host' = host /\ Executing(r)
      BY <1>4 DEF Exec, Begin, Drive, Park, Mark, Finish, Finished, At, Executing
    <2>2. \A x \in Runs : x # r => pc'[x] = pc[x] /\ status'[x] = status[x]
      BY <1>2, <1>4 DEF Exec, Begin, Drive, Park, Mark, Finish, Finished, Record, Goto, disk
    <2>3. \/ status' = status
          \/ /\ status'[r].owner = host[r]
             /\ status'[r].phase \in {"none", "running", "done", "awaiting-ack", "error"}
      BY <1>2, <1>4 DEF Exec, Begin, Drive, Park, Mark, Finish, Record, disk
    <2>4. \A q \in Daemons : sight[q].judged => sight[q].run \in Runs /\ sight[q].run # r
      BY <1>0, <2>1 DEF Swept, Owned
    <2> QED
      BY <1>0, <1>1, <2>1, <2>2, <2>3, <2>4 DEF OInv, Owned, LiveRunsLeftAlone, Executing
  <1> QED
    BY <1>3, <1>4

\* A call marks a run rejected or done, never queued, running or interrupted.
LEMMA OwnedCall == ASSUME IInv, OInv, NEW k \in Calls, Ack(k) \/ Read(k) \/ Other(k) \/ CallStep(k)
                   PROVE  OInv'
  <1>0. TypeOK /\ Called /\ Owned /\ LiveRunsLeftAlone
    BY DEF IInv, OInv
  <1>1. UNCHANGED <<up, sight, host, pc>>
    BY DEF CallStep, Ack, Read, Other, Resolve, Decline, MarkResolved, Answer, sweep, runs
  <1>2. /\ call \in [Calls -> {"idle", "resolve", "mark", "answer", "end"}]
        /\ verdict \in [Calls -> Phases]
        /\ status \in [Runs -> [phase : Phases, owner : Daemons \union {Nobody}]]
    BY <1>0 DEF TypeOK
  <1>3. \A j \in Calls : call'[j] = "mark" => verdict'[j] \in {"rejected", "done"}
    <2>1. \A j \in Calls : j # k => call'[j] = call[j] /\ verdict'[j] = verdict[j]
      BY <1>2 DEF CallStep, Ack, Read, Other, Resolve, Decline, MarkResolved, Answer, Ended, CallGoto, Says
    <2>2. call'[k] = "mark" => verdict'[k] \in {"rejected", "done"}
      BY <1>2 DEF CallStep, Ack, Read, Other, Resolve, Decline, MarkResolved, Answer, Ended, CallGoto, Says
    <2> QED
      BY <1>0, <2>1, <2>2 DEF Owned
  <1>4. \A r \in Runs : status'[r] = status[r] \/ status'[r].phase \in {"rejected", "done"}
    <2>1. CASE MarkResolved(k)
      <3>1. verdict[k] \in {"rejected", "done"}
        BY <1>0, <2>1 DEF MarkResolved, CallAt, Owned
      <3> QED
        BY <1>2, <2>1, <3>1 DEF MarkResolved, Record
    <2>2. CASE ~MarkResolved(k)
      BY <2>2 DEF CallStep, Ack, Read, Other, Resolve, Decline, Answer, disk
    <2> QED
      BY <2>1, <2>2
  <1> QED
    BY <1>0, <1>1, <1>3, <1>4 DEF OInv, Owned, LiveRunsLeftAlone, Executing

\* A process that ends takes its runs with it.
LEMMA OwnedEnd == ASSUME IInv, OInv, NEW p \in Daemons, Drain(p) \/ Stop(p) \/ Kill(p) PROVE OInv'
  <1> USE ServeAssumption DEF ServeAssumption
  <1>0. TypeOK /\ Accepted /\ Swept /\ Owned /\ LiveRunsLeftAlone
    BY DEF IInv, OInv
  <1>1. status' = status /\ host' = host
    BY DEF Drain, Stop, Kill, Dies, disk, runs
  <1>2. \A r \in Runs : Executing(r)' => Executing(r) /\ pc'[r] = pc[r] /\ (host[r] = p => Drain(p))
    BY <1>1 DEF Drain, Stop, Kill, Dies, runs, Executing
  <1>3. /\ up \in [Daemons -> {"off", "recovering", "serving", "draining", "stopped", "dead"}]
        /\ \A r \in Runs : Executing(r) => host[r] \in Daemons
    BY <1>0 DEF TypeOK, Accepted, Executing
  <1>4. \A r \in Runs : Executing(r)' => up'[host[r]] \in {"serving", "draining"}
    <2>1. \A q \in Daemons : q # p => up'[q] = up[q]
      BY <1>3 DEF Drain, Stop, Kill
    <2>2. Drain(p) => up'[p] = "draining"
      BY <1>3 DEF Drain
    <2> QED
      BY <1>0, <1>2, <1>3, <2>1, <2>2 DEF Owned
  <1>5. \A q \in Daemons : sight'[q] = sight[q] \/ (sight'[q].run \notin Runs /\ ~sight'[q].judged)
    BY <1>0 DEF Drain, Stop, Kill, Dies, sweep, TypeOK, Unseen
  <1>6. \A k \in Calls : call'[k] = "mark" => verdict'[k] \in {"rejected", "done"}
    BY <1>0 DEF Drain, Stop, Kill, Dies, calls, Owned
  <1>7. \A q \in Daemons : sight[q].judged => sight[q].run \in Runs
    BY <1>0 DEF Swept
  <1> QED
    BY <1>0, <1>1, <1>2, <1>4, <1>5, <1>6, <1>7 DEF OInv, Owned, LiveRunsLeftAlone

\* Each step preserves who owns what.
LEMMA OwnedStep == IInv /\ OInv /\ [Next]_serveVars => OInv'
  <1> SUFFICES ASSUME IInv, OInv, [Next]_serveVars PROVE OInv'
    OBVIOUS
  <1>1. CASE Next
    BY <1>1, OwnedRecovery, OwnedRun, OwnedCall, OwnedEnd DEF Next
  <1>2. CASE UNCHANGED serveVars
    BY <1>2 DEF OInv, Owned, LiveRunsLeftAlone, Executing, serveVars, sweep, disk, runs, calls
  <1> QED
    BY <1>1, <1>2

\* No sweep, whichever daemon starts when, ever calls a run interrupted that a process is
\* still executing (recoverStaleRuns, ownedByLiveProcess).
THEOREM LiveRunsSpared == Spec => []LiveRunsLeftAlone
  <1>1. OInv => LiveRunsLeftAlone
    BY DEF OInv
  <1>2. Spec => []OInv
    BY Invariant, OwnedInit, OwnedStep, PTL DEF Spec
  <1> QED
    BY <1>1, <1>2, PTL

-----------------------------------------------------------------------------
(* The watch loop: types.                                                    *)

LEMMA WatchConstants ==
    /\ Empty \in [Branches -> 0..Versions] /\ \A b \in Branches : Empty[b] = 0
    /\ NoReport \in [landed : SUBSET Branches, parked : SUBSET Branches]
    /\ NoReport.landed = {} /\ NoReport.parked = {}
    /\ None \in [ver : 0..Versions, kind : Kinds, red : Nat]
    /\ 1 \in 1..Versions /\ 1 \in 0..Versions /\ Fires \subseteq Branches /\ Pushed \subseteq Branches
    /\ \A f \in Fires : f \notin Pushed /\ <<f, 1>> \in Commits
  BY WatchAssumption DEF WatchAssumption, Empty, NoReport, None, Kinds, Branches, Commits

\* What the loop's run carries are commits.
LEMMA CarriedAreCommits ==
    ASSUME WatchTypeOK, NEW S \in SUBSET Adopted
    PROVE  Carried(S) \in SUBSET Commits /\ S \in SUBSET Branches
  <1>1. \A b \in S : b \in Branches /\ driven[b] \in 1..Versions
    BY WatchAssumption DEF WatchTypeOK, Adopted, WatchAssumption
  <1> QED
    BY <1>1 DEF Carried, Commits

\* Who fired last goes to the end.
LEMMA RotateTyped ==
    ASSUME order \in Seq(IntentSet), NEW i \in IntentSet, Rotate(i)
    PROVE  order' \in Seq(IntentSet)
  <1>1. PICK n \in 1..Len(order) :
          order' = [m \in 1..Len(order) |-> IF m < n THEN order[m]
                                            ELSE IF m < Len(order) THEN order[m + 1] ELSE i]
    BY DEF Rotate
  <1> DEFINE new(m) == IF m < n THEN order[m] ELSE IF m < Len(order) THEN order[m + 1] ELSE i
  <1>2. Len(order) \in Nat /\ \A m \in 1..Len(order) : order[m] \in IntentSet
    OBVIOUS
  <1>3. ASSUME NEW m \in 1..Len(order) PROVE new(m) \in IntentSet
    <2>1. CASE m < n
      BY <1>2, <2>1
    <2>2. CASE ~(m < n) /\ m < Len(order)
      <3>1. m + 1 \in 1..Len(order)
        BY <1>2, <2>2
      <3> QED
        BY <1>2, <2>2, <3>1
    <2>3. CASE ~(m < n) /\ ~(m < Len(order))
      BY <2>3
    <2> QED
      BY <2>1, <2>2, <2>3
  <1>4. order' = [m \in 1..Len(order) |-> new(m)]
    BY <1>1
  <1> HIDE DEF new
  <1>5. order' \in [1..Len(order) -> IntentSet]
    BY <1>3, <1>4
  <1> QED
    BY <1>2, <1>5

\* What classifying leaves in the seen-set is typed.
LEMMA ClassifiedTyped ==
    ASSUME WatchTypeOK
    PROVE  Classified \in [Branches -> [ver : 0..Versions, kind : Kinds, red : Nat]]
  <1>1. ASSUME NEW b \in Branches PROVE Classified[b] \in [ver : 0..Versions, kind : Kinds, red : Nat]
    <2>1. head[b] \in 0..Versions /\ seen[b] \in [ver : 0..Versions, kind : Kinds, red : Nat]
      BY DEF WatchTypeOK
    <2>2. /\ [ver |-> head[b], kind |-> "done", red |-> 0] \in [ver : 0..Versions, kind : Kinds, red : Nat]
          /\ [ver |-> head[b], kind |-> "stale", red |-> 0] \in [ver : 0..Versions, kind : Kinds, red : Nat]
      BY <2>1 DEF Kinds
    <2>3. Classified[b] \in {None, seen[b], [ver |-> head[b], kind |-> "done", red |-> 0],
                             [ver |-> head[b], kind |-> "stale", red |-> 0]}
      BY DEF Classified
    <2> QED
      BY <2>1, <2>2, <2>3, WatchConstants
  <1> QED
    BY <1>1 DEF Classified

\* The process ends: what it had in memory is gone.
LEMMA EndsTyped == ASSUME WatchTypeOK, Ends, mishaps' \in Nat PROVE WatchTypeOK'
  <1> USE DEF Ends, world, files
  <1>1. /\ head' \in [Branches -> 0..Versions]
        /\ onBase' \subseteq Commits /\ merged' \subseteq Commits
        /\ parks' \in [Commits -> Nat] /\ accepted' \subseteq Fires
        /\ reached' \subseteq Commits /\ denied' \subseteq Commits /\ unnamed' \subseteq Fires
        /\ seen' \in [Branches -> [ver : 0..Versions, kind : Kinds, red : Nat]]
        /\ fired' \in [IntentSet -> SUBSET Fires] /\ ripe' \subseteq IntentSet
        /\ order' \in Seq(IntentSet)
    BY DEF WatchTypeOK
  <1>2. /\ slot' = "free" /\ stage' = "idle" /\ serving' = FALSE /\ cancelled' = FALSE /\ queued' = {}
        /\ turn' = FALSE /\ due' = FALSE /\ job' = "none" /\ moved' = FALSE
        /\ batch' = Empty /\ driven' = Empty /\ report' = NoReport
    OBVIOUS
  <1> HIDE DEF Ends
  <1> QED
    BY <1>1, <1>2, WatchConstants DEF WatchTypeOK

\* Everybody else's steps keep the types.
LEMMA OthersTyped ==
    ASSUME WatchTypeOK,
           \/ \E b \in Branches : Push(b) \/ handleQueue(b)
           \/ \E c \in Commits : Acked(c)
           \/ OtherPush \/ OtherRun \/ LoseSeen \/ LoseFired \/ Cancel \/ Restart
           \/ \E i \in IntentSet : Elapse(i)
    PROVE  WatchTypeOK'
  <1> USE WatchConstants DEF world, files, loop
  <1>1. ASSUME NEW b \in Branches, Push(b) PROVE WatchTypeOK'
    <2>1. head[b] \in 0..Versions /\ head[b] < Versions /\ Versions \in Nat
      BY <1>1, WatchAssumption DEF Push, WatchTypeOK, WatchAssumption
    <2>2. head[b] + 1 \in 0..Versions /\ <<b, head[b] + 1>> \in Commits
      BY <2>1 DEF Commits
    <2>3. head' \in [Branches -> 0..Versions] /\ onBase' \subseteq Commits
      BY <1>1, <2>2 DEF Push, WatchTypeOK
    <2> QED
      BY <1>1, <2>3 DEF Push, WatchTypeOK
  <1>2. ASSUME NEW b \in Branches, handleQueue(b) PROVE WatchTypeOK'
    BY <1>2 DEF handleQueue, WatchTypeOK, Between
  <1>3. ASSUME NEW c \in Commits, Acked(c) PROVE WatchTypeOK'
    <2>1. /\ merged' \subseteq Commits /\ onBase' \subseteq Commits
          /\ parks' \in [Commits -> Nat]
      BY <1>3 DEF Acked, BaseMoves, WatchTypeOK
    <2>2. moved' \in BOOLEAN
      <3>1. Pinned \in BOOLEAN /\ moved \in BOOLEAN
        BY DEF Pinned, WatchTypeOK
      <3>2. moved' = Pinned \/ moved' = moved
        BY <1>3 DEF Acked, BaseMoves
      <3> QED
        BY ONLY <3>1, <3>2
    <2> QED
      BY <1>3, <2>1, <2>2 DEF Acked, WatchTypeOK
  <1>4. ASSUME OtherPush PROVE WatchTypeOK'
    BY <1>4 DEF OtherPush, BaseMoves, Pinned, WatchTypeOK
  <1>5. ASSUME OtherRun PROVE WatchTypeOK'
    BY <1>5 DEF OtherRun, Between, WatchTypeOK
  <1>6. ASSUME LoseSeen PROVE WatchTypeOK'
    <2>1. seen' \in [Branches -> [ver : 0..Versions, kind : Kinds, red : Nat]]
      BY <1>6 DEF LoseSeen, WatchTypeOK
    <2> QED
      BY <1>6, <2>1 DEF LoseSeen, WatchTypeOK
  <1>7. ASSUME Cancel PROVE WatchTypeOK'
    BY <1>7 DEF Cancel, WatchTypeOK
  <1>8. ASSUME Restart PROVE WatchTypeOK'
    BY <1>8 DEF Restart, WatchTypeOK
  <1>9. ASSUME NEW i \in IntentSet, Elapse(i) PROVE WatchTypeOK'
    BY <1>9 DEF Elapse, WatchTypeOK
  <1>10. ASSUME LoseFired PROVE WatchTypeOK'
    <2>1. fired' \in [IntentSet -> SUBSET Fires] /\ order' \in Seq(IntentSet)
      BY <1>10, WatchAssumption DEF LoseFired, WatchAssumption
    <2>2. UNION {fired[i] : i \in IntentSet} \subseteq Fires
      BY DEF WatchTypeOK
    <2>3. unnamed' \subseteq Fires /\ ripe' \subseteq IntentSet /\ mishaps' \in Nat
      BY <1>10, <2>2 DEF LoseFired, WatchTypeOK
    <2> QED
      BY <1>10, <2>1, <2>3 DEF LoseFired, Between, WatchTypeOK
  <1> QED
    BY <1>1, <1>2, <1>3, <1>4, <1>5, <1>6, <1>7, <1>8, <1>9, <1>10

\* The loop's steps before its run keep the types.
LEMMA TickTyped ==
    ASSUME WatchTypeOK,
           \/ \E d \in BOOLEAN : Tick(d)
           \/ NoFire \/ Collect \/ Adopt \/ resolveTips
           \/ \E f \in Fires : Agent(f) \/ \E i \in IntentSet : Fire(i, f)
    PROVE  WatchTypeOK'
  <1> USE WatchConstants DEF world, files, loop
  <1>1. ASSUME NEW d \in BOOLEAN, Tick(d) PROVE WatchTypeOK'
    BY <1>1 DEF Tick, WatchTypeOK
  <1>2. ASSUME NoFire PROVE WatchTypeOK'
    BY <1>2 DEF NoFire, WatchTypeOK
  <1>3. ASSUME Collect PROVE WatchTypeOK'
    <2>1. seen' \in [Branches -> [ver : 0..Versions, kind : Kinds, red : Nat]]
      BY <1>3, ClassifiedTyped DEF Collect
    <2>2. CASE Idle /\ UNCHANGED slot
      BY <1>3, <2>1, <2>2 DEF Collect, Idle, WatchTypeOK
    <2>3. CASE /\ stage' = "adopt" /\ job' = "cycle" /\ slot' = "loop"
               /\ batch' = [b \in Branches |-> IF b \in Taken THEN head[b] ELSE 0]
               /\ UNCHANGED <<driven, moved, report>>
      <3>1. batch' \in [Branches -> 0..Versions]
        BY <2>3, WatchAssumption DEF WatchTypeOK, WatchAssumption
      <3> QED
        BY <1>3, <2>1, <2>3, <3>1 DEF Collect, WatchTypeOK
    <2> QED
      BY <1>3, <2>2, <2>3 DEF Collect
  <1>4. ASSUME Adopt PROVE WatchTypeOK'
    <2>1. driven' \in [Branches -> 0..Versions]
      BY <1>4, WatchAssumption DEF Adopt, WatchTypeOK, WatchAssumption
    <2> QED
      BY <1>4, <2>1 DEF Adopt, WatchTypeOK
  <1>5. ASSUME NEW f \in Fires, Agent(f) PROVE WatchTypeOK'
    <2>0. f \in Branches /\ <<f, 1>> \in Commits
      OBVIOUS
    <2>1. head' \in [Branches -> 0..Versions] /\ driven' \in [Branches -> 0..Versions]
      BY <1>5, <2>0 DEF Agent, WatchTypeOK
    <2>3. onBase' \subseteq Commits /\ accepted' \subseteq Fires
      BY <1>5, <2>0 DEF Agent, WatchTypeOK
    <2> QED
      BY <1>5, <2>1, <2>3 DEF Agent, WatchTypeOK
  <1>6. ASSUME NEW f \in Fires, NEW i \in IntentSet, Fire(i, f) PROVE WatchTypeOK'
    <2>1. fired' \in [IntentSet -> SUBSET Fires]
      <3>1. fired \in [IntentSet -> SUBSET Fires] /\ liveBranches(fired[i]) \union {f} \in SUBSET Fires
        BY DEF WatchTypeOK, liveBranches
      <3>2. fired' = fired \/ fired' = [fired EXCEPT ![i] = liveBranches(fired[i]) \union {f}]
        BY <1>6 DEF Fire, Unwritten
      <3> QED
        BY <3>1, <3>2
    <2>2. batch' \in [Branches -> 0..Versions] /\ order' \in Seq(IntentSet)
      BY <1>6, RotateTyped DEF Fire, Takes, Unwritten, WatchTypeOK
    <2>3. unnamed' \subseteq Fires /\ mishaps' \in Nat /\ ripe' \subseteq IntentSet
      BY <1>6 DEF Fire, Unwritten, WatchTypeOK
    <2> QED
      BY <1>6, <2>1, <2>2, <2>3 DEF Fire, Takes, WatchTypeOK
  <1>7. ASSUME resolveTips PROVE WatchTypeOK'
    <2>1. driven' \in [Branches -> 0..Versions]
      BY <1>7, WatchAssumption DEF resolveTips, WatchTypeOK, WatchAssumption
    <2> QED
      BY <1>7, <2>1 DEF resolveTips, WatchTypeOK
  <1> QED
    BY <1>1, <1>2, <1>3, <1>4, <1>5, <1>6, <1>7

\* The loop's run and what settles it keep the types.
LEMMA RunTyped ==
    ASSUME WatchTypeOK, execRun \/ watchSettle \/ \E f \in Fires : Retire(f)
    PROVE  WatchTypeOK'
  <1> USE WatchConstants DEF world, files, loop
  <1>1. ASSUME execRun PROVE WatchTypeOK'
    <2>1. CASE Fails
      BY <1>1, <2>1 DEF execRun, Fails, finishRun, WatchTypeOK
    <2>2. ASSUME NEW S \in SUBSET Adopted, Refused(S) PROVE WatchTypeOK'
      <3>1. /\ report' \in [landed : SUBSET Branches, parked : SUBSET Branches]
            /\ denied' \subseteq Commits
        <4>1. S \intersect Pushed \in SUBSET Adopted
          OBVIOUS
        <4> QED
          BY <2>2, <4>1, CarriedAreCommits DEF Refused, WatchTypeOK
      <3> QED
        BY <1>1, <2>2, <3>1 DEF execRun, Refused, finishRun, WatchTypeOK
    <2>3. ASSUME NEW S \in SUBSET Adopted, NEW P \in SUBSET (Adopted \ S), Lands(S, P)
          PROVE  WatchTypeOK'
      <3>1. /\ Carried(S) \in SUBSET Commits /\ S \in SUBSET Branches /\ P \in SUBSET Branches
        BY CarriedAreCommits
      <3>2. report' \in [landed : SUBSET Branches, parked : SUBSET Branches]
        BY <2>3, <3>1 DEF Lands
      <3>3. parks' \in [Commits -> Nat]
        BY <2>3 DEF Lands, WatchTypeOK
      <3>4. merged' \subseteq Commits /\ onBase' \subseteq Commits
        BY <2>3, <3>1 DEF Lands, BaseMoves, WatchTypeOK
      <3>6. moved' \in BOOLEAN
        <4>1. Pinned \in BOOLEAN /\ moved \in BOOLEAN
          BY DEF Pinned, WatchTypeOK
        <4>2. moved' = Pinned \/ moved' = moved
          BY <2>3 DEF Lands, BaseMoves
        <4> QED
          BY ONLY <4>1, <4>2
      <3>5. reached' \subseteq Commits /\ denied' \subseteq Commits
        <4>1. (S \union P) \intersect Pushed \in SUBSET Adopted
          OBVIOUS
        <4> QED
          BY <2>3, <4>1, CarriedAreCommits DEF Lands, WatchTypeOK
      <3> QED
        BY <1>1, <3>2, <3>3, <3>4, <3>5, <3>6 DEF execRun, finishRun, WatchTypeOK
    <2> QED
      BY <1>1, <2>1, <2>2, <2>3 DEF execRun
  <1>2. ASSUME watchSettle PROVE WatchTypeOK'
    <2>1. seen' \in [Branches -> [ver : 0..Versions, kind : Kinds, red : Nat]]
      <3>1. \A b \in Branches : /\ batch[b] \in 0..Versions /\ Red(b) \in Nat
                                /\ seen[b] \in [ver : 0..Versions, kind : Kinds, red : Nat]
        BY DEF WatchTypeOK, Red
      <3>2. \A b \in Branches :
              /\ [ver |-> batch[b], kind |-> "done", red |-> 0] \in [ver : 0..Versions, kind : Kinds, red : Nat]
              /\ [ver |-> batch[b], kind |-> "red", red |-> Red(b)] \in [ver : 0..Versions, kind : Kinds, red : Nat]
        BY <3>1 DEF Kinds
      <3>3. CASE UNCHANGED seen
        BY <3>3 DEF WatchTypeOK
      <3> DEFINE over == report.landed \union report.parked
                 took == {b \in Branches : batch[b] > 0}
      <3>4. ~cancelled => seen' = [b \in Branches |->
                              IF b \notin took THEN seen[b]
                              ELSE IF b \in over THEN [ver |-> batch[b], kind |-> "done", red |-> 0]
                              ELSE [ver |-> batch[b], kind |-> "red", red |-> Red(b)]]
        BY <1>2 DEF watchSettle
      <3> HIDE DEF over, took
      <3>5. CASE ~cancelled
        BY <3>1, <3>2, <3>4, <3>5
      <3> QED
        BY <1>2, <3>3, <3>5 DEF watchSettle
    <2> QED
      BY <1>2, <2>1 DEF watchSettle, Idle, WatchTypeOK
  <1>3. ASSUME NEW f \in Fires, Retire(f) PROVE WatchTypeOK'
    <2>1. head' \in [Branches -> 0..Versions]
      BY <1>3, WatchAssumption DEF Retire, WatchTypeOK, WatchAssumption
    <2>2. seen' \in [Branches -> [ver : 0..Versions, kind : Kinds, red : Nat]]
      <3>1. [ver |-> head[f], kind |-> "done", red |-> 0] \in [ver : 0..Versions, kind : Kinds, red : Nat]
        BY DEF WatchTypeOK, Kinds
      <3> QED
        BY <1>3, <3>1 DEF Retire, WatchTypeOK
    <2>3. /\ merged' \subseteq Commits /\ onBase' \subseteq Commits /\ accepted' \subseteq Fires
          /\ unnamed' \subseteq Fires
      BY <1>3 DEF Retire, WatchTypeOK
    <2> QED
      BY <1>3, <2>1, <2>2, <2>3 DEF Retire, Idle, WatchTypeOK
  <1> QED
    BY <1>1, <1>2, <1>3

LEMMA WatchTypes == WatchTypeOK /\ [WatchNext]_watchVars => WatchTypeOK'
  <1> SUFFICES ASSUME WatchTypeOK, [WatchNext]_watchVars PROVE WatchTypeOK'
    OBVIOUS
  <1>1. CASE UNCHANGED watchVars
    BY <1>1 DEF WatchTypeOK, watchVars, world, files, loop
  <1>2. CASE Drained \/ Killed
    BY <1>2, EndsTyped DEF Drained, Killed, WatchTypeOK
  <1> QED
    BY <1>1, <1>2, OthersTyped, TickTyped, RunTyped DEF WatchNext, Loop

-----------------------------------------------------------------------------
(* The watch loop: acceptance, and landing on top.                           *)
(*                                                                           *)
(* Neither property is inductive.  What lands was carried from an earlier    *)
(* stage, so that the invariant says of each stage what its run may carry;   *)
(* and an acceptance is forgotten when a name is used again, so that a name  *)
(* that is free stands for no landing and no park.  A branch that no record  *)
(* names any more is an author's like any other, and a cycle may take it.    *)

\* Nothing landed or parked goes by the name.
Fresh(f) == <<f, 1>> \notin merged /\ parks[<<f, 1>>] = 0

\* A branch of a fire is named before it exists, and until it is gone, but for what
\* a lost or an unwritten record omits.
Named == \A f \in Fires : head[f] > 0 => f \in fireBranches \/ f \in unnamed

FreeIsFresh == \A f \in Fires : head[f] = 0 => Fresh(f)

ParkedPassed == \A f \in Fires : parks[<<f, 1>>] > 0 => f \in accepted \/ f \in unnamed

\* What the loop holds between its stages: a cycle nothing of a fire that is named, a
\* fire its one branch, under a name that was free.
CycleTakesNoFire ==
    job # "fire" => \A f \in Fires : batch[f] > 0 \/ driven[f] > 0 => f \in unnamed
FireTakesOne ==
    job = "fire" => \A b \in Branches :
        /\ batch[b] > 0 => b \in Fires /\ b \in fireBranches \union unnamed /\ batch[b] = 1
        /\ driven[b] > 0 => batch[b] = 1 /\ driven[b] = 1
DrivenLives == Pinned => \A f \in Fires : driven[f] > 0 => head[f] > 0
FireIsFresh ==
    job = "fire" => \A f \in Fires :
        /\ stage = "agent" /\ batch[f] = 1 => head[f] = 0
        /\ stage = "run" /\ batch[f] = 1 => Fresh(f)
        /\ stage = "settle" /\ f \in report.landed => parks[<<f, 1>>] = 0
Stages ==
    /\ stage \in {"idle", "intents", "collect"} => job = "none" /\ batch = Empty /\ report = NoReport
    /\ stage \in {"idle", "intents", "collect", "agent", "adopt"} => driven = Empty
    /\ stage = "agent" => job = "fire"
    /\ stage \in {"adopt", "resolve"} => job = "cycle"

\* Unless the base moved since, what the run merges contains it.
AdoptedOnTop == stage = "run" /\ ~moved => Carried(Adopted) \subseteq onBase

World  == Named /\ FreeIsFresh /\ ParkedPassed /\ AcceptanceJudges
Flight == /\ CycleTakesNoFire /\ FireTakesOne /\ DrivenLives /\ FireIsFresh
          /\ Stages /\ AdoptedOnTop
WatchInv == WatchTypeOK /\ World /\ Flight

\* Steps that touch neither.
LEMMA WatchStill ==
    ASSUME WatchInv, WatchTypeOK',
           UNCHANGED <<head, merged, parks, accepted, fired, unnamed, stage, job, batch, driven,
                       moved, report>>,
           onBase \subseteq onBase'
    PROVE  WatchInv'
  <1>1. World'
    BY DEF WatchInv, World, Named, FreeIsFresh, ParkedPassed, AcceptanceJudges, Fresh, fireBranches
  <1>2. (CycleTakesNoFire /\ FireTakesOne /\ DrivenLives /\ FireIsFresh /\ Stages)'
    BY DEF WatchInv, Flight, CycleTakesNoFire, FireTakesOne, DrivenLives, Pinned, FireIsFresh, Stages, Fresh, fireBranches
  <1>3. Carried(Adopted)' = Carried(Adopted)
    BY DEF Carried, Adopted
  <1>4. AdoptedOnTop'
    BY <1>3 DEF WatchInv, Flight, AdoptedOnTop
  <1> QED
    BY <1>1, <1>2, <1>4 DEF WatchInv, Flight

\* Steps between two polls, and those that end one.
LEMMA WatchBetween ==
    ASSUME WatchInv, WatchTypeOK', World', stage' \in {"idle", "intents", "collect"},
           job' = "none", batch' = Empty, driven' = Empty, report' = NoReport
    PROVE  WatchInv'
  <1>1. CycleTakesNoFire' /\ FireTakesOne' /\ DrivenLives' /\ FireIsFresh' /\ Stages' /\ AdoptedOnTop'
    BY WatchConstants DEF CycleTakesNoFire, FireTakesOne, DrivenLives, Pinned, FireIsFresh, Stages, AdoptedOnTop
  <1> QED
    BY <1>1 DEF WatchInv, Flight

\* The world as it was.
LEMMA WorldStill == ASSUME World, UNCHANGED <<head, merged, parks, accepted, fired, unnamed>> PROVE World'
  BY DEF World, Named, FreeIsFresh, ParkedPassed, AcceptanceJudges, Fresh, fireBranches

LEMMA WatchInitially == WatchInit => WatchInv
  <1> SUFFICES ASSUME WatchInit PROVE WatchInv
    OBVIOUS
  <1>1. WatchTypeOK
    <2>1. startWatch \in BOOLEAN
      BY DEF startWatch
    <2>2. /\ head \in [Branches -> 0..Versions] /\ batch \in [Branches -> 0..Versions]
          /\ driven \in [Branches -> 0..Versions]
          /\ report \in [landed : SUBSET Branches, parked : SUBSET Branches]
          /\ seen \in [Branches -> [ver : 0..Versions, kind : Kinds, red : Nat]]
          /\ parks \in [Commits -> Nat] /\ fired \in [IntentSet -> SUBSET Fires]
      BY WatchConstants DEF WatchInit
    <2>3. order \in Seq(IntentSet) /\ ripe \subseteq IntentSet
      BY WatchAssumption DEF WatchInit, WatchAssumption
    <2>4. /\ onBase = {} /\ merged = {} /\ accepted = {} /\ slot = "free"
          /\ reached = {} /\ denied = {} /\ unnamed = {} /\ mishaps = 0
          /\ serving \in BOOLEAN /\ cancelled = FALSE /\ queued = {}
          /\ turn = FALSE /\ stage = "idle" /\ due = FALSE /\ job = "none" /\ moved = FALSE
      BY <2>1 DEF WatchInit
    <2> QED
      BY <2>2, <2>3, <2>4 DEF WatchTypeOK
  <1>2. World
    BY WatchConstants
       DEF WatchInit, World, Named, FreeIsFresh, ParkedPassed, AcceptanceJudges, Fresh
  <1>3. Flight
    BY WatchConstants
       DEF WatchInit, Flight, CycleTakesNoFire, FireTakesOne, DrivenLives, Pinned, FireIsFresh, Stages, AdoptedOnTop
  <1> QED
    BY <1>1, <1>2, <1>3 DEF WatchInv

\* Everybody else's steps.
LEMMA WatchOthers ==
    ASSUME WatchInv, WatchTypeOK',
           \/ \E b \in Branches : Push(b) \/ handleQueue(b)
           \/ \E c \in Commits : Acked(c)
           \/ OtherPush \/ OtherRun \/ LoseSeen \/ LoseFired \/ Cancel \/ Restart
           \/ \E i \in IntentSet : Elapse(i)
    PROVE  WatchInv'
  <1> USE WatchConstants
  <1>0. World /\ Flight /\ WatchTypeOK
    BY DEF WatchInv
  <1>1. ASSUME NEW b \in Branches, Push(b) PROVE WatchInv'
    <2>1. /\ UNCHANGED <<merged, parks, accepted, fired, unnamed, stage, job, batch, driven, moved, report>>
          /\ onBase \subseteq onBase'
      BY <1>1 DEF Push, files, loop
    <2>2. \A f \in Fires : head'[f] = head[f]
      <3>1. b \in Pushed /\ head' = [head EXCEPT ![b] = head[b] + 1]
        BY <1>1 DEF Push
      <3>2. head \in [Branches -> 0..Versions]
        BY <1>0 DEF WatchTypeOK
      <3> QED
        BY <3>1, <3>2
    <2>3. World'
      BY <1>0, <2>1, <2>2
         DEF World, Named, FreeIsFresh, ParkedPassed, AcceptanceJudges, Fresh, fireBranches
    <2>4. (CycleTakesNoFire /\ FireTakesOne /\ DrivenLives /\ FireIsFresh /\ Stages)'
      BY <1>0, <2>1, <2>2
         DEF Flight, CycleTakesNoFire, FireTakesOne, DrivenLives, Pinned, FireIsFresh, Stages, Fresh, fireBranches
    <2>5. Carried(Adopted)' = Carried(Adopted)
      BY <2>1 DEF Carried, Adopted
    <2>6. AdoptedOnTop'
      BY <1>0, <2>1, <2>5 DEF Flight, AdoptedOnTop
    <2> QED
      BY <2>3, <2>4, <2>6 DEF WatchInv, Flight
  <1>2. ASSUME NEW c \in Commits, Acked(c) PROVE WatchInv'
    <2>1. /\ stage = "idle" /\ parks[c] > 0 /\ parks' = [parks EXCEPT ![c] = 0]
          /\ merged' \in {merged, merged \union {c}}
          /\ UNCHANGED <<head, accepted, fired, unnamed, stage, job, batch, driven, report>>
      BY <1>2 DEF Acked, Between, files
    <2>2. \A d \in Commits : parks'[d] = IF d = c THEN 0 ELSE parks[d]
      BY <1>0, <2>1 DEF WatchTypeOK
    <2>3. ASSUME NEW f \in Fires, head[f] = 0 PROVE Fresh(f)'
      <3>1. Fresh(f)
        BY <1>0, <2>3 DEF World, FreeIsFresh
      <3>2. <<f, 1>> # c
        BY <2>1, <3>1 DEF Fresh
      <3> QED
        BY <2>1, <2>2, <3>1, <3>2 DEF Fresh
    <2>4. ASSUME NEW f \in Fires, <<f, 1>> \in merged' PROVE f \in accepted \/ f \in unnamed
      BY <1>0, <2>1, <2>4 DEF World, ParkedPassed, AcceptanceJudges
    <2>5. ParkedPassed'
      BY <1>0, <2>1, <2>2 DEF World, ParkedPassed
    <2>6. World'
      BY <1>0, <2>1, <2>3, <2>4, <2>5 DEF World, Named, FreeIsFresh, AcceptanceJudges, fireBranches
    <2> QED
      BY <1>0, <2>1, <2>6, WatchBetween DEF Flight, Stages
  <1>3. ASSUME OtherPush PROVE WatchInv'
    <2>1. /\ UNCHANGED <<head, merged, parks, accepted, fired, unnamed, stage, job, batch, driven, report>>
          /\ stage = "run" => moved'
      BY <1>3 DEF OtherPush, BaseMoves, Pinned, files
    <2>2. (CycleTakesNoFire /\ FireTakesOne /\ DrivenLives /\ FireIsFresh /\ Stages)'
      BY <1>0, <2>1 DEF Flight, CycleTakesNoFire, FireTakesOne, DrivenLives, Pinned, FireIsFresh, Stages, Fresh, fireBranches
    <2>3. AdoptedOnTop'
      BY <2>1 DEF AdoptedOnTop
    <2> QED
      BY <1>0, <2>1, <2>2, <2>3, WorldStill DEF WatchInv, Flight
  <1>4. ASSUME \/ OtherRun \/ LoseSeen \/ Cancel \/ Restart
               \/ \E b \in Branches : handleQueue(b)
               \/ \E i \in IntentSet : Elapse(i)
        PROVE  WatchInv'
    <2>1. UNCHANGED <<head, onBase, merged, parks, accepted, fired, unnamed, stage, job, batch,
                      driven, moved, report>>
      BY <1>4 DEF OtherRun, LoseSeen, Cancel, Restart, handleQueue, Elapse, world, files, loop
    <2> QED
      BY <2>1, WatchStill
  <1>5. ASSUME LoseFired PROVE WatchInv'
    <2>1. /\ UNCHANGED <<head, merged, parks, accepted, job, batch, driven, report>>
          /\ stage = "idle" /\ stage' = "idle"
      BY <1>5 DEF LoseFired, Between, world, loop
    <2>2. fireBranches \union unnamed \subseteq unnamed'
      BY <1>5 DEF LoseFired, fireBranches
    <2>3. World'
      BY <1>0, <2>1, <2>2 DEF World, Named, FreeIsFresh, ParkedPassed, AcceptanceJudges, Fresh
    <2> QED
      BY <1>0, <2>1, <2>3, WatchBetween DEF Flight, Stages
  <1> QED
    BY <1>1, <1>2, <1>3, <1>4, <1>5

\* The stages before the run.
LEMMA WatchTakes ==
    ASSUME WatchInv, WatchTypeOK',
           \/ \E d \in BOOLEAN : Tick(d)
           \/ NoFire \/ Collect \/ Adopt \/ resolveTips
           \/ \E f \in Fires, i \in IntentSet : Fire(i, f)
    PROVE  WatchInv'
  <1> USE WatchConstants
  <1>0. World /\ Flight /\ WatchTypeOK
    BY DEF WatchInv
  <1>1. ASSUME NoFire \/ \E d \in BOOLEAN : Tick(d) PROVE WatchInv'
    <2>1. /\ UNCHANGED <<head, merged, parks, accepted, fired, unnamed, job, batch, driven, report>>
          /\ stage \in {"idle", "intents"} /\ stage' \in {"intents", "collect"}
      BY <1>1 DEF NoFire, Tick, world, files
    <2> QED
      BY <1>0, <2>1, WorldStill, WatchBetween DEF Flight, Stages
  <1>2. ASSUME Collect PROVE WatchInv'
    <2>1. /\ UNCHANGED <<head, merged, parks, accepted, fired, unnamed>> /\ stage = "collect"
      BY <1>2 DEF Collect, world
    <2>2. CASE Idle
      BY <1>0, <2>1, <2>2, WorldStill, WatchBetween DEF Idle
    <2>3. CASE /\ stage' = "adopt" /\ job' = "cycle"
               /\ batch' = [b \in Branches |-> IF b \in Taken THEN head[b] ELSE 0]
               /\ UNCHANGED <<driven, moved, report>>
      <3>1. ASSUME NEW f \in Fires, batch'[f] > 0 PROVE f \in unnamed'
        <4>1. f \in Taken => head[f] > 0 /\ f \notin fireBranches
          BY DEF Taken, Pending, Offered, Listed
        <4>2. f \in Taken
          BY <2>3, <3>1
        <4> QED
          BY <1>0, <2>1, <4>1, <4>2 DEF World, Named
      <3>2. driven' = Empty /\ report' = NoReport
        BY <1>0, <2>1, <2>3 DEF Flight, Stages
      <3>3. Flight'
        BY <2>3, <3>1, <3>2
           DEF Flight, CycleTakesNoFire, FireTakesOne, DrivenLives, Pinned, FireIsFresh, Stages, AdoptedOnTop
      <3> QED
        BY <1>0, <2>1, <3>3, WorldStill DEF WatchInv
    <2> QED
      BY <1>2, <2>2, <2>3 DEF Collect
  <1>3. ASSUME Adopt PROVE WatchInv'
    <2>1. /\ UNCHANGED <<head, onBase, merged, parks, accepted, fired, unnamed, job, batch, report>>
          /\ stage = "adopt" /\ stage' = "resolve" /\ job = "cycle"
      BY <1>0, <1>3 DEF Adopt, world, files, Flight, Stages
    <2>2. \A b \in Branches : driven'[b] > 0 => batch[b] > 0 /\ head[b] > 0
      BY <1>3 DEF Adopt
    <2>3. CycleTakesNoFire' /\ DrivenLives'
      BY <1>0, <2>1, <2>2 DEF Flight, CycleTakesNoFire, DrivenLives
    <2>4. FireTakesOne' /\ FireIsFresh' /\ Stages' /\ AdoptedOnTop'
      BY <2>1 DEF FireTakesOne, FireIsFresh, Stages, AdoptedOnTop
    <2> QED
      BY <1>0, <2>1, <2>3, <2>4, WorldStill DEF WatchInv, Flight
  <1>4. ASSUME resolveTips PROVE WatchInv'
    <2>1. /\ UNCHANGED <<head, onBase, merged, parks, accepted, fired, unnamed, job, batch, moved, report>>
          /\ stage = "resolve" /\ stage' = "run" /\ job = "cycle"
      BY <1>0, <1>4 DEF resolveTips, world, files, Flight, Stages
    <2>2. \A b \in Branches : driven'[b] > 0 => driven[b] > 0 /\ driven'[b] = head[b]
      BY <1>4 DEF resolveTips
    <2>3. CycleTakesNoFire' /\ DrivenLives'
      BY <1>0, <2>1, <2>2 DEF Flight, CycleTakesNoFire, DrivenLives
    <2>4. FireTakesOne' /\ FireIsFresh' /\ Stages'
      BY <2>1 DEF FireTakesOne, FireIsFresh, Stages
    <2>5. AdoptedOnTop'
      <3>1. ~moved => Contains \/ driven' = Empty
        BY <1>4 DEF resolveTips
      <3>2. ASSUME ~moved, NEW b \in Branches, driven'[b] > 0 PROVE <<b, driven'[b]>> \in onBase'
        <4>1. Contains
          BY <3>1, <3>2
        <4> QED
          BY <2>1, <2>2, <3>2, <4>1 DEF Contains, tip
      <3> QED
        BY <2>1, <3>2 DEF AdoptedOnTop, Carried, Adopted
    <2> QED
      BY <1>0, <2>1, <2>3, <2>4, <2>5, WorldStill DEF WatchInv, Flight
  <1>5. ASSUME NEW f \in Fires, NEW i \in IntentSet, Fire(i, f) PROVE WatchInv'
    <2>1. /\ UNCHANGED <<head, onBase, merged, parks, accepted, driven, report>>
          /\ stage = "intents" /\ stage' = "agent" /\ job' = "fire" /\ head[f] = 0
          /\ batch' = [Empty EXCEPT ![f] = 1]
      BY <1>5 DEF Fire, Takes, world
    <2>2. f \in fireBranches' \union unnamed'
      <3>1. CASE Unwritten(f)
        BY <3>1 DEF Unwritten
      <3>2. CASE fired' = [fired EXCEPT ![i] = liveBranches(fired[i]) \union {f}]
        <4>1. f \in fired'[i]
          BY <1>0, <3>2 DEF WatchTypeOK
        <4> QED
          BY <4>1 DEF fireBranches
      <3> QED
        BY <1>5, <3>1, <3>2 DEF Fire
    <2>3. ASSUME NEW g \in fireBranches, head[g] > 0 PROVE g \in fireBranches'
      <3>1. PICK j \in IntentSet : g \in fired[j]
        BY DEF fireBranches
      <3>2. fired' = fired \/ fired' = [fired EXCEPT ![i] = liveBranches(fired[i]) \union {f}]
        BY <1>5 DEF Fire, Unwritten
      <3>3. g \in fired'[j]
        <4>1. g \in liveBranches(fired[j]) /\ fired \in [IntentSet -> SUBSET Fires]
          BY <1>0, <2>3, <3>1 DEF liveBranches, WatchTypeOK
        <4>2. CASE fired' = fired
          BY <3>1, <4>2
        <4>3. CASE fired' = [fired EXCEPT ![i] = liveBranches(fired[i]) \union {f}]
          BY <3>1, <4>1, <4>3
        <4> QED
          BY <3>2, <4>2, <4>3
      <3> QED
        BY <3>3 DEF fireBranches
    <2>4. \A g \in unnamed : head[g] > 0 => g \in unnamed'
      BY <1>5, <2>1 DEF Fire, Unwritten
    <2>5. Fresh(f)
      BY <1>0, <2>1 DEF World, FreeIsFresh
    <2>6. \A g \in unnamed : g = f \/ g \in unnamed'
      BY <1>5 DEF Fire, Unwritten
    <2>7. Named' /\ FreeIsFresh'
      BY <1>0, <2>1, <2>3, <2>4 DEF World, Named, FreeIsFresh, Fresh
    <2>8. ParkedPassed' /\ AcceptanceJudges'
      BY <1>0, <2>1, <2>5, <2>6 DEF World, ParkedPassed, AcceptanceJudges, Fresh
    <2>9. \A b \in Branches : batch'[b] = IF b = f THEN 1 ELSE 0
      BY <2>1
    <2>10. driven' = Empty
      BY <1>0, <2>1 DEF Flight, Stages
    <2>11. Flight'
      BY <2>1, <2>2, <2>9, <2>10
         DEF Flight, CycleTakesNoFire, FireTakesOne, DrivenLives, Pinned, FireIsFresh, Stages, AdoptedOnTop
    <2> QED
      BY <2>7, <2>8, <2>11 DEF WatchInv, World
  <1> QED
    BY <1>1, <1>2, <1>3, <1>4, <1>5

\* The fire's agent.
LEMMA WatchAgent == ASSUME WatchInv, WatchTypeOK', NEW f \in Fires, Agent(f) PROVE WatchInv'
  <1> USE WatchConstants
  <1>0. World /\ Flight /\ WatchTypeOK
    BY DEF WatchInv
  <1>1. /\ UNCHANGED <<merged, parks, fired, unnamed, job, batch, report>>
        /\ stage = "agent" /\ stage' = "run" /\ batch[f] = 1 /\ job = "fire" /\ driven = Empty
        /\ \/ /\ head' = [head EXCEPT ![f] = 1] /\ onBase' = onBase \union {<<f, 1>>}
              /\ driven' = [driven EXCEPT ![f] = 1]
              /\ accepted' \in {accepted \union {f}, accepted \ {f}}
           \/ UNCHANGED <<head, onBase, driven, accepted>>
    BY <1>0 DEF Agent, files, Flight, Stages
  <1>2. head[f] = 0 /\ f \in fireBranches \union unnamed /\ Fresh(f)
    <2>1. head[f] = 0 /\ f \in fireBranches \union unnamed
      BY <1>0, <1>1 DEF Flight, FireIsFresh, FireTakesOne
    <2> QED
      BY <1>0, <2>1 DEF World, FreeIsFresh
  <1>3. \A g \in Fires : g # f => (head'[g] = head[g] /\ (g \in accepted' <=> g \in accepted))
    <2>1. head \in [Branches -> 0..Versions]
      BY <1>0 DEF WatchTypeOK
    <2>2. \A g \in Fires : g # f => head'[g] = head[g]
      BY <1>1, <2>1
    <2>3. \A g \in Fires : g # f => (g \in accepted' <=> g \in accepted)
      BY <1>1
    <2> QED
      BY <2>2, <2>3
  <1>4. \A g \in Fires : Fresh(g)' <=> Fresh(g)
    BY <1>1 DEF Fresh
  <1>5. fireBranches' = fireBranches
    BY <1>1 DEF fireBranches
  <1>6. Named' /\ FreeIsFresh'
    <2>1. unnamed' = unnamed
      BY <1>1
    <2>2. Named'
      BY <1>0, <1>2, <1>3, <1>5, <2>1 DEF World, Named
    <2>3. FreeIsFresh'
      BY <1>0, <1>2, <1>3, <1>4 DEF World, FreeIsFresh
    <2> QED
      BY <2>2, <2>3
  <1>7. ParkedPassed' /\ AcceptanceJudges'
    BY <1>0, <1>1, <1>2, <1>3 DEF World, ParkedPassed, AcceptanceJudges, Fresh
  <1>8. \A b \in Branches : driven'[b] \in {0, 1} /\ (driven'[b] = 1 => b = f /\ <<f, 1>> \in onBase')
    BY <1>1
  <1>9. AdoptedOnTop'
    BY <1>8 DEF AdoptedOnTop, Carried, Adopted
  <1>10. FireTakesOne'
    BY <1>0, <1>1, <1>5, <1>8 DEF Flight, FireTakesOne
  <1>11. FireIsFresh'
    <2>1. \A g \in Fires : batch[g] = 1 => Fresh(g)
      BY <1>0, <1>1 DEF Flight, FireIsFresh, World, FreeIsFresh
    <2>2. stage' = "run" /\ batch' = batch
      BY <1>1
    <2> QED
      BY <1>4, <2>1, <2>2 DEF FireIsFresh
  <1>13. DrivenLives'
    <2>1. driven' = Empty \/ head'[f] = 1
      BY <1>0, <1>1 DEF WatchTypeOK
    <2>2. \A g \in Fires : driven'[g] > 0 => g = f /\ driven' # Empty
      BY <1>8
    <2> QED
      BY <2>1, <2>2 DEF DrivenLives
  <1>12. CycleTakesNoFire' /\ Stages'
    BY <1>1 DEF CycleTakesNoFire, Stages
  <1> QED
    BY <1>6, <1>7, <1>9, <1>10, <1>11, <1>12, <1>13 DEF WatchInv, World, Flight

\* What the run merges of a fire is the branch of the fire itself, and that passed, or
\* one that no record names.
LEMMA CarriedPassed ==
    ASSUME WatchInv, NEW S \in SUBSET Adopted, Green(S), NEW f \in Fires, <<f, 1>> \in Carried(S)
    PROVE  driven[f] > 0 /\ (f \in accepted \/ f \in unnamed)
  <1>1. f \in S /\ driven[f] > 0
    BY DEF Carried, Adopted
  <1>2. CASE job = "fire"
    BY <1>1, <1>2 DEF Green
  <1>3. CASE job # "fire"
    BY <1>1, <1>3 DEF WatchInv, Flight, CycleTakesNoFire
  <1> QED
    BY <1>1, <1>2, <1>3

\* The run.
LEMMA WatchRun == ASSUME WatchInv, WatchTypeOK', execRun PROVE WatchInv'
  <1> USE WatchConstants
  <1>0. World /\ Flight /\ WatchTypeOK
    BY DEF WatchInv
  <1>1. /\ UNCHANGED <<head, accepted, fired, unnamed, job, batch, driven>>
        /\ stage = "run" /\ stage' = "settle"
    BY DEF execRun, files
  <1>2. fireBranches' = fireBranches /\ Named' /\ FireTakesOne' /\ Stages' /\ AdoptedOnTop'
    BY <1>0, <1>1
       DEF fireBranches, World, Named, Flight, FireTakesOne, Stages, AdoptedOnTop
  <1>3. CycleTakesNoFire' /\ DrivenLives'
    BY <1>0, <1>1 DEF Flight, CycleTakesNoFire, DrivenLives, Pinned
  <1>4. ASSUME NEW f \in Fires, job = "fire", driven[f] > 0 PROVE parks[<<f, 1>>] = 0
    <2>1. batch[f] = 1
      BY <1>0, <1>4 DEF Flight, FireTakesOne
    <2> QED
      BY <1>0, <1>1, <1>4, <2>1 DEF Flight, FireIsFresh, Fresh
  <1>5. CASE UNCHANGED <<merged, parks>> /\ \E S \in SUBSET Adopted : report'.landed = S
    <2>1. World'
      BY <1>0, <1>1, <1>5, WorldStill
    <2>2. PICK S \in SUBSET Adopted : report'.landed = S
      BY <1>5
    <2>3. \A f \in Fires : f \in S => driven[f] > 0
      BY <2>2 DEF Adopted
    <2>5. \A f \in Fires : job = "fire" /\ f \in report'.landed => parks'[<<f, 1>>] = 0
      BY <1>4, <1>5, <2>2, <2>3
    <2>6. job' = job /\ stage' = "settle"
      BY <1>1
    <2>4. FireIsFresh'
      BY <2>5, <2>6 DEF FireIsFresh, Fresh
    <2> QED
      BY <1>2, <1>3, <2>1, <2>4 DEF WatchInv, Flight
  <1>6. ASSUME NEW S \in SUBSET Adopted, NEW P \in SUBSET (Adopted \ S), Lands(S, P) PROVE WatchInv'
    <2>1. /\ Green(S \union P) /\ merged' = merged \union Carried(S)
          /\ parks' = [c \in Commits |-> parks[c] + IF c \in Carried(P) THEN 1 ELSE 0]
          /\ report' = [landed |-> S, parked |-> P]
      BY <1>6 DEF Lands
    <2>2. Green(S) /\ Green(P) /\ P \in SUBSET Adopted
      BY <2>1 DEF Green
    <2>3. \A f \in Fires : <<f, 1>> \in Carried(S) \union Carried(P) =>
             driven[f] > 0 /\ (f \in accepted \/ f \in unnamed)
      BY <2>2, CarriedPassed
    <2>4. \A f \in Fires : <<f, 1>> \notin Carried(P) => parks'[<<f, 1>>] = parks[<<f, 1>>]
      BY <1>0, <2>1 DEF WatchTypeOK
    <2>5. ASSUME NEW f \in Fires, head[f] = 0 PROVE Fresh(f)'
      <3>1. Fresh(f)
        BY <1>0, <2>5 DEF World, FreeIsFresh
      <3>2. ~(driven[f] > 0)
        BY <1>0, <1>1, <2>5 DEF Flight, DrivenLives, Pinned
      <3>3. <<f, 1>> \notin Carried(S) \union Carried(P)
        BY <2>3, <3>2
      <3> QED
        BY <2>1, <2>4, <3>1, <3>3 DEF Fresh
    <2>6. FreeIsFresh'
      BY <1>1, <2>5 DEF FreeIsFresh
    <2>7. ParkedPassed'
      BY <1>0, <1>1, <2>3, <2>4 DEF World, ParkedPassed
    <2>8. AcceptanceJudges'
      BY <1>0, <1>1, <2>1, <2>3 DEF World, AcceptanceJudges
    <2>9. ASSUME NEW f \in Fires, job = "fire", f \in S PROVE parks'[<<f, 1>>] = 0
      <3>1. <<f, 1>> \notin Carried(P) /\ driven[f] > 0
        BY <2>9 DEF Carried, Adopted
      <3> QED
        BY <1>4, <2>4, <2>9, <3>1
    <2>11. job' = job /\ stage' = "settle" /\ report'.landed = S
      BY <1>1, <2>1
    <2>10. FireIsFresh'
      BY <2>9, <2>11 DEF FireIsFresh, Fresh
    <2> QED
      BY <1>2, <1>3, <2>6, <2>7, <2>8, <2>10 DEF WatchInv, World, Flight
  <1>7. CASE Fails
    <2>1. UNCHANGED <<merged, parks>> /\ report'.landed = {} /\ {} \in SUBSET Adopted
      BY <1>7 DEF Fails, NoReport
    <2> QED
      BY <1>5, <2>1
  <1>8. ASSUME NEW S \in SUBSET Adopted, Refused(S) PROVE WatchInv'
    <2>1. UNCHANGED <<merged, parks>> /\ report'.landed = S
      BY <1>8 DEF Refused
    <2> QED
      BY <1>5, <2>1
  <1>9. \/ Fails
        \/ \E S \in SUBSET Adopted : Refused(S) \/ \E P \in SUBSET (Adopted \ S) : Lands(S, P)
    BY DEF execRun
  <1> QED
    BY <1>6, <1>7, <1>8, <1>9

\* What settles it.
LEMMA WatchSettles ==
    ASSUME WatchInv, WatchTypeOK', watchSettle \/ \E f \in Fires : Retire(f) PROVE WatchInv'
  <1> USE WatchConstants
  <1>0. World /\ Flight /\ WatchTypeOK
    BY DEF WatchInv
  <1>1. CASE watchSettle
    BY <1>0, <1>1, WorldStill, WatchBetween DEF watchSettle, Idle, world
  <1>2. ASSUME NEW f \in Fires, Retire(f) PROVE WatchInv'
    <2>1. Idle /\ UNCHANGED <<parks, fired>> /\ stage = "settle" /\ job = "fire"
      BY <1>2 DEF Retire
    <2>2. CASE UNCHANGED <<head, merged, accepted, unnamed>>
      BY <1>0, <2>1, <2>2, WorldStill, WatchBetween DEF Idle
    <2>3. CASE /\ f \in report.landed /\ head' = [head EXCEPT ![f] = 0]
               /\ merged' = merged \ {<<f, 1>>} /\ accepted' = accepted \ {f}
               /\ unnamed' = unnamed \ {f}
      <3>1. parks[<<f, 1>>] = 0
        BY <1>0, <2>1, <2>3 DEF Flight, FireIsFresh
      <3>2. head'[f] = 0 /\ \A g \in Fires : g # f => head'[g] = head[g]
        BY <1>0, <2>3 DEF WatchTypeOK
      <3>3. /\ <<f, 1>> \notin merged'
            /\ \A g \in Fires : g # f => /\ g \in accepted' <=> g \in accepted
                                         /\ g \in unnamed' <=> g \in unnamed
                                         /\ <<g, 1>> \in merged' <=> <<g, 1>> \in merged
        BY <2>3
      <3>4. fireBranches' = fireBranches
        BY <2>1 DEF fireBranches
      <3>5. World'
        <4>1. Named'
          <5>1. \A g \in Fires : head'[g] > 0 => head[g] > 0
            BY <3>2
          <5> QED
            <6> SUFFICES ASSUME NEW g \in Fires, head'[g] > 0
                         PROVE  g \in fireBranches' \/ g \in unnamed'
              BY DEF Named
            <6>1. g # f /\ (g \in fireBranches \/ g \in unnamed)
              BY <1>0, <3>2, <5>1 DEF World, Named
            <6> QED
              BY <3>3, <3>4, <6>1
        <4>2. FreeIsFresh'
          BY <1>0, <2>1, <3>1, <3>2, <3>3 DEF World, FreeIsFresh, Fresh
        <4>3. ParkedPassed'
          BY <1>0, <2>1, <3>1, <3>3 DEF World, ParkedPassed
        <4>4. AcceptanceJudges'
          BY <1>0, <3>3 DEF World, AcceptanceJudges
        <4> QED
          BY <4>1, <4>2, <4>3, <4>4 DEF World
      <3> QED
        BY <2>1, <3>5, WatchBetween DEF Idle
    <2> QED
      BY <1>2, <2>2, <2>3 DEF Retire
  <1> QED
    BY <1>1, <1>2

LEMMA WatchEnds == ASSUME WatchInv, WatchTypeOK', Ends PROVE WatchInv'
  BY WorldStill, WatchBetween DEF WatchInv, Ends, world, files

LEMMA WatchStep == WatchInv /\ [WatchNext]_watchVars => WatchInv'
  <1> SUFFICES ASSUME WatchInv, [WatchNext]_watchVars PROVE WatchInv'
    OBVIOUS
  <1>1. WatchTypeOK'
    BY WatchTypes DEF WatchInv
  <1>2. CASE UNCHANGED watchVars
    BY <1>1, <1>2, WatchStill DEF watchVars, world, files, loop
  <1>3. CASE Drained \/ Killed
    BY <1>1, <1>3, WatchEnds DEF Drained, Killed
  <1> QED
    BY <1>1, <1>2, <1>3, WatchOthers, WatchTakes, WatchAgent, WatchRun, WatchSettles
       DEF WatchNext, Loop

LEMMA WatchInvariant == WatchSpec => []WatchInv
  BY WatchInitially, WatchStep, PTL DEF WatchSpec

(* The loop's state has its types: it holds the slot exactly while its run is *)
(* in flight, and no counter of the seen-set runs away, for any policy, any   *)
(* intents, and any number of branches, pushes, kills and runs of others.     *)
THEOREM WatchTypeCorrect == WatchSpec => []WatchTypeOK
  <1>1. WatchInv => WatchTypeOK
    BY DEF WatchInv
  <1> QED
    BY <1>1, WatchInvariant, PTL

(* Work of a scheduled intent that is in the base passed the intent's own     *)
(* acceptance (cmd/sig/intent.go: an acceptance is verified with the fire's   *)
(* run, and no other run may take the fire's branch), whatever is killed, and *)
(* whenever the seen-set is lost; unless the record that names the branch was *)
(* lost or could not be written.                                              *)
THEOREM FiresPassAcceptance == WatchSpec => []AcceptanceJudges
  <1>1. WatchInv => AcceptanceJudges
    BY DEF WatchInv, World
  <1> QED
    BY <1>1, WatchInvariant, PTL

(* What a run of the loop lands contains the base it lands on (adoptBranch,   *)
(* adoptableAgainst, landRef), whoever moves the base in between.             *)
THEOREM WatchLandsOnTop == WatchSpec => LandsOnTop
  <1>1. WatchInv /\ [WatchNext]_watchVars => [stage = "run" => merged' \ merged \subseteq onBase]_watchVars
    <2> SUFFICES ASSUME WatchInv, WatchNext, stage = "run" PROVE merged' \ merged \subseteq onBase
      BY DEF watchVars, world, files, loop
    <2>1. CASE execRun
      <3>1. ASSUME NEW S \in SUBSET Adopted, NEW P, Lands(S, P) PROVE merged' \ merged \subseteq onBase
        <4>1. merged' = merged \union Carried(S) /\ (S = {} \/ ~moved)
          BY <3>1 DEF Lands
        <4>2. Carried(S) \subseteq Carried(Adopted)
          BY DEF Carried
        <4>3. S = {} => Carried(S) = {}
          BY DEF Carried
        <4> QED
          BY <4>1, <4>2, <4>3 DEF WatchInv, Flight, AdoptedOnTop
      <3> QED
        BY <2>1, <3>1 DEF execRun, Fails, Refused
    <2>2. CASE ~execRun
      <3>1. UNCHANGED merged
        BY <2>2 DEF WatchNext, Loop, NoFire, Collect, Adopt, resolveTips, watchSettle, Drained, Agent,
           Retire, Fire, Takes, Restart, Tick, OtherPush, OtherRun, LoseSeen, LoseFired, Killed, Cancel, Push, handleQueue, Acked,
           Elapse, Ends, Between, world
      <3> QED
        BY <3>1
    <2> QED
      BY <2>1, <2>2
  <1> QED
    BY <1>1, WatchInvariant, PTL DEF WatchSpec, LandsOnTop
=============================================================================
