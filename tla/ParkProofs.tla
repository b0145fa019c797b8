----------------------------- MODULE ParkProofs -----------------------------
(***************************************************************************)
(* What the parking protocol guarantees for any number of acks, rejects,   *)
(* sweeps and collections, any of them killed anywhere, with any lock or   *)
(* claim race lost: whatever a resolver puts on the base passed verify on  *)
(* exactly the head it replaces.  And, as long as no claim goes stale and  *)
(* no lost landing is taken back: a park lands at most once, a rejection   *)
(* is final, and an open park keeps what an ack needs.                     *)
(***************************************************************************)
EXTENDS Park, FiniteSetTheorems, TLAPS

ChildOf(v, b) == \E x \in Steps : v = Append(b, x)

(* A record always names a verified child of the base it names, and a       *)
(* landing only ever of that commit and only once resolved.                 *)
GoodRecord(r) == /\ r.verifiedSHA \in green
                 /\ ChildOf(r.verifiedSHA, r.baseSHA)
                 /\ r.landedSHA \in {NoCommit, r.verifiedSHA}
                 /\ ~r.resolved => r.landedSHA = NoCommit

GoodRecords == GoodRecord(park) /\ \A c \in Calls : GoodRecord(mine[c])

(* Only acks reach the landing steps.                                       *)
Roles == \A c \in Calls :
    /\ pc[c] \in {"lock", "look", "verify", "pin"} => c \in Ackers
    /\ at[c] \in {"direct", "reverify"} => c \in Ackers
    /\ pc[c] \in {"lock", "look"} => at[c] = "sweep"
    /\ pc[c] \in {"verify", "pin"} => at[c] = "reverify"
    /\ pc[c] = "idle" => at[c] = "sweep"

(* What each call's copy of the record is, by where the call is.            *)
Copies == \A c \in Calls :
    /\ pc[c] \in {"pin", "compare", "write"} => ~mine[c].resolved
    /\ pc[c] = "swap" => mine[c].landedSHA # NoCommit

(* A green verdict stands for a commit that did pass, on the head the ack   *)
(* read.                                                                    *)
Verdicts == \A c \in Calls : verdict[c] =>
    /\ at[c] = "reverify" /\ pc[c] # "verify"
    /\ Append(cur[c], c) \in green

FirstGreen == Append(<<Root>>, Run) \in green

IInv == TypeOK /\ Roles /\ GoodRecords /\ Copies /\ Verdicts /\ FirstGreen

-----------------------------------------------------------------------------
(* The record a resolver is about to write.                                 *)
LEMMA ResolutionTyped ==
    ASSUME TypeOK, Roles, NEW c \in Calls
    PROVE  resolution(c) \in Records
<1> DEFINE r == mine[c]
<1>0. r \in Records /\ number[c] \in Nat /\ cur[c] \in Commits
  BY DEF TypeOK
<1>1. CASE at[c] = "sweep"
  BY <1>0, <1>1 DEF resolution, Records, Reasons
<1>2. CASE at[c] = "reject"
  BY <1>0, <1>2 DEF resolution, Records, Reasons
<1>3. CASE at[c] = "direct"
  BY <1>0, <1>3 DEF resolution, Records, Reasons
<1>4. CASE at[c] = "reverify"
  <2>1. Append(cur[c], c) \in Commits
    BY <1>0, <1>4 DEF Roles, Commits, Steps, Landings
  <2>2. Append(r.attempts, number[c]) \in Seq(Nat)
    BY <1>0 DEF Records
  <2> QED
    BY <1>0, <1>4, <2>1, <2>2 DEF resolution, Records, Reasons
<1> QED
  BY <1>1, <1>2, <1>3, <1>4 DEF TypeOK

-----------------------------------------------------------------------------
(* The initial state is typed.                                            *)
LEMMA TypeInit == ParkAssumption /\ Init => TypeOK
<1> SUFFICES ASSUME ParkAssumption, Init PROVE TypeOK
  OBVIOUS
<1>1. <<Root>> \in Commits /\ Append(<<Root>>, Run) \in Commits /\ NoCommit \in Commits
  BY DEF Commits, Steps, Landings, NoCommit
<1>2. park \in Records
  BY <1>1 DEF Init, parkRecord, Records, Reasons
<1> QED
  <2>1. claim \in Claims
    BY DEF Init, NoClaim, Claims
  <2>2. keep \in Commits /\ green \in SUBSET Commits /\ base \in Commits
    BY <1>1 DEF Init, parkRecord
  <2>3. mine \in [Calls -> Records] /\ cur \in [Calls -> Commits]
    BY <1>2, <2>2 DEF Init
  <2>4. /\ pc \in [Calls -> {"absent", "idle"}] /\ at = [c \in Calls |-> "sweep"]
        /\ tries = [c \in Calls |-> 0] /\ verdict = [c \in Calls |-> FALSE]
        /\ number = [c \in Calls |-> 0] /\ doomed = [c \in Collectors |-> {}]
    BY DEF Init
  <2>5. /\ branches \in BOOLEAN /\ expired \in BOOLEAN
        /\ status \in {"running", "awaiting-ack", "done", "rejected"}
        /\ lock \in Calls \union {Nobody} /\ noted \in SUBSET Commits
    BY DEF Init
  <2> QED
    BY <1>2, <2>1, <2>2, <2>3, <2>4, <2>5 DEF TypeOK

(* Every action keeps the types.                                           *)
LEMMA TypeStep == ASSUME TypeOK, Roles, Next PROVE TypeOK'
<1> NoCommit \in Commits
  BY DEF NoCommit, Commits
<1> NoClaim \in Claims
  BY DEF NoClaim, Claims
<1> parkRecord(<<Root>>) \in Records
  <2>1. <<Root>> \in Commits /\ Append(<<Root>>, Run) \in Commits
    BY DEF Commits, Steps, Landings
  <2> QED
    BY <2>1 DEF parkRecord, Records, Reasons, NoCommit, Commits
<1>1. ASSUME NEW c \in Calls, Start(c) PROVE TypeOK'
  BY <1>1 DEF TypeOK, Start, Goto, Leave, AfterSweep, Section, Unlock, Retry, files, locals
<1>2. ASSUME NEW c \in Calls, LookAgain(c) PROVE TypeOK'
  BY <1>2 DEF TypeOK, LookAgain, Goto, Leave, AfterSweep, Section, Unlock, Retry, files, locals
<1>3. ASSUME NEW c \in Calls, Create(c) PROVE TypeOK'
  <2>1. [owner |-> c, section |-> at[c], stale |-> FALSE] \in Claims
    BY DEF TypeOK, Claims
  <2> QED
    BY <1>3, <2>1 DEF TypeOK, Create, Goto, locals
<1>4. ASSUME NEW c \in Calls, Confirm(c) PROVE TypeOK'
  BY <1>4 DEF TypeOK, Confirm, Goto, Leave, AfterSweep, Section, Unlock, Retry, files, locals
<1>5. ASSUME NEW c \in Calls, Exists(c) PROVE TypeOK'
  BY <1>5 DEF TypeOK, Exists, Goto, Leave, AfterSweep, Section, Unlock, Retry, files, locals
<1>6. ASSUME NEW c \in Calls, Vestige(c) PROVE TypeOK'
  BY <1>6 DEF TypeOK, Vestige, Goto, Leave, AfterSweep, Section, Unlock, Retry, files, locals
<1>7. ASSUME NEW c \in Calls, Stat(c) PROVE TypeOK'
  BY <1>7 DEF TypeOK, Stat, Goto, Leave, AfterSweep, Section, Unlock, Retry, files, locals
<1>8. ASSUME NEW c \in Calls, Steal(c) PROVE TypeOK'
  BY <1>8 DEF TypeOK, Steal, Goto, Leave, AfterSweep, Section, Unlock, Retry, files, locals
<1>9. ASSUME NEW c \in Calls, Unclaim(c) PROVE TypeOK'
  BY <1>9 DEF TypeOK, Unclaim, Goto, Leave, AfterSweep, Section, Unlock, Retry, files, locals
<1>10. ASSUME NEW c \in Calls, Recheck(c) PROVE TypeOK'
  BY <1>10 DEF TypeOK, Recheck, Goto, Leave, AfterSweep, Section, Unlock, Retry, files, locals, AfterRecheck
<1>11. ASSUME NEW c \in Calls, Compare(c) PROVE TypeOK'
  BY <1>11 DEF TypeOK, Compare, Goto, Leave, AfterSweep, Section, Unlock, Retry, files, locals
<1>12. ASSUME NEW c \in Calls, Write(c) PROVE TypeOK'
  BY <1>12, ResolutionTyped DEF TypeOK, Write, Goto, Leave, AfterSweep, Section, Unlock, Retry, files, locals
<1>13. ASSUME NEW c \in Calls, Phase(c) PROVE TypeOK'
  BY <1>13 DEF TypeOK, Phase, Goto, Leave, AfterSweep, Section, Unlock, Retry, files, locals
<1>14. ASSUME NEW c \in Calls, Note(c) PROVE TypeOK'
  BY <1>14 DEF TypeOK, Note, Goto, Leave, AfterSweep, Section, Unlock, Retry, files, locals, Records
<1>15. ASSUME NEW c \in Calls, Unpin(c) PROVE TypeOK'
  BY <1>15 DEF TypeOK, Unpin, Goto, Leave, AfterSweep, Section, Unlock, Retry, files, locals
<1>16. ASSUME NEW c \in Calls, Lock(c) PROVE TypeOK'
  BY <1>16 DEF TypeOK, Lock, Goto, Leave, AfterSweep, Section, Unlock, Retry, files, locals
<1>17. ASSUME NEW c \in Calls, Look(c) PROVE TypeOK'
  BY <1>17 DEF TypeOK, Look, Goto, Leave, AfterSweep, Section, Unlock, Retry, files, locals
<1>18. ASSUME NEW c \in Calls, Verify(c) PROVE TypeOK'
  <2>1. c \in Ackers
    BY <1>18 DEF Roles, Verify
  <2>2. Append(cur[c], c) \in Commits
    BY <2>1 DEF TypeOK, Commits, Steps, Landings
  <2>3. Len(mine[c].attempts) + 1 \in Nat
    BY DEF TypeOK, Records
  <2> QED
    BY <1>18, <2>2, <2>3 DEF TypeOK, Verify, Goto, files
<1>19. ASSUME NEW c \in Calls, Pin(c) PROVE TypeOK'
  BY <1>19 DEF TypeOK, Pin, Goto, Leave, AfterSweep, Section, Unlock, Retry, files, locals, Commits, Steps, Landings, Roles
<1>20. ASSUME NEW c \in Calls, Swap(c) PROVE TypeOK'
  <2>1. mine[c].landedSHA \in Commits
    BY DEF TypeOK, Records
  <2> QED
    BY <1>20, <2>1 DEF TypeOK, Swap, Goto, locals
<1>21. ASSUME NEW c \in Calls, Refuse(c) PROVE TypeOK'
  BY <1>21 DEF TypeOK, Refuse, Goto, Leave, AfterSweep, Section, Unlock, Retry, files, locals
<1>22. ASSUME NEW c \in Calls, Rewind(c) PROVE TypeOK'
  <2>1. mine[c] \in Records
    BY DEF TypeOK
  <2>2. rewound(mine[c]) \in Records
    BY <2>1 DEF rewound, Records, Commits, NoCommit
  <2>3. park' \in Records /\ mine' \in [Calls -> Records]
    BY <1>22, <2>2 DEF TypeOK, Rewind
  <2>4. pc' = [pc EXCEPT ![c] = "phase"]
    BY <1>22 DEF Rewind, Goto
  <2> QED
    BY <1>22, <2>3, <2>4 DEF TypeOK, Rewind
<1>23. ASSUME NEW c \in Collectors, Plan(c) PROVE TypeOK'
  <2> PICK plan : /\ doomed' = [doomed EXCEPT ![c] = plan]
                  /\ plan \in SUBSET {"branches", "keep", "forced"}
    BY <1>23 DEF Plan, gcPlanFor
  <2>2. doomed' \in [Collectors -> SUBSET {"branches", "keep", "forced"}]
    BY DEF TypeOK
  <2>3. pc' = [pc EXCEPT ![c] = "apply"] /\ c \in Calls
    BY <1>23 DEF Plan, Goto, Calls
  <2> QED
    BY <1>23, <2>2, <2>3 DEF TypeOK, Plan, files
<1>24. ASSUME NEW c \in Collectors, applyGC(c) PROVE TypeOK'
  BY <1>24 DEF TypeOK, applyGC, Goto, Leave, AfterSweep, Section, Unlock, Retry, files, locals
<1>25. ASSUME NEW c \in Calls, Fail(c) PROVE TypeOK'
  BY <1>25 DEF TypeOK, Fail, Goto, Leave, AfterSweep, Section, Unlock, Retry, files, locals
<1>26. ASSUME NEW c \in Calls, Crash(c) PROVE TypeOK'
  BY <1>26 DEF TypeOK, Crash, Goto, Leave, AfterSweep, Section, Unlock, Retry, files, locals
<1>27. CASE Age
  BY <1>27 DEF TypeOK, Claims, Age, files, locals, Commits, Steps
<1>28. CASE Expire
  BY <1>28 DEF TypeOK, Expire, files, locals, Commits, Steps
<1>29. CASE ForeignLand
  BY <1>29 DEF TypeOK, ForeignLand, files, locals, Commits, Steps
<1> QED
  BY <1>1, <1>2, <1>3, <1>4, <1>5, <1>6, <1>7, <1>8, <1>9, <1>10, <1>11, <1>12, <1>13, <1>14, <1>15, <1>16, <1>17, <1>18, <1>19, <1>20, <1>21, <1>22, <1>23, <1>24, <1>25, <1>26, <1>27, <1>28, <1>29
     DEF Next, ResolverStep, ClaimStep, RecordStep, AckStep, Calls

(* A call never strays from the sections of its role.                      *)
LEMMA RolesStep == ASSUME TypeOK, Roles, Verdicts, Next PROVE Roles'
<1>1. ASSUME NEW c \in Calls, Start(c) PROVE Roles'
  BY <1>1 DEF TypeOK, Roles, Start, Goto, Leave, AfterSweep, Section, Unlock, Retry, files, locals
<1>2. ASSUME NEW c \in Calls, LookAgain(c) PROVE Roles'
  BY <1>2 DEF TypeOK, Roles, LookAgain, Goto, Leave, AfterSweep, Section, Unlock, Retry, files, locals
<1>3. ASSUME NEW c \in Calls, Create(c) PROVE Roles'
  BY <1>3 DEF TypeOK, Roles, Create, Goto, Leave, AfterSweep, Section, Unlock, Retry, files, locals
<1>4. ASSUME NEW c \in Calls, Confirm(c) PROVE Roles'
  BY <1>4 DEF TypeOK, Roles, Confirm, Goto, Leave, AfterSweep, Section, Unlock, Retry, files, locals
<1>5. ASSUME NEW c \in Calls, Exists(c) PROVE Roles'
  BY <1>5 DEF TypeOK, Roles, Exists, Goto, Leave, AfterSweep, Section, Unlock, Retry, files, locals
<1>6. ASSUME NEW c \in Calls, Vestige(c) PROVE Roles'
  BY <1>6 DEF TypeOK, Roles, Vestige, Goto, Leave, AfterSweep, Section, Unlock, Retry, files, locals
<1>7. ASSUME NEW c \in Calls, Stat(c) PROVE Roles'
  BY <1>7 DEF TypeOK, Roles, Stat, Goto, Leave, AfterSweep, Section, Unlock, Retry, files, locals
<1>8. ASSUME NEW c \in Calls, Steal(c) PROVE Roles'
  BY <1>8 DEF TypeOK, Roles, Steal, Goto, Leave, AfterSweep, Section, Unlock, Retry, files, locals
<1>9. ASSUME NEW c \in Calls, Unclaim(c) PROVE Roles'
  BY <1>9 DEF TypeOK, Roles, Unclaim, Goto, Leave, AfterSweep, Section, Unlock, Retry, files, locals
<1>10. ASSUME NEW c \in Calls, Recheck(c) PROVE Roles'
  BY <1>10 DEF TypeOK, Roles, Recheck, AfterRecheck, Goto, Leave, AfterSweep, Section, Unlock, Retry, files, locals
<1>11. ASSUME NEW c \in Calls, Compare(c) PROVE Roles'
  BY <1>11 DEF TypeOK, Roles, Compare, Goto, Leave, AfterSweep, Section, Unlock, Retry, files, locals
<1>12. ASSUME NEW c \in Calls, Write(c) PROVE Roles'
  BY <1>12 DEF TypeOK, Roles, Write, Goto, Leave, AfterSweep, Section, Unlock, Retry, files, locals
<1>13. ASSUME NEW c \in Calls, Phase(c) PROVE Roles'
  BY <1>13 DEF TypeOK, Roles, Phase, Goto, Leave, AfterSweep, Section, Unlock, Retry, files, locals
<1>14. ASSUME NEW c \in Calls, Note(c) PROVE Roles'
  BY <1>14 DEF TypeOK, Roles, Note, Goto, Leave, AfterSweep, Section, Unlock, Retry, files, locals
<1>15. ASSUME NEW c \in Calls, Unpin(c) PROVE Roles'
  BY <1>15 DEF TypeOK, Roles, Unpin, Goto, Leave, AfterSweep, Section, Unlock, Retry, files, locals
<1>16. ASSUME NEW c \in Calls, Lock(c) PROVE Roles'
  BY <1>16 DEF TypeOK, Roles, Lock, Goto, Leave, AfterSweep, Section, Unlock, Retry, files, locals
<1>17. ASSUME NEW c \in Calls, Look(c) PROVE Roles'
  BY <1>17 DEF TypeOK, Roles, Look, Goto, Leave, AfterSweep, Section, Unlock, Retry, files, locals
<1>18. ASSUME NEW c \in Calls, Verify(c) PROVE Roles'
  BY <1>18 DEF TypeOK, Roles, Verify, Goto, Leave, AfterSweep, Section, Unlock, Retry, files, locals
<1>19. ASSUME NEW c \in Calls, Pin(c) PROVE Roles'
  BY <1>19 DEF TypeOK, Roles, Pin, Goto, Leave, AfterSweep, Section, Unlock, Retry, files, locals
<1>20. ASSUME NEW c \in Calls, Swap(c) PROVE Roles'
  BY <1>20 DEF TypeOK, Roles, Swap, Goto, Leave, AfterSweep, Section, Unlock, Retry, files, locals
<1>21. ASSUME NEW c \in Calls, Refuse(c) PROVE Roles'
  BY <1>21 DEF TypeOK, Roles, Refuse, Goto, Leave, AfterSweep, Section, Unlock, Retry, files, locals
<1>22. ASSUME NEW c \in Calls, Rewind(c) PROVE Roles'
  BY <1>22 DEF TypeOK, Roles, Rewind, Goto, Leave, AfterSweep, Section, Unlock, Retry, files, locals
<1>23. ASSUME NEW c \in Collectors, Plan(c) PROVE Roles'
  BY <1>23 DEF TypeOK, Roles, Plan, Goto, Leave, AfterSweep, Section, Unlock, Retry, files, locals, Calls
<1>24. ASSUME NEW c \in Collectors, applyGC(c) PROVE Roles'
  BY <1>24 DEF TypeOK, Roles, applyGC, Goto, Leave, AfterSweep, Section, Unlock, Retry, files, locals, Calls
<1>25. ASSUME NEW c \in Calls, Fail(c) PROVE Roles'
  BY <1>25 DEF TypeOK, Roles, Fail, Goto, Leave, AfterSweep, Section, Unlock, Retry, files, locals
<1>26. ASSUME NEW c \in Calls, Crash(c) PROVE Roles'
  BY <1>26 DEF TypeOK, Roles, Crash, Goto, Leave, AfterSweep, Section, Unlock, Retry, files, locals
<1>27. CASE Age \/ Expire \/ ForeignLand
  BY <1>27 DEF TypeOK, Roles, Age, Expire, ForeignLand, files, locals
<1> QED
  BY <1>1, <1>2, <1>3, <1>4, <1>5, <1>6, <1>7, <1>8, <1>9, <1>10, <1>11, <1>12, <1>13, <1>14, <1>15, <1>16, <1>17, <1>18, <1>19, <1>20, <1>21, <1>22, <1>23, <1>24, <1>25, <1>26, <1>27
     DEF Next, ResolverStep, ClaimStep, RecordStep, AckStep, Calls

(* A call past its claim holds the record it is entitled to write from.    *)
LEMMA CopiesStep == ASSUME TypeOK, Roles, GoodRecords, Copies, Next PROVE Copies'
<1>1. ASSUME NEW c \in Calls, Start(c) PROVE Copies'
  BY <1>1 DEF TypeOK, Copies, Start, Goto, Leave, AfterSweep, Section, Unlock, Retry, files, locals
<1>2. ASSUME NEW c \in Calls, LookAgain(c) PROVE Copies'
  BY <1>2 DEF TypeOK, Copies, LookAgain, Goto, Leave, AfterSweep, Section, Unlock, Retry, files, locals
<1>3. ASSUME NEW c \in Calls, Create(c) PROVE Copies'
  BY <1>3 DEF TypeOK, Copies, Create, Goto, Leave, AfterSweep, Section, Unlock, Retry, files, locals
<1>4. ASSUME NEW c \in Calls, Confirm(c) PROVE Copies'
  BY <1>4 DEF TypeOK, Copies, Confirm, Goto, Leave, AfterSweep, Section, Unlock, Retry, files, locals
<1>5. ASSUME NEW c \in Calls, Exists(c) PROVE Copies'
  BY <1>5 DEF TypeOK, Copies, Exists, Goto, Leave, AfterSweep, Section, Unlock, Retry, files, locals
<1>6. ASSUME NEW c \in Calls, Vestige(c) PROVE Copies'
  BY <1>6 DEF TypeOK, Copies, Vestige, Goto, Leave, AfterSweep, Section, Unlock, Retry, files, locals
<1>7. ASSUME NEW c \in Calls, Stat(c) PROVE Copies'
  BY <1>7 DEF TypeOK, Copies, Stat, Goto, Leave, AfterSweep, Section, Unlock, Retry, files, locals
<1>8. ASSUME NEW c \in Calls, Steal(c) PROVE Copies'
  BY <1>8 DEF TypeOK, Copies, Steal, Goto, Leave, AfterSweep, Section, Unlock, Retry, files, locals
<1>9. ASSUME NEW c \in Calls, Unclaim(c) PROVE Copies'
  BY <1>9 DEF TypeOK, Copies, Unclaim, Goto, Leave, AfterSweep, Section, Unlock, Retry, files, locals
<1>10. ASSUME NEW c \in Calls, Recheck(c) PROVE Copies'
  BY <1>10 DEF TypeOK, Copies, Recheck, AfterRecheck, Resolvable, Goto, Leave, AfterSweep, Section, Unlock, Retry, files, locals
<1>11. ASSUME NEW c \in Calls, Compare(c) PROVE Copies'
  BY <1>11 DEF TypeOK, Copies, Compare, Goto, Leave, AfterSweep, Section, Unlock, Retry, files, locals
<1>12. ASSUME NEW c \in Calls, Write(c) PROVE Copies'
  <2>1. resolution(c).landedSHA # NoCommit \/ pc'[c] = "phase"
    BY <1>12 DEF Write, Goto, TypeOK
  <2>2. mine'[c] = resolution(c)
    BY <1>12 DEF Write, TypeOK
  <2>3. \A d \in Calls : d # c => mine'[d] = mine[d] /\ pc'[d] = pc[d]
    BY <1>12 DEF Write, Goto, TypeOK
  <2>4. pc'[c] \in {"swap", "phase"}
    BY <1>12 DEF Write, Goto, TypeOK
  <2> QED
    BY <2>1, <2>2, <2>3, <2>4 DEF Copies
<1>13. ASSUME NEW c \in Calls, Phase(c) PROVE Copies'
  BY <1>13 DEF TypeOK, Copies, Phase, Goto, Leave, AfterSweep, Section, Unlock, Retry, files, locals
<1>14. ASSUME NEW c \in Calls, Note(c) PROVE Copies'
  BY <1>14 DEF TypeOK, Copies, Note, Goto, Leave, AfterSweep, Section, Unlock, Retry, files, locals
<1>15. ASSUME NEW c \in Calls, Unpin(c) PROVE Copies'
  BY <1>15 DEF TypeOK, Copies, Unpin, Goto, Leave, AfterSweep, Section, Unlock, Retry, files, locals
<1>16. ASSUME NEW c \in Calls, Lock(c) PROVE Copies'
  BY <1>16 DEF TypeOK, Copies, Lock, Goto, Leave, AfterSweep, Section, Unlock, Retry, files, locals
<1>17. ASSUME NEW c \in Calls, Look(c) PROVE Copies'
  BY <1>17 DEF TypeOK, Copies, Look, Goto, Leave, AfterSweep, Section, Unlock, Retry, files, locals
<1>18. ASSUME NEW c \in Calls, Verify(c) PROVE Copies'
  BY <1>18 DEF TypeOK, Copies, Verify, Goto, Leave, AfterSweep, Section, Unlock, Retry, files, locals
<1>19. ASSUME NEW c \in Calls, Pin(c) PROVE Copies'
  BY <1>19 DEF TypeOK, Copies, Pin, Goto, locals
<1>20. ASSUME NEW c \in Calls, Swap(c) PROVE Copies'
  BY <1>20 DEF TypeOK, Copies, Swap, Goto, Leave, AfterSweep, Section, Unlock, Retry, files, locals
<1>21. ASSUME NEW c \in Calls, Refuse(c) PROVE Copies'
  BY <1>21 DEF TypeOK, Copies, Refuse, Goto, Leave, AfterSweep, Section, Unlock, Retry, files, locals
<1>22. ASSUME NEW c \in Calls, Rewind(c) PROVE Copies'
  BY <1>22 DEF TypeOK, Copies, Rewind, Goto, Leave, AfterSweep, Section, Unlock, Retry, files, locals
<1>23. ASSUME NEW c \in Collectors, Plan(c) PROVE Copies'
  BY <1>23 DEF TypeOK, Copies, Plan, Goto, Leave, AfterSweep, Section, Unlock, Retry, files, locals, Calls
<1>24. ASSUME NEW c \in Collectors, applyGC(c) PROVE Copies'
  BY <1>24 DEF TypeOK, Copies, applyGC, Goto, Leave, AfterSweep, Section, Unlock, Retry, files, locals, Calls
<1>25. ASSUME NEW c \in Calls, Fail(c) PROVE Copies'
  BY <1>25 DEF TypeOK, Copies, Fail, Goto, Leave, AfterSweep, Section, Unlock, Retry, files, locals
<1>26. ASSUME NEW c \in Calls, Crash(c) PROVE Copies'
  BY <1>26 DEF TypeOK, Copies, Crash, Goto, Leave, AfterSweep, Section, Unlock, Retry, files, locals
<1>27. CASE Age \/ Expire \/ ForeignLand
  BY <1>27 DEF TypeOK, Copies, Age, Expire, ForeignLand, files, locals
<1> QED
  BY <1>1, <1>2, <1>3, <1>4, <1>5, <1>6, <1>7, <1>8, <1>9, <1>10, <1>11, <1>12, <1>13, <1>14, <1>15, <1>16, <1>17, <1>18, <1>19, <1>20, <1>21, <1>22, <1>23, <1>24, <1>25, <1>26, <1>27
     DEF Next, ResolverStep, ClaimStep, RecordStep, AckStep, Calls

(* Green commits stay green.                                                *)
LEMMA GreenGrows == ASSUME Next PROVE green \subseteq green'
<1>1. ASSUME NEW c \in Calls, ResolverStep(c) \/ LookAgain(c) \/ Fail(c) \/ Crash(c)
      PROVE  green \subseteq green'
  BY <1>1 DEF ResolverStep, ClaimStep, RecordStep, AckStep, LookAgain, Fail, Crash,
              Start, Create, Confirm, Exists, Vestige, Stat, Steal, Unclaim, Recheck,
              Compare, Write, Phase, Note, Unpin, Lock, Look, Verify, Pin, Swap, Refuse,
              Rewind
<1>2. ASSUME NEW c \in Collectors, Plan(c) \/ applyGC(c) PROVE green \subseteq green'
  BY <1>2 DEF Plan, applyGC
<1>3. CASE Age \/ Expire \/ ForeignLand
  BY <1>3 DEF Age, Expire, ForeignLand
<1> QED
  BY <1>1, <1>2, <1>3 DEF Next, Calls

(* What a resolver writes is a good record: a landing is of the commit the  *)
(* record verified, or of the one this very ack verified.                   *)
LEMMA ResolutionGood ==
    ASSUME TypeOK, Roles, GoodRecords, Copies, Verdicts, NEW c \in Calls, pc[c] = "write"
    PROVE  GoodRecord(resolution(c))
<1> DEFINE r == mine[c]
<1>0. r \in Records /\ GoodRecord(r) /\ ~r.resolved /\ r.landedSHA = NoCommit
  BY DEF TypeOK, GoodRecords, Copies, GoodRecord
<1>1. CASE at[c] \in {"sweep", "reject", "direct"}
  BY <1>0, <1>1 DEF resolution, GoodRecord, Records
<1>2. CASE at[c] = "reverify" /\ ~verdict[c]
  BY <1>0, <1>2 DEF resolution, GoodRecord, Records
<1>3. CASE at[c] = "reverify" /\ verdict[c]
  <2>1. Append(cur[c], c) \in green
    BY <1>3 DEF Verdicts
  <2>2. ChildOf(Append(cur[c], c), cur[c])
    <3>1. c \in Steps
      BY <1>3 DEF Roles, Steps, Landings
    <3> QED
      BY <3>1 DEF ChildOf
  <2>3. /\ resolution(c).verifiedSHA = Append(cur[c], c)
        /\ resolution(c).landedSHA = Append(cur[c], c)
        /\ resolution(c).baseSHA = cur[c]
        /\ resolution(c).resolved
    BY <1>0, <1>3 DEF resolution, Records
  <2> QED
    BY <2>1, <2>2, <2>3 DEF GoodRecord
<1> QED
  BY <1>1, <1>2, <1>3 DEF TypeOK

(* Only these actions touch the record or a call's copy of it.              *)
LEMMA RecordFrame ==
    ASSUME Next
    PROVE  \/ UNCHANGED <<park, mine>>
           \/ \E c \in Calls : \/ LookAgain(c) \/ Recheck(c) \/ Write(c) \/ Look(c)
                               \/ Refuse(c) \/ Rewind(c)
<1>1. ASSUME NEW c \in Calls, Start(c) \/ ClaimStep(c) \/ Fail(c) \/ Crash(c)
      PROVE  UNCHANGED <<park, mine>>
  BY <1>1 DEF ClaimStep, Fail, Crash, Start, Create, Confirm, Exists, Vestige, Stat,
              Steal, Unclaim, files, locals
<1>2. ASSUME NEW c \in Calls,
             \/ Compare(c) \/ Phase(c) \/ Note(c) \/ Unpin(c)
             \/ Lock(c) \/ Verify(c) \/ Pin(c) \/ Swap(c)
      PROVE  UNCHANGED <<park, mine>>
  BY <1>2 DEF Compare, Phase, Note, Unpin, Lock, Verify, Pin, Swap, files, locals
<1>3. ASSUME NEW c \in Collectors, Plan(c) \/ applyGC(c) PROVE UNCHANGED <<park, mine>>
  BY <1>3 DEF Plan, applyGC, files, locals
<1>4. CASE Age \/ Expire \/ ForeignLand
  BY <1>4 DEF Age, Expire, ForeignLand, files, locals
<1> QED
  BY <1>1, <1>2, <1>3, <1>4 DEF Next, ResolverStep, RecordStep, AckStep, Calls

(* Every record on disk, and every copy of it, stays good.                  *)
LEMMA RecordsStep ==
    ASSUME TypeOK, Roles, GoodRecords, Copies, Verdicts, FirstGreen, Next
    PROVE  GoodRecords'
<1>0. green \subseteq green'
  BY GreenGrows
<1>1. \A r : GoodRecord(r) => (r.verifiedSHA \in green' /\ ChildOf(r.verifiedSHA, r.baseSHA)
                               /\ r.landedSHA \in {NoCommit, r.verifiedSHA}
                               /\ (~r.resolved => r.landedSHA = NoCommit))
  BY <1>0 DEF GoodRecord
<1>2. SUFFICES /\ GoodRecord(park')
               /\ \A d \in Calls : GoodRecord(mine'[d])
  BY <1>0 DEF GoodRecords, GoodRecord, ChildOf
<1>3. CASE UNCHANGED <<park, mine>>
  BY <1>3 DEF GoodRecords
<1>4. ASSUME NEW c \in Calls, LookAgain(c)
      PROVE  GoodRecord(park') /\ \A d \in Calls : GoodRecord(mine'[d])
  <2>1. GoodRecord(parkRecord(<<Root>>))
    BY DEF FirstGreen, GoodRecord, parkRecord, ChildOf, Steps, Landings
  <2> QED
    BY <1>4, <2>1 DEF LookAgain, GoodRecords, TypeOK, files
<1>5. ASSUME NEW c \in Calls, Recheck(c) \/ Look(c) \/ Refuse(c)
      PROVE  GoodRecord(park') /\ \A d \in Calls : GoodRecord(mine'[d])
  BY <1>5 DEF Recheck, Look, Refuse, GoodRecords, TypeOK, files
<1>6. ASSUME NEW c \in Calls, Write(c)
      PROVE  GoodRecord(park') /\ \A d \in Calls : GoodRecord(mine'[d])
  <2>1. GoodRecord(resolution(c))
    BY <1>6, ResolutionGood DEF Write
  <2> QED
    BY <1>6, <2>1 DEF Write, GoodRecords, TypeOK
<1>7. ASSUME NEW c \in Calls, Rewind(c)
      PROVE  GoodRecord(park') /\ \A d \in Calls : GoodRecord(mine'[d])
  <2>1. GoodRecord(rewound(mine[c]))
    BY DEF GoodRecords, GoodRecord, rewound, TypeOK, Records
  <2> QED
    BY <1>7, <2>1 DEF Rewind, GoodRecords, TypeOK
<1> QED
  BY <1>3, <1>4, <1>5, <1>6, <1>7, RecordFrame

(* A verdict is given once, by Verify, and what it says stays true.         *)
LEMMA VerdictsStep ==
    ASSUME TypeOK, Roles, Verdicts, ParkAssumption, Next
    PROVE  Verdicts'
<1>0. green \subseteq green'
  BY GreenGrows
<1>1. SUFFICES ASSUME NEW d \in Calls, verdict'[d]
               PROVE  at'[d] = "reverify" /\ pc'[d] # "verify" /\ Append(cur'[d], d) \in green'
  BY DEF Verdicts
<1>2. ASSUME NEW c \in Calls, Verify(c)
      PROVE  at'[d] = "reverify" /\ pc'[d] # "verify" /\ Append(cur'[d], d) \in green'
  <2>1. CASE d # c
    BY <1>0, <1>1, <1>2, <2>1 DEF Verify, Verdicts, TypeOK, Goto, files
  <2>2. CASE d = c
    <3>1. at[c] = "reverify" /\ at' = at /\ cur' = cur /\ pc'[c] = "create"
      BY <1>2 DEF Verify, Roles, Goto, TypeOK, files
    <3>2. Append(cur[c], c) \in green'
      BY <1>1, <1>2, <2>2 DEF Verify, TypeOK
    <3> QED
      BY <2>2, <3>1, <3>2
  <2> QED
    BY <2>1, <2>2
<1>3. ASSUME UNCHANGED <<verdict, cur>>,
             \/ at'[d] = at[d] /\ (pc'[d] = pc[d] \/ pc'[d] # "verify")
             \/ at[d] = "sweep"
      PROVE  at'[d] = "reverify" /\ pc'[d] # "verify" /\ Append(cur'[d], d) \in green'
  BY <1>0, <1>1, <1>3 DEF Verdicts
<1>4. ASSUME NEW c \in Calls, Start(c) \/ ClaimStep(c)
      PROVE  at'[d] = "reverify" /\ pc'[d] # "verify" /\ Append(cur'[d], d) \in green'
  <2>1. UNCHANGED <<verdict, cur>>
    BY <1>4 DEF ClaimStep, Start, Create, Confirm, Exists, Vestige, Stat, Steal, Unclaim,
                locals
  <2>2. CASE d # c
    <3>1. at'[d] = at[d] /\ pc'[d] = pc[d]
      BY <1>4, <2>2 DEF ClaimStep, Start, Create, Confirm, Exists, Vestige, Stat, Steal,
             Unclaim, locals, Goto, Leave, AfterSweep, Section, Retry, TypeOK
    <3> QED
      BY <1>3, <2>1, <3>1
  <2>3. CASE d = c /\ at[d] # "sweep"
    <3>1. pc[d] # "idle"
      BY <2>3 DEF Roles
    <3>2. at'[d] = at[d] /\ pc'[d] # "verify"
      BY <1>4, <2>3, <3>1 DEF ClaimStep, Start, Create, Confirm, Exists, Vestige, Stat,
             Steal, Unclaim, locals, Goto, Leave, Retry, TypeOK
    <3> QED
      BY <1>3, <2>1, <3>2
  <2>4. CASE at[d] = "sweep"
    BY <1>3, <2>1, <2>4
  <2> QED
    BY <2>2, <2>3, <2>4
<1>5. ASSUME NEW c \in Calls, Look(c)
      PROVE  at'[d] = "reverify" /\ pc'[d] # "verify" /\ Append(cur'[d], d) \in green'
  <2>1. d # c
    BY <1>1, <1>5 DEF Look, Verdicts, Roles
  <2> QED
    BY <1>0, <1>1, <1>5, <2>1 DEF Look, Verdicts, Goto, Section, TypeOK
<1>6. ASSUME NEW c \in Calls, LookAgain(c)
      PROVE  at'[d] = "reverify" /\ pc'[d] # "verify" /\ Append(cur'[d], d) \in green'
  <2>1. d # c
    BY <1>1, <1>6 DEF LookAgain, Verdicts, Roles, ParkAssumption
  <2> QED
    BY <1>0, <1>1, <1>6, <2>1 DEF LookAgain, Verdicts, Goto, TypeOK
<1>7. ASSUME NEW c \in Calls, RecordStep(c) \/ Fail(c) \/ Crash(c)
      PROVE  at'[d] = "reverify" /\ pc'[d] # "verify" /\ Append(cur'[d], d) \in green'
  <2>1. UNCHANGED <<verdict, cur, at>>
    BY <1>7 DEF RecordStep, Recheck, Compare, Write, Phase, Note, Unpin, Fail, Crash, locals
  <2>2. pc'[d] = pc[d] \/ pc'[d] # "verify"
    BY <1>7 DEF RecordStep, Recheck, AfterRecheck, Compare, Write, Phase, Note, Unpin, Fail,
                Crash, Goto, TypeOK
  <2> QED
    BY <1>3, <2>1, <2>2
<1>8. ASSUME NEW c \in Calls, Lock(c) \/ Pin(c) \/ Swap(c) \/ Refuse(c) \/ Rewind(c)
      PROVE  at'[d] = "reverify" /\ pc'[d] # "verify" /\ Append(cur'[d], d) \in green'
  <2>1. UNCHANGED <<verdict, cur, at>>
    BY <1>8 DEF Lock, Pin, Swap, Refuse, Rewind, locals
  <2>2. pc'[d] = pc[d] \/ pc'[d] # "verify"
    BY <1>8 DEF Lock, Pin, Swap, Refuse, Rewind, Goto, TypeOK
  <2> QED
    BY <1>3, <2>1, <2>2
<1>9. ASSUME NEW c \in Collectors, Plan(c) \/ applyGC(c)
      PROVE  at'[d] = "reverify" /\ pc'[d] # "verify" /\ Append(cur'[d], d) \in green'
  <2>1. UNCHANGED <<verdict, cur, at>> /\ (pc'[d] = pc[d] \/ pc'[d] # "verify")
    BY <1>9 DEF Plan, applyGC, Goto, locals, TypeOK, Calls
  <2> QED
    BY <1>3, <2>1
<1>10. CASE Age \/ Expire \/ ForeignLand
  <2>1. UNCHANGED <<verdict, cur, at, pc>>
    BY <1>10 DEF Age, Expire, ForeignLand, locals
  <2> QED
    BY <1>3, <2>1
<1> QED
  BY <1>2, <1>4, <1>5, <1>6, <1>7, <1>8, <1>9, <1>10 DEF Next, ResolverStep, AckStep, Calls

-----------------------------------------------------------------------------
(* The invariant holds initially, and every step keeps it.                  *)
LEMMA InvInit == ParkAssumption /\ Init => IInv
<1> SUFFICES ASSUME ParkAssumption, Init PROVE IInv
  OBVIOUS
<1>1. TypeOK
  BY TypeInit
<1>2. park = parkRecord(<<Root>>) /\ green = {Append(<<Root>>, Run)}
  BY DEF Init, parkRecord
<1>3. FirstGreen
  BY <1>2 DEF FirstGreen
<1>4. GoodRecord(park)
  BY <1>2 DEF GoodRecord, parkRecord, ChildOf, Steps, Landings
<1>5. GoodRecords
  BY <1>4 DEF GoodRecords, Init
<1>6. Roles /\ Copies /\ Verdicts
  BY DEF Init, Roles, Copies, Verdicts
<1> QED
  BY <1>1, <1>3, <1>5, <1>6 DEF IInv

(* Every step, stutters included, keeps the whole invariant.               *)
LEMMA InvStep == ASSUME ParkAssumption, IInv, [Next]_vars PROVE IInv'
<1>1. CASE Next
  BY <1>1, TypeStep, RolesStep, RecordsStep, CopiesStep, VerdictsStep, GreenGrows
     DEF IInv, FirstGreen
<1>2. CASE UNCHANGED vars
  BY <1>2 DEF IInv, TypeOK, Roles, GoodRecords, GoodRecord, Copies, Verdicts, FirstGreen,
              ChildOf, vars
<1> QED
  BY <1>1, <1>2

(* The protocol never leaves the states the invariant describes.            *)
LEMMA Invariance == Spec => []IInv
<1>1. Init => IInv
  BY InvInit, ParkAssumption
<1>2. IInv /\ [Next]_vars => IInv'
  BY InvStep, ParkAssumption
<1> QED
  BY <1>1, <1>2, PTL DEF Spec

(* Every file, record and call of the protocol keeps its type, whatever     *)
(* runs, races, is killed or fails.                                         *)
THEOREM TypeCorrect == Spec => []TypeOK
<1>1. IInv => TypeOK
  BY DEF IInv
<1> QED
  BY <1>1, Invariance, PTL

-----------------------------------------------------------------------------
(* Only a landing's compare-and-swap or somebody else's push moves the base. *)
LEMMA BaseFrame ==
    ASSUME Next
    PROVE  \/ UNCHANGED base
           \/ ForeignLand
           \/ \E c \in Calls : Swap(c) /\ base' # base
<1>1. ASSUME NEW c \in Calls, Start(c) \/ ClaimStep(c) \/ LookAgain(c) \/ Fail(c) \/ Crash(c)
      PROVE  UNCHANGED base
  BY <1>1 DEF ClaimStep, LookAgain, Fail, Crash, Start, Create, Confirm, Exists, Vestige,
              Stat, Steal, Unclaim, files
<1>2. ASSUME NEW c \in Calls, RecordStep(c)
      PROVE  UNCHANGED base
  BY <1>2 DEF RecordStep, Recheck, Compare, Write, Phase, Note, Unpin, files
<1>3. ASSUME NEW c \in Calls, Lock(c) \/ Look(c) \/ Verify(c) \/ Pin(c) \/ Refuse(c) \/ Rewind(c)
      PROVE  UNCHANGED base
  BY <1>3 DEF Lock, Look, Verify, Pin, Refuse, Rewind, files
<1>4. ASSUME NEW c \in Collectors, Plan(c) \/ applyGC(c) PROVE UNCHANGED base
  BY <1>4 DEF Plan, applyGC, files
<1>5. CASE Age \/ Expire
  BY <1>5 DEF Age, Expire, files
<1> QED
  BY <1>1, <1>2, <1>3, <1>4, <1>5 DEF Next, ResolverStep, AckStep, Calls

(* What a swap puts on the base is a verified child of what was there.      *)
LEMMA SwapLandsGreenChild ==
    ASSUME IInv, NEW c \in Calls, Swap(c), base' # base
    PROVE  base' \in green /\ ChildOf(base', base) /\ UNCHANGED green
<1>1. /\ pc[c] = "swap" /\ base = mine[c].baseSHA /\ base' = mine[c].landedSHA
      /\ UNCHANGED green
  BY DEF Swap
<1>2. mine[c].landedSHA = mine[c].verifiedSHA
  BY <1>1 DEF IInv, Copies, GoodRecords, GoodRecord
<1> QED
  BY <1>1, <1>2 DEF IInv, GoodRecords, GoodRecord

(* For any number of concurrent acks, rejects, sweeps and collections, with *)
(* every crash, fault, stolen claim and broken lock: the base gains one     *)
(* landing at a time on the head it held, and what sigbound lands passed    *)
(* verify on exactly that head.                                             *)
THEOREM OnlyVerifiedLands == Spec => LandsOnlyVerified
<1>1. ASSUME IInv, [Next]_vars, base' # base
      PROVE  \E x \in Steps : base' = Append(base, x) /\ (x # Foreign => base' \in green)
  <2>1. Next
    BY <1>1 DEF vars
  <2>2. CASE ForeignLand
    BY <2>2 DEF ForeignLand, Steps
  <2>3. ASSUME NEW c \in Calls, Swap(c)
        PROVE  \E x \in Steps : base' = Append(base, x) /\ (x # Foreign => base' \in green)
    BY <1>1, <2>3, SwapLandsGreenChild DEF ChildOf
  <2> QED
    BY <1>1, <2>1, <2>2, <2>3, BaseFrame
<1>2. IInv /\ [Next]_vars =>
        [base' # base => \E x \in Steps : /\ base' = Append(base, x)
                                          /\ (x # Foreign => base' \in green)]_vars
  BY <1>1
<1> QED
  BY <1>2, Invariance, PTL DEF Spec, LandsOnlyVerified

(* The parking protocol implements the promise every landing path makes     *)
(* about the base ref: each of its steps is a landing, a passed verify, a   *)
(* foreign push, or none of the base's business.                            *)
THEOREM ParkImplementsLanding == Spec => LandingSpec
<1>1. Init => Base!Init
  BY TypeInit, ParkAssumption DEF TypeOK, Base!Init, Base!Commits, Base!Steps, Commits, Steps
<1>2. ASSUME IInv, IInv', [Next]_vars PROVE [Base!Next]_(Base!landingVars)
  <2>1. CASE UNCHANGED vars
    BY <2>1 DEF vars, Base!landingVars
  <2>2. CASE Next /\ UNCHANGED base
    <3>1. green \subseteq green' /\ green' \subseteq Base!Commits
      BY <1>2, <2>2, GreenGrows DEF IInv, TypeOK, Base!Commits, Base!Steps, Commits, Steps
    <3> QED
      BY <2>2, <3>1 DEF Base!Next, Base!PassVerify
  <2>3. CASE ForeignLand
    BY <2>3 DEF ForeignLand, Base!Next, Base!ForeignLand
  <2>4. ASSUME NEW c \in Calls, Swap(c), base' # base PROVE Base!Next
    BY <1>2, <2>4, SwapLandsGreenChild
       DEF Base!Next, Base!Land, Base!ChildOf, Base!Steps, ChildOf, Steps
  <2> QED
    BY <1>2, <2>1, <2>2, <2>3, <2>4, BaseFrame
<1> QED
  BY <1>1, <1>2, Invariance, PTL DEF Spec, LandingSpec, Base!Spec

-----------------------------------------------------------------------------
(* What a park comes to.  A call is disturbed when the claim it works under *)
(* is taken for stale, or when a lost swap makes it take its own landing    *)
(* back.  As long as neither happens, a record once resolved never changes  *)
(* again, and before that one call at a time is past its claim: everything  *)
(* else follows from these two.                                             *)

Undisturbed == ~claim.stale /\ \A c \in Calls : pc[c] # "rewind"

Held == {"confirm", "recheck", "pin", "compare", "write", "phase", "unclaim"}

(* While the park is open, whoever is past its claim is the one on disk.    *)
OneHolder == /\ \A c \in Calls : pc[c] # "steal"
             /\ \A c \in Calls : pc[c] = "vestige" => park.resolved
             /\ ~park.resolved => \A c \in Calls : pc[c] \in Held => claim.owner = c

(* A call about to write does so on the open record it read; a call past a  *)
(* resolution holds the record on disk, and one landing at most is on its   *)
(* way.                                                                     *)
Intents == \A c \in Calls :
    /\ pc[c] \in {"pin", "compare", "write"} => ~park.resolved
    /\ pc[c] = "write" => park = mine[c]
    /\ pc[c] \in {"note", "unpin", "refuse"} => park.resolved
    /\ pc[c] = "phase" /\ mine[c].resolved => park = mine[c]
    /\ pc[c] = "swap" => /\ park.resolved /\ park = mine[c]
                         /\ ParkLandings = {}
                         /\ \A d \in Calls : pc[d] = "swap" => d = c

(* What the base and the phase marker tell about the record.                *)
Outcome == /\ base # << >>
           /\ ParkLandings # {} => park.resolved /\ park.landedSHA # NoCommit
           /\ status = "rejected" => park.resolved /\ park.landedSHA = NoCommit
           /\ \A i, j \in ParkLandings : i = j

(* An open park is still the one the run left, and nobody is about to take  *)
(* what it needs: an ack that re-verifies only ever does so on a moved base.*)
OpenPark ==
    /\ \A c \in Collectors : doomed[c] # {} => park.resolved
    /\ ~park.resolved =>
         /\ branches
         /\ park.baseSHA = <<Root>>
         /\ base = <<Root>> => keep = park.verifiedSHA
         /\ \A c \in Calls : at[c] = "reverify" => base # <<Root>>

PInv == OneHolder /\ Intents /\ Outcome /\ OpenPark

(* Nothing but a write under the claim changes an open record, and nothing  *)
(* changes a resolved one.                                                  *)
LEMMA ResolvedStays ==
    ASSUME IInv, PInv, Undisturbed, Next
    PROVE  /\ park' = park \/ (\E c \in Calls : Write(c))
           /\ park.resolved => park' = park
<1>1. ASSUME NEW c \in Calls, LookAgain(c) \/ Recheck(c) \/ Look(c) \/ Refuse(c)
      PROVE  park' = park
  BY <1>1 DEF LookAgain, Recheck, Look, Refuse, files
<1>2. ASSUME NEW c \in Calls, Rewind(c) PROVE FALSE
  BY <1>2 DEF Rewind, Undisturbed
<1>3. ASSUME NEW c \in Calls, Write(c) PROVE ~park.resolved
  BY <1>3 DEF Write, PInv, Intents
<1> QED
  BY <1>1, <1>2, <1>3, RecordFrame

(* While a park is open its claim keeps one holder.                         *)
LEMMA OneHolderStep ==
    ASSUME ParkAssumption, IInv, PInv, Undisturbed, Next
    PROVE  OneHolder'
<1> USE DEF PInv, IInv
<1>0. /\ ~park'.resolved => ~park.resolved
      /\ park.resolved => park'.resolved
  BY ResolvedStays
<1>0a. Nobody \notin Calls
  BY DEF ParkAssumption
<1>1. ASSUME NEW c \in Calls, Start(c) PROVE OneHolder'
  BY <1>1, <1>0 DEF Start, TypeOK, OneHolder, Held, Goto, AfterSweep, Section, files
<1>2. ASSUME NEW c \in Calls, LookAgain(c) PROVE OneHolder'
  BY <1>2, <1>0 DEF LookAgain, TypeOK, OneHolder, Held, Goto, files, locals
<1>3. ASSUME NEW c \in Calls, Create(c) PROVE OneHolder'
  <2>1. claim' = claim \/ (claim = NoClaim /\ claim'.owner = c)
    BY <1>3 DEF Create
  <2>2. ASSUME ~park'.resolved, NEW d \in Calls, pc'[d] \in Held PROVE claim'.owner = d
    BY <1>0, <1>0a, <1>3, <2>2 DEF Create, NoClaim, OneHolder, Held, Goto, TypeOK
  <2> QED
    BY <1>0, <1>3, <2>2 DEF Create, OneHolder, Goto, TypeOK
<1>4. ASSUME NEW c \in Calls, Confirm(c) PROVE OneHolder'
  BY <1>4, <1>0 DEF Confirm, TypeOK, OneHolder, Held, Goto, Leave, AfterSweep,
                    Section, Unlock, Retry
<1>5. ASSUME NEW c \in Calls, Exists(c) PROVE OneHolder'
  BY <1>5, <1>0 DEF Exists, TypeOK, OneHolder, Held, Goto, files, locals
<1>6. ASSUME NEW c \in Calls, Vestige(c) PROVE OneHolder'
  BY <1>6, <1>0 DEF Vestige, TypeOK, OneHolder, Held, Goto, Leave, AfterSweep,
                    Section, Unlock, Retry
<1>7. ASSUME NEW c \in Calls, Stat(c) PROVE OneHolder'
  BY <1>0, <1>7 DEF Stat, Undisturbed, TypeOK, OneHolder, Held, Goto, Leave, AfterSweep,
              Section, Unlock, Retry
<1>8. ASSUME NEW c \in Calls, Steal(c) PROVE OneHolder'
  BY <1>8, <1>0 DEF Steal, TypeOK, OneHolder, Held, Goto, Leave, AfterSweep, Section,
                    Unlock, Retry
<1>9. ASSUME NEW c \in Calls, Unclaim(c) PROVE OneHolder'
  BY <1>9, <1>0 DEF Unclaim, TypeOK, OneHolder, Held, Goto, Leave, AfterSweep,
                    Section, Unlock, Retry
<1>10. ASSUME NEW c \in Calls, Recheck(c) PROVE OneHolder'
  BY <1>0, <1>10 DEF Recheck, AfterRecheck, TypeOK, OneHolder, Held, Goto, files, locals
<1>11. ASSUME NEW c \in Calls, Compare(c) PROVE OneHolder'
  BY <1>11, <1>0 DEF Compare, TypeOK, OneHolder, Held, Goto, files, locals
<1>12. ASSUME NEW c \in Calls, Write(c) PROVE OneHolder'
  BY <1>12, <1>0 DEF Write, TypeOK, OneHolder, Held, Goto, files, locals
<1>13. ASSUME NEW c \in Calls, Phase(c) PROVE OneHolder'
  BY <1>13, <1>0 DEF Phase, TypeOK, OneHolder, Held, Goto, files, locals
<1>14. ASSUME NEW c \in Calls, Note(c) PROVE OneHolder'
  BY <1>14, <1>0 DEF Note, TypeOK, OneHolder, Held, Goto, files, locals
<1>15. ASSUME NEW c \in Calls, Unpin(c) PROVE OneHolder'
  BY <1>0, <1>15 DEF Unpin, Intents, TypeOK, OneHolder, Held, Goto, locals
<1>16. ASSUME NEW c \in Calls, Lock(c) PROVE OneHolder'
  BY <1>16, <1>0 DEF Lock, TypeOK, OneHolder, Held, Goto, files, locals
<1>17. ASSUME NEW c \in Calls, Look(c) PROVE OneHolder'
  BY <1>17, <1>0 DEF Look, TypeOK, OneHolder, Held, Goto, Section
<1>18. ASSUME NEW c \in Calls, Verify(c) PROVE OneHolder'
  BY <1>18, <1>0 DEF Verify, TypeOK, OneHolder, Held, Goto, files, locals
<1>19. ASSUME NEW c \in Calls, Pin(c) PROVE OneHolder'
  BY <1>19, <1>0 DEF Pin, TypeOK, OneHolder, Held, Goto, files, locals
<1>20. ASSUME NEW c \in Calls, Swap(c) PROVE OneHolder'
  BY <1>0, <1>20 DEF Swap, Intents, TypeOK, OneHolder, Held, Goto, locals
<1>21. ASSUME NEW c \in Calls, Refuse(c) PROVE OneHolder'
  BY <1>0, <1>21 DEF Refuse, Intents, TypeOK, OneHolder, Held, Goto, files, locals
<1>22. ASSUME NEW c \in Calls, Rewind(c) PROVE OneHolder'
  BY <1>22 DEF Rewind, Undisturbed
<1>23. ASSUME NEW c \in Collectors, Plan(c) PROVE OneHolder'
  BY <1>23, <1>0 DEF Plan, TypeOK, OneHolder, Held, Goto, files, locals, Calls
<1>24. ASSUME NEW c \in Collectors, applyGC(c) PROVE OneHolder'
  BY <1>24, <1>0 DEF applyGC, TypeOK, OneHolder, Held, Goto, files, locals, Calls
<1>25. ASSUME NEW c \in Calls, Fail(c) PROVE OneHolder'
  BY <1>0, <1>25 DEF Fail, Undisturbed, Intents, TypeOK, OneHolder, Held, Goto, files,
                     locals
<1>26. ASSUME NEW c \in Calls, Crash(c) PROVE OneHolder'
  BY <1>26, <1>0 DEF Crash, TypeOK, OneHolder, Held, Goto, files, locals
<1>27. CASE Age \/ Expire \/ ForeignLand
  BY <1>0, <1>27 DEF Age, Expire, ForeignLand, TypeOK, Claims, OneHolder, files, locals
<1> QED
  BY <1>1, <1>2, <1>3, <1>4, <1>5, <1>6, <1>7, <1>8, <1>9, <1>10, <1>11, <1>12, <1>13,
     <1>14, <1>15, <1>16, <1>17, <1>18, <1>19, <1>20, <1>21, <1>22, <1>23, <1>24,
     <1>25, <1>26, <1>27
     DEF Next, ResolverStep, ClaimStep, RecordStep, AckStep, Calls

(* A landing added to the base is the only thing that can add to what the   *)
(* park has on it.                                                          *)
LEMMA LandingsOnBase ==
    ASSUME NEW b \in Commits, NEW x \in Steps
    PROVE  {i \in 1..Len(Append(b, x)) : Append(b, x)[i] \in Landings}
             = {i \in 1..Len(b) : b[i] \in Landings}
                 \union (IF x \in Landings THEN {Len(b) + 1} ELSE {})
<1> b \in Seq(Steps \union {Root}) /\ Len(b) \in Nat
  BY DEF Commits
<1>1. Len(Append(b, x)) = Len(b) + 1
  OBVIOUS
<1>2. \A i \in 1..Len(b) : Append(b, x)[i] = b[i]
  OBVIOUS
<1>3. Append(b, x)[Len(b) + 1] = x
  OBVIOUS
<1>4. 1..(Len(b) + 1) = (1..Len(b)) \union {Len(b) + 1}
  OBVIOUS
<1> QED
  BY <1>1, <1>2, <1>3, <1>4

(* Somebody else's push adds none; the base never becomes what it was.      *)
LEMMA BaseMoves ==
    ASSUME ParkAssumption, IInv, PInv, Next
    PROVE  /\ base # << >> => base' # << >> /\ (base # <<Root>> => base' # <<Root>>)
           /\ ParkLandings' = ParkLandings \/ \E c \in Calls : Swap(c) /\ base' # base
<1>1. CASE UNCHANGED base
  BY <1>1 DEF ParkLandings
<1>2. ASSUME NEW x \in Steps, base' = Append(base, x)
      PROVE  base # << >> => base' # << >> /\ base' # <<Root>>
  <2>1. base \in Seq(Steps \union {Root}) /\ x \in Steps \union {Root}
    BY DEF IInv, TypeOK, Commits
  <2>2. Len(base') = Len(base) + 1 /\ Len(base) \in Nat
    BY <1>2, <2>1
  <2>3. base # << >> => Len(base) # 0
    BY <2>1
  <2>4. Len(<<Root>>) = 1 /\ Len(<< >>) = 0
    OBVIOUS
  <2> QED
    BY <2>2, <2>3, <2>4
<1>3. CASE ForeignLand
  <2>1. Foreign \in Steps /\ Foreign \notin Landings /\ base' = Append(base, Foreign)
    BY <1>3 DEF ForeignLand, Steps, ParkAssumption
  <2>2. ParkLandings' = ParkLandings
    BY <2>1, LandingsOnBase DEF ParkLandings, IInv, TypeOK
  <2> QED
    BY <1>2, <2>1, <2>2
<1>4. ASSUME NEW c \in Calls, Swap(c), base' # base
      PROVE  base # << >> => base' # << >> /\ base' # <<Root>>
  BY <1>2, <1>4, SwapLandsGreenChild DEF ChildOf
<1> QED
  BY <1>1, <1>3, <1>4, BaseFrame

(* A resolution is written once, from the open record.                      *)
LEMMA IntentsStep ==
    ASSUME ParkAssumption, IInv, PInv, Undisturbed, Next
    PROVE  Intents'
<1> USE DEF PInv, IInv
<1>0. /\ ~park'.resolved => ~park.resolved
      /\ park.resolved => park' = park
  BY ResolvedStays
<1>1. ASSUME NEW c \in Calls, Start(c) PROVE Intents'
  BY <1>0, <1>1 DEF Start, TypeOK, Intents, Goto, Leave, AfterSweep, Retry, files,
                    ParkLandings
<1>2. ASSUME NEW c \in Calls, LookAgain(c) PROVE Intents'
  BY <1>0, <1>2 DEF LookAgain, TypeOK, Intents, Goto, files, locals, ParkLandings
<1>3. ASSUME NEW c \in Calls, Create(c) PROVE Intents'
  BY <1>0, <1>3 DEF Create, TypeOK, Intents, Goto, files, locals, ParkLandings
<1>4. ASSUME NEW c \in Calls, Confirm(c) PROVE Intents'
  BY <1>0, <1>4 DEF Confirm, TypeOK, Intents, Goto, Leave, AfterSweep, Retry, files,
                    ParkLandings
<1>5. ASSUME NEW c \in Calls, Exists(c) PROVE Intents'
  BY <1>0, <1>5 DEF Exists, TypeOK, Intents, Goto, files, locals, ParkLandings
<1>6. ASSUME NEW c \in Calls, Vestige(c) PROVE Intents'
  BY <1>0, <1>6 DEF Vestige, TypeOK, Intents, Goto, Leave, AfterSweep, Retry, files,
                    ParkLandings
<1>7. ASSUME NEW c \in Calls, Stat(c) PROVE Intents'
  BY <1>0, <1>7 DEF Stat, TypeOK, Intents, Goto, Leave, AfterSweep, Retry, files,
                    ParkLandings
<1>8. ASSUME NEW c \in Calls, Steal(c) PROVE Intents'
  BY <1>0, <1>8 DEF Steal, TypeOK, Intents, Goto, Leave, AfterSweep, Retry, files,
                    ParkLandings
<1>9. ASSUME NEW c \in Calls, Unclaim(c) PROVE Intents'
  BY <1>0, <1>9 DEF Unclaim, TypeOK, Intents, Goto, Leave, AfterSweep, Retry, files,
                    ParkLandings
<1>10. ASSUME NEW c \in Calls, Recheck(c) PROVE Intents'
  BY <1>0, <1>10 DEF Recheck, AfterRecheck, Resolvable, TypeOK, Intents, Goto, files,
                     locals, ParkLandings
<1>11. ASSUME NEW c \in Calls, Compare(c) PROVE Intents'
  BY <1>0, <1>11 DEF Compare, TypeOK, Intents, Goto, files, locals, ParkLandings
<1>12. ASSUME NEW c \in Calls, Write(c) PROVE Intents'
  <2>1. ~park.resolved /\ park = mine[c]
    BY <1>12 DEF Write, Intents
  <2>2. \A d \in Calls : d # c => pc[d] \notin Held
    BY <1>12, <2>1 DEF Write, OneHolder, Held
  <2>3. ParkLandings = {} /\ ParkLandings' = ParkLandings
    BY <1>12, <2>1 DEF Write, Outcome, ParkLandings
  <2>4. \A d \in Calls : d # c => pc[d] \notin {"swap", "note", "unpin", "refuse"}
    BY <2>1 DEF Intents
  <2>5. resolution(c).landedSHA # NoCommit => resolution(c).resolved
    BY <1>12, ResolutionGood DEF GoodRecord, Write
  <2>6. /\ park' = mine'[c]
        /\ pc'[c] = IF resolution(c).landedSHA # NoCommit THEN "swap" ELSE "phase"
        /\ \A d \in Calls : d # c => pc'[d] = pc[d]
        /\ mine'[c] = resolution(c)
    BY <1>12 DEF Write, Goto, TypeOK
  <2> QED
    BY <2>2, <2>3, <2>4, <2>5, <2>6 DEF Intents, Held
<1>13. ASSUME NEW c \in Calls, Phase(c) PROVE Intents'
  <2>1. mine[c].landedSHA # NoCommit => mine[c].resolved
    BY DEF GoodRecords, GoodRecord
  <2>2. pc'[c] \in {"note", "unpin"} => park.resolved
    BY <1>13, <2>1 DEF Phase, Intents, Goto, TypeOK
  <2> QED
    BY <1>0, <1>13, <2>2 DEF Phase, TypeOK, Intents, Goto, locals, ParkLandings
<1>14. ASSUME NEW c \in Calls, Note(c) PROVE Intents'
  BY <1>0, <1>14 DEF Note, TypeOK, Intents, Goto, files, locals, ParkLandings
<1>15. ASSUME NEW c \in Calls, Unpin(c) PROVE Intents'
  BY <1>0, <1>15 DEF Unpin, TypeOK, Intents, Goto, files, locals, ParkLandings
<1>16. ASSUME NEW c \in Calls, Lock(c) PROVE Intents'
  BY <1>0, <1>16 DEF Lock, TypeOK, Intents, Goto, files, locals, ParkLandings
<1>17. ASSUME NEW c \in Calls, Look(c) PROVE Intents'
  BY <1>0, <1>17 DEF Look, TypeOK, Intents, Goto, files, locals, ParkLandings
<1>18. ASSUME NEW c \in Calls, Verify(c) PROVE Intents'
  BY <1>0, <1>18 DEF Verify, TypeOK, Intents, Goto, files, locals, ParkLandings
<1>19. ASSUME NEW c \in Calls, Pin(c) PROVE Intents'
  BY <1>0, <1>19 DEF Pin, TypeOK, Intents, Goto, files, locals, ParkLandings
<1>20. ASSUME NEW c \in Calls, Swap(c) PROVE Intents'
  <2>1. /\ UNCHANGED <<park, mine>>
        /\ pc'[c] \in {"phase", "refuse"}
        /\ \A d \in Calls : d # c => pc'[d] = pc[d] /\ pc[d] # "swap"
        /\ park.resolved /\ park = mine[c]
    BY <1>20 DEF Swap, Goto, Intents, TypeOK, locals
  <2> QED
    BY <2>1 DEF Intents
<1>21. ASSUME NEW c \in Calls, Refuse(c) PROVE Intents'
  <2>1. /\ UNCHANGED <<park, base>>
        /\ pc'[c] \in {"rewind", "unclaim"}
        /\ \A d \in Calls : d # c => pc'[d] = pc[d] /\ mine'[d] = mine[d]
    BY <1>21 DEF Refuse, Goto, TypeOK, files
  <2>2. ParkLandings' = ParkLandings
    BY <2>1 DEF ParkLandings
  <2> QED
    BY <2>1, <2>2 DEF Intents
<1>22. ASSUME NEW c \in Calls, Rewind(c) PROVE Intents'
  BY <1>22 DEF Rewind, Undisturbed
<1>23. ASSUME NEW c \in Collectors, Plan(c) PROVE Intents'
  BY <1>0, <1>23 DEF Plan, TypeOK, Intents, Goto, Calls, files, locals, ParkLandings
<1>24. ASSUME NEW c \in Collectors, applyGC(c) PROVE Intents'
  BY <1>0, <1>24 DEF applyGC, TypeOK, Intents, Goto, Calls, files, locals, ParkLandings
<1>25. ASSUME NEW c \in Calls, Fail(c) PROVE Intents'
  BY <1>0, <1>25 DEF Fail, TypeOK, Intents, Goto, files, locals, ParkLandings
<1>26. ASSUME NEW c \in Calls, Crash(c) PROVE Intents'
  BY <1>0, <1>26 DEF Crash, TypeOK, Intents, Goto, files, locals, ParkLandings
<1>27. CASE Age \/ Expire \/ ForeignLand
  <2>1. ParkLandings' = ParkLandings
    <3>1. CASE ForeignLand
      <4>1. \A c \in Calls : ~(Swap(c) /\ base' # base)
        BY <3>1 DEF ForeignLand, Swap, Goto, TypeOK
      <4> QED
        BY <4>1, BaseMoves
    <3> QED
      BY <1>27, <3>1 DEF Age, Expire, ParkLandings, files
  <2> QED
    BY <1>27, <2>1 DEF Age, Expire, ForeignLand, Intents, files, locals
<1> QED
  BY <1>1, <1>2, <1>3, <1>4, <1>5, <1>6, <1>7, <1>8, <1>9, <1>10, <1>11, <1>12, <1>13,
     <1>14, <1>15, <1>16, <1>17, <1>18, <1>19, <1>20, <1>21, <1>22, <1>23, <1>24,
     <1>25, <1>26, <1>27
     DEF Next, ResolverStep, ClaimStep, RecordStep, AckStep, Calls

(* Only these actions write the phase marker, the keep-alive ref, the       *)
(* branches, a collection's plan, or send an ack off to re-verify.          *)
LEMMA StatusFrame == ASSUME Next PROVE status' = status \/ \E c \in Calls : Phase(c)
<1>1. ASSUME NEW c \in Calls, Start(c) \/ ClaimStep(c)
      PROVE  status' = status
  BY <1>1 DEF ClaimStep, Start, Create, Confirm, Exists, Vestige, Stat, Steal,
              Unclaim, files, locals
<1>2. ASSUME NEW c \in Calls, Recheck(c) \/ Compare(c) \/ Write(c) \/ Note(c) \/ Unpin(c)
      PROVE  status' = status
  BY <1>2 DEF Recheck, Compare, Write, Note, Unpin, files, locals
<1>3. ASSUME NEW c \in Calls,
             \/ Lock(c) \/ Look(c) \/ Verify(c) \/ Pin(c)
             \/ Swap(c) \/ Refuse(c) \/ Rewind(c)
      PROVE  status' = status
  BY <1>3 DEF Lock, Look, Verify, Pin, Swap, Refuse, Rewind, files, locals
<1>4. ASSUME NEW c \in Calls, LookAgain(c) \/ Fail(c) \/ Crash(c)
      PROVE  status' = status
  BY <1>4 DEF LookAgain, Fail, Crash, files, locals
<1>5. ASSUME NEW c \in Collectors, Plan(c) \/ applyGC(c) PROVE status' = status
  BY <1>5 DEF Plan, applyGC, files, locals
<1>6. CASE Age \/ Expire \/ ForeignLand
  BY <1>6 DEF Age, Expire, ForeignLand, files, locals
<1> QED
  BY <1>1, <1>2, <1>3, <1>4, <1>5, <1>6
     DEF Next, ResolverStep, ClaimStep, RecordStep, AckStep, Calls

(* The keep-alive ref moves when an ack pins, a resolver unpins or gc       *)
(* applies.                                                                 *)
LEMMA KeepFrame ==
    ASSUME Next
    PROVE  \/ keep' = keep
           \/ \E c \in Calls : Unpin(c) \/ Pin(c)
           \/ \E c \in Collectors : applyGC(c)
<1>1. ASSUME NEW c \in Calls, Start(c) \/ ClaimStep(c)
      PROVE  keep' = keep
  BY <1>1 DEF ClaimStep, Start, Create, Confirm, Exists, Vestige, Stat, Steal,
              Unclaim, files, locals
<1>2. ASSUME NEW c \in Calls, Recheck(c) \/ Compare(c) \/ Write(c) \/ Phase(c) \/ Note(c)
      PROVE  keep' = keep
  BY <1>2 DEF Recheck, Compare, Write, Phase, Note, files, locals
<1>3. ASSUME NEW c \in Calls,
             \/ Lock(c) \/ Look(c) \/ Verify(c)
             \/ Swap(c) \/ Refuse(c) \/ Rewind(c)
      PROVE  keep' = keep
  BY <1>3 DEF Lock, Look, Verify, Swap, Refuse, Rewind, files, locals
<1>4. ASSUME NEW c \in Calls, LookAgain(c) \/ Fail(c) \/ Crash(c)
      PROVE  keep' = keep
  BY <1>4 DEF LookAgain, Fail, Crash, files, locals
<1>5. ASSUME NEW c \in Collectors, Plan(c) PROVE keep' = keep
  BY <1>5 DEF Plan, files, locals
<1>6. CASE Age \/ Expire \/ ForeignLand
  BY <1>6 DEF Age, Expire, ForeignLand, files, locals
<1> QED
  BY <1>1, <1>2, <1>3, <1>4, <1>5, <1>6
     DEF Next, ResolverStep, ClaimStep, RecordStep, AckStep, Calls

(* A plan is made by Plan; the branches go when one is carried out.         *)
LEMMA GcFrame ==
    ASSUME Next
    PROVE  /\ doomed' = doomed \/ \E c \in Collectors : Plan(c)
           /\ branches' = branches \/ \E c \in Collectors : applyGC(c)
<1>1. doomed' = doomed \/ \E c \in Collectors : Plan(c)
  <2>1. ASSUME NEW c \in Calls, Start(c) \/ ClaimStep(c)
        PROVE  doomed' = doomed
    BY <2>1 DEF ClaimStep, Start, Create, Confirm, Exists, Vestige, Stat, Steal,
                Unclaim, files, locals
  <2>2. ASSUME NEW c \in Calls, RecordStep(c)
        PROVE  doomed' = doomed
    BY <2>2 DEF RecordStep, Recheck, Compare, Write, Phase, Note, Unpin, files, locals
  <2>3. ASSUME NEW c \in Calls,
               \/ Lock(c) \/ Look(c) \/ Verify(c) \/ Pin(c)
               \/ Swap(c) \/ Refuse(c) \/ Rewind(c)
        PROVE  doomed' = doomed
    BY <2>3 DEF Lock, Look, Verify, Pin, Swap, Refuse, Rewind, files, locals
  <2>4. ASSUME NEW c \in Calls, LookAgain(c) \/ Fail(c) \/ Crash(c)
        PROVE  doomed' = doomed
    BY <2>4 DEF LookAgain, Fail, Crash, files, locals
  <2>5. ASSUME NEW c \in Collectors, applyGC(c) PROVE doomed' = doomed
    BY <2>5 DEF applyGC, files, locals
  <2>6. CASE Age \/ Expire \/ ForeignLand
    BY <2>6 DEF Age, Expire, ForeignLand, files, locals
  <2> QED
    BY <2>1, <2>2, <2>3, <2>4, <2>5, <2>6
       DEF Next, ResolverStep, ClaimStep, RecordStep, AckStep, Calls
<1>2. branches' = branches \/ \E c \in Collectors : applyGC(c)
  <2>1. ASSUME NEW c \in Calls, Start(c) \/ ClaimStep(c)
        PROVE  branches' = branches
    BY <2>1 DEF ClaimStep, Start, Create, Confirm, Exists, Vestige, Stat, Steal,
                Unclaim, files, locals
  <2>2. ASSUME NEW c \in Calls, RecordStep(c)
        PROVE  branches' = branches
    BY <2>2 DEF RecordStep, Recheck, Compare, Write, Phase, Note, Unpin, files, locals
  <2>3. ASSUME NEW c \in Calls,
               \/ Lock(c) \/ Look(c) \/ Verify(c) \/ Pin(c)
               \/ Swap(c) \/ Refuse(c) \/ Rewind(c)
        PROVE  branches' = branches
    BY <2>3 DEF Lock, Look, Verify, Pin, Swap, Refuse, Rewind, files, locals
  <2>4. ASSUME NEW c \in Calls, LookAgain(c) \/ Fail(c) \/ Crash(c)
        PROVE  branches' = branches
    BY <2>4 DEF LookAgain, Fail, Crash, files, locals
  <2>5. ASSUME NEW c \in Collectors, Plan(c) PROVE branches' = branches
    BY <2>5 DEF Plan, files, locals
  <2>6. CASE Age \/ Expire \/ ForeignLand
    BY <2>6 DEF Age, Expire, ForeignLand, files, locals
  <2> QED
    BY <2>1, <2>2, <2>3, <2>4, <2>5, <2>6
       DEF Next, ResolverStep, ClaimStep, RecordStep, AckStep, Calls
<1> QED
  BY <1>1, <1>2

(* An ack goes off to re-verify only by what it saw in Look.                *)
LEMMA ReverifyFrame ==
    ASSUME TypeOK, Next, NEW c \in Calls, at'[c] = "reverify"
    PROVE  at[c] = "reverify" \/ Look(c)
<1>1. ASSUME NEW d \in Calls, Start(d) \/ ClaimStep(d)
      PROVE  at'[c] # "reverify" \/ at[c] = "reverify"
  BY <1>1 DEF ClaimStep, Start, Create, Confirm, Exists, Vestige, Stat, Steal,
              Unclaim, Goto, Leave, AfterSweep, Section, Retry, TypeOK, files, locals
<1>2. ASSUME NEW d \in Calls, RecordStep(d)
      PROVE  at'[c] # "reverify" \/ at[c] = "reverify"
  BY <1>2 DEF RecordStep, Recheck, Compare, Write, Phase, Note, Unpin, Goto, Leave,
              AfterSweep, Section, Retry, TypeOK, files, locals
<1>3. ASSUME NEW d \in Calls,
             \/ Lock(d) \/ Verify(d) \/ Pin(d)
             \/ Swap(d) \/ Refuse(d) \/ Rewind(d)
      PROVE  at'[c] # "reverify" \/ at[c] = "reverify"
  BY <1>3 DEF Lock, Verify, Pin, Swap, Refuse, Rewind, Goto, Leave, AfterSweep,
              Section, Retry, TypeOK, files, locals
<1>4. ASSUME NEW d \in Calls, LookAgain(d) \/ Fail(d) \/ Crash(d)
      PROVE  at'[c] # "reverify" \/ at[c] = "reverify"
  BY <1>4 DEF LookAgain, Fail, Crash, Goto, Leave, AfterSweep, Section, Retry, TypeOK,
              files, locals
<1>5. ASSUME NEW d \in Collectors, Plan(d) \/ applyGC(d)
      PROVE  at'[c] # "reverify" \/ at[c] = "reverify"
  BY <1>5 DEF Plan, applyGC, Goto, Leave, AfterSweep, Section, Retry, TypeOK, files,
              locals
<1>6. CASE Age \/ Expire \/ ForeignLand
  BY <1>6 DEF Age, Expire, ForeignLand, Goto, Leave, AfterSweep, Section, Retry,
              TypeOK, files, locals
<1>7. ASSUME NEW d \in Calls, d # c, Look(d)
      PROVE  at'[c] # "reverify" \/ at[c] = "reverify"
  BY <1>7 DEF Look, Section, TypeOK
<1> QED
  BY <1>1, <1>2, <1>3, <1>4, <1>5, <1>6, <1>7
     DEF Next, ResolverStep, ClaimStep, RecordStep, AckStep, Calls

(* The base and the phase marker keep telling the truth about the record.   *)
LEMMA OutcomeStep ==
    ASSUME ParkAssumption, IInv, PInv, Undisturbed, Next
    PROVE  Outcome'
<1>0. park.resolved => park' = park
  BY ResolvedStays
<1>1. base' # << >>
  BY BaseMoves DEF PInv, Outcome
<1>2. /\ ParkLandings' # {} => park'.resolved /\ park'.landedSHA # NoCommit
      /\ \A i, j \in ParkLandings' : i = j
  <2>1. CASE ParkLandings' = ParkLandings
    BY <1>0, <2>1 DEF PInv, Outcome
  <2>2. ASSUME NEW c \in Calls, Swap(c), base' # base
        PROVE  /\ ParkLandings' # {} => park'.resolved /\ park'.landedSHA # NoCommit
               /\ \A i, j \in ParkLandings' : i = j
    <3>1. park' = park /\ park.resolved /\ park.landedSHA # NoCommit /\ ParkLandings = {}
      BY <2>2 DEF Swap, PInv, Intents, IInv, Copies
    <3>2. PICK x \in Steps : base' = Append(base, x)
      BY <2>2, SwapLandsGreenChild DEF ChildOf
    <3>3. ParkLandings' \subseteq {Len(base) + 1}
      BY <3>1, <3>2, LandingsOnBase DEF ParkLandings, IInv, TypeOK
    <3> QED
      BY <3>1, <3>3
  <2> QED
    BY <2>1, <2>2, BaseMoves
<1>3. ASSUME status' = "rejected" PROVE park'.resolved /\ park'.landedSHA = NoCommit
  <2>1. CASE status' = status
    BY <1>0, <1>3, <2>1 DEF PInv, Outcome
  <2>2. ASSUME NEW c \in Calls, Phase(c)
        PROVE  park'.resolved /\ park'.landedSHA = NoCommit
    BY <1>3, <2>2 DEF Phase, PInv, Intents
  <2> QED
    BY <2>1, <2>2, StatusFrame
<1> QED
  BY <1>1, <1>2, <1>3 DEF Outcome

(* Nobody is about to take what an open park needs, nor moves its base.     *)
LEMMA OpenParkStep ==
    ASSUME ParkAssumption, IInv, PInv, Undisturbed, Next
    PROVE  OpenPark'
<1> USE DEF PInv, IInv
<1>0. /\ ~park'.resolved => ~park.resolved
      /\ park.resolved => park' = park
      /\ ~park.resolved => park' = park \/ \E c \in Calls : Write(c)
  BY ResolvedStays
<1>1. ASSUME NEW c \in Collectors, doomed'[c] # {} PROVE park'.resolved
  <2>1. doomed' = doomed \/ \E d \in Collectors : Plan(d)
    BY GcFrame
  <2>2. ASSUME NEW d \in Collectors, Plan(d) PROVE park'.resolved
    <3>1. CASE d = c
      BY <1>1, <2>2, <3>1 DEF Plan, gcPlanFor, TypeOK, files
    <3>2. CASE d # c
      BY <1>0, <1>1, <2>2, <3>2 DEF Plan, OpenPark, TypeOK
    <3> QED
      BY <3>1, <3>2
  <2> QED
    BY <1>0, <1>1, <2>1, <2>2 DEF OpenPark
<1>2. ASSUME ~park'.resolved
      PROVE  /\ branches'
             /\ park'.baseSHA = <<Root>>
             /\ base' = <<Root>> => keep' = park'.verifiedSHA
             /\ \A c \in Calls : at'[c] = "reverify" => base' # <<Root>>
  <2>0. ~park.resolved
    BY <1>0, <1>2
  <2>1. base # << >> /\ (base' = <<Root>> => base = <<Root>>)
    BY BaseMoves DEF Outcome
  <2>2. branches'
    <3>1. \A d \in Collectors : doomed[d] = {}
      BY <2>0 DEF OpenPark, TypeOK
    <3>2. \A d \in Collectors : applyGC(d) => branches'
      BY <2>0, <3>1 DEF applyGC, OpenPark
    <3> QED
      BY <2>0, <3>2, GcFrame DEF OpenPark
  <2>3. park'.baseSHA = park.baseSHA /\ park'.verifiedSHA = park.verifiedSHA
    <3>1. ASSUME NEW c \in Calls, Write(c)
          PROVE  park'.baseSHA = park.baseSHA /\ park'.verifiedSHA = park.verifiedSHA
      <4>1. park = mine[c] /\ park' = resolution(c) /\ mine[c] \in Records
        BY <3>1 DEF Write, Intents, TypeOK
      <4>2. at[c] \in {"sweep", "reject", "direct", "reverify"}
        BY DEF TypeOK
      <4> QED
        BY <1>2, <4>1, <4>2 DEF resolution, Records
    <3> QED
      BY <1>0, <2>0, <3>1
  <2>4. base' = <<Root>> => keep' = keep
    <3>1. ASSUME NEW c \in Calls, Unpin(c) PROVE FALSE
      BY <2>0, <3>1 DEF Unpin, Intents
    <3>2. ASSUME NEW c \in Calls, Pin(c) PROVE base' # <<Root>>
      BY <2>0, <2>1, <3>2 DEF Pin, Roles, OpenPark
    <3>3. ASSUME NEW c \in Collectors, applyGC(c) PROVE keep' = keep
      BY <2>0, <3>3 DEF applyGC, OpenPark
    <3> QED
      BY <3>1, <3>2, <3>3, KeepFrame
  <2>5. ASSUME NEW c \in Calls, at'[c] = "reverify" PROVE base' # <<Root>>
    <3>1. CASE at[c] = "reverify"
      BY <2>0, <2>1, <3>1 DEF OpenPark
    <3>2. CASE Look(c)
      <4>1. base' = base /\ at \in [Calls -> {"sweep", "reject", "direct", "reverify"}]
        BY <1>2, <3>2 DEF Look, TypeOK
      <4>2. CASE at' = at
        BY <2>0, <2>1, <2>5, <4>1, <4>2 DEF OpenPark
      <4>3. CASE at' # at
        <5>1. /\ diskRunStatus = "awaiting-ack"
              /\ \/ base = park.baseSHA /\ at' = [at EXCEPT ![c] = "direct"]
                 \/ base # park.baseSHA
          BY <3>2, <4>3 DEF Look, Section
        <5>2. base # park.baseSHA
          BY <2>5, <4>1, <5>1
        <5> QED
          BY <1>2, <2>0, <2>1, <2>5, <4>1, <5>1, <5>2 DEF OpenPark
      <4> QED
        BY <4>2, <4>3
    <3>3. at[c] = "reverify" \/ Look(c)
      BY <2>5, ReverifyFrame
    <3> QED
      BY <3>1, <3>2, <3>3
  <2> QED
    BY <2>0, <2>1, <2>2, <2>3, <2>4, <2>5 DEF OpenPark
<1> QED
  BY <1>1, <1>2 DEF OpenPark

(* The undisturbed protocol keeps to the invariant.                         *)
LEMMA PInvInit == ParkAssumption /\ Init => PInv
<1> SUFFICES ASSUME ParkAssumption, Init PROVE PInv
  OBVIOUS
<1>1. \A c \in Calls : pc[c] \in {"idle", "absent"} /\ at[c] = "sweep"
  BY DEF Init
<1>2. /\ park = parkRecord(<<Root>>) /\ base = <<Root>> /\ keep = park.verifiedSHA
      /\ branches /\ status \in {"awaiting-ack", "running"}
      /\ doomed = [c \in Collectors |-> {}]
  BY DEF Init
<1>3. ~park.resolved /\ park.baseSHA = <<Root>>
  BY <1>2 DEF parkRecord
<1>4. ParkLandings = {}
  BY <1>2 DEF ParkLandings, ParkAssumption
<1>5. OneHolder
  BY <1>1, <1>3 DEF OneHolder, Held
<1>6. Intents
  BY <1>1 DEF Intents
<1>7. Outcome
  BY <1>2, <1>4 DEF Outcome
<1>8. OpenPark
  BY <1>1, <1>2, <1>3 DEF OpenPark
<1> QED
  BY <1>5, <1>6, <1>7, <1>8 DEF PInv

(* Every step of the protocol, stutters included, keeps it.                 *)
LEMMA PInvStep ==
    ASSUME ParkAssumption, IInv, PInv, Undisturbed, [Next]_vars
    PROVE  PInv'
<1>1. CASE Next
  BY <1>1, OneHolderStep, IntentsStep, OutcomeStep, OpenParkStep DEF PInv
<1>2. CASE UNCHANGED vars
  BY <1>2 DEF PInv, OneHolder, Intents, Outcome, OpenPark, ParkLandings, vars
<1> QED
  BY <1>1, <1>2

(* Every state reached undisturbed is one the invariant describes.          *)
LEMMA UndisturbedInvariance == Spec /\ []Undisturbed => []PInv
<1>1. Init => PInv
  BY PInvInit, ParkAssumption
<1>2. IInv /\ PInv /\ Undisturbed /\ [Next]_vars => PInv'
  BY PInvStep, ParkAssumption
<1> QED
  BY <1>1, <1>2, Invariance, PTL DEF Spec

(* However many acks, rejects, sweeps and collections run, and wherever any *)
(* of them is killed or fails: as long as no claim goes stale and no lost   *)
(* swap is taken back, the parked change reaches the base at most once.     *)
THEOREM LandsOnce == Spec /\ []Undisturbed => []LandsAtMostOnce
<1>1. IInv /\ PInv => LandsAtMostOnce
  <2> SUFFICES ASSUME IInv, PInv PROVE LandsAtMostOnce
    OBVIOUS
  <2>1. CASE ParkLandings = {}
    BY <2>1, FS_EmptySet DEF LandsAtMostOnce
  <2>2. ASSUME NEW i \in ParkLandings PROVE LandsAtMostOnce
    <3>1. ParkLandings = {i}
      BY <2>2 DEF PInv, Outcome
    <3> QED
      BY <3>1, FS_Singleton DEF LandsAtMostOnce
  <2> QED
    BY <2>1, <2>2
<1> QED
  BY <1>1, Invariance, UndisturbedInvariance, PTL

(* Under the same condition a caller told "rejected" was told the truth:    *)
(* nothing of the park is on the base, then or later.                       *)
THEOREM RejectionIsFinal == Spec /\ []Undisturbed => []RejectedNeverLands
<1>1. PInv => RejectedNeverLands
  BY DEF PInv, Outcome, RejectedNeverLands
<1> QED
  BY <1>1, UndisturbedInvariance, PTL

(* Under the same condition gc, with or without -force, and every resolver  *)
(* leave an open park what an ack needs: its branches, whatever the base    *)
(* (park.go loadParkedBranches: "UNCONDITIONAL"), and the pin of the commit *)
(* it would land directly.                                                  *)
THEOREM OpenParkStays == Spec /\ []Undisturbed => [](OpenParkIsKept /\ ParkedBranchesKept)
<1>1. PInv => OpenParkIsKept /\ ParkedBranchesKept
  BY DEF PInv, OpenPark, OpenParkIsKept, ParkedBranchesKept
<1> QED
  BY <1>1, UndisturbedInvariance, PTL
=============================================================================
