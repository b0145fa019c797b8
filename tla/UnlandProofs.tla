---------------------------- MODULE UnlandProofs ----------------------------
(***************************************************************************)
(* What `sig unland' guarantees for any number of unlands, runs, acks and  *)
(* pushes, over any files, with any scan limit: it moves the base only as  *)
(* any other door does (module Landing), what its run directory says of    *)
(* the outcome is true, and what it lands takes the target back exactly,   *)
(* and once.                                                               *)
(***************************************************************************)
EXTENDS Unland, TLAPS

(* v is i's verified commit on the head b.                                  *)
Good(i, b, v, g) == v \in g /\ \E k \in {"run", "ack"} : v = Append(b, <<i, k>>)

(* A green report, and a park, are of verified commits of their own run, in  *)
(* a history that exists.                                                    *)
GoodEntry(i, e, g, D) ==
    /\ e.report.ok => /\ {e.report.base, e.report.final} \subseteq D
                      /\ \/ e.report.final = e.report.base
                         \/ Good(i, e.report.base, e.report.final, g)
    /\ e.park.verified # NoCommit => /\ e.park.verified \in D
                                     /\ Good(i, e.park.base, e.park.verified, g)
    /\ e.park.landed \in {NoCommit, e.park.verified}
    /\ e.park.open => /\ e.park.verified # NoCommit
                      /\ e.status = "awaiting-ack" /\ e.kind # "none"
    /\ e.kind # "run" /\ e.status = "running" => e.report = NoReport /\ e.park = NoPark
    /\ e.status \in {"running", "awaiting-ack"} => e.park.landed = NoCommit

GoodEntries == \A i \in Ids : GoodEntry(i, ledger[i], green, DOMAIN tree)

(* An unland at work has a run directory of its own, still running, was      *)
(* planned in a history that exists, and lands a verified commit.            *)
AtWork(u) == pc[u] \in {"fold", "land", "report"}
GoodCall(u) ==
    /\ AtWork(u) =>
         /\ id[u] \in Ids
         /\ ledger[id[u]].kind = "unland" /\ ledger[id[u]].status = "running"
         /\ {plan[u].base, plan[u].head} \subseteq DOMAIN tree
    /\ pc[u] \in {"land", "report"} =>
         /\ made[u] \in DOMAIN tree
         /\ made[u] \in green /\ made[u] = Append(plan[u].head, <<id[u], "run">>)
GoodCalls ==
    /\ \A u \in Unlanders : GoodCall(u)
    /\ \A u, v \in Unlanders : AtWork(u) /\ AtWork(v) /\ id[u] = id[v] => u = v

IInv == TypeOK /\ GoodEntries /\ GoodCalls

-----------------------------------------------------------------------------
(* Data.                                                                     *)

LEMMA Constant == /\ NoCommit \in Commits /\ NoTree \in Trees
                  /\ NoReport \in Reports /\ NoPark \in Parks
                  /\ NoEntry \in Entries /\ NoPlan \in Plans
                  /\ <<Root>> \in Commits
  <1>1. NoCommit \in Commits /\ <<Root>> \in Commits
    BY DEF NoCommit, Commits
  <1>2. NoTree \in Trees
    BY <1>1 DEF NoTree, Trees
  <1>3. NoReport \in Reports /\ NoPark \in Parks
    BY <1>1, <1>2 DEF NoReport, Reports, NoPark, Parks
  <1> QED
    BY <1>1, <1>2, <1>3 DEF NoEntry, Entries, NoPlan, Plans

(* Growing a commit by a step makes a commit, which is not the empty one.    *)
LEMMA Grown == ASSUME NEW c \in Commits, NEW x \in Steps
               PROVE  /\ Append(c, x) \in Commits
                      /\ Append(c, x) # NoCommit /\ Append(c, x) # c
                      /\ Len(Append(c, x)) = Len(c) + 1
                      /\ Append(c, x)[Len(c) + 1] = x
                      /\ \A n \in 1..Len(c) : Append(c, x)[n] = c[n]
  BY DEF Commits, NoCommit

LEMMA StepOf == ASSUME NEW i \in Ids, NEW k \in {"run", "ack"} PROVE <<i, k>> \in Steps
  BY DEF Steps, Landings

(* The trees the actions make.                                               *)
LEMMA MergeType == ASSUME NEW f, NEW o \in Trees, NEW s \in Trees PROVE Merge(f, o, s) \in Trees
  BY DEF Merge, Trees

LEMMA WriteType == ASSUME NEW t \in Trees, NEW ps, NEW c \in Commits PROVE Write(t, ps, c) \in Trees
  BY DEF Write, Trees

LEMMA WithTreeOK ==
    ASSUME TypeOK, NEW c \in Commits, NEW t \in Trees, tree' = WithTree(c, t)
    PROVE  /\ DOMAIN tree' = DOMAIN tree \union {c}
           /\ DOMAIN tree' \in SUBSET Commits
           /\ \A d \in DOMAIN tree' : tree'[d] \in Trees
  BY DEF TypeOK, WithTree

(* Entries stay good while more commits exist and more of them are green.    *)
LEMMA EntryGrows ==
    ASSUME NEW i \in Ids, NEW e, NEW g, NEW h, NEW D, NEW E, GoodEntry(i, e, g, D),
           g \subseteq h, D \subseteq E
    PROVE  GoodEntry(i, e, h, E)
  BY DEF GoodEntry, Good

LEMMA Initially == Init => IInv
  <1> SUFFICES ASSUME Init PROVE IInv
    OBVIOUS
  <1>1. TypeOK
    <2>1. tree = [c \in {<<Root>>} |-> [p \in Regions |-> <<Root>>]] /\ base = <<Root>>
      BY DEF Init
    <2> QED
      BY <2>1, Constant DEF Init, TypeOK, Trees
  <1>2. GoodEntries
    BY DEF Init, GoodEntries, GoodEntry, NoEntry, NoReport, NoPark
  <1>3. GoodCalls
    BY DEF Init, GoodCalls, GoodCall, AtWork
  <1> QED
    BY <1>1, <1>2, <1>3 DEF IInv

-----------------------------------------------------------------------------
(* What a step leaves good.                                                  *)

Grows == green \subseteq green' /\ DOMAIN tree \subseteq DOMAIN tree'

LEMMA EntryStep ==
    ASSUME IInv, Grows, NEW i \in Ids, NEW e, ledger' = [ledger EXCEPT ![i] = e],
           GoodEntry(i, e, green', DOMAIN tree')
    PROVE  GoodEntries'
  <1>1. ASSUME NEW j \in Ids PROVE GoodEntry(j, ledger'[j], green', DOMAIN tree')
    <2>1. CASE j = i
      BY <2>1 DEF IInv, TypeOK
    <2>2. CASE j # i
      BY <2>2, EntryGrows DEF IInv, TypeOK, GoodEntries, Grows
    <2> QED
      BY <2>1, <2>2
  <1> QED
    BY <1>1 DEF GoodEntries

LEMMA EntriesKept == ASSUME IInv, Grows, UNCHANGED ledger PROVE GoodEntries'
  BY EntryGrows DEF IInv, GoodEntries, Grows

LEMMA CallsKept ==
    ASSUME IInv, Grows, UNCHANGED <<pc, plan, id, made>>,
           \A u \in Unlanders : AtWork(u) =>
              /\ ledger'[id[u]].kind = ledger[id[u]].kind
              /\ ledger'[id[u]].status = ledger[id[u]].status
    PROVE  GoodCalls'
  BY DEF IInv, GoodCalls, GoodCall, AtWork, Grows

-----------------------------------------------------------------------------
(* Everybody else's steps.                                                   *)

LEMMA BeginStep == ASSUME IInv, NEW i \in Ids, Begin(i) PROVE IInv'
  <1>1. PICK clean \in SUBSET Regions, held \in SUBSET Regions, ok \in BOOLEAN :
          LET first  == IF clean = {} THEN base ELSE Append(base, <<i, "run">>)
              second == IF held = {} THEN first ELSE Append(first, <<i, "ack">>)
          IN  /\ IsNext(i)
              /\ Cardinality({j \in Used : ledger[j].kind = "run"}) < MaxRuns
              /\ Names(clean) \intersect Names(held) = {} /\ clean \union held # {}
              /\ held # {} => ok
              /\ tree' = [c \in DOMAIN tree \union {first, second} |->
                            IF c \in DOMAIN tree THEN tree[c]
                            ELSE IF c = first THEN Write(tree[base], clean, first)
                            ELSE Write(Write(tree[base], clean, first), held, second)]
              /\ green' = IF ok THEN green \union ({first, second} \ {base}) ELSE green
              /\ ledger' = [ledger EXCEPT ![i] =
                   [NoEntry EXCEPT !.kind = "run",
                      !.report = [base |-> base, final |-> first, ok |-> ok],
                      !.park = IF held = {} THEN NoPark
                               ELSE [open |-> FALSE, fork |-> base, base |-> first,
                                     verified |-> second, landed |-> NoCommit,
                                     side |-> Write(tree[base], held, second)]]]
              /\ UNCHANGED <<file, base, pc, plan, id, made>>
    BY DEF Begin
  <1> DEFINE first  == IF clean = {} THEN base ELSE Append(base, <<i, "run">>)
             second == IF held = {} THEN first ELSE Append(first, <<i, "ack">>)
             rep == [base |-> base, final |-> first, ok |-> ok]
             pk  == IF held = {} THEN NoPark
                    ELSE [open |-> FALSE, fork |-> base, base |-> first,
                          verified |-> second, landed |-> NoCommit,
                          side |-> Write(tree[base], held, second)]
             e   == [NoEntry EXCEPT !.kind = "run", !.report = rep, !.park = pk]
  <1>2. base \in Commits /\ base \in DOMAIN tree /\ tree[base] \in Trees
    BY DEF IInv, TypeOK
  <1>3. /\ first \in Commits /\ second \in Commits
        /\ clean # {} => first # base
        /\ held # {} => second # base /\ second # NoCommit
    <2>1. Append(base, <<i, "run">>) \in Commits /\ Append(base, <<i, "run">>) # base
      BY <1>2, Grown, StepOf
    <2>2. Len(Append(base, <<i, "run">>)) = Len(base) + 1 /\ Len(base) \in Nat
      BY <1>2, Grown, StepOf DEF Commits
    <2>3. /\ first \in Commits /\ (clean # {} => first # base)
          /\ Len(first) \in Nat /\ Len(first) >= Len(base)
      BY <1>2, <2>1, <2>2
    <2> HIDE DEF first
    <2>4. /\ Append(first, <<i, "ack">>) \in Commits
          /\ Append(first, <<i, "ack">>) # NoCommit
          /\ Len(Append(first, <<i, "ack">>)) = Len(first) + 1
      BY <2>3, Grown, StepOf
    <2>5. Append(first, <<i, "ack">>) # base
      BY <2>2, <2>3, <2>4
    <2> QED
      BY <2>3, <2>4, <2>5
  <1>5. /\ DOMAIN tree' = DOMAIN tree \union {first, second}
        /\ \A c \in DOMAIN tree' : tree'[c] \in Trees
    <2> HIDE DEF first, second
    <2>2. Write(tree[base], clean, first) \in Trees
      BY <1>2, <1>3, WriteType
    <2>3. Write(Write(tree[base], clean, first), held, second) \in Trees
      BY <1>3, <2>2, WriteType
    <2>4. tree' = [c \in DOMAIN tree \union {first, second} |->
                            IF c \in DOMAIN tree THEN tree[c]
                            ELSE IF c = first THEN Write(tree[base], clean, first)
                            ELSE Write(Write(tree[base], clean, first), held, second)]
      BY <1>1 DEF first, second
    <2> QED
      BY <2>2, <2>3, <2>4 DEF IInv, TypeOK
  <1>6. Write(tree[base], held, second) \in Trees
    BY <1>2, <1>3, WriteType
  <1>7. pk \in Parks
    BY <1>2, <1>3, <1>6, Constant DEF Parks
  <1>8. /\ e \in Entries /\ e.kind = "run" /\ e.report = rep /\ e.park = pk
        /\ e.status = "running"
    <2> HIDE DEF first, pk
    <2> QED
      BY <1>2, <1>3, <1>7 DEF Entries, Reports, NoEntry
  <1>9. ledger' = [ledger EXCEPT ![i] = e]
    BY <1>1
  <1>10. /\ green \subseteq green' /\ green' \in SUBSET Commits
         /\ ok => {first, second} \ {base} \subseteq green'
    <2> HIDE DEF first, second
    <2>1. green' = IF ok THEN green \union ({first, second} \ {base}) ELSE green
      BY <1>1 DEF first, second
    <2> QED
      BY <1>3, <2>1 DEF IInv, TypeOK
  <1>11. TypeOK'
    <2>1. UNCHANGED <<file, base, pc, plan, id, made>>
      BY <1>1
    <2> HIDE DEF e, first, second
    <2>2. base \in DOMAIN tree' /\ DOMAIN tree' \in SUBSET Commits
      BY <1>2, <1>3, <1>5 DEF IInv, TypeOK
    <2>3. ledger' \in [Ids -> Entries]
      BY <1>8, <1>9 DEF IInv, TypeOK
    <2> QED
      BY <1>5, <1>10, <2>1, <2>2, <2>3 DEF IInv, TypeOK
  <1>12. GoodEntry(i, e, green', DOMAIN tree')
    <2>1. ok => \/ first = base
                \/ first \in green' /\ first = Append(base, <<i, "run">>)
      BY <1>3, <1>10
    <2>2. rep.ok => /\ {rep.base, rep.final} \subseteq DOMAIN tree'
                    /\ \/ rep.final = rep.base
                       \/ Good(i, rep.base, rep.final, green')
      <3> HIDE DEF first, second
      <3> QED
        BY <1>2, <1>5, <2>1 DEF Good
    <2>3. /\ pk.verified # NoCommit => /\ pk.verified \in DOMAIN tree'
                                       /\ Good(i, pk.base, pk.verified, green')
          /\ pk.landed = NoCommit /\ ~pk.open
      <3>1. CASE held = {}
        BY <3>1 DEF NoPark
      <3>2. CASE held # {}
        <4>1. second \in green' /\ second = Append(first, <<i, "ack">>)
          BY <1>1, <1>3, <1>10, <3>2
        <4> HIDE DEF first, second
        <4> QED
          BY <1>5, <3>2, <4>1 DEF Good
      <3> QED
        BY <3>1, <3>2
    <2> HIDE DEF e, rep, pk
    <2> QED
      BY <1>8, <2>2, <2>3 DEF GoodEntry
  <1>13. Grows
    BY <1>5, <1>10 DEF Grows
  <1>14. GoodEntries'
    <2> HIDE DEF e
    <2> QED
      BY <1>9, <1>12, <1>13, EntryStep
  <1>15. GoodCalls'
    <2>1. ledger[i].kind = "none"
      BY <1>1 DEF IsNext, Used
    <2>2. \A u \in Unlanders : AtWork(u) => ledger'[id[u]] = ledger[id[u]]
      BY <1>9, <2>1 DEF IInv, TypeOK, GoodCalls, GoodCall
    <2> QED
      BY <1>1, <1>13, <2>2, CallsKept
  <1> QED
    BY <1>11, <1>14, <1>15 DEF IInv

LEMMA EndStep == ASSUME IInv, NEW i \in Ids, End(i) PROVE IInv'
  <1> DEFINE e    == ledger[i]
             land == e.report.ok /\ base = e.report.base
             held == land /\ e.park.verified # NoCommit
             pk   == IF held THEN [e.park EXCEPT !.open = TRUE] ELSE NoPark
             st   == IF held THEN "awaiting-ack" ELSE "done"
             f    == [e EXCEPT !.park = pk, !.status = st]
  <1>1. e \in Entries /\ GoodEntry(i, e, green, DOMAIN tree) /\ e.kind = "run" /\ e.status = "running"
    BY DEF IInv, TypeOK, GoodEntries, End
  <1>2. ledger' = [ledger EXCEPT ![i] = f]
    <2>1. CASE held
      <3>1. ledger' = [ledger EXCEPT ![i] = [e EXCEPT !.park = [e.park EXCEPT !.open = TRUE],
                                                      !.status = "awaiting-ack"]]
        BY <2>1 DEF End
      <3> QED
        BY <2>1, <3>1
    <2>2. CASE ~held
      <3>1. ledger' = [ledger EXCEPT ![i] = [e EXCEPT !.park = NoPark, !.status = "done"]]
        BY <2>2 DEF End
      <3> QED
        BY <2>2, <3>1
    <2> QED
      BY <2>1, <2>2
  <1>3. pk \in Parks
    BY <1>1, Constant DEF Entries, Parks
  <1>4. f \in Entries /\ f.kind = "run" /\ f.report = e.report /\ f.park = pk /\ f.status = st
    <2> HIDE DEF pk
    <2> QED
      BY <1>1, <1>3 DEF Entries
  <1>5. GoodEntry(i, f, green', DOMAIN tree')
    <2>1. /\ held => /\ pk.verified = e.park.verified /\ pk.base = e.park.base
                     /\ pk.landed = e.park.landed /\ pk.open
          /\ ~held => pk = NoPark
      BY <1>1 DEF Entries, Parks
    <2>2. UNCHANGED <<green, tree>>
      BY DEF End
    <2> HIDE DEF f, pk
    <2>3. CASE held
      BY <1>1, <1>4, <2>1, <2>2, <2>3 DEF GoodEntry
    <2>4. CASE ~held
      BY <1>1, <1>4, <2>1, <2>2, <2>4 DEF GoodEntry, NoPark
    <2> QED
      BY <2>3, <2>4
  <1>6. Grows /\ UNCHANGED <<file, green, tree, pc, plan, id, made>>
    BY DEF Grows, End
  <1>7. base' \in Commits /\ base' \in DOMAIN tree'
    BY <1>1, <1>6 DEF IInv, TypeOK, End, GoodEntry, Entries, Reports
  <1>8. TypeOK'
    <2> HIDE DEF f
    <2> QED
      BY <1>2, <1>4, <1>6, <1>7 DEF IInv, TypeOK
  <1>9. GoodEntries'
    <2> HIDE DEF f
    <2> QED
      BY <1>2, <1>5, <1>6, EntryStep
  <1>10. GoodCalls'
    <2>1. \A u \in Unlanders : AtWork(u) => ledger'[id[u]] = ledger[id[u]]
      BY <1>1, <1>2 DEF IInv, TypeOK, GoodCalls, GoodCall
    <2> QED
      BY <1>6, <2>1, CallsKept
  <1> QED
    BY <1>8, <1>9, <1>10 DEF IInv

(* An open park is of a directory no unland works on any more.               *)
LEMMA OpenIsIdle ==
    ASSUME IInv, NEW i \in Ids, ledger[i].park.open
    PROVE  /\ ledger[i].status = "awaiting-ack" /\ ledger[i].park.landed = NoCommit
           /\ ledger[i].kind # "none"
           /\ ledger[i].park.verified # NoCommit
           /\ ledger[i].park.verified \in DOMAIN tree
           /\ Good(i, ledger[i].park.base, ledger[i].park.verified, green)
           /\ \A u \in Unlanders : AtWork(u) => id[u] # i
  BY DEF IInv, GoodEntries, GoodEntry, GoodCalls, GoodCall

LEMMA AckStep == ASSUME IInv, NEW i \in Ids, Ack(i) PROVE IInv'
  <1> DEFINE e  == ledger[i]
             pk == [e.park EXCEPT !.open = FALSE, !.landed = e.park.verified]
             f  == [e EXCEPT !.park = pk, !.status = "done"]
  <1>1. e \in Entries /\ GoodEntry(i, e, green, DOMAIN tree) /\ e.park.open
    BY DEF IInv, TypeOK, GoodEntries, Ack
  <1>2. ledger' = [ledger EXCEPT ![i] = f]
    <2>1. f = [e EXCEPT !.park.open = FALSE, !.park.landed = e.park.verified, !.status = "done"]
      BY <1>1 DEF Entries, Parks
    <2> QED
      BY <2>1 DEF Ack
  <1>3. /\ pk \in Parks /\ pk.open = FALSE /\ pk.landed = e.park.verified
        /\ pk.verified = e.park.verified /\ pk.base = e.park.base
    BY <1>1 DEF Entries, Parks
  <1>4. f \in Entries /\ f.kind = e.kind /\ f.report = e.report /\ f.park = pk /\ f.status = "done"
    <2> HIDE DEF pk
    <2> QED
      BY <1>1, <1>3 DEF Entries
  <1>5. Grows /\ UNCHANGED <<file, green, tree, pc, plan, id, made>>
    BY DEF Grows, Ack
  <1>6. GoodEntry(i, f, green', DOMAIN tree')
    <2> HIDE DEF f, pk
    <2> QED
      BY <1>1, <1>3, <1>4, <1>5 DEF GoodEntry
  <1>7. base' \in Commits /\ base' \in DOMAIN tree'
    BY <1>1, <1>5, OpenIsIdle DEF IInv, TypeOK, Ack
  <1>8. TypeOK'
    <2> HIDE DEF f
    <2> QED
      BY <1>2, <1>4, <1>5, <1>7 DEF IInv, TypeOK
  <1>9. GoodEntries'
    <2> HIDE DEF f
    <2> QED
      BY <1>2, <1>5, <1>6, EntryStep
  <1>10. GoodCalls'
    <2>1. \A u \in Unlanders : AtWork(u) => ledger'[id[u]] = ledger[id[u]]
      BY <1>1, <1>2, OpenIsIdle DEF IInv, TypeOK, GoodCalls, GoodCall
    <2> QED
      BY <1>5, <2>1, CallsKept
  <1> QED
    BY <1>8, <1>9, <1>10 DEF IInv

LEMMA ReverifyStep == ASSUME IInv, NEW i \in Ids, Reverify(i) PROVE IInv'
  <1> DEFINE e    == ledger[i]
             next == Append(base, <<i, "ack">>)
             pk   == [e.park EXCEPT !.base = base, !.verified = next]
             f    == [e EXCEPT !.park = pk]
             clash == Conflicts(tree[e.park.fork], tree[base], e.park.side)
             t    == [p \in Regions |-> IF p \in clash THEN next
                                      ELSE Merge(tree[e.park.fork], tree[base], e.park.side)[p]]
  <1>1. e \in Entries /\ GoodEntry(i, e, green, DOMAIN tree) /\ e.park.open
    BY DEF IInv, TypeOK, GoodEntries, Reverify
  <1>2. ledger' = [ledger EXCEPT ![i] = f]
    <2>1. f = [e EXCEPT !.park.base = base, !.park.verified = next]
      BY <1>1 DEF Entries, Parks
    <2> HIDE DEF next
    <2>2. ledger' = [ledger EXCEPT ![i].park.base = base, ![i].park.verified = next]
      BY DEF Reverify, next
    <2> QED
      BY <2>1, <2>2 DEF IInv, TypeOK
  <1>3. base \in Commits /\ tree[base] \in Trees
    BY DEF IInv, TypeOK
  <1>4. next \in Commits /\ next # NoCommit
    BY <1>3, Grown, StepOf
  <1>5. t \in Trees
    <2>1. Merge(tree[e.park.fork], tree[base], e.park.side) \in Trees
      BY <1>1, <1>3, MergeType DEF Entries, Parks
    <2> HIDE DEF clash, next
    <2> QED
      BY <1>4, <2>1 DEF Trees
  <1>6. tree' = WithTree(next, t) /\ green' = green \union {next} /\ UNCHANGED <<file, base, pc, plan, id, made>>
    BY DEF Reverify
  <1>7. /\ DOMAIN tree' = DOMAIN tree \union {next} /\ DOMAIN tree' \in SUBSET Commits
        /\ \A d \in DOMAIN tree' : tree'[d] \in Trees
    <2> HIDE DEF t, next
    <2> QED
      BY <1>4, <1>5, <1>6, WithTreeOK DEF IInv
  <1>8. /\ pk \in Parks /\ pk.open = e.park.open /\ pk.landed = e.park.landed
        /\ pk.verified = next /\ pk.base = base
    <2> HIDE DEF next
    <2> QED
      BY <1>1, <1>3, <1>4 DEF Entries, Parks
  <1>9. f \in Entries /\ f.kind = e.kind /\ f.report = e.report /\ f.park = pk /\ f.status = e.status
    <2> HIDE DEF pk
    <2> QED
      BY <1>1, <1>8 DEF Entries
  <1>10. Grows
    BY <1>6, <1>7 DEF Grows
  <1>11. GoodEntry(i, f, green', DOMAIN tree')
    <2>1. Good(i, base, next, green')
      BY <1>6 DEF Good
    <2>2. GoodEntry(i, e, green', DOMAIN tree')
      BY <1>1, <1>10, EntryGrows DEF Grows
    <2>3. e.status = "awaiting-ack" /\ e.park.landed = NoCommit
      BY <1>1, OpenIsIdle
    <2> HIDE DEF f, pk, next
    <2> QED
      BY <1>1, <1>4, <1>7, <1>8, <1>9, <2>1, <2>2, <2>3 DEF GoodEntry
  <1>12. TypeOK'
    <2> HIDE DEF f, next
    <2>1. green' \in SUBSET Commits /\ base' \in Commits /\ base' \in DOMAIN tree'
      BY <1>4, <1>6, <1>7 DEF IInv, TypeOK
    <2>2. ledger' \in [Ids -> Entries]
      BY <1>2, <1>9 DEF IInv, TypeOK
    <2> QED
      BY <1>6, <1>7, <2>1, <2>2 DEF IInv, TypeOK
  <1>13. GoodEntries'
    <2> HIDE DEF f
    <2> QED
      BY <1>2, <1>10, <1>11, EntryStep
  <1>14. GoodCalls'
    <2>1. \A u \in Unlanders : AtWork(u) => ledger'[id[u]] = ledger[id[u]]
      BY <1>1, <1>2, OpenIsIdle DEF IInv, TypeOK, GoodCalls, GoodCall
    <2> QED
      BY <1>6, <1>10, <2>1, CallsKept
  <1> QED
    BY <1>12, <1>13, <1>14 DEF IInv

LEMMA ForeignStep == ASSUME IInv, ForeignLand PROVE IInv'
  <1>1. PICK p \in Regions : /\ base' = Append(base, Foreign)
                           /\ tree' = WithTree(base', [tree[base] EXCEPT ![p] = base'])
                           /\ UNCHANGED <<file, green, ledger, pc, plan, id, made>>
    BY DEF ForeignLand
  <1>2. base' \in Commits /\ tree[base] \in Trees
    BY <1>1, Grown DEF IInv, TypeOK, Steps
  <1>3. [tree[base] EXCEPT ![p] = base'] \in Trees
    BY <1>2 DEF Trees
  <1>4. /\ DOMAIN tree' = DOMAIN tree \union {base'} /\ DOMAIN tree' \in SUBSET Commits
        /\ \A d \in DOMAIN tree' : tree'[d] \in Trees
    BY <1>1, <1>2, <1>3, WithTreeOK DEF IInv
  <1>5. Grows
    BY <1>1, <1>4 DEF Grows
  <1>6. TypeOK'
    BY <1>1, <1>2, <1>4 DEF IInv, TypeOK
  <1>7. GoodEntries' /\ GoodCalls'
    BY <1>1, <1>5, EntriesKept, CallsKept
  <1> QED
    BY <1>6, <1>7 DEF IInv

-----------------------------------------------------------------------------
(* An unland's own steps.                                                    *)

(* What finish writes is good: nothing, a landing, or a fresh park.          *)
LEMMA FinishStep ==
    ASSUME IInv, Grows, NEW u \in Unlanders, AtWork(u), NEW rep \in Reports, NEW pk \in Parks,
           NEW st \in {"done", "awaiting-ack", "unland-blocked"},
           finish(u, rep, pk, st),
           rep.ok => /\ {rep.base, rep.final} \subseteq DOMAIN tree'
                     /\ Good(id[u], rep.base, rep.final, green'),
           pk.landed = NoCommit,
           pk.verified # NoCommit => /\ pk.verified \in DOMAIN tree'
                                     /\ Good(id[u], pk.base, pk.verified, green'),
           pk.open => pk.verified # NoCommit /\ st = "awaiting-ack"
    PROVE  /\ ledger' \in [Ids -> Entries]
           /\ pc' = [pc EXCEPT ![u] = "end"]
           /\ plan' \in [Unlanders -> Plans] /\ id' \in [Unlanders -> Ids \union {0}]
           /\ made' \in [Unlanders -> Commits]
           /\ GoodEntries' /\ GoodCalls'
  <1> DEFINE e == ledger[id[u]]
             f == [e EXCEPT !.report = rep, !.park = pk, !.status = st]
  <1>1. id[u] \in Ids /\ e \in Entries /\ e.kind = "unland" /\ e.status = "running"
    BY DEF IInv, TypeOK, GoodCalls, GoodCall
  <1>2. ledger' = [ledger EXCEPT ![id[u]] = f]
    BY DEF finish
  <1>3. f \in Entries /\ f.kind = e.kind /\ f.report = rep /\ f.park = pk /\ f.status = st
    BY <1>1 DEF Entries
  <1>4. GoodEntry(id[u], f, green', DOMAIN tree')
    <2> HIDE DEF f
    <2> QED
      BY <1>1, <1>3 DEF GoodEntry
  <1>5. GoodEntries'
    <2> HIDE DEF f
    <2> QED
      BY <1>1, <1>2, <1>4, EntryStep
  <1>6. ledger' \in [Ids -> Entries]
    <2> HIDE DEF f
    <2> QED
      BY <1>1, <1>2, <1>3 DEF IInv, TypeOK
  <1>7. /\ pc' = [pc EXCEPT ![u] = "end"] /\ plan' = [plan EXCEPT ![u] = NoPlan]
        /\ id' = [id EXCEPT ![u] = 0] /\ made' = [made EXCEPT ![u] = NoCommit]
    BY DEF finish, Return, Goto
  <1>8. /\ plan' \in [Unlanders -> Plans] /\ id' \in [Unlanders -> Ids \union {0}]
        /\ made' \in [Unlanders -> Commits]
    BY <1>7, Constant DEF IInv, TypeOK
  <1>9. GoodCalls'
    <2>1. ~AtWork(u)'
      BY <1>7 DEF IInv, TypeOK, AtWork
    <2>2. ASSUME NEW v \in Unlanders, v # u
          PROVE  /\ pc'[v] = pc[v] /\ id'[v] = id[v] /\ plan'[v] = plan[v] /\ made'[v] = made[v]
                 /\ AtWork(v) => ledger'[id[v]] = ledger[id[v]]
      BY <1>2, <1>7, <2>2 DEF IInv, TypeOK, GoodCalls, GoodCall
    <2>3. ASSUME NEW v \in Unlanders PROVE GoodCall(v)'
      <3>1. CASE v = u
        BY <2>1, <3>1 DEF GoodCall, AtWork
      <3>2. CASE v # u
        <4>1. GoodCall(v)
          BY DEF IInv, GoodCalls
        <4>2. AtWork(v)' <=> AtWork(v)
          BY <2>2, <3>2 DEF AtWork
        <4> QED
          BY <2>2, <3>2, <4>1, <4>2 DEF GoodCall, AtWork, Grows
      <3> QED
        BY <3>1, <3>2
    <2>4. \A v \in Unlanders : AtWork(v)' => v # u /\ AtWork(v) /\ id'[v] = id[v]
      BY <2>1, <2>2 DEF AtWork
    <2> QED
      BY <2>3, <2>4 DEF IInv, GoodCalls
  <1> QED
    BY <1>5, <1>6, <1>7, <1>8, <1>9

LEMMA PlanStep == ASSUME IInv, NEW u \in Unlanders, planUnland(u) PROVE IInv'
  <1>1. PICK t \in Used, i \in Ids :
          /\ pc[u] = "idle" /\ landedHere(report(t))
          /\ plan' = [plan EXCEPT ![u] =
               [target |-> t, base |-> report(t).base, final |-> report(t).final, head |-> base,
                entangled |-> blastRadius(t, Names(Diff(tree[report(t).base], tree[report(t).final])))]]
          /\ IsNext(i)
          /\ id' = [id EXCEPT ![u] = i]
          /\ ledger' = [ledger EXCEPT ![i] = [NoEntry EXCEPT !.kind = "unland", !.unlands = t]]
          /\ pc' = [pc EXCEPT ![u] = "fold"]
          /\ UNCHANGED <<file, base, green, tree, made>>
    BY DEF planUnland, Goto
  <1> DEFINE r == report(t)
             p == [target |-> t, base |-> r.base, final |-> r.final, head |-> base,
                   entangled |-> blastRadius(t, Names(Diff(tree[r.base], tree[r.final])))]
             e == [NoEntry EXCEPT !.kind = "unland", !.unlands = t]
  <1>2. t \in Ids /\ r \in Reports /\ r.base \in DOMAIN tree
    BY <1>1, Constant DEF Used, IInv, TypeOK, GoodEntries, GoodEntry, report, landedHere, landed,
                          Entries, NoReport
  <1>3. p \in Plans
    <2>1. blastRadius(t, Names(Diff(tree[r.base], tree[r.final]))) \in SUBSET Ids
      BY DEF blastRadius, scanned, Used
    <2> HIDE DEF r
    <2> QED
      BY <1>2, <2>1 DEF IInv, TypeOK, Plans, Reports
  <1>4. /\ e \in Entries /\ e.kind = "unland" /\ e.status = "running"
        /\ e.report = NoReport /\ e.park = NoPark
    BY <1>2, Constant DEF Entries, NoEntry
  <1>5. GoodEntry(i, e, green', DOMAIN tree')
    <2> HIDE DEF e
    <2> QED
      BY <1>4 DEF GoodEntry, NoReport, NoPark
  <1>6. Grows
    BY <1>1 DEF Grows
  <1>7. GoodEntries'
    <2> HIDE DEF e
    <2>1. ledger' = [ledger EXCEPT ![i] = e]
      BY <1>1 DEF e
    <2> QED
      BY <1>5, <1>6, <2>1, EntryStep
  <1>8. TypeOK'
    <2>1. ledger' = [ledger EXCEPT ![i] = e] /\ plan' = [plan EXCEPT ![u] = p]
      BY <1>1
    <2> HIDE DEF e, p
    <2> QED
      BY <1>1, <1>3, <1>4, <2>1 DEF IInv, TypeOK
  <1>9. GoodCalls'
    <2>1. ledger[i].kind = "none"
      BY <1>1 DEF IsNext, Used
    <2>2. ledger'[i].kind = "unland" /\ ledger'[i].status = "running"
      BY <1>1, <1>4 DEF IInv, TypeOK
    <2>3. /\ AtWork(u)' /\ id'[u] = i /\ pc'[u] = "fold"
          /\ plan'[u].base = r.base /\ plan'[u].head = base
      BY <1>1 DEF IInv, TypeOK, AtWork
    <2>4. ASSUME NEW v \in Unlanders, v # u
          PROVE  /\ pc'[v] = pc[v] /\ id'[v] = id[v] /\ plan'[v] = plan[v] /\ made'[v] = made[v]
                 /\ AtWork(v) => id[v] # i /\ ledger'[id[v]] = ledger[id[v]]
      BY <1>1, <2>1, <2>4 DEF IInv, TypeOK, GoodCalls, GoodCall
    <2>5. {r.base, base} \subseteq DOMAIN tree' /\ UNCHANGED <<green, tree>>
      BY <1>1, <1>2 DEF IInv, TypeOK
    <2> HIDE DEF r
    <2>6. ASSUME NEW v \in Unlanders PROVE GoodCall(v)'
      <3>1. CASE v = u
        BY <2>2, <2>3, <2>5, <3>1 DEF GoodCall
      <3>2. CASE v # u
        <4>1. GoodCall(v)
          BY DEF IInv, GoodCalls
        <4>2. AtWork(v)' <=> AtWork(v)
          BY <2>4, <3>2 DEF AtWork
        <4>3. /\ pc'[v] = pc[v] /\ id'[v] = id[v] /\ plan'[v] = plan[v] /\ made'[v] = made[v]
              /\ AtWork(v) => ledger'[id[v]] = ledger[id[v]]
          BY <2>4, <3>2, Zenon
        <4>5. tree' = tree /\ green' = green
          BY <2>5
        <4>4. pc[v] \in {"land", "report"} => AtWork(v)
          BY DEF AtWork
        <4> QED
          BY <4>1, <4>2, <4>3, <4>4, <4>5 DEF GoodCall
      <3> QED
        BY <3>1, <3>2
    <2>7. \A v \in Unlanders : v # u /\ AtWork(v)' => AtWork(v) /\ id'[v] = id[v] /\ id[v] # i
      BY <2>4 DEF AtWork
    <2> QED
      BY <2>3, <2>6, <2>7 DEF IInv, GoodCalls
  <1> QED
    BY <1>7, <1>8, <1>9 DEF IInv

LEMMA BlockedStep == ASSUME IInv, NEW u \in Unlanders, Blocked(u) PROVE IInv'
  <1>1. /\ AtWork(u) /\ Grows /\ finish(u, NoReport, NoPark, "unland-blocked")
        /\ UNCHANGED <<file, base, green, tree>>
    BY DEF Blocked, AtWork, Grows
  <1>2. ~NoReport.ok /\ NoPark.landed = NoCommit /\ NoPark.verified = NoCommit /\ ~NoPark.open
    BY DEF NoReport, NoPark
  <1>3. /\ ledger' \in [Ids -> Entries]
        /\ pc' = [pc EXCEPT ![u] = "end"]
        /\ plan' \in [Unlanders -> Plans] /\ id' \in [Unlanders -> Ids \union {0}]
        /\ made' \in [Unlanders -> Commits]
        /\ GoodEntries' /\ GoodCalls'
    BY <1>1, <1>2, FinishStep, Constant
  <1> QED
    BY <1>1, <1>3 DEF IInv, TypeOK

LEMMA FoldStep == ASSUME IInv, NEW u \in Unlanders, Fold(u) PROVE IInv'
  <1> DEFINE c == Append(plan[u].head, <<id[u], "run">>)
             t == Merge(tree[mergeBase(u)], tree[plan[u].head], inverse(u))
             pk == [open |-> TRUE, fork |-> plan[u].final, base |-> plan[u].head,
                    verified |-> c, landed |-> NoCommit, side |-> inverse(u)]
  <1>1. PICK held \in BOOLEAN :
          /\ pc[u] = "fold" /\ tree' = WithTree(c, t) /\ green' = green \union {c}
          /\ \/ finish(u, NoReport, NoPark, "done")
             \/ finish(u, NoReport, pk, "awaiting-ack")
             \/ /\ made' = [made EXCEPT ![u] = c] /\ pc' = [pc EXCEPT ![u] = "land"]
                /\ UNCHANGED <<ledger, plan, id>>
          /\ UNCHANGED <<file, base>>
    BY DEF Fold, Goto
  <1>2. AtWork(u) /\ GoodCall(u) /\ plan[u] \in Plans
    BY <1>1 DEF IInv, TypeOK, GoodCalls, AtWork
  <1>3. {plan[u].base, plan[u].head, plan[u].final} \subseteq Commits /\ id[u] \in Ids
    BY <1>2 DEF Plans, GoodCall
  <1>4. tree[plan[u].head] \in Trees /\ inverse(u) \in Trees
    BY <1>2 DEF GoodCall, IInv, TypeOK, inverse
  <1>5. c \in Commits /\ c # NoCommit
    BY <1>3, Grown, StepOf
  <1>6. t \in Trees
    BY <1>4, MergeType
  <1>7. /\ DOMAIN tree' = DOMAIN tree \union {c} /\ DOMAIN tree' \in SUBSET Commits
        /\ \A d \in DOMAIN tree' : tree'[d] \in Trees
    <2> HIDE DEF c, t
    <2> QED
      BY <1>1, <1>5, <1>6, WithTreeOK DEF IInv
  <1>8. Grows
    <2> HIDE DEF c, t
    <2> QED
      BY <1>1, <1>7 DEF Grows
  <1>9. /\ green' \in SUBSET Commits /\ base' \in Commits /\ base' \in DOMAIN tree'
        /\ Good(id[u], plan[u].head, c, green')
    <2>1. Good(id[u], plan[u].head, c, green')
      BY <1>1 DEF Good
    <2> HIDE DEF c, t
    <2> QED
      BY <1>1, <1>5, <1>7, <2>1 DEF IInv, TypeOK
  <1>10. /\ ledger' \in [Ids -> Entries]
         /\ pc' \in [Unlanders -> {"idle", "fold", "land", "report", "end"}]
         /\ plan' \in [Unlanders -> Plans] /\ id' \in [Unlanders -> Ids \union {0}]
         /\ made' \in [Unlanders -> Commits]
         /\ GoodEntries' /\ GoodCalls'
    <2>1. CASE finish(u, NoReport, NoPark, "done")
      <3>1. ~NoReport.ok /\ NoPark.landed = NoCommit /\ NoPark.verified = NoCommit /\ ~NoPark.open
        BY DEF NoReport, NoPark
      <3> HIDE DEF c, t
      <3> QED
        BY <1>2, <1>8, <2>1, <3>1, FinishStep, Constant DEF IInv, TypeOK
    <2>2. CASE finish(u, NoReport, pk, "awaiting-ack")
      <3>1. ~NoReport.ok
        BY DEF NoReport
      <3>2. pk \in Parks
        <4> HIDE DEF c
        <4> QED
          BY <1>3, <1>4, <1>5, Constant DEF Parks
      <3>3. /\ pk.landed = NoCommit /\ pk.open /\ pk.verified = c /\ pk.base = plan[u].head
        OBVIOUS
      <3>4. c \in DOMAIN tree'
        BY <1>7
      <3> HIDE DEF c, t, pk
      <3> QED
        BY <1>2, <1>5, <1>8, <1>9, <2>2, <3>1, <3>2, <3>3, <3>4, FinishStep, Constant DEF IInv, TypeOK
    <2>3. CASE /\ made' = [made EXCEPT ![u] = c] /\ pc' = [pc EXCEPT ![u] = "land"]
               /\ UNCHANGED <<ledger, plan, id>>
      <3>1. GoodEntries'
        BY <1>8, <2>3, EntriesKept
      <3>2. c \in DOMAIN tree' /\ c \in green'
        BY <1>7, <1>9 DEF Good
      <3>3. ASSUME NEW v \in Unlanders PROVE GoodCall(v)' /\ (AtWork(v)' <=> AtWork(v))
        <4>1. CASE v = u
          BY <1>1, <1>2, <1>8, <2>3, <3>2, <4>1 DEF GoodCall, AtWork, Grows, IInv, TypeOK
        <4>2. CASE v # u
          <5>1. GoodCall(v) /\ pc'[v] = pc[v] /\ made'[v] = made[v]
            BY <2>3, <4>2 DEF IInv, TypeOK, GoodCalls
          <5> QED
            BY <1>8, <2>3, <5>1 DEF GoodCall, AtWork, Grows
        <4> QED
          BY <4>1, <4>2
      <3>4. GoodCalls'
        BY <2>3, <3>3 DEF GoodCalls, IInv
      <3> HIDE DEF c
      <3> QED
        BY <1>5, <2>3, <3>1, <3>4 DEF IInv, TypeOK
    <2> QED
      BY <1>1, <2>1, <2>2, <2>3
  <1>11. file' \in Layouts
    BY <1>1 DEF IInv, TypeOK
  <1> HIDE DEF c, t, pk
  <1> QED
    BY <1>7, <1>9, <1>10, <1>11 DEF IInv, TypeOK

LEMMA LandStep == ASSUME IInv, NEW u \in Unlanders, Land(u) PROVE IInv'
  <1>1. AtWork(u) /\ Grows /\ UNCHANGED <<file, green, tree>> /\ pc[u] = "land" /\ GoodCall(u)
    BY DEF Land, AtWork, Grows, IInv, GoodCalls
  <1>2. CASE base' = made[u] /\ pc' = [pc EXCEPT ![u] = "report"] /\ UNCHANGED <<ledger, locals>>
    <2>1. TypeOK'
      BY <1>1, <1>2 DEF IInv, TypeOK, GoodCall, locals
    <2>2. GoodEntries'
      BY <1>1, <1>2, EntriesKept
    <2>3. ASSUME NEW v \in Unlanders PROVE GoodCall(v)' /\ (AtWork(v)' <=> AtWork(v))
      <3>1. GoodCall(v) /\ (pc'[v] = pc[v] \/ (pc[v] = "land" /\ pc'[v] = "report"))
        BY <1>1, <1>2 DEF IInv, TypeOK, GoodCalls
      <3> QED
        BY <1>1, <1>2, <3>1 DEF GoodCall, AtWork, locals
    <2>4. GoodCalls'
      BY <1>2, <2>3 DEF GoodCalls, IInv, locals
    <2> QED
      BY <2>1, <2>2, <2>4 DEF IInv
  <1>3. CASE finish(u, NoReport, NoPark, "unland-blocked") /\ UNCHANGED base
    <2>1. ~NoReport.ok /\ NoPark.landed = NoCommit /\ NoPark.verified = NoCommit /\ ~NoPark.open
      BY DEF NoReport, NoPark
    <2>2. /\ ledger' \in [Ids -> Entries]
          /\ pc' = [pc EXCEPT ![u] = "end"]
          /\ plan' \in [Unlanders -> Plans] /\ id' \in [Unlanders -> Ids \union {0}]
          /\ made' \in [Unlanders -> Commits]
          /\ GoodEntries' /\ GoodCalls'
      BY <1>1, <1>3, <2>1, FinishStep, Constant
    <2> QED
      BY <1>1, <1>3, <2>2 DEF IInv, TypeOK
  <1> QED
    BY <1>2, <1>3 DEF Land, Goto

LEMMA ReportStep == ASSUME IInv, NEW u \in Unlanders, Report(u) PROVE IInv'
  <1>1. /\ AtWork(u) /\ Grows /\ UNCHANGED <<file, base, green, tree>> /\ pc[u] = "report"
        /\ GoodCall(u) /\ finish(u, landing(u), NoPark, "done")
    BY DEF Report, AtWork, Grows, IInv, GoodCalls
  <1>2. /\ landing(u) \in Reports /\ {landing(u).base, landing(u).final} \subseteq DOMAIN tree'
        /\ Good(id[u], landing(u).base, landing(u).final, green')
    <2>1. plan[u] \in Plans /\ made[u] \in Commits
      BY DEF IInv, TypeOK
    <2>2. /\ landing(u).base = plan[u].head /\ landing(u).final = made[u]
          /\ landing(u) \in Reports
      BY <2>1 DEF landing, Reports, Plans
    <2> QED
      BY <1>1, <2>2 DEF GoodCall, Good
  <1>3. NoPark.landed = NoCommit /\ NoPark.verified = NoCommit /\ ~NoPark.open
    BY DEF NoPark
  <1>4. /\ ledger' \in [Ids -> Entries]
        /\ pc' = [pc EXCEPT ![u] = "end"]
        /\ plan' \in [Unlanders -> Plans] /\ id' \in [Unlanders -> Ids \union {0}]
        /\ made' \in [Unlanders -> Commits]
        /\ GoodEntries' /\ GoodCalls'
    BY <1>1, <1>2, <1>3, FinishStep, Constant
  <1> QED
    BY <1>1, <1>4 DEF IInv, TypeOK

LEMMA StepKeeps == IInv /\ [Next]_vars => IInv'
  <1> SUFFICES ASSUME IInv, [Next]_vars PROVE IInv'
    OBVIOUS
  <1>1. CASE UNCHANGED vars
    <2>1. UNCHANGED <<file, base, green, tree, ledger, pc, plan, id, made>>
      BY <1>1 DEF vars
    <2>2. TypeOK'
      BY <2>1 DEF IInv, TypeOK
    <2>3. GoodEntries' /\ GoodCalls'
      BY <2>1, EntriesKept, CallsKept DEF Grows
    <2> QED
      BY <2>2, <2>3 DEF IInv
  <1>2. CASE \E i \in Ids : Begin(i) \/ End(i) \/ Ack(i) \/ Reverify(i)
    BY <1>2, BeginStep, EndStep, AckStep, ReverifyStep
  <1>3. CASE ForeignLand
    BY <1>3, ForeignStep
  <1>4. CASE \E u \in Unlanders : planUnland(u) \/ Blocked(u) \/ Fold(u) \/ Land(u) \/ Report(u)
    BY <1>4, PlanStep, BlockedStep, FoldStep, LandStep, ReportStep
  <1> QED
    BY <1>1, <1>2, <1>3, <1>4 DEF Next

LEMMA Invariance == Spec => []IInv
  BY Initially, StepKeeps, PTL DEF Spec

(* Every commit an unland, a run or an ack names exists, with a tree, and    *)
(* every record and every call keeps its type.                               *)
THEOREM TypeCorrect == Spec => []TypeOK
  <1>1. IInv => TypeOK
    BY DEF IInv
  <1> QED
    BY <1>1, Invariance, PTL

-----------------------------------------------------------------------------
(* Landing, implemented.                                                     *)

(* The steps that move the base, and what they leave alone.                  *)
LEMMA BaseFrame ==
    ASSUME IInv, Next
    PROVE  \/ UNCHANGED base /\ green \subseteq green'
           \/ ForeignLand
           \/ \E i \in Ids : (End(i) \/ Ack(i)) /\ base' # base
           \/ \E u \in Unlanders : Land(u) /\ base' # base
  <1>1. ASSUME NEW i \in Ids, Begin(i) PROVE UNCHANGED base /\ green \subseteq green'
    BY <1>1 DEF Begin
  <1>2. ASSUME NEW i \in Ids, End(i) \/ Ack(i) \/ Reverify(i) PROVE green \subseteq green'
    BY <1>2 DEF End, Ack, Reverify
  <1>3. ASSUME NEW i \in Ids, Reverify(i) PROVE UNCHANGED base
    BY <1>3 DEF Reverify
  <1>4. ASSUME NEW u \in Unlanders, planUnland(u) \/ Blocked(u) \/ Fold(u) \/ Report(u)
        PROVE  UNCHANGED base /\ green \subseteq green'
    BY <1>4 DEF planUnland, Blocked, Fold, Report
  <1>5. ASSUME NEW u \in Unlanders, Land(u) PROVE UNCHANGED green
    BY <1>5 DEF Land
  <1> QED
    BY <1>1, <1>2, <1>3, <1>4, <1>5 DEF Next

(* Whoever moves it moves it to a verified child of the head it replaces.    *)
LEMMA RunsLandGreen ==
    ASSUME IInv, NEW i \in Ids, End(i) \/ Ack(i), base' # base
    PROVE  base' \in green /\ UNCHANGED green /\ \E x \in Steps : base' = Append(base, x)
  <1>1. GoodEntry(i, ledger[i], green, DOMAIN tree)
    BY DEF IInv, GoodEntries
  <1>2. CASE End(i)
    BY <1>1, <1>2, StepOf DEF End, GoodEntry, Good
  <1>3. CASE Ack(i)
    BY <1>1, <1>3, StepOf DEF Ack, GoodEntry, Good
  <1> QED
    BY <1>2, <1>3

LEMMA UnlandsLandGreen ==
    ASSUME IInv, NEW u \in Unlanders, Land(u), base' # base
    PROVE  base' \in green /\ UNCHANGED green /\ \E x \in Steps : base' = Append(base, x)
  BY StepOf DEF Land, IInv, GoodCalls, GoodCall, AtWork

(* `sig unland' is one more door: whatever it races with, the base moves by   *)
(* a compare-and-swap onto a verified child, or by somebody's push            *)
(* (unland.go unlandRun, run.go landRef).                                      *)
THEOREM UnlandImplementsLanding == Spec => LandingSpec
  <1>1. Init => Base!Init
    BY Initially DEF IInv, TypeOK, Base!Init, Base!Commits, Base!Steps, Commits, Steps
  <1>2. ASSUME IInv, IInv', [Next]_vars PROVE [Base!Next]_(Base!landingVars)
    <2>1. CASE UNCHANGED vars
      BY <2>1 DEF vars, Base!landingVars
    <2>2. CASE Next /\ UNCHANGED base /\ green \subseteq green'
      <3>1. green' \subseteq Base!Commits
        BY <1>2 DEF IInv, TypeOK, Base!Commits, Base!Steps, Commits, Steps
      <3> QED
        BY <2>2, <3>1 DEF Base!Next, Base!PassVerify
    <2>3. CASE ForeignLand
      BY <2>3 DEF ForeignLand, Base!Next, Base!ForeignLand
    <2>4. ASSUME base' \in green, UNCHANGED green, \E x \in Steps : base' = Append(base, x)
          PROVE  Base!Next
      BY <2>4 DEF Base!Next, Base!Land, Base!ChildOf, Base!Steps, Steps
    <2> QED
      BY <1>2, <2>1, <2>2, <2>3, <2>4, BaseFrame, RunsLandGreen, UnlandsLandGreen
  <1> QED
    BY <1>1, <1>2, Invariance, PTL DEF Spec, LandingSpec, Base!Spec

-----------------------------------------------------------------------------
(* True outcomes.                                                            *)

Outcome(i) == ledger[i].kind = "unland" =>
    /\ ledger[i].status = "unland-blocked" => ~OnBase(i)
    /\ landed(report(i)) => Descends(base, report(i).final)
    /\ ledger[i].status = "done" => (OnBase(i) <=> recorded(i) # {})

(* A directory not yet made put nothing on the base, nor did an unland that   *)
(* is not past its swap; one that is past it put its commit there.            *)
Known(i) == Outcome(i) /\ (ledger[i].kind = "none" => ~OnBase(i))
CallTrue(u) == /\ pc[u] \in {"fold", "land"} => ~OnBase(id[u])
               /\ pc[u] = "report" => Descends(base, made[u])

OInv == IInv /\ (\A i \in Ids : Known(i)) /\ (\A u \in Unlanders : CallTrue(u))

(* How the base's history grows.                                             *)
Kept == \A c \in Commits : Descends(base, c) => Descends(base', c)

LEMMA Follow ==
    ASSUME base \in Commits, NEW x \in Steps, base' = Append(base, x)
    PROVE  Kept /\ \A i \in Ids : OnBase(i)' <=> OnBase(i) \/ x \in {i} \X {"run", "ack"}
  <1>1. /\ Len(base') = Len(base) + 1 /\ Len(base) \in Nat
        /\ base'[Len(base) + 1] = x
        /\ \A n \in 1..Len(base) : base'[n] = base[n]
    BY Grown DEF Commits
  <1>2. Kept
    <2> SUFFICES ASSUME NEW c \in Commits, Descends(base, c) PROVE Descends(base', c)
      BY DEF Kept
    <2>1. Len(c) \in Nat
      BY DEF Commits
    <2> QED
      BY <1>1, <2>1 DEF Descends
  <1>3. ASSUME NEW i \in Ids PROVE OnBase(i)' <=> OnBase(i) \/ x \in {i} \X {"run", "ack"}
    BY <1>1 DEF OnBase
  <1> QED
    BY <1>2, <1>3

LEMMA Still == ASSUME UNCHANGED base PROVE Kept /\ \A i \in Ids : OnBase(i)' <=> OnBase(i)
  BY DEF Kept, OnBase

LEMMA Untouched ==
    ASSUME OInv, Kept, NEW i \in Ids, ledger'[i] = ledger[i], OnBase(i)' <=> OnBase(i)
    PROVE  Known(i)'
  <1>1. ledger[i].report.final \in Commits /\ NoReport.final \in Commits
    BY Constant DEF OInv, IInv, TypeOK, Entries, Reports
  <1>2. report(i)' = report(i) /\ recorded(i)' = recorded(i) /\ report(i).final \in Commits
    BY <1>1 DEF report, recorded
  <1> QED
    BY <1>2 DEF OInv, Known, Outcome, Kept

(* Calls that do not move keep what they know when others' landings arrive.  *)
LEMMA CallsTrue ==
    ASSUME OInv, Kept, NEW u \in Unlanders, pc'[u] = pc[u], id'[u] = id[u], made'[u] = made[u],
           AtWork(u) => (OnBase(id[u])' <=> OnBase(id[u]))
    PROVE  CallTrue(u)'
  <1>1. made[u] \in Commits
    BY DEF OInv, IInv, TypeOK
  <1>2. pc[u] \in {"fold", "land"} => ~(\E n \in 1..Len(base') : base'[n] \in {id[u]} \X {"run", "ack"})
    BY DEF OInv, CallTrue, AtWork, OnBase
  <1> QED
    BY <1>1, <1>2 DEF OInv, CallTrue, Kept, OnBase

TrueNow == (\A i \in Ids : Known(i)) /\ (\A u \in Unlanders : CallTrue(u))

LEMMA InitiallyTrue == Init => OInv
  <1> SUFFICES ASSUME Init PROVE OInv
    OBVIOUS
  <1>1. base = <<Root>> /\ \A i \in Ids : ~OnBase(i)
    BY UnlandAssumption DEF Init, OnBase, Steps, Landings
  <1>2. TrueNow
    BY <1>1 DEF Init, TrueNow, Known, Outcome, CallTrue, NoEntry
  <1> QED
    BY <1>2, Initially DEF OInv, TrueNow

(* Steps that move nobody's call.                                            *)
LEMMA OthersTrue ==
    ASSUME OInv, Kept, NEW i \in Ids, NEW e, UNCHANGED <<pc, id, made>>,
           ledger' = [ledger EXCEPT ![i] = e], Known(i)',
           \A j \in Ids \ {i} : OnBase(j)' <=> OnBase(j),
           \A u \in Unlanders : AtWork(u) => id[u] # i
    PROVE  TrueNow'
  <1>1. ASSUME NEW j \in Ids PROVE Known(j)'
    <2>1. CASE j = i
      BY <2>1
    <2>2. CASE j # i
      BY <2>2, Untouched DEF OInv, IInv, TypeOK
    <2> QED
      BY <2>1, <2>2
  <1>2. ASSUME NEW u \in Unlanders PROVE CallTrue(u)'
    <2>1. AtWork(u) => id[u] \in Ids \ {i}
      BY DEF OInv, IInv, GoodCalls, GoodCall
    <2>2. AtWork(u) => (OnBase(id[u])' <=> OnBase(id[u]))
      BY <2>1 DEF OnBase
    <2> QED
      BY <2>2, CallsTrue
  <1> QED
    BY <1>1, <1>2 DEF TrueNow

(* A run begins with one or two new commits and a fresh record.              *)
LEMMA BeginShape ==
    ASSUME NEW i \in Ids, Begin(i)
    PROVE  /\ IsNext(i)
           /\ \E first, second :
                /\ \E clean : first = IF clean = {} THEN base ELSE Append(base, <<i, "run">>)
                /\ \E held : second = IF held = {} THEN first ELSE Append(first, <<i, "ack">>)
                /\ DOMAIN tree' = DOMAIN tree \union {first, second}
           /\ \E rep, pk : ledger' = [ledger EXCEPT ![i] =
                [NoEntry EXCEPT !.kind = "run", !.report = rep, !.park = pk]]
  <1>0. PICK clean \in SUBSET Regions, held \in SUBSET Regions, ok \in BOOLEAN :
          LET first  == IF clean = {} THEN base ELSE Append(base, <<i, "run">>)
              second == IF held = {} THEN first ELSE Append(first, <<i, "ack">>)
          IN  /\ IsNext(i)
              /\ Cardinality({j \in Used : ledger[j].kind = "run"}) < MaxRuns
              /\ Names(clean) \intersect Names(held) = {} /\ clean \union held # {}
              /\ held # {} => ok
              /\ tree' = [c \in DOMAIN tree \union {first, second} |->
                            IF c \in DOMAIN tree THEN tree[c]
                            ELSE IF c = first THEN Write(tree[base], clean, first)
                            ELSE Write(Write(tree[base], clean, first), held, second)]
              /\ green' = IF ok THEN green \union ({first, second} \ {base}) ELSE green
              /\ ledger' = [ledger EXCEPT ![i] =
                   [NoEntry EXCEPT !.kind = "run",
                      !.report = [base |-> base, final |-> first, ok |-> ok],
                      !.park = IF held = {} THEN NoPark
                               ELSE [open |-> FALSE, fork |-> base, base |-> first,
                                     verified |-> second, landed |-> NoCommit,
                                     side |-> Write(tree[base], held, second)]]]
              /\ UNCHANGED <<file, base, pc, plan, id, made>>
    BY DEF Begin
  <1>a. PICK first : first = IF clean = {} THEN base ELSE Append(base, <<i, "run">>)
    OBVIOUS
  <1>b. PICK second : second = IF held = {} THEN first ELSE Append(first, <<i, "ack">>)
    OBVIOUS
  <1>c. PICK rep : rep = [base |-> base, final |-> first, ok |-> ok]
    OBVIOUS
  <1>d. PICK pk : pk = IF held = {} THEN NoPark
                       ELSE [open |-> FALSE, fork |-> base, base |-> first,
                             verified |-> second, landed |-> NoCommit,
                             side |-> Write(tree[base], held, second)]
    OBVIOUS
  <1>1. /\ IsNext(i)
        /\ tree' = [c \in DOMAIN tree \union {first, second} |->
                      IF c \in DOMAIN tree THEN tree[c]
                      ELSE IF c = first THEN Write(tree[base], clean, first)
                      ELSE Write(Write(tree[base], clean, first), held, second)]
        /\ ledger' = [ledger EXCEPT ![i] =
             [NoEntry EXCEPT !.kind = "run", !.report = rep, !.park = pk]]
    BY <1>0, <1>a, <1>b, <1>c, <1>d
  <1>2. DOMAIN tree' = DOMAIN tree \union {first, second}
    BY <1>1
  <1>3. \E x, y : ledger' = [ledger EXCEPT ![i] =
             [NoEntry EXCEPT !.kind = "run", !.report = x, !.park = y]]
    BY <1>1, Zenon
  <1>4. \E x : first = IF x = {} THEN base ELSE Append(base, <<i, "run">>)
    BY <1>a, Zenon
  <1>5. \E x : second = IF x = {} THEN first ELSE Append(first, <<i, "ack">>)
    BY <1>b, Zenon
  <1> QED
    BY <1>1, <1>2, <1>3, <1>4, <1>5, Zenon

LEMMA BeginTrue == ASSUME OInv, NEW i \in Ids, Begin(i) PROVE TrueNow'
  <1>1. IsNext(i) /\ UNCHANGED <<base, pc, id, made>>
    BY DEF Begin
  <1>2. PICK e : ledger' = [ledger EXCEPT ![i] = e] /\ e.kind = "run"
    <2>1. PICK rep, pk : ledger' = [ledger EXCEPT ![i] =
                           [NoEntry EXCEPT !.kind = "run", !.report = rep, !.park = pk]]
      BY BeginShape, Zenon
    <2>2. [NoEntry EXCEPT !.kind = "run", !.report = rep, !.park = pk].kind = "run"
      BY DEF NoEntry
    <2> QED
      BY <2>1, <2>2
  <1>3. Known(i)'
    BY <1>2 DEF Known, Outcome, OInv, IInv, TypeOK
  <1>4. \A u \in Unlanders : AtWork(u) => id[u] # i
    BY <1>1 DEF IsNext, Used, OInv, IInv, GoodCalls, GoodCall
  <1> QED
    BY <1>1, <1>2, <1>3, <1>4, Still, OthersTrue

(* Who puts a commit of his own on the base.                                 *)
LEMMA OwnLanding ==
    ASSUME IInv, NEW i \in Ids, NEW b, NEW v, Good(i, b, v, green), base = b, base' = v
    PROVE  Kept /\ OnBase(i)' /\ \A j \in Ids \ {i} : OnBase(j)' <=> OnBase(j)
  <1>1. PICK k \in {"run", "ack"} : base' = Append(base, <<i, k>>)
    BY DEF Good
  <1> QED
    BY <1>1, Follow, StepOf DEF IInv, TypeOK

LEMMA EndTrue == ASSUME OInv, NEW i \in Ids, End(i) PROVE TrueNow'
  <1>1. /\ GoodEntry(i, ledger[i], green, DOMAIN tree) /\ ledger[i].kind = "run"
        /\ ledger[i] \in Entries /\ UNCHANGED <<pc, id, made>>
    BY DEF OInv, IInv, TypeOK, GoodEntries, End
  <1>2. PICK e : ledger' = [ledger EXCEPT ![i] = e] /\ e.kind = "run"
    <2> DEFINE held == (ledger[i].report.ok /\ base = ledger[i].report.base)
                       /\ ledger[i].park.verified # NoCommit
               e == [ledger[i] EXCEPT
                       !.park = IF held THEN [ledger[i].park EXCEPT !.open = TRUE] ELSE NoPark,
                       !.status = IF held THEN "awaiting-ack" ELSE "done"]
    <2>1. ledger' = [ledger EXCEPT ![i] = e]
      BY DEF End
    <2>2. e.kind = "run"
      BY <1>1 DEF Entries
    <2> QED
      BY <2>1, <2>2
  <1>3. Known(i)'
    BY <1>2 DEF Known, Outcome, OInv, IInv, TypeOK
  <1>4. \A u \in Unlanders : AtWork(u) => id[u] # i
    BY <1>1 DEF OInv, IInv, GoodCalls, GoodCall
  <1>5. Kept /\ \A j \in Ids \ {i} : OnBase(j)' <=> OnBase(j)
    <2>1. CASE UNCHANGED base
      BY <2>1, Still
    <2>2. CASE base' # base
      BY <1>1, <2>2, OwnLanding DEF OInv, End, GoodEntry
    <2> QED
      BY <2>1, <2>2
  <1> QED
    BY <1>1, <1>2, <1>3, <1>4, <1>5, OthersTrue

LEMMA AckTrue == ASSUME OInv, NEW i \in Ids, Ack(i) PROVE TrueNow'
  <1> DEFINE e  == ledger[i]
             f == [e EXCEPT !.park.open = FALSE, !.park.landed = e.park.verified, !.status = "done"]
  <1>1. /\ e.park.open /\ e \in Entries /\ base = e.park.base /\ base' = e.park.verified
        /\ UNCHANGED <<tree, pc, id, made>> /\ ledger' = [ledger EXCEPT ![i] = f]
    BY DEF Ack, OInv, IInv, TypeOK
  <1>2. /\ f.kind = e.kind /\ f.status = "done" /\ f.report = e.report
        /\ f.park.landed = e.park.verified
    BY <1>1 DEF Entries, Parks
  <1>3. /\ e.status = "awaiting-ack" /\ e.park.verified # NoCommit /\ e.kind # "none"
        /\ \A u \in Unlanders : AtWork(u) => id[u] # i
        /\ Kept /\ OnBase(i)' /\ \A j \in Ids \ {i} : OnBase(j)' <=> OnBase(j)
    BY <1>1, OpenIsIdle, OwnLanding DEF OInv
  <1>4. Known(i)'
    <2> HIDE DEF f
    <2>1. ledger'[i] = f
      BY <1>1 DEF OInv, IInv, TypeOK
    <2>2. recorded(i)' # {}
      BY <1>2, <1>3, <2>1 DEF recorded
    <2>3. report(i)' = report(i) /\ report(i).final \in Commits
      BY <1>1, <1>2, <1>3, <2>1 DEF report, Entries, Reports
    <2>4. ledger[i].kind = "unland" /\ landed(report(i)) => Descends(base', report(i).final)
      BY <1>3, <2>3 DEF OInv, Known, Outcome, Kept
    <2> QED
      BY <1>1, <1>2, <1>3, <2>1, <2>2, <2>3, <2>4 DEF Known, Outcome, landed
  <1> QED
    BY <1>1, <1>3, <1>4, OthersTrue

LEMMA ReverifyTrue == ASSUME OInv, NEW i \in Ids, Reverify(i) PROVE TrueNow'
  <1> DEFINE e == ledger[i]
             f == [e EXCEPT !.park.base = base, !.park.verified = Append(base, <<i, "ack">>)]
  <1>1. /\ e.park.open /\ e \in Entries /\ UNCHANGED <<base, pc, id, made>>
        /\ ledger' = [ledger EXCEPT ![i].park.base = base,
                                    ![i].park.verified = Append(base, <<i, "ack">>)]
    BY DEF Reverify, OInv, IInv, TypeOK
  <1>2. ledger' = [ledger EXCEPT ![i] = f]
    BY <1>1 DEF OInv, IInv, TypeOK
  <1>3. f.kind = e.kind /\ f.status = e.status /\ f.report = e.report
    BY <1>1 DEF Entries
  <1>4. /\ e.status = "awaiting-ack" /\ e.kind # "none"
        /\ \A u \in Unlanders : AtWork(u) => id[u] # i
    BY <1>1, OpenIsIdle DEF OInv
  <1>5. Known(i)'
    <2> HIDE DEF f
    <2>1. ledger'[i] = f
      BY <1>2 DEF OInv, IInv, TypeOK
    <2>2. report(i)' = report(i)
      BY <1>3, <1>4, <2>1 DEF report
    <2> QED
      BY <1>1, <1>3, <1>4, <2>1, <2>2 DEF OInv, Known, Outcome, landed
  <1> QED
    BY <1>1, <1>2, <1>4, <1>5, Still, OthersTrue

LEMMA ForeignTrue == ASSUME OInv, ForeignLand PROVE TrueNow'
  <1>1. base' = Append(base, Foreign) /\ Foreign \in Steps /\ UNCHANGED <<ledger, pc, id, made>>
    BY DEF ForeignLand, Steps
  <1>2. Kept /\ \A i \in Ids : OnBase(i)' <=> OnBase(i)
    <2>1. \A i \in Ids : Foreign \notin {i} \X {"run", "ack"}
      BY UnlandAssumption DEF Landings
    <2> QED
      BY <1>1, <2>1, Follow DEF OInv, IInv, TypeOK
  <1>3. ASSUME NEW u \in Unlanders PROVE CallTrue(u)'
    <2>1. AtWork(u) => (OnBase(id[u])' <=> OnBase(id[u]))
      BY <1>1, <1>2 DEF OInv, IInv, GoodCalls, GoodCall, OnBase
    <2> QED
      BY <1>1, <1>2, <2>1, CallsTrue
  <1> QED
    BY <1>1, <1>2, <1>3, Untouched DEF TrueNow

(* An unland that returns tells the truth if what it writes is true.         *)
LEMMA FinishTrue ==
    ASSUME OInv, UNCHANGED base, NEW u \in Unlanders, AtWork(u), NEW rep, NEW pk, NEW st,
           finish(u, rep, pk, st),
           st = "unland-blocked" => ~OnBase(id[u]),
           st \in {"done", "awaiting-ack", "unland-blocked"},
           landed(rep) => Descends(base, rep.final),
           st = "done" => (OnBase(id[u]) <=> landed(rep) \/ pk.landed # NoCommit)
    PROVE  TrueNow'
  <1> DEFINE i == id[u]
             e == ledger[i]
             f == [e EXCEPT !.report = rep, !.park = pk, !.status = st]
  <1>1. i \in Ids /\ e \in Entries /\ e.kind = "unland"
    BY DEF OInv, IInv, TypeOK, GoodCalls, GoodCall
  <1>2. /\ ledger' = [ledger EXCEPT ![i] = f]
        /\ pc' = [pc EXCEPT ![u] = "end"] /\ id' = [id EXCEPT ![u] = 0]
        /\ made' = [made EXCEPT ![u] = NoCommit]
    BY DEF finish, Return, Goto
  <1>3. f.kind = "unland" /\ f.report = rep /\ f.park = pk /\ f.status = st
    BY <1>1 DEF Entries
  <1>4. Kept /\ \A j \in Ids : OnBase(j)' <=> OnBase(j)
    BY Still
  <1>5. OnBase(i) <=> \E n \in 1..Len(base) : base[n] \in {i} \X {"run", "ack"}
    BY DEF OnBase
  <1>6. ASSUME NEW j \in Ids PROVE Known(j)'
    <2>1. CASE j = i
      <3> HIDE DEF f
      <3>1. ledger'[j] = f
        BY <1>1, <1>2, <2>1 DEF OInv, IInv, TypeOK
      <3>2. report(j)' = rep
        BY <1>3, <3>1 DEF report
      <3>3. st = "done" => (recorded(j)' # {} <=> landed(rep) \/ pk.landed # NoCommit)
        BY <1>3, <3>1, <3>2 DEF recorded, landed
      <3>4. OnBase(j)' <=> OnBase(i)
        BY <1>1, <1>4, <2>1
      <3> QED
        BY <1>3, <3>1, <3>2, <3>3, <3>4 DEF Known, Outcome, landed
    <2>2. CASE j # i
      BY <1>2, <1>4, <2>2, Untouched DEF OInv, IInv, TypeOK
    <2> QED
      BY <2>1, <2>2
  <1>7. ASSUME NEW v \in Unlanders PROVE CallTrue(v)'
    <2>1. CASE v = u
      BY <1>2, <2>1 DEF CallTrue, OInv, IInv, TypeOK
    <2>2. CASE v # u
      <3>1. /\ pc'[v] = pc[v] /\ id'[v] = id[v] /\ made'[v] = made[v]
        BY <1>2, <2>2 DEF OInv, IInv, TypeOK
      <3>2. OnBase(id[v])' <=> OnBase(id[v])
        BY <3>1 DEF OnBase
      <3> QED
        BY <1>4, <3>1, <3>2, CallsTrue
    <2> QED
      BY <2>1, <2>2
  <1> QED
    BY <1>6, <1>7 DEF TrueNow

LEMMA PlanTrue == ASSUME OInv, NEW u \in Unlanders, planUnland(u) PROVE TrueNow'
  <1>1. PICK t \in Used, i \in Ids :
          /\ IsNext(i) /\ id' = [id EXCEPT ![u] = i]
          /\ ledger' = [ledger EXCEPT ![i] = [NoEntry EXCEPT !.kind = "unland", !.unlands = t]]
          /\ pc' = [pc EXCEPT ![u] = "fold"] /\ UNCHANGED <<base, made>>
    BY DEF planUnland, Goto
  <1>2. Kept /\ \A j \in Ids : OnBase(j)' <=> OnBase(j)
    BY <1>1, Still
  <1>3. ledger[i].kind = "none" /\ ~OnBase(i)
    BY <1>1 DEF IsNext, Used, OInv, Known
  <1>4. ASSUME NEW j \in Ids PROVE Known(j)'
    <2>1. CASE j = i
      <3> DEFINE e == [NoEntry EXCEPT !.kind = "unland", !.unlands = t]
      <3>1. e.kind = "unland" /\ e.status = "running"
        BY DEF NoEntry
      <3>2. ledger'[j] = e
        BY <1>1, <2>1 DEF OInv, IInv, TypeOK
      <3> HIDE DEF e
      <3>3. report(j)' = NoReport
        BY <3>1, <3>2 DEF report
      <3> QED
        BY <3>1, <3>2, <3>3 DEF Known, Outcome, landed, NoReport
    <2>2. CASE j # i
      BY <1>1, <1>2, <2>2, Untouched DEF OInv, IInv, TypeOK
    <2> QED
      BY <2>1, <2>2
  <1>5. ASSUME NEW v \in Unlanders PROVE CallTrue(v)'
    <2>1. CASE v = u
      <3>1. id'[v] = i /\ pc'[v] = "fold"
        BY <1>1, <2>1 DEF OInv, IInv, TypeOK
      <3> QED
        BY <1>1, <1>3, <3>1 DEF CallTrue, OnBase
    <2>2. CASE v # u
      <3>1. /\ pc'[v] = pc[v] /\ id'[v] = id[v] /\ made'[v] = made[v]
        BY <1>1, <2>2 DEF OInv, IInv, TypeOK
      <3>2. OnBase(id[v])' <=> OnBase(id[v])
        BY <1>1, <3>1 DEF OnBase
      <3> QED
        BY <1>2, <3>1, <3>2, CallsTrue
    <2> QED
      BY <2>1, <2>2
  <1> QED
    BY <1>4, <1>5 DEF TrueNow

LEMMA UnlanderTrue ==
    ASSUME OInv, NEW u \in Unlanders, Blocked(u) \/ Fold(u) \/ Land(u) \/ Report(u)
    PROVE  TrueNow'
  <1>1. ~landed(NoReport) /\ NoPark.landed = NoCommit
    BY DEF landed, NoReport, NoPark
  <1>2. CallTrue(u) /\ GoodCall(u)
    BY DEF OInv, IInv, GoodCalls
  <1>3. CASE Blocked(u)
    BY <1>1, <1>2, <1>3, FinishTrue DEF Blocked, AtWork, CallTrue
  <1>4. CASE Fold(u)
    <2> DEFINE c == Append(plan[u].head, <<id[u], "run">>)
               pk == [open |-> TRUE, fork |-> plan[u].final, base |-> plan[u].head,
                      verified |-> c, landed |-> NoCommit, side |-> inverse(u)]
    <2>1. /\ AtWork(u) /\ UNCHANGED base /\ pc[u] = "fold" /\ ~OnBase(id[u])
          /\ \/ finish(u, NoReport, NoPark, "done")
             \/ finish(u, NoReport, pk, "awaiting-ack")
             \/ /\ made' = [made EXCEPT ![u] = c] /\ pc' = [pc EXCEPT ![u] = "land"]
                /\ UNCHANGED <<ledger, plan, id>>
      BY <1>2, <1>4 DEF Fold, Goto, AtWork, CallTrue
    <2>2. CASE finish(u, NoReport, NoPark, "done")
      BY <1>1, <2>1, <2>2, FinishTrue
    <2>3. CASE finish(u, NoReport, pk, "awaiting-ack")
      <3> HIDE DEF pk
      <3> QED
        BY <1>1, <2>1, <2>3, FinishTrue
    <2>4. CASE /\ made' = [made EXCEPT ![u] = c] /\ pc' = [pc EXCEPT ![u] = "land"]
               /\ UNCHANGED <<ledger, plan, id>>
      <3>1. Kept /\ \A j \in Ids : OnBase(j)' <=> OnBase(j)
        BY <2>1, Still
      <3>2. ASSUME NEW v \in Unlanders PROVE CallTrue(v)'
        <4>1. CASE v = u
          <5>1. pc'[v] = "land" /\ id'[v] = id[u] /\ ~OnBase(id[u])
            BY <2>1, <2>4, <4>1 DEF OInv, IInv, TypeOK
          <5> QED
            BY <2>1, <5>1 DEF CallTrue, OnBase
        <4>2. CASE v # u
          <5>1. pc'[v] = pc[v] /\ id'[v] = id[v] /\ made'[v] = made[v]
            BY <2>4, <4>2 DEF OInv, IInv, TypeOK
          <5>2. OnBase(id[v])' <=> OnBase(id[v])
            BY <2>1, <5>1 DEF OnBase
          <5> QED
            BY <3>1, <5>1, <5>2, CallsTrue
        <4> QED
          BY <4>1, <4>2
      <3> QED
        BY <2>4, <3>1, <3>2, Untouched DEF TrueNow
    <2> QED
      BY <2>1, <2>2, <2>3, <2>4
  <1>5. CASE Land(u)
    <2>1. CASE finish(u, NoReport, NoPark, "unland-blocked") /\ UNCHANGED base
      BY <1>1, <1>2, <1>5, <2>1, FinishTrue DEF Land, AtWork, CallTrue
    <2>2. CASE /\ base = plan[u].head /\ base' = made[u] /\ pc' = [pc EXCEPT ![u] = "report"]
               /\ UNCHANGED <<ledger, locals>>
      <3>1. /\ pc[u] = "land" /\ id[u] \in Ids /\ made[u] \in Commits
            /\ Good(id[u], plan[u].head, made[u], green)
            /\ ledger[id[u]].kind = "unland" /\ ledger[id[u]].status = "running"
        BY <1>2, <1>5 DEF Land, GoodCall, AtWork, Good, OInv, IInv, TypeOK
      <3>2. Kept /\ \A j \in Ids \ {id[u]} : OnBase(j)' <=> OnBase(j)
        <4>1. PICK k \in {"run", "ack"} : base' = Append(base, <<id[u], k>>)
          BY <2>2, <3>1 DEF Good
        <4> QED
          BY <3>1, <4>1, Follow, StepOf DEF OInv, IInv, TypeOK
      <3>3. ASSUME NEW j \in Ids PROVE Known(j)'
        <4>1. CASE j = id[u]
          <5>1. ledger'[j].kind = "unland" /\ ledger'[j].status = "running"
            BY <2>2, <3>1, <4>1
          <5>2. report(j)' = NoReport
            BY <5>1 DEF report
          <5> QED
            BY <5>1, <5>2 DEF Known, Outcome, landed, NoReport
        <4>2. CASE j # id[u]
          BY <2>2, <3>2, <4>2, Untouched
        <4> QED
          BY <4>1, <4>2
      <3>4. ASSUME NEW v \in Unlanders PROVE CallTrue(v)'
        <4>1. CASE v = u
          <5>1. Descends(made[u], made[u])
            BY <3>1 DEF Descends, Commits
          <5> QED
            BY <2>2, <4>1, <5>1 DEF CallTrue, OInv, IInv, TypeOK, locals
        <4>2. CASE v # u
          <5>1. pc'[v] = pc[v] /\ id'[v] = id[v] /\ made'[v] = made[v]
            BY <2>2, <4>2 DEF OInv, IInv, TypeOK, locals
          <5>2. AtWork(v) => id[v] \in Ids \ {id[u]}
            BY <3>1, <4>2 DEF OInv, IInv, GoodCalls, GoodCall, AtWork
          <5>3. AtWork(v) => (OnBase(id[v])' <=> OnBase(id[v]))
            BY <3>2, <5>1, <5>2 DEF OnBase
          <5> QED
            BY <3>2, <5>1, <5>3, CallsTrue
        <4> QED
          BY <4>1, <4>2
      <3> QED
        BY <3>3, <3>4 DEF TrueNow
    <2> QED
      BY <1>5, <2>1, <2>2 DEF Land, Goto
  <1>6. CASE Report(u)
    <2>1. /\ pc[u] = "report" /\ AtWork(u) /\ UNCHANGED base
          /\ finish(u, landing(u), NoPark, "done")
      BY <1>6 DEF Report, AtWork
    <2>2. /\ id[u] \in Ids /\ plan[u].head \in Commits
          /\ made[u] = Append(plan[u].head, <<id[u], "run">>)
          /\ Descends(base, made[u])
      BY <1>2, <2>1 DEF GoodCall, CallTrue, OInv, IInv, TypeOK, Plans
    <2>3. /\ made[u] # NoCommit /\ made[u] # plan[u].head
          /\ Len(made[u]) = Len(plan[u].head) + 1 /\ Len(plan[u].head) \in Nat
          /\ made[u][Len(plan[u].head) + 1] = <<id[u], "run">>
      <3> DEFINE h == plan[u].head
                 x == <<id[u], "run">>
      <3>1. h \in Commits /\ x \in Steps /\ made[u] = Append(h, x)
        BY <2>2, StepOf
      <3>2. Len(h) \in Nat
        BY <3>1 DEF Commits
      <3> HIDE DEF h, x
      <3>3. /\ made[u] # NoCommit /\ made[u] # h
            /\ Len(made[u]) = Len(h) + 1 /\ made[u][Len(h) + 1] = x
        BY <3>1, Grown
      <3> QED
        BY <3>2, <3>3 DEF h, x
    <2>4. OnBase(id[u])
      <3>1. Len(base) \in Nat /\ Len(made[u]) <= Len(base)
        BY <2>2 DEF Descends, OInv, IInv, TypeOK, Commits
      <3>2. base[Len(made[u])] = <<id[u], "run">>
        BY <2>2, <2>3, <3>1 DEF Descends
      <3>3. Len(made[u]) \in 1..Len(base)
        BY <2>3, <3>1
      <3>4. base[Len(made[u])] \in {id[u]} \X {"run", "ack"}
        BY <3>2
      <3> QED
        BY <3>3, <3>4, Zenon DEF OnBase
    <2>5. landed(landing(u)) /\ landing(u).final = made[u]
      BY <2>3 DEF landed, landing
    <2> HIDE DEF landing
    <2> QED
      BY <2>1, <2>2, <2>4, <2>5, FinishTrue
  <1> QED
    BY <1>3, <1>4, <1>5, <1>6

LEMMA StaysTrue == OInv /\ [Next]_vars => OInv'
  <1> SUFFICES ASSUME OInv, [Next]_vars PROVE TrueNow'
    BY StepKeeps DEF OInv, TrueNow
  <1>1. CASE UNCHANGED vars
    <2>1. UNCHANGED <<base, ledger, pc, id, made>>
      BY <1>1 DEF vars
    <2>2. \A u \in Unlanders : OnBase(id[u])' <=> OnBase(id[u])
      BY <2>1 DEF OnBase
    <2> QED
      BY <2>1, <2>2, Still, Untouched, CallsTrue DEF TrueNow
  <1>2. CASE \E i \in Ids : Begin(i) \/ End(i) \/ Ack(i) \/ Reverify(i)
    BY <1>2, BeginTrue, EndTrue, AckTrue, ReverifyTrue
  <1>3. CASE ForeignLand
    BY <1>3, ForeignTrue
  <1>4. CASE \E u \in Unlanders : planUnland(u) \/ Blocked(u) \/ Fold(u) \/ Land(u) \/ Report(u)
    BY <1>4, PlanTrue, UnlanderTrue
  <1> QED
    BY <1>1, <1>2, <1>3, <1>4 DEF Next

(* However unlands, acks, runs and pushes interleave, what an unland's run    *)
(* directory says is so: blocked means it put nothing on the base, landed     *)
(* means the base has its commit, done means one or the other by what it      *)
(* records (unland.go unlandRun, finish).                                     *)
THEOREM OutcomesHold == Spec => []OutcomesAreTrue
  <1>1. OInv => OutcomesAreTrue
    BY DEF OInv, Known, Outcome, OutcomesAreTrue, Used
  <1> QED
    BY <1>1, InitiallyTrue, StaysTrue, PTL DEF Spec

-----------------------------------------------------------------------------
(* Undoing the target.                                                       *)

Tip(c) == c[Len(c)]

(* Which commits exist: a push's are on the base, a directory's come after    *)
(* the directory and, for an unland, after its fold.                          *)
OldCommits ==
    \A c \in DOMAIN tree :
       /\ Tip(c) = Foreign => Descends(base, c)
       /\ \A i \in Ids : Tip(c) \in {i} \X {"run", "ack"} =>
            i \in Used /\ \A u \in Unlanders : pc[u] = "fold" => id[u] # i

(* A park yet to land, or to be made, has been folded onto no head later than *)
(* its own, which the base has passed.                                        *)
OldFolds(i) ==
    ledger[i].status \in {"running", "awaiting-ack"} /\ ledger[i].park.verified # NoCommit =>
       /\ \A c \in DOMAIN tree : Tip(c) = <<i, "ack">> => Len(c) <= Len(ledger[i].park.base) + 1
       /\ ledger[i].status = "running" => ledger[i].report.final = ledger[i].park.base
       /\ ledger[i].status = "awaiting-ack" => Descends(base, ledger[i].park.base)

(* c is b with the inverse of what the report r landed merged in, cleanly.    *)
Restores(T, c, b, r) ==
    /\ {c, b, r.base, r.final} \subseteq DOMAIN T
    /\ Conflicts(T[r.final], T[b], T[r.base]) = {}
    /\ T[c] = Merge(T[r.final], T[b], T[r.base])

(* An unland's target has ended with a landing; what the unland is about to   *)
(* land, or has parked, takes that back.                                      *)
Target(i) == ledger[ledger[i].unlands].report
UndoEntry(i) ==
    ledger[i].kind = "unland" =>
       /\ ledger[i].unlands \in Used
       /\ ledger[ledger[i].unlands].status # "running" /\ Target(i).ok
       /\ ledger[i].park.verified # NoCommit /\ ledger[i].status = "awaiting-ack" =>
            /\ ledger[i].park.fork = Target(i).final
            /\ ledger[i].park.side = tree[Target(i).base]
            /\ Restores(tree, ledger[i].park.verified, ledger[i].park.base, Target(i))
UndoCall(u) ==
    /\ AtWork(u) => Descends(base, plan[u].head)
    /\ pc[u] \in {"fold", "land"} => /\ plan[u].base = Target(id[u]).base
                                     /\ plan[u].final = Target(id[u]).final
    /\ pc[u] = "land" => Restores(tree, made[u], plan[u].head, Target(id[u]))

Undoing == /\ OldCommits
           /\ \A i \in Ids : OldFolds(i) /\ UndoEntry(i)
           /\ \A u \in Unlanders : UndoCall(u)
UInv == IInv /\ Undoing

LEMMA InitiallyUndoing == Init => UInv
  <1> SUFFICES ASSUME Init PROVE Undoing
    BY Initially DEF UInv
  <1>1. base = <<Root>> /\ tree = [c \in {<<Root>>} |-> [p \in Regions |-> <<Root>>]]
    BY DEF Init
  <1>2. OldCommits
    <2>1. DOMAIN tree = {<<Root>>} /\ Tip(<<Root>>) = Root
      BY <1>1 DEF Tip
    <2>2. Root # Foreign /\ \A i \in Ids : Root \notin {i} \X {"run", "ack"}
      BY UnlandAssumption DEF Steps, Landings
    <2> QED
      BY <2>1, <2>2 DEF OldCommits
  <1>3. \A i \in Ids : ledger[i].kind = "none" /\ ledger[i].park.verified = NoCommit
    BY DEF Init, NoEntry, NoPark
  <1>4. \A u \in Unlanders : pc[u] = "idle"
    BY DEF Init
  <1> QED
    BY <1>2, <1>3, <1>4 DEF Undoing, OldFolds, UndoEntry, UndoCall, AtWork

-----------------------------------------------------------------------------
(* What every step keeps.                                                    *)

TreesKept == \A c \in DOMAIN tree : c \in DOMAIN tree' /\ tree'[c] = tree[c]
ReportsKept ==
    \A t \in Used : ledger[t].status # "running" =>
        t \in Used' /\ ledger'[t].status # "running" /\ ledger'[t].report = ledger[t].report

LEMMA Tipped ==
    ASSUME NEW c \in Commits, NEW x \in Steps
    PROVE  /\ Append(c, x) \in Commits /\ Tip(Append(c, x)) = x
           /\ Len(c) \in Nat /\ Len(Append(c, x)) = Len(c) + 1
  BY DEF Commits, Tip

LEMMA NewTree ==
    ASSUME TypeOK, NEW c \in Commits, c \notin DOMAIN tree, NEW t \in Trees, tree' = WithTree(c, t)
    PROVE  TreesKept /\ DOMAIN tree' = DOMAIN tree \union {c} /\ tree'[c] = t
  BY DEF WithTree, TreesKept

LEMMA CommitsStep ==
    ASSUME UInv, Kept, Used \subseteq Used',
           \A c \in DOMAIN tree' \ DOMAIN tree :
              /\ Tip(c) = Foreign => Descends(base', c)
              /\ \A i \in Ids : Tip(c) \in {i} \X {"run", "ack"} =>
                   i \in Used' /\ \A u \in Unlanders : pc'[u] = "fold" => id'[u] # i,
           \A u \in Unlanders : pc'[u] = "fold" =>
              (pc[u] = "fold" /\ id'[u] = id[u]) \/ id'[u] \notin Used
    PROVE  OldCommits'
  <1> SUFFICES ASSUME NEW c \in DOMAIN tree'
               PROVE  /\ Tip(c) = Foreign => Descends(base', c)
                      /\ \A i \in Ids : Tip(c) \in {i} \X {"run", "ack"} =>
                           i \in Used' /\ \A u \in Unlanders : pc'[u] = "fold" => id'[u] # i
    BY DEF OldCommits, Tip
  <1>1. CASE c \in DOMAIN tree
    <2>1. c \in Commits
      BY <1>1 DEF UInv, IInv, TypeOK
    <2> QED
      BY <1>1, <2>1 DEF UInv, Undoing, OldCommits, Kept
  <1>2. CASE c \notin DOMAIN tree
    BY <1>2
  <1> QED
    BY <1>1, <1>2

LEMMA FoldsKept ==
    ASSUME UInv, Kept, NEW i \in Ids, ledger'[i] = ledger[i],
           \A c \in DOMAIN tree' \ DOMAIN tree : Tip(c) # <<i, "ack">>
    PROVE  OldFolds(i)'
  <1>1. ledger[i].park.base \in Commits
    BY DEF UInv, IInv, TypeOK, Entries, Parks
  <1>2. OldFolds(i)
    BY DEF UInv, Undoing
  <1> QED
    BY <1>1, <1>2 DEF OldFolds, Kept, Tip

LEMMA TargetKept ==
    ASSUME UInv, ReportsKept, NEW i \in Ids, ledger[i].kind = "unland",
           ledger'[i].unlands = ledger[i].unlands
    PROVE  /\ Target(i)' = Target(i) /\ {Target(i).base, Target(i).final} \subseteq DOMAIN tree
           /\ ledger'[i].unlands \in Used'
           /\ ledger'[ledger'[i].unlands].status # "running" /\ Target(i)'.ok
  <1>1. /\ ledger[i].unlands \in Used /\ ledger[ledger[i].unlands].status # "running"
        /\ Target(i).ok
    BY DEF UInv, Undoing, UndoEntry
  <1>2. GoodEntry(ledger[i].unlands, ledger[ledger[i].unlands], green, DOMAIN tree)
    BY <1>1 DEF UInv, IInv, GoodEntries, Used
  <1> QED
    BY <1>1, <1>2 DEF Target, ReportsKept, GoodEntry

(* A record no step touches, or whose park is none or no longer open.         *)
LEMMA EntryUndone ==
    ASSUME UInv, TreesKept, ReportsKept, NEW i \in Ids,
           ledger[i].kind = "unland", ledger'[i].unlands = ledger[i].unlands,
           \/ ledger'[i].park = ledger[i].park /\ ledger'[i].status = ledger[i].status
           \/ ledger'[i].park.verified = NoCommit
           \/ ledger'[i].status # "awaiting-ack"
    PROVE  UndoEntry(i)'
  <1>1. /\ Target(i)' = Target(i) /\ Target(i).base \in DOMAIN tree
        /\ ledger'[i].unlands \in Used'
        /\ ledger'[ledger'[i].unlands].status # "running" /\ Target(i)'.ok
    BY TargetKept
  <1>2. CASE ledger'[i].park.verified = NoCommit \/ ledger'[i].status # "awaiting-ack"
    BY <1>1, <1>2 DEF UndoEntry
  <1>3. CASE /\ ledger'[i].park = ledger[i].park /\ ledger'[i].status = ledger[i].status
             /\ ledger[i].park.verified # NoCommit /\ ledger[i].status = "awaiting-ack"
    <2>1. /\ ledger[i].park.fork = Target(i).final
          /\ ledger[i].park.side = tree[Target(i).base]
          /\ Restores(tree, ledger[i].park.verified, ledger[i].park.base, Target(i))
      BY <1>3 DEF UInv, Undoing, UndoEntry
    <2>2. Restores(tree', ledger[i].park.verified, ledger[i].park.base, Target(i))
      BY <1>1, <1>3, <2>1 DEF Restores, TreesKept
    <2>3. tree'[Target(i).base] = tree[Target(i).base]
      BY <1>1 DEF TreesKept
    <2> QED
      BY <1>1, <1>3, <2>1, <2>2, <2>3 DEF UndoEntry
  <1> QED
    BY <1>2, <1>3

LEMMA CallUndone ==
    ASSUME UInv, Kept, TreesKept, ReportsKept, NEW u \in Unlanders,
           pc'[u] = pc[u], plan'[u] = plan[u], id'[u] = id[u], made'[u] = made[u],
           AtWork(u) => ledger'[id[u]].unlands = ledger[id[u]].unlands
    PROVE  UndoCall(u)'
  <1>1. UndoCall(u) /\ GoodCall(u) /\ plan[u].head \in Commits
    BY DEF UInv, Undoing, IInv, TypeOK, GoodCalls, Plans
  <1>2. CASE ~AtWork(u)
    BY <1>2 DEF UndoCall, AtWork
  <1>3. CASE AtWork(u)
    <2>1. Target(id[u])' = Target(id[u])
      <3>1. id[u] \in Ids /\ ledger[id[u]].kind = "unland"
        BY <1>1, <1>3 DEF GoodCall
      <3>2. ledger'[id[u]].unlands = ledger[id[u]].unlands
        BY <1>3
      <3>3. ledger[id[u]].unlands \in Used /\ ledger[ledger[id[u]].unlands].status # "running"
        BY <3>1 DEF UInv, Undoing, UndoEntry
      <3> QED
        BY <3>2, <3>3 DEF Target, ReportsKept
    <2>2. Descends(base', plan[u].head)
      BY <1>1, <1>3 DEF UndoCall, Kept
    <2>3. pc[u] = "land" => Restores(tree', made[u], plan[u].head, Target(id[u]))
      BY <1>1, <2>1 DEF UndoCall, Restores, TreesKept
    <2> QED
      BY <1>1, <2>1, <2>2, <2>3 DEF UndoCall, AtWork
  <1> QED
    BY <1>2, <1>3

-----------------------------------------------------------------------------
(* Everybody else's steps.                                                   *)

(* Steps that move nobody's call and change the record of i only, which no    *)
(* unland is working on.                                                      *)
LEMMA OthersUndo ==
    ASSUME UInv, Kept, TreesKept, UNCHANGED <<pc, plan, id, made>>,
           NEW i \in Ids, NEW e, ledger' = [ledger EXCEPT ![i] = e], e.kind # "none",
           ledger[i].kind # "none" /\ ledger[i].status # "running" =>
              e.status # "running" /\ e.report = ledger[i].report,
           \A u \in Unlanders : AtWork(u) => id[u] # i,
           \A c \in DOMAIN tree' \ DOMAIN tree :
              /\ Tip(c) = Foreign => Descends(base', c)
              /\ \A j \in Ids : Tip(c) \in {j} \X {"run", "ack"} => j = i,
           ReportsKept => OldFolds(i)' /\ UndoEntry(i)'
    PROVE  Undoing'
  <1>1. /\ ledger'[i] = e /\ \A j \in Ids \ {i} : ledger'[j] = ledger[j]
        /\ Used' = Used \union {i}
    BY DEF UInv, IInv, TypeOK, Used
  <1>2. ReportsKept
    BY <1>1 DEF ReportsKept, Used
  <1>3. OldCommits'
    <2>1. \A u \in Unlanders : pc[u] = "fold" => id[u] # i
      BY DEF AtWork
    <2> QED
      BY <1>1, <2>1, CommitsStep
  <1>4. ASSUME NEW j \in Ids PROVE OldFolds(j)' /\ UndoEntry(j)'
    <2>1. CASE j = i
      BY <1>2, <2>1
    <2>2. CASE j # i
      <3>1. ledger'[j] = ledger[j]
        BY <1>1, <2>2
      <3>2. \A c \in DOMAIN tree' \ DOMAIN tree : Tip(c) # <<j, "ack">>
        BY <2>2
      <3>3. OldFolds(j)'
        BY <3>1, <3>2, FoldsKept
      <3>4. UndoEntry(j)'
        BY <1>2, <3>1, EntryUndone DEF UndoEntry
      <3> QED
        BY <3>3, <3>4
    <2> QED
      BY <2>1, <2>2
  <1>5. ASSUME NEW u \in Unlanders PROVE UndoCall(u)'
    <2>1. AtWork(u) => ledger'[id[u]] = ledger[id[u]]
      BY <1>1 DEF UInv, IInv, GoodCalls, GoodCall
    <2> QED
      BY <1>2, <2>1, CallUndone
  <1> QED
    BY <1>3, <1>4, <1>5 DEF Undoing

LEMMA BeginUndo == ASSUME UInv, NEW i \in Ids, Begin(i) PROVE TreesKept /\ Undoing'
  <1>1. PICK clean \in SUBSET Regions, held \in SUBSET Regions, ok \in BOOLEAN :
          LET first  == IF clean = {} THEN base ELSE Append(base, <<i, "run">>)
              second == IF held = {} THEN first ELSE Append(first, <<i, "ack">>)
          IN  /\ IsNext(i)
              /\ Cardinality({j \in Used : ledger[j].kind = "run"}) < MaxRuns
              /\ Names(clean) \intersect Names(held) = {} /\ clean \union held # {}
              /\ held # {} => ok
              /\ tree' = [c \in DOMAIN tree \union {first, second} |->
                            IF c \in DOMAIN tree THEN tree[c]
                            ELSE IF c = first THEN Write(tree[base], clean, first)
                            ELSE Write(Write(tree[base], clean, first), held, second)]
              /\ green' = IF ok THEN green \union ({first, second} \ {base}) ELSE green
              /\ ledger' = [ledger EXCEPT ![i] =
                   [NoEntry EXCEPT !.kind = "run",
                      !.report = [base |-> base, final |-> first, ok |-> ok],
                      !.park = IF held = {} THEN NoPark
                               ELSE [open |-> FALSE, fork |-> base, base |-> first,
                                     verified |-> second, landed |-> NoCommit,
                                     side |-> Write(tree[base], held, second)]]]
              /\ UNCHANGED <<file, base, pc, plan, id, made>>
    BY DEF Begin
  <1> DEFINE first  == IF clean = {} THEN base ELSE Append(base, <<i, "run">>)
             second == IF held = {} THEN first ELSE Append(first, <<i, "ack">>)
             rep == [base |-> base, final |-> first, ok |-> ok]
             pk  == IF held = {} THEN NoPark
                    ELSE [open |-> FALSE, fork |-> base, base |-> first,
                          verified |-> second, landed |-> NoCommit,
                          side |-> Write(tree[base], held, second)]
             e   == [NoEntry EXCEPT !.kind = "run", !.report = rep, !.park = pk]
  <1>2. i \notin Used /\ base \in DOMAIN tree /\ base \in Commits
    BY <1>1 DEF IsNext, UInv, IInv, TypeOK
  <1>3. first \in Commits /\ Tip(Append(base, <<i, "run">>)) = <<i, "run">>
    BY <1>2, Tipped, StepOf
  <1>4. /\ Tip(Append(first, <<i, "ack">>)) = <<i, "ack">>
        /\ Len(first) \in Nat /\ Len(Append(first, <<i, "ack">>)) = Len(first) + 1
    <2> HIDE DEF first
    <2> QED
      BY <1>3, Tipped, StepOf
  <1>5. /\ TreesKept
        /\ DOMAIN tree' = DOMAIN tree \union {first, second}
    <2> HIDE DEF first, second
    <2>1. tree' = [c \in DOMAIN tree \union {first, second} |->
                            IF c \in DOMAIN tree THEN tree[c]
                            ELSE IF c = first THEN Write(tree[base], clean, first)
                            ELSE Write(Write(tree[base], clean, first), held, second)]
      BY <1>1 DEF first, second
    <2> QED
      BY <2>1 DEF TreesKept
  <1>6. ASSUME NEW c \in DOMAIN tree' \ DOMAIN tree
        PROVE  Tip(c) \in {<<i, "run">>, <<i, "ack">>} /\ (Tip(c) = <<i, "ack">> => c = second)
    <2>1. c \in {first, second} /\ c # base
      BY <1>2, <1>5
    <2>2. CASE c = first
      <3>1. c = Append(base, <<i, "run">>)
        BY <2>1, <2>2
      <3> QED
        BY <1>3, <3>1
    <2>3. CASE c # first
      <3>1. c = Append(first, <<i, "ack">>)
        BY <2>1, <2>3
      <3> QED
        BY <1>4, <2>1, <2>3, <3>1
    <2> QED
      BY <2>2, <2>3
  <1>7. e.kind = "run" /\ e.status = "running" /\ e.report = rep /\ e.park = pk
    <2> HIDE DEF rep, pk
    <2> QED
      BY DEF NoEntry
  <1>8. ledger' = [ledger EXCEPT ![i] = e]
    BY <1>1
  <1>9. OldFolds(i)' /\ UndoEntry(i)'
    <2>1. ledger'[i] = e
      BY <1>8 DEF UInv, IInv, TypeOK
    <2>2. UndoEntry(i)'
      <3> HIDE DEF e
      <3> QED
        BY <1>7, <2>1 DEF UndoEntry
    <2>3. pk.verified # NoCommit => held # {}
      BY DEF NoPark
    <2>4. held # {} => pk.base = first /\ rep.final = first /\ Len(second) = Len(first) + 1
      BY <1>4
    <2>5. held # {} => \A c \in DOMAIN tree' : Tip(c) = <<i, "ack">> => c = second
      <3>1. \A c \in DOMAIN tree : Tip(c) # <<i, "ack">>
        BY <1>2 DEF UInv, Undoing, OldCommits
      <3> HIDE DEF first, second
      <3> QED
        BY <1>6, <3>1
    <2> HIDE DEF e, first, second, pk, rep
    <2>6. OldFolds(i)'
      BY <1>4, <1>7, <2>1, <2>3, <2>4, <2>5 DEF OldFolds, Tip
    <2> QED
      BY <2>2, <2>6
  <1>10. /\ \A u \in Unlanders : AtWork(u) => id[u] # i
         /\ ledger[i].kind = "none"
    BY <1>2 DEF Used, UInv, IInv, GoodCalls, GoodCall
  <1>11. \A c \in DOMAIN tree' \ DOMAIN tree :
              /\ Tip(c) = Foreign => Descends(base', c)
              /\ \A j \in Ids : Tip(c) \in {j} \X {"run", "ack"} => j = i
    <2>1. <<i, "run">> # Foreign /\ <<i, "ack">> # Foreign
      BY UnlandAssumption DEF Landings
    <2> QED
      BY <1>6, <2>1
  <1> HIDE DEF e
  <1> QED
    BY <1>1, <1>5, <1>7, <1>8, <1>9, <1>10, <1>11, Still, OthersUndo

LEMMA EndUndo == ASSUME UInv, NEW i \in Ids, End(i) PROVE Undoing'
  <1> DEFINE held == (ledger[i].report.ok /\ base = ledger[i].report.base)
                     /\ ledger[i].park.verified # NoCommit
             pk == IF held THEN [ledger[i].park EXCEPT !.open = TRUE] ELSE NoPark
             st == IF held THEN "awaiting-ack" ELSE "done"
             e  == [ledger[i] EXCEPT !.park = pk, !.status = st]
  <1>1. /\ GoodEntry(i, ledger[i], green, DOMAIN tree) /\ OldFolds(i)
        /\ ledger[i].kind = "run" /\ ledger[i].status = "running"
        /\ ledger[i] \in Entries /\ UNCHANGED <<tree, pc, plan, id, made>>
    BY DEF UInv, Undoing, IInv, TypeOK, GoodEntries, End
  <1>2. ledger' = [ledger EXCEPT ![i] = e]
    BY DEF End
  <1>3. e.kind = "run" /\ e.status = st /\ st # "running" /\ e.park = pk
    <2> HIDE DEF pk
    <2> QED
      BY <1>1 DEF Entries
  <1>4. /\ held => pk.verified = ledger[i].park.verified /\ pk.base = ledger[i].park.base
        /\ ~held => pk.verified = NoCommit
    BY <1>1 DEF Entries, Parks, NoPark
  <1>5. Kept
    <2>1. CASE UNCHANGED base
      BY <2>1, Still
    <2>2. CASE base' # base
      BY <1>1, <2>2, OwnLanding DEF End, GoodEntry, UInv
    <2> QED
      BY <2>1, <2>2
  <1>6. TreesKept /\ DOMAIN tree' \ DOMAIN tree = {}
    BY <1>1 DEF TreesKept
  <1>7. OldFolds(i)' /\ UndoEntry(i)'
    <2>1. ledger'[i] = e
      BY <1>2 DEF UInv, IInv, TypeOK
    <2>2. held => Descends(base', pk.base)
      <3>1. held => base' = pk.base /\ base' \in Commits
        BY <1>1, <1>4 DEF End, OldFolds, Entries, Reports
      <3> QED
        BY <3>1 DEF Descends, Commits
    <2>3. held => \A c \in DOMAIN tree : Tip(c) = <<i, "ack">> => Len(c) <= Len(pk.base) + 1
      BY <1>1, <1>4 DEF OldFolds
    <2> HIDE DEF e, pk, held
    <2> QED
      BY <1>1, <1>3, <1>4, <2>1, <2>2, <2>3 DEF OldFolds, UndoEntry, Tip
  <1>8. \A u \in Unlanders : AtWork(u) => id[u] # i
    BY <1>1 DEF UInv, IInv, GoodCalls, GoodCall
  <1> HIDE DEF e
  <1> QED
    BY <1>1, <1>2, <1>3, <1>5, <1>6, <1>7, <1>8, OthersUndo

LEMMA AckUndo == ASSUME UInv, NEW i \in Ids, Ack(i) PROVE Undoing'
  <1> DEFINE e == [ledger[i] EXCEPT !.park.open = FALSE, !.park.landed = ledger[i].park.verified,
                                    !.status = "done"]
  <1>1. /\ ledger[i].park.open /\ ledger[i] \in Entries
        /\ base = ledger[i].park.base /\ base' = ledger[i].park.verified
        /\ UNCHANGED <<tree, pc, plan, id, made>> /\ ledger' = [ledger EXCEPT ![i] = e]
    BY DEF Ack, UInv, IInv, TypeOK
  <1>2. /\ ledger[i].status = "awaiting-ack" /\ ledger[i].kind # "none"
        /\ Good(i, ledger[i].park.base, ledger[i].park.verified, green)
        /\ \A u \in Unlanders : AtWork(u) => id[u] # i
    BY <1>1, OpenIsIdle DEF UInv
  <1>3. /\ e.kind = ledger[i].kind /\ e.status = "done" /\ e.report = ledger[i].report
        /\ e.unlands = ledger[i].unlands
    BY <1>1 DEF Entries
  <1>4. Kept /\ TreesKept /\ DOMAIN tree' \ DOMAIN tree = {}
    BY <1>1, <1>2, OwnLanding DEF TreesKept, UInv
  <1>5. ASSUME ReportsKept PROVE OldFolds(i)' /\ UndoEntry(i)'
    <2>1. ledger'[i] = e
      BY <1>1 DEF UInv, IInv, TypeOK
    <2> HIDE DEF e
    <2>2. UndoEntry(i)'
      BY <1>3, <1>4, <1>5, <2>1, EntryUndone DEF UndoEntry
    <2> QED
      BY <1>3, <2>1, <2>2 DEF OldFolds
  <1> HIDE DEF e
  <1> QED
    BY <1>1, <1>2, <1>3, <1>4, <1>5, OthersUndo

(* Without a resolver an ack folds a park onto a head that moved only if that *)
(* is clean; the head is new to the park, and so is the commit.               *)
LEMMA ReverifyUndo ==
    ASSUME UInv, ~Resolver, NEW i \in Ids, Reverify(i)
    PROVE  TreesKept /\ Undoing'
  <1> DEFINE old  == ledger[i].park
             next == Append(base, <<i, "ack">>)
             t    == Merge(tree[old.fork], tree[base], old.side)
             e    == [ledger[i] EXCEPT !.park.base = base, !.park.verified = next]
  <1>1. /\ old.open /\ ledger[i] \in Entries /\ base # old.base
        /\ Conflicts(tree[old.fork], tree[base], old.side) = {}
        /\ tree' = WithTree(next, [p \in Regions |-> t[p]])
        /\ UNCHANGED <<base, pc, plan, id, made>>
    BY DEF Reverify, UInv, IInv, TypeOK
  <1>2. ledger' = [ledger EXCEPT ![i] = e]
    <2> HIDE DEF next
    <2>1. ledger' = [ledger EXCEPT ![i].park.base = base, ![i].park.verified = next]
      BY DEF Reverify, next
    <2> QED
      BY <2>1 DEF UInv, IInv, TypeOK
  <1>3. /\ ledger[i].status = "awaiting-ack" /\ ledger[i].kind # "none"
        /\ old.verified # NoCommit /\ \A u \in Unlanders : AtWork(u) => id[u] # i
    BY <1>1, OpenIsIdle DEF UInv
  <1>4. /\ base \in Commits /\ base \in DOMAIN tree /\ tree[base] \in Trees
        /\ old.base \in Commits /\ old.side \in Trees
    BY <1>1 DEF UInv, IInv, TypeOK, Entries, Parks
  <1>5. /\ next \in Commits /\ Tip(next) = <<i, "ack">>
        /\ Len(base) \in Nat /\ Len(next) = Len(base) + 1
    BY <1>4, Tipped, StepOf
  <1>6. OldFolds(i) /\ UndoEntry(i)
    BY DEF UInv, Undoing
  <1>7. Len(base) > Len(old.base) /\ Len(old.base) \in Nat
    <2>1. Descends(base, old.base)
      BY <1>3, <1>6 DEF OldFolds
    <2> HIDE DEF old
    <2> QED
      BY <1>1, <1>4, <2>1 DEF Descends, Commits
  <1>8. next \notin DOMAIN tree
    <2> HIDE DEF next
    <2> QED
      BY <1>3, <1>5, <1>6, <1>7 DEF OldFolds
  <1>9. t \in Trees /\ [p \in Regions |-> t[p]] = t
    <2>1. t \in Trees
      BY <1>4, MergeType
    <2> HIDE DEF t
    <2> QED
      BY <2>1 DEF Trees
  <1>10. TreesKept /\ DOMAIN tree' = DOMAIN tree \union {next} /\ tree'[next] = t
    <2> HIDE DEF t, next
    <2> QED
      BY <1>1, <1>5, <1>8, <1>9, NewTree DEF UInv, IInv
  <1>11. /\ e.kind = ledger[i].kind /\ e.status = ledger[i].status
         /\ e.report = ledger[i].report /\ e.unlands = ledger[i].unlands
         /\ e.park.verified = next /\ e.park.base = base
         /\ e.park.fork = old.fork /\ e.park.side = old.side
    <2> HIDE DEF next
    <2> QED
      BY <1>1 DEF Entries, Parks
  <1>12. ledger'[i] = e /\ Kept
    BY <1>1, <1>2, Still DEF UInv, IInv, TypeOK
  <1>13. OldFolds(i)'
    <2>1. \A c \in DOMAIN tree' : Tip(c) = <<i, "ack">> => Len(c) <= Len(base) + 1
      <3>1. ASSUME NEW c \in DOMAIN tree, Tip(c) = <<i, "ack">> PROVE Len(c) <= Len(base) + 1
        <4>1. Len(c) <= Len(old.base) + 1 /\ Len(c) \in Nat
          BY <1>3, <1>6, <3>1 DEF OldFolds, UInv, IInv, TypeOK, Commits
        <4> QED
          BY <1>5, <1>7, <4>1
      <3> HIDE DEF next
      <3> QED
        BY <1>5, <1>10, <3>1
    <2>2. Descends(base', base)
      BY <1>1, <1>4 DEF Descends, Commits
    <2> HIDE DEF e, next
    <2> QED
      BY <1>3, <1>11, <1>12, <2>1, <2>2 DEF OldFolds, Tip
  <1>14. ASSUME ReportsKept PROVE UndoEntry(i)'
    <2> SUFFICES ASSUME ledger[i].kind = "unland" PROVE UndoEntry(i)'
      <3> HIDE DEF e
      <3> QED
        BY <1>11, <1>12 DEF UndoEntry
    <2>1. /\ Target(i)' = Target(i) /\ {Target(i).base, Target(i).final} \subseteq DOMAIN tree
          /\ ledger'[i].unlands \in Used'
          /\ ledger'[ledger'[i].unlands].status # "running" /\ Target(i)'.ok
      <3> HIDE DEF e
      <3> QED
        BY <1>11, <1>12, <1>14, TargetKept
    <2>2. old.fork = Target(i).final /\ old.side = tree[Target(i).base]
      BY <1>3, <1>6 DEF UndoEntry
    <2>3. Restores(tree', ledger'[i].park.verified, ledger'[i].park.base, Target(i))
      <3>1. /\ {next, base, Target(i).base, Target(i).final} \subseteq DOMAIN tree'
            /\ tree'[base] = tree[base] /\ tree'[Target(i).base] = tree[Target(i).base]
            /\ tree'[Target(i).final] = tree[Target(i).final]
        BY <1>4, <1>10, <2>1 DEF TreesKept
      <3>2. /\ Conflicts(tree[Target(i).final], tree[base], tree[Target(i).base]) = {}
            /\ tree'[next] = Merge(tree[Target(i).final], tree[base], tree[Target(i).base])
        BY <1>1, <1>10, <2>2
      <3>3. ledger'[i].park.verified = next /\ ledger'[i].park.base = base
        <4> HIDE DEF e, next
        <4> QED
          BY <1>11, <1>12
      <3> HIDE DEF next
      <3> QED
        BY <2>1, <3>1, <3>2, <3>3 DEF Restores
    <2>4. ledger'[i].park.side = tree'[Target(i).base] /\ ledger'[i].park.fork = Target(i).final
      <3> HIDE DEF e
      <3> QED
        BY <1>10, <1>11, <1>12, <2>1, <2>2 DEF TreesKept
    <2> HIDE DEF e, next
    <2> QED
      BY <1>1, <1>11, <1>12, <2>1, <2>3, <2>4 DEF UndoEntry
  <1>15. \A c \in DOMAIN tree' \ DOMAIN tree :
              /\ Tip(c) = Foreign => Descends(base', c)
              /\ \A j \in Ids : Tip(c) \in {j} \X {"run", "ack"} => j = i
    <2>1. <<i, "ack">> # Foreign
      BY UnlandAssumption DEF Landings
    <2> HIDE DEF next
    <2> QED
      BY <1>5, <1>10, <2>1
  <1> HIDE DEF e
  <1> QED
    BY <1>1, <1>2, <1>3, <1>10, <1>11, <1>12, <1>13, <1>14, <1>15, OthersUndo

-----------------------------------------------------------------------------
LEMMA ForeignUndo == ASSUME UInv, ForeignLand PROVE TreesKept /\ Undoing'
  <1>1. PICK p \in Regions : /\ base' = Append(base, Foreign)
                           /\ tree' = WithTree(base', [tree[base] EXCEPT ![p] = base'])
                           /\ UNCHANGED <<green, ledger, pc, plan, id, made>>
    BY DEF ForeignLand
  <1>2. /\ base \in Commits /\ tree[base] \in Trees /\ Foreign \in Steps
        /\ Foreign \notin Landings
    BY UnlandAssumption DEF UInv, IInv, TypeOK, Steps
  <1>3. /\ base' \in Commits /\ Tip(base') = Foreign
        /\ Len(base) \in Nat /\ Len(base') = Len(base) + 1
    BY <1>1, <1>2, Tipped
  <1>4. base' \notin DOMAIN tree
    BY <1>3 DEF UInv, Undoing, OldCommits, Descends
  <1>5. [tree[base] EXCEPT ![p] = base'] \in Trees
    BY <1>2, <1>3 DEF Trees
  <1>6. TreesKept /\ DOMAIN tree' = DOMAIN tree \union {base'}
    BY <1>1, <1>3, <1>4, <1>5, NewTree DEF UInv, IInv
  <1>7. Kept /\ Descends(base', base')
    BY <1>1, <1>2, <1>3, Follow DEF Descends
  <1>8. ReportsKept /\ Used' = Used
    BY <1>1 DEF ReportsKept, Used
  <1>9. OldCommits'
    <2>1. \A i \in Ids : Foreign \notin {i} \X {"run", "ack"}
      BY <1>2 DEF Landings
    <2>2. \A c \in DOMAIN tree' \ DOMAIN tree : c = base' /\ Tip(c) = Foreign
      BY <1>3, <1>6
    <2> QED
      BY <1>1, <1>7, <1>8, <2>1, <2>2, CommitsStep
  <1>10. ASSUME NEW j \in Ids PROVE OldFolds(j)' /\ UndoEntry(j)'
    <2>1. \A c \in DOMAIN tree' \ DOMAIN tree : Tip(c) # <<j, "ack">>
      BY <1>2, <1>3, <1>6 DEF Landings
    <2>2. OldFolds(j)'
      BY <1>1, <1>7, <2>1, FoldsKept
    <2>3. UndoEntry(j)'
      BY <1>1, <1>6, <1>8, EntryUndone DEF UndoEntry
    <2> QED
      BY <2>2, <2>3
  <1>11. ASSUME NEW u \in Unlanders PROVE UndoCall(u)'
    BY <1>1, <1>6, <1>7, <1>8, CallUndone
  <1> QED
    BY <1>6, <1>9, <1>10, <1>11 DEF Undoing

-----------------------------------------------------------------------------
(* An unland's own steps.                                                    *)

(* The steps of u and of its own record i: nobody else's record or call moves. *)
LEMMA CallersUndo ==
    ASSUME UInv, Kept, TreesKept, NEW u \in Unlanders,
           NEW i \in Ids, NEW e, ledger' = [ledger EXCEPT ![i] = e], e.kind # "none",
           ledger[i].kind = "none" \/ ledger[i].status = "running",
           \A v \in Unlanders \ {u} :
              /\ pc'[v] = pc[v] /\ plan'[v] = plan[v] /\ id'[v] = id[v] /\ made'[v] = made[v]
              /\ AtWork(v) => id[v] # i,
           pc'[u] = "fold" => ledger[i].kind = "none" /\ id'[u] = i,
           \A c \in DOMAIN tree' \ DOMAIN tree : Tip(c) = <<i, "run">> /\ pc'[u] # "fold",
           ReportsKept => OldFolds(i)' /\ UndoEntry(i)' /\ UndoCall(u)'
    PROVE  Undoing'
  <1>1. /\ ledger'[i] = e /\ \A j \in Ids \ {i} : ledger'[j] = ledger[j]
        /\ Used' = Used \union {i}
    BY DEF UInv, IInv, TypeOK, Used
  <1>2. ReportsKept
    BY <1>1 DEF ReportsKept, Used
  <1>3. OldCommits'
    <2>1. \A v \in Unlanders : pc'[v] = "fold" =>
              (pc[v] = "fold" /\ id'[v] = id[v]) \/ id'[v] \notin Used
      BY DEF Used
    <2>2. ASSUME NEW c \in DOMAIN tree' \ DOMAIN tree
          PROVE  /\ Tip(c) = Foreign => Descends(base', c)
                 /\ \A j \in Ids : Tip(c) \in {j} \X {"run", "ack"} =>
                      j \in Used' /\ \A v \in Unlanders : pc'[v] = "fold" => id'[v] # j
      <3>1. Tip(c) = <<i, "run">> /\ <<i, "run">> # Foreign
        BY UnlandAssumption DEF Landings
      <3>2. \A v \in Unlanders : pc'[v] = "fold" => id'[v] # i
        BY DEF AtWork
      <3> QED
        BY <1>1, <3>1, <3>2
    <2> QED
      BY <1>1, <2>1, <2>2, CommitsStep
  <1>4. ASSUME NEW j \in Ids PROVE OldFolds(j)' /\ UndoEntry(j)'
    <2>1. CASE j = i
      BY <1>2, <2>1
    <2>2. CASE j # i
      <3>1. ledger'[j] = ledger[j]
        BY <1>1, <2>2
      <3>2. OldFolds(j)'
        BY <3>1, FoldsKept
      <3>3. UndoEntry(j)'
        BY <1>2, <3>1, EntryUndone DEF UndoEntry
      <3> QED
        BY <3>2, <3>3
    <2> QED
      BY <2>1, <2>2
  <1>5. ASSUME NEW v \in Unlanders PROVE UndoCall(v)'
    <2>1. CASE v = u
      BY <1>2, <2>1
    <2>2. CASE v # u
      <3>1. AtWork(v) => ledger'[id[v]] = ledger[id[v]]
        BY <1>1, <2>2 DEF UInv, IInv, GoodCalls, GoodCall
      <3> QED
        BY <1>2, <2>2, <3>1, CallUndone
    <2> QED
      BY <2>1, <2>2
  <1> QED
    BY <1>3, <1>4, <1>5 DEF Undoing

LEMMA PlanUndo == ASSUME UInv, NEW u \in Unlanders, planUnland(u) PROVE Undoing'
  <1>1. PICK t \in Used, i \in Ids :
          /\ pc[u] = "idle" /\ landedHere(report(t))
          /\ plan' = [plan EXCEPT ![u] =
               [target |-> t, base |-> report(t).base, final |-> report(t).final, head |-> base,
                entangled |-> blastRadius(t, Names(Diff(tree[report(t).base], tree[report(t).final])))]]
          /\ IsNext(i)
          /\ id' = [id EXCEPT ![u] = i]
          /\ ledger' = [ledger EXCEPT ![i] = [NoEntry EXCEPT !.kind = "unland", !.unlands = t]]
          /\ pc' = [pc EXCEPT ![u] = "fold"]
          /\ UNCHANGED <<base, green, tree, made>>
    BY DEF planUnland, Goto
  <1> DEFINE e == [NoEntry EXCEPT !.kind = "unland", !.unlands = t]
  <1>2. /\ ledger[i].kind = "none" /\ i \notin Used /\ t # i /\ t \in Ids
    BY <1>1 DEF IsNext, Used
  <1>3. ledger[t].status # "running" /\ report(t) = ledger[t].report /\ ledger[t].report.ok
    BY <1>1 DEF report, landedHere, landed, NoReport
  <1>4. e.kind = "unland" /\ e.unlands = t /\ e.park = NoPark /\ e.status = "running"
    BY DEF NoEntry
  <1>5. /\ pc'[u] = "fold" /\ id'[u] = i /\ plan'[u].base = ledger[t].report.base
        /\ plan'[u].final = ledger[t].report.final /\ plan'[u].head = base
    BY <1>1, <1>3 DEF UInv, IInv, TypeOK
  <1>6. \A v \in Unlanders \ {u} :
          /\ pc'[v] = pc[v] /\ plan'[v] = plan[v] /\ id'[v] = id[v] /\ made'[v] = made[v]
          /\ AtWork(v) => id[v] # i
    BY <1>1, <1>2 DEF UInv, IInv, TypeOK, GoodCalls, GoodCall
  <1>7. Kept /\ TreesKept /\ DOMAIN tree' \ DOMAIN tree = {}
    BY <1>1, Still DEF TreesKept
  <1>8. ASSUME ReportsKept PROVE OldFolds(i)' /\ UndoEntry(i)' /\ UndoCall(u)'
    <2>1. ledger'[i] = e /\ ledger'[t] = ledger[t] /\ t \in Used'
      BY <1>1, <1>2 DEF UInv, IInv, TypeOK, Used
    <2> HIDE DEF e
    <2>2. NoPark.verified = NoCommit
      BY DEF NoPark
    <2>3. UndoEntry(i)'
      BY <1>3, <1>4, <2>1, <2>2 DEF UndoEntry, Target
    <2>4. Descends(base', base)
      BY <1>1 DEF UInv, IInv, TypeOK, Commits, Descends
    <2>5. UndoCall(u)'
      BY <1>3, <1>4, <1>5, <2>1, <2>4 DEF UndoCall, Target
    <2> QED
      BY <1>4, <2>1, <2>2, <2>3, <2>5 DEF OldFolds
  <1>9. ledger' = [ledger EXCEPT ![i] = e]
    BY <1>1
  <1> HIDE DEF e
  <1> QED
    BY <1>2, <1>4, <1>5, <1>6, <1>7, <1>8, <1>9, CallersUndo

(* An unland that returns without a park leaves nothing to fold or to undo.   *)
LEMMA FinishUndo ==
    ASSUME UInv, Kept, TreesKept, NEW u \in Unlanders, AtWork(u), NEW rep, NEW pk, NEW st,
           st # "running", finish(u, rep, pk, st),
           \A c \in DOMAIN tree' \ DOMAIN tree : Tip(c) = <<id[u], "run">>,
           \/ pk.verified = NoCommit
           \/ /\ st = "awaiting-ack" /\ Descends(base', pk.base)
              /\ \A c \in DOMAIN tree' : Tip(c) # <<id[u], "ack">>
              /\ pk.fork = Target(id[u]).final /\ pk.side = tree'[Target(id[u]).base]
              /\ Restores(tree', pk.verified, pk.base, Target(id[u]))
    PROVE  Undoing'
  <1>0. PICK i \in Ids : i = id[u]
    BY DEF UInv, IInv, GoodCalls, GoodCall
  <1> DEFINE e == [ledger[i] EXCEPT !.report = rep, !.park = pk, !.status = st]
  <1>1. ledger[i] \in Entries /\ ledger[i].kind = "unland" /\ ledger[i].status = "running"
    BY <1>0 DEF UInv, IInv, TypeOK, GoodCalls, GoodCall
  <1>2. ledger' = [ledger EXCEPT ![i] = e]
    BY <1>0 DEF finish
  <1>3. /\ e.kind = "unland" /\ e.unlands = ledger[i].unlands /\ e.park = pk
        /\ e.status = st
    BY <1>1 DEF Entries
  <1>4. ledger'[i] = e /\ pc'[u] = "end"
    BY <1>1, <1>2 DEF UInv, IInv, TypeOK, finish, Return, Goto
  <1>5. \A v \in Unlanders \ {u} :
          /\ pc'[v] = pc[v] /\ plan'[v] = plan[v] /\ id'[v] = id[v] /\ made'[v] = made[v]
          /\ AtWork(v) => id[v] # i
    BY <1>0 DEF UInv, IInv, TypeOK, GoodCalls, finish, Return, Goto
  <1>6. ASSUME ReportsKept PROVE OldFolds(i)' /\ UndoEntry(i)' /\ UndoCall(u)'
    <2> HIDE DEF e
    <2>1. UndoCall(u)'
      BY <1>4 DEF UndoCall, AtWork
    <2>2. CASE pk.verified = NoCommit
      <3>1. UndoEntry(i)'
        BY <1>1, <1>3, <1>4, <1>6, <2>2, EntryUndone
      <3> QED
        BY <1>3, <1>4, <2>1, <2>2, <3>1 DEF OldFolds
    <2>3. CASE pk.verified # NoCommit
      <3>1. /\ Target(i)' = Target(i) /\ ledger'[i].unlands \in Used'
            /\ ledger'[ledger'[i].unlands].status # "running" /\ Target(i)'.ok
        BY <1>1, <1>3, <1>4, <1>6, TargetKept
      <3>2. Restores(tree', ledger'[i].park.verified, ledger'[i].park.base, Target(i))
        BY <1>0, <1>3, <1>4, <2>3, <3>1 DEF Restores
      <3>3. UndoEntry(i)'
        BY <1>0, <1>3, <1>4, <2>3, <3>1, <3>2 DEF UndoEntry
      <3>4. OldFolds(i)'
        BY <1>0, <1>3, <1>4, <2>3 DEF OldFolds, Tip
      <3> QED
        BY <2>1, <3>3, <3>4
    <2> QED
      BY <2>2, <2>3
  <1> HIDE DEF e
  <1>7. \A c \in DOMAIN tree' \ DOMAIN tree : Tip(c) = <<i, "run">> /\ pc'[u] # "fold"
    BY <1>0, <1>4
  <1> QED
    BY <1>1, <1>2, <1>3, <1>4, <1>5, <1>6, <1>7, CallersUndo

LEMMA FoldUndo == ASSUME UInv, NEW u \in Unlanders, Fold(u) PROVE TreesKept /\ Undoing'
  <1> DEFINE head == plan[u].head
             r  == Target(id[u])
             c  == Append(head, <<id[u], "run">>)
             t  == Merge(tree[r.final], tree[head], tree[r.base])
             pk == [open |-> TRUE, fork |-> plan[u].final, base |-> head,
                    verified |-> c, landed |-> NoCommit, side |-> inverse(u)]
  <1>1. /\ AtWork(u) /\ GoodCall(u) /\ UndoCall(u) /\ pc[u] = "fold"
    BY DEF Fold, AtWork, UInv, Undoing, IInv, GoodCalls
  <1>2. /\ plan[u].base = r.base /\ plan[u].final = r.final /\ Descends(base, head)
        /\ inverse(u) = tree[r.base] /\ mergeBase(u) = r.final
    BY <1>1 DEF UndoCall, inverse, mergeBase
  <1>3. PICK held \in BOOLEAN :
          /\ tree' = WithTree(c, t)
          /\ Conflicts(tree[r.final], tree[head], tree[r.base]) = {}
          /\ \/ finish(u, NoReport, NoPark, "done")
             \/ finish(u, NoReport, pk, "awaiting-ack")
             \/ /\ made' = [made EXCEPT ![u] = c] /\ pc' = [pc EXCEPT ![u] = "land"]
                /\ UNCHANGED <<ledger, plan, id>>
          /\ UNCHANGED base
    BY <1>2 DEF Fold, Goto, Clash
  <1>4. PICK i \in Ids : i = id[u]
    BY <1>1 DEF GoodCall
  <1>5. ledger[i].kind = "unland" /\ ledger[i].status = "running"
    BY <1>1, <1>4 DEF GoodCall
  <1>6. {r.base, r.final, head} \subseteq DOMAIN tree /\ {tree[r.base], tree[head]} \subseteq Trees
    <2>1. /\ ledger[i].unlands \in Used /\ ledger[ledger[i].unlands].report.ok
          /\ r = ledger[ledger[i].unlands].report
      BY <1>4, <1>5 DEF UInv, Undoing, UndoEntry, Target
    <2>2. GoodEntry(ledger[i].unlands, ledger[ledger[i].unlands], green, DOMAIN tree)
      BY <2>1 DEF UInv, IInv, GoodEntries, Used
    <2> QED
      BY <1>1, <2>1, <2>2 DEF GoodEntry, GoodCall, UInv, IInv, TypeOK
  <1>7. c \in Commits /\ Tip(c) = <<i, "run">>
    BY <1>4, <1>6, Tipped, StepOf DEF UInv, IInv, TypeOK
  <1>8. \A d \in DOMAIN tree : Tip(d) \notin {<<i, "run">>, <<i, "ack">>}
    BY <1>1, <1>4 DEF UInv, Undoing, OldCommits
  <1>9. TreesKept /\ DOMAIN tree' = DOMAIN tree \union {c} /\ tree'[c] = t
    <2>1. t \in Trees
      BY <1>6, MergeType
    <2> HIDE DEF c, t
    <2> QED
      BY <1>3, <1>7, <1>8, <2>1, NewTree DEF UInv, IInv
  <1>10. Kept /\ \A d \in DOMAIN tree' \ DOMAIN tree : Tip(d) = <<i, "run">>
    <2> HIDE DEF c
    <2> QED
      BY <1>3, <1>7, <1>9, Still
  <1>11. Restores(tree', c, head, r)
    <2>1. \A d \in {r.base, r.final, head} : d \in DOMAIN tree' /\ tree'[d] = tree[d]
      BY <1>6, <1>9 DEF TreesKept
    <2> HIDE DEF c, head, r
    <2> QED
      BY <1>3, <1>9, <2>1 DEF Restores, t
  <1>12. CASE finish(u, NoReport, NoPark, "done")
    <2>1. NoPark.verified = NoCommit
      BY DEF NoPark
    <2> QED
      BY <1>1, <1>4, <1>9, <1>10, <1>12, <2>1, FinishUndo
  <1>13. CASE finish(u, NoReport, pk, "awaiting-ack")
    <2>1. /\ pk.verified = c /\ pk.base = head /\ pk.fork = r.final /\ pk.side = tree'[r.base]
      BY <1>2, <1>6, <1>9 DEF TreesKept
    <2>2. Descends(base', head) /\ \A d \in DOMAIN tree' : Tip(d) # <<id[u], "ack">>
      <3> HIDE DEF c, head
      <3> QED
        BY <1>2, <1>3, <1>4, <1>7, <1>8, <1>9
    <2> HIDE DEF c, head, pk, r
    <2> QED
      BY <1>1, <1>4, <1>9, <1>10, <1>11, <1>13, <2>1, <2>2, FinishUndo DEF r
  <1>14. CASE /\ made' = [made EXCEPT ![u] = c] /\ pc' = [pc EXCEPT ![u] = "land"]
              /\ UNCHANGED <<ledger, plan, id>>
    <2>1. ledger' = [ledger EXCEPT ![i] = ledger[i]] /\ ledger[i].kind # "none"
      BY <1>5, <1>14 DEF UInv, IInv, TypeOK
    <2>2. /\ pc'[u] = "land" /\ made'[u] = c /\ plan'[u] = plan[u] /\ id'[u] = id[u]
      BY <1>14 DEF UInv, IInv, TypeOK
    <2>3. \A v \in Unlanders \ {u} :
              /\ pc'[v] = pc[v] /\ plan'[v] = plan[v] /\ id'[v] = id[v] /\ made'[v] = made[v]
              /\ AtWork(v) => id[v] # i
      BY <1>1, <1>4, <1>14 DEF UInv, IInv, TypeOK, GoodCalls
    <2>4. ASSUME ReportsKept PROVE OldFolds(i)' /\ UndoEntry(i)' /\ UndoCall(u)'
      <3>1. ledger'[i] = ledger[i] /\ NoPark.verified = NoCommit /\ ledger[i].park = NoPark
        BY <1>5, <1>14 DEF NoPark, UInv, IInv, GoodEntries, GoodEntry
      <3>2. OldFolds(i)'
        BY <3>1 DEF OldFolds
      <3>3. UndoEntry(i)'
        BY <1>5, <1>9, <2>4, <3>1, EntryUndone
      <3>4. Target(id[u])' = r
        <4>1. ledger'[i].unlands = ledger[i].unlands /\ ledger[i].unlands \in Used
              /\ ledger[ledger[i].unlands].status # "running"
          BY <1>5, <1>14 DEF UInv, Undoing, UndoEntry
        <4> QED
          BY <1>4, <2>2, <2>4, <4>1 DEF Target, ReportsKept
      <3>5. UndoCall(u)'
        <4>1. Descends(base', plan'[u].head)
          BY <1>2, <1>3, <2>2
        <4>2. Restores(tree', made'[u], plan'[u].head, Target(id[u])')
          BY <1>11, <2>2, <3>4
        <4>3. plan'[u].base = Target(id[u])'.base /\ plan'[u].final = Target(id[u])'.final
          BY <1>2, <2>2, <3>4
        <4> QED
          BY <4>1, <4>2, <4>3 DEF UndoCall
      <3> QED
        BY <3>2, <3>3, <3>5
    <2>5. PICK e : e = ledger[i] /\ ledger' = [ledger EXCEPT ![i] = e] /\ e.kind # "none"
      BY <2>1
    <2>6. pc'[u] # "fold"
      BY <2>2
    <2>7. \A d \in DOMAIN tree' \ DOMAIN tree : Tip(d) = <<i, "run">> /\ pc'[u] # "fold"
      BY <1>10, <2>6
    <2>8. Kept /\ TreesKept
      BY <1>9, <1>10
    <2> QED
      BY <1>5, <2>3, <2>4, <2>5, <2>6, <2>7, <2>8, CallersUndo
  <1> QED
    BY <1>3, <1>9, <1>12, <1>13, <1>14

(* The unland's other steps make no commit.                                  *)
LEMMA UnlanderUndo ==
    ASSUME UInv, NEW u \in Unlanders, Blocked(u) \/ Land(u) \/ Report(u)
    PROVE  Undoing'
  <1>1. /\ AtWork(u) /\ GoodCall(u) /\ UndoCall(u) /\ UNCHANGED tree
        /\ NoPark.verified = NoCommit
    BY DEF Blocked, Land, Report, AtWork, UInv, Undoing, IInv, GoodCalls, NoPark
  <1>2. TreesKept /\ DOMAIN tree' \ DOMAIN tree = {}
    BY <1>1 DEF TreesKept
  <1>3. CASE /\ UNCHANGED base
             /\ \E rep, st : st # "running" /\ finish(u, rep, NoPark, st)
    BY <1>1, <1>2, <1>3, Still, FinishUndo
  <1>4. CASE /\ pc[u] = "land" /\ base = plan[u].head /\ base' = made[u]
             /\ pc' = [pc EXCEPT ![u] = "report"] /\ UNCHANGED <<ledger, locals>>
    <2>1. Kept
      <3>1. id[u] \in Ids /\ Good(id[u], plan[u].head, made[u], green)
        BY <1>1, <1>4 DEF GoodCall, AtWork, Good
      <3> QED
        BY <1>4, <3>1, OwnLanding DEF UInv
    <2>2. ReportsKept /\ Used' = Used
      BY <1>4 DEF ReportsKept, Used
    <2>3. OldCommits'
      BY <1>2, <1>4, <2>1, <2>2, CommitsStep DEF UInv, IInv, TypeOK, locals
    <2>4. ASSUME NEW i \in Ids PROVE OldFolds(i)' /\ UndoEntry(i)'
      <3>1. OldFolds(i)'
        BY <1>2, <1>4, <2>1, FoldsKept
      <3>2. UndoEntry(i)'
        BY <1>2, <1>4, <2>2, EntryUndone DEF UndoEntry
      <3> QED
        BY <3>1, <3>2
    <2>5. ASSUME NEW v \in Unlanders PROVE UndoCall(v)'
      <3>1. CASE v = u
        <4>1. Descends(base', plan[u].head)
          BY <1>1, <2>1 DEF UndoCall, Kept, UInv, IInv, TypeOK, Plans
        <4> QED
          BY <1>4, <3>1, <4>1 DEF UndoCall, AtWork, UInv, IInv, TypeOK, locals
      <3>2. CASE v # u
        BY <1>2, <1>4, <2>1, <2>2, <3>2, CallUndone DEF UInv, IInv, TypeOK, locals
      <3> QED
        BY <3>1, <3>2
    <2> QED
      BY <2>3, <2>4, <2>5 DEF Undoing
  <1> QED
    BY <1>3, <1>4 DEF Blocked, Land, Report, Goto

LEMMA UndoingStep ==
    ASSUME ~Resolver
    PROVE  UInv /\ [Next]_vars => UInv'
  <1> SUFFICES ASSUME UInv, [Next]_vars PROVE Undoing'
    BY StepKeeps DEF UInv
  <1>1. CASE UNCHANGED vars
    <2>1. UNCHANGED <<base, green, tree, ledger, pc, plan, id, made>>
      BY <1>1 DEF vars
    <2>2. Used' = Used /\ Kept /\ TreesKept /\ ReportsKept /\ DOMAIN tree' \ DOMAIN tree = {}
      BY <2>1, Still DEF Used, TreesKept, ReportsKept
    <2>3. OldCommits'
      BY <2>1, <2>2, CommitsStep
    <2>4. ASSUME NEW i \in Ids PROVE OldFolds(i)' /\ UndoEntry(i)'
      <3>1. OldFolds(i)'
        BY <2>1, <2>2, FoldsKept
      <3>2. UndoEntry(i)'
        BY <2>1, <2>2, EntryUndone DEF UndoEntry
      <3> QED
        BY <3>1, <3>2
    <2>5. ASSUME NEW u \in Unlanders PROVE UndoCall(u)'
      BY <2>1, <2>2, CallUndone
    <2> QED
      BY <2>3, <2>4, <2>5 DEF Undoing
  <1>2. CASE \E i \in Ids : Begin(i) \/ End(i) \/ Ack(i) \/ Reverify(i)
    BY <1>2, BeginUndo, EndUndo, AckUndo, ReverifyUndo
  <1>3. CASE ForeignLand
    BY <1>3, ForeignUndo
  <1>4. CASE \E u \in Unlanders : planUnland(u) \/ Blocked(u) \/ Fold(u) \/ Land(u) \/ Report(u)
    BY <1>4, PlanUndo, FoldUndo, UnlanderUndo
  <1> QED
    BY <1>1, <1>2, <1>3, <1>4 DEF Next

(* Whatever lands between its plan and its landing, directly or through an    *)
(* ack much later, the commit an unland puts on the base takes back what the  *)
(* target wrote and nothing else, region by region, so that a later run's     *)
(* work in the same files stands, and nobody else's work is where it restores *)
(* (unland.go unlandRun, buildInverse).  Where a resolver may settle an ack's *)
(* conflict it need not: the resolved text is what the resolver made it.      *)
THEOREM UndoesExactly == ASSUME ~Resolver PROVE Spec => UndoesItsTarget
  <1> DEFINE Undone ==
        \A l \in Landings : base' = Append(base, l) /\ ledger[l[1]].kind = "unland" =>
          LET r     == Took(ledger[l[1]].unlands)
              wrote == Diff(tree[r.base], tree[r.final])
          IN  \A p \in Regions :
                IF p \in wrote
                THEN /\ tree'[base'][p] = tree[r.base][p]
                     /\ tree[base][p] \in {tree[r.final][p], tree[r.base][p]}
                ELSE tree'[base'][p] = tree[base][p]
  <1>1. ASSUME UInv, Next, NEW l \in Landings, base' = Append(base, l), ledger[l[1]].kind = "unland"
        PROVE  /\ Restores(tree, base', base, Target(l[1])) /\ UNCHANGED tree
    <2>1. base \in Commits /\ l \in Steps /\ base' # base /\ l[1] \in Ids
      <3>1. base \in Commits /\ l \in Steps /\ l[1] \in Ids
        BY <1>1 DEF UInv, IInv, TypeOK, Steps, Landings
      <3> QED
        BY <1>1, <3>1, Grown
    <2>2. \A c \in Commits, x \in Steps : Append(c, x) = Append(base, l) => x = l
      <3> SUFFICES ASSUME NEW c \in Commits, NEW x \in Steps, Append(c, x) = Append(base, l)
                   PROVE  x = l
        OBVIOUS
      <3> QED
        BY <2>1, Tipped
    <2>3. \A i \in Ids, k \in {"run", "ack"} : base' = Append(base, <<i, k>>) => l[1] = i
      <3> SUFFICES ASSUME NEW i \in Ids, NEW k \in {"run", "ack"}, base' = Append(base, <<i, k>>)
                   PROVE  l[1] = i
        OBVIOUS
      <3>1. <<i, k>> = l
        BY <1>1, <2>1, <2>2, StepOf
      <3> QED
        BY <3>1
    <2>4. CASE ForeignLand
      <3>1. base' = Append(base, Foreign) /\ Foreign \in Steps
        BY <2>4 DEF ForeignLand, Steps
      <3> QED
        BY <1>1, <2>1, <2>2, <3>1, UnlandAssumption
    <2>5. CASE \E i \in Ids : End(i)
      <3>1. PICK i \in Ids : End(i)
        BY <2>5
      <3>2. Good(i, base, base', green) /\ ledger[i].kind = "run"
        BY <1>1, <2>1, <3>1 DEF End, UInv, IInv, GoodEntries, GoodEntry
      <3> QED
        BY <1>1, <2>3, <3>2 DEF Good
    <2>6. CASE \E i \in Ids : Ack(i)
      <3>1. PICK i \in Ids : Ack(i)
        BY <2>6
      <3>2. /\ ledger[i].park.open /\ base = ledger[i].park.base
            /\ base' = ledger[i].park.verified /\ UNCHANGED tree
        BY <3>1 DEF Ack
      <3>3. /\ Good(i, base, base', green) /\ ledger[i].status = "awaiting-ack"
            /\ ledger[i].park.verified # NoCommit
        BY <1>1, <3>2, OpenIsIdle DEF UInv
      <3>4. l[1] = i
        BY <2>3, <3>3 DEF Good
      <3> QED
        BY <1>1, <3>2, <3>3, <3>4 DEF UInv, Undoing, UndoEntry
    <2>7. CASE \E u \in Unlanders : Land(u)
      <3>1. PICK u \in Unlanders : Land(u)
        BY <2>7
      <3>2. /\ pc[u] = "land" /\ base = plan[u].head /\ base' = made[u] /\ UNCHANGED tree
        BY <2>1, <3>1 DEF Land
      <3>3. /\ Restores(tree, made[u], plan[u].head, Target(id[u])) /\ id[u] \in Ids
            /\ made[u] = Append(plan[u].head, <<id[u], "run">>)
        BY <1>1, <3>2 DEF UInv, Undoing, UndoCall, IInv, GoodCalls, GoodCall, AtWork
      <3> QED
        BY <2>3, <3>2, <3>3
    <2> QED
      BY <1>1, <2>1, <2>4, <2>5, <2>6, <2>7, BaseFrame DEF UInv
  <1>2. ASSUME NEW f \in Trees, NEW o \in Trees, NEW s \in Trees, Conflicts(f, o, s) = {}, NEW p \in Regions
        PROVE  IF p \in Diff(s, f)
               THEN Merge(f, o, s)[p] = s[p] /\ o[p] \in {f[p], s[p]}
               ELSE Merge(f, o, s)[p] = o[p]
    BY <1>2 DEF Conflicts, Merge, Diff, Trees
  <1>3. UInv /\ [Next]_vars => [Undone]_vars
    <2> SUFFICES ASSUME UInv, Next PROVE Undone
      OBVIOUS
    <2> SUFFICES ASSUME NEW l \in Landings, base' = Append(base, l), ledger[l[1]].kind = "unland",
                        NEW p \in Regions
                 PROVE  IF p \in Diff(tree[Target(l[1]).base], tree[Target(l[1]).final])
                        THEN /\ tree'[base'][p] = tree[Target(l[1]).base][p]
                             /\ tree[base][p] \in {tree[Target(l[1]).final][p],
                                                  tree[Target(l[1]).base][p]}
                        ELSE tree'[base'][p] = tree[base][p]
      BY DEF Took, Target
    <2>1. Restores(tree, base', base, Target(l[1])) /\ UNCHANGED tree
      BY <1>1
    <2>2. \A c \in {base, Target(l[1]).base, Target(l[1]).final} : tree[c] \in Trees
      BY <2>1 DEF Restores, UInv, IInv, TypeOK
    <2> QED
      BY <1>2, <2>1, <2>2 DEF Restores
  <1>4. Spec => [][Undone]_vars
    BY <1>3, InitiallyUndoing, UndoingStep, PTL DEF Spec
  <1> QED
    BY <1>4 DEF UndoesItsTarget

-----------------------------------------------------------------------------
(* Taking a run's work back once.                                            *)

Past(n) == SubSeq(base, 1, n)
On(i, k) == \E n \in 1..Len(base) : base[n] = <<i, k>>

(* How a landing s changes the base's tree: a push and a run write contents   *)
(* of their own, an unland puts its target's back.                            *)
Changes(b, c, s) ==
    IF s = Foreign THEN \A p \in Regions : tree[c][p] \in {tree[b][p], c}
    ELSE IF ledger[s[1]].kind = "unland" THEN Restores(tree, c, b, Target(s[1]))
    ELSE \A p \in Regions : tree[c][p] = tree[b][p] \/ Tip(tree[c][p]) = s

(* Whatever the base's n-th commit holds was written by one of its landings.  *)
Written(n) == \A p \in Regions : \E j \in 1..n :
    /\ Tip(tree[Past(n)][p]) = base[j]
    /\ base[j] = Foreign => tree[Past(n)][p] = Past(j)

(* A region t's unland put back that holds t's content again was put         *)
(* there by the unland of another directory.                                  *)
Wrote(t) == Diff(tree[Took(t).base], tree[Took(t).final])
Again(t, m, n) ==
    TookBack(m, t) =>
       \A p \in Wrote(t) : tree[Past(n)][p] = tree[Took(t).final][p]
                           => \E k \in (m + 1)..n, x \in Used \ {t} : TookBack(k, x)

History ==
    /\ NoCommit \notin DOMAIN tree /\ Len(base) >= 1 /\ base[1] = Root
    /\ \A n \in 1..Len(base) : Past(n) \in DOMAIN tree /\ Written(n)
    /\ \A n \in 2..Len(base) : base[n] \in Steps /\ Changes(Past(n - 1), Past(n), base[n])
    /\ \A m, n \in 1..Len(base) : m # n /\ base[m] = base[n] => base[m] = Foreign
    /\ \A t \in Used : \A m, n \in 1..Len(base) : m <= n => Again(t, m, n)

(* A run not yet over has nothing on the base, a park nothing of its ack's;   *)
(* what they are to land has their own contents only.  An unland's target is  *)
(* on the base.                                                               *)
OwnRun(i) ==
    ledger[i].kind = "run" /\ ledger[i].status = "running" =>
       /\ ~OnBase(i)
       /\ ledger[i].report.ok =>
            LET r == ledger[i].report
            IN  /\ r.final \in {r.base, Append(r.base, <<i, "run">>)}
                /\ \A p \in Regions : \/ tree[r.final][p] = tree[r.base][p]
                                    \/ Tip(tree[r.final][p]) = <<i, "run">>
Parked(i) == /\ ledger[i].kind = "run" /\ ledger[i].status \in {"running", "awaiting-ack"}
             /\ ledger[i].park.verified # NoCommit
OwnPark(i) ==
    Parked(i) =>
       LET pk == ledger[i].park
       IN  /\ ~On(i, "ack")
           /\ {pk.base, pk.fork} \subseteq DOMAIN tree
           /\ pk.verified = Append(pk.base, <<i, "ack">>)
           /\ \A p \in Regions :
                /\ pk.side[p] = tree[pk.fork][p] \/ Tip(pk.side[p]) = <<i, "ack">>
                /\ \/ tree[pk.verified][p] = tree[pk.base][p]
                   \/ Tip(tree[pk.verified][p]) = <<i, "ack">>
OwnTarget(i) ==
    ledger[i].kind = "unland" =>
       /\ Descends(base, Target(i).final) /\ Descends(Target(i).final, Target(i).base)
       /\ ledger[i].status = "awaiting-ack" => ~OnBase(i)
Own(i) == OwnRun(i) /\ OwnPark(i) /\ OwnTarget(i)

HInv == OInv /\ Undoing /\ History /\ \A i \in Ids : Own(i)

-----------------------------------------------------------------------------
(* The base's past.                                                          *)

LEMMA PastGrows ==
    ASSUME base \in Commits, NEW x \in Steps, base' = Append(base, x)
    PROVE  /\ Len(base) \in Nat /\ Len(base') = Len(base) + 1
           /\ base'[Len(base) + 1] = x
           /\ SubSeq(base', 1, Len(base) + 1) = base'
           /\ \A n \in 1..Len(base) : base'[n] = base[n] /\ Past(n)' = Past(n)
           /\ \A i \in Ids : \A k : On(i, k)' <=> On(i, k) \/ x = <<i, k>>
  <1>1. /\ Len(base) \in Nat /\ Len(base') = Len(base) + 1 /\ base' \in Commits
        /\ base'[Len(base) + 1] = x /\ \A n \in 1..Len(base) : base'[n] = base[n]
    BY Grown DEF Commits
  <1>2. SubSeq(base', 1, Len(base')) = base'
    BY <1>1 DEF Commits
  <1>3. ASSUME NEW n \in 1..Len(base) PROVE SubSeq(base', 1, n) = SubSeq(base, 1, n)
    BY <1>1 DEF Commits
  <1>4. ASSUME NEW i \in Ids, NEW k PROVE On(i, k)' <=> On(i, k) \/ x = <<i, k>>
    <2>1. On(i, k)' <=> \E n \in 1..(Len(base) + 1) : base'[n] = <<i, k>>
      BY <1>1 DEF On
    <2>2. 1..(Len(base) + 1) = (1..Len(base)) \union {Len(base) + 1}
      BY <1>1
    <2> QED
      BY <1>1, <2>1, <2>2 DEF On
  <1> QED
    BY <1>1, <1>2, <1>3, <1>4 DEF Past

LEMMA PastNow ==
    ASSUME base \in Commits
    PROVE  /\ Past(Len(base)) = base /\ Len(base) \in Nat
           /\ \A n \in 1..Len(base) : /\ Past(n) \in Commits /\ Len(Past(n)) = n
                                      /\ Tip(Past(n)) = base[n]
                                      /\ \A c \in Commits : Descends(base, c) /\ Len(c) = n => c = Past(n)
  <1>1. Len(base) \in Nat /\ SubSeq(base, 1, Len(base)) = base
    BY DEF Commits
  <1>2. ASSUME NEW n \in 1..Len(base)
        PROVE  /\ Past(n) \in Commits /\ Len(Past(n)) = n
               /\ \A k \in 1..n : Past(n)[k] = base[k]
    BY <1>1 DEF Past, Commits
  <1>3. ASSUME NEW n \in 1..Len(base), NEW c \in Commits, Descends(base, c), Len(c) = n
        PROVE  c = Past(n)
    BY <1>2, <1>3 DEF Descends, Commits
  <1> QED
    BY <1>1, <1>2, <1>3 DEF Past, Tip

-----------------------------------------------------------------------------
(* What every step keeps.                                                    *)

KindsKept == \A i \in Used : /\ i \in Used' /\ ledger'[i].kind = ledger[i].kind
                            /\ ledger'[i].unlands = ledger[i].unlands
BaseKept == UNCHANGED base \/ \E x \in Steps : base' = Append(base, x)

LEMMA PastKept ==
    ASSUME HInv, BaseKept
    PROVE  /\ base \in Commits /\ Kept
           /\ Len(base) \in Nat /\ Len(base') \in Nat /\ Len(base) <= Len(base')
           /\ \A n \in 1..Len(base) : base'[n] = base[n] /\ Past(n)' = Past(n)
  <1>1. base \in Commits
    BY DEF HInv, OInv, IInv, TypeOK
  <1>2. CASE UNCHANGED base
    BY <1>1, <1>2, Still DEF Past, Commits
  <1>3. CASE \E x \in Steps : base' = Append(base, x)
    BY <1>1, <1>3, PastGrows, Follow
  <1> QED
    BY <1>1, <1>2, <1>3 DEF BaseKept

(* Who a landing on the base belongs to.                                     *)
LEMMA LandersKnown ==
    ASSUME HInv, NEW n \in 1..Len(base), base[n] \in Landings
    PROVE  n >= 2 /\ base[n][1] \in Used
  <1>1. Past(n) \in DOMAIN tree /\ Tip(Past(n)) = base[n]
    BY PastNow DEF HInv, History, OInv, IInv, TypeOK
  <1>2. \A i \in Ids : base[n] \in {i} \X {"run", "ack"} => i \in Used
    BY <1>1 DEF HInv, Undoing, OldCommits
  <1>3. base[n] # Root
    BY UnlandAssumption DEF Steps
  <1> QED
    BY <1>2, <1>3 DEF HInv, History, Landings

LEMMA ChangesKept ==
    ASSUME HInv, TreesKept, KindsKept, ReportsKept,
           NEW b \in DOMAIN tree, NEW c \in DOMAIN tree,
           NEW s \in Steps, s # Foreign => s[1] \in Used, Changes(b, c, s)
    PROVE  Changes(b, c, s)'
  <1>1. tree'[b] = tree[b] /\ tree'[c] = tree[c]
    BY DEF TreesKept
  <1>2. CASE s = Foreign
    BY <1>1, <1>2 DEF Changes
  <1>3. CASE s # Foreign /\ ledger[s[1]].kind = "unland"
    <2>1. s[1] \in Ids /\ ledger'[s[1]].kind = "unland" /\ ledger'[s[1]].unlands = ledger[s[1]].unlands
      BY <1>3 DEF KindsKept, Used
    <2>2. /\ Target(s[1])' = Target(s[1])
          /\ {Target(s[1]).base, Target(s[1]).final} \subseteq DOMAIN tree
      BY <1>3, <2>1, TargetKept DEF HInv, UInv, OInv
    <2>3. Restores(tree, c, b, Target(s[1]))
      BY <1>3 DEF Changes
    <2>4. Restores(tree', c, b, Target(s[1]))
      BY <1>1, <2>2, <2>3 DEF Restores, TreesKept
    <2> QED
      BY <1>3, <2>1, <2>2, <2>4 DEF Changes
  <1>4. CASE s # Foreign /\ ledger[s[1]].kind # "unland"
    <2>1. ledger'[s[1]].kind # "unland"
      BY <1>4 DEF KindsKept
    <2> QED
      BY <1>1, <1>4, <2>1 DEF Changes, Tip
  <1> QED
    BY <1>2, <1>3, <1>4

LEMMA WrittenKept ==
    ASSUME HInv, TreesKept, BaseKept, NEW n \in 1..Len(base)
    PROVE  Written(n)'
  <1>1. \A j \in 1..n : j \in 1..Len(base) /\ base'[j] = base[j] /\ Past(j)' = Past(j)
    BY PastKept
  <1>2. Past(n) \in DOMAIN tree /\ Written(n)
    BY DEF HInv, History
  <1>3. tree'[Past(n)] = tree[Past(n)] /\ Past(n)' = Past(n)
    BY <1>1, <1>2, PastKept DEF TreesKept
  <1> QED
    BY <1>1, <1>2, <1>3 DEF Written, Tip

LEMMA TookBackKept ==
    ASSUME HInv, TreesKept, KindsKept, BaseKept, NEW n \in 1..Len(base), NEW t
    PROVE  TookBack(n, t)' <=> TookBack(n, t)
  <1>1. base'[n] = base[n] /\ Past(n)' = Past(n) /\ Len(base) \in Nat
    BY PastKept
  <1>2. CASE base[n] \in Landings
    <2>1. n - 1 \in 1..Len(base) /\ base[n][1] \in Used
      BY <1>1, <1>2, LandersKnown
    <2>2. Past(n - 1)' = Past(n - 1) /\ {Past(n), Past(n - 1)} \subseteq DOMAIN tree
      BY <2>1, PastKept DEF HInv, History
    <2>3. tree'[Past(n)] = tree[Past(n)] /\ tree'[Past(n - 1)] = tree[Past(n - 1)]
      BY <2>2 DEF TreesKept
    <2> QED
      BY <1>1, <2>1, <2>2, <2>3 DEF TookBack, Past, KindsKept
  <1>3. CASE base[n] \notin Landings
    BY <1>1, <1>3 DEF TookBack
  <1> QED
    BY <1>2, <1>3

(* What is taken back by a landing: its target, whose commits are on the base. *)
LEMMA TakenTarget ==
    ASSUME HInv, NEW n \in 1..Len(base), NEW t, TookBack(n, t)
    PROVE  /\ n >= 2 /\ base[n] \in Landings /\ base[n] # Foreign /\ t \in Used
           /\ ledger[t].status # "running" /\ Took(t) = Target(base[n][1])
           /\ Restores(tree, Past(n), Past(n - 1), Took(t))
           /\ \E j \in 1..Len(base) : Took(t).final = Past(j)
           /\ \E j \in 1..Len(base) : Took(t).base = Past(j)
  <1> DEFINE i == base[n][1]
  <1>1. /\ base[n] \in Landings /\ ledger[i].kind = "unland" /\ ledger[i].unlands = t
        /\ n >= 2 /\ i \in Used /\ base[n] # Foreign
    BY LandersKnown, UnlandAssumption DEF TookBack
  <1>2. t \in Used /\ ledger[t].status # "running" /\ Took(t) = Target(i) /\ Took(t).ok
    BY <1>1 DEF HInv, Undoing, UndoEntry, Used, Took, Target
  <1>3. base \in Commits /\ Len(base) \in Nat
    BY PastNow DEF HInv, OInv, IInv, TypeOK
  <1>4. Restores(tree, Past(n), Past(n - 1), Took(t))
    BY <1>1, <1>2, <1>3 DEF HInv, History, Changes
  <1>5. /\ Descends(base, Took(t).final) /\ Descends(Took(t).final, Took(t).base)
        /\ {Took(t).final, Took(t).base} \subseteq DOMAIN tree
    BY <1>1, <1>2, <1>4 DEF HInv, Own, OwnTarget, Used, Restores
  <1>6. /\ Took(t).final \in Commits \ {NoCommit} /\ Took(t).base \in Commits \ {NoCommit}
    BY <1>5 DEF HInv, History, OInv, IInv, TypeOK
  <1>7. \A c \in Commits \ {NoCommit} : Len(c) \in Nat /\ Len(c) >= 1
    BY DEF Commits, NoCommit
  <1>8. Descends(base, Took(t).base)
    BY <1>3, <1>5, <1>6, <1>7 DEF Descends
  <1>9. \A c \in Commits \ {NoCommit} : Descends(base, c) => \E j \in 1..Len(base) : c = Past(j)
    <2> SUFFICES ASSUME NEW c \in Commits \ {NoCommit}, Descends(base, c)
                 PROVE  \E j \in 1..Len(base) : c = Past(j)
      OBVIOUS
    <2>1. Len(c) \in 1..Len(base)
      BY <1>3, <1>7 DEF Descends
    <2> QED
      BY <1>3, <2>1, PastNow
  <1> QED
    BY <1>1, <1>2, <1>4, <1>5, <1>6, <1>8, <1>9

LEMMA AgainKept ==
    ASSUME HInv, TreesKept, KindsKept, ReportsKept, BaseKept,
           NEW t, NEW m \in 1..Len(base), NEW n \in 1..Len(base), m <= n
    PROVE  Again(t, m, n)'
  <1> SUFFICES ASSUME TookBack(m, t)' PROVE Again(t, m, n)'
    BY DEF Again
  <1>1. TookBack(m, t)
    BY TookBackKept
  <1>2. t \in Used /\ ledger[t].status # "running" /\ Restores(tree, Past(m), Past(m - 1), Took(t))
    BY <1>1, TakenTarget
  <1>3. Again(t, m, n)
    BY <1>2 DEF HInv, History
  <1>4. /\ Took(t)' = Took(t) /\ tree'[Took(t).base] = tree[Took(t).base]
        /\ tree'[Took(t).final] = tree[Took(t).final]
    BY <1>2 DEF ReportsKept, Took, Restores, TreesKept
  <1>5. Wrote(t)' = Wrote(t) /\ Past(n)' = Past(n) /\ tree'[Past(n)] = tree[Past(n)]
    BY <1>4, PastKept DEF Wrote, TreesKept, HInv, History
  <1>6. ASSUME NEW k \in (m + 1)..n, NEW x \in Used \ {t}, TookBack(k, x)
        PROVE  x \in Used' \ {t} /\ TookBack(k, x)'
    <2>1. k \in 1..Len(base)
      BY PastKept
    <2> QED
      BY <1>6, <2>1, TookBackKept DEF KindsKept
  <1> QED
    BY <1>1, <1>3, <1>4, <1>5, <1>6 DEF Again

LEMMA HistoryStays ==
    ASSUME HInv, TreesKept, KindsKept, ReportsKept, UNCHANGED base, NoCommit \notin DOMAIN tree'
    PROVE  History'
  <1>1. BaseKept /\ Len(base) \in Nat
    BY PastKept DEF BaseKept
  <1>2. \A n \in 1..Len(base) : Past(n)' = Past(n) /\ Past(n) \in DOMAIN tree /\ Past(n) \in DOMAIN tree'
    BY <1>1, PastKept DEF HInv, History, TreesKept
  <1>3. ASSUME NEW n \in 2..Len(base) PROVE Changes(Past(n - 1), Past(n), base[n])'
    <2>1. n \in 1..Len(base) /\ n - 1 \in 1..Len(base)
      BY <1>1
    <2>2. PICK b, c : b = Past(n - 1) /\ c = Past(n)
      OBVIOUS
    <2>3. PICK s : s = base[n]
      OBVIOUS
    <2>4. b \in DOMAIN tree /\ c \in DOMAIN tree /\ s \in Steps /\ Changes(b, c, s)
      BY <1>2, <2>1, <2>2, <2>3 DEF HInv, History
    <2>5. s # Foreign => s[1] \in Used
      BY <2>1, <2>3, <2>4, LandersKnown DEF Steps
    <2>6. Changes(b, c, s)'
      BY <2>4, <2>5, ChangesKept
    <2>7. Past(n - 1)' = b /\ Past(n)' = c /\ base'[n] = s
      BY <1>2, <2>1, <2>2, <2>3
    <2> QED
      BY <2>6, <2>7 DEF Changes
  <1>4. ASSUME NEW t \in Used', NEW m \in 1..Len(base), NEW n \in 1..Len(base), m <= n
        PROVE  Again(t, m, n)'
    BY <1>1, <1>4, AgainKept
  <1>5. \A n \in 1..Len(base) : Written(n)'
    BY <1>1, WrittenKept
  <1> QED
    BY <1>2, <1>3, <1>4, <1>5 DEF HInv, History

(* One more landing.                                                         *)
LEMMA HistoryGrows ==
    ASSUME HInv, TreesKept, KindsKept, ReportsKept, NEW s \in Steps, base' = Append(base, s),
           base' \in DOMAIN tree', NoCommit \notin DOMAIN tree',
           s # Foreign => /\ s[1] \in Used /\ \A n \in 1..Len(base) : base[n] # s,
           NEW b, b = base, NEW c, c = base', Changes(b, c, s)'
    PROVE  History'
  <1> DEFINE N == Len(base) + 1
  <1>1. /\ BaseKept /\ base \in Commits /\ Len(base) \in Nat /\ Len(base) >= 1
        /\ Len(base') = N /\ base'[N] = s
    BY PastGrows DEF BaseKept, HInv, History, OInv, IInv, TypeOK
  <1>2. PICK M \in Nat : M = Len(base) + 1
    BY <1>1
  <1>3. /\ Past(M)' = c /\ Past(M - 1)' = b /\ base'[M] = s
        /\ Len(base') = M /\ 1..M = (1..Len(base)) \union {M} /\ Len(base) = M - 1
    <2>1. Past(M)' = c /\ base'[M] = s
      BY <1>1, <1>2, PastGrows DEF Past
    <2>2. Past(Len(base)) = base
      BY <1>1, PastNow
    <2>3. M - 1 = Len(base) /\ M - 1 \in 1..Len(base) /\ Past(M - 1) = b
      BY <1>1, <1>2, <2>2
    <2> QED
      BY <1>1, <1>2, <2>1, <2>3, PastKept
  <1>4. \A n \in 1..Len(base) : /\ Past(n)' = Past(n) /\ base'[n] = base[n]
                                 /\ Past(n) \in DOMAIN tree /\ Past(n) \in DOMAIN tree'
                                 /\ tree'[Past(n)] = tree[Past(n)]
    BY <1>1, PastKept DEF HInv, History, TreesKept
  <1>5. b \in DOMAIN tree /\ tree'[b] = tree[b]
    BY <1>1, <1>3, <1>4
  <1>6. s # Foreign => s \in Landings /\ s[1] \in Ids
    BY DEF Steps, Used
  (* Its changes.                                                            *)
  <1>7. ASSUME NEW n \in 2..M PROVE base'[n] \in Steps /\ Changes(Past(n - 1), Past(n), base[n])'
    <2>1. CASE n = M
      BY <1>3, <2>1 DEF Changes
    <2>2. CASE n # M
      <3>1. n \in 1..Len(base) /\ n - 1 \in 1..Len(base) /\ n \in 2..Len(base)
        BY <1>1, <1>3, <2>2
      <3>2. PICK d, e, x : d = Past(n - 1) /\ e = Past(n) /\ x = base[n]
        OBVIOUS
      <3>3. d \in DOMAIN tree /\ e \in DOMAIN tree /\ x \in Steps /\ Changes(d, e, x)
        BY <1>4, <3>1, <3>2 DEF HInv, History
      <3>4. x # Foreign => x[1] \in Used
        BY <3>1, <3>2, <3>3, LandersKnown DEF Steps
      <3>5. Changes(d, e, x)'
        BY <3>3, <3>4, ChangesKept
      <3>6. Past(n - 1)' = d /\ Past(n)' = e /\ base'[n] = x
        BY <1>4, <3>1, <3>2
      <3> QED
        BY <3>3, <3>5, <3>6 DEF Changes
    <2> QED
      BY <2>1, <2>2
  (* Its target, if it is an unland's.                                       *)
  <1>8. ASSUME s # Foreign, ledger[s[1]].kind = "unland"
        PROVE  /\ Restores(tree', c, b, Target(s[1])) /\ Target(s[1])' = Target(s[1])
               /\ Target(s[1]).base \in DOMAIN tree
               /\ tree'[Target(s[1]).base] = tree[Target(s[1]).base]
               /\ \E j \in 1..Len(base) : Target(s[1]).base = Past(j)
    <2>1. /\ ledger'[s[1]].kind = "unland" /\ ledger'[s[1]].unlands = ledger[s[1]].unlands
          /\ s[1] \in Ids
      BY <1>6, <1>8 DEF KindsKept
    <2>2. /\ Target(s[1])' = Target(s[1])
          /\ {Target(s[1]).base, Target(s[1]).final} \subseteq DOMAIN tree
      BY <1>8, <2>1, TargetKept DEF HInv, UInv, OInv
    <2>3. Restores(tree', c, b, Target(s[1]))
      BY <1>8, <2>1, <2>2 DEF Changes
    <2>4. /\ Descends(base, Target(s[1]).final) /\ Descends(Target(s[1]).final, Target(s[1]).base)
      BY <1>8, <2>1 DEF HInv, Own, OwnTarget
    <2>5. Target(s[1]).base \in Commits \ {NoCommit} /\ Target(s[1]).final \in Commits
      BY <2>2 DEF HInv, History, OInv, IInv, TypeOK
    <2>6. Len(Target(s[1]).base) \in 1..Len(base) /\ Descends(base, Target(s[1]).base)
      <3>1. Len(Target(s[1]).base) \in Nat \ {0} /\ Len(Target(s[1]).final) \in Nat
        BY <2>5 DEF Commits, NoCommit
      <3> QED
        BY <1>1, <2>4, <3>1 DEF Descends
    <2> QED
      BY <1>1, <2>2, <2>3, <2>5, <2>6, PastNow DEF TreesKept
  (* Who wrote what it holds.                                                *)
  <1>9. Written(M)'
    <2> SUFFICES ASSUME NEW p \in Regions
                 PROVE  \E j \in 1..M : /\ Tip(tree'[c][p]) = base'[j]
                                        /\ base'[j] = Foreign => tree'[c][p] = Past(j)'
      BY <1>3 DEF Written, Tip
    <2>1. ASSUME NEW n \in 1..Len(base), tree'[c][p] = tree[Past(n)][p]
          PROVE  \E j \in 1..M : /\ Tip(tree'[c][p]) = base'[j]
                                 /\ base'[j] = Foreign => tree'[c][p] = Past(j)'
      <3>1. PICK j \in 1..n : /\ Tip(tree[Past(n)][p]) = base[j]
                              /\ base[j] = Foreign => tree[Past(n)][p] = Past(j)
        BY DEF HInv, History, Written
      <3>2. j \in 1..Len(base) /\ j \in 1..M
        BY <1>1, <1>3
      <3> QED
        BY <1>4, <2>1, <3>1, <3>2
    <2>2. CASE tree'[c][p] = tree'[b][p]
      <3>1. M - 1 \in 1..Len(base) /\ b = Past(M - 1)
        BY <1>1, <1>3, PastNow
      <3> QED
        BY <1>5, <2>1, <2>2, <3>1
    <2>3. CASE s = Foreign /\ tree'[c][p] = c
      <3>1. Tip(c) = s /\ M \in 1..M
        BY <1>1, <1>2 DEF Tip
      <3> QED
        BY <1>3, <2>3, <3>1
    <2>4. CASE s # Foreign /\ Tip(tree'[c][p]) = s
      <3>1. M \in 1..M
        BY <1>1, <1>2
      <3> QED
        BY <1>3, <2>4, <3>1
    <2>5. CASE s # Foreign /\ ledger[s[1]].kind = "unland" /\ tree'[c][p] # tree'[b][p]
      <3>1. tree'[c][p] = tree'[Target(s[1]).base][p]
        BY <1>8, <2>5 DEF Restores, Merge
      <3> QED
        BY <1>8, <2>1, <2>5, <3>1
    <2>6. CASE s # Foreign /\ ledger[s[1]].kind # "unland"
      <3>1. tree'[c][p] = tree'[b][p] \/ Tip(tree'[c][p]) = s
        BY <2>6 DEF Changes, Tip, KindsKept
      <3> QED
        BY <2>2, <2>4, <2>6, <3>1
    <2>7. CASE s = Foreign
      BY <2>2, <2>3, <2>7 DEF Changes
    <2> QED
      BY <2>2, <2>5, <2>6, <2>7
  (* No landing lands twice.                                                 *)
  <1>10. ASSUME NEW m \in 1..M, NEW n \in 1..M, m # n, base'[m] = base'[n]
         PROVE  base'[m] = Foreign
    BY <1>3, <1>4, <1>10 DEF HInv, History
  (* Taken back again.                                                       *)
  <1>11. ASSUME NEW t, NEW m \in 1..M, m <= M PROVE Again(t, m, M)'
    <2> SUFFICES ASSUME TookBack(m, t)', NEW p \in Wrote(t)',
                        tree'[c][p] = tree'[Took(t)'.final][p]
                 PROVE  \E k \in (m + 1)..M, x \in Used' \ {t} : TookBack(k, x)'
      BY <1>3 DEF Again
    <2>1. ASSUME s # Foreign, ledger[s[1]].kind = "unland", ledger[s[1]].unlands = t
          PROVE  FALSE
      <3>1. Target(s[1])' = Took(t)'
        BY <1>6, <2>1 DEF Target, Took, KindsKept
      <3>2. tree'[c][p] = tree'[Took(t)'.base][p] /\ tree'[Took(t)'.base][p] # tree'[Took(t)'.final][p]
        BY <1>8, <2>1, <3>1 DEF Restores, Merge, Wrote, Diff
      <3> QED
        BY <3>2
    <2>2. m # M
      <3> SUFFICES ASSUME m = M PROVE FALSE
        OBVIOUS
      <3>1. s \in Landings /\ ledger'[s[1]].kind = "unland" /\ ledger'[s[1]].unlands = t
        BY <1>3 DEF TookBack
      <3>2. s # Foreign
        BY <3>1, UnlandAssumption
      <3> QED
        BY <2>1, <3>1, <3>2 DEF KindsKept
    <2>3. m \in 1..Len(base) /\ TookBack(m, t)
      BY <1>1, <1>3, <2>2, TookBackKept
    <2>4. /\ t \in Used /\ ledger[t].status # "running"
          /\ Restores(tree, Past(m), Past(m - 1), Took(t))
          /\ \E j \in 1..Len(base) : Took(t).final = Past(j)
      BY <2>3, TakenTarget
    <2>5. /\ Took(t)' = Took(t) /\ tree'[Took(t).final] = tree[Took(t).final]
          /\ tree'[Took(t).base] = tree[Took(t).base]
      BY <2>4 DEF ReportsKept, Took, Restores, TreesKept
    <2>6. p \in Wrote(t) /\ tree'[c][p] = tree[Took(t).final][p]
      BY <2>5 DEF Wrote
    <2>7. PICK h \in 1..Len(base) :
             /\ Tip(tree'[c][p]) = base[h]
             /\ base[h] = Foreign => tree'[c][p] = Past(h)
      <3>1. PICK n \in 1..Len(base) : Took(t).final = Past(n)
        BY <2>4
      <3>2. p \in Regions /\ Written(n)
        BY <2>6, <3>1 DEF Wrote, Diff, HInv, History
      <3>3. PICK j \in 1..n : /\ Tip(tree[Past(n)][p]) = base[j]
                              /\ base[j] = Foreign => tree[Past(n)][p] = Past(j)
        BY <3>2 DEF Written
      <3> QED
        BY <1>1, <2>6, <3>1, <3>3
    <2>8. CASE tree'[b][p] = tree'[c][p]
      <3>1. M - 1 \in 1..Len(base) /\ m <= M - 1 /\ b = Past(M - 1)
        BY <1>1, <1>3, <2>3, PastNow
      <3>2. Again(t, m, M - 1) /\ tree[Past(M - 1)][p] = tree[Took(t).final][p]
        <4>1. Again(t, m, M - 1)
          BY <2>3, <2>4, <3>1 DEF HInv, History
        <4> QED
          BY <1>5, <2>6, <2>8, <3>1, <4>1
      <3>3. PICK k \in (m + 1)..(M - 1), x \in Used \ {t} : TookBack(k, x)
        BY <2>3, <2>6, <3>2 DEF Again
      <3>4. k \in 1..Len(base) /\ k \in (m + 1)..M
        BY <1>1, <1>3
      <3> QED
        BY <1>1, <3>3, <3>4, TookBackKept DEF KindsKept
    <2>9. CASE tree'[b][p] # tree'[c][p] /\ s = Foreign
      <3>1. p \in Regions
        BY <2>6 DEF Wrote, Diff
      <3>2. tree'[c][p] = c
        BY <2>9, <3>1 DEF Changes
      <3>3. Tip(c) = Foreign /\ Len(c) = M
        BY <1>1, <1>2, <2>9 DEF Tip
      <3>4. c = Past(h) /\ Len(Past(h)) = h
        BY <1>1, <2>7, <3>2, <3>3, PastNow
      <3> QED
        BY <1>1, <1>3, <3>3, <3>4
    <2>10. CASE tree'[b][p] # tree'[c][p] /\ s # Foreign /\ ledger[s[1]].kind # "unland"
      <3>1. p \in Regions /\ ledger'[s[1]].kind # "unland"
        BY <2>6, <2>10 DEF Wrote, Diff, KindsKept
      <3>2. Tip(tree'[c][p]) = s
        BY <2>10, <3>1 DEF Changes, Tip
      <3> QED
        BY <2>7, <2>10, <3>2
    <2>11. CASE tree'[b][p] # tree'[c][p] /\ s # Foreign /\ ledger[s[1]].kind = "unland"
      <3>1. PICK x : x = ledger[s[1]].unlands
        OBVIOUS
      <3>2. x # t /\ x \in Used' \ {t}
        BY <1>6, <2>1, <2>11, <3>1 DEF HInv, Undoing, UndoEntry, KindsKept
      <3>3. TookBack(M, x)'
        <4>1. SubSeq(base', 1, M) = c /\ SubSeq(base', 1, M - 1) = b /\ base'[M] = s
          BY <1>3 DEF Past
        <4>2. s \in Landings /\ ledger'[s[1]].kind = "unland" /\ ledger'[s[1]].unlands = x
          BY <1>6, <2>11, <3>1 DEF KindsKept
        <4> QED
          BY <2>11, <4>1, <4>2 DEF TookBack
      <3>4. M \in (m + 1)..M
        BY <1>1, <1>3, <2>3
      <3> QED
        BY <3>2, <3>3, <3>4
    <2> QED
      BY <2>8, <2>9, <2>10, <2>11
  <1>12. ASSUME NEW t \in Used', NEW m \in 1..M, NEW n \in 1..M, m <= n PROVE Again(t, m, n)'
    <2>1. CASE n = M
      BY <1>11, <2>1
    <2>2. CASE n # M
      <3>1. m \in 1..Len(base) /\ n \in 1..Len(base)
        BY <1>1, <1>3, <1>12, <2>2
      <3> QED
        BY <1>1, <1>12, <3>1, AgainKept
    <2> QED
      BY <2>1, <2>2
  <1>13. ASSUME NEW n \in 1..M PROVE (Past(n) \in DOMAIN tree)' /\ Written(n)'
    <2>1. CASE n = M
      BY <1>3, <1>9, <2>1
    <2>2. CASE n # M
      BY <1>1, <1>3, <1>4, <2>2, WrittenKept
    <2> QED
      BY <2>1, <2>2
  <1>14. Len(base') = M /\ M \in Nat /\ M >= 1 /\ base'[1] = Root
    BY <1>1, <1>2, <1>3, <1>4 DEF HInv, History
  <1> QED
    BY <1>7, <1>10, <1>12, <1>13, <1>14 DEF History

-----------------------------------------------------------------------------
(* The steps.                                                                *)

LEMMA OnOnBase ==
    ASSUME NEW i
    PROVE  /\ OnBase(i) <=> On(i, "run") \/ On(i, "ack")
           /\ OnBase(i)' <=> On(i, "run")' \/ On(i, "ack")'
  <1>1. \A x : x \in {i} \X {"run", "ack"} <=> x = <<i, "run">> \/ x = <<i, "ack">>
    OBVIOUS
  <1>2. ASSUME NEW b
        PROVE  (\E n \in 1..Len(b) : b[n] \in {i} \X {"run", "ack"})
               <=> (\E n \in 1..Len(b) : b[n] = <<i, "run">>) \/ (\E n \in 1..Len(b) : b[n] = <<i, "ack">>)
    <2>1. ASSUME NEW n PROVE b[n] \in {i} \X {"run", "ack"} <=> b[n] = <<i, "run">> \/ b[n] = <<i, "ack">>
      BY <1>1
    <2> QED
      BY <2>1, Zenon
  <1> QED
    BY <1>2 DEF OnBase, On

LEMMA OwnKept ==
    ASSUME HInv, TreesKept, KindsKept, ReportsKept, BaseKept,
           NEW i \in Ids, ledger'[i] = ledger[i],
           \A k \in {"run", "ack"} : On(i, k)' => On(i, k)
    PROVE  Own(i)'
  <1>1. GoodEntry(i, ledger[i], green, DOMAIN tree) /\ Own(i) /\ Kept
    BY PastKept DEF HInv, OInv, IInv, GoodEntries
  <1>2. OnBase(i)' => OnBase(i)
    <2>1. OnBase(i)' <=> On(i, "run")' \/ On(i, "ack")'
      BY OnOnBase
    <2> QED
      BY <2>1, OnOnBase
  <1>3. OwnRun(i)'
    <2> SUFFICES ASSUME ledger[i].kind = "run", ledger[i].status = "running" PROVE OwnRun(i)'
      BY DEF OwnRun
    <2>1. ledger[i].report.ok =>
            /\ tree'[ledger[i].report.base] = tree[ledger[i].report.base]
            /\ tree'[ledger[i].report.final] = tree[ledger[i].report.final]
      BY <1>1 DEF GoodEntry, TreesKept
    <2> QED
      BY <1>1, <1>2, <2>1 DEF Own, OwnRun, Tip
  <1>4. OwnPark(i)'
    <2> SUFFICES ASSUME Parked(i) PROVE OwnPark(i)'
      BY DEF OwnPark, Parked
    <2>1. \A c \in {ledger[i].park.base, ledger[i].park.fork, ledger[i].park.verified} :
             c \in DOMAIN tree' /\ tree'[c] = tree[c]
      BY <1>1 DEF GoodEntry, TreesKept, Own, OwnPark, Parked
    <2> QED
      BY <1>1, <2>1 DEF Own, OwnPark, Parked, Tip, On
  <1>5. OwnTarget(i)'
    <2> SUFFICES ASSUME ledger[i].kind = "unland" PROVE OwnTarget(i)'
      BY DEF OwnTarget
    <2>1. /\ Target(i)' = Target(i) /\ {Target(i).base, Target(i).final} \subseteq DOMAIN tree
      BY TargetKept DEF HInv, UInv, OInv
    <2>2. Target(i).final \in Commits
      BY <2>1 DEF HInv, OInv, IInv, TypeOK
    <2> QED
      BY <1>1, <1>2, <2>1, <2>2 DEF Own, OwnTarget, Kept
  <1> QED
    BY <1>3, <1>4, <1>5 DEF Own

LEMMA RecordsKept == ASSUME HInv, Next PROVE KindsKept /\ ReportsKept /\ BaseKept
  <1>1. BaseKept
    <2>1. ForeignLand => \E x \in Steps : base' = Append(base, x)
      BY DEF ForeignLand, Steps
    <2> QED
      BY <2>1, BaseFrame, RunsLandGreen, UnlandsLandGreen DEF BaseKept, HInv, OInv
  <1>2. ASSUME NEW i \in Ids, NEW e, ledger' = [ledger EXCEPT ![i] = e], e.kind # "none",
               \/ ledger[i].kind = "none"
               \/ /\ e.kind = ledger[i].kind /\ e.unlands = ledger[i].unlands
                  /\ ledger[i].status # "running" =>
                        e.status # "running" /\ e.report = ledger[i].report
        PROVE  KindsKept /\ ReportsKept
    <2>1. ledger'[i] = e /\ \A j \in Ids \ {i} : ledger'[j] = ledger[j]
      BY <1>2 DEF HInv, OInv, IInv, TypeOK
    <2>2. ASSUME NEW j \in Used
          PROVE  /\ j \in Used' /\ ledger'[j].kind = ledger[j].kind
                 /\ ledger'[j].unlands = ledger[j].unlands
                 /\ ledger[j].status # "running" =>
                      ledger'[j].status # "running" /\ ledger'[j].report = ledger[j].report
      <3>1. CASE j = i
        BY <1>2, <2>1, <2>2, <3>1 DEF Used
      <3>2. CASE j # i
        BY <2>1, <2>2, <3>2 DEF Used
      <3> QED
        BY <3>1, <3>2
    <2> QED
      BY <2>2 DEF KindsKept, ReportsKept
  <1>3. CASE UNCHANGED ledger
    <2>1. Used' = Used /\ ledger' = ledger
      BY <1>3 DEF Used
    <2> QED
      BY <1>1, <2>1 DEF KindsKept, ReportsKept
  <1>4. ASSUME NEW i \in Ids, Begin(i) PROVE KindsKept /\ ReportsKept
    <2>1. PICK rep, pk : IsNext(i) /\ ledger' = [ledger EXCEPT ![i] =
                           [NoEntry EXCEPT !.kind = "run", !.report = rep, !.park = pk]]
      BY <1>4, BeginShape, Zenon
    <2>2. PICK e : e = [NoEntry EXCEPT !.kind = "run", !.report = rep, !.park = pk]
      OBVIOUS
    <2>3. e.kind = "run" /\ ledger[i].kind = "none" /\ ledger' = [ledger EXCEPT ![i] = e]
      BY <2>1, <2>2 DEF IsNext, Used, NoEntry
    <2> QED
      BY <1>2, <2>3
  <1>5. ASSUME NEW i \in Ids, End(i) PROVE KindsKept /\ ReportsKept
    <2>1. PICK pk, st : ledger' = [ledger EXCEPT ![i] = [@ EXCEPT !.park = pk, !.status = st]]
      BY <1>5 DEF End
    <2>2. PICK e : e = [ledger[i] EXCEPT !.park = pk, !.status = st]
      OBVIOUS
    <2>3. /\ ledger[i].kind = "run" /\ ledger[i].status = "running" /\ ledger[i] \in Entries
      BY <1>5 DEF End, HInv, OInv, IInv, TypeOK
    <2>4. e.kind = "run" /\ e.unlands = ledger[i].unlands /\ ledger' = [ledger EXCEPT ![i] = e]
      BY <2>1, <2>2, <2>3 DEF Entries
    <2> QED
      BY <1>2, <2>3, <2>4
  <1>6. ASSUME NEW i \in Ids, Ack(i) PROVE KindsKept /\ ReportsKept
    <2>1. PICK e : e = [ledger[i] EXCEPT !.park.open = FALSE, !.park.landed = ledger[i].park.verified,
                                         !.status = "done"]
      OBVIOUS
    <2>2. /\ ledger[i].kind # "none" /\ ledger[i] \in Entries /\ ledger' = [ledger EXCEPT ![i] = e]
      BY <1>6, <2>1, OpenIsIdle DEF Ack, HInv, OInv, IInv, TypeOK
    <2>3. /\ e.kind = ledger[i].kind /\ e.unlands = ledger[i].unlands /\ e.status = "done"
          /\ e.report = ledger[i].report
      BY <2>1, <2>2 DEF Entries
    <2> QED
      BY <1>2, <2>2, <2>3
  <1>7. ASSUME NEW i \in Ids, Reverify(i) PROVE KindsKept /\ ReportsKept
    <2>1. PICK e : e = [ledger[i] EXCEPT !.park.base = base,
                                         !.park.verified = Append(base, <<i, "ack">>)]
      OBVIOUS
    <2>2. /\ ledger[i].kind # "none" /\ ledger[i] \in Entries /\ ledger[i].park.open
      BY <1>7, OpenIsIdle DEF Reverify, HInv, OInv, IInv, TypeOK
    <2>3. ledger' = [ledger EXCEPT ![i] = e]
      <3>1. PICK next : next = Append(base, <<i, "ack">>)
        OBVIOUS
      <3>2. ledger' = [ledger EXCEPT ![i].park.base = base, ![i].park.verified = next]
        BY <1>7, <3>1 DEF Reverify
      <3> QED
        BY <2>1, <3>1, <3>2 DEF HInv, OInv, IInv, TypeOK
    <2>4. /\ e.kind = ledger[i].kind /\ e.unlands = ledger[i].unlands
          /\ e.status = ledger[i].status /\ e.report = ledger[i].report
      BY <2>1, <2>2 DEF Entries
    <2> QED
      BY <1>2, <2>2, <2>3, <2>4
  <1>8. ASSUME NEW u \in Unlanders, planUnland(u) PROVE KindsKept /\ ReportsKept
    <2>1. PICK t \in Used, i \in Ids :
            IsNext(i) /\ ledger' = [ledger EXCEPT ![i] = [NoEntry EXCEPT !.kind = "unland", !.unlands = t]]
      BY <1>8 DEF planUnland
    <2>2. PICK e : e = [NoEntry EXCEPT !.kind = "unland", !.unlands = t]
      OBVIOUS
    <2>3. e.kind = "unland" /\ ledger[i].kind = "none" /\ ledger' = [ledger EXCEPT ![i] = e]
      BY <2>1, <2>2 DEF IsNext, Used, NoEntry
    <2> QED
      BY <1>2, <2>3
  <1>9. ASSUME NEW u \in Unlanders, AtWork(u), NEW rep, NEW pk, NEW st, finish(u, rep, pk, st)
        PROVE  KindsKept /\ ReportsKept
    <2>1. PICK i \in Ids : i = id[u] /\ ledger[i].kind = "unland" /\ ledger[i].status = "running"
      BY <1>9 DEF HInv, OInv, IInv, GoodCalls, GoodCall
    <2>2. PICK e : e = [ledger[i] EXCEPT !.report = rep, !.park = pk, !.status = st]
      OBVIOUS
    <2>3. e.kind = "unland" /\ e.unlands = ledger[i].unlands /\ ledger' = [ledger EXCEPT ![i] = e]
      BY <1>9, <2>1, <2>2 DEF finish, HInv, OInv, IInv, TypeOK, Entries
    <2> QED
      BY <1>2, <2>1, <2>3
  <1>10. ASSUME NEW u \in Unlanders, Blocked(u) \/ Fold(u) \/ Land(u) \/ Report(u)
         PROVE  KindsKept /\ ReportsKept
    <2>1. AtWork(u)
      BY <1>10 DEF Blocked, Fold, Land, Report, AtWork
    <2>2. UNCHANGED ledger \/ \E rep, pk, st : finish(u, rep, pk, st)
      BY <1>10, Zenon DEF Blocked, Fold, Land, Report
    <2> QED
      BY <1>3, <1>9, <2>1, <2>2
  <1>11. ForeignLand => UNCHANGED ledger
    BY DEF ForeignLand
  <1> QED
    BY <1>1, <1>3, <1>4, <1>5, <1>6, <1>7, <1>8, <1>10, <1>11 DEF Next

LEMMA NoEmptyCommit == ASSUME HInv, Next PROVE NoCommit \notin DOMAIN tree'
  <1>1. /\ NoCommit \notin DOMAIN tree /\ base \in Commits /\ base \in DOMAIN tree
        /\ \A c, x : c \in Commits /\ x \in Steps => Append(c, x) \in Commits /\ Append(c, x) # NoCommit
    BY Grown DEF HInv, History, OInv, IInv, TypeOK
  <1>2. ASSUME NEW i \in Ids, Begin(i) PROVE NoCommit \notin DOMAIN tree'
    <2>1. PICK first, second :
             /\ \E clean : first = IF clean = {} THEN base ELSE Append(base, <<i, "run">>)
             /\ \E held : second = IF held = {} THEN first ELSE Append(first, <<i, "ack">>)
             /\ DOMAIN tree' = DOMAIN tree \union {first, second}
      BY <1>2, BeginShape, Zenon
    <2>2. first \in Commits /\ first # NoCommit
      BY <1>1, <2>1, StepOf
    <2>3. second # NoCommit
      BY <1>1, <2>1, <2>2, StepOf
    <2> QED
      BY <1>1, <2>1, <2>2, <2>3
  <1>3. ASSUME NEW i \in Ids, Reverify(i) PROVE NoCommit \notin DOMAIN tree'
    <2>1. DOMAIN tree' = DOMAIN tree \union {Append(base, <<i, "ack">>)}
      BY <1>3 DEF Reverify, WithTree
    <2> QED
      BY <1>1, <2>1, StepOf
  <1>4. ASSUME ForeignLand PROVE NoCommit \notin DOMAIN tree'
    <2>1. DOMAIN tree' = DOMAIN tree \union {Append(base, Foreign)} /\ Foreign \in Steps
      BY <1>4 DEF ForeignLand, WithTree, Steps
    <2> QED
      BY <1>1, <2>1
  <1>5. ASSUME NEW u \in Unlanders, Fold(u) PROVE NoCommit \notin DOMAIN tree'
    <2>1. DOMAIN tree' = DOMAIN tree \union {Append(plan[u].head, <<id[u], "run">>)}
      BY <1>5 DEF Fold, WithTree
    <2>2. plan[u].head \in Commits /\ id[u] \in Ids
      BY <1>5 DEF Fold, AtWork, HInv, OInv, IInv, TypeOK, Plans, GoodCalls, GoodCall
    <2> QED
      BY <1>1, <2>1, <2>2, StepOf
  <1>6. ASSUME NEW i \in Ids, End(i) \/ Ack(i) PROVE UNCHANGED tree
    BY <1>6 DEF End, Ack
  <1>7. ASSUME NEW u \in Unlanders, planUnland(u) \/ Blocked(u) \/ Land(u) \/ Report(u)
        PROVE  UNCHANGED tree
    BY <1>7 DEF planUnland, Blocked, Land, Report
  <1> QED
    BY <1>1, <1>2, <1>3, <1>4, <1>5, <1>6, <1>7 DEF Next

(* What every step that keeps the trees keeps.                               *)
LEMMA StepKept ==
    ASSUME HInv, Next, TreesKept
    PROVE  /\ UInv /\ OInv /\ IInv /\ History /\ Kept
           /\ KindsKept /\ ReportsKept /\ BaseKept /\ NoCommit \notin DOMAIN tree'
  BY RecordsKept, NoEmptyCommit, PastKept DEF HInv, UInv, OInv

(* A step that moves the base keeps the rest of its history.                 *)
LEMMA HistoryStep ==
    ASSUME HInv, Next, TreesKept,
           \/ UNCHANGED base
           \/ \E s \in Steps :
                /\ base' = Append(base, s) /\ base' \in DOMAIN tree'
                /\ s # Foreign => s[1] \in Used /\ (\A n \in 1..Len(base) : base[n] # s)
                /\ \E b, c : b = base /\ c = base' /\ Changes(b, c, s)'
    PROVE  History'
  <1>1. CASE UNCHANGED base
    BY <1>1, StepKept, HistoryStays
  <1>2. CASE ~(UNCHANGED base)
    <2>1. PICK s \in Steps :
                /\ base' = Append(base, s) /\ base' \in DOMAIN tree'
                /\ s # Foreign => s[1] \in Used /\ (\A n \in 1..Len(base) : base[n] # s)
                /\ \E b, c : b = base /\ c = base' /\ Changes(b, c, s)'
      BY <1>2
    <2>2. PICK b, c : b = base /\ c = base' /\ Changes(b, c, s)'
      BY <2>1
    <2> QED
      BY <2>1, <2>2, StepKept, HistoryGrows
  <1> QED
    BY <1>1, <1>2

(* Whoever else's record a step leaves alone, and whose commits it does not   *)
(* put on the base, has what it had.                                          *)
LEMMA OthersOwn ==
    ASSUME HInv, Next, TreesKept, NEW i \in Ids, Own(i)',
           \A j \in Ids \ {i} : ledger'[j] = ledger[j] /\ \A k : On(j, k)' => On(j, k)
    PROVE  \A j \in Ids : Own(j)'
  <1>1. ASSUME NEW j \in Ids, j # i PROVE Own(j)'
    BY <1>1, StepKept, OwnKept
  <1> QED
    BY <1>1

LEMMA OnStays == ASSUME UNCHANGED base PROVE \A j, k : On(j, k)' <=> On(j, k)
  BY DEF On

LEMMA UnlandOwn ==
    ASSUME HInv, Next, TreesKept, NEW i \in Ids, ledger[i].kind = "unland",
           ledger'[i].status = "awaiting-ack" => ~OnBase(i)'
    PROVE  Own(i)'
  <1>1. /\ UInv /\ ReportsKept /\ Kept /\ Own(i)
        /\ ledger'[i].kind = "unland" /\ ledger'[i].unlands = ledger[i].unlands
    BY StepKept DEF KindsKept, Used, HInv
  <1>2. Target(i)' = Target(i) /\ {Target(i).base, Target(i).final} \subseteq DOMAIN tree
    BY <1>1, TargetKept
  <1>3. Target(i).final \in Commits
    BY <1>1, <1>2 DEF UInv, IInv, TypeOK
  <1>4. OwnTarget(i)'
    BY <1>1, <1>2, <1>3 DEF Own, OwnTarget, Kept
  <1> QED
    BY <1>1, <1>4 DEF Own, OwnRun, OwnPark, Parked

LEMMA BeginOwn ==
    ASSUME HInv, Next, TreesKept, NEW i \in Ids, Begin(i)
    PROVE  History' /\ \A j \in Ids : Own(j)'
  <1>0. PICK clean \in SUBSET Regions, held \in SUBSET Regions, ok \in BOOLEAN :
          LET first  == IF clean = {} THEN base ELSE Append(base, <<i, "run">>)
              second == IF held = {} THEN first ELSE Append(first, <<i, "ack">>)
          IN  /\ IsNext(i)
              /\ Cardinality({j \in Used : ledger[j].kind = "run"}) < MaxRuns
              /\ Names(clean) \intersect Names(held) = {} /\ clean \union held # {}
              /\ held # {} => ok
              /\ tree' = [c \in DOMAIN tree \union {first, second} |->
                            IF c \in DOMAIN tree THEN tree[c]
                            ELSE IF c = first THEN Write(tree[base], clean, first)
                            ELSE Write(Write(tree[base], clean, first), held, second)]
              /\ green' = IF ok THEN green \union ({first, second} \ {base}) ELSE green
              /\ ledger' = [ledger EXCEPT ![i] =
                   [NoEntry EXCEPT !.kind = "run",
                      !.report = [base |-> base, final |-> first, ok |-> ok],
                      !.park = IF held = {} THEN NoPark
                               ELSE [open |-> FALSE, fork |-> base, base |-> first,
                                     verified |-> second, landed |-> NoCommit,
                                     side |-> Write(tree[base], held, second)]]]
              /\ UNCHANGED <<file, base, pc, plan, id, made>>
    BY DEF Begin
  <1>a. PICK first : first = IF clean = {} THEN base ELSE Append(base, <<i, "run">>)
    OBVIOUS
  <1>b. PICK second : second = IF held = {} THEN first ELSE Append(first, <<i, "ack">>)
    OBVIOUS
  <1>c. PICK rep : rep = [base |-> base, final |-> first, ok |-> ok]
    OBVIOUS
  <1>d. PICK pk : pk = IF held = {} THEN NoPark
                       ELSE [open |-> FALSE, fork |-> base, base |-> first,
                             verified |-> second, landed |-> NoCommit,
                             side |-> Write(tree[base], held, second)]
    OBVIOUS
  <1>1. /\ IsNext(i)
        /\ tree' = [c \in DOMAIN tree \union {first, second} |->
                      IF c \in DOMAIN tree THEN tree[c]
                      ELSE IF c = first THEN Write(tree[base], clean, first)
                      ELSE Write(Write(tree[base], clean, first), held, second)]
        /\ ledger' = [ledger EXCEPT ![i] =
             [NoEntry EXCEPT !.kind = "run", !.report = rep, !.park = pk]]
        /\ UNCHANGED base
    BY <1>0, <1>a, <1>b, <1>c, <1>d
  <1>2. /\ i \notin Used /\ base \in Commits /\ base \in DOMAIN tree /\ tree[base] \in Trees
        /\ ~OnBase(i) /\ OldCommits
    BY <1>1 DEF IsNext, Used, HInv, OInv, IInv, TypeOK, Known, Undoing
  <1>3. /\ first \in Commits
        /\ clean # {} => Tip(first) = <<i, "run">> /\ first \notin DOMAIN tree
        /\ clean = {} => first = base
    <2>1. CASE clean = {}
      BY <1>a, <1>2, <2>1
    <2>2. CASE clean # {}
      <3>1. first = Append(base, <<i, "run">>)
        BY <1>a, <2>2
      <3>2. first \in Commits /\ Tip(first) = <<i, "run">>
        BY <1>2, <3>1, Tipped, StepOf
      <3> QED
        BY <1>2, <2>2, <3>2 DEF OldCommits
    <2> QED
      BY <2>1, <2>2
  <1>4. held # {} => /\ Tip(second) = <<i, "ack">> /\ second \notin DOMAIN tree /\ second # first
                     /\ second = Append(first, <<i, "ack">>)
    <2> SUFFICES ASSUME held # {} PROVE /\ Tip(second) = <<i, "ack">> /\ second \notin DOMAIN tree
                                        /\ second # first
      BY <1>b
    <2>1. second = Append(first, <<i, "ack">>)
      BY <1>b
    <2>2. Tip(second) = <<i, "ack">> /\ second # first
      BY <1>3, <2>1, Tipped, Grown, StepOf
    <2> QED
      BY <1>2, <2>2 DEF OldCommits
  <1>5. /\ tree'[base] = tree[base] /\ base \in DOMAIN tree'
        /\ \A p \in Regions : tree'[first][p] = tree[base][p] \/ Tip(tree'[first][p]) = <<i, "run">>
    <2>1. tree'[base] = tree[base] /\ base \in DOMAIN tree'
      BY <1>2 DEF TreesKept
    <2>2. clean # {} => tree'[first] = Write(tree[base], clean, first)
      BY <1>1, <1>3
    <2> QED
      BY <1>3, <2>1, <2>2 DEF Write
  <1>6. held # {} => \A p \in Regions : \/ tree'[second][p] = tree'[first][p]
                                       \/ tree'[second][p] = second
    <2> SUFFICES ASSUME held # {}, NEW p \in Regions
                 PROVE  tree'[second][p] = tree'[first][p] \/ tree'[second][p] = second
      OBVIOUS
    <2>1. tree'[second] = Write(Write(tree[base], clean, first), held, second)
      BY <1>1, <1>4
    <2>2. tree'[first][p] = Write(tree[base], clean, first)[p]
      <3>1. CASE clean # {}
        BY <1>1, <1>3, <3>1
      <3>2. CASE clean = {}
        BY <1>3, <1>5, <3>2 DEF Write
      <3> QED
        BY <3>1, <3>2
    <2> QED
      BY <2>1, <2>2 DEF Write
  <1>7. /\ ledger'[i].kind = "run" /\ ledger'[i].report = rep /\ ledger'[i].park = pk
        /\ \A j \in Ids \ {i} : ledger'[j] = ledger[j]
    BY <1>1 DEF HInv, OInv, IInv, TypeOK, NoEntry
  <1>8. ~OnBase(i)' /\ ~On(i, "ack")'
    BY <1>1, <1>2, OnOnBase, OnStays
  <1>9. OwnRun(i)'
    <2>1. rep.base = base /\ rep.final = first /\ (first = base \/ first = Append(base, <<i, "run">>))
      BY <1>a, <1>c
    <2> QED
      BY <1>5, <1>7, <1>8, <2>1 DEF OwnRun, Tip
  <1>10. OwnPark(i)'
    <2> SUFFICES ASSUME pk.verified # NoCommit PROVE OwnPark(i)'
      BY <1>7 DEF OwnPark, Parked
    <2>1. held # {}
      BY <1>d DEF NoPark
    <2>2. /\ pk.fork = base /\ pk.base = first /\ pk.verified = second
          /\ pk.side = Write(tree[base], held, second)
      BY <1>d, <2>1
    <2>3. first \in DOMAIN tree'
      BY <1>1
    <2>4. \A p \in Regions : pk.side[p] = tree[base][p] \/ pk.side[p] = second
      BY <2>2 DEF Write
    <2> QED
      BY <1>4, <1>5, <1>6, <1>7, <1>8, <2>1, <2>2, <2>3, <2>4 DEF OwnPark, Tip
  <1>11. Own(i)'
    BY <1>7, <1>9, <1>10 DEF Own, OwnTarget
  <1>12. \A j \in Ids : Own(j)'
    BY <1>1, <1>7, <1>11, OthersOwn, OnStays
  <1> QED
    BY <1>1, <1>12, HistoryStep

(* One step of the base, by i's own commit.                                  *)
LEMMA OnGrows ==
    ASSUME HInv, NEW s \in Steps, base' = Append(base, s)
    PROVE  \A j \in Ids : \A k : On(j, k)' <=> On(j, k) \/ s = <<j, k>>
  BY PastGrows DEF HInv, OInv, IInv, TypeOK

LEMMA NotYet ==
    ASSUME NEW i, NEW k, ~On(i, k)
    PROVE  \A n \in 1..Len(base) : base[n] # <<i, k>>
  BY DEF On

LEMMA EndOwn ==
    ASSUME HInv, Next, NEW i \in Ids, End(i)
    PROVE  History' /\ \A j \in Ids : Own(j)'
  <1>1. /\ ledger[i].kind = "run" /\ ledger[i].status = "running" /\ ledger[i] \in Entries
        /\ UNCHANGED tree /\ TreesKept
        /\ base' = IF ledger[i].report.ok /\ base = ledger[i].report.base
                   THEN ledger[i].report.final ELSE base
        /\ GoodEntry(i, ledger[i], green, DOMAIN tree) /\ OwnRun(i) /\ OwnPark(i)
        /\ base \in Commits
    BY DEF End, TreesKept, HInv, OInv, IInv, TypeOK, GoodEntries, Own
  <1> DEFINE held == (ledger[i].report.ok /\ base = ledger[i].report.base)
                     /\ ledger[i].park.verified # NoCommit
  <1>a. PICK pk : pk = IF held THEN [ledger[i].park EXCEPT !.open = TRUE] ELSE NoPark
    OBVIOUS
  <1>b. PICK st : st = IF held THEN "awaiting-ack" ELSE "done"
    OBVIOUS
  <1>c. PICK e : e = [ledger[i] EXCEPT !.park = pk, !.status = st]
    OBVIOUS
  <1>d. ledger' = [ledger EXCEPT ![i] = e]
    BY <1>a, <1>b, <1>c DEF End
  <1>2. /\ st # "running" /\ e = [ledger[i] EXCEPT !.park = pk, !.status = st]
        /\ ledger' = [ledger EXCEPT ![i] = e]
        /\ \/ pk = NoPark
           \/ pk = [ledger[i].park EXCEPT !.open = TRUE] /\ ledger[i].park.verified # NoCommit
    BY <1>a, <1>b, <1>c, <1>d
  <1> HIDE DEF held
  <1>3. /\ ledger'[i] = e /\ e.kind = "run" /\ e.status # "running" /\ e.park = pk
        /\ \A j \in Ids \ {i} : ledger'[j] = ledger[j]
    BY <1>1, <1>2 DEF HInv, OInv, IInv, TypeOK, Entries
  <1>4. ~On(i, "run") /\ ~On(i, "ack")
    BY <1>1, OnOnBase DEF OwnRun
  <1>5. base' = base \/ base' = Append(base, <<i, "run">>)
    BY <1>1 DEF OwnRun
  <1>6. /\ \A j \in Ids \ {i} : \A k : On(j, k)' => On(j, k)
        /\ ~On(i, "ack")'
    <2>1. CASE base' = base
      BY <1>4, <2>1, OnStays
    <2>2. CASE base' = Append(base, <<i, "run">>)
      BY <1>4, <2>2, OnGrows, StepOf
    <2> QED
      BY <1>5, <2>1, <2>2
  <1>7. OwnPark(i)'
    <2> SUFFICES ASSUME pk.verified # NoCommit PROVE OwnPark(i)'
      BY <1>3 DEF OwnPark, Parked
    <2>1. pk = [ledger[i].park EXCEPT !.open = TRUE] /\ ledger[i].park.verified # NoCommit
      BY <1>2 DEF NoPark
    <2>2. /\ pk.base = ledger[i].park.base /\ pk.fork = ledger[i].park.fork
          /\ pk.verified = ledger[i].park.verified /\ pk.side = ledger[i].park.side
      BY <1>1, <2>1 DEF Entries, Parks
    <2>3. /\ {pk.base, pk.fork} \subseteq DOMAIN tree
          /\ pk.verified = Append(pk.base, <<i, "ack">>)
          /\ \A p \in Regions :
               /\ pk.side[p] = tree[pk.fork][p] \/ Tip(pk.side[p]) = <<i, "ack">>
               /\ \/ tree[pk.verified][p] = tree[pk.base][p]
                  \/ Tip(tree[pk.verified][p]) = <<i, "ack">>
      BY <1>1, <2>1, <2>2 DEF OwnPark, Parked
    <2>4. ledger'[i].park = pk /\ tree' = tree /\ ~On(i, "ack")'
      BY <1>1, <1>3, <1>6
    <2> QED
      BY <2>3, <2>4 DEF OwnPark, Tip
  <1>8. Own(i)'
    BY <1>3, <1>7 DEF Own, OwnRun, OwnTarget
  <1>9. History'
    <2>1. CASE base' = base
      BY <1>1, <2>1, HistoryStep
    <2>2. CASE base' # base
      <3>1. /\ ledger[i].report.ok /\ base = ledger[i].report.base /\ base' = ledger[i].report.final
            /\ base' = Append(base, <<i, "run">>)
        BY <1>1, <1>5, <2>2
      <3>2. base' \in DOMAIN tree'
        BY <1>1, <3>1 DEF GoodEntry
      <3>3. PICK s, b, c : s = <<i, "run">> /\ b = base /\ c = base'
        OBVIOUS
      <3>4. Changes(b, c, s)'
        <4>1. s # Foreign /\ s[1] = i
          BY <3>3, UnlandAssumption DEF Landings
        <4>2. \A p \in Regions : tree'[c][p] = tree'[b][p] \/ Tip(tree'[c][p]) = s
          BY <1>1, <3>1, <3>3 DEF OwnRun
        <4> QED
          BY <1>3, <4>1, <4>2 DEF Changes, Tip
      <3>5. s \in Steps /\ s[1] \in Used /\ \A n \in 1..Len(base) : base[n] # s
        BY <1>1, <1>4, <3>3, StepOf, NotYet DEF Used
      <3> QED
        BY <1>1, <3>1, <3>2, <3>3, <3>4, <3>5, HistoryStep
    <2> QED
      BY <2>1, <2>2
  <1> QED
    BY <1>1, <1>3, <1>6, <1>8, <1>9, OthersOwn

LEMMA AckOwn ==
    ASSUME HInv, Next, NEW i \in Ids, Ack(i)
    PROVE  History' /\ \A j \in Ids : Own(j)'
  <1>1. /\ ledger[i].park.open /\ ledger[i] \in Entries
        /\ base = ledger[i].park.base /\ base' = ledger[i].park.verified
        /\ UNCHANGED tree /\ TreesKept
        /\ OwnPark(i) /\ OwnTarget(i) /\ UndoEntry(i)
    BY DEF Ack, TreesKept, HInv, OInv, IInv, TypeOK, Own, Undoing
  <1>2. /\ ledger[i].status = "awaiting-ack" /\ ledger[i].kind # "none"
        /\ ledger[i].park.verified # NoCommit /\ base' \in DOMAIN tree'
        /\ Good(i, base, base', green)
    BY <1>1, OpenIsIdle DEF HInv, OInv
  <1>3. PICK k \in {"run", "ack"} : base' = Append(base, <<i, k>>)
    BY <1>2 DEF Good
  <1>4. /\ ledger'[i].status = "done" /\ ledger'[i].kind = ledger[i].kind
        /\ ledger'[i].unlands = ledger[i].unlands
        /\ \A j \in Ids \ {i} : ledger'[j] = ledger[j]
    BY <1>1 DEF Ack, HInv, OInv, IInv, TypeOK, Entries
  <1>5. \A j \in Ids \ {i} : \A m : On(j, m)' => On(j, m)
    BY <1>3, OnGrows, StepOf
  <1>6. PICK s, b, c : s = <<i, k>> /\ b = base /\ c = base'
    OBVIOUS
  <1>7. s # Foreign /\ s[1] = i /\ s \in Steps /\ i \in Used
    <2>1. s \in Landings /\ s[1] = i
      BY <1>6 DEF Landings
    <2> QED
      BY <1>2, <2>1, UnlandAssumption DEF Used, Steps
  <1>8. CASE ledger[i].kind = "unland"
    <2>1. Own(i)'
      BY <1>1, <1>4, <1>8, UnlandOwn
    <2>2. \A n \in 1..Len(base) : base[n] # s
      BY <1>1, <1>2, <1>6, <1>8, OnOnBase, NotYet DEF OwnTarget
    <2>3. Changes(b, c, s)'
      <3>1. Restores(tree, c, b, Target(i))
        BY <1>1, <1>2, <1>6, <1>8 DEF UndoEntry
      <3>2. Target(i)' = Target(i)
        BY <1>1, <1>4, <1>8, StepKept, TargetKept
      <3> QED
        BY <1>1, <1>4, <1>7, <1>8, <3>1, <3>2 DEF Changes
    <2>4. History'
      BY <1>1, <1>2, <1>3, <1>6, <1>7, <2>2, <2>3, HistoryStep
    <2> QED
      BY <1>1, <1>4, <1>5, <2>1, <2>4, OthersOwn
  <1>9. CASE ledger[i].kind = "run"
    <2>1. Own(i)'
      BY <1>4, <1>9 DEF Own, OwnRun, OwnPark, Parked, OwnTarget
    <2>2. /\ ~On(i, "ack") /\ base' = Append(base, <<i, "ack">>)
          /\ \A p \in Regions : tree[base'][p] = tree[base][p] \/ Tip(tree[base'][p]) = <<i, "ack">>
      BY <1>1, <1>2, <1>9 DEF OwnPark, Parked
    <2>3. s = <<i, "ack">>
      <3>1. base \in Commits
        BY DEF HInv, OInv, IInv, TypeOK
      <3> QED
        BY <1>3, <1>6, <2>2, <3>1, Tipped, StepOf
    <2>4. \A n \in 1..Len(base) : base[n] # s
      BY <2>2, <2>3, NotYet
    <2>5. Changes(b, c, s)'
      BY <1>1, <1>4, <1>6, <1>7, <1>9, <2>2, <2>3 DEF Changes, Tip
    <2>6. History'
      BY <1>1, <1>2, <1>3, <1>6, <1>7, <2>4, <2>5, HistoryStep
    <2> QED
      BY <1>1, <1>4, <1>5, <2>1, <2>6, OthersOwn
  <1> QED
    BY <1>1, <1>2, <1>8, <1>9 DEF Entries

LEMMA ReverifyOwn ==
    ASSUME HInv, Next, ~Resolver, NEW i \in Ids, Reverify(i)
    PROVE  History' /\ \A j \in Ids : Own(j)'
  <1>1. TreesKept
    BY ReverifyUndo DEF HInv, UInv, OInv
  <1> DEFINE old == ledger[i].park
  <1>2. PICK next : next = Append(base, <<i, "ack">>)
    OBVIOUS
  <1>3. /\ old.open /\ ledger[i] \in Entries /\ UNCHANGED base
        /\ tree' = WithTree(next, [p \in Regions |-> Merge(tree[old.fork], tree[base], old.side)[p]])
        /\ ledger' = [ledger EXCEPT ![i].park.base = base, ![i].park.verified = next]
        /\ base \in Commits /\ base \in DOMAIN tree
    BY <1>2 DEF Reverify, HInv, OInv, IInv, TypeOK
  <1>4. /\ ledger[i].status = "awaiting-ack" /\ ledger[i].kind # "none" /\ old.verified # NoCommit
    BY <1>3, OpenIsIdle DEF HInv, OInv
  <1>5. /\ ledger'[i].kind = ledger[i].kind /\ ledger'[i].status = "awaiting-ack"
        /\ ledger'[i].unlands = ledger[i].unlands
        /\ ledger'[i].park.base = base /\ ledger'[i].park.verified = next
        /\ ledger'[i].park.fork = old.fork /\ ledger'[i].park.side = old.side
        /\ \A j \in Ids \ {i} : ledger'[j] = ledger[j]
    BY <1>3, <1>4 DEF HInv, OInv, IInv, TypeOK, Entries, Parks
  <1>6. \A j, k : On(j, k)' => On(j, k)
    BY <1>3, OnStays
  <1>7. CASE ledger[i].kind = "unland"
    <2>1. ~OnBase(i)
      BY <1>4, <1>7 DEF HInv, Own, OwnTarget
    <2>2. ~OnBase(i)'
      BY <1>3, <2>1, Still
    <2> QED
      BY <1>1, <1>3, <1>5, <1>6, <1>7, <2>2, UnlandOwn, OthersOwn, HistoryStep
  <1>8. CASE ledger[i].kind = "run"
    <2>1. /\ ~On(i, "ack") /\ old.fork \in DOMAIN tree
          /\ \A p \in Regions : old.side[p] = tree[old.fork][p] \/ Tip(old.side[p]) = <<i, "ack">>
      BY <1>4, <1>8 DEF HInv, Own, OwnPark, Parked
    <2>2. /\ tree'[old.fork] = tree[old.fork] /\ tree'[base] = tree[base]
          /\ {base, old.fork} \subseteq DOMAIN tree'
      BY <1>1, <1>3, <2>1 DEF TreesKept
    <2>3. tree'[next] = [p \in Regions |-> Merge(tree[old.fork], tree[base], old.side)[p]]
      BY <1>3 DEF WithTree
    <2>4. ASSUME NEW p \in Regions
          PROVE  tree'[next][p] = tree[base][p] \/ Tip(tree'[next][p]) = <<i, "ack">>
      BY <2>1, <2>3 DEF Merge
    <2>5. ~On(i, "ack")'
      BY <1>6, <2>1
    <2> HIDE DEF old
    <2>6. OwnPark(i)'
      BY <1>2, <1>5, <2>1, <2>2, <2>4, <2>5 DEF OwnPark, Tip
    <2>7. Own(i)'
      BY <1>5, <1>8, <2>6 DEF Own, OwnRun, OwnTarget
    <2> QED
      BY <1>1, <1>3, <1>5, <1>6, <2>7, OthersOwn, HistoryStep
  <1> QED
    BY <1>3, <1>4, <1>7, <1>8 DEF Entries

LEMMA ForeignOwn ==
    ASSUME HInv, Next, ForeignLand
    PROVE  History' /\ \A j \in Ids : Own(j)'
  <1>1. TreesKept
    BY ForeignUndo DEF HInv, UInv, OInv
  <1>2. PICK q \in Regions : /\ base' = Append(base, Foreign)
                           /\ tree' = WithTree(base', [tree[base] EXCEPT ![q] = base'])
                           /\ UNCHANGED ledger
    BY DEF ForeignLand
  <1>3. /\ Foreign \in Steps /\ base \in DOMAIN tree /\ tree[base] \in Trees
        /\ \A j \in Ids : \A k : k \in {"run", "ack"} => Foreign # <<j, k>>
    BY UnlandAssumption DEF Steps, Landings, HInv, OInv, IInv, TypeOK
  <1>4. /\ base' \in DOMAIN tree' /\ tree'[base] = tree[base]
        /\ tree'[base'] = [tree[base] EXCEPT ![q] = base']
    BY <1>1, <1>2, <1>3 DEF WithTree, TreesKept
  <1>5. History'
    <2>1. PICK b, c : b = base /\ c = base'
      OBVIOUS
    <2>2. \A p \in Regions : tree'[c][p] \in {tree'[b][p], c}
      BY <1>3, <1>4, <2>1 DEF Trees
    <2>3. Changes(b, c, Foreign)'
      BY <2>2 DEF Changes
    <2> QED
      BY <1>1, <1>2, <1>3, <1>4, <2>1, <2>3, HistoryStep
  <1>6. ASSUME NEW j \in Ids PROVE Own(j)'
    <2>1. \A k \in {"run", "ack"} : On(j, k)' => On(j, k)
      BY <1>2, <1>3, OnGrows
    <2> QED
      BY <1>1, <1>2, <2>1, StepKept, OwnKept
  <1> QED
    BY <1>5, <1>6

LEMMA PlanOwn ==
    ASSUME HInv, Next, NEW u \in Unlanders, planUnland(u)
    PROVE  History' /\ \A j \in Ids : Own(j)'
  <1>1. PICK t \in Used, i \in Ids :
          /\ landedHere(report(t)) /\ IsNext(i)
          /\ ledger' = [ledger EXCEPT ![i] = [NoEntry EXCEPT !.kind = "unland", !.unlands = t]]
          /\ UNCHANGED base /\ UNCHANGED tree
    BY DEF planUnland
  <1>2. TreesKept /\ t \in Ids /\ t # i
    BY <1>1 DEF TreesKept, IsNext, Used
  <1>3. /\ ledger'[i].kind = "unland" /\ ledger'[i].unlands = t /\ ledger'[i].status = "running"
        /\ \A j \in Ids \ {i} : ledger'[j] = ledger[j]
    BY <1>1 DEF HInv, OInv, IInv, TypeOK, NoEntry
  <1>4. report(t) = ledger[t].report
    BY <1>1 DEF report, landedHere, landed, NoReport
  <1>5. OwnTarget(i)'
    BY <1>1, <1>2, <1>3, <1>4 DEF OwnTarget, Target, landedHere
  <1>6. Own(i)'
    BY <1>3, <1>5 DEF Own, OwnRun, OwnPark, Parked
  <1> QED
    BY <1>1, <1>2, <1>3, <1>6, OnStays, OthersOwn, HistoryStep

LEMMA FinishOwn ==
    ASSUME HInv, Next, TreesKept, UNCHANGED base, NEW u \in Unlanders, AtWork(u),
           NEW rep, NEW pk, NEW st, finish(u, rep, pk, st), st = "awaiting-ack" => pc[u] = "fold"
    PROVE  History' /\ \A j \in Ids : Own(j)'
  <1>1. PICK i \in Ids : i = id[u] /\ ledger[i].kind = "unland"
    BY DEF HInv, OInv, IInv, GoodCalls, GoodCall
  <1>2. /\ ledger'[i].status = st /\ \A j \in Ids \ {i} : ledger'[j] = ledger[j]
    BY <1>1 DEF finish, HInv, OInv, IInv, TypeOK, Entries
  <1>3. st = "awaiting-ack" => ~OnBase(i)
    BY <1>1 DEF HInv, OInv, CallTrue
  <1>4. st = "awaiting-ack" => ~OnBase(i)'
    BY <1>1, <1>3, Still
  <1> QED
    BY <1>1, <1>2, <1>4, OnStays, UnlandOwn, OthersOwn, HistoryStep

LEMMA UnlanderOwn ==
    ASSUME HInv, Next, NEW u \in Unlanders, Blocked(u) \/ Fold(u) \/ Land(u) \/ Report(u)
    PROVE  History' /\ \A j \in Ids : Own(j)'
  <1>1. AtWork(u) /\ GoodCall(u) /\ UndoCall(u) /\ CallTrue(u) /\ TreesKept
    <2>1. CASE Fold(u)
      BY <2>1, FoldUndo DEF Fold, AtWork, HInv, UInv, OInv, Undoing, IInv, GoodCalls
    <2>2. CASE Blocked(u) \/ Land(u) \/ Report(u)
      BY <2>2 DEF Blocked, Land, Report, AtWork, TreesKept, HInv, OInv, Undoing, IInv, GoodCalls
    <2> QED
      BY <2>1, <2>2
  <1>2. CASE UNCHANGED base /\ \E rep, pk, st : /\ finish(u, rep, pk, st)
                                                /\ st = "awaiting-ack" => pc[u] = "fold"
    BY <1>1, <1>2, FinishOwn
  <1>3. CASE UNCHANGED base /\ UNCHANGED ledger
    <2>1. ASSUME NEW j \in Ids PROVE Own(j)'
      BY <1>1, <1>3, OnStays, StepKept, OwnKept
    <2> QED
      BY <1>1, <1>3, <2>1, HistoryStep
  <1>4. CASE /\ pc[u] = "land" /\ base = plan[u].head /\ base' = made[u]
             /\ UNCHANGED ledger /\ UNCHANGED tree
    <2>1. PICK i \in Ids : i = id[u]
      BY <1>1 DEF GoodCall
    <2>2. /\ base' = Append(base, <<i, "run">>) /\ base' \in DOMAIN tree' /\ ~OnBase(i)
          /\ ledger[i].kind = "unland" /\ ledger[i].status = "running"
          /\ Restores(tree, base', base, Target(i))
      BY <1>1, <1>4, <2>1 DEF GoodCall, AtWork, CallTrue, UndoCall
    <2>3. PICK s, b, c : s = <<i, "run">> /\ b = base /\ c = base'
      OBVIOUS
    <2>4. s # Foreign /\ s[1] = i /\ s \in Steps /\ i \in Used
      <3>1. s \in Landings /\ s[1] = i
        BY <2>3 DEF Landings
      <3> QED
        BY <2>2, <3>1, UnlandAssumption DEF Used, Steps
    <2>5. \A n \in 1..Len(base) : base[n] # s
      BY <2>2, <2>3, OnOnBase, NotYet
    <2>6. Changes(b, c, s)'
      <3>1. Target(i)' = Target(i)
        BY <1>4 DEF Target
      <3> QED
        BY <1>4, <2>2, <2>3, <2>4, <3>1 DEF Changes
    <2>7. Own(i)'
      BY <1>1, <1>4, <2>2, UnlandOwn
    <2>8. \A j \in Ids \ {i} : \A k : On(j, k)' => On(j, k)
      BY <2>2, OnGrows, StepOf
    <2>9. History'
      BY <1>1, <2>2, <2>3, <2>4, <2>5, <2>6, HistoryStep
    <2> QED
      BY <1>1, <1>4, <2>7, <2>8, <2>9, OthersOwn
  <1> QED
    BY <1>2, <1>3, <1>4 DEF Blocked, Fold, Land, Report

LEMMA HistoryInitially == Init => HInv
  <1> SUFFICES ASSUME Init PROVE HInv
    OBVIOUS
  <1>1. OInv /\ Undoing
    BY InitiallyTrue, InitiallyUndoing DEF UInv
  <1>2. /\ base = <<Root>> /\ tree = [c \in {<<Root>>} |-> [p \in Regions |-> <<Root>>]]
        /\ Used = {} /\ \A i \in Ids : ledger[i].kind = "none"
    BY DEF Init, NoEntry, Used
  <1>3. /\ Len(base) = 1 /\ base[1] = Root /\ base \in DOMAIN tree
        /\ NoCommit \notin DOMAIN tree /\ Past(1) = base
    <2>1. base \in Commits /\ Len(base) = 1
      BY <1>1, <1>2 DEF OInv, IInv, TypeOK
    <2>2. Past(1) = base
      BY <2>1, PastNow
    <2> QED
      BY <1>2, <2>1, <2>2 DEF NoCommit
  <1>4. Root # Foreign
    BY UnlandAssumption DEF Steps
  <1>5. Written(1)
    <2>1. ASSUME NEW p \in Regions PROVE Tip(tree[Past(1)][p]) = base[1]
      <3>1. tree[Past(1)][p] = base
        BY <1>2, <1>3
      <3> QED
        BY <1>3, <3>1 DEF Tip
    <2> QED
      BY <1>3, <1>4, <2>1 DEF Written
  <1>6. History
    BY <1>2, <1>3, <1>5 DEF History
  <1>7. \A i \in Ids : Own(i)
    BY <1>2 DEF Own, OwnRun, OwnPark, Parked, OwnTarget
  <1> QED
    BY <1>1, <1>6, <1>7 DEF HInv

LEMMA HistoryHolds ==
    ASSUME ~Resolver
    PROVE  HInv /\ [Next]_vars => HInv'
  <1> SUFFICES ASSUME HInv, [Next]_vars PROVE HInv'
    OBVIOUS
  <1>1. OInv' /\ Undoing'
    BY StaysTrue, UndoingStep DEF HInv, UInv, OInv
  <1>2. CASE UNCHANGED vars
    <2>1. UNCHANGED <<base, tree, ledger>>
      BY <1>2 DEF vars
    <2>2. Used' = Used
      BY <2>1 DEF Used
    <2>3. TreesKept /\ KindsKept /\ ReportsKept /\ BaseKept /\ NoCommit \notin DOMAIN tree'
      BY <2>1, <2>2 DEF TreesKept, KindsKept, ReportsKept, BaseKept, HInv, History
    <2>4. \A i \in Ids : Own(i)'
      BY <2>1, <2>3, OnStays, OwnKept
    <2> QED
      BY <1>1, <2>1, <2>3, <2>4, HistoryStays DEF HInv
  <1>3. CASE Next
    <2>1. ASSUME NEW i \in Ids, Begin(i) PROVE History' /\ \A j \in Ids : Own(j)'
      BY <1>3, <2>1, BeginUndo, BeginOwn DEF HInv, UInv, OInv
    <2>2. ASSUME NEW i \in Ids, End(i) \/ Ack(i) \/ Reverify(i)
          PROVE  History' /\ \A j \in Ids : Own(j)'
      BY <1>3, <2>2, EndOwn, AckOwn, ReverifyOwn
    <2>3. ASSUME NEW u \in Unlanders,
                 planUnland(u) \/ Blocked(u) \/ Fold(u) \/ Land(u) \/ Report(u)
          PROVE  History' /\ \A j \in Ids : Own(j)'
      BY <1>3, <2>3, PlanOwn, UnlanderOwn
    <2>4. History' /\ \A j \in Ids : Own(j)'
      BY <1>3, <2>1, <2>2, <2>3, ForeignOwn DEF Next
    <2> QED
      BY <1>1, <2>4 DEF HInv
  <1> QED
    BY <1>2, <1>3

(* However many unlands of one run are started, parked, acked or repeated,    *)
(* its work is taken back at most once, unless in between the unland of       *)
(* another directory put back what it had written (unland.go: "a second unland *)
(* of one run reports this", no-op).  A region an unland changes holds what     *)
(* its target wrote there, so somebody put that there again since the unland   *)
(* before, and no run, ack or push writes what was written already.           *)
THEOREM TakesBackOnce == ASSUME ~Resolver PROVE Spec => []TakenBackOnce
  <1>1. HInv => TakenBackOnce
    <2> SUFFICES ASSUME HInv, NEW t \in Used, NEW m \in 1..Len(base), NEW n \in 1..Len(base),
                        m < n, TookBack(m, t), TookBack(n, t)
                 PROVE  \E k \in (m + 1)..(n - 1), x \in Used \ {t} : TookBack(k, x)
      BY DEF TakenBackOnce
    <2>1. /\ Len(base) \in Nat /\ Restores(tree, Past(n), Past(n - 1), Took(t))
          /\ n - 1 \in 1..Len(base) /\ m <= n - 1
      BY TakenTarget, PastNow DEF HInv, OInv, IInv, TypeOK
    <2>2. PICK p \in Regions : tree[Past(n)][p] # tree[Past(n - 1)][p]
      <3>1. tree[Past(n)] # tree[Past(n - 1)]
        BY DEF TookBack, Past
      <3>2. tree[Past(n)] \in Trees /\ tree[Past(n - 1)] \in Trees
        BY <2>1 DEF HInv, History, OInv, IInv, TypeOK
      <3> QED
        BY <3>1, <3>2 DEF Trees
    <2>3. p \in Wrote(t) /\ tree[Past(n - 1)][p] = tree[Took(t).final][p]
      BY <2>1, <2>2 DEF Restores, Merge, Conflicts, Diff, Wrote
    <2>4. Again(t, m, n - 1)
      BY <2>1 DEF HInv, History
    <2> QED
      BY <2>3, <2>4 DEF Again
  <1>2. Spec => []HInv
    BY HistoryInitially, HistoryHolds, PTL DEF Spec
  <1> QED
    BY <1>1, <1>2, PTL
=============================================================================
