------------------------------- MODULE Unland -------------------------------
(***************************************************************************)
(* `sig unland' (cmd/sig/unland.go): take back what one landed run did, as *)
(* a NEW commit on the base.  An unland reads the target's report, plans   *)
(* against the base head it finds, builds the inverse of the target's      *)
(* landing, merges that onto the head, verifies it, and lands or parks it. *)
(* Other runs land, park and are acked meanwhile, other unlands run, and   *)
(* somebody pushes.  An unland that refuses (nothing landed, an unreadable *)
(* policy, -dry-run) has built nothing and takes no step here; one that is *)
(* killed takes no further step.                                           *)
(*                                                                         *)
(* A commit is the sequence of landings that built it (see Landing), and   *)
(* content is named by the commit that wrote it first.  git merges hunks,  *)
(* not files: a file is cut into regions, the stretches that a three-way   *)
(* merge takes from one side or the other, and a tree gives each region    *)
(* its content.  Two landings in one file merge cleanly unless they        *)
(* rewrote the same region.  The parking protocol is module Park's: here   *)
(* an ack is one step that lands, and a rejected park is one never acked.  *)
(***************************************************************************)
EXTENDS Integers, Sequences, FiniteSets

CONSTANTS Regions,     \* of the repository's files
          Layouts,     \* the ways they may be cut: the path each region is in
          Unlanders,   \* calls of unlandRun
          MaxIds,      \* bound: run directories, in the order of their ids
          MaxRuns,     \* bound: those of runs
          Root,        \* the base's history so far
          Foreign,     \* a landing by somebody else
          MaxForeign,  \* bound: those
          Limit,       \* -limit of the blast-radius scan, 0 for none
          Resolver     \* does an ack's conflict resolver settle any conflict?

Ids      == 1..MaxIds
Landings == Ids \X {"run", "ack"}
Steps    == Landings \union {Foreign}
Commits  == Seq(Steps \union {Root})
NoCommit == << >>
Trees    == [Regions -> Commits]

ASSUME UnlandAssumption ==
    /\ {MaxIds, MaxRuns} \subseteq Nat /\ MaxForeign \in Nat /\ Limit \in Nat
    /\ Root \notin Steps /\ Foreign \notin Landings
    /\ Resolver \in BOOLEAN /\ \A f \in Layouts : DOMAIN f = Regions

VARIABLES file,     \* the path each region is in
          base,     \* refs/heads/<base>
          green,    \* commits whose tree passed verify
          tree,     \* the commits that exist, with their trees
          ledger,   \* the run directories
          pc,       \* where each unland is
          plan,     \* its unlandPlan
          id,       \* its run id
          made      \* the commit its fold made

vars == <<file, base, green, tree, ledger, pc, plan, id, made>>

(* report.json as unland reads it: the fork point, finalSHA (empty when      *)
(* nothing was integrated or there is no report) and a green-or-unset verify. *)
Reports == [base : Commits, final : Commits, ok : BOOLEAN]

(* park.json: fork is ForkSHA, side the tree of the parked branches.         *)
Parks == [open : BOOLEAN, fork : Commits, base : Commits, verified : Commits,
          landed : Commits, side : Trees]

Entries == [kind : {"none", "run", "unland"}, unlands : Ids \union {0},
            report : Reports, park : Parks,
            status : {"running", "done", "awaiting-ack", "unland-blocked"}]

Plans == [target : Ids \union {0}, base : Commits, final : Commits, head : Commits,
          entangled : SUBSET Ids]

NoTree   == [p \in Regions |-> NoCommit]
NoReport == [base |-> NoCommit, final |-> NoCommit, ok |-> FALSE]
NoPark   == [open |-> FALSE, fork |-> NoCommit, base |-> NoCommit,
             verified |-> NoCommit, landed |-> NoCommit, side |-> NoTree]
NoEntry  == [kind |-> "none", unlands |-> 0, report |-> NoReport, park |-> NoPark,
             status |-> "running"]
NoPlan   == [target |-> 0, base |-> NoCommit, final |-> NoCommit, head |-> NoCommit,
             entangled |-> {}]

Descends(b, a) == Len(a) <= Len(b) /\ \A i \in 1..Len(a) : b[i] = a[i]

Init ==
    /\ file \in Layouts
    /\ base = <<Root>>
    /\ green = {}
    /\ tree = [c \in {base} |-> [p \in Regions |-> base]]
    /\ ledger = [i \in Ids |-> NoEntry]
    /\ pc = [u \in Unlanders |-> "idle"]
    /\ plan = [u \in Unlanders |-> NoPlan]
    /\ id = [u \in Unlanders |-> 0]
    /\ made = [u \in Unlanders |-> NoCommit]

-----------------------------------------------------------------------------
(* Trees.                                                                    *)

WithTree(c, t) == [d \in DOMAIN tree \union {c} |-> IF d = c THEN t ELSE tree[d]]

\* git diff a b, and with --name-only.
Diff(a, b) == {p \in Regions : a[p] # b[p]}
Names(rs) == {file[p] : p \in rs}

\* A three-way merge of side into ours over their merge base: what both rewrote, and
\* not to the same, is in conflict.
Conflicts(fork, ours, side) ==
    {p \in Diff(fork, side) \intersect Diff(fork, ours) : ours[p] # side[p]}

\* New contents for the regions ps.
Write(t, ps, c) == [p \in Regions |-> IF p \in ps THEN c ELSE t[p]]

Merge(fork, ours, side) == [p \in Regions |-> IF side[p] # fork[p] THEN side[p] ELSE ours[p]]

-----------------------------------------------------------------------------
(* Everybody else: runs, acks, rejections, pushes.                           *)

Used == {i \in Ids : ledger[i].kind # "none"}
IsNext(i) == i \in Ids /\ Used = 1..(i - 1)

\* A run pins its base and makes two commits: one of its clean groups (which write
\* clean), and on top of it, for an ack, the groups its policy holds; branches that
\* share a path are in one group.
Begin(i) == \E clean, held \in SUBSET Regions, ok \in BOOLEAN :
    LET first  == IF clean = {} THEN base ELSE Append(base, <<i, "run">>)
        second == IF held = {} THEN first ELSE Append(first, <<i, "ack">>)
    IN  /\ IsNext(i)
        /\ Cardinality({j \in Used : ledger[j].kind = "run"}) < MaxRuns
        /\ Names(clean) \intersect Names(held) = {} /\ clean \union held # {}
        /\ held # {} => ok
        /\ tree' = [c \in DOMAIN tree \union {first, second} |->
                      IF c \in DOMAIN tree THEN tree[c]
                      ELSE IF c = first THEN Write(tree[base], clean, first)
                      ELSE Write(Write(tree[base], clean, first), held, second)]
        /\ green' = IF ok THEN green \union ({first, second} \ {base}) ELSE green
        /\ ledger' = [ledger EXCEPT ![i] =
             [NoEntry EXCEPT !.kind = "run",
                !.report = [base |-> base, final |-> first, ok |-> ok],
                !.park = IF held = {} THEN NoPark
                         ELSE [open |-> FALSE, fork |-> base, base |-> first,
                               verified |-> second, landed |-> NoCommit,
                               side |-> Write(tree[base], held, second)]]]
        /\ UNCHANGED <<file, base, pc, plan, id, made>>

\* It lands the first and parks the second; or goes red, or is refused because
\* the base moved.
End(i) ==
    LET e    == ledger[i]
        land == e.report.ok /\ base = e.report.base
        held == land /\ e.park.verified # NoCommit
    IN  /\ e.kind = "run" /\ e.status = "running"
        /\ base' = IF land THEN e.report.final ELSE base
        /\ ledger' = [ledger EXCEPT ![i] =
             [@ EXCEPT !.park = IF held THEN [e.park EXCEPT !.open = TRUE] ELSE NoPark,
                       !.status = IF held THEN "awaiting-ack" ELSE "done"]]
        /\ UNCHANGED <<file, green, tree, pc, plan, id, made>>

\* An ack lands the parked commit while the base is where it was verified.
Ack(i) ==
    LET pk == ledger[i].park
    IN  /\ pk.open /\ base = pk.base
        /\ base' = pk.verified
        /\ ledger' = [ledger EXCEPT ![i] = [@ EXCEPT !.park.open = FALSE,
                                                     !.park.landed = pk.verified,
                                                     !.status = "done"]]
        /\ UNCHANGED <<file, green, tree, pc, plan, id, made>>

\* Otherwise it first folds the parked branches onto the head: a conflict is a
\* failed attempt, unless a resolver settles it.
Reverify(i) ==
    LET pk    == ledger[i].park
        clash == Conflicts(tree[pk.fork], tree[base], pk.side)
        next  == Append(base, <<i, "ack">>)
    IN  /\ pk.open /\ base # pk.base
        /\ clash = {} \/ Resolver
        /\ tree' = WithTree(next, [p \in Regions |->
                     IF p \in clash THEN next ELSE Merge(tree[pk.fork], tree[base], pk.side)[p]])
        /\ green' = green \union {next}
        /\ ledger' = [ledger EXCEPT ![i].park.base = base, ![i].park.verified = next]
        /\ UNCHANGED <<file, base, pc, plan, id, made>>

ForeignLand == \E p \in Regions :
    /\ Len(SelectSeq(base, LAMBDA x : x = Foreign)) < MaxForeign
    /\ base' = Append(base, Foreign)
    /\ tree' = WithTree(base', [tree[base] EXCEPT ![p] = base'])
    /\ UNCHANGED <<file, green, ledger, pc, plan, id, made>>

-----------------------------------------------------------------------------
(* planUnland: the guards and the blast radius, read at one moment.          *)

Goto(u, l) == pc' = [pc EXCEPT ![u] = l]

\* A call that returns drops what it knew.
Return(u) == /\ Goto(u, "end")
             /\ plan' = [plan EXCEPT ![u] = NoPlan]
             /\ id' = [id EXCEPT ![u] = 0]
             /\ made' = [made EXCEPT ![u] = NoCommit]

locals == <<plan, id, made>>

\* log.go landed.
landed(r) == r.final # NoCommit /\ r.final # r.base /\ r.ok

\* report.json is written as a run ends.
report(i) == IF ledger[i].status = "running" THEN NoReport ELSE ledger[i].report

\* The landings a run directory records: its own, and the one an ack released.
recorded(i) ==
    (IF landed(report(i)) THEN {<<report(i).base, report(i).final>>} ELSE {})
    \union (IF ledger[i].status = "done" /\ ledger[i].park.landed # NoCommit
            THEN {<<ledger[i].park.base, ledger[i].park.landed>>} ELSE {})

\* The walk goes from the newest directory back to the target, Limit directories
\* at most; one without a readable report is skipped.
scanned(t) == {i \in Used : i > t /\ (Limit = 0 \/ Cardinality({j \in Used : j > i}) < Limit)}

blastRadius(t, paths) ==
    {i \in scanned(t) : \E l \in recorded(i) :
                          Names(Diff(tree[l[1]], tree[l[2]])) \intersect paths # {}}

\* What may be unlanded: a report that says landed, of a commit the head has.
landedHere(r) == landed(r) /\ Descends(r.final, r.base) /\ Descends(base, r.final)

\* startRunDir then makes the unland's own directory.
planUnland(u) == \E t \in Used, i \in Ids :
    LET r == report(t)
    IN  /\ pc[u] = "idle"
        /\ landedHere(r)
        /\ plan' = [plan EXCEPT ![u] =
             [target |-> t, base |-> r.base, final |-> r.final, head |-> base,
              entangled |-> blastRadius(t, Names(Diff(tree[r.base], tree[r.final])))]]
        /\ IsNext(i)
        /\ id' = [id EXCEPT ![u] = i]
        /\ ledger' = [ledger EXCEPT ![i] = [NoEntry EXCEPT !.kind = "unland", !.unlands = t]]
        /\ Goto(u, "fold")
        /\ UNCHANGED <<file, base, green, tree, made>>

-----------------------------------------------------------------------------
(* buildInverse and integrateVerifyPark: the branch holds the tree from before *)
(* the target on top of the target's commit, so its own change is the inverse. *)

inverse(u) == tree[plan[u].base]

\* (mutant: the plan's head for the merge base)
mergeBaseHead(u) == plan[u].head
mergeBase(u) == plan[u].final

\* writeRunReport, writePark, writeRunStatus.
finish(u, rep, pk, status) ==
    /\ ledger' = [ledger EXCEPT ![id[u]] = [@ EXCEPT !.report = rep, !.park = pk,
                                                     !.status = status]]
    /\ Return(u)

\* (mutant: a conflict keeps the inverse's side)
ClashIgnored(u) == {}
Clash(u) == Conflicts(tree[mergeBase(u)], tree[plan[u].head], inverse(u))

\* A conflict, a red verify or (recorded as "error") a failing git blocks.
Blocked(u) ==
    /\ pc[u] = "fold"
    /\ finish(u, NoReport, NoPark, "unland-blocked")
    /\ UNCHANGED <<file, base, green, tree>>

\* Verified: already gone, held for an ack because the policy at its head holds
\* the target's paths, or on to the landing.
Fold(u) == \E held \in BOOLEAN :
    LET c == Append(plan[u].head, <<id[u], "run">>)
        t == Merge(tree[mergeBase(u)], tree[plan[u].head], inverse(u))
        gone == t = tree[plan[u].head]
    IN  /\ pc[u] = "fold"
        /\ Clash(u) = {}
        /\ tree' = WithTree(c, t)
        /\ green' = green \union {c}
        /\ \/ gone /\ ~held /\ finish(u, NoReport, NoPark, "done")
           \/ /\ ~gone /\ held
              /\ finish(u, NoReport,
                        [open |-> TRUE, fork |-> plan[u].final, base |-> plan[u].head,
                         verified |-> c, landed |-> NoCommit, side |-> inverse(u)],
                        "awaiting-ack")
           \/ /\ ~gone /\ ~held
              /\ made' = [made EXCEPT ![u] = c]
              /\ Goto(u, "land") /\ UNCHANGED <<ledger, plan, id>>
        /\ UNCHANGED <<file, base>>

landing(u) == [base |-> plan[u].head, final |-> made[u], ok |-> TRUE]

\* (mutant: a refused swap is reported as a landing)
LandRefusalIgnored(u) ==
    /\ pc[u] = "land"
    /\ base' = IF base = plan[u].head THEN made[u] ELSE base
    /\ Goto(u, "report")
    /\ UNCHANGED <<file, green, tree, ledger, locals>>

\* landRef: a compare-and-swap on the head the plan was made against.
Land(u) ==
    /\ pc[u] = "land"
    /\ \/ /\ base = plan[u].head
          /\ base' = made[u] /\ Goto(u, "report") /\ UNCHANGED <<ledger, locals>>
       \/ /\ base # plan[u].head
          /\ finish(u, NoReport, NoPark, "unland-blocked") /\ UNCHANGED base
    /\ UNCHANGED <<file, green, tree>>

\* The note, the target's `unlanded' event, and finish.
Report(u) ==
    /\ pc[u] = "report"
    /\ finish(u, landing(u), NoPark, "done")
    /\ UNCHANGED <<file, base, green, tree>>

-----------------------------------------------------------------------------
Next == \/ \E i \in Ids : Begin(i) \/ End(i) \/ Ack(i) \/ Reverify(i)
        \/ ForeignLand
        \/ \E u \in Unlanders : \/ planUnland(u) \/ Blocked(u) \/ Fold(u)
                                \/ Land(u) \/ Report(u)

Spec == Init /\ [][Next]_vars

-----------------------------------------------------------------------------
(* Properties.                                                               *)

\* Every variable keeps its type; the base always names a commit that exists.
TypeOK ==
    /\ file \in Layouts
    /\ base \in Commits /\ base \in DOMAIN tree
    /\ green \in SUBSET Commits
    /\ DOMAIN tree \in SUBSET Commits /\ \A c \in DOMAIN tree : tree[c] \in Trees
    /\ ledger \in [Ids -> Entries]
    /\ pc \in [Unlanders -> {"idle", "fold", "land", "report", "end"}]
    /\ plan \in [Unlanders -> Plans]
    /\ id \in [Unlanders -> Ids \union {0}]
    /\ made \in [Unlanders -> Commits]

\* Whatever lands between an unland's plan and its landing, directly or through
\* an ack much later, the commit it puts on the base undoes the target and
\* nothing else, also in files that later runs wrote to: every region the target
\* wrote is back to what the target found there, none of these held anybody else's
\* work, and everything else, in the same files too, is left as it was.  That is
\* without -resolver, which settles as it likes (unland.go unlandRun, buildInverse;
\* entangledRun: "a run that overlaps but whose changes still merge cleanly lands").
Took(t) == ledger[t].report
UndoesItsTarget ==
    [][\A l \in Landings : base' = Append(base, l) /\ ledger[l[1]].kind = "unland" =>
         LET r     == Took(ledger[l[1]].unlands)
             wrote == Diff(tree[r.base], tree[r.final])
         IN  \A p \in Regions :
               IF p \in wrote
               THEN /\ tree'[base'][p] = tree[r.base][p]
                    /\ tree[base][p] \in {tree[r.final][p], tree[r.base][p]}
               ELSE tree'[base'][p] = tree[base][p]]_vars

\* An unland that says it was blocked, or that there was nothing to land, put
\* nothing on the base; a report that says landed names a commit the base holds
\* (unland.go: "nothing landed: ... moved to").
OnBase(i) == \E n \in 1..Len(base) : base[n] \in {i} \X {"run", "ack"}
OutcomesAreTrue ==
    \A i \in Used : ledger[i].kind = "unland" =>
        /\ ledger[i].status = "unland-blocked" => ~OnBase(i)
        /\ landed(report(i)) => Descends(base, report(i).final)
        /\ ledger[i].status = "done" => (OnBase(i) <=> recorded(i) # {})

\* However many unlands of one run are started, parked, acked or repeated, its
\* work is taken back at most once, unless in between the unland of another
\* directory put what it had written back on the base (unland.go: "a second unland
\* of one run reports this", no-op).  An ack of a second one puts an empty commit
\* on the base.
TookBack(n, t) ==
    /\ base[n] \in Landings
    /\ ledger[base[n][1]].kind = "unland" /\ ledger[base[n][1]].unlands = t
    /\ tree[SubSeq(base, 1, n)] # tree[SubSeq(base, 1, n - 1)]
TakenBackOnce ==
    \A t \in Used : \A m, n \in 1..Len(base) :
        m < n /\ TookBack(m, t) /\ TookBack(n, t)
        => \E k \in (m + 1)..(n - 1), x \in Used \ {t} : TookBack(k, x)

\* The scan that names what a target is entangled with finds every run that
\* landed on the same paths after it (unland.go blastRadius: "names the LATER
\* landed runs whose write-sets overlap", "every run older than it is by
\* construction not later").
NamesLaterRuns ==
    Limit = 0 => \A u \in Unlanders : pc[u] = "fold" =>
        LET pl == plan[u]
        IN  \A n \in (Len(pl.final) + 1)..Len(pl.head) :
               LET now == SubSeq(pl.head, 1, n)
                   was == SubSeq(pl.head, 1, n - 1)
               IN  /\ pl.head[n] # Foreign
                   /\ ledger[pl.head[n][1]].kind = "run"
                   /\ recorded(pl.head[n][1]) # {}
                   /\ Names(Diff(tree[was], tree[now]))
                        \intersect Names(Diff(tree[pl.base], tree[pl.final])) # {}
                   => pl.head[n][1] \in pl.entangled

\* Unland is one of the doors through which the base moves (module Landing).
Base == INSTANCE Landing WITH base <- base, green <- green, Landings <- Landings,
                              Foreign <- Foreign, Root <- Root
LandingSpec == Base!Spec
=============================================================================
