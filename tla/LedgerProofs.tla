--------------------------- MODULE LedgerProofs ---------------------------
(***************************************************************************)
(* What sigbound says of itself, afterwards and as it goes.                *)
(*                                                                         *)
(* Ledger: an answer about the past claims nothing that is not so, for any *)
(* number of runs, branches, pushes and mishaps, whatever happens between  *)
(* the files the reader reads.  The answers alone are not inductive.  They *)
(* follow from what the traces are worth at any time: a report tells of    *)
(* its run's landing and of nothing else, but for a refused swap; a status *)
(* and a parking record follow the work; a note says what the report of a  *)
(* run that ended says.  None of this is ever taken back, so what the      *)
(* reader has concluded stays true while it reads on.                      *)
(*                                                                         *)
(* EventPush: the pusher keeps its bounds and loses no line without        *)
(* counting it, for any number of emitters, any queue and any retry        *)
(* budget.  The balance alone is not inductive: taking a line from the     *)
(* queue keeps it only if the hand was empty, and the last look at the     *)
(* queue only if none was taken before.                                    *)
(***************************************************************************)
EXTENDS Ledger, EventPush, WellFoundedInduction, SequenceTheorems, TLAPS

-----------------------------------------------------------------------------
(* What the traces are: types.                                               *)

Tip   == Runs \X Branches
Links == [head : Commits \union {Root}, tips : SUBSET Tip]
Reps  == [by : Runs \union {0}, base : Commits \union {None, Root}, final : Commits \union {None, Root},
          ok : BOOLEAN, tips : [Branches -> Tip \union {None}], landed : SUBSET Branches,
          unlands : Runs \union {0}, takes : Commits \union {None, Root}, acked : Commits \union {None}]
Stages == {"none", "work", "note", "file", "finish", "end", "acking", "acked", "noting", "dead", "over"}
Statuses == {"none", "running", "done", "awaiting-ack", "rejected", "error", "unland-blocked", "interrupted"}
Entries == [at : Stages, status : Statuses, rep : Reps, refused : BOOLEAN, filed : BOOLEAN, dir : BOOLEAN,
            held : SUBSET Branches, park : {"none", "made", "open", "resolved"}, acked : Commits \union {None}]

Typed == /\ base \in Seq(Links) /\ Len(base) > 0 /\ base[1].head = Root
         /\ run \in [Runs -> Entries] /\ note \in [Commits -> Reps]
         /\ mishaps \in 0..MaxMishaps

-----------------------------------------------------------------------------
(* What they say.                                                            *)

On(B) == UNION {{B[k].head} \union B[k].tips : k \in 1..Len(B)}

\* The base has the landing of run r, with what the report rep says it brought along.
Brought(B, r, rep) ==
    \E k \in 1..Len(B) : B[k].head = Final(r) /\ {rep.tips[b] : b \in rep.landed} \subseteq B[k].tips

\* A report says "landed" of nothing but the run's own landing: it is on the base, or
\* the swap was refused.  The base has it only if the report says so.
Reports(r, x, B) ==
    /\ x.at = "none" => x = NoRun
    /\ x.at # "none" => x.rep.by = r /\ x.rep.acked = None /\ x.rep.base # Final(r)
    /\ x.rep.unlands = 0 /\ x.at # "none" => \A b \in Branches : x.rep.tips[b] \in Tip
    /\ x.rep.unlands # 0 => x.held = {}
    /\ x.at = "work" => /\ x.rep.final = None /\ ~x.rep.ok /\ x.rep.landed = {} /\ ~x.refused
                        /\ x.held = {} /\ x.park = "none"
    /\ landed(x.rep) => x.rep.final = Final(r) /\ (x.refused \/ Brought(B, r, x.rep))
    /\ x.rep.unlands # 0 /\ landed(x.rep) => ~x.refused
    /\ Final(r) \in On(B) => x.rep.final = Final(r) /\ landed(x.rep)
    /\ x.at = "note" \/ x.park \in {"made", "open"} => ~x.refused

\* The status and the report follow the work; what was recorded as acked landed once
\* the status says so.
Marks(r, x, B) ==
    /\ x.at \in {"work", "note", "file", "finish", "dead"} => x.status = "running"
    /\ x.at \in {"acking", "acked"} => x.status = "awaiting-ack"
    /\ x.at # "none" => x.status # "none"
    /\ x.park = "open" => x.status = "awaiting-ack"
    /\ x.at \in {"acking", "acked", "noting"} => x.acked = <<r, "ack">> /\ ~x.refused /\ x.park # "open"
    /\ x.at \in {"acked", "noting"} => x.acked \in On(B)
    /\ x.at \in {"none", "work", "note", "file", "finish", "end", "dead"} => x.acked = None
    /\ x.status = "done" => x.acked \in On(B) \union {None} /\ ~x.refused
    /\ x.at \in {"finish", "end", "acking", "acked", "noting"} => x.filed
    /\ x.at \in {"none", "work", "note", "file"} => ~x.filed
    /\ x.status \in {"none", "running", "interrupted"} \/ x.filed

\* A note is about a run that ended, and says what its report says.
About(n, t, x, B) ==
    /\ x.at \notin {"none", "work"} /\ ~x.refused
    /\ n.by \in {t, 0}
    /\ n.base = x.rep.base /\ n.final = x.rep.final /\ n.ok = x.rep.ok /\ n.tips = x.rep.tips
    /\ n.landed = x.rep.landed /\ n.unlands = x.rep.unlands
    /\ n.acked = None \/ n.acked \in On(B)
NoteSays(c) == note[c] = NoReport \/ \E t \in Runs : About(note[c], t, run[t], base)

Traces == /\ \A r \in Runs : Reports(r, run[r], base) /\ Marks(r, run[r], base)
          /\ \A c \in Commits : NoteSays(c)

-----------------------------------------------------------------------------
(* What the reader knows.                                                    *)

RowSet  == [run : Runs \union {0}, unlands : Runs \union {0}, final : Commits \union {None, Root},
            keys : SUBSET (({"run"} \X (Runs \union {0})) \union ({"landed"} \X (Commits \union {None, Root}))),
            covers : SUBSET Commits]
CardSet == [run : Runs, status : Statuses, sha : Commits \union {None, Root}]

Roles   == {"none", "landed-commit", "unland-commit", "ack-landed-commit", "member-landed", "member"}
Answers == [landed : BOOLEAN, role : Roles, source : {"none", "note", "manifest"},
            run : Runs \union {0}, by : Runs \union {0}]
Knowns  == [listed : SUBSET Runs, filed : SUBSET Runs, settled : SUBSET Runs, parked : SUBSET Runs,
            taken : SUBSET (Commits \union {None, Root})]
Queries == [kind : {"none", "sha", "release", "board"}, at : {"idle", "note", "walk", "end", "notes", "row"},
            want : SUBSET Commits, dirs : SUBSET Runs, open : SUBSET Commits, rows : Seq(RowSet),
            torn : SUBSET Runs, busy : SUBSET Runs, list : SUBSET Commits, unlanded : SUBSET (Runs \X Runs),
            status : Statuses, cards : Seq(CardSet), answer : Answers, known : Knowns]

Asked ==
    /\ query \in Queries
    /\ query.dirs \union query.torn \union query.busy \subseteq Used
    /\ query.known.listed \union query.known.parked \subseteq Used
    /\ query.open \subseteq query.want
    /\ query.kind = "none" => query = NoQuery
    /\ query.kind = "sha" => query.at \in {"note", "walk", "end"} /\ query.want # {}
    /\ query.kind = "release" => query.at \in {"walk", "row", "notes"}
    /\ query.kind = "board" => query.at \in {"walk", "row"}

\* -sha: the answer, and the unlands met so far, one at most for each run.
Sayings ==
    query.kind = "sha" =>
        /\ query.at # "end" => query.answer = Unknown
        /\ query.answer.landed => \/ Sha \in OnBase
                                  \/ query.answer.run \in Runs /\ run[query.answer.run].refused
        /\ query.answer.by # 0 => /\ query.answer.by \in Used
                                  /\ Final(query.answer.by) \in OnBase
                                  /\ run[query.answer.by].rep.unlands = query.answer.run
        /\ query.unlanded \subseteq Runs \X Used
        /\ \A e \in query.unlanded : Final(e[2]) \in OnBase /\ run[e[2]].rep.unlands = e[1]
        /\ \A e, f \in query.unlanded : e[1] = f[1] => e = f

\* -release: what each row claims, ...
TrueRow(row) ==
    \E t \in Runs : /\ row.final = Final(t)
                    /\ \/ run[t].refused
                       \/ \E k \in 1..Len(base) : base[k].head = Final(t)
                             /\ row.covers \subseteq {base[k].head} \union base[k].tips
RowsTrue == query.kind = "release" => \A i \in 1..Len(query.rows) : TrueRow(query.rows[i])

\* ... by what it is known, which no two rows share, ...
RowOf(t, row, want) ==
    /\ row.final = Final(t)
    /\ row.keys \in {{<<"run", t>>}, {<<"landed", Final(t)>>}, {<<"run", t>>, <<"landed", Final(t)>>}}
    /\ row.run = IF <<"run", t>> \in row.keys THEN t ELSE 0
    /\ Final(t) \in want => Final(t) \in row.covers
RowsOnce ==
    query.kind = "release" =>
        /\ \A i \in 1..Len(query.rows) : \E t \in Runs :
             RowOf(t, query.rows[i], query.want) /\ (query.at # "notes" => t \notin query.dirs)
        /\ \A i, j \in 1..Len(query.rows) :
             i # j => query.rows[i].keys \intersect query.rows[j].keys = {}

\* ... and what became of the landings nobody claimed.  A run whose report was not there
\* when the reader looked, and was there when it looked again, filed it in between; if a
\* note tells of its landing, the note is still to be read.
Escaped(r) ==
    /\ r \notin query.known.filed /\ run[r].filed
    /\ query.at = "notes" /\ Tells(note[Final(r)], r) => Final(r) \in query.list
OpenExplained ==
    query.kind = "release" =>
        /\ query.want \subseteq OnBase
        /\ \A r \in query.known.filed : run[r].filed
        /\ \A r \in query.known.listed :
             Final(r) \in query.open => r \in query.dirs \union query.torn \union query.busy \/ Escaped(r)
        /\ query.at = "row" => /\ query.dirs # {}
                               /\ Oldest(query.dirs) \in query.known.filed => ~run[Oldest(query.dirs)].dir

\* The board: what a card says landed is on the base, and a park that waits was seen or
\* will be.
Waited == {"awaiting-ack", "done", "rejected"}
CardsTrue ==
    query.kind = "board" =>
        /\ query.at = "row" => query.dirs # {} /\ query.status \in Statuses
        /\ query.at = "row" /\ query.status = "done" => run[Newest(query.dirs)].status = "done"
        /\ \A i \in 1..Len(query.cards) :
             query.cards[i].status = "done" => query.cards[i].sha \in OnBase \union {None}
Seen(r) == \/ r \in query.dirs /\ (query.at = "row" /\ r = Newest(query.dirs) => query.status = "awaiting-ack")
           \/ \E i \in 1..Len(query.cards) : query.cards[i].status = "awaiting-ack"
ParksSeen ==
    query.kind = "board" => \A r \in query.known.parked :
        /\ run[r].status \in Waited
        /\ run[r].dir /\ run[r].status = "awaiting-ack" => Seen(r)

Reader == Asked /\ Sayings /\ RowsTrue /\ RowsOnce /\ OpenExplained /\ CardsTrue /\ ParksSeen
LedgerInv == Typed /\ Traces /\ Reader

-----------------------------------------------------------------------------
(* Names.                                                                    *)

\* Commits, tips of branches, the root and what is absent are told apart.
LEMMA LedgerNames ==
    /\ None \notin Commits /\ Root \notin Commits /\ None # Root /\ 0 \notin Runs /\ Runs \subseteq Nat
    /\ Tip \subseteq Commits /\ None \notin Tip
    /\ \A r \in Runs : /\ Final(r) \in Commits /\ <<r, "ack">> \in Commits
                       /\ Final(r) \notin Tip /\ Final(r) \notin {None, Root} /\ <<r, "ack">> # None
    /\ \A r, t \in Runs : Final(r) # <<t, "ack">> /\ (Final(r) = Final(t) => r = t)
    /\ \A r \in Runs, x \in Pushes : Final(r) # <<0, x>>
    /\ \A x \in Pushes : <<0, x>> \in Commits
  BY LedgerAssumption DEF LedgerAssumption, None, Root, Commits, Runs, Tip, Final

\* What is absent has its type, and did not land.
LEMMA NoneTyped == NoReport \in Reps /\ NoRun \in Entries /\ ~landed(NoReport)
  <1>1. None \in Commits \union {None, Root} /\ NoTips \in [Branches -> Tip \union {None}]
    BY DEF NoTips
  <1>2. NoReport \in Reps
    BY <1>1 DEF NoReport, Reps
  <1>3. NoRun \in Entries
    BY <1>2 DEF NoRun, Entries, Stages, Statuses
  <1> QED
    BY <1>2, <1>3 DEF NoReport, landed

\* A set of runs that is not empty has an oldest and a newest one.
LEMMA LeastIn == ASSUME NEW S \in SUBSET Nat, S # {} PROVE \E n \in S : \A m \in S : n <= m
  <1> DEFINE Lt == {ss \in Nat \X Nat : ss[1] < ss[2]}
  <1>1. IsWellFoundedOn(Lt, Nat)
    BY NatLessThanWellFounded DEF OpToRel
  <1> HIDE DEF Lt
  <1>2. PICK n \in S : \A m \in S : ~(<<m, n>> \in Lt)
    BY <1>1, WFMin, Zenon
  <1>3. \A m \in S : m \in Nat /\ n \in Nat /\ ~(m < n)
    BY <1>2 DEF Lt
  <1> QED
    BY <1>3

\* CHOOSE finds the oldest and the newest run of a set.
LEMMA OldestIn == ASSUME NEW S \in SUBSET Runs, S # {} PROVE Oldest(S) \in S
  BY LeastIn, LedgerNames DEF Oldest

LEMMA NewestIn == ASSUME NEW S \in SUBSET Runs, S # {} PROVE Newest(S) \in S
  <1> DEFINE T == {n \in Nat : \E r \in S : n = MaxRuns - r}
  <1>1. S \subseteq Nat /\ MaxRuns \in Nat /\ \A r \in S : r <= MaxRuns
    BY LedgerAssumption DEF LedgerAssumption, Runs
  <1>2. T # {} /\ T \subseteq Nat
    <2>1. PICK r \in S : TRUE
      OBVIOUS
    <2>2. MaxRuns - r \in T
      BY <1>1
    <2> QED
      BY <2>2
  <1>4. PICK n \in T : \A m \in T : n <= m
    <2> HIDE DEF T
    <2> QED
      BY <1>2, LeastIn
  <1>5. PICK r \in S : n = MaxRuns - r
    OBVIOUS
  <1>6. \A o \in S : o <= r
    <2> SUFFICES ASSUME NEW o \in S PROVE o <= r
      OBVIOUS
    <2>1. MaxRuns - o \in T
      BY <1>1
    <2> HIDE DEF T
    <2> QED
      BY <1>1, <1>4, <1>5, <2>1
  <1> QED
    BY <1>6 DEF Newest

-----------------------------------------------------------------------------
(* The base grows.                                                           *)

\* What is on the base, as an operator of the base.
LEMMA OnIs == OnBase = On(base)
  BY DEF OnBase, Reach, On

\* What a landing adds to it.
LEMMA OnAppend ==
    ASSUME NEW B \in Seq(Links), NEW e \in Links
    PROVE  /\ On(Append(B, e)) = On(B) \union {e.head} \union e.tips
           /\ Append(B, e) \in Seq(Links) /\ Len(Append(B, e)) = Len(B) + 1
           /\ \A k \in 1..Len(B) : Append(B, e)[k] = B[k]
           /\ Append(B, e)[Len(B) + 1] = e
  <1>1. /\ Append(B, e) \in Seq(Links) /\ Len(Append(B, e)) = Len(B) + 1 /\ Len(B) \in Nat
        /\ \A k \in 1..Len(B) : Append(B, e)[k] = B[k]
        /\ Append(B, e)[Len(B) + 1] = e
    BY AppendProperties, LenProperties
  <1>2. 1..(Len(B) + 1) = (1..Len(B)) \union {Len(B) + 1}
    BY <1>1
  <1>3. On(Append(B, e)) \subseteq On(B) \union {e.head} \union e.tips
    BY <1>1, <1>2 DEF On
  <1>4. On(B) \subseteq On(Append(B, e))
    BY <1>1, <1>2 DEF On
  <1>5. {e.head} \union e.tips \subseteq On(Append(B, e))
    BY <1>1, <1>2 DEF On
  <1> QED
    BY <1>1, <1>3, <1>4, <1>5

\* What a landing brought along stays brought along.
LEMMA BroughtStays ==
    ASSUME NEW B \in Seq(Links), NEW e \in Links, NEW r, NEW rep, Brought(B, r, rep)
    PROVE  Brought(Append(B, e), r, rep)
  <1>1. PICK k \in 1..Len(B) : B[k].head = Final(r) /\ {rep.tips[b] : b \in rep.landed} \subseteq B[k].tips
    BY DEF Brought
  <1>2. Append(B, e)[k] = B[k] /\ k \in 1..Len(Append(B, e))
    BY OnAppend
  <1> HIDE DEF Brought
  <1>3. \E i \in 1..Len(Append(B, e)) :
           Append(B, e)[i].head = Final(r) /\ {rep.tips[b] : b \in rep.landed} \subseteq Append(B, e)[i].tips
    BY <1>1, <1>2
  <1> QED
    BY <1>3 DEF Brought

\* What a landing of another run, or a push, does not change.
LEMMA OthersStand ==
    ASSUME NEW B \in Seq(Links), NEW e \in Links, NEW t \in Runs, NEW x \in Entries,
           e.head # Final(t), Reports(t, x, B), Marks(t, x, B)
    PROVE  Reports(t, x, Append(B, e)) /\ Marks(t, x, Append(B, e))
  <1>1. On(B) \subseteq On(Append(B, e))
    BY OnAppend
  <1>2. Final(t) \in On(Append(B, e)) => Final(t) \in On(B)
    <2>1. e.tips \subseteq Tip /\ Final(t) \notin Tip
      BY LedgerNames DEF Links
    <2>2. On(Append(B, e)) = On(B) \union {e.head} \union e.tips
      BY OnAppend
    <2> QED
      BY <2>1, <2>2
  <1>3. Brought(B, t, x.rep) => Brought(Append(B, e), t, x.rep)
    BY BroughtStays
  <1>4. Reports(t, x, Append(B, e))
    BY <1>2, <1>3 DEF Reports
  <1>5. Marks(t, x, Append(B, e))
    BY <1>1 DEF Marks
  <1> QED
    BY <1>4, <1>5

-----------------------------------------------------------------------------
(* Steps that leave traces: what an entry may turn into.                     *)

Follows(x, f) ==
    /\ x.at # "none" => f.at # "none" /\ f.rep.unlands = x.rep.unlands
    /\ x.at \notin {"none", "work"} => /\ f.at \notin {"none", "work"} /\ f.rep = x.rep
                                       /\ f.refused = x.refused
    /\ x.refused => f.refused
    /\ x.filed => f.filed
    /\ x.at # "none" /\ f.dir => x.dir
    /\ x.status = "done" => f.status = "done"
    /\ x.status \in Waited =>
         /\ f.status \in Waited
         /\ f.dir /\ f.status = "awaiting-ack" => x.dir /\ x.status = "awaiting-ack"

\* The base is as it was or longer, every entry follows the one it was, and while a
\* question is answered the note of a landing whose report was filed stays as it is.
Onward ==
    /\ base' = base \/ \E e \in Links : base' = Append(base, e)
    /\ \A r \in Runs : Follows(run[r], run'[r])
    /\ query = NoQuery \/ \A r \in Runs : run[r].filed => note'[Final(r)] = note[Final(r)]

\* An entry that does not change follows itself.
LEMMA FollowsItself == \A x : Follows(x, x)
  BY DEF Follows

\* Nothing leaves the base.
LEMMA BaseOnward ==
    ASSUME Typed, Onward
    PROVE  /\ OnBase \subseteq OnBase' /\ 1..Len(base) \subseteq 1..Len(base')
           /\ \A k \in 1..Len(base) : base'[k] = base[k]
  <1>1. CASE base' = base
    BY <1>1, OnIs DEF OnBase, Reach
  <1>2. CASE \E e \in Links : base' = Append(base, e)
    <2>1. PICK e \in Links : base' = Append(base, e)
      BY <1>2
    <2>2. base \in Seq(Links) /\ Len(base) \in Nat
      BY LenProperties DEF Typed
    <2>3. On(base) \subseteq On(base')
      BY <2>1, <2>2, OnAppend
    <2>4. OnBase' = On(base')
      BY DEF OnBase, Reach, On
    <2> QED
      BY <2>1, <2>2, <2>3, <2>4, OnAppend, OnIs
  <1> QED
    BY <1>1, <1>2 DEF Onward

\* What the reader knows stays true.
LEMMA ReaderStands == ASSUME LedgerInv, Onward, query' = query PROVE Reader'
  <1>0. Typed /\ Reader
    BY DEF LedgerInv
  <1>1. /\ OnBase \subseteq OnBase' /\ 1..Len(base) \subseteq 1..Len(base')
        /\ \A k \in 1..Len(base) : base'[k] = base[k]
    BY <1>0, BaseOnward
  <1>2. \A r \in Runs : Follows(run[r], run'[r])
    BY DEF Onward
  <1>3. \A r \in Used : r \in Used' /\ run'[r].rep.unlands = run[r].rep.unlands
    BY <1>2 DEF Used, Follows
  <1>4. \A r \in Runs : run[r].refused => run'[r].refused
    BY <1>2 DEF Follows
  <1>5. Asked'
    <2>1. Used \subseteq Used'
      BY <1>3
    <2> QED
      BY <1>0, <2>1 DEF Reader, Asked
  <1>6. Sayings'
    <2> SUFFICES ASSUME query.kind = "sha" PROVE Sayings'
      BY DEF Sayings
    <2>0. Used \subseteq Used' /\ Used \subseteq Runs
      BY <1>3 DEF Used
    <2>1. Sha' = Sha
      BY DEF Sha
    <2>2. query'.at # "end" => query'.answer = Unknown
      BY <1>0 DEF Reader, Sayings
    <2>3. query'.answer.landed => \/ Sha' \in OnBase'
                                  \/ query'.answer.run \in Runs /\ run'[query'.answer.run].refused
      BY <1>0, <1>1, <1>4, <2>1 DEF Reader, Sayings
    <2>4. query'.answer.by # 0 => /\ query'.answer.by \in Used'
                                  /\ Final(query'.answer.by) \in OnBase'
                                  /\ run'[query'.answer.by].rep.unlands = query'.answer.run
      BY <1>0, <1>1, <1>3 DEF Reader, Sayings
    <2>5. query.unlanded \subseteq Runs \X Used
      BY <1>0 DEF Reader, Sayings
    <2>6. \A e \in query.unlanded : e[2] \in Used
      BY <2>5
    <2>7. \A e \in query'.unlanded : Final(e[2]) \in OnBase' /\ run'[e[2]].rep.unlands = e[1]
      BY <1>0, <1>1, <1>3, <2>6 DEF Reader, Sayings
    <2>8. query'.unlanded \subseteq Runs \X Used' /\ \A e, f \in query'.unlanded : e[1] = f[1] => e = f
      BY <1>0, <2>0, <2>5 DEF Reader, Sayings
    <2>9. \A r : Final(r)' = Final(r)
      BY DEF Final
    <2> QED
      BY <2>2, <2>3, <2>4, <2>7, <2>8, <2>9 DEF Sayings, Final
  <1>7. RowsTrue'
    <2> SUFFICES ASSUME query.kind = "release", NEW i \in 1..Len(query.rows) PROVE TrueRow(query.rows[i])'
      BY DEF RowsTrue
    <2>1. PICK t \in Runs :
             /\ query.rows[i].final = Final(t)
             /\ \/ run[t].refused
                \/ \E k \in 1..Len(base) : base[k].head = Final(t)
                      /\ query.rows[i].covers \subseteq {base[k].head} \union base[k].tips
      BY <1>0 DEF Reader, RowsTrue, TrueRow
    <2>2. \/ run'[t].refused
          \/ \E k \in 1..Len(base') : base'[k].head = Final(t)
                /\ query.rows[i].covers \subseteq {base'[k].head} \union base'[k].tips
      BY <1>1, <1>4, <2>1
    <2> QED
      BY <2>1, <2>2 DEF TrueRow, Final
  <1>8. RowsOnce'
    BY <1>0 DEF Reader, RowsOnce, RowOf, Final
  <1>9. OpenExplained'
    <2> SUFFICES ASSUME query.kind = "release" PROVE OpenExplained'
      BY DEF OpenExplained
    <2>1. /\ query # NoQuery /\ query.known.listed \subseteq Used /\ Used \subseteq Runs
          /\ query.dirs \subseteq Used /\ query.known.filed \subseteq Runs
      BY <1>0 DEF Reader, Asked, NoQuery, Used, Queries, Knowns
    <2>2. /\ query.want \subseteq OnBase
          /\ \A r \in query.known.filed : run[r].filed
          /\ \A r \in query.known.listed :
               Final(r) \in query.open => r \in query.dirs \union query.torn \union query.busy \/ Escaped(r)
          /\ query.at = "row" => /\ query.dirs # {}
                                 /\ Oldest(query.dirs) \in query.known.filed => ~run[Oldest(query.dirs)].dir
      BY <1>0 DEF Reader, OpenExplained
    <2>3. \A r \in Runs : run[r].filed => run'[r].filed /\ note'[Final(r)] = note[Final(r)]
      BY <1>2, <2>1 DEF Onward, Follows
    <2>4. \A r \in query.known.listed : Escaped(r) => Escaped(r)'
      BY <2>1, <2>3 DEF Escaped, Tells, landed, Final
    <2>5. \A r \in query.known.listed :
             Final(r) \in query'.open => r \in query'.dirs \union query'.torn \union query'.busy \/ Escaped(r)'
      BY <2>2, <2>4
    <2>6. query.at = "row" => Oldest(query.dirs) \in Used
      BY <2>1, <2>2, OldestIn
    <2>7. \A r \in Used : ~run[r].dir => ~run'[r].dir
      BY <1>2 DEF Follows, Used
    <2>8. query'.want \subseteq OnBase' /\ \A r \in query'.known.filed : run'[r].filed
      BY <1>1, <2>1, <2>2, <2>3
    <2>9. query'.at = "row" => /\ query'.dirs # {}
                               /\ Oldest(query'.dirs) \in query'.known.filed => ~run'[Oldest(query'.dirs)].dir
      BY <2>2, <2>6, <2>7
    <2> QED
      BY <2>5, <2>8, <2>9 DEF OpenExplained, Final, Oldest
  <1>10. CardsTrue'
    <2>1. query.kind = "board" /\ query.at = "row" => Newest(query.dirs) \in Runs
      BY <1>0, NewestIn DEF Reader, Asked, CardsTrue, Used
    <2>2. \A r \in Runs : run[r].status = "done" => run'[r].status = "done"
      BY <1>2 DEF Follows
    <2> QED
      BY <1>0, <1>1, <2>1, <2>2 DEF Reader, CardsTrue, Newest
  <1>11. ParksSeen'
    <2> SUFFICES ASSUME query.kind = "board", NEW r \in query.known.parked
                 PROVE  /\ run'[r].status \in Waited
                        /\ run'[r].dir /\ run'[r].status = "awaiting-ack" => Seen(r)'
      BY DEF ParksSeen
    <2>1. r \in Runs /\ run[r].status \in Waited
      BY <1>0 DEF Reader, Asked, ParksSeen, Used
    <2>2. Seen(r)' <=> Seen(r)
      BY DEF Seen, Newest
    <2>3. /\ run'[r].status \in Waited
          /\ run'[r].dir /\ run'[r].status = "awaiting-ack" => run[r].dir /\ run[r].status = "awaiting-ack"
      BY <1>2, <2>1 DEF Follows
    <2> QED
      BY <1>0, <2>2, <2>3 DEF Reader, ParksSeen
  <1> QED
    BY <1>5, <1>6, <1>7, <1>8, <1>9, <1>10, <1>11 DEF Reader

\* The landing of run r, or what an ack of it landed, with tips of branches.
LandsFor(r) == base' = base \/ \E e \in Links : /\ e.head \in {Final(r), <<r, "ack">>}
                                                /\ base' = Append(base, e)

\* What lands for one run is not the landing of another.
LEMMA LandsForOthers == \A r, t \in Runs : r # t => Final(t) \notin {Final(r), <<r, "ack">>}
  BY LedgerNames

\* A step of one run.
LEMMA RunMoves ==
    ASSUME LedgerInv, NEW r \in Runs, NEW f \in Entries, run' = [run EXCEPT ![r] = f],
           LandsFor(r), Reports(r, f, base'), Marks(r, f, base'), Follows(run[r], f),
           note' \in [Commits -> Reps], mishaps' \in 0..MaxMishaps, query' = query,
           \A c \in Commits : note'[c] = note[c] \/ About(note'[c], r, f, base'),
           \A t \in Runs : run[t].filed => note'[Final(t)] = note[Final(t)]
    PROVE  LedgerInv'
  <1>0. Typed /\ Traces
    BY DEF LedgerInv
  <1>1. run' \in [Runs -> Entries] /\ run'[r] = f /\ \A t \in Runs : t # r => run'[t] = run[t]
    BY <1>0 DEF Typed
  <1>2. Onward
    <2>1. \A t \in Runs : Follows(run[t], run'[t])
      BY <1>1, FollowsItself
    <2> QED
      BY <2>1 DEF Onward, LandsFor
  <1>3. Typed'
    <2>1. base' \in Seq(Links) /\ Len(base') > 0 /\ base'[1].head = Root
      <3>1. CASE base' = base
        BY <1>0, <3>1 DEF Typed
      <3>2. CASE \E e \in Links : base' = Append(base, e)
        <4>1. PICK e \in Links : base' = Append(base, e)
          BY <3>2
        <4>2. base \in Seq(Links) /\ Len(base) \in Nat /\ Len(base) > 0 /\ base[1].head = Root
          BY <1>0, LenProperties DEF Typed
        <4>3. base' \in Seq(Links) /\ Len(base') = Len(base) + 1 /\ base'[1] = base[1]
          BY <4>1, <4>2, OnAppend
        <4> QED
          BY <4>2, <4>3
      <3> QED
        BY <1>2, <3>1, <3>2 DEF Onward
    <2> QED
      BY <1>1, <2>1 DEF Typed
  <1>4. \A t \in Runs : Reports(t, run'[t], base') /\ Marks(t, run'[t], base')
    <2> SUFFICES ASSUME NEW t \in Runs, t # r PROVE Reports(t, run'[t], base') /\ Marks(t, run'[t], base')
      BY <1>1
    <2>1. Reports(t, run[t], base) /\ Marks(t, run[t], base) /\ run[t] \in Entries /\ base \in Seq(Links)
      BY <1>0 DEF Traces, Typed
    <2>2. CASE base' = base
      BY <1>1, <2>1, <2>2
    <2>3. ASSUME NEW e \in Links, e.head \in {Final(r), <<r, "ack">>}, base' = Append(base, e)
          PROVE  Reports(t, run'[t], base') /\ Marks(t, run'[t], base')
      <3>1. e.head # Final(t)
        BY <2>3, LandsForOthers
      <3> QED
        BY <1>1, <2>1, <2>3, <3>1, OthersStand
    <2> QED
      BY <2>2, <2>3 DEF LandsFor
  <1>5. \A c \in Commits : NoteSays(c)'
    <2> SUFFICES ASSUME NEW c \in Commits, note'[c] # NoReport
                 PROVE  \E t \in Runs : About(note'[c], t, run'[t], base')
      BY DEF NoteSays, About, landed
    <2>1. CASE About(note'[c], r, f, base')
      BY <1>1, <2>1
    <2>2. CASE note'[c] = note[c]
      <3>1. PICK t \in Runs : About(note[c], t, run[t], base)
        BY <1>0, <2>2 DEF Traces, NoteSays
      <3>2. Follows(run[t], run'[t])
        BY <1>2 DEF Onward
      <3>3. On(base) \subseteq On(base')
        BY <1>0, <1>2, BaseOnward, OnIs DEF OnBase, Reach, On
      <3>4. About(note[c], t, run'[t], base')
        BY <3>1, <3>2, <3>3 DEF About, Follows
      <3> QED
        BY <2>2, <3>4
    <2> QED
      BY <2>1, <2>2
  <1>6. Traces'
    BY <1>4, <1>5 DEF Traces
  <1> QED
    BY <1>2, <1>3, <1>6, ReaderStands DEF LedgerInv

-----------------------------------------------------------------------------
(* The runs.                                                                 *)

\* What the invariant says of one run.
LEMMA EntryOf ==
    ASSUME LedgerInv, NEW r \in Runs
    PROVE  /\ run[r] \in Entries /\ Reports(r, run[r], base) /\ Marks(r, run[r], base)
           /\ base \in Seq(Links) /\ Len(base) \in Nat /\ Len(base) > 0 /\ note \in [Commits -> Reps]
           /\ mishaps \in 0..MaxMishaps /\ run[r].rep \in Reps
  BY LenProperties DEF LedgerInv, Typed, Traces, Entries

\* A step of a run that leaves the base, the notes and its report as they are.
Rewrites(x, f) ==
    /\ f.rep = x.rep /\ f.refused = x.refused /\ f.held = x.held
    /\ (x.filed => f.filed) /\ (f.dir => x.dir)
    /\ x.at \notin {"none", "work"} /\ f.at \notin {"none", "work", "note"}

\* Such a step keeps the invariant, if the marks stay true.
LEMMA Rewritten ==
    ASSUME LedgerInv, NEW r \in Runs, NEW f \in Entries, run' = [run EXCEPT ![r] = f],
           Rewrites(run[r], f), f.park \in {"made", "open"} => ~run[r].refused,
           Marks(r, f, base), base' = base, note' = note, mishaps' \in 0..MaxMishaps, query' = query,
           run[r].status = "done" => f.status = "done",
           run[r].status \in Waited =>
             /\ f.status \in Waited
             /\ f.dir /\ f.status = "awaiting-ack" => run[r].dir /\ run[r].status = "awaiting-ack"
    PROVE  LedgerInv'
  <1>0. Reports(r, run[r], base) /\ note \in [Commits -> Reps]
    BY EntryOf
  <1>1. Reports(r, f, base)
    BY <1>0 DEF Reports, Rewrites
  <1>2. Follows(run[r], f)
    BY DEF Follows, Rewrites
  <1>3. LandsFor(r)
    BY DEF LandsFor
  <1> QED
    BY <1>0, <1>1, <1>2, <1>3, RunMoves

\* The report is filed (writeReportFile).
LEMMA FileStep == ASSUME LedgerInv, NEW r \in Runs, File(r) PROVE LedgerInv'
  <1> DEFINE f == [run[r] EXCEPT !.at = "finish", !.filed = TRUE]
  <1>1. run[r] \in Entries /\ Reports(r, run[r], base) /\ Marks(r, run[r], base) /\ mishaps \in 0..MaxMishaps
    BY EntryOf
  <1>2. /\ run[r].at = "file" /\ run' = [run EXCEPT ![r] = f]
        /\ base' = base /\ note' = note /\ mishaps' = mishaps /\ query' = query
    BY DEF File, Become
  <1>3. /\ f \in Entries /\ f.at = "finish" /\ f.filed /\ f.status = run[r].status /\ f.rep = run[r].rep
        /\ f.refused = run[r].refused /\ f.dir = run[r].dir /\ f.held = run[r].held
        /\ f.park = run[r].park /\ f.acked = run[r].acked
    BY <1>1 DEF Entries, Stages
  <1> HIDE DEF f
  <1>4. Marks(r, f, base)
    BY <1>1, <1>2, <1>3 DEF Marks
  <1>5. Rewrites(run[r], f) /\ (f.park \in {"made", "open"} => ~run[r].refused)
    BY <1>1, <1>2, <1>3 DEF Rewrites, Reports
  <1> QED
    BY <1>1, <1>2, <1>3, <1>4, <1>5, Rewritten

\* The park is recorded, and the marker written (finishRunDir).
LEMMA FinishStep == ASSUME LedgerInv, NEW r \in Runs, Finish(r) PROVE LedgerInv'
  <1> DEFINE status == IF run[r].park = "made" THEN "awaiting-ack"
                       ELSE IF ~run[r].refused THEN "done"
                       ELSE IF IsUnland(r) THEN "unland-blocked" ELSE "error"
             park == IF run[r].park = "made" THEN "open" ELSE "none"
             f == [run[r] EXCEPT !.at = "end", !.park = park, !.status = status]
  <1>1. run[r] \in Entries /\ Reports(r, run[r], base) /\ Marks(r, run[r], base) /\ mishaps \in 0..MaxMishaps
    BY EntryOf
  <1>2. /\ run[r].at = "finish" /\ run' = [run EXCEPT ![r] = f]
        /\ base' = base /\ note' = note /\ mishaps' = mishaps /\ query' = query
    BY DEF Finish, Become
  <1>s. status \in Statuses /\ park \in {"open", "none"}
    BY DEF Statuses
  <1>t. status \in {"done", "awaiting-ack", "error", "unland-blocked"} /\ (status = "done" => ~run[r].refused)
        /\ (park = "open" <=> status = "awaiting-ack") /\ (park = "open" <=> run[r].park = "made")
    OBVIOUS
  <1> HIDE DEF status, park
  <1>3. /\ f \in Entries /\ f.at = "end" /\ f.status = status /\ f.park = park /\ f.rep = run[r].rep
        /\ f.refused = run[r].refused /\ f.dir = run[r].dir /\ f.held = run[r].held
        /\ f.filed = run[r].filed /\ f.acked = run[r].acked
    BY <1>1, <1>s DEF Entries, Stages
  <1> HIDE DEF f
  <1>4. Marks(r, f, base)
    BY <1>1, <1>2, <1>3, <1>t DEF Marks
  <1>5. Rewrites(run[r], f) /\ (f.park \in {"made", "open"} => ~run[r].refused)
    BY <1>1, <1>2, <1>3, <1>s, <1>t DEF Rewrites, Reports
  <1>6. run[r].status = "running"
    BY <1>1, <1>2 DEF Marks
  <1> QED
    BY <1>1, <1>2, <1>3, <1>4, <1>5, <1>6, Rewritten DEF Waited

\* An ack records what it is about to land (ackRun).
LEMMA AckRecordStep == ASSUME LedgerInv, NEW r \in Runs, AckRecord(r) PROVE LedgerInv'
  <1> DEFINE f == [run[r] EXCEPT !.at = "acking", !.park = "resolved", !.acked = <<r, "ack">>]
  <1>1. run[r] \in Entries /\ Reports(r, run[r], base) /\ Marks(r, run[r], base) /\ mishaps \in 0..MaxMishaps
    BY EntryOf
  <1>2. /\ run[r].at = "end" /\ run[r].park = "open" /\ run' = [run EXCEPT ![r] = f]
        /\ base' = base /\ note' = note /\ mishaps' = mishaps /\ query' = query
    BY DEF AckRecord, Become
  <1>3. /\ f \in Entries /\ f.at = "acking" /\ f.status = run[r].status /\ f.park = "resolved"
        /\ f.rep = run[r].rep /\ f.refused = run[r].refused /\ f.dir = run[r].dir /\ f.held = run[r].held
        /\ f.filed = run[r].filed /\ f.acked = <<r, "ack">>
    BY <1>1, LedgerNames DEF Entries, Stages
  <1> HIDE DEF f
  <1>4. run[r].status = "awaiting-ack" /\ ~run[r].refused
    BY <1>1, <1>2 DEF Marks, Reports
  <1>5. Marks(r, f, base)
    BY <1>1, <1>2, <1>3, <1>4 DEF Marks
  <1>6. Rewrites(run[r], f)
    BY <1>2, <1>3 DEF Rewrites
  <1> QED
    BY <1>1, <1>2, <1>3, <1>4, <1>5, <1>6, Rewritten

\* An ack marks the run as done (ackRun).
LEMMA AckMarkStep == ASSUME LedgerInv, NEW r \in Runs, AckMark(r) PROVE LedgerInv'
  <1> DEFINE f == [run[r] EXCEPT !.at = "noting", !.status = "done"]
  <1>1. run[r] \in Entries /\ Reports(r, run[r], base) /\ Marks(r, run[r], base) /\ mishaps \in 0..MaxMishaps
    BY EntryOf
  <1>2. /\ run[r].at = "acked" /\ run' = [run EXCEPT ![r] = f]
        /\ base' = base /\ note' = note /\ mishaps' = mishaps /\ query' = query
    BY DEF AckMark, Become
  <1>3. /\ f \in Entries /\ f.at = "noting" /\ f.status = "done" /\ f.park = run[r].park
        /\ f.rep = run[r].rep /\ f.refused = run[r].refused /\ f.dir = run[r].dir /\ f.held = run[r].held
        /\ f.filed = run[r].filed /\ f.acked = run[r].acked
    BY <1>1 DEF Entries, Stages, Statuses
  <1> HIDE DEF f
  <1>4. run[r].status = "awaiting-ack" /\ ~run[r].refused /\ run[r].acked \in On(base) /\ run[r].park # "open"
    BY <1>1, <1>2 DEF Marks, Reports
  <1>5. Marks(r, f, base)
    BY <1>1, <1>2, <1>3, <1>4 DEF Marks
  <1>6. Rewrites(run[r], f)
    BY <1>2, <1>3 DEF Rewrites
  <1> QED
    BY <1>1, <1>2, <1>3, <1>4, <1>5, <1>6, Rewritten DEF Waited

\* A rejected park (rejectRun).
LEMMA RejectStep == ASSUME LedgerInv, NEW r \in Runs, Reject(r) PROVE LedgerInv'
  <1> DEFINE f == [run[r] EXCEPT !.at = "over", !.park = "resolved", !.status = "rejected"]
  <1>1. run[r] \in Entries /\ Reports(r, run[r], base) /\ Marks(r, run[r], base) /\ mishaps \in 0..MaxMishaps
    BY EntryOf
  <1>2. /\ run[r].at = "end" /\ run[r].park = "open" /\ run' = [run EXCEPT ![r] = f]
        /\ base' = base /\ note' = note /\ mishaps' = mishaps /\ query' = query
    BY DEF Reject, Become
  <1>3. /\ f \in Entries /\ f.at = "over" /\ f.status = "rejected" /\ f.park = "resolved"
        /\ f.rep = run[r].rep /\ f.refused = run[r].refused /\ f.dir = run[r].dir /\ f.held = run[r].held
        /\ f.filed = run[r].filed /\ f.acked = run[r].acked
    BY <1>1 DEF Entries, Stages, Statuses
  <1> HIDE DEF f
  <1>4. run[r].status = "awaiting-ack"
    BY <1>1, <1>2 DEF Marks
  <1>5. Marks(r, f, base)
    BY <1>1, <1>2, <1>3, <1>4 DEF Marks
  <1>6. Rewrites(run[r], f)
    BY <1>2, <1>3 DEF Rewrites
  <1> QED
    BY <1>1, <1>2, <1>3, <1>4, <1>5, <1>6, Rewritten DEF Waited

\* A killed run, the sweep that corrects its marker, and a directory that is deleted.
LEMMA KillStep == ASSUME LedgerInv, NEW r \in Runs, Kill(r) \/ Sweep(r) \/ Delete(r) PROVE LedgerInv'
  <1>0. run[r] \in Entries /\ Reports(r, run[r], base) /\ Marks(r, run[r], base) /\ mishaps \in 0..MaxMishaps
    BY EntryOf
  <1>m. mishaps' \in 0..MaxMishaps
    BY <1>0, LedgerAssumption DEF Kill, Sweep, Delete, Mishap, LedgerAssumption
  <1>1. CASE Sweep(r)
    <2> DEFINE f == [run[r] EXCEPT !.at = "over", !.status = "interrupted"]
    <2>1. run[r].at = "dead" /\ run' = [run EXCEPT ![r] = f] /\ base' = base /\ note' = note /\ query' = query
      BY <1>1 DEF Sweep, Become
    <2>2. /\ f \in Entries /\ f.at = "over" /\ f.status = "interrupted" /\ f.park = run[r].park
          /\ f.rep = run[r].rep /\ f.refused = run[r].refused /\ f.held = run[r].held
          /\ f.filed = run[r].filed /\ f.acked = run[r].acked /\ f.dir = run[r].dir
      BY <1>0 DEF Entries, Stages, Statuses
    <2> HIDE DEF f
    <2>3. run[r].status = "running" /\ run[r].park # "open"
      BY <1>0, <2>1 DEF Marks
    <2>4. Marks(r, f, base)
      BY <1>0, <2>1, <2>2, <2>3 DEF Marks
    <2>5. Rewrites(run[r], f) /\ (f.park \in {"made", "open"} => ~run[r].refused)
      BY <1>0, <2>1, <2>2 DEF Rewrites, Reports
    <2> QED
      BY <1>m, <2>1, <2>2, <2>3, <2>4, <2>5, Rewritten DEF Waited
  <1>2. CASE Delete(r)
    <2> DEFINE f == [run[r] EXCEPT !.dir = FALSE, !.at = "over"]
    <2>1. /\ run[r].at \in {"end", "over", "dead"} /\ run' = [run EXCEPT ![r] = f]
          /\ base' = base /\ note' = note /\ query' = query
      BY <1>2 DEF Delete, Become
    <2>2. /\ f \in Entries /\ f.at = "over" /\ f.status = run[r].status /\ f.park = run[r].park
          /\ f.rep = run[r].rep /\ f.refused = run[r].refused /\ f.held = run[r].held
          /\ f.filed = run[r].filed /\ f.acked = run[r].acked /\ ~f.dir
      BY <1>0 DEF Entries, Stages
    <2> HIDE DEF f
    <2>3. Marks(r, f, base)
      BY <1>0, <2>1, <2>2 DEF Marks
    <2>4. Rewrites(run[r], f) /\ (f.park \in {"made", "open"} => ~run[r].refused)
      BY <1>0, <2>1, <2>2 DEF Rewrites, Reports
    <2> QED
      BY <1>m, <2>1, <2>2, <2>3, <2>4, Rewritten
  <1>3. CASE Kill(r)
    <2> DEFINE f == [run[r] EXCEPT !.at = "dead", !.park = "none"]
    <2>1. /\ run[r].at \in {"work", "note", "file", "finish"} /\ run' = [run EXCEPT ![r] = f]
          /\ base' = base /\ note' = note /\ query' = query
      BY <1>3 DEF Kill, Become
    <2>2. /\ f \in Entries /\ f.at = "dead" /\ f.status = run[r].status /\ f.park = "none"
          /\ f.rep = run[r].rep /\ f.refused = run[r].refused /\ f.held = run[r].held
          /\ f.filed = run[r].filed /\ f.acked = run[r].acked /\ f.dir = run[r].dir
      BY <1>0 DEF Entries, Stages
    <2> HIDE DEF f
    <2>3. Marks(r, f, base) /\ run[r].status = "running"
      BY <1>0, <2>1, <2>2 DEF Marks
    <2>4. Reports(r, f, base)
      BY <1>0, <2>1, <2>2 DEF Reports
    <2>5. Follows(run[r], f) /\ LandsFor(r)
      BY <2>1, <2>2, <2>3 DEF Follows, Waited, LandsFor
    <2>6. note' \in [Commits -> Reps]
      BY <2>1, EntryOf
    <2> QED
      BY <1>m, <2>1, <2>2, <2>3, <2>4, <2>5, <2>6, RunMoves
  <1> QED
    BY <1>1, <1>2, <1>3

\* A run begins (startRunDir).
LEMMA BeginStep == ASSUME LedgerInv, NEW r \in Runs, Begin(r) PROVE LedgerInv'
  <1>1. /\ run[r] \in Entries /\ Reports(r, run[r], base) /\ Marks(r, run[r], base) /\ base \in Seq(Links)
        /\ mishaps \in 0..MaxMishaps /\ Len(base) \in Nat /\ Len(base) > 0 /\ note \in [Commits -> Reps]
    BY EntryOf
  <1>2. run[r].at = "none" /\ run[r] = NoRun
    <2>0. Used = 1..(r - 1) /\ r \in Nat
      BY LedgerNames DEF Begin
    <2>1. r \notin Used
      BY <2>0
    <2> QED
      BY <1>1, <2>1 DEF Used, Reports
  <1>3. BaseHead \in Commits \union {Root} /\ BaseHead # Final(r) /\ Final(r) \notin On(base)
    <2>1. base[Len(base)] \in Links /\ BaseHead = base[Len(base)].head
      BY <1>1 DEF BaseHead
    <2>2. BaseHead \in On(base)
      BY <1>1, <2>1 DEF On
    <2>3. Final(r) \notin On(base)
      BY <1>1, <1>2, NoneTyped DEF Reports, NoRun
    <2> QED
      BY <2>1, <2>2, <2>3 DEF Links
  <1> DEFINE Work(w)  == [NoReport EXCEPT !.by = r, !.base = BaseHead, !.tips = [b \in Branches |-> <<w, b>>]]
             Takes(o) == [NoReport EXCEPT !.by = r, !.base = BaseHead, !.unlands = o,
                                          !.takes = run[o].rep.final]
             Entry(p) == [NoRun EXCEPT !.at = "work", !.status = "running", !.dir = TRUE, !.rep = p]
  <1>4. PICK rep : /\ run' = [run EXCEPT ![r] = Entry(rep)]
                   /\ \/ \E w \in Runs : rep = Work(w)
                      \/ \E o \in Runs : rep = Takes(o)
    <2> DEFINE W == {r} \union {o \in Used : run[o].filed /\ run[o].rep.unlands = 0
                                              /\ Tips(o) \intersect OnBase = {}}
               O == {o \in Used : Readable(o) /\ landed(run[o].rep) /\ run[o].rep.final \in OnBase}
    <2>1. \E rep \in {Work(w) : w \in W} \union {Takes(o) : o \in O} : Become(r, Entry(rep))
      BY DEF Begin
    <2>2. W \subseteq Runs /\ O \subseteq Runs
      BY DEF Used
    <2> HIDE DEF W, O, Work, Takes, Entry
    <2> QED
      BY <2>1, <2>2 DEF Become
  <1>5. /\ rep \in Reps /\ rep.by = r /\ rep.base = BaseHead /\ rep.acked = None /\ rep.final = None
        /\ rep.ok = FALSE /\ rep.landed = {} /\ (rep.unlands = 0 => \A b \in Branches : rep.tips[b] \in Tip)
    <2>0. NoReport \in Reps /\ 0 \notin Runs
      BY NoneTyped, LedgerNames
    <2>1. CASE \E w \in Runs : rep = [NoReport EXCEPT !.by = r, !.base = BaseHead,
                                                    !.tips = [b \in Branches |-> <<w, b>>]]
      <3>1. PICK w \in Runs : rep = [NoReport EXCEPT !.by = r, !.base = BaseHead,
                                                   !.tips = [b \in Branches |-> <<w, b>>]]
        BY <2>1
      <3> DEFINE tips == [b \in Branches |-> <<w, b>>]
      <3>2. tips \in [Branches -> Tip \union {None}] /\ \A b \in Branches : tips[b] \in Tip
        BY DEF Tip
      <3> HIDE DEF tips
      <3>3. rep = [NoReport EXCEPT !.by = r, !.base = BaseHead, !.tips = tips]
        BY <3>1 DEF tips
      <3> QED
        BY <1>3, <2>0, <3>2, <3>3 DEF Reps, NoReport
    <2>2. CASE \E o \in Runs : rep = [NoReport EXCEPT !.by = r, !.base = BaseHead, !.unlands = o,
                                                    !.takes = run[o].rep.final]
      <3>1. PICK o \in Runs : rep = [NoReport EXCEPT !.by = r, !.base = BaseHead, !.unlands = o,
                                                   !.takes = run[o].rep.final]
        BY <2>2
      <3>2. run[o].rep.final \in Commits \union {None, Root}
        BY EntryOf DEF Reps
      <3> QED
        BY <1>3, <2>0, <3>1, <3>2 DEF Reps, NoReport
    <2> QED
      BY <1>4, <2>1, <2>2
  <1> DEFINE f == [NoRun EXCEPT !.at = "work", !.status = "running", !.dir = TRUE, !.rep = rep]
  <1>6. /\ f \in Entries /\ f.at = "work" /\ f.status = "running" /\ f.rep = rep /\ ~f.refused /\ ~f.filed
        /\ f.held = {} /\ f.park = "none" /\ f.acked = None
    BY <1>5, NoneTyped DEF Entries, Stages, Statuses, NoRun
  <1>7. run' = [run EXCEPT ![r] = f] /\ base' = base /\ note' = note /\ mishaps' = mishaps /\ query' = query
    BY <1>4 DEF Begin
  <1> HIDE DEF f
  <1>8. ~landed(rep)
    BY <1>5 DEF landed
  <1>9. Reports(r, f, base')
    BY <1>3, <1>5, <1>6, <1>7, <1>8 DEF Reports
  <1>10. Marks(r, f, base')
    BY <1>6 DEF Marks
  <1>11. Follows(run[r], f) /\ LandsFor(r)
    BY <1>2, <1>7 DEF Follows, LandsFor, NoRun, Waited
  <1> QED
    BY <1>1, <1>6, <1>7, <1>9, <1>10, <1>11, RunMoves

\* A run that worked has done so with the report it began with, and what it decided.
Decides(x, f) ==
    /\ x.at = "work" /\ f.at \in {"note", "file"} /\ f.status = x.status /\ f.filed = x.filed
    /\ f.dir = x.dir /\ f.acked = x.acked /\ f.rep.unlands = x.rep.unlands /\ f.rep.by = x.rep.by
    /\ f.rep.acked = x.rep.acked /\ f.rep.base = x.rep.base /\ f.rep.tips = x.rep.tips

\* Such a step keeps the invariant, if a report that says "landed" landed.
LEMMA Decided ==
    ASSUME LedgerInv, NEW r \in Runs, NEW f \in Entries, run' = [run EXCEPT ![r] = f],
           Decides(run[r], f), LandsFor(r), note' = note, mishaps' = mishaps, query' = query,
           landed(f.rep) => f.rep.final = Final(r) /\ (f.refused \/ Brought(base', r, f.rep)),
           f.rep.unlands # 0 => f.held = {} /\ (landed(f.rep) => ~f.refused),
           Final(r) \in On(base') => f.rep.final = Final(r) /\ landed(f.rep),
           f.at = "note" \/ f.park \in {"made", "open"} => ~f.refused,
           f.park # "open"
    PROVE  LedgerInv'
  <1>1. /\ Reports(r, run[r], base) /\ Marks(r, run[r], base) /\ note \in [Commits -> Reps]
        /\ mishaps \in 0..MaxMishaps
    BY EntryOf
  <1>2. Reports(r, f, base')
    BY <1>1 DEF Reports, Decides
  <1>3. Marks(r, f, base')
    BY <1>1 DEF Marks, Decides
  <1>4. Follows(run[r], f)
    BY <1>1 DEF Follows, Decides, Marks, Reports, Waited
  <1> QED
    BY <1>1, <1>2, <1>3, <1>4, RunMoves

\* The base after a landing.
LEMMA Advanced ==
    ASSUME LedgerInv, NEW r \in Runs, NEW c \in {Final(r), <<r, "ack">>}, NEW T \in SUBSET Tip,
           Advance(c, T)
    PROVE  /\ LandsFor(r) /\ base' \in Seq(Links) /\ Len(base') = Len(base) + 1
           /\ base'[Len(base')].head = c /\ base'[Len(base')].tips = T /\ Len(base') \in 1..Len(base')
           /\ On(base') = On(base) \union {c} \union T
  <1> DEFINE e == [head |-> c, tips |-> T]
  <1>1. e \in Links /\ e.head = c /\ e.tips = T
    <2>0. Final(r) \in Commits /\ <<r, "ack">> \in Commits
      BY LedgerNames
    <2>1. c \in Commits
      BY <2>0
    <2> QED
      BY <2>1 DEF Links
  <1>2. base' = Append(base, e) /\ base \in Seq(Links) /\ Len(base) \in Nat
    BY EntryOf DEF Advance
  <1> HIDE DEF e
  <1>3. LandsFor(r)
    BY <1>1, <1>2 DEF LandsFor
  <1> QED
    BY <1>1, <1>2, <1>3, OnAppend

\* A run ends its work (driveRun).
LEMMA DriveStep == ASSUME LedgerInv, NEW r \in Runs, Drive(r) PROVE LedgerInv'
  <1>0. /\ run[r] \in Entries /\ Reports(r, run[r], base) /\ Marks(r, run[r], base)
        /\ run[r].rep \in Reps /\ LedgerNames
    BY EntryOf, LedgerNames
  <1>1. PICK clean \in SUBSET Branches, held \in SUBSET Branches :
          LET rep == [run[r].rep EXCEPT !.final = IF clean = {} THEN run[r].rep.base ELSE Final(r),
                                        !.landed = clean]
              ran == [run[r] EXCEPT !.rep = [rep EXCEPT !.ok = TRUE]]
          IN  /\ run[r].at = "work" /\ ~IsUnland(r)
              /\ clean \intersect held = {} /\ clean \union held # {}
              /\ \/ /\ clean = {} \/ rep.base = BaseHead
                    /\ Become(r, [ran EXCEPT !.at = "note", !.held = held,
                                             !.park = IF held = {} THEN "none" ELSE "made"])
                    /\ IF clean = {} THEN UNCHANGED base
                       ELSE Advance(Final(r), {rep.tips[b] : b \in clean})
                 \/ /\ clean # {} /\ held = {} /\ rep.base # BaseHead
                    /\ Become(r, [ran EXCEPT !.at = "file", !.refused = TRUE]) /\ UNCHANGED base
                 \/ /\ clean # {} /\ held = {}
                    /\ Become(r, [run[r] EXCEPT !.at = "file", !.rep = rep]) /\ UNCHANGED base
              /\ UNCHANGED <<note, mishaps, query>>
    BY DEF Drive
  <1> DEFINE final == IF clean = {} THEN run[r].rep.base ELSE Final(r)
             rep == [run[r].rep EXCEPT !.final = final, !.landed = clean]
             good == [rep EXCEPT !.ok = TRUE]
             ran == [run[r] EXCEPT !.rep = good]
             park == IF held = {} THEN "none" ELSE "made"
  <1>2. final \in Commits \union {None, Root} /\ park \in {"none", "made"}
    BY <1>0 DEF Reps
  <1>3. /\ run[r].at = "work" /\ run[r].rep.unlands = 0 /\ note' = note /\ mishaps' = mishaps /\ query' = query
        /\ (clean = {} => final = run[r].rep.base) /\ (clean # {} => final = Final(r))
        /\ run[r].rep.base # Final(r) /\ ~run[r].rep.ok /\ ~run[r].refused /\ run[r].held = {}
        /\ run[r].park = "none" /\ Final(r) \notin On(base) /\ \A b \in Branches : run[r].rep.tips[b] \in Tip
    BY <1>0, <1>1 DEF IsUnland, Reports
  <1>4. \/ /\ Become(r, [ran EXCEPT !.at = "note", !.held = held, !.park = park])
           /\ IF clean = {} THEN base' = base ELSE Advance(Final(r), {rep.tips[b] : b \in clean})
        \/ /\ clean # {} /\ base' = base
           /\ \/ Become(r, [ran EXCEPT !.at = "file", !.refused = TRUE])
              \/ Become(r, [run[r] EXCEPT !.at = "file", !.rep = rep])
    BY <1>1
  <1> HIDE DEF final, park
  <1>5. /\ rep \in Reps /\ ~rep.ok /\ rep.final = final /\ rep.landed = clean
        /\ rep.tips = run[r].rep.tips /\ rep.base = run[r].rep.base /\ rep.by = run[r].rep.by
        /\ rep.acked = run[r].rep.acked /\ rep.unlands = 0
    BY <1>0, <1>2, <1>3 DEF Reps
  <1>a. /\ good \in Reps /\ good.ok /\ good.final = rep.final /\ good.landed = rep.landed
        /\ good.tips = rep.tips /\ good.base = rep.base /\ good.by = rep.by
        /\ good.acked = rep.acked /\ good.unlands = rep.unlands
    <2> HIDE DEF rep
    <2> QED
      BY <1>5 DEF Reps
  <1> DEFINE T == {rep.tips[b] : b \in clean}
  <1> HIDE DEF rep, good
  <1>6. T \subseteq Tip /\ T = {good.tips[b] : b \in good.landed}
    BY <1>3, <1>5, <1>a
  <1>7. /\ landed(good) <=> clean # {}
        /\ good.final = Final(r) <=> clean # {}
        /\ ~landed(rep)
    BY <1>3, <1>5, <1>a, <1>0, LedgerNames DEF landed
  <1>8. CASE /\ Become(r, [ran EXCEPT !.at = "note", !.held = held, !.park = park])
             /\ IF clean = {} THEN base' = base ELSE Advance(Final(r), T)
    <2> DEFINE f == [ran EXCEPT !.at = "note", !.held = held, !.park = park]
    <2>1. /\ f \in Entries /\ f.at = "note" /\ f.status = run[r].status /\ f.rep = good /\ f.park = park
          /\ f.refused = run[r].refused /\ f.filed = run[r].filed /\ f.acked = run[r].acked
          /\ f.dir = run[r].dir
      BY <1>0, <1>2, <1>a DEF Entries, Stages
    <2>2. run' = [run EXCEPT ![r] = f]
      BY <1>8 DEF Become
    <2> HIDE DEF f
    <2>3. Decides(run[r], f)
      BY <1>3, <1>5, <1>a, <2>1 DEF Decides
    <2>4. CASE clean = {}
      <3>1. base' = base /\ LandsFor(r)
        BY <1>8, <2>4 DEF LandsFor
      <3> QED
        BY <1>2, <1>3, <1>5, <1>7, <1>a, <2>1, <2>2, <2>3, <2>4, <3>1, Decided
    <2>5. CASE clean # {}
      <3>1. Advance(Final(r), T)
        BY <1>8, <2>5
      <3>2. /\ LandsFor(r) /\ Len(base') \in 1..Len(base')
            /\ base'[Len(base')].head = Final(r) /\ base'[Len(base')].tips = T
        BY <1>6, <3>1, Advanced
      <3>3. Brought(base', r, good)
        BY <1>6, <3>2 DEF Brought
      <3> QED
        BY <1>2, <1>3, <1>5, <1>7, <1>a, <2>1, <2>2, <2>3, <2>5, <3>2, <3>3, Decided
    <2> QED
      BY <2>4, <2>5
  <1>9. CASE clean # {} /\ base' = base /\ Become(r, [ran EXCEPT !.at = "file", !.refused = TRUE])
    <2> DEFINE f == [ran EXCEPT !.at = "file", !.refused = TRUE]
    <2>1. /\ f \in Entries /\ f.at = "file" /\ f.status = run[r].status /\ f.rep = good
          /\ f.park = run[r].park /\ f.refused /\ f.filed = run[r].filed /\ f.acked = run[r].acked
          /\ f.dir = run[r].dir
      BY <1>0, <1>a DEF Entries, Stages
    <2>2. run' = [run EXCEPT ![r] = f] /\ LandsFor(r)
      BY <1>9 DEF Become, LandsFor
    <2> HIDE DEF f
    <2>3. Decides(run[r], f)
      BY <1>3, <1>5, <1>a, <2>1 DEF Decides
    <2> QED
      BY <1>3, <1>5, <1>7, <1>9, <1>a, <2>1, <2>2, <2>3, Decided
  <1>10. CASE clean # {} /\ base' = base /\ Become(r, [run[r] EXCEPT !.at = "file", !.rep = rep])
    <2> DEFINE f == [run[r] EXCEPT !.at = "file", !.rep = rep]
    <2>1. /\ f \in Entries /\ f.at = "file" /\ f.status = run[r].status /\ f.rep = rep
          /\ f.park = run[r].park /\ f.refused = run[r].refused /\ f.filed = run[r].filed
          /\ f.acked = run[r].acked
          /\ f.dir = run[r].dir
      BY <1>0, <1>5 DEF Entries, Stages
    <2>2. run' = [run EXCEPT ![r] = f] /\ LandsFor(r)
      BY <1>10 DEF Become, LandsFor
    <2> HIDE DEF f
    <2>3. Decides(run[r], f)
      BY <1>3, <1>5, <2>1 DEF Decides
    <2> QED
      BY <1>3, <1>5, <1>7, <1>10, <2>1, <2>2, <2>3, Decided
  <1> QED
    BY <1>4, <1>8, <1>9, <1>10

\* An unland ends its work (unlandRun).
LEMMA UnlandStep == ASSUME LedgerInv, NEW r \in Runs, Unland(r) PROVE LedgerInv'
  <1>0. /\ run[r] \in Entries /\ Reports(r, run[r], base) /\ Marks(r, run[r], base) /\ run[r].rep \in Reps
    BY EntryOf
  <1>1. /\ run[r].at = "work" /\ run[r].rep.unlands # 0 /\ note' = note /\ mishaps' = mishaps /\ query' = query
        /\ run[r].rep.base # Final(r) /\ run[r].rep.final = None /\ ~run[r].refused /\ run[r].held = {}
        /\ run[r].park = "none" /\ Final(r) \notin On(base) /\ run[r].rep.landed = {} /\ ~run[r].rep.ok
    BY <1>0, LedgerNames DEF Unland, IsUnland, Reports
  <1>2. CASE /\ Advance(Final(r), {})
             /\ Become(r, [run[r] EXCEPT !.at = "note", !.rep.final = Final(r), !.rep.ok = TRUE])
    <2> DEFINE rep == [run[r].rep EXCEPT !.final = Final(r), !.ok = TRUE]
               f   == [run[r] EXCEPT !.at = "note", !.rep = rep]
    <2>1. /\ rep \in Reps /\ rep.ok /\ rep.final = Final(r) /\ rep.landed = {} /\ rep.tips = run[r].rep.tips
          /\ rep.base = run[r].rep.base /\ rep.by = run[r].rep.by /\ rep.acked = run[r].rep.acked
          /\ rep.unlands = run[r].rep.unlands
      <3>1. Final(r) \in Commits
        BY LedgerNames
      <3> QED
        BY <1>0, <1>1, <3>1 DEF Reps
    <2>2. [run[r] EXCEPT !.at = "note", !.rep.final = Final(r), !.rep.ok = TRUE] = f
      BY <1>0 DEF Entries, Reps
    <2> HIDE DEF rep
    <2>3. /\ f \in Entries /\ f.at = "note" /\ f.status = run[r].status /\ f.rep = rep /\ f.held = run[r].held
          /\ f.park = run[r].park /\ f.refused = run[r].refused /\ f.filed = run[r].filed
          /\ f.acked = run[r].acked
          /\ f.dir = run[r].dir
      BY <1>0, <2>1 DEF Entries, Stages
    <2>4. run' = [run EXCEPT ![r] = f]
      BY <1>2, <2>2 DEF Become
    <2> HIDE DEF f
    <2>5. /\ LandsFor(r) /\ Len(base') \in 1..Len(base') /\ base'[Len(base')].head = Final(r)
      BY <1>2, Advanced
    <2>6. Brought(base', r, rep)
      BY <2>1, <2>5 DEF Brought
    <2>7. landed(rep)
      BY <1>1, <2>1, LedgerNames DEF landed
    <2>8. Decides(run[r], f)
      BY <1>1, <2>1, <2>3 DEF Decides
    <2> QED
      BY <1>1, <2>1, <2>3, <2>4, <2>5, <2>6, <2>7, <2>8, Decided
  <1>3. CASE base' = base /\ Become(r, [run[r] EXCEPT !.at = "file", !.park = "made", !.rep.ok = TRUE])
    <2> DEFINE rep == [run[r].rep EXCEPT !.ok = TRUE]
               f   == [run[r] EXCEPT !.at = "file", !.park = "made", !.rep = rep]
    <2>1. /\ rep \in Reps /\ rep.final = None /\ rep.landed = {} /\ rep.tips = run[r].rep.tips
          /\ rep.base = run[r].rep.base /\ rep.by = run[r].rep.by /\ rep.acked = run[r].rep.acked
          /\ rep.unlands = run[r].rep.unlands
      BY <1>0, <1>1 DEF Reps
    <2>2. [run[r] EXCEPT !.at = "file", !.park = "made", !.rep.ok = TRUE] = f
      BY <1>0 DEF Entries, Reps
    <2> HIDE DEF rep
    <2>3. /\ f \in Entries /\ f.at = "file" /\ f.status = run[r].status /\ f.rep = rep /\ f.held = run[r].held
          /\ f.park = "made" /\ f.refused = run[r].refused /\ f.filed = run[r].filed
          /\ f.acked = run[r].acked
          /\ f.dir = run[r].dir
      BY <1>0, <2>1 DEF Entries, Stages
    <2>4. run' = [run EXCEPT ![r] = f] /\ LandsFor(r)
      BY <1>3, <2>2 DEF Become, LandsFor
    <2> HIDE DEF f
    <2>5. ~landed(rep)
      BY <2>1 DEF landed
    <2>6. Decides(run[r], f)
      BY <1>1, <2>1, <2>3 DEF Decides
    <2> QED
      BY <1>1, <1>3, <2>1, <2>3, <2>4, <2>5, <2>6, Decided
  <1>4. CASE base' = base /\ Become(r, [run[r] EXCEPT !.at = "file", !.refused = TRUE])
    <2> DEFINE f == [run[r] EXCEPT !.at = "file", !.refused = TRUE]
    <2>1. /\ f \in Entries /\ f.at = "file" /\ f.status = run[r].status /\ f.rep = run[r].rep
          /\ f.held = run[r].held /\ f.park = run[r].park /\ f.refused /\ f.filed = run[r].filed
          /\ f.acked = run[r].acked
          /\ f.dir = run[r].dir
      BY <1>0 DEF Entries, Stages
    <2>2. run' = [run EXCEPT ![r] = f] /\ LandsFor(r)
      BY <1>4 DEF Become, LandsFor
    <2> HIDE DEF f
    <2>3. ~landed(f.rep)
      BY <1>1, <2>1 DEF landed
    <2>4. Decides(run[r], f)
      BY <1>1, <2>1 DEF Decides
    <2> QED
      BY <1>1, <1>4, <2>1, <2>2, <2>3, <2>4, Decided
  <1> QED
    BY <1>2, <1>3, <1>4 DEF Unland

\* The swap of an ack, and what a refused one takes back (ackRun, refuseAck).
LEMMA AckSwapStep == ASSUME LedgerInv, NEW r \in Runs, AckSwap(r) PROVE LedgerInv'
  <1>0. /\ run[r] \in Entries /\ Reports(r, run[r], base) /\ Marks(r, run[r], base)
        /\ base \in Seq(Links) /\ note \in [Commits -> Reps] /\ mishaps \in 0..MaxMishaps
    BY EntryOf
  <1>1. run[r].at = "acking" /\ note' = note /\ mishaps' = mishaps /\ query' = query
    BY DEF AckSwap
  <1>2. /\ run[r].acked = <<r, "ack">> /\ ~run[r].refused /\ run[r].park # "open" /\ run[r].filed
        /\ run[r].status = "awaiting-ack"
    BY <1>0, <1>1 DEF Marks
  <1> DEFINE T == {run[r].rep.tips[b] : b \in run[r].held}
  <1>3. CASE Advance(<<r, "ack">>, T) /\ Become(r, [run[r] EXCEPT !.at = "acked"])
    <2> DEFINE f == [run[r] EXCEPT !.at = "acked"]
               e == [head |-> <<r, "ack">>, tips |-> T]
    <2>1. /\ f \in Entries /\ f.at = "acked" /\ f.status = run[r].status /\ f.rep = run[r].rep
          /\ f.held = run[r].held /\ f.park = run[r].park /\ f.refused = run[r].refused
          /\ f.filed = run[r].filed /\ f.acked = run[r].acked /\ f.dir = run[r].dir
      BY <1>0 DEF Entries, Stages
    <2>2. run' = [run EXCEPT ![r] = f]
      BY <1>3 DEF Become
    <2> HIDE DEF f
    <2>3. T \subseteq Tip
      <3>1. run[r].held \subseteq Branches /\ (run[r].rep.unlands # 0 => run[r].held = {})
            /\ (run[r].rep.unlands = 0 => \A b \in Branches : run[r].rep.tips[b] \in Tip)
        BY <1>0, <1>1 DEF Reports, Entries
      <3> QED
        BY <3>1
    <2> HIDE DEF T
    <2>4. e \in Links /\ base' = Append(base, e) /\ e.head = <<r, "ack">>
      <3>1. <<r, "ack">> \in Commits
        BY LedgerNames
      <3> QED
        BY <1>3, <2>3, <3>1 DEF Links, Advance
    <2> HIDE DEF e
    <2>5. LandsFor(r) /\ e.head # Final(r) /\ <<r, "ack">> \in On(base')
      <3>1. <<r, "ack">> # Final(r)
        BY LedgerNames
      <3>2. On(base') = On(base) \union {e.head} \union e.tips
        BY <1>0, <2>4, OnAppend
      <3> QED
        BY <2>4, <3>1, <3>2 DEF LandsFor
    <2>6. Reports(r, run[r], base') /\ Marks(r, run[r], base')
      BY <1>0, <2>4, <2>5, OthersStand
    <2>7. Reports(r, f, base') /\ Marks(r, f, base')
      BY <1>1, <1>2, <2>1, <2>5, <2>6 DEF Reports, Marks
    <2>8. Follows(run[r], f)
      BY <1>1, <1>2, <2>1 DEF Follows, Waited
    <2> QED
      BY <1>0, <1>1, <2>1, <2>2, <2>5, <2>7, <2>8, RunMoves
  <1>4. CASE base' = base /\ Become(r, [run[r] EXCEPT !.at = "end", !.park = "open", !.acked = None])
    <2> DEFINE f == [run[r] EXCEPT !.at = "end", !.park = "open", !.acked = None]
    <2>1. /\ f \in Entries /\ f.at = "end" /\ f.status = run[r].status /\ f.rep = run[r].rep
          /\ f.held = run[r].held /\ f.park = "open" /\ f.refused = run[r].refused
          /\ f.filed = run[r].filed /\ f.acked = None /\ f.dir = run[r].dir
      BY <1>0 DEF Entries, Stages
    <2>2. run' = [run EXCEPT ![r] = f]
      BY <1>4 DEF Become
    <2> HIDE DEF f
    <2>3. Marks(r, f, base) /\ Rewrites(run[r], f)
      BY <1>0, <1>1, <1>2, <2>1 DEF Marks, Rewrites
    <2> QED
      BY <1>0, <1>1, <1>2, <1>4, <2>1, <2>2, <2>3, Rewritten
  <1>5. CASE base' = base /\ Become(r, [run[r] EXCEPT !.at = "over"])
    <2> DEFINE f == [run[r] EXCEPT !.at = "over"]
    <2>1. /\ f \in Entries /\ f.at = "over" /\ f.status = run[r].status /\ f.rep = run[r].rep
          /\ f.held = run[r].held /\ f.park = run[r].park /\ f.refused = run[r].refused
          /\ f.filed = run[r].filed /\ f.acked = run[r].acked /\ f.dir = run[r].dir
      BY <1>0 DEF Entries, Stages
    <2>2. run' = [run EXCEPT ![r] = f]
      BY <1>5 DEF Become
    <2> HIDE DEF f
    <2>3. Marks(r, f, base) /\ Rewrites(run[r], f)
      BY <1>0, <1>1, <1>2, <2>1 DEF Marks, Rewrites
    <2> QED
      BY <1>0, <1>1, <1>2, <1>5, <2>1, <2>2, <2>3, Rewritten
  <1> QED
    BY <1>3, <1>4, <1>5 DEF AckSwap

\* The notes.
LEMMA NoteStep == ASSUME LedgerInv, NEW r \in Runs, Note(r) \/ AckNote(r) PROVE LedgerInv'
  <1>0. /\ run[r] \in Entries /\ Reports(r, run[r], base) /\ Marks(r, run[r], base) /\ run[r].rep \in Reps
        /\ note \in [Commits -> Reps] /\ mishaps \in 0..MaxMishaps
    BY EntryOf
  <1> DEFINE at == IF run[r].at = "note" THEN "file" ELSE "over"
             f  == [run[r] EXCEPT !.at = at]
  <1>1. /\ run[r].at \in {"note", "noting"} /\ run' = [run EXCEPT ![r] = f]
        /\ base' = base /\ mishaps' = mishaps /\ query' = query
    BY DEF Note, AckNote, Become
  <1>2. at \in {"file", "over"} /\ at \in Stages /\ (run[r].at = "noting" => at = "over")
        /\ (run[r].at = "note" => at = "file")
    BY <1>1 DEF Stages
  <1> HIDE DEF at
  <1>3. /\ f \in Entries /\ f.at = at /\ f.status = run[r].status /\ f.rep = run[r].rep
        /\ f.held = run[r].held /\ f.park = run[r].park /\ f.refused = run[r].refused
        /\ f.filed = run[r].filed /\ f.acked = run[r].acked /\ f.dir = run[r].dir
    BY <1>0, <1>2 DEF Entries
  <1> HIDE DEF f
  <1>4. ~run[r].refused
    BY <1>0, <1>1 DEF Reports, Marks
  <1>5. Reports(r, f, base')
    BY <1>0, <1>1, <1>2, <1>3, <1>4 DEF Reports
  <1>6. Marks(r, f, base')
    BY <1>0, <1>1, <1>2, <1>3 DEF Marks
  <1>7. Follows(run[r], f) /\ LandsFor(r)
    BY <1>1, <1>2, <1>3 DEF Follows, LandsFor
  <1>8. \/ note' = note
        \/ \E c \in Commits, n \in Reps : note' = [note EXCEPT ![c] = n] /\ About(n, r, f, base')
    <2>1. CASE run[r].at = "note"
      <3>1. Final(r) \in Commits /\ run[r].rep.by = r /\ run[r].rep.acked = None
        BY <1>0, <2>1, LedgerNames DEF Reports
      <3>2. About(run[r].rep, r, f, base')
        BY <1>2, <1>3, <1>4, <2>1, <3>1 DEF About
      <3>3. note' = note \/ note' = [note EXCEPT ![Final(r)] = run[r].rep]
        BY <2>1 DEF Note, AckNote
      <3> QED
        BY <1>0, <3>1, <3>2, <3>3
    <2>2. CASE run[r].at = "noting"
      <3> DEFINE n == [run[r].rep EXCEPT !.acked = run[r].acked]
      <3>1. run[r].rep.by = r /\ run[r].acked = <<r, "ack">> /\ run[r].acked \in On(base)
        BY <1>0, <2>2 DEF Reports, Marks
      <3>2. run[r].acked \in Commits
        BY <3>1, LedgerNames
      <3>3. /\ n \in Reps /\ n.by = r /\ n.base = run[r].rep.base /\ n.final = run[r].rep.final
            /\ n.ok = run[r].rep.ok /\ n.tips = run[r].rep.tips /\ n.landed = run[r].rep.landed
            /\ n.unlands = run[r].rep.unlands /\ n.acked = run[r].acked
        BY <1>0, <3>1, <3>2 DEF Reps
      <3>4. note' = note \/ note' = [note EXCEPT ![run[r].acked] = n]
        BY <2>2 DEF Note, AckNote
      <3> HIDE DEF n
      <3>5. About(n, r, f, base')
        BY <1>1, <1>2, <1>3, <1>4, <2>2, <3>1, <3>3 DEF About
      <3> QED
        BY <3>2, <3>3, <3>4, <3>5
    <2> QED
      BY <1>1, <2>1, <2>2
  <1>9. note' \in [Commits -> Reps] /\ \A c \in Commits : note'[c] = note[c] \/ About(note'[c], r, f, base')
    <2>1. CASE note' = note
      BY <1>0, <2>1
    <2>2. CASE \E c \in Commits, n \in Reps : note' = [note EXCEPT ![c] = n] /\ About(n, r, f, base')
      <3>1. PICK c \in Commits, n \in Reps : note' = [note EXCEPT ![c] = n] /\ About(n, r, f, base')
        BY <2>2
      <3>2. note'[c] = n /\ \A d \in Commits : d # c => note'[d] = note[d]
        BY <1>0, <3>1
      <3> QED
        BY <1>0, <3>1, <3>2
    <2> QED
      BY <1>8, <2>1, <2>2
  <1>10. \A t \in Runs : run[t].filed => note'[Final(t)] = note[Final(t)]
    <2>1. CASE run[r].at = "note"
      <3>1. ~run[r].filed
        BY <1>0, <2>1 DEF Marks
      <3>2. note' = note \/ note' = [note EXCEPT ![Final(r)] = run[r].rep]
        BY <2>1 DEF Note, AckNote
      <3> QED
        BY <1>0, <3>1, <3>2, LedgerNames
    <2>2. CASE run[r].at = "noting"
      <3>1. run[r].acked = <<r, "ack">>
        BY <1>0, <2>2 DEF Marks
      <3>2. note' = note \/ note' = [note EXCEPT ![<<r, "ack">>] = [run[r].rep EXCEPT !.acked = run[r].acked]]
        BY <2>2, <3>1 DEF Note, AckNote
      <3> QED
        BY <1>0, <3>2, LedgerNames
    <2> QED
      BY <1>1, <2>1, <2>2
  <1> QED
    BY <1>0, <1>1, <1>3, <1>5, <1>6, <1>7, <1>9, <1>10, RunMoves

\* A note that somebody copies says what it said before.
LEMMA CopyStep == ASSUME LedgerInv, Copy PROVE LedgerInv'
  <1>0. Typed /\ Traces
    BY DEF LedgerInv
  <1>1. PICK c \in Commits, d \in Commits :
          /\ note[c] # NoReport /\ mishaps < MaxMishaps /\ mishaps' = mishaps + 1
          /\ \E id \in {note[c].by, 0} :
                note' = [note EXCEPT ![d] = [note[c] EXCEPT !.by = id]]
    BY DEF Copy, Mishap
  <1>2. PICK id \in {note[c].by, 0} :
                note' = [note EXCEPT ![d] = [note[c] EXCEPT !.by = id]]
    BY <1>1
  <1>3. base' = base /\ run' = run /\ query' = query /\ query = NoQuery
    BY DEF Copy, Quiet
  <1> DEFINE n == [note[c] EXCEPT !.by = id]
  <1>4. note \in [Commits -> Reps] /\ note[c] \in Reps
    BY <1>0 DEF Typed
  <1>5. /\ n \in Reps /\ n.by = id /\ n.base = note[c].base /\ n.final = note[c].final
        /\ n.ok = note[c].ok /\ n.tips = note[c].tips /\ n.landed = note[c].landed
        /\ n.unlands = note[c].unlands /\ n.acked = note[c].acked
    BY <1>2, <1>4 DEF Reps
  <1> HIDE DEF n
  <1>6. note' = [note EXCEPT ![d] = n] /\ note' \in [Commits -> Reps]
    BY <1>2, <1>4, <1>5 DEF n
  <1>7. Typed'
    <2>1. mishaps' \in 0..MaxMishaps
      BY <1>0, <1>1, LedgerAssumption DEF Typed, LedgerAssumption
    <2> QED
      BY <1>0, <1>3, <1>6, <2>1 DEF Typed
  <1>8. PICK t \in Runs : About(note[c], t, run[t], base)
    BY <1>0, <1>1 DEF Traces, NoteSays
  <1>9. About(n, t, run[t], base)
    BY <1>2, <1>5, <1>8 DEF About
  <1>10. \A k \in Commits : NoteSays(k)'
    <2> SUFFICES ASSUME NEW k \in Commits, note'[k] # NoReport
                 PROVE  \E o \in Runs : About(note'[k], o, run[o], base)
      BY <1>3 DEF NoteSays, About, landed
    <2>1. CASE k = d
      BY <1>4, <1>6, <1>9, <2>1
    <2>2. CASE k # d
      BY <1>0, <1>4, <1>6, <2>2 DEF Traces, NoteSays
    <2> QED
      BY <2>1, <2>2
  <1>11. Traces'
    BY <1>0, <1>3, <1>10 DEF Traces
  <1>12. Onward
    BY <1>3, FollowsItself DEF Onward
  <1> QED
    BY <1>3, <1>7, <1>11, <1>12, ReaderStands DEF LedgerInv

\* A push brings no landing of a run.
LEMMA PushStep == ASSUME LedgerInv, NEW x \in Pushes, Push(x) PROVE LedgerInv'
  <1>0. Typed /\ Traces /\ base \in Seq(Links) /\ Len(base) \in Nat /\ Len(base) > 0
    BY LenProperties DEF LedgerInv, Typed
  <1>1. PICK T \in {{}} \union {{t} : t \in UNION {Tips(r) : r \in Used}} :
          /\ Advance(<<0, x>>, T) /\ mishaps < MaxMishaps /\ mishaps' = mishaps + 1
          /\ run' = run /\ note' = note /\ query' = query
    BY DEF Push, Mishap
  <1>2. T \subseteq Tip
    <2>1. \A r \in Runs : Tips(r) \subseteq Tip
      BY EntryOf DEF Tips, Reps
    <2> QED
      BY <2>1 DEF Used
  <1> DEFINE e == [head |-> <<0, x>>, tips |-> T]
  <1>3. e \in Links /\ e.head = <<0, x>> /\ base' = Append(base, e)
    BY <1>1, <1>2, LedgerNames DEF Links, Advance
  <1> HIDE DEF e
  <1>4. /\ base' \in Seq(Links) /\ Len(base') = Len(base) + 1 /\ base'[1] = base[1]
        /\ On(base) \subseteq On(base')
    BY <1>0, <1>3, OnAppend
  <1>5. Typed'
    <2>1. mishaps' \in 0..MaxMishaps
      BY <1>0, <1>1, LedgerAssumption DEF Typed, LedgerAssumption
    <2> QED
      BY <1>0, <1>1, <1>4, <2>1 DEF Typed
  <1>6. \A t \in Runs : Reports(t, run[t], base') /\ Marks(t, run[t], base')
    <2> SUFFICES ASSUME NEW t \in Runs PROVE Reports(t, run[t], base') /\ Marks(t, run[t], base')
      OBVIOUS
    <2>1. e.head # Final(t)
      BY <1>3, LedgerNames
    <2>2. run[t] \in Entries /\ Reports(t, run[t], base) /\ Marks(t, run[t], base)
      BY EntryOf
    <2> QED
      BY <1>0, <1>3, <2>1, <2>2, OthersStand
  <1>7. \A c \in Commits : NoteSays(c)'
    BY <1>0, <1>1, <1>4 DEF Traces, NoteSays, About, landed
  <1>8. Traces'
    BY <1>1, <1>6, <1>7 DEF Traces
  <1>9. Onward
    BY <1>1, <1>3, FollowsItself DEF Onward
  <1> QED
    BY <1>1, <1>5, <1>8, <1>9, ReaderStands DEF LedgerInv

-----------------------------------------------------------------------------
(* The reader: what a report makes of a commit.                              *)

\* A report is matched with a commit only by what it says landed (matchProvenance).
LEMMA Provenance ==
    ASSUME NEW rep, NEW c
    PROVE  LET p == matchProvenance(rep, c)
           IN  /\ p \in Answers /\ p.by = 0 /\ p.run = 0
               /\ p.landed => \/ rep.final = c /\ landed(rep)
                              \/ rep.acked = c
                              \/ \E b \in Branches : b \in rep.landed /\ rep.tips[b] = c /\ landed(rep)
               /\ p.landed /\ p.role # "ack-landed-commit" => landed(rep)
               /\ p.landed => p.role # "none"
               /\ p.role = "none" => ~p.landed
               /\ rep.final = c /\ landed(rep) => p.landed /\ p.role # "ack-landed-commit"
  <1> DEFINE members == {b \in Branches : rep.tips[b] = c}
             role == CASE rep.final = c /\ landed(rep) ->
                            IF rep.unlands = 0 THEN "landed-commit" ELSE "unland-commit"
                       [] ~(rep.final = c /\ landed(rep)) /\ rep.acked = c -> "ack-landed-commit"
                       [] OTHER -> IF \E b \in members : MemberLanded(rep, b) THEN "member-landed"
                                   ELSE IF members # {} THEN "member" ELSE "none"
             p == matchProvenance(rep, c)
  <1>1. p = [Unknown EXCEPT !.role = role, !.landed = role \notin {"member", "none"}]
    BY DEF matchProvenance
  <1>2. /\ role \in Roles
        /\ role \in {"landed-commit", "unland-commit"} <=> rep.final = c /\ landed(rep)
        /\ role = "ack-landed-commit" => rep.acked = c
        /\ role = "member-landed" => \E b \in members : MemberLanded(rep, b)
    <2>1. CASE rep.final = c /\ landed(rep)
      BY <2>1 DEF Roles
    <2>2. CASE ~(rep.final = c /\ landed(rep)) /\ rep.acked = c
      BY <2>2 DEF Roles
    <2>3. CASE ~(rep.final = c /\ landed(rep)) /\ rep.acked # c
      BY <2>3 DEF Roles
    <2> QED
      BY <2>1, <2>2, <2>3
  <1>3. role = "member-landed" => \E b \in Branches : b \in rep.landed /\ rep.tips[b] = c /\ landed(rep)
    BY <1>2 DEF MemberLanded
  <1> HIDE DEF role, members
  <1>4. Unknown \in Answers /\ Unknown.by = 0 /\ Unknown.run = 0
    BY DEF Unknown, NoQuery, Answers, Roles
  <1>5. /\ p \in Answers /\ p.by = 0 /\ p.run = 0 /\ p.role = role
        /\ p.landed = (role \notin {"member", "none"})
    BY <1>1, <1>2, <1>4 DEF Answers
  <1> HIDE DEF p
  <1>6. p.landed => role \in {"landed-commit", "unland-commit", "ack-landed-commit", "member-landed"}
    BY <1>2, <1>5 DEF Roles
  <1> QED
    BY <1>2, <1>3, <1>5, <1>6 DEF p

\* What a landing brought along is on the base.
LEMMA BroughtOnBase ==
    ASSUME NEW r, NEW rep, Brought(base, r, rep)
    PROVE  Final(r) \in OnBase /\ \A b \in rep.landed : rep.tips[b] \in OnBase
  <1>1. PICK k \in 1..Len(base) : /\ base[k].head = Final(r)
                                  /\ {rep.tips[b] : b \in rep.landed} \subseteq base[k].tips
    BY DEF Brought
  <1> QED
    BY <1>1, OnIs DEF On

\* A landed report of a run that was not refused tells of the base.
LEMMA LandedOnBase ==
    ASSUME LedgerInv, NEW r \in Runs, landed(run[r].rep), ~run[r].refused
    PROVE  /\ run[r].rep.final = Final(r) /\ Final(r) \in OnBase
           /\ \A b \in run[r].rep.landed : run[r].rep.tips[b] \in OnBase
  <1>1. run[r].rep.final = Final(r) /\ Brought(base, r, run[r].rep)
    BY EntryOf DEF Reports
  <1> QED
    BY <1>1, BroughtOnBase

\* A note says nothing landed that did not.
LEMMA NoteTrue ==
    ASSUME LedgerInv, NEW c \in Commits, note[c] # NoReport
    PROVE  LET p == matchProvenance(note[c], c)
           IN  /\ p.landed => c \in OnBase
               /\ landed(note[c]) => \E t \in Runs :
                     /\ note[c].final = Final(t) /\ note[c].by \in {t, 0}
                     /\ \E k \in 1..Len(base) :
                          /\ base[k].head = Final(t)
                          /\ {note[c].tips[b] : b \in note[c].landed} \subseteq base[k].tips
  <1>1. PICK t \in Runs : About(note[c], t, run[t], base)
    BY DEF LedgerInv, Traces, NoteSays
  <1>2. /\ note[c].base = run[t].rep.base /\ note[c].final = run[t].rep.final /\ note[c].ok = run[t].rep.ok
        /\ note[c].tips = run[t].rep.tips /\ note[c].landed = run[t].rep.landed /\ ~run[t].refused
        /\ note[c].by \in {t, 0}
        /\ note[c].acked = None \/ note[c].acked \in OnBase
    BY <1>1, OnIs DEF About
  <1>3. landed(note[c]) => landed(run[t].rep)
    BY <1>2 DEF landed
  <1>4. landed(note[c]) => /\ note[c].final = Final(t) /\ Final(t) \in OnBase
                           /\ \A b \in note[c].landed : note[c].tips[b] \in OnBase
    BY <1>2, <1>3, LandedOnBase
  <1>5. landed(note[c]) => Brought(base, t, note[c])
    <2>1. landed(run[t].rep) => Brought(base, t, run[t].rep)
      BY <1>2, EntryOf DEF Reports
    <2> QED
      BY <1>2, <1>3, <2>1 DEF Brought
  <1>6. c # None
    BY LedgerNames
  <1> DEFINE p == matchProvenance(note[c], c)
  <1>7. p.landed => \/ note[c].final = c /\ landed(note[c])
                    \/ note[c].acked = c
                    \/ \E b \in Branches : b \in note[c].landed /\ note[c].tips[b] = c /\ landed(note[c])
    BY Provenance
  <1> HIDE DEF p
  <1>8. p.landed => c \in OnBase
    BY <1>2, <1>4, <1>6, <1>7
  <1>9. landed(note[c]) => \E k \in 1..Len(base) :
             base[k].head = Final(t) /\ {note[c].tips[b] : b \in note[c].landed} \subseteq base[k].tips
    BY <1>5 DEF Brought
  <1> QED
    BY <1>2, <1>4, <1>8, <1>9 DEF p

\* Nor does a run's report, but for a refused swap.
AckedRep(r) == [run[r].rep EXCEPT !.acked = ackedLandedSHA(r)]

LEMMA RunTrue ==
    ASSUME LedgerInv, NEW r \in Runs, NEW c \in Commits
    PROVE  LET p == matchProvenance(AckedRep(r), c)
           IN  /\ p.landed => c \in OnBase \/ run[r].refused
               /\ landed(AckedRep(r)) <=> landed(run[r].rep)
               /\ AckedRep(r).unlands = run[r].rep.unlands
  <1>1. run[r] \in Entries /\ run[r].rep \in Reps /\ Marks(r, run[r], base)
    BY EntryOf
  <1>2. ackedLandedSHA(r) = None \/ ackedLandedSHA(r) \in OnBase
    BY <1>1, OnIs DEF ackedLandedSHA, Marks
  <1> DEFINE rep == AckedRep(r)
  <1>3. /\ rep.base = run[r].rep.base /\ rep.final = run[r].rep.final /\ rep.ok = run[r].rep.ok
        /\ rep.tips = run[r].rep.tips /\ rep.landed = run[r].rep.landed
        /\ rep.unlands = run[r].rep.unlands /\ rep.acked = ackedLandedSHA(r)
    BY <1>1 DEF AckedRep, Reps
  <1> HIDE DEF rep
  <1>4. landed(rep) <=> landed(run[r].rep)
    BY <1>3 DEF landed
  <1> DEFINE p == matchProvenance(rep, c)
  <1>5. p.landed => \/ rep.final = c /\ landed(rep)
                    \/ rep.acked = c
                    \/ \E b \in Branches : b \in rep.landed /\ rep.tips[b] = c /\ landed(rep)
    BY Provenance
  <1> HIDE DEF p
  <1>6. c # None
    BY LedgerNames
  <1>7. ASSUME p.landed, ~run[r].refused PROVE c \in OnBase
    <2>1. landed(rep) => /\ rep.final \in OnBase /\ \A b \in rep.landed : rep.tips[b] \in OnBase
      BY <1>3, <1>4, <1>7, LandedOnBase
    <2> QED
      BY <1>2, <1>3, <1>5, <1>6, <1>7, <2>1
  <1> QED
    BY <1>3, <1>4, <1>7 DEF p, rep

-----------------------------------------------------------------------------
(* The reader: its steps.                                                    *)

Stays == base' = base /\ run' = run /\ note' = note /\ mishaps' = mishaps

\* A step of the reader changes nothing but what it knows.
LEMMA ReaderMoves == ASSUME LedgerInv, Stays, Reader' PROVE LedgerInv'
  <1>1. Typed'
    BY DEF LedgerInv, Typed, Stays
  <1>2. Traces'
    BY DEF LedgerInv, Traces, NoteSays, About, landed, Stays
  <1> QED
    BY <1>1, <1>2 DEF LedgerInv

\* Then the base and the runs are what they were.
LEMMA StaysSame ==
    ASSUME Stays
    PROVE  Used' = Used /\ OnBase' = OnBase /\ \A r : Final(r)' = Final(r)
  BY DEF Stays, Used, OnBase, Reach, Final

\* The idle reader has its type.
LEMMA NoQueryTyped == NoQuery \in Queries
  <1>1. NoQuery.rows \in Seq(RowSet) /\ NoQuery.cards \in Seq(CardSet)
    BY EmptySeq DEF NoQuery
  <1>2. NoQuery.answer \in Answers /\ NoQuery.known \in Knowns
    BY DEF NoQuery, Answers, Knowns, Roles
  <1> QED
    BY <1>1, <1>2 DEF NoQuery, Queries, Statuses

\* A question remembers what held when it was asked.
LEMMA Asking ==
    ASSUME LedgerInv, NEW ask \in Queries, Ask(ask)
    PROVE  /\ query = NoQuery /\ Stays
           /\ \E K \in Knowns : /\ query' = [ask EXCEPT !.known = K] /\ K.listed = Listing
                                /\ K.filed = {r \in Listing : Readable(r)}
                                /\ K.parked = {r \in Listing : run[r].status = "awaiting-ack"}
  <1> DEFINE listed  == Listing
             filed   == {r \in Listing : Readable(r)}
             settled == {r \in Listing : Readable(r) /\ run[r].status = "done"}
             parked  == {r \in Listing : run[r].status = "awaiting-ack"}
             taken   == {run[u].rep.takes : u \in {u \in Listing :
                           \/ Readable(u) /\ Final(u) \in OnBase
                           \/ run[u].status = "done" /\ <<u, "ack">> \in OnBase}} \ {None}
             K == [listed |-> listed, filed |-> filed, settled |-> settled, parked |-> parked, taken |-> taken]
  <1>1. query' = [ask EXCEPT !.known = K] /\ query = NoQuery /\ Stays
    BY DEF Ask, Stays
  <1>2. Listing \subseteq Runs
    BY DEF Listing, Used
  <1>3. taken \subseteq Commits \union {None, Root}
    BY <1>2, EntryOf DEF Reps
  <1>4. K \in Knowns
    <2> HIDE DEF taken
    <2> QED
      BY <1>2, <1>3 DEF Knowns
  <1> QED
    BY <1>1, <1>4

\* Only runs are listed (runDirNames).
LEMMA ListingUsed == Listing \subseteq Used /\ Used \subseteq Runs
  BY DEF Listing, Used

\* The three questions.
LEMMA AskShaStep == ASSUME LedgerInv, AskSha PROVE LedgerInv'
  <1>1. PICK c \in Commits : Ask([NoQuery EXCEPT !.kind = "sha", !.at = "note", !.want = {c}])
    BY DEF AskSha
  <1> DEFINE ask == [NoQuery EXCEPT !.kind = "sha", !.at = "note", !.want = {c}]
  <1>2. /\ ask \in Queries /\ ask.kind = "sha" /\ ask.at = "note" /\ ask.want = {c} /\ ask.dirs = {}
        /\ ask.open = {} /\ ask.torn = {} /\ ask.busy = {} /\ ask.unlanded = {} /\ ask.answer = Unknown
    BY NoQueryTyped DEF Queries, NoQuery, Unknown
  <1>3. Ask(ask)
    BY <1>1
  <1> HIDE DEF ask
  <1>4. Stays
    BY <1>2, <1>3, Asking
  <1>5. PICK K \in Knowns : /\ query' = [ask EXCEPT !.known = K] /\ K.listed = Listing
                            /\ K.parked = {r \in Listing : run[r].status = "awaiting-ack"}
    BY <1>2, <1>3, Asking
  <1>6. /\ query' \in Queries /\ query'.kind = "sha" /\ query'.at = "note" /\ query'.want = {c}
        /\ query'.dirs = {} /\ query'.open = {} /\ query'.torn = {} /\ query'.busy = {}
        /\ query'.unlanded = {} /\ query'.answer = Unknown /\ query'.known = K
    BY <1>2, <1>5 DEF Queries
  <1>7. Asked'
    BY <1>4, <1>5, <1>6, StaysSame, ListingUsed DEF Asked
  <1>8. Sayings'
    BY <1>6 DEF Sayings, Unknown, NoQuery
  <1>9. Reader'
    BY <1>6, <1>7, <1>8 DEF Reader, RowsTrue, RowsOnce, OpenExplained, CardsTrue, ParksSeen
  <1> QED
    BY <1>4, <1>9, ReaderMoves

LEMMA AskReleaseStep == ASSUME LedgerInv, AskRelease PROVE LedgerInv'
  <1>1. PICK from \in 1..Len(base), to \in 1..Len(base) :
          Ask([NoQuery EXCEPT !.kind = "release", !.at = "walk", !.want = Reach(to) \ Reach(from),
                              !.open = Reach(to) \ Reach(from), !.dirs = Listing])
    BY DEF AskRelease
  <1> DEFINE range == Reach(to) \ Reach(from)
             ask == [NoQuery EXCEPT !.kind = "release", !.at = "walk", !.want = range, !.open = range,
                                  !.dirs = Listing]
  <1>2. range \subseteq OnBase /\ range \subseteq Commits
    <2>0. base \in Seq(Links) /\ Len(base) \in Nat /\ base[1].head = Root /\ Len(base) > 0
      BY LenProperties DEF LedgerInv, Typed
    <2>1. Reach(to) \subseteq OnBase
      BY <2>0 DEF OnBase, Reach
    <2>2. Root \in Reach(from)
      BY <2>0 DEF Reach
    <2>3. \A k \in 1..Len(base) : base[k] \in Links
      BY <2>0
    <2>4. OnBase \subseteq Commits \union {Root}
      BY <2>3, LedgerNames DEF OnBase, Reach, Links
    <2> QED
      BY <2>1, <2>2, <2>4
  <1>3. Listing \subseteq Used /\ Used \subseteq Runs
    BY ListingUsed
  <1>ask. Ask(ask)
    BY <1>1
  <1> HIDE DEF range
  <1>4. /\ ask \in Queries /\ ask.kind = "release" /\ ask.at = "walk" /\ ask.want = range /\ ask.dirs = Listing
        /\ ask.open = range /\ ask.torn = {} /\ ask.busy = {} /\ ask.rows = << >>
    BY <1>2, <1>3, NoQueryTyped DEF Queries, NoQuery
  <1> HIDE DEF ask
  <1>5. Stays
    BY <1>4, <1>ask, Asking
  <1>6. PICK K \in Knowns : /\ query' = [ask EXCEPT !.known = K] /\ K.listed = Listing
                            /\ K.filed = {r \in Listing : Readable(r)}
                            /\ K.parked = {r \in Listing : run[r].status = "awaiting-ack"}
    BY <1>4, <1>ask, Asking
  <1>7. /\ query' \in Queries /\ query'.kind = "release" /\ query'.at = "walk" /\ query'.want = range
        /\ query'.dirs = Listing /\ query'.open = range /\ query'.torn = {} /\ query'.busy = {}
        /\ query'.rows = << >> /\ query'.known = K
    BY <1>4, <1>6 DEF Queries
  <1>8. Asked'
    BY <1>3, <1>5, <1>6, <1>7, StaysSame DEF Asked
  <1>9. RowsTrue' /\ RowsOnce'
    BY <1>7 DEF RowsTrue, RowsOnce
  <1>10. OpenExplained'
    <2>1. \A r \in K.filed : run'[r].filed
      BY <1>5, <1>6 DEF Readable, Stays
    <2>2. \A r \in K.listed : r \in query'.dirs
      BY <1>6, <1>7
    <2> QED
      BY <1>2, <1>5, <1>7, <2>1, <2>2, StaysSame DEF OpenExplained
  <1>11. Reader'
    BY <1>7, <1>8, <1>9, <1>10 DEF Reader, Sayings, CardsTrue, ParksSeen
  <1> QED
    BY <1>5, <1>11, ReaderMoves

LEMMA AskBoardStep == ASSUME LedgerInv, AskBoard PROVE LedgerInv'
  <1> DEFINE ask == [NoQuery EXCEPT !.kind = "board", !.at = "walk", !.dirs = Listing]
  <1>1. Ask(ask)
    BY DEF AskBoard
  <1>2. Listing \subseteq Used /\ Used \subseteq Runs
    BY ListingUsed
  <1>3. /\ ask \in Queries /\ ask.kind = "board" /\ ask.at = "walk" /\ ask.want = {} /\ ask.dirs = Listing
        /\ ask.open = {} /\ ask.torn = {} /\ ask.busy = {} /\ ask.cards = << >>
    BY <1>2, NoQueryTyped DEF Queries, NoQuery
  <1> HIDE DEF ask
  <1>4. Stays
    BY <1>1, <1>3, Asking
  <1>5. PICK K \in Knowns : /\ query' = [ask EXCEPT !.known = K] /\ K.listed = Listing
                            /\ K.parked = {r \in Listing : run[r].status = "awaiting-ack"}
    BY <1>1, <1>3, Asking
  <1>6. /\ query' \in Queries /\ query'.kind = "board" /\ query'.at = "walk" /\ query'.want = {}
        /\ query'.dirs = Listing /\ query'.open = {} /\ query'.torn = {} /\ query'.busy = {}
        /\ query'.cards = << >> /\ query'.known = K
    BY <1>3, <1>5 DEF Queries
  <1>7. Asked'
    BY <1>2, <1>4, <1>5, <1>6, StaysSame DEF Asked
  <1>8. CardsTrue'
    BY <1>6 DEF CardsTrue
  <1>9. ParksSeen'
    BY <1>4, <1>5, <1>6 DEF ParksSeen, Seen, Waited, Stays
  <1>10. Reader'
    BY <1>6, <1>7, <1>8, <1>9 DEF Reader, Sayings, RowsTrue, RowsOnce, OpenExplained
  <1> QED
    BY <1>4, <1>10, ReaderMoves

\* What the invariant says of the question.
LEMMA QueryTyped ==
    ASSUME LedgerInv
    PROVE  /\ query \in Queries /\ Asked /\ query.dirs \subseteq Runs
           /\ query.dirs # {} => /\ Oldest(query.dirs) \in query.dirs
                                 /\ Newest(query.dirs) \in query.dirs
           /\ query.kind = "sha" => Sha \in query.want /\ Sha \in Commits
  <1>1. query \in Queries /\ Asked
    BY DEF LedgerInv, Reader, Asked
  <1>2. query.dirs \subseteq Runs /\ query.want \subseteq Commits
    BY <1>1 DEF Queries
  <1>3. query.kind = "sha" => query.want # {}
    BY <1>1 DEF Asked
  <1>4. query.kind = "sha" => Sha \in query.want
    BY <1>3 DEF Sha
  <1> QED
    BY <1>1, <1>2, <1>4, OldestIn, NewestIn

\* -sha reads the note of the commit (resolveProvenance).
LEMMA ShaNoteStep == ASSUME LedgerInv, ShaNote PROVE LedgerInv'
  <1>1. query \in Queries /\ Asked /\ Sayings /\ Sha \in query.want /\ Sha \in Commits
    BY QueryTyped DEF ShaNote, LedgerInv, Reader
  <1>2. query.kind = "sha" /\ query.at = "note" /\ Stays
    BY DEF ShaNote, Reading, Stays
  <1> DEFINE p == matchProvenance(note[Sha], Sha)
             a == [p EXCEPT !.source = "note"]
             f == IF note[Sha] # NoReport /\ p.role # "none"
                  THEN [query EXCEPT !.at = "end", !.answer = a]
                  ELSE [query EXCEPT !.at = "walk", !.dirs = Listing]
  <1>3. query' = f
    BY DEF ShaNote, Reading
  <1>4. p \in Answers /\ p.by = 0 /\ p.run = 0
    BY Provenance
  <1>5. note[Sha] # NoReport => (p.landed => Sha \in OnBase)
    BY <1>1, NoteTrue
  <1> HIDE DEF p
  <1>6. a \in Answers /\ a.by = 0 /\ a.landed = p.landed
    BY <1>4 DEF Answers
  <1> HIDE DEF a
  <1>7. Listing \subseteq Used /\ Used \subseteq Runs
    BY ListingUsed
  <1>8. /\ f \in Queries /\ f.kind = "sha" /\ f.want = query.want /\ f.open = query.open
        /\ f.torn = query.torn /\ f.busy = query.busy /\ f.unlanded = query.unlanded
        /\ f.known = query.known /\ f.at \in {"end", "walk"}
        /\ f.dirs \in {query.dirs, Listing}
        /\ \/ f.at = "walk" /\ f.answer = query.answer
           \/ f.at = "end" /\ f.answer = a /\ note[Sha] # NoReport
    BY <1>1, <1>2, <1>6, <1>7 DEF Queries
  <1> HIDE DEF f
  <1>9. Asked'
    BY <1>1, <1>2, <1>3, <1>7, <1>8, StaysSame DEF Asked
  <1>10. Sha' = Sha
    BY <1>3, <1>8 DEF Sha
  <1>11. query.answer = Unknown
    BY <1>1, <1>2 DEF Sayings
  <1>12. /\ query.unlanded \subseteq Runs \X Used
         /\ \A e \in query.unlanded : Final(e[2]) \in OnBase /\ run[e[2]].rep.unlands = e[1]
         /\ \A e, g \in query.unlanded : e[1] = g[1] => e = g
    BY <1>1, <1>2 DEF Sayings
  <1>13. query'.at # "end" => query'.answer = Unknown
    BY <1>3, <1>8, <1>11
  <1>14. query'.answer.landed => Sha \in OnBase
    BY <1>3, <1>5, <1>6, <1>8, <1>11 DEF Unknown, NoQuery
  <1>15. query'.answer.by = 0
    BY <1>3, <1>6, <1>8, <1>11 DEF Unknown, NoQuery
  <1>16. Sayings'
    BY <1>2, <1>3, <1>8, <1>10, <1>12, <1>13, <1>14, <1>15, StaysSame DEF Sayings, Stays
  <1>17. Reader'
    BY <1>3, <1>8, <1>9, <1>16 DEF Reader, RowsTrue, RowsOnce, OpenExplained, CardsTrue, ParksSeen
  <1> QED
    BY <1>2, <1>17, ReaderMoves

\* -sha reads a run directory: an answer, an unland, or neither (resolveProvenance).
LEMMA ShaWalkStep == ASSUME LedgerInv, ShaWalk PROVE LedgerInv'
  <1> DEFINE r == Newest(query.dirs)
             rep == AckedRep(r)
             p == matchProvenance(rep, Sha)
             took == IF landed(rep) /\ \A e \in query.unlanded : e[1] # rep.unlands
                     THEN {<<rep.unlands, r>>} \ {<<0, r>>} ELSE {}
             by == {e[2] : e \in {e \in query.unlanded : e[1] = r}}
             who == IF by = {} THEN 0 ELSE Newest(by)
             rest == [query EXCEPT !.dirs = @ \ {r}]
             a == [p EXCEPT !.source = "manifest", !.run = r, !.by = who]
  <1>1. query.kind = "sha" /\ query.at = "walk" /\ query.dirs # {} /\ Stays
    BY DEF ShaWalk, Reading, Stays
  <1>2. /\ query \in Queries /\ Asked /\ Sayings /\ Sha \in query.want /\ Sha \in Commits
        /\ r \in query.dirs /\ r \in Runs /\ r \in Used
    BY <1>1, QueryTyped DEF LedgerInv, Reader, Asked
  <1>3. \/ query' = rest
        \/ query' = [rest EXCEPT !.unlanded = @ \union took]
        \/ query' = [rest EXCEPT !.at = "end", !.dirs = {}, !.answer = a]
    BY DEF ShaWalk, Reading, AckedRep
  <1>4. /\ p \in Answers /\ (p.landed => Sha \in OnBase \/ run[r].refused)
        /\ landed(rep) <=> landed(run[r].rep)
        /\ rep.unlands = run[r].rep.unlands
    BY <1>2, RunTrue, Provenance
  <1>5. /\ query.unlanded \subseteq Runs \X Used
        /\ \A e \in query.unlanded : Final(e[2]) \in OnBase /\ run[e[2]].rep.unlands = e[1]
        /\ \A e, g \in query.unlanded : e[1] = g[1] => e = g
        /\ query.answer = Unknown
    BY <1>1, <1>2 DEF Sayings
  <1>6. run[r].rep.unlands \in Runs \union {0} /\ Used \subseteq Runs
    BY <1>2, EntryOf, ListingUsed DEF Reps
  <1>7. \A e \in took : /\ e = <<run[r].rep.unlands, r>> /\ run[r].rep.unlands \in Runs
                        /\ Final(r) \in OnBase
                        /\ \A g \in query.unlanded : g[1] # run[r].rep.unlands
    <2> SUFFICES ASSUME NEW e \in took
                 PROVE  /\ e = <<run[r].rep.unlands, r>> /\ run[r].rep.unlands \in Runs
                        /\ Final(r) \in OnBase
                        /\ \A g \in query.unlanded : g[1] # run[r].rep.unlands
      OBVIOUS
    <2>1. /\ landed(rep) /\ \A g \in query.unlanded : g[1] # rep.unlands
          /\ e = <<rep.unlands, r>> /\ e # <<0, r>>
      OBVIOUS
    <2>2. landed(run[r].rep) /\ run[r].rep.unlands # 0
      BY <1>4, <2>1
    <2>3. ~run[r].refused
      BY <1>2, <2>2, EntryOf DEF Reports
    <2> QED
      BY <1>2, <1>4, <1>6, <2>1, <2>2, <2>3, LandedOnBase
  <1> HIDE DEF p, took, rep
  <1>8. /\ took \subseteq Runs \X Used
        /\ \A e \in query.unlanded \union took : Final(e[2]) \in OnBase /\ run[e[2]].rep.unlands = e[1]
        /\ \A e, g \in query.unlanded \union took : e[1] = g[1] => e = g
    <2>1. took \subseteq Runs \X Used
      BY <1>2, <1>7
    <2>2. \A e \in took : Final(e[2]) \in OnBase /\ run[e[2]].rep.unlands = e[1]
      BY <1>7
    <2>3. \A e \in took, g \in query.unlanded : e[1] # g[1]
      BY <1>7
    <2>4. \A e, g \in took : e = g
      BY <1>7
    <2> QED
      BY <1>5, <2>1, <2>2, <2>3, <2>4
  <1>9. who # 0 => /\ who \in Used /\ Final(who) \in OnBase /\ run[who].rep.unlands = r
    <2>1. \A o \in by : o \in Used /\ o \in Runs /\ Final(o) \in OnBase /\ run[o].rep.unlands = r
      BY <1>5, <1>6
    <2> HIDE DEF by
    <2>2. by # {} => Newest(by) \in by
      BY <2>1, NewestIn
    <2> QED
      BY <2>1, <2>2
  <1>10. who \in Runs \union {0}
    BY <1>6, <1>9
  <1> HIDE DEF who
  <1>11. a \in Answers /\ a.landed = p.landed /\ a.run = r /\ a.by = who
    BY <1>2, <1>4, <1>10 DEF Answers
  <1> HIDE DEF a, r
  <1>12. /\ rest \in Queries /\ rest.dirs = query.dirs \ {r} /\ rest.kind = "sha" /\ rest.want = query.want
         /\ rest.open = query.open /\ rest.torn = query.torn /\ rest.busy = query.busy /\ rest.at = "walk"
         /\ rest.unlanded = query.unlanded /\ rest.known = query.known /\ rest.answer = query.answer
    BY <1>1, <1>2 DEF Queries
  <1> HIDE DEF rest
  <1>13. /\ query' \in Queries /\ query'.kind = "sha" /\ query'.want = query.want /\ query'.open = query.open
         /\ query'.torn = query.torn /\ query'.busy = query.busy /\ query'.known = query.known
         /\ query'.dirs \subseteq query.dirs
         /\ \/ /\ query'.at = "walk" /\ query'.answer = query.answer
               /\ query'.unlanded \in {query.unlanded, query.unlanded \union took}
            \/ query'.at = "end" /\ query'.answer = a /\ query'.unlanded = query.unlanded
    <2>1. took \subseteq Runs \X Runs
      BY <1>6, <1>8
    <2>2. CASE query' = rest
      BY <1>12, <2>2
    <2>3. CASE query' = [rest EXCEPT !.unlanded = @ \union took]
      BY <1>12, <2>1, <2>3 DEF Queries
    <2>4. CASE query' = [rest EXCEPT !.at = "end", !.dirs = {}, !.answer = a]
      BY <1>11, <1>12, <2>4 DEF Queries
    <2> QED
      BY <1>3, <2>2, <2>3, <2>4
  <1>14. Asked'
    BY <1>1, <1>2, <1>13, StaysSame DEF Asked
  <1>15. Sha' = Sha
    BY <1>13 DEF Sha
  <1>16. /\ query'.at # "end" => query'.answer = Unknown
         /\ query'.answer.landed => \/ Sha \in OnBase
                                    \/ query'.answer.run \in Runs /\ run[query'.answer.run].refused
    BY <1>2, <1>4, <1>5, <1>11, <1>13 DEF Unknown, NoQuery
  <1>17. query'.answer.by # 0 => /\ query'.answer.by \in Used
                                 /\ Final(query'.answer.by) \in OnBase
                                 /\ run[query'.answer.by].rep.unlands = query'.answer.run
    BY <1>5, <1>9, <1>11, <1>13 DEF Unknown, NoQuery
  <1>18. /\ query'.unlanded \subseteq Runs \X Used
         /\ \A e \in query'.unlanded : Final(e[2]) \in OnBase /\ run[e[2]].rep.unlands = e[1]
         /\ \A e, g \in query'.unlanded : e[1] = g[1] => e = g
    BY <1>5, <1>8, <1>13
  <1>19. Sayings'
    BY <1>1, <1>15, <1>16, <1>17, <1>18, StaysSame DEF Sayings, Stays
  <1>20. Reader'
    BY <1>13, <1>14, <1>19 DEF Reader, RowsTrue, RowsOnce, OpenExplained, CardsTrue, ParksSeen
  <1> QED
    BY <1>1, <1>20, ReaderMoves

\* What a row covers is what its landing brought.
LEMMA CoversOf ==
    ASSUME NEW rep, NEW W, NEW t
    PROVE  /\ landedCommitsIn(rep, W) # {} => landed(rep)
           /\ landedCommitsIn(rep, W) \subseteq W
           /\ landed(rep) /\ rep.final = Final(t) =>
                \A k \in 1..Len(base) :
                   base[k].head = Final(t) /\ {rep.tips[b] : b \in rep.landed} \subseteq base[k].tips =>
                     landedCommitsIn(rep, W) \subseteq {base[k].head} \union base[k].tips
           /\ landed(rep) /\ rep.final \in W => rep.final \in landedCommitsIn(rep, W)
  BY DEF landedCommitsIn

\* What rows of two landings are known by is different.
LEMMA KeysApart ==
    ASSUME NEW t \in Runs, NEW u \in Runs, t # u, NEW a, NEW b, NEW W, RowOf(t, a, W), RowOf(u, b, W)
    PROVE  a.keys \intersect b.keys = {}
  <1>1. Final(t) # Final(u)
    BY LedgerNames
  <1>2. /\ a.keys \subseteq {<<"run", t>>, <<"landed", Final(t)>>}
        /\ b.keys \subseteq {<<"run", u>>, <<"landed", Final(u)>>}
    BY DEF RowOf
  <1>3. /\ <<"run", t>> # <<"run", u>> /\ <<"landed", Final(t)>> # <<"landed", Final(u)>>
        /\ <<"run", t>> # <<"landed", Final(u)>> /\ <<"landed", Final(t)>> # <<"run", u>>
    BY <1>1
  <1> QED
    BY <1>2, <1>3

\* A row added to a document that is in order.
LEMMA RowAdded ==
    ASSUME LedgerInv, query.kind = "release", NEW row \in RowSet, Stays,
           query'.kind = "release", query'.rows = Append(query.rows, row), TrueRow(row),
           query'.dirs \subseteq query.dirs, query'.at = query.at, query'.want = query.want,
           NEW t \in Runs, RowOf(t, row, query.want), query.at # "notes" => t \notin query'.dirs,
           \A i \in 1..Len(query.rows) : query.rows[i].keys \intersect row.keys = {}
    PROVE  RowsTrue' /\ RowsOnce' /\ query'.rows \in Seq(RowSet)
  <1>1. query.rows \in Seq(RowSet) /\ RowsTrue /\ RowsOnce
    BY QueryTyped DEF LedgerInv, Reader, Queries
  <1>2. /\ query'.rows \in Seq(RowSet) /\ Len(query'.rows) = Len(query.rows) + 1 /\ Len(query.rows) \in Nat
        /\ \A i \in 1..Len(query.rows) : query'.rows[i] = query.rows[i]
        /\ query'.rows[Len(query.rows) + 1] = row
    BY <1>1, AppendProperties, LenProperties
  <1>3. \A i \in 1..Len(query'.rows) : i \in 1..Len(query.rows) \/ i = Len(query.rows) + 1
    BY <1>2
  <1>4. \A i \in 1..Len(query'.rows) : TrueRow(query'.rows[i])
    BY <1>1, <1>2, <1>3 DEF RowsTrue
  <1>5. RowsTrue'
    <2> SUFFICES ASSUME NEW i \in 1..Len(query'.rows) PROVE TrueRow(query.rows[i])'
      BY DEF RowsTrue
    <2>1. TrueRow(query'.rows[i])
      BY <1>4
    <2> QED
      BY <2>1 DEF TrueRow, Stays, Final
  <1>6. RowsOnce'
    <2>1. /\ \A i \in 1..Len(query.rows) : \E u \in Runs :
               RowOf(u, query.rows[i], query.want) /\ (query.at # "notes" => u \notin query.dirs)
          /\ \A i, k \in 1..Len(query.rows) :
               i # k => query.rows[i].keys \intersect query.rows[k].keys = {}
      BY <1>1 DEF RowsOnce
    <2>2. \A i \in 1..Len(query'.rows) : \E u \in Runs :
             RowOf(u, query'.rows[i], query'.want) /\ (query'.at # "notes" => u \notin query'.dirs)
      <3> SUFFICES ASSUME NEW i \in 1..Len(query'.rows)
                   PROVE  \E u \in Runs : RowOf(u, query'.rows[i], query'.want)
                                          /\ (query'.at # "notes" => u \notin query'.dirs)
        OBVIOUS
      <3>1. CASE i \in 1..Len(query.rows)
        <4>1. PICK u \in Runs :
                RowOf(u, query.rows[i], query.want) /\ (query.at # "notes" => u \notin query.dirs)
          BY <2>1, <3>1
        <4>2. query'.rows[i] = query.rows[i]
          BY <1>2, <3>1
        <4> QED
          BY <4>1, <4>2
      <3>2. CASE i = Len(query.rows) + 1
        BY <1>2, <3>2
      <3> QED
        BY <1>3, <3>1, <3>2
    <2>3. \A i, k \in 1..Len(query'.rows) :
             i # k => query'.rows[i].keys \intersect query'.rows[k].keys = {}
      BY <1>2, <1>3, <2>1
    <2> QED
      BY <2>2, <2>3 DEF RowsOnce, RowOf, Final
  <1> QED
    BY <1>2, <1>5, <1>6

\* A step that adds no row.
LEMMA RowsKept ==
    ASSUME LedgerInv, query.kind = "release", Stays, query'.kind = "release", query'.rows = query.rows,
           query'.dirs \subseteq query.dirs, query'.at # "notes" => query.at # "notes",
           query'.want = query.want
    PROVE  RowsTrue' /\ RowsOnce'
  <1>1. RowsTrue /\ RowsOnce
    BY DEF LedgerInv, Reader
  <1>2. RowsTrue'
    BY <1>1 DEF RowsTrue, TrueRow, Stays, Final
  <1>3. \A i \in 1..Len(query'.rows) : \E t \in Runs :
           RowOf(t, query'.rows[i], query'.want) /\ (query'.at # "notes" => t \notin query'.dirs)
    BY <1>1 DEF RowsOnce
  <1>4. \A i, j \in 1..Len(query'.rows) :
           i # j => query'.rows[i].keys \intersect query'.rows[j].keys = {}
    BY <1>1 DEF RowsOnce
  <1>5. RowsOnce'
    BY <1>3, <1>4 DEF RowsOnce, RowOf, Final
  <1> QED
    BY <1>2, <1>5

\* -release reads a run directory, oldest first (buildRelease).
LEMMA ReleaseWalkStep == ASSUME LedgerInv, ReleaseWalk PROVE LedgerInv'
  <1> DEFINE r == Oldest(query.dirs)
             rep == run[r].rep
             row == Row(rep, r, {<<"run", r>>, <<"landed", rep.final>>})
             rest == [query EXCEPT !.dirs = @ \ {r}]
             out  == [query EXCEPT !.at = "row"]
             in   == [rest EXCEPT !.rows = Append(@, row), !.open = @ \ row.covers]
  <1>1. query.kind = "release" /\ query.at = "walk" /\ query.dirs # {} /\ Stays
    BY DEF ReleaseWalk, Reading, Stays
  <1>2. /\ query \in Queries /\ Asked /\ r \in query.dirs /\ r \in Runs /\ r \in Used
        /\ query.rows \in Seq(RowSet) /\ query.want \subseteq Commits /\ OpenExplained
        /\ query.dirs \subseteq Runs
    BY <1>1, QueryTyped DEF LedgerInv, Reader, Asked, Queries
  <1>3. /\ run[r] \in Entries /\ rep \in Reps /\ Reports(r, run[r], base) /\ Marks(r, run[r], base)
        /\ run[r].at # "none"
    BY <1>2, EntryOf DEF Used
  <1>4. query' = IF ~Readable(r) THEN out ELSE IF row.covers = {} THEN rest ELSE in
    BY DEF ReleaseWalk, Reading
  <1>5. /\ row.run = r /\ row.final = rep.final /\ row.keys = {<<"run", r>>, <<"landed", rep.final>>}
        /\ row.covers = landedCommitsIn(rep, query.want) /\ row.covers \subseteq query.want
    BY CoversOf DEF Row
  <1>6. row \in RowSet
    <2>1. landedCommitsIn(rep, query.want) \subseteq Commits
      BY <1>2, CoversOf
    <2> QED
      BY <1>2, <1>3, <2>1 DEF Row, RowSet, Reps
  <1>7. Final(r) \in query.want => Final(r) \in row.covers
    <2> SUFFICES ASSUME Final(r) \in query.want PROVE Final(r) \in row.covers
      OBVIOUS
    <2>1. Final(r) \in On(base)
      BY <1>1, <1>2, OnIs DEF OpenExplained
    <2>2. rep.final = Final(r) /\ landed(rep)
      BY <1>3, <2>1 DEF Reports
    <2> QED
      BY <1>5, <2>2, CoversOf
  <1>8. row.covers # {} => TrueRow(row)
    <2> SUFFICES ASSUME row.covers # {} PROVE TrueRow(row)
      OBVIOUS
    <2>1. landed(rep)
      BY <1>5, CoversOf
    <2>2. rep.final = Final(r) /\ (run[r].refused \/ Brought(base, r, rep))
      BY <1>3, <2>1 DEF Reports
    <2>3. Brought(base, r, rep) =>
             \E k \in 1..Len(base) : base[k].head = Final(r)
                /\ landedCommitsIn(rep, query.want) \subseteq {base[k].head} \union base[k].tips
      BY <2>1, <2>2, CoversOf DEF Brought
    <2> QED
      BY <1>2, <1>5, <2>2, <2>3 DEF TrueRow
  <1>9. row.covers # {} => RowOf(r, row, query.want)
    <2>1. row.covers # {} => row.final = Final(r)
      BY <1>3, <1>5, CoversOf DEF Reports
    <2> QED
      BY <1>5, <1>7, <2>1 DEF RowOf
  <1> HIDE DEF row, rep
  <1>10. /\ rest \in Queries /\ rest.dirs = query.dirs \ {r} /\ rest.kind = "release" /\ rest.at = "walk"
         /\ rest.want = query.want /\ rest.open = query.open /\ rest.torn = query.torn
         /\ rest.busy = query.busy /\ rest.rows = query.rows /\ rest.known = query.known
    BY <1>1, <1>2 DEF Queries
  <1>11. /\ out \in Queries /\ out.dirs = query.dirs /\ out.kind = "release" /\ out.at = "row"
         /\ out.want = query.want /\ out.open = query.open /\ out.torn = query.torn
         /\ out.busy = query.busy /\ out.rows = query.rows /\ out.known = query.known
    BY <1>1, <1>2 DEF Queries
  <1> HIDE DEF rest, out
  <1>12. Append(query.rows, row) \in Seq(RowSet)
    BY <1>2, <1>6, AppendProperties
  <1>13. /\ in \in Queries /\ in.dirs = query.dirs \ {r} /\ in.kind = "release" /\ in.at = "walk"
         /\ in.want = query.want /\ in.open = query.open \ row.covers /\ in.torn = query.torn
         /\ in.busy = query.busy /\ in.rows = Append(query.rows, row) /\ in.known = query.known
    BY <1>10, <1>12 DEF Queries
  <1> HIDE DEF in
  <1>14. \/ query' = out /\ ~Readable(r)
         \/ query' = rest /\ row.covers = {} /\ Readable(r)
         \/ query' = in /\ row.covers # {}
    BY <1>4
  <1>15. /\ query' \in Queries /\ query'.kind = "release" /\ query'.at \in {"walk", "row"}
         /\ query'.dirs \subseteq query.dirs /\ query'.torn = query.torn /\ query'.busy = query.busy
         /\ query'.known = query.known /\ query'.want = query.want /\ query'.open \subseteq query.open
    BY <1>10, <1>11, <1>13, <1>14
  <1>16. Asked'
    BY <1>1, <1>2, <1>15, StaysSame DEF Asked
  <1>17. RowsTrue' /\ RowsOnce'
    <2>1. CASE query'.rows = query.rows
      BY <1>1, <1>15, <2>1, RowsKept
    <2>2. CASE query' = in /\ row.covers # {}
      <3>1. ASSUME NEW i \in 1..Len(query.rows) PROVE query.rows[i].keys \intersect row.keys = {}
        <4>1. PICK u \in Runs : RowOf(u, query.rows[i], query.want) /\ u \notin query.dirs
          BY <1>1 DEF LedgerInv, Reader, RowsOnce
        <4>2. u # r
          BY <1>2, <4>1
        <4> HIDE DEF r
        <4> QED
          BY <1>2, <1>9, <2>2, <4>1, <4>2, KeysApart
      <3>2. query'.rows = Append(query.rows, row) /\ query'.at = query.at /\ r \notin query'.dirs
        BY <1>1, <1>13, <2>2
      <3> HIDE DEF r
      <3> QED
        BY <1>1, <1>2, <1>6, <1>8, <1>9, <1>15, <2>2, <3>1, <3>2, RowAdded
    <2> QED
      BY <1>10, <1>11, <1>14, <2>1, <2>2
  <1>18. OpenExplained'
    <2>1. /\ query.want \subseteq OnBase /\ \A o \in query.known.filed : run[o].filed
          /\ \A o \in query.known.listed :
               Final(o) \in query.open => o \in query.dirs \union query.torn \union query.busy \/ Escaped(o)
      BY <1>1, <1>2 DEF OpenExplained
    <2>2. \A o : Escaped(o) => Escaped(o)'
      BY <1>1, <1>15 DEF Escaped, Stays
    <2>3. \A o \in query'.known.listed :
             Final(o) \in query'.open => o \in query'.dirs \union query'.torn \union query'.busy \/ Escaped(o)'
      <3>1. CASE query' = out
        BY <1>11, <2>1, <2>2, <3>1
      <3>2. CASE query' = rest /\ row.covers = {}
        <4>1. Final(r) \notin query.open
          BY <1>2, <1>7, <3>2 DEF Asked
        <4> QED
          BY <1>10, <2>1, <2>2, <3>2, <4>1
      <3>3. CASE query' = in
        <4>1. Final(r) \notin query'.open
          BY <1>2, <1>7, <1>13, <3>3 DEF Asked
        <4> QED
          BY <1>13, <2>1, <2>2, <3>3, <4>1
      <3> QED
        BY <1>14, <3>1, <3>2, <3>3
    <2>4. query'.at = "row" => /\ query'.dirs # {}
                               /\ Oldest(query'.dirs) \in query'.known.filed => ~run'[Oldest(query'.dirs)].dir
      <3> SUFFICES ASSUME query'.at = "row"
                   PROVE  /\ query'.dirs # {}
                          /\ Oldest(query'.dirs) \in query'.known.filed => ~run'[Oldest(query'.dirs)].dir
        OBVIOUS
      <3>1. query' = out /\ ~Readable(r)
        BY <1>10, <1>13, <1>14
      <3>2. query'.dirs = query.dirs /\ Oldest(query'.dirs) = r /\ query'.known = query.known
        BY <1>11, <3>1
      <3> QED
        BY <1>1, <2>1, <3>1, <3>2 DEF Readable, Stays
    <2> QED
      BY <1>1, <1>15, <2>1, <2>3, <2>4, StaysSame DEF OpenExplained, Oldest, Stays
  <1> QED
    BY <1>1, <1>15, <1>16, <1>17, <1>18, ReaderMoves DEF Reader, Sayings, CardsTrue, ParksSeen

\* -release looks again at a run whose report was not there (readLogRow).
LEMMA ReleaseRowStep == ASSUME LedgerInv, ReleaseRow PROVE LedgerInv'
  <1> DEFINE r == Oldest(query.dirs)
             torn == {x \in {r} : incomplete(x)}
             busy == {x \in {r} : run[x].dir /\ ~run[x].filed /\ run[x].status = "running"}
             f == [query EXCEPT !.at = "walk", !.dirs = @ \ {r}, !.torn = @ \union torn,
                                !.busy = @ \union busy]
  <1>1. query.kind = "release" /\ query.at = "row" /\ Stays /\ query' = f
    BY DEF ReleaseRow, Reading, Stays
  <1>2. /\ query \in Queries /\ Asked /\ query.dirs # {} /\ r \in query.dirs /\ r \in Runs /\ r \in Used
        /\ OpenExplained /\ (r \in query.known.filed => ~run[r].dir)
    BY <1>1, QueryTyped DEF LedgerInv, Reader, Asked, Queries, OpenExplained
  <1>3. Marks(r, run[r], base) /\ run[r].at # "none"
    BY <1>2, EntryOf DEF Used
  <1>4. torn \subseteq {r} /\ busy \subseteq {r}
    OBVIOUS
  <1>5. r \in torn \union busy \/ (r \notin query.known.filed /\ run[r].filed)
    <2>1. ~run[r].dir => r \in torn
      BY DEF incomplete
    <2>2. run[r].dir /\ ~run[r].filed => run[r].status \in {"running", "interrupted"}
      BY <1>3 DEF Marks
    <2>3. run[r].dir /\ ~run[r].filed => r \in torn \union busy
      BY <2>2 DEF incomplete
    <2> QED
      BY <1>2, <2>1, <2>3
  <1> HIDE DEF torn, busy
  <1>6. /\ f \in Queries /\ f.dirs = query.dirs \ {r} /\ f.kind = "release" /\ f.at = "walk"
        /\ f.want = query.want /\ f.open = query.open /\ f.torn = query.torn \union torn
        /\ f.busy = query.busy \union busy /\ f.rows = query.rows /\ f.known = query.known
    BY <1>1, <1>2, <1>4 DEF Queries
  <1>s. PICK s \in Runs : s = r
    BY <1>2
  <1> HIDE DEF f, r
  <1>f. query'.at = "walk" /\ query'.known = query.known
    BY <1>1, <1>6
  <1>7. Asked'
    BY <1>1, <1>2, <1>4, <1>6, StaysSame DEF Asked
  <1>8. RowsTrue' /\ RowsOnce'
    BY <1>1, <1>6, RowsKept
  <1>9. OpenExplained'
    <2>1. /\ query.want \subseteq OnBase /\ \A o \in query.known.filed : run[o].filed
          /\ \A o \in query.known.listed :
               Final(o) \in query.open => o \in query.dirs \union query.torn \union query.busy \/ Escaped(o)
      BY <1>1, <1>2 DEF OpenExplained
    <2>2. \A o : Escaped(o) => Escaped(o)'
      BY <1>1, <1>f DEF Escaped, Stays
    <2>3. s \in query'.torn \union query'.busy \/ Escaped(s)'
      <3>1. s \in torn \union busy => s \in query'.torn \union query'.busy
        BY <1>1, <1>6
      <3>2. s \notin query.known.filed /\ run[s].filed => Escaped(s)'
        BY <1>1, <1>f DEF Escaped, Stays
      <3> QED
        BY <1>5, <1>s, <3>1, <3>2
    <2>4. \A o \in query'.known.listed :
             Final(o) \in query'.open => o \in query'.dirs \union query'.torn \union query'.busy \/ Escaped(o)'
      BY <1>1, <1>6, <1>s, <2>1, <2>2, <2>3
    <2> QED
      BY <1>1, <1>6, <2>1, <2>4, StaysSame DEF OpenExplained, Stays
  <1> QED
    BY <1>1, <1>6, <1>7, <1>8, <1>9, ReaderMoves DEF Reader, Sayings, CardsTrue, ParksSeen

\* -release lists the notes.
LEMMA ReleaseListStep == ASSUME LedgerInv, ReleaseList PROVE LedgerInv'
  <1> DEFINE list == {c \in Commits : note[c] # NoReport}
             f == [query EXCEPT !.at = "notes", !.list = list]
  <1>1. query.kind = "release" /\ query.at = "walk" /\ Stays /\ query' = f
    BY DEF ReleaseList, Reading, Stays
  <1>2. query \in Queries /\ Asked /\ OpenExplained
    BY QueryTyped DEF LedgerInv, Reader
  <1>3. list \subseteq Commits
    OBVIOUS
  <1>4. \A r \in Runs : Tells(note[Final(r)], r) => Final(r) \in list
    BY LedgerNames, NoneTyped DEF Tells
  <1> HIDE DEF list
  <1>5. /\ f \in Queries /\ f.kind = "release" /\ f.at = "notes" /\ f.want = query.want /\ f.dirs = query.dirs
        /\ f.open = query.open /\ f.torn = query.torn /\ f.busy = query.busy /\ f.rows = query.rows
        /\ f.known = query.known /\ f.list = list
    BY <1>1, <1>2, <1>3 DEF Queries
  <1> HIDE DEF f
  <1>6. Asked'
    BY <1>1, <1>2, <1>5, StaysSame DEF Asked
  <1>7. RowsTrue' /\ RowsOnce'
    BY <1>1, <1>5, RowsKept
  <1>8. OpenExplained'
    <2>1. /\ query.want \subseteq OnBase /\ \A o \in query.known.filed : run[o].filed
          /\ \A o \in query.known.listed :
               Final(o) \in query.open => o \in query.dirs \union query.torn \union query.busy \/ Escaped(o)
      BY <1>1, <1>2 DEF OpenExplained
    <2>2. query.known.listed \subseteq Runs
      BY <1>2 DEF Queries, Knowns
    <2>3. \A o \in query.known.listed : Escaped(o) => Escaped(o)'
      BY <1>1, <1>4, <1>5, <2>2, StaysSame DEF Escaped, Stays
    <2>4. \A o \in query'.known.listed :
             Final(o) \in query'.open => o \in query'.dirs \union query'.torn \union query'.busy \/ Escaped(o)'
      BY <1>1, <1>5, <2>1, <2>3
    <2> QED
      BY <1>1, <1>5, <2>1, <2>4, StaysSame DEF OpenExplained, Stays
  <1> QED
    BY <1>1, <1>5, <1>6, <1>7, <1>8, ReaderMoves DEF Reader, Sayings, CardsTrue, ParksSeen

\* The row that a note of a commit nobody claimed adds, and what a note and a row it
\* shares its identity with have in common.
LEMMA NoteRow ==
    ASSUME LedgerInv, query.kind = "release", query.at = "notes", NEW c \in Commits, landed(note[c])
    PROVE  LET row == Row(note[c], note[c].by, Identity(note[c]))
               same == {r \in Rows : Key(note[c]) \in r.keys}
           IN  /\ row \in RowSet /\ TrueRow(row) /\ row.keys = {Key(note[c])}
               /\ \E t \in Runs : RowOf(t, row, query.want)
               /\ \A r \in same : r.final = note[c].final
                                  /\ (r.final \in query.want => r.final \in r.covers)
  <1> DEFINE rep == note[c]
             row == Row(rep, rep.by, Identity(rep))
  <1>1. rep \in Reps /\ query.want \subseteq Commits /\ RowsOnce
    BY QueryTyped DEF LedgerInv, Typed, Reader, Queries
  <1>2. landed(rep) /\ rep # NoReport
    BY NoneTyped
  <1>3. PICK t \in Runs :
          /\ rep.final = Final(t) /\ rep.by \in {t, 0}
          /\ \E k \in 1..Len(base) :
                base[k].head = Final(t) /\ {rep.tips[b] : b \in rep.landed} \subseteq base[k].tips
    BY <1>2, NoteTrue
  <1> HIDE DEF rep
  <1>4. /\ row.run = rep.by /\ row.final = rep.final /\ row.keys = {Key(rep)} /\ row.unlands = rep.unlands
        /\ row.covers = landedCommitsIn(rep, query.want)
    BY DEF Row, Identity
  <1>5. row \in RowSet
    <2>1. landedCommitsIn(rep, query.want) \subseteq Commits
      BY <1>1, CoversOf
    <2>2. Key(rep) \in ({"run"} \X (Runs \union {0})) \union ({"landed"} \X (Commits \union {None, Root}))
      BY <1>1 DEF Key, Reps
    <2> QED
      BY <1>1, <2>1, <2>2 DEF Row, RowSet, Reps, Identity
  <1> HIDE DEF row
  <1>6. TrueRow(row)
    <2>1. \E k \in 1..Len(base) : base[k].head = Final(t)
              /\ landedCommitsIn(rep, query.want) \subseteq {base[k].head} \union base[k].tips
      BY <1>2, <1>3, CoversOf
    <2> QED
      BY <1>3, <1>4, <2>1 DEF TrueRow
  <1>7. Key(rep) = IF rep.by = t THEN <<"run", t>> ELSE <<"landed", Final(t)>>
    BY <1>3, LedgerNames DEF Key
  <1>8. RowOf(t, row, query.want)
    <2>1. Final(t) \in query.want => Final(t) \in row.covers
      BY <1>2, <1>3, <1>4, CoversOf
    <2>2. <<"run", t>> # <<"landed", Final(t)>>
      OBVIOUS
    <2>3. row.run = IF <<"run", t>> \in row.keys THEN t ELSE 0
      BY <1>3, <1>4, <1>7, <2>2
    <2> QED
      BY <1>3, <1>4, <1>7, <2>1, <2>3 DEF RowOf
  <1>9. ASSUME NEW r \in Rows, Key(rep) \in r.keys
        PROVE  r.final = rep.final /\ (r.final \in query.want => r.final \in r.covers)
    <2>1. PICK u \in Runs : RowOf(u, r, query.want)
      BY <1>1 DEF Rows, RowsOnce
    <2>2. u = t
      BY <1>4, <1>8, <1>9, <2>1, KeysApart
    <2> QED
      BY <1>3, <2>1, <2>2 DEF RowOf
  <1> QED
    BY <1>4, <1>5, <1>6, <1>8, <1>9 DEF row, rep

\* -release reads the note of a commit nobody claimed (buildRelease).
LEMMA ReleaseNoteStep == ASSUME LedgerInv, ReleaseNote PROVE LedgerInv'
  <1>0. query.kind = "release" /\ query.at = "notes" /\ Stays
    BY DEF ReleaseNote, Reading, Stays
  <1>1. /\ query \in Queries /\ Asked /\ OpenExplained /\ query.list \subseteq Commits
        /\ query.rows \in Seq(RowSet) /\ query.open \subseteq query.want
        /\ query.known.listed \subseteq Runs
    BY <1>0, QueryTyped DEF LedgerInv, Reader, Queries, Knowns, Asked
  <1>2. PICK c \in query.list :
          LET rep == note[c]
              p == matchProvenance(rep, c)
              same == {row \in Rows : Key(rep) \in row.keys}
              rest == [query EXCEPT !.list = @ \ {c}]
          IN  query' = IF c \notin query.open \/ ~p.landed \/ p.role = "ack-landed-commit" THEN rest
                       ELSE IF same = {}
                       THEN [rest EXCEPT !.open = @ \ {c},
                                         !.rows = Append(@, Row(rep, rep.by, Identity(rep)))]
                       ELSE IF \E row \in same : c \in row.covers THEN [rest EXCEPT !.open = @ \ {c}]
                       ELSE rest
    BY DEF ReleaseNote, Reading
  <1> DEFINE rep == note[c]
             p == matchProvenance(rep, c)
             same == {row \in Rows : Key(rep) \in row.keys}
             rest == [query EXCEPT !.list = @ \ {c}]
             less == [rest EXCEPT !.open = @ \ {c}]
             row == Row(rep, rep.by, Identity(rep))
             more == [rest EXCEPT !.open = @ \ {c}, !.rows = Append(@, row)]
             kept == \/ c \notin query.open \/ ~p.landed \/ p.role = "ack-landed-commit"
                     \/ same # {} /\ \A x \in same : c \notin x.covers
  <1>3. \/ query' = rest /\ kept
        \/ query' = less
        \/ query' = more /\ p.landed /\ p.role # "ack-landed-commit" /\ same = {}
    BY <1>2
  <1>4. /\ p.landed /\ p.role # "ack-landed-commit" => landed(rep)
        /\ rep.final = c /\ landed(rep) => p.landed /\ p.role # "ack-landed-commit"
    BY Provenance
  <1>5. landed(rep) =>
          /\ row \in RowSet /\ TrueRow(row) /\ row.keys = {Key(rep)}
          /\ \E t \in Runs : RowOf(t, row, query.want)
          /\ \A x \in same : x.final = rep.final /\ (x.final \in query.want => x.final \in x.covers)
    BY <1>0, <1>1, NoteRow
  <1>6. same = {} => \A i \in 1..Len(query.rows) : Key(rep) \notin query.rows[i].keys
    BY DEF Rows
  <1>7. rep.final = c /\ landed(rep) => c \notin query'.open
    <2> SUFFICES ASSUME rep.final = c, landed(rep) PROVE c \notin query'.open
      OBVIOUS
    <2>1. CASE query' = rest /\ kept
      <3>1. c \notin query.open \/ (same # {} /\ \A x \in same : c \notin x.covers)
        BY <1>4, <2>1
      <3>2. \A x \in same : c \in query.want => c \in x.covers
        BY <1>5
      <3>3. c \notin query.open
        BY <1>1, <3>1, <3>2
      <3> QED
        BY <1>1, <2>1, <3>3 DEF Queries
    <2>2. CASE query' = less
      BY <1>1, <2>2 DEF Queries
    <2>3. CASE query' = more
      BY <1>1, <2>3 DEF Queries
    <2> HIDE DEF rest, less, more, kept
    <2> QED
      BY <1>3, <2>1, <2>2, <2>3, Zenon
  <1> HIDE DEF p, same, row
  <1>8. /\ rest \in Queries /\ rest.kind = "release" /\ rest.at = "notes" /\ rest.want = query.want
        /\ rest.dirs = query.dirs /\ rest.open = query.open /\ rest.torn = query.torn
        /\ rest.busy = query.busy /\ rest.rows = query.rows /\ rest.known = query.known
        /\ rest.list = query.list \ {c}
    BY <1>0, <1>1 DEF Queries
  <1> HIDE DEF rest
  <1>9. /\ less \in Queries /\ less.kind = "release" /\ less.at = "notes" /\ less.want = query.want
        /\ less.dirs = query.dirs /\ less.open \subseteq query.open /\ less.torn = query.torn
        /\ less.busy = query.busy /\ less.rows = query.rows /\ less.known = query.known
        /\ less.list = query.list \ {c}
    BY <1>8 DEF Queries
  <1>10. row \in RowSet =>
          /\ more \in Queries /\ more.kind = "release" /\ more.at = "notes" /\ more.want = query.want
          /\ more.dirs = query.dirs /\ more.open \subseteq query.open /\ more.torn = query.torn
          /\ more.busy = query.busy /\ more.rows = Append(query.rows, row) /\ more.known = query.known
          /\ more.list = query.list \ {c}
    <2> SUFFICES ASSUME row \in RowSet
                 PROVE  /\ more \in Queries /\ more.kind = "release" /\ more.at = "notes"
                        /\ more.want = query.want /\ more.dirs = query.dirs /\ more.open \subseteq query.open
                        /\ more.torn = query.torn /\ more.busy = query.busy
                        /\ more.rows = Append(query.rows, row) /\ more.known = query.known
                        /\ more.list = query.list \ {c}
      OBVIOUS
    <2>1. Append(query.rows, row) \in Seq(RowSet)
      BY <1>1, AppendProperties
    <2> QED
      BY <1>8, <2>1 DEF Queries
  <1> HIDE DEF less, more
  <1>11. /\ query' \in Queries /\ query'.kind = "release" /\ query'.at = "notes" /\ query'.want = query.want
        /\ query'.dirs = query.dirs /\ query'.open \subseteq query.open /\ query'.torn = query.torn
        /\ query'.busy = query.busy /\ query'.known = query.known /\ query'.list = query.list \ {c}
    BY <1>3, <1>4, <1>5, <1>8, <1>9, <1>10
  <1>12. Asked'
    BY <1>0, <1>1, <1>11, StaysSame DEF Asked
  <1>13. RowsTrue' /\ RowsOnce'
    <2>1. CASE query'.rows = query.rows
      BY <1>0, <1>11, <2>1, RowsKept
    <2>2. CASE query' = more /\ p.landed /\ p.role # "ack-landed-commit" /\ same = {}
      <3>1. row \in RowSet /\ TrueRow(row) /\ row.keys = {Key(rep)} /\ \E t \in Runs : RowOf(t, row, query.want)
        BY <1>4, <1>5, <2>2
      <3>2. PICK t \in Runs : RowOf(t, row, query.want)
        BY <3>1
      <3>3. \A i \in 1..Len(query.rows) : query.rows[i].keys \intersect row.keys = {}
        BY <1>6, <2>2, <3>1
      <3>4. query'.rows = Append(query.rows, row)
        BY <1>10, <2>2, <3>1
      <3> HIDE DEF rep
      <3> QED
        BY <1>0, <1>11, <3>1, <3>2, <3>3, <3>4, RowAdded
    <2> QED
      BY <1>3, <1>8, <1>9, <2>1, <2>2
  <1>14. OpenExplained'
    <2>1. /\ query.want \subseteq OnBase /\ \A o \in query.known.filed : run[o].filed
          /\ \A o \in query.known.listed :
               Final(o) \in query.open => o \in query.dirs \union query.torn \union query.busy \/ Escaped(o)
      BY <1>0, <1>1 DEF OpenExplained
    <2>2. \A o \in query.known.listed : Final(o) \in query'.open /\ Escaped(o) => Escaped(o)'
      <3> SUFFICES ASSUME NEW o \in query.known.listed, Final(o) \in query'.open, Escaped(o)
                   PROVE  Escaped(o)'
        OBVIOUS
      <3>1. Tells(note[Final(o)], o) => Final(o) \in query.list
        BY <1>0 DEF Escaped
      <3>2. Tells(note[Final(o)], o) => Final(o) # c
        BY <1>7 DEF Tells
      <3>3. Tells(note[Final(o)], o)' = Tells(note[Final(o)], o)
        BY <1>0 DEF Tells, landed, Final, Stays
      <3> QED
        BY <1>0, <1>11, <3>1, <3>2, <3>3 DEF Escaped, Stays, Final
    <2>3. \A o \in query'.known.listed :
             Final(o) \in query'.open => o \in query'.dirs \union query'.torn \union query'.busy \/ Escaped(o)'
      BY <1>11, <2>1, <2>2
    <2> QED
      BY <1>0, <1>11, <2>1, <2>3, StaysSame DEF OpenExplained, Stays
  <1> QED
    BY <1>0, <1>11, <1>12, <1>13, <1>14, ReaderMoves DEF Reader, Sayings, CardsTrue, ParksSeen

\* The board reads the status of a run (scanRuns).
LEMMA ReadStatusStep == ASSUME LedgerInv, ReadStatus PROVE LedgerInv'
  <1> DEFINE r == Newest(query.dirs)
             status == IF run[r].dir THEN run[r].status ELSE "interrupted"
             f == [query EXCEPT !.at = "row", !.status = status]
  <1>1. /\ query.kind = "board" /\ query.at = "walk" /\ query.dirs # {} /\ Stays /\ query' = f
    BY DEF ReadStatus, Reading, Stays
  <1>2. query \in Queries /\ Asked /\ CardsTrue /\ ParksSeen /\ r \in Runs
    BY <1>1, QueryTyped DEF LedgerInv, Reader
  <1>3. status \in Statuses /\ (status = "done" => run[r].status = "done")
        /\ (run[r].dir => status = run[r].status)
    BY <1>2, EntryOf DEF Entries, Statuses
  <1> HIDE DEF status
  <1>4. /\ f \in Queries /\ f.kind = "board" /\ f.at = "row" /\ f.want = query.want /\ f.dirs = query.dirs
        /\ f.open = query.open /\ f.torn = query.torn /\ f.busy = query.busy /\ f.status = status
        /\ f.cards = query.cards /\ f.known = query.known
    BY <1>1, <1>2, <1>3 DEF Queries
  <1> HIDE DEF f
  <1>5. Asked'
    BY <1>1, <1>2, <1>4, StaysSame DEF Asked
  <1>6. Newest(query'.dirs) = r
    BY <1>1, <1>4
  <1>7. \A i \in 1..Len(query.cards) :
           query.cards[i].status = "done" => query.cards[i].sha \in OnBase \union {None}
    BY <1>1, <1>2 DEF CardsTrue
  <1>8. run'[r].status = run[r].status
    BY <1>1 DEF Stays
  <1> HIDE DEF r
  <1>9. CardsTrue'
    <2>1. query'.dirs # {} /\ query'.status \in Statuses
          /\ (query'.status = "done" => run'[Newest(query'.dirs)].status = "done")
      BY <1>1, <1>3, <1>4, <1>6, <1>8
    <2>2. OnBase' = OnBase
      BY <1>1, StaysSame
    <2> QED
      BY <1>1, <1>4, <1>7, <2>1, <2>2 DEF CardsTrue, Newest
  <1>10. ParksSeen'
    <2> SUFFICES ASSUME NEW o \in query.known.parked
                 PROVE  /\ run[o].status \in Waited
                        /\ run[o].dir /\ run[o].status = "awaiting-ack" =>
                             \/ o \in query'.dirs /\ (o = r => query'.status = "awaiting-ack")
                             \/ \E i \in 1..Len(query'.cards) : query'.cards[i].status = "awaiting-ack"
      BY <1>1, <1>4, <1>6 DEF ParksSeen, Seen, Stays, Newest
    <2>1. /\ run[o].status \in Waited
          /\ run[o].dir /\ run[o].status = "awaiting-ack" => Seen(o)
      BY <1>1, <1>2 DEF ParksSeen
    <2> QED
      BY <1>1, <1>3, <1>4, <2>1 DEF Seen
  <1>11. Reader'
    BY <1>1, <1>4, <1>5, <1>9, <1>10 DEF Reader, Sayings, RowsTrue, RowsOnce, OpenExplained
  <1> QED
    BY <1>1, <1>11, ReaderMoves

\* The board reads the report, after the status (readLogRow).
LEMMA ReadRowStep == ASSUME LedgerInv, ReadRow PROVE LedgerInv'
  <1> DEFINE r == Newest(query.dirs)
             sha == IF ~Readable(r) THEN None
                    ELSE IF landed(run[r].rep) THEN run[r].rep.final ELSE ackedLandedSHA(r)
             card == [run |-> r, status |-> query.status, sha |-> sha]
             f == [query EXCEPT !.at = "walk", !.dirs = @ \ {r}, !.cards = Append(@, card)]
  <1>1. query.kind = "board" /\ query.at = "row" /\ Stays /\ query' = f
    BY DEF ReadRow, Reading, Stays
  <1>2. /\ query \in Queries /\ Asked /\ CardsTrue /\ ParksSeen /\ query.cards \in Seq(CardSet)
        /\ query.dirs # {} /\ query.status \in Statuses
        /\ query.status = "done" => run[r].status = "done"
    BY <1>1, QueryTyped DEF LedgerInv, Reader, CardsTrue, Queries
  <1>3. r \in query.dirs /\ r \in Runs
    BY <1>2, QueryTyped
  <1>4. /\ run[r] \in Entries /\ Marks(r, run[r], base) /\ run[r].rep \in Reps
    BY <1>3, EntryOf
  <1>5. sha \in Commits \union {None, Root}
    BY <1>4 DEF ackedLandedSHA, Entries, Reps
  <1>6. query.status = "done" => sha \in OnBase \union {None}
    <2> SUFFICES ASSUME query.status = "done" PROVE sha \in OnBase \union {None}
      OBVIOUS
    <2>1. run[r].acked \in OnBase \union {None} /\ ~run[r].refused
      BY <1>2, <1>4, OnIs DEF Marks
    <2>2. landed(run[r].rep) => run[r].rep.final \in OnBase
      BY <1>3, <2>1, LandedOnBase
    <2> QED
      BY <2>1, <2>2 DEF ackedLandedSHA
  <1> HIDE DEF sha
  <1>7. card \in CardSet /\ card.status = query.status /\ card.sha = sha
    BY <1>2, <1>3, <1>5 DEF CardSet
  <1> HIDE DEF card, r
  <1>8. /\ Append(query.cards, card) \in Seq(CardSet) /\ Len(query.cards) \in Nat
        /\ Len(Append(query.cards, card)) = Len(query.cards) + 1
        /\ \A i \in 1..Len(query.cards) : Append(query.cards, card)[i] = query.cards[i]
        /\ Append(query.cards, card)[Len(query.cards) + 1] = card
    BY <1>2, <1>7, AppendProperties, LenProperties
  <1>9. /\ f \in Queries /\ f.kind = "board" /\ f.at = "walk" /\ f.want = query.want
        /\ f.dirs = query.dirs \ {r} /\ f.open = query.open /\ f.torn = query.torn
        /\ f.busy = query.busy /\ f.cards = Append(query.cards, card) /\ f.known = query.known
    BY <1>1, <1>2, <1>8 DEF Queries
  <1> HIDE DEF f
  <1>10. Asked'
    BY <1>1, <1>2, <1>9, StaysSame DEF Asked
  <1>11. \A i \in 1..Len(query'.cards) : i \in 1..Len(query.cards) \/ query'.cards[i] = card
    BY <1>1, <1>8, <1>9
  <1>12. CardsTrue'
    <2>1. \A i \in 1..Len(query.cards) :
             query.cards[i].status = "done" => query.cards[i].sha \in OnBase \union {None}
      BY <1>1, <1>2 DEF CardsTrue
    <2>2. \A i \in 1..Len(query'.cards) :
             query'.cards[i].status = "done" => query'.cards[i].sha \in OnBase \union {None}
      BY <1>1, <1>6, <1>7, <1>8, <1>9, <1>11, <2>1
    <2> QED
      BY <1>1, <1>9, <2>2, StaysSame DEF CardsTrue
  <1>13. ParksSeen'
    <2> SUFFICES ASSUME NEW o \in query.known.parked
                 PROVE  /\ run[o].status \in Waited
                        /\ run[o].dir /\ run[o].status = "awaiting-ack" =>
                             \/ o \in query'.dirs
                             \/ \E i \in 1..Len(query'.cards) : query'.cards[i].status = "awaiting-ack"
      BY <1>1, <1>9 DEF ParksSeen, Seen, Stays
    <2>1. /\ run[o].status \in Waited
          /\ run[o].dir /\ run[o].status = "awaiting-ack" => Seen(o)
      BY <1>1, <1>2 DEF ParksSeen
    <2>2. Len(query.cards) + 1 \in 1..Len(query'.cards)
          /\ query'.cards[Len(query.cards) + 1].status = query.status
      BY <1>1, <1>7, <1>8, <1>9
    <2>3. ASSUME Seen(o), o = r PROVE \E i \in 1..Len(query'.cards) : query'.cards[i].status = "awaiting-ack"
      <3>1. CASE query.status = "awaiting-ack"
        BY <2>2, <3>1
      <3>2. CASE \E i \in 1..Len(query.cards) : query.cards[i].status = "awaiting-ack"
        BY <1>1, <1>8, <1>9, <3>2
      <3> QED
        BY <1>1, <2>3, <3>1, <3>2 DEF Seen, r
    <2>4. ASSUME Seen(o), o # r
          PROVE  \/ o \in query'.dirs
                 \/ \E i \in 1..Len(query'.cards) : query'.cards[i].status = "awaiting-ack"
      <3>1. CASE o \in query.dirs
        BY <1>1, <1>9, <2>4, <3>1
      <3>2. CASE \E i \in 1..Len(query.cards) : query.cards[i].status = "awaiting-ack"
        BY <1>1, <1>8, <1>9, <3>2
      <3> QED
        BY <2>4, <3>1, <3>2 DEF Seen
    <2> QED
      BY <2>1, <2>3, <2>4
  <1>14. Reader'
    BY <1>1, <1>9, <1>10, <1>12, <1>13 DEF Reader, Sayings, RowsTrue, RowsOnce, OpenExplained
  <1> QED
    BY <1>1, <1>14, ReaderMoves

-----------------------------------------------------------------------------
(* The specification.                                                        *)

\* The initial state.
LEMMA LedgerInitially == Init => LedgerInv
  <1> SUFFICES ASSUME Init PROVE LedgerInv
    OBVIOUS
  <1>1. /\ base = <<[head |-> Root, tips |-> {}]>> /\ run = [r \in Runs |-> NoRun]
        /\ note = [c \in Commits |-> NoReport] /\ mishaps = 0 /\ query = NoQuery
    BY DEF Init
  <1>2. [head |-> Root, tips |-> {}] \in Links
    BY DEF Links
  <1>3. base \in Seq(Links) /\ Len(base) = 1 /\ base[1].head = Root /\ base[1].tips = {}
    BY <1>1, <1>2
  <1>4. Typed
    BY <1>1, <1>3, NoneTyped, LedgerAssumption DEF Typed, LedgerAssumption
  <1>5. On(base) = {Root}
    BY <1>3 DEF On
  <1>6. Traces
    <2>1. ASSUME NEW r \in Runs PROVE Reports(r, run[r], base)
      <3>1. Final(r) \notin On(base)
        BY <1>5, LedgerNames
      <3>2. run[r] = NoRun /\ ~landed(run[r].rep)
        BY <1>1, NoneTyped DEF NoRun
      <3> QED
        BY <3>1, <3>2 DEF Reports, NoRun, NoReport
    <2>2. ASSUME NEW r \in Runs PROVE Marks(r, run[r], base)
      BY <1>1 DEF Marks, NoRun
    <2>3. \A c \in Commits : NoteSays(c)
      BY <1>1 DEF NoteSays
    <2> QED
      BY <2>1, <2>2, <2>3 DEF Traces
  <1>7. Asked
    BY <1>1, NoQueryTyped DEF Asked, NoQuery
  <1>8. Reader
    BY <1>1, <1>7 DEF Reader, Sayings, RowsTrue, RowsOnce, OpenExplained, CardsTrue, ParksSeen, NoQuery
  <1> QED
    BY <1>4, <1>6, <1>8 DEF LedgerInv

\* Nothing happens.
LEMMA LedgerStays == ASSUME LedgerInv, UNCHANGED vars PROVE LedgerInv'
  <1>1. Stays /\ query' = query
    BY DEF vars, Stays
  <1>2. Onward
    BY <1>1, FollowsItself DEF Onward, Stays
  <1> QED
    BY <1>1, <1>2, ReaderStands, ReaderMoves

\* Each step preserves the invariant.
LEMMA LedgerStep == ASSUME LedgerInv, [Next]_vars PROVE LedgerInv'
  <1>1. ASSUME NEW r \in Runs, RunStep(r) PROVE LedgerInv'
    BY <1>1, BeginStep, DriveStep, UnlandStep, NoteStep, FileStep, FinishStep, AckRecordStep, AckSwapStep,
       AckMarkStep, RejectStep DEF RunStep
  <1>2. ASSUME NEW r \in Runs, Kill(r) \/ Sweep(r) \/ Delete(r) PROVE LedgerInv'
    BY <1>2, KillStep
  <1>3. CASE Copy
    BY <1>3, CopyStep
  <1>4. ASSUME NEW x \in Pushes, Push(x) PROVE LedgerInv'
    BY <1>4, PushStep
  <1>5. CASE Read
    BY <1>5, AskShaStep, ShaNoteStep, ShaWalkStep, AskReleaseStep, ReleaseWalkStep, ReleaseRowStep, ReleaseListStep,
       ReleaseNoteStep, AskBoardStep, ReadStatusStep, ReadRowStep DEF Read
  <1>6. CASE UNCHANGED vars
    BY <1>6, LedgerStays
  <1> QED
    BY <1>1, <1>2, <1>3, <1>4, <1>5, <1>6 DEF Next

\* The invariant holds throughout.
LEMMA LedgerInvariant == Spec => []LedgerInv
  BY LedgerInitially, LedgerStep, PTL DEF Spec

-----------------------------------------------------------------------------
(* What holds of Ledger.                                                     *)

\* Everything after the root is a commit.
Heads == \A i \in 2..Len(base) : base[i].head \in Commits

\* Only commits land.
LEMMA HeadsStep == ASSUME LedgerInv, [Next]_vars, Heads PROVE Heads'
  <1>0. base \in Seq(Links) /\ Len(base) \in Nat
    BY LenProperties DEF LedgerInv, Typed
  <1>1. \/ base' = base
        \/ \E c \in Commits : \E tips : Advance(c, tips)
    <2>1. ASSUME NEW r \in Runs, RunStep(r)
          PROVE  base' = base \/ \E c \in Commits : \E tips : Advance(c, tips)
      <3>1. Final(r) \in Commits /\ <<r, "ack">> \in Commits
        BY LedgerNames
      <3>2. base' = base \/ \E tips : Advance(Final(r), tips) \/ Advance(<<r, "ack">>, tips)
        BY <2>1 DEF RunStep, Begin, Drive, Unland, Note, File, Finish, AckRecord, AckSwap, AckMark, AckNote,
                    Reject
      <3> QED
        BY <3>1, <3>2
    <2>2. ASSUME NEW x \in Pushes, Push(x) PROVE \E c \in Commits : \E tips : Advance(c, tips)
      BY <2>2, LedgerNames DEF Push
    <2>3. ASSUME Read \/ Copy \/ UNCHANGED vars \/ \E r \in Runs : Kill(r) \/ Sweep(r) \/ Delete(r)
          PROVE  base' = base
      BY <2>3 DEF Read, AskSha, ShaNote, ShaWalk, AskRelease, ReleaseWalk, ReleaseRow, ReleaseList,
                  ReleaseNote, AskBoard, ReadStatus, ReadRow, Ask, Reading, Copy, vars, Kill, Sweep, Delete
    <2> QED
      BY <2>1, <2>2, <2>3 DEF Next
  <1>2. ASSUME NEW c \in Commits, NEW tips, Advance(c, tips) PROVE Heads'
    <2> DEFINE e == [head |-> c, tips |-> tips]
    <2>1. base' = Append(base, e) /\ e.head = c
      BY <1>2 DEF Advance
    <2> HIDE DEF e
    <2>2. /\ Len(base') = Len(base) + 1 /\ base'[Len(base) + 1] = e
          /\ \A k \in 1..Len(base) : base'[k] = base[k]
      BY <1>0, <2>1
    <2> QED
      BY <1>0, <2>1, <2>2 DEF Heads
  <1> QED
    BY <1>1, <1>2 DEF Heads

\* Reports, notes and landings name commits, runs and branches there are, and the reader
\* reads only what there is, whatever happens to the files in between (log.go, release.go,
\* board.go).
THEOREM LedgerTypeCorrect == Spec => []TypeOK
  <1>1. Init => Heads
    BY DEF Init, Heads
  <1>2. LedgerInv /\ Heads => TypeOK
    <2> SUFFICES ASSUME LedgerInv, Heads PROVE TypeOK
      OBVIOUS
    <2>1. /\ base \in Seq(Links) /\ Len(base) \in Nat /\ query \in Queries /\ Asked
          /\ note \in [Commits -> Reps] /\ mishaps \in 0..MaxMishaps /\ Runs \union {0} = 0..MaxRuns
      BY LenProperties, LedgerAssumption DEF LedgerInv, Typed, Reader, Asked, LedgerAssumption, Runs
    <2>2. \A i \in 2..Len(base) : base[i].head \in Commits /\ base[i].tips \subseteq Commits
      <3>1. \A i \in 2..Len(base) : base[i] \in Links
        BY <2>1
      <3>2. \A l \in Links : l.tips \subseteq Commits
        BY LedgerNames DEF Links
      <3> QED
        BY <3>1, <3>2 DEF Heads
    <2>3. \A r \in Runs : /\ run[r].rep.final \in Commits \union {None, Root}
                          /\ run[r].acked \in Commits \union {None} /\ run[r].held \subseteq Branches
                          /\ run[r].rep.landed \subseteq Branches /\ run[r].rep.unlands \in 0..MaxRuns
      BY <2>1, EntryOf DEF Entries, Reps
    <2>4. \A c \in Commits : note[c].by \in Runs \union {0}
      BY <2>1 DEF Reps
    <2>5. query.want \union query.list \subseteq Commits
      BY <2>1 DEF Queries
    <2> QED
      BY <2>1, <2>2, <2>3, <2>4, <2>5 DEF TypeOK, Asked
  <1>3. LedgerInv /\ Heads /\ [Next]_vars => Heads'
    BY HeadsStep
  <1> QED
    BY <1>1, <1>2, <1>3, LedgerInvariant, PTL DEF Spec

\* Whoever `sig log -sha' says landed a commit landed it and whoever it says took that
\* back did, and a row of a release claims only what its landing brought to the base, the
\* runs apart whose swap was refused -- even while runs end, parks are acked, notes are
\* copied and directories vanish (matchProvenance, resolveProvenance, buildRelease).
THEOREM AnswersAreTrue == Spec => []ClaimsAreTrue
  <1>1. LedgerInv => ClaimsAreTrue
    <2> SUFFICES ASSUME LedgerInv PROVE ClaimsAreTrue
      OBVIOUS
    <2>1. Sayings /\ RowsTrue /\ 0 \notin Runs
      BY LedgerNames DEF LedgerInv, Reader
    <2>2. ASSUME Answered
          PROVE  /\ query.answer.landed =>
                      \/ Sha \in OnBase
                      \/ query.answer.run # 0 /\ run[query.answer.run].refused
                 /\ query.answer.by # 0 =>
                      /\ Final(query.answer.by) \in OnBase
                      /\ run[query.answer.by].rep.unlands = query.answer.run
      BY <2>1, <2>2 DEF Answered, Sayings
    <2>3. ASSUME Document, NEW row \in Rows
          PROVE  \/ run[row.final[1]].refused
                 \/ \E k \in 1..Len(base) : base[k].head = row.final
                      /\ row.covers \subseteq {base[k].head} \union base[k].tips
      <3>1. TrueRow(row)
        BY <2>1, <2>3 DEF Document, Rows, RowsTrue
      <3>2. PICK t \in Runs :
              /\ row.final = Final(t)
              /\ \/ run[t].refused
                 \/ \E k \in 1..Len(base) : base[k].head = Final(t)
                       /\ row.covers \subseteq {base[k].head} \union base[k].tips
        BY <3>1 DEF TrueRow
      <3>3. row.final[1] = t
        BY <3>2 DEF Final
      <3> QED
        BY <3>2, <3>3
    <2> QED
      BY <2>2, <2>3 DEF ClaimsAreTrue
  <1> QED
    BY <1>1, LedgerInvariant, PTL

\* However many notes of a landing there are, with a run id or without, and wherever they
\* were copied to, a document has it twice only if two notes tell of it, one with and one
\* without a run id, and its run directory was not read (buildRelease).
THEOREM OneRowEach == Spec => []OnceEach
  <1>1. LedgerInv => OnceEach
    <2> SUFFICES ASSUME LedgerInv, Document, NEW i \in 1..Len(query.rows), NEW j \in 1..Len(query.rows), i < j
                 PROVE  LET a == query.rows[i]  b == query.rows[j]
                        IN  \/ a.final # b.final /\ (a.run = b.run => a.run = 0)
                            \/ {a.keys, b.keys} = {{<<"run", a.final[1]>>}, {<<"landed", a.final>>}}
      BY DEF OnceEach
    <2> DEFINE a == query.rows[i]
               b == query.rows[j]
    <2>1. RowsOnce /\ query.kind = "release" /\ i # j
      BY DEF LedgerInv, Reader, Document
    <2>2. a.keys \intersect b.keys = {}
      BY <2>1 DEF RowsOnce
    <2>3. PICK t \in Runs : RowOf(t, a, query.want)
      BY <2>1 DEF RowsOnce
    <2>4. PICK u \in Runs : RowOf(u, b, query.want)
      BY <2>1 DEF RowsOnce
    <2> HIDE DEF a, b
    <2>5. CASE t # u
      <3>1. a.final # b.final
        BY <2>3, <2>4, <2>5, LedgerNames DEF RowOf
      <3>2. a.run \in {t, 0} /\ b.run \in {u, 0}
        BY <2>3, <2>4 DEF RowOf
      <3> QED
        BY <2>5, <3>1, <3>2 DEF a, b
    <2>6. CASE t = u
      <3>1. a.final = Final(t) /\ a.final[1] = t
        BY <2>3 DEF RowOf, Final
      <3>2. {a.keys, b.keys} = {{<<"run", t>>}, {<<"landed", Final(t)>>}}
        BY <2>2, <2>3, <2>4, <2>6 DEF RowOf
      <3> QED
        BY <3>1, <3>2 DEF a, b
    <2> QED
      BY <2>5, <2>6
  <1> QED
    BY <1>1, LedgerInvariant, PTL

\* A landing in the range of a release that has no row belongs to a run that was counted
\* as incomplete, or was still under way, when it was read; or to one that filed its
\* report while the question was being answered, and no note tells of its landing
\* (buildRelease, readRunReport, readLogRow).
THEOREM NoLandingLeftOut == Spec => []UnattributedExplained
  <1>1. LedgerInv => UnattributedExplained
    <2> SUFFICES ASSUME LedgerInv, Document, NEW r \in query.known.listed, Final(r) \in query.open
                 PROVE  \/ r \in query.torn \union query.busy
                        \/ r \notin query.known.filed /\ run[r].filed /\ ~Tells(note[Final(r)], r)
      BY DEF UnattributedExplained
    <2>1. query.kind = "release" /\ query.at = "notes" /\ query.dirs = {} /\ query.list = {}
      BY DEF Document, Over
    <2>2. r \in query.dirs \union query.torn \union query.busy \/ Escaped(r)
      BY <2>1 DEF LedgerInv, Reader, OpenExplained
    <2> QED
      BY <2>1, <2>2 DEF Escaped
  <1> QED
    BY <1>1, LedgerInvariant, PTL

\* A card in the landed column names a commit that is on the base, and a card never
\* leaves out a park that waited all along, although the board reads a run's status and
\* its report at different times (scanRuns, boardColumn).
THEOREM CardsTell == Spec => []BoardTells
  <1>1. LedgerInv => BoardTells
    <2> SUFFICES ASSUME LedgerInv, Card PROVE BoardTells
      BY DEF BoardTells
    <2>1. query.kind = "board" /\ query.dirs = {}
      BY DEF Card, Over
    <2>2. query.at # "row" /\ query.cards \in Seq(CardSet) /\ CardsTrue /\ ParksSeen
      BY <2>1 DEF LedgerInv, Reader, Asked, CardsTrue, Queries
    <2>3. boardColumn(query.cards) = "landed" => query.cards[1].sha \in OnBase
      <3> SUFFICES ASSUME boardColumn(query.cards) = "landed" PROVE query.cards[1].sha \in OnBase
        OBVIOUS
      <3>1. query.cards # << >> /\ query.cards[1].status = "done" /\ query.cards[1].sha # None
        BY DEF boardColumn
      <3>2. 1 \in 1..Len(query.cards)
        BY <2>2, <3>1, EmptySeq, LenProperties
      <3> QED
        BY <2>1, <2>2, <3>1, <3>2 DEF CardsTrue
    <2>4. ASSUME NEW r \in query.known.parked, run[r].dir, run[r].status = "awaiting-ack"
          PROVE  boardColumn(query.cards) = "awaiting-ack"
      <3>1. PICK i \in 1..Len(query.cards) : query.cards[i].status = "awaiting-ack"
        BY <2>1, <2>2, <2>4 DEF ParksSeen, Seen
      <3>2. query.cards # << >>
        BY <3>1
      <3> QED
        BY <3>1, <3>2 DEF boardColumn
    <2> QED
      BY <2>3, <2>4 DEF BoardTells
  <1> QED
    BY <1>1, LedgerInvariant, PTL

-----------------------------------------------------------------------------
(* EventPush: what is counted.                                               *)

\* The goroutine has a line in hand exactly while it delivers one, and nothing has been
\* given up as left over before it leaves; it backs off only with attempts to spare.
Placed ==
    /\ hand = NoLine <=> loop \notin {"post", "backoff"}
    /\ loop \in {"select", "post", "backoff"} => leftover = 0
    /\ loop = "backoff" => attempt < Attempts

PushInv == PushTypeOK /\ Placed /\ Conserved

-----------------------------------------------------------------------------
\* A line is not the absence of one.
LEMMA LineIsALine == \A l \in Line : l # NoLine
  BY DEF Line, NoLine

\* An emitter's next line exists while it is writing.
LEMMA NextIsALine == ASSUME PushTypeOK, NEW e \in Emitters, e \in writing
                     PROVE  next(e) \in Line /\ written[e] + 1 \in Nat
  BY PushAssumption DEF PushTypeOK, next, Line, PushAssumption

\* The initial state.
LEMMA PushInitially == PushInit => PushInv
  <1> SUFFICES ASSUME PushInit PROVE PushInv
    OBVIOUS
  <1> USE DEF PushInit
  <1>1. PushTypeOK
    <2>1. q \in Seq(Line) /\ got \in Seq(Line) /\ Len(q) = 0
      BY EmptySeq
    <2>2. written \in [Emitters -> Nat] /\ \A e \in Emitters : written[e] <= Lines
      BY PushAssumption DEF PushAssumption
    <2>3. Len(q) <= Queue /\ attempt \in 0..Attempts
      BY <2>1, PushAssumption DEF PushAssumption
    <2>4. /\ total \in Nat /\ sent \in Nat /\ failed \in Nat /\ dropped \in Nat /\ leftover \in Nat
          /\ writing = {} /\ cancelled = FALSE /\ loop = "select" /\ hand = NoLine
      OBVIOUS
    <2> HIDE DEF PushInit
    <2> QED
      BY <2>1, <2>2, <2>3, <2>4 DEF PushTypeOK
  <1>2. Placed
    BY DEF Placed
  <1>3. Conserved
    BY DEF Conserved, InHand
  <1> QED
    BY <1>1, <1>2, <1>3 DEF PushInv

\* Each step preserves the invariant.
LEMMA PushStepOK == PushInv /\ [PushNext]_pushVars => PushInv'
  <1> SUFFICES ASSUME PushInv, [PushNext]_pushVars PROVE PushInv'
    OBVIOUS
  <1> USE PushAssumption, LineIsALine DEF PushAssumption
  <1>0. /\ PushTypeOK /\ Placed /\ Conserved
        /\ sent \in Nat /\ failed \in Nat /\ dropped \in Nat /\ leftover \in Nat /\ total \in Nat
        /\ q \in Seq(Line) /\ Len(q) \in Nat /\ hand \in Line \union {NoLine}
    BY DEF PushInv, PushTypeOK
  <1>1. ASSUME NEW e \in Emitters, Write(e) PROVE PushInv'
    <2>0. /\ written[e] \in Nat /\ written[e] < Lines
          /\ UNCHANGED <<q, cancelled, loop, hand, attempt, sent, failed, leftover, got>>
          /\ \/ /\ written' = [written EXCEPT ![e] = written[e] + 1] /\ total' = total + 1
                /\ dropped' = dropped + 1 /\ writing' = writing /\ e \notin writing
             \/ /\ writing' = writing \union {e}
                /\ UNCHANGED <<dropped, written, total>>
      BY <1>0, <1>1 DEF Write, Wrote, PushTypeOK
    <2>a. /\ q' \in Seq(Line) /\ Len(q') <= Queue /\ cancelled' \in BOOLEAN
          /\ loop' \in {"select", "post", "backoff", "leaving", "stopped"}
          /\ hand' \in Line \union {NoLine} /\ attempt' \in 0..Attempts
          /\ sent' \in Nat /\ failed' \in Nat /\ leftover' \in Nat /\ got' \in Seq(Line)
      BY <1>0, <2>0 DEF PushTypeOK
    <2>b. /\ written \in [Emitters -> Nat] /\ writing \in SUBSET Emitters
          /\ \A d \in Emitters : written[d] <= Lines /\ (d \in writing => written[d] < Lines)
      BY <1>0 DEF PushTypeOK
    <2>c. total' \in Nat /\ dropped' \in Nat
      BY <1>0, <2>0
    <2>d. /\ written' \in [Emitters -> Nat] /\ writing' \in SUBSET Emitters
          /\ \A d \in Emitters : written'[d] <= Lines /\ (d \in writing' => written'[d] < Lines)
      <3>1. CASE UNCHANGED <<dropped, written, total>> /\ writing' = writing \union {e}
        BY <2>0, <2>b, <3>1
      <3>2. CASE /\ written' = [written EXCEPT ![e] = written[e] + 1] /\ writing' = writing
                 /\ e \notin writing
        <4>1. written' \in [Emitters -> Nat] /\ written'[e] = written[e] + 1
              /\ \A d \in Emitters \ {e} : written'[d] = written[d]
          BY <2>0, <2>b, <3>2
        <4>2. written'[e] <= Lines
          BY <2>0, <4>1
        <4> QED
          BY <2>b, <3>2, <4>1, <4>2
      <3> QED
        BY <2>0, <3>1, <3>2
    <2>1. PushTypeOK'
      BY <2>a, <2>c, <2>d DEF PushTypeOK
    <2>2. Placed'
      BY <1>0, <1>1 DEF Write, Wrote, Placed
    <2>3. UNCHANGED <<q, hand, sent, failed, leftover>>
      BY <1>1 DEF Write
    <2>4. \/ total' = total + 1 /\ dropped' = dropped + 1
          \/ UNCHANGED <<total, dropped>>
      BY <1>1 DEF Write, Wrote
    <2>5. InHand' = InHand /\ InHand \in Nat /\ q' = q /\ Len(q) \in Nat
      BY <1>0, <2>3 DEF InHand
    <2>6. Conserved'
      BY <1>0, <2>3, <2>4, <2>5 DEF Conserved
    <2> QED
      BY <2>1, <2>2, <2>6 DEF PushInv
  <1>2. ASSUME NEW e \in Emitters, Enqueue(e) PROVE PushInv'
    <2>1. next(e) \in Line
      BY <1>0, <1>2, NextIsALine DEF Enqueue
    <2>2. Placed'
      BY <1>0, <1>2 DEF Enqueue, Wrote, Placed
    <2>3. UNCHANGED <<hand, sent, failed, leftover>> /\ total' = total + 1
      BY <1>2 DEF Enqueue, Wrote
    <2>4. CASE Len(q) < Queue /\ q' = Append(q, next(e)) /\ UNCHANGED dropped
      <3>1. q' \in Seq(Line) /\ Len(q') = Len(q) + 1
        BY <1>0, <2>1, <2>4
      <3>2. PushTypeOK'
        BY <1>0, <1>2, <2>4, <3>1 DEF Enqueue, Wrote, PushTypeOK
      <3>3. Conserved'
        BY <1>0, <2>3, <2>4, <3>1 DEF Conserved, InHand
      <3> QED
        BY <2>2, <3>2, <3>3 DEF PushInv
    <2>5. CASE Len(q) = Queue /\ dropped' = dropped + 1 /\ UNCHANGED q
      <3>1. PushTypeOK'
        BY <1>0, <1>2, <2>5 DEF Enqueue, Wrote, PushTypeOK
      <3>2. Conserved'
        BY <1>0, <2>3, <2>5 DEF Conserved, InHand
      <3> QED
        BY <2>2, <3>1, <3>2 DEF PushInv
    <2> QED
      BY <1>2, <2>4, <2>5 DEF Enqueue
  <1>3. ASSUME Take PROVE PushInv'
    <2>1. Head(q) \in Line /\ Tail(q) \in Seq(Line) /\ Len(Tail(q)) = Len(q) - 1
      BY <1>0, <1>3, EmptySeq, HeadTailProperties DEF Take
    <2>2. PushTypeOK'
      BY <1>0, <1>3, <2>1 DEF Take, PushTypeOK, counters
    <2>3. Placed'
      BY <1>0, <1>3, <2>1 DEF Take, Placed
    <2>4. UNCHANGED <<total, sent, failed, dropped, leftover>>
      BY <1>3 DEF Take, counters
    <2>5. InHand = 0 /\ InHand' = 1 /\ Len(q') = Len(q) - 1
      BY <1>0, <1>3, <2>1 DEF Take, Placed, InHand
    <2>6. Conserved'
      BY <1>0, <2>4, <2>5 DEF Conserved
    <2> QED
      BY <2>2, <2>3, <2>6 DEF PushInv
  <1>4. ASSUME Post PROVE PushInv'
    <2>1. hand \in Line /\ hand # NoLine /\ leftover = 0 /\ attempt \in 0..Attempts
      BY <1>0, <1>4 DEF Post, PushTypeOK, Placed
    <2>2. got' \in Seq(Line)
      <3>1. got \in Seq(Line)
        BY <1>0 DEF PushTypeOK
      <3>2. Append(got, hand) \in Seq(Line)
        BY <2>1, <3>1
      <3>3. got' \in {got, Append(got, hand)}
        BY <1>4 DEF Post
      <3> QED
        BY <3>1, <3>2, <3>3
    <2>3. /\ q' = q /\ UNCHANGED <<written, total, writing, cancelled, dropped, leftover>>
          /\ \/ /\ loop' = "select" /\ hand' = NoLine /\ attempt' = 0
                /\ \/ sent' = sent + 1 /\ failed' = failed
                   \/ sent' = sent /\ failed' = failed + 1
             \/ /\ loop' = "backoff" /\ attempt < Attempts
                /\ UNCHANGED <<hand, attempt, sent, failed>>
      BY <1>4 DEF Post, Retry
    <2>4. PushTypeOK'
      BY <1>0, <2>1, <2>2, <2>3 DEF PushTypeOK
    <2>5. Placed'
      BY <2>1, <2>3 DEF Placed
    <2>6. Conserved'
      BY <1>0, <2>1, <2>3 DEF Conserved, InHand
    <2> QED
      BY <2>4, <2>5, <2>6 DEF PushInv
  <1>5. ASSUME Backoff PROVE PushInv'
    <2>1. PushTypeOK'
      BY <1>0, <1>5 DEF Backoff, PushTypeOK, Placed
    <2>2. Placed'
      BY <1>0, <1>5 DEF Backoff, Placed
    <2>3. Conserved'
      BY <1>0, <1>5 DEF Backoff, PushTypeOK, Placed, Conserved, InHand
    <2> QED
      BY <2>1, <2>2, <2>3 DEF PushInv
  <1>6. ASSUME Leave PROVE PushInv'
    <2>1. PushTypeOK'
      BY <1>0, <1>6 DEF Leave, PushTypeOK
    <2>2. Placed'
      BY <1>0, <1>6 DEF Leave, Placed
    <2>3. Conserved'
      BY <1>0, <1>6 DEF Leave, PushTypeOK, Placed, Conserved, InHand
    <2> QED
      BY <2>1, <2>2, <2>3 DEF PushInv
  <1>7. ASSUME Close \/ Cancel PROVE PushInv'
    BY <1>0, <1>7 DEF Close, Cancel, PushTypeOK, Placed, Conserved, InHand, counters, PushInv
  <1>8. ASSUME UNCHANGED pushVars PROVE PushInv'
    BY <1>0, <1>8 DEF pushVars, PushTypeOK, Placed, Conserved, InHand, PushInv
  <1> QED
    BY <1>1, <1>2, <1>3, <1>4, <1>5, <1>6, <1>7, <1>8 DEF PushNext, Emit, Deliver

\* The invariant holds throughout.
LEMMA PushInvariant == PushSpec => []PushInv
  BY PushInitially, PushStepOK, PTL DEF PushSpec

-----------------------------------------------------------------------------
\* The queue stays within its capacity and every line within its retry budget, whatever
\* the receiver does (eventPusher.loop, deliver).
THEOREM PushTypeCorrect == PushSpec => []PushTypeOK
  <1>1. PushInv => PushTypeOK
    BY DEF PushInv
  <1> QED
    BY <1>1, PushInvariant, PTL

\* Every line written is sent, failed, dropped or on its way, and the only lines that
\* eventPusher's counters miss entered the queue after its last look at it.
THEOREM EveryLineCounted == PushSpec => []Conserved
  <1>1. PushInv => Conserved
    BY DEF PushInv
  <1> QED
    BY <1>1, PushInvariant, PTL

-----------------------------------------------------------------------------
(* Order.  The lines a receiver has, the one in hand and the queue are one     *)
(* stream, and what an emitter has written bounds all of its lines in it.      *)

\* Of one emitter, l is not later than m.
NotLater(l, m) == l[1] = m[1] => l[2] <= m[2]

\* What was received is not later than what is in hand, that not than what waits.
Stream ==
    /\ \A i, j \in 1..Len(q) : i < j => NotLater(q[i], q[j])
    /\ hand # NoLine => \A i \in 1..Len(q) : NotLater(hand, q[i])
    /\ \A i \in 1..Len(got), j \in 1..Len(q) : NotLater(got[i], q[j])
    /\ hand # NoLine => \A i \in 1..Len(got) : NotLater(got[i], hand)
    /\ InOrder

\* Nothing in the stream is later than what its emitter has written.
Written ==
    /\ \A i \in 1..Len(q) : q[i][2] <= written[q[i][1]]
    /\ hand # NoLine => hand[2] <= written[hand[1]]
    /\ \A i \in 1..Len(got) : got[i][2] <= written[got[i][1]]

OrderInv == PushInv /\ Stream /\ Written

\* What Append and Tail do to the places of a sequence of lines.
LEMMA AppendPlaces ==
    ASSUME NEW s \in Seq(Line), NEW l \in Line
    PROVE  /\ Len(Append(s, l)) = Len(s) + 1
           /\ \A i \in 1..Len(s) : Append(s, l)[i] = s[i]
           /\ Append(s, l)[Len(s) + 1] = l
           /\ Len(s) \in Nat /\ \A i \in 1..(Len(s) + 1) : i \in 1..Len(s) \/ i = Len(s) + 1
  OBVIOUS

LEMMA TailPlaces ==
    ASSUME NEW s \in Seq(Line), s # << >>
    PROVE  /\ Len(Tail(s)) = Len(s) - 1 /\ Head(s) = s[1] /\ Len(s) \in Nat \ {0}
           /\ \A i \in 1..Len(Tail(s)) : Tail(s)[i] = s[i + 1] /\ i + 1 \in 1..Len(s) /\ i + 1 > 1
  BY EmptySeq, HeadTailProperties

\* A line names an emitter and a number.
LEMMA LineParts == \A l \in Line : l[1] \in Emitters /\ l[2] \in Nat
  BY PushAssumption DEF Line, PushAssumption

\* Steps that leave the stream alone keep its order; written only grows.
LEMMA StreamStands ==
    ASSUME PushTypeOK, Stream, Written, UNCHANGED <<q, got>>, hand' \in {hand, NoLine},
           written' = written \/ \E e \in Emitters : written' = [written EXCEPT ![e] = @ + 1]
    PROVE  Stream' /\ Written'
  <1>1. Stream'
    BY DEF Stream, InOrder, NotLater
  <1>2. \A e \in Emitters : written[e] \in Nat /\ written'[e] \in Nat /\ written[e] <= written'[e]
    BY DEF PushTypeOK
  <1>3. \A l \in Line : l[2] <= written[l[1]] => l[2] <= written'[l[1]]
    BY <1>2, LineParts
  <1>4. /\ \A i \in 1..Len(q) : q[i] \in Line
        /\ \A i \in 1..Len(got) : got[i] \in Line
        /\ hand \in Line \union {NoLine}
    BY DEF PushTypeOK
  <1>5. Written'
    BY <1>3, <1>4 DEF Written
  <1> QED
    BY <1>1, <1>5

LEMMA StreamStep == OrderInv /\ [PushNext]_pushVars => Stream' /\ Written'
  <1> SUFFICES ASSUME OrderInv, [PushNext]_pushVars PROVE Stream' /\ Written'
    OBVIOUS
  <1>0. /\ PushTypeOK /\ Placed /\ Stream /\ Written
        /\ q \in Seq(Line) /\ got \in Seq(Line) /\ hand \in Line \union {NoLine}
        /\ Len(q) \in Nat /\ Len(got) \in Nat
        /\ \A i \in 1..Len(q) : q[i] \in Line
        /\ \A i \in 1..Len(got) : got[i] \in Line
    BY DEF OrderInv, PushInv, PushTypeOK
  <1>1. ASSUME NEW e \in Emitters, Write(e) PROVE Stream' /\ Written'
    BY <1>0, <1>1, StreamStands DEF Write, Wrote
  <1>2. ASSUME NEW e \in Emitters, Enqueue(e) PROVE Stream' /\ Written'
    <2>1. /\ UNCHANGED <<hand, got>> /\ written' = [written EXCEPT ![e] = @ + 1]
          /\ q' = Append(q, next(e)) \/ q' = q
      BY <1>2 DEF Enqueue, Wrote
    <2>2. CASE q' = q
      BY <1>0, <2>1, <2>2, StreamStands
    <2>3. CASE q' = Append(q, next(e))
      <3> DEFINE n == next(e)
      <3>1. /\ n \in Line /\ n[1] = e /\ n[2] = written[e] + 1 /\ written[e] \in Nat
            /\ written'[e] = written[e] + 1
            /\ \A d \in Emitters : written[d] \in Nat /\ written'[d] \in Nat /\ written[d] <= written'[d]
        BY <1>0, <1>2, <2>1, NextIsALine DEF Enqueue, PushTypeOK, next
      <3>2. \A l \in Line : l[2] <= written[l[1]] => NotLater(l, n) /\ l[2] <= written'[l[1]]
        BY <3>1, LineParts DEF NotLater
      <3>3. /\ \A i \in 1..Len(q) : NotLater(q[i], n) /\ q[i][2] <= written'[q[i][1]]
            /\ hand # NoLine => NotLater(hand, n) /\ hand[2] <= written'[hand[1]]
            /\ \A i \in 1..Len(got) : NotLater(got[i], n) /\ got[i][2] <= written'[got[i][1]]
            /\ n[2] <= written'[n[1]]
        BY <1>0, <3>1, <3>2 DEF Written
      <3> HIDE DEF n
      <3>4. /\ Len(q') = Len(q) + 1 /\ q'[Len(q) + 1] = n
            /\ \A i \in 1..Len(q) : q'[i] = q[i]
            /\ \A i \in 1..Len(q') : i \in 1..Len(q) \/ i = Len(q) + 1
        BY <1>0, <2>3, <3>1, AppendPlaces DEF n
      <3>5. Written'
        BY <2>1, <3>3, <3>4 DEF Written
      <3>6. \A i, j \in 1..Len(q') : i < j => NotLater(q'[i], q'[j])
        <4> SUFFICES ASSUME NEW i \in 1..Len(q'), NEW j \in 1..Len(q'), i < j
                     PROVE  NotLater(q'[i], q'[j])
          OBVIOUS
        <4>1. i \in 1..Len(q)
          BY <1>0, <3>4
        <4> QED
          BY <1>0, <3>3, <3>4, <4>1 DEF Stream
      <3>7. Stream'
        BY <1>0, <2>1, <3>3, <3>4, <3>6 DEF Stream, InOrder
      <3> QED
        BY <3>5, <3>7
    <2> QED
      BY <2>1, <2>2, <2>3
  <1>3. ASSUME Take PROVE Stream' /\ Written'
    <2>1. /\ q # << >> /\ hand' = Head(q) /\ q' = Tail(q) /\ UNCHANGED <<written, got>>
      BY <1>3 DEF Take
    <2>2. /\ Len(q') = Len(q) - 1 /\ hand' = q[1] /\ 1 \in 1..Len(q)
          /\ \A i \in 1..Len(q') : q'[i] = q[i + 1] /\ i + 1 \in 1..Len(q) /\ 1 < i + 1
      BY <1>0, <2>1, TailPlaces
    <2>3. Written'
      BY <1>0, <2>1, <2>2 DEF Written
    <2>4. \A i, j \in 1..Len(q') : i < j => NotLater(q'[i], q'[j])
      <3> SUFFICES ASSUME NEW i \in 1..Len(q'), NEW j \in 1..Len(q'), i < j
                   PROVE  NotLater(q'[i], q'[j])
        OBVIOUS
      <3>1. i + 1 \in 1..Len(q) /\ j + 1 \in 1..Len(q) /\ i + 1 < j + 1
        BY <1>0, <2>2
      <3>2. NotLater(q[i + 1], q[j + 1])
        BY <1>0, <3>1 DEF Stream
      <3> QED
        BY <2>2, <3>2
    <2>5. Stream'
      BY <1>0, <2>1, <2>2, <2>4 DEF Stream, InOrder
    <2> QED
      BY <2>3, <2>5
  <1>4. ASSUME Post PROVE Stream' /\ Written'
    <2>1. hand \in Line /\ hand # NoLine
      BY <1>0, <1>4 DEF Post, Placed
    <2>2. UNCHANGED <<q, written>> /\ hand' \in {hand, NoLine} /\ got' \in {got, Append(got, hand)}
      BY <1>4 DEF Post, Retry
    <2>3. CASE got' = got
      BY <1>0, <2>2, <2>3, StreamStands
    <2>4. CASE got' = Append(got, hand)
      <3>1. /\ Len(got') = Len(got) + 1 /\ got'[Len(got) + 1] = hand
            /\ \A i \in 1..Len(got) : got'[i] = got[i]
            /\ \A i \in 1..Len(got') : i \in 1..Len(got) \/ i = Len(got) + 1
        BY <1>0, <2>1, <2>4, AppendPlaces
      <3>2. Written'
        BY <1>0, <2>1, <2>2, <3>1 DEF Written
      <3>3. \A i \in 1..Len(got') : NotLater(got'[i], hand)
        BY <1>0, <2>1, <3>1, LineParts DEF Stream, NotLater
      <3>4. InOrder'
        <4> SUFFICES ASSUME NEW i \in 1..Len(got'), NEW j \in 1..Len(got'), i < j
                     PROVE  NotLater(got'[i], got'[j])
          BY DEF InOrder, NotLater
        <4>1. i \in 1..Len(got)
          BY <1>0, <3>1
        <4>2. CASE j = Len(got) + 1
          BY <3>1, <3>3, <4>2
        <4>3. CASE j \in 1..Len(got)
          BY <1>0, <3>1, <4>1, <4>3 DEF Stream, InOrder, NotLater
        <4> QED
          BY <3>1, <4>2, <4>3
      <3>5. \A i \in 1..Len(got'), j \in 1..Len(q') : NotLater(got'[i], q'[j])
        BY <1>0, <2>1, <2>2, <3>1 DEF Stream
      <3>6. Stream'
        BY <1>0, <2>1, <2>2, <3>3, <3>4, <3>5 DEF Stream
      <3> QED
        BY <3>2, <3>6
    <2> QED
      BY <2>2, <2>3, <2>4
  <1>5. ASSUME Backoff \/ Leave \/ Close \/ Cancel PROVE Stream' /\ Written'
    BY <1>0, <1>5, StreamStands DEF Backoff, Leave, Close, Cancel
  <1>6. ASSUME UNCHANGED pushVars PROVE Stream' /\ Written'
    BY <1>0, <1>6, StreamStands DEF pushVars
  <1> QED
    BY <1>1, <1>2, <1>3, <1>4, <1>5, <1>6 DEF PushNext, Emit, Deliver

\* A receiver sees each run's lines in the order they were written, however many are
\* dropped and however often one is sent again (deliver retries in place, never behind
\* a later line).
THEOREM ReceivedInOrder == PushSpec => []InOrder
  <1>1. PushInit => Stream /\ Written
    BY DEF PushInit, Stream, Written, InOrder
  <1>2. Stream => InOrder
    BY DEF Stream
  <1>3. Stream /\ Written /\ PushInv /\ [PushNext]_pushVars => (Stream /\ Written)'
    BY StreamStep DEF OrderInv
  <1> QED
    BY <1>1, <1>2, <1>3, PushInvariant, PTL DEF PushSpec
=============================================================================
