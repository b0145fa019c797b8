------------------------------- MODULE Ledger -------------------------------
(***************************************************************************)
(* What sigbound answers about the past.  Nothing stores "what landed": a  *)
(* run files a report, an ack a parking record and a status, a landing may *)
(* get a git note, and `sig log', `sig log -sha', `sig log -release' and   *)
(* the board (log.go, release.go, board.go) work it out from those, file   *)
(* by file, while runs end, parks are acked and people push.               *)
(*                                                                         *)
(* A run's pipeline, a park's protocol and an unland are modules Run, Park *)
(* and Unland; here they take the few steps that leave these traces.  The  *)
(* base is the sequence of what landed on it, a branch tip is reachable    *)
(* from the landing that merged it, and one reader asks one question.      *)
(***************************************************************************)
EXTENDS Integers, Sequences

CONSTANTS MaxRuns,     \* bound: run directories, in the order of their ids
          Branches,    \* the branches of a run's agents
          Pushes,      \* commits pushed by somebody else
          MaxMishaps,  \* bound: kills, deleted run directories, copied notes, pushes
          Questions    \* of {"release", "sha", "board"}

Runs    == 1..MaxRuns
None    == <<0, "none">>
Root    == <<0, "root">>    \* the base before the first run
Commits == (Runs \X ({"final", "ack"} \union Branches)) \union ({0} \X Pushes)

ASSUME LedgerAssumption ==
    /\ {MaxRuns, MaxMishaps} \subseteq Nat
    /\ Questions \subseteq {"release", "sha", "board"}
    /\ {"final", "ack", "none", "root"} \intersect (Branches \union Pushes) = {}

VARIABLES base,     \* what landed: the new head, and the tips it brought along
          run,      \* the runs, their directories and their acks
          note,     \* refs/notes/sigbound: a report, for a commit
          mishaps,
          query     \* the reader

vars == <<base, run, note, mishaps, query>>

(* by: the run id, 0 in a note that has none; final: integrate.finalSHA;     *)
(* ok: verify green or not set; acked: park.landedSHA, folded in by a reader *)
(* or by the ack's note; takes: the landing an unland took back.             *)
NoTips   == [b \in Branches |-> None]
NoReport == [by |-> 0, base |-> None, final |-> None, ok |-> FALSE, tips |-> NoTips,
             landed |-> {}, unlands |-> 0, takes |-> None, acked |-> None]
NoRun    == [at |-> "none", status |-> "none", rep |-> NoReport, refused |-> FALSE,
             filed |-> FALSE, dir |-> FALSE, held |-> {}, park |-> "none", acked |-> None]

\* want: the commits asked about; open: those nobody claimed; dirs, list: the
\* directories and the notes left to read; torn, busy: the runs without a report that
\* were counted as incomplete, that were under way; known: what held when the question
\* was asked, for the properties.
NoQuery == [kind |-> "none", at |-> "idle", want |-> {}, dirs |-> {}, open |-> {},
            rows |-> << >>, torn |-> {}, busy |-> {}, list |-> {}, unlanded |-> {},
            status |-> "none", cards |-> << >>,
            answer |-> [landed |-> FALSE, role |-> "none", source |-> "none", run |-> 0, by |-> 0],
            known |-> [listed |-> {}, filed |-> {}, settled |-> {}, parked |-> {}, taken |-> {}]]

Init ==
    /\ base = <<[head |-> Root, tips |-> {}]>>
    /\ run = [r \in Runs |-> NoRun]
    /\ note = [c \in Commits |-> NoReport]
    /\ mishaps = 0
    /\ query = NoQuery

\* Bound: nothing begins while a question is being answered (it could not be among the
\* directories and the commits of the question); what was under way goes on.
Quiet == query = NoQuery

\* Bound: one question, and nothing is followed once it is answered.
Over == query.at \notin {"idle", "note", "row"} /\ query.dirs = {}
        /\ (query.kind = "release" => query.at = "notes" /\ query.list = {})

BaseHead  == base[Len(base)].head
Reach(i)  == UNION {{base[k].head} \union base[k].tips : k \in 1..i}
OnBase    == Reach(Len(base))
Tips(r)   == {run[r].rep.tips[b] : b \in Branches} \ {None}
Advance(c, tips) == base' = Append(base, [head |-> c, tips |-> tips])
Become(r, f) == ~Over /\ run' = [run EXCEPT ![r] = f]
Used      == {r \in Runs : run[r].at # "none"}
Readable(r) == run[r].dir /\ run[r].filed

\* log.go landed, which knows nothing of a refused swap.
landed(rep) == rep.final # None /\ rep.final # rep.base /\ rep.ok

-----------------------------------------------------------------------------
(* What leaves the traces.                                                   *)

\* startRunDir: a run of new work, or on the branches an earlier one left behind
\* (-resume, the watch queue's next cycle); or an unland of a landing.
Begin(r) ==
    /\ Used = 1..(r - 1) /\ Quiet
    /\ \E rep \in {[NoReport EXCEPT !.by = r, !.base = BaseHead, !.tips = [b \in Branches |-> <<w, b>>]] :
                     w \in {r} \union {o \in Used : run[o].filed /\ run[o].rep.unlands = 0
                                                     /\ Tips(o) \intersect OnBase = {}}}
                 \union {[NoReport EXCEPT !.by = r, !.base = BaseHead, !.unlands = o,
                                          !.takes = run[o].rep.final] :
                     o \in {o \in Used : Readable(o) /\ landed(run[o].rep)
                                           /\ run[o].rep.final \in OnBase}} :
          Become(r, [NoRun EXCEPT !.at = "work", !.status = "running", !.dir = TRUE, !.rep = rep])
    /\ UNCHANGED <<base, note, mishaps, query>>

IsUnland(r) == run[r].rep.unlands # 0
Final(r)    == <<r, "final">>

\* driveRun: the clean branches land, the held ones park; a red tree lands nothing;
\* a refused swap returns the report it has.
Drive(r) == \E clean, held \in SUBSET Branches :
    LET rep == [run[r].rep EXCEPT !.final = IF clean = {} THEN run[r].rep.base ELSE Final(r),
                                  !.landed = clean]
        ran == [run[r] EXCEPT !.rep = [rep EXCEPT !.ok = TRUE]]
    IN  /\ run[r].at = "work" /\ ~IsUnland(r)
        /\ clean \intersect held = {} /\ clean \union held # {}
        /\ \/ /\ clean = {} \/ rep.base = BaseHead
              /\ Become(r, [ran EXCEPT !.at = "note", !.held = held,
                                       !.park = IF held = {} THEN "none" ELSE "made"])
              /\ IF clean = {} THEN UNCHANGED base
                 ELSE Advance(Final(r), {rep.tips[b] : b \in clean})
           \/ /\ clean # {} /\ held = {} /\ rep.base # BaseHead
              /\ Become(r, [ran EXCEPT !.at = "file", !.refused = TRUE]) /\ UNCHANGED base
           \/ /\ clean # {} /\ held = {}
              /\ Become(r, [run[r] EXCEPT !.at = "file", !.rep = rep]) /\ UNCHANGED base
        /\ UNCHANGED <<note, mishaps, query>>

\* unlandRun: finalSHA is only recorded once the swap succeeded.
Unland(r) ==
    /\ run[r].at = "work" /\ IsUnland(r)
    /\ \/ /\ run[r].rep.base = BaseHead /\ Advance(Final(r), {})
          /\ Become(r, [run[r] EXCEPT !.at = "note", !.rep.final = Final(r), !.rep.ok = TRUE])
       \/ /\ Become(r, [run[r] EXCEPT !.at = "file", !.park = "made", !.rep.ok = TRUE])
          /\ UNCHANGED base
       \/ /\ Become(r, [run[r] EXCEPT !.at = "file", !.refused = TRUE]) /\ UNCHANGED base
    /\ UNCHANGED <<note, mishaps, query>>

\* attachNote: -notes may be off, and it is best effort; never on the base.
Note(r) ==
    /\ run[r].at = "note" /\ Become(r, [run[r] EXCEPT !.at = "file"])
    /\ \/ run[r].rep.final = Final(r) /\ note' = [note EXCEPT ![Final(r)] = run[r].rep]
       \/ UNCHANGED note
    /\ UNCHANGED <<base, mishaps, query>>

File(r) ==
    /\ run[r].at = "file" /\ Become(r, [run[r] EXCEPT !.at = "finish", !.filed = TRUE])
    /\ UNCHANGED <<base, note, mishaps, query>>

\* finishRunDir (the record, then the marker), or the error's marker.
Finish(r) ==
    /\ run[r].at = "finish"
    /\ Become(r, [run[r] EXCEPT !.at = "end",
                    !.park = IF run[r].park = "made" THEN "open" ELSE "none",
                    !.status = IF run[r].park = "made" THEN "awaiting-ack"
                               ELSE IF ~run[r].refused THEN "done"
                               ELSE IF IsUnland(r) THEN "unland-blocked" ELSE "error"])
    /\ UNCHANGED <<base, note, mishaps, query>>

\* ackRun: the record, the swap, the marker, the note.
AckRecord(r) ==
    /\ run[r].at = "end" /\ run[r].park = "open" /\ run[r].dir
    /\ Become(r, [run[r] EXCEPT !.at = "acking", !.park = "resolved", !.acked = <<r, "ack">>])
    /\ UNCHANGED <<base, note, mishaps, query>>

\* refuseAck takes the record back, unless the swap failed for another reason.
AckSwap(r) ==
    /\ run[r].at = "acking"
    /\ \/ /\ Advance(<<r, "ack">>, {run[r].rep.tips[b] : b \in run[r].held})
          /\ Become(r, [run[r] EXCEPT !.at = "acked"])
       \/ /\ Become(r, [run[r] EXCEPT !.at = "end", !.park = "open", !.acked = None])
          /\ UNCHANGED base
       \/ Become(r, [run[r] EXCEPT !.at = "over"]) /\ UNCHANGED base
    /\ UNCHANGED <<note, mishaps, query>>

AckMark(r) ==
    /\ run[r].at = "acked" /\ Become(r, [run[r] EXCEPT !.at = "noting", !.status = "done"])
    /\ UNCHANGED <<base, note, mishaps, query>>

\* attachAckNote: the report with the resolved record folded in.
AckNote(r) ==
    /\ run[r].at = "noting" /\ Become(r, [run[r] EXCEPT !.at = "over"])
    /\ \/ /\ Readable(r)
          /\ note' = [note EXCEPT ![run[r].acked] = [run[r].rep EXCEPT !.acked = run[r].acked]]
       \/ UNCHANGED note
    /\ UNCHANGED <<base, mishaps, query>>

Reject(r) ==
    /\ run[r].at = "end" /\ run[r].park = "open" /\ run[r].dir
    /\ Become(r, [run[r] EXCEPT !.at = "over", !.park = "resolved", !.status = "rejected"])
    /\ UNCHANGED <<base, note, mishaps, query>>

Mishap == mishaps < MaxMishaps /\ mishaps' = mishaps + 1

\* A kill leaves the marker as it was; recoverStaleRuns, at the next start of a daemon
\* or run, corrects it.
Kill(r) ==
    /\ run[r].at \in {"work", "note", "file", "finish"} /\ Mishap
    /\ Become(r, [run[r] EXCEPT !.at = "dead", !.park = "none"])
    /\ UNCHANGED <<base, note, query>>

Sweep(r) ==
    /\ run[r].at = "dead" /\ Become(r, [run[r] EXCEPT !.at = "over", !.status = "interrupted"])
    /\ UNCHANGED <<base, note, mishaps, query>>

\* Somebody deletes a run directory, or the commits are fetched into a clone.
Delete(r) ==
    /\ run[r].at \in {"end", "over", "dead"} /\ run[r].dir /\ Mishap
    /\ Become(r, [run[r] EXCEPT !.dir = FALSE, !.at = "over"])
    /\ UNCHANGED <<base, note, query>>

\* Somebody copies a note (git notes copy, a rebase), or has one without a run id: an
\* old one, or one written by hand.
Copy == Quiet /\ \E c \in Commits, d \in OnBase \intersect Commits :
    /\ note[c] # NoReport /\ note[d] = NoReport /\ Mishap
    /\ \E id \in {note[c].by, 0} : note' = [note EXCEPT ![d] = [note[c] EXCEPT !.by = id]]
    /\ UNCHANGED <<base, run, query>>

\* A push, perhaps with a branch somebody merged by hand.
Push(x) == \E tips \in {{}} \union {{t} : t \in UNION {Tips(r) : r \in Used}} :
    /\ Quiet /\ <<0, x>> \notin OnBase /\ Advance(<<0, x>>, tips) /\ Mishap
    /\ UNCHANGED <<run, note, query>>

-----------------------------------------------------------------------------
(* What the readers share.                                                   *)

Listing == {r \in Used : run[r].dir}     \* runDirNames
Oldest(S) == CHOOSE r \in S : \A o \in S : r <= o
Newest(S) == CHOOSE r \in S : \A o \in S : o <= r
Ask(q) ==
    /\ query = NoQuery /\ q.kind \in Questions
    /\ query' = [q EXCEPT !.known =
         [listed |-> Listing,
          filed |-> {r \in Listing : Readable(r)},
          settled |-> {r \in Listing : Readable(r) /\ run[r].status = "done"},
          parked |-> {r \in Listing : run[r].status = "awaiting-ack"},
          taken |-> {run[u].rep.takes : u \in {u \in Listing :
                       \/ Readable(u) /\ Final(u) \in OnBase
                       \/ run[u].status = "done" /\ <<u, "ack">> \in OnBase}} \ {None}]]
    /\ UNCHANGED <<base, run, note, mishaps>>
Reading(q) == query' = q /\ UNCHANGED <<base, run, note, mishaps>>

\* (mutant: the record alone says that it landed)
RecordedSHA(r) == IF run[r].dir THEN run[r].acked ELSE None

\* The status is what says that the swap succeeded.
ackedLandedSHA(r) == IF run[r].dir /\ run[r].status = "done" THEN run[r].acked ELSE None

-----------------------------------------------------------------------------
(* sig log -sha.                                                             *)

Unknown == NoQuery.answer

MemberLanded(rep, b) == b \in rep.landed /\ landed(rep)

\* matchProvenance: the landing, what an ack landed, or a member's tip.
matchProvenance(rep, c) ==
    LET members == {b \in Branches : rep.tips[b] = c}
        role == CASE rep.final = c /\ landed(rep) ->
                       IF rep.unlands = 0 THEN "landed-commit" ELSE "unland-commit"
                  [] ~(rep.final = c /\ landed(rep)) /\ rep.acked = c -> "ack-landed-commit"
                  [] OTHER -> IF \E b \in members : MemberLanded(rep, b) THEN "member-landed"
                              ELSE IF members # {} THEN "member" ELSE "none"
    IN  [Unknown EXCEPT !.role = role, !.landed = role \notin {"member", "none"}]

AskSha == \E c \in Commits :
    /\ c \in OnBase \/ \E r \in Used : c \in Tips(r) \union {run[r].rep.final, run[r].acked}
    /\ Ask([NoQuery EXCEPT !.kind = "sha", !.at = "note", !.want = {c}])

Sha == CHOOSE c \in query.want : TRUE

\* resolveProvenance: the commit's note, if it is about that commit ...
ShaNote ==
    LET p == matchProvenance(note[Sha], Sha)
    IN  /\ query.kind = "sha" /\ query.at = "note"
        /\ IF note[Sha] # NoReport /\ p.role # "none"
           THEN Reading([query EXCEPT !.at = "end", !.answer = [p EXCEPT !.source = "note"]])
           ELSE Reading([query EXCEPT !.at = "walk", !.dirs = Listing])

\* ... else the run directories, newest first, an unland before what it took back.
ShaWalk ==
    LET r == Newest(query.dirs)
        rep == [run[r].rep EXCEPT !.acked = ackedLandedSHA(r)]
        took == IF landed(rep) /\ \A e \in query.unlanded : e[1] # rep.unlands
                THEN {<<rep.unlands, r>>} \ {<<0, r>>} ELSE {}
        p == matchProvenance(rep, Sha)
        by == {e[2] : e \in {e \in query.unlanded : e[1] = r}}
        rest == [query EXCEPT !.dirs = @ \ {r}]
    IN  /\ query.kind = "sha" /\ query.at = "walk" /\ query.dirs # {}
        /\ IF ~Readable(r) THEN Reading(rest)
           ELSE IF p.role = "none" THEN Reading([rest EXCEPT !.unlanded = @ \union took])
           ELSE Reading([rest EXCEPT !.at = "end", !.dirs = {},
                           !.answer = [p EXCEPT !.source = "manifest", !.run = r,
                                         !.by = IF by = {} THEN 0 ELSE Newest(by)]])

-----------------------------------------------------------------------------
(* sig log -release FROM..TO, and GET /log/release.                          *)

\* What this run landed in the range.
landedCommitsIn(rep, inRange) ==
    IF landed(rep)
    THEN inRange \intersect ({rep.final} \union {rep.tips[b] : b \in rep.landed}) ELSE {}

Rows == {query.rows[i] : i \in 1..Len(query.rows)}
Row(rep, by, keys) == [run |-> by, unlands |-> rep.unlands, final |-> rep.final, keys |-> keys,
                       covers |-> landedCommitsIn(rep, query.want)]

AskRelease == \E from, to \in 1..Len(base) :
    LET range == Reach(to) \ Reach(from)
    IN  /\ from < to
        /\ Ask([NoQuery EXCEPT !.kind = "release", !.at = "walk", !.want = range, !.open = range,
                               !.dirs = Listing])

\* (mutant: only a run that finished is expected to have a report)
IncompleteIfDone(r) == run[r].dir /\ ~run[r].filed /\ run[r].status = "done"

\* readLogRow, which looks for the report again: was one expected that is not there?  A
\* directory that vanished after the listing reads as an interrupted run.
incomplete(r) == ~run[r].dir \/ (~run[r].filed /\ run[r].status \in {"done", "interrupted"})

\* The ledger, oldest first: readRunReport ...
ReleaseWalk ==
    LET r == Oldest(query.dirs)
        rep == run[r].rep
        row == Row(rep, r, {<<"run", r>>, <<"landed", rep.final>>})
        rest == [query EXCEPT !.dirs = @ \ {r}]
    IN  /\ query.kind = "release" /\ query.at = "walk" /\ query.dirs # {}
        /\ Reading(IF ~Readable(r) THEN [query EXCEPT !.at = "row"]
                   ELSE IF row.covers = {} THEN rest
                   ELSE [rest EXCEPT !.rows = Append(@, row), !.open = @ \ row.covers])

\* ... and of a run without a report, readLogRow, whenever that comes: the run is
\* counted, and skipped, even if its report is there by now.
ReleaseRow ==
    LET r == Oldest(query.dirs)
    IN  /\ query.kind = "release" /\ query.at = "row"
        /\ Reading([query EXCEPT !.at = "walk", !.dirs = @ \ {r},
              !.torn = @ \union {x \in {r} : incomplete(x)},
              !.busy = @ \union {x \in {r} : run[x].dir /\ ~run[x].filed
                                              /\ run[x].status = "running"}])

ReleaseList ==
    /\ query.kind = "release" /\ query.at = "walk" /\ query.dirs = {}
    /\ Reading([query EXCEPT !.at = "notes", !.list = {c \in Commits : note[c] # NoReport}])

Key(rep) == IF rep.by # 0 THEN <<"run", rep.by>> ELSE <<"landed", rep.final>>

\* (mutant: a landing known by a note only is not remembered)
Unremembered(rep) == {}
Identity(rep) == {Key(rep)}

\* A note of a commit nobody claimed.  If the landing has a row already, only what
\* that landing landed; an acked commit has no row.
ReleaseNote == \E c \in query.list :
    LET rep == note[c]
        p == matchProvenance(rep, c)
        same == {row \in Rows : Key(rep) \in row.keys}
        rest == [query EXCEPT !.list = @ \ {c}]
    IN  /\ query.kind = "release" /\ query.at = "notes"
        /\ Reading(IF c \notin query.open \/ ~p.landed \/ p.role = "ack-landed-commit" THEN rest
                   ELSE IF same = {}
                   THEN [rest EXCEPT !.open = @ \ {c},
                                     !.rows = Append(@, Row(rep, rep.by, Identity(rep)))]
                   ELSE IF \E row \in same : c \in row.covers THEN [rest EXCEPT !.open = @ \ {c}]
                   ELSE rest)

-----------------------------------------------------------------------------
(* The board: one card, as if every run came from one intent.                *)

AskBoard == Ask([NoQuery EXCEPT !.kind = "board", !.at = "walk", !.dirs = Listing])

\* scanRuns, readLogRow: the status first ...
ReadStatus ==
    /\ query.kind = "board" /\ query.at = "walk" /\ query.dirs # {}
    /\ Reading([query EXCEPT !.at = "row",
                  !.status = IF run[Newest(query.dirs)].dir THEN run[Newest(query.dirs)].status
                             ELSE "interrupted"])

\* ... then the report, and landedSHA.
ReadRow ==
    LET r == Newest(query.dirs)
        sha == IF ~Readable(r) THEN None
               ELSE IF landed(run[r].rep) THEN run[r].rep.final ELSE ackedLandedSHA(r)
    IN  /\ query.kind = "board" /\ query.at = "row"
        /\ Reading([query EXCEPT !.at = "walk", !.dirs = @ \ {r},
                      !.cards = Append(@, [run |-> r, status |-> query.status, sha |-> sha])])

\* (mutant: the newest run alone decides)
NewestOnly(rows) ==
    IF rows = << >> THEN "open"
    ELSE IF rows[1].status = "awaiting-ack" THEN "awaiting-ack"
    ELSE IF rows[1].status = "running" THEN "running"
    ELSE IF rows[1].status = "done" /\ rows[1].sha # None THEN "landed" ELSE "attention"

boardColumn(rows) ==
    LET some(s) == \E i \in 1..Len(rows) : rows[i].status = s
    IN  IF rows = << >> THEN "open"
        ELSE IF some("awaiting-ack") THEN "awaiting-ack"
        ELSE IF some("running") THEN "running"
        ELSE IF rows[1].status = "done" /\ rows[1].sha # None THEN "landed" ELSE "attention"

-----------------------------------------------------------------------------
RunStep(r) == Begin(r) \/ Drive(r) \/ Unland(r) \/ Note(r) \/ File(r) \/ Finish(r)
              \/ AckRecord(r) \/ AckSwap(r) \/ AckMark(r) \/ AckNote(r) \/ Reject(r)
Read == \/ AskSha \/ ShaNote \/ ShaWalk
        \/ AskRelease \/ ReleaseWalk \/ ReleaseRow \/ ReleaseList \/ ReleaseNote
        \/ AskBoard \/ ReadStatus \/ ReadRow

Next == \/ \E r \in Runs : RunStep(r) \/ Kill(r) \/ Sweep(r) \/ Delete(r)
        \/ Copy \/ (\E x \in Pushes : Push(x)) \/ Read

Spec == Init /\ [][Next]_vars

-----------------------------------------------------------------------------
(* Properties.                                                               *)

\* Types: reports name commits, and the reader reads what there is.
TypeOK ==
    /\ mishaps \in 0..MaxMishaps
    /\ \A i \in 2..Len(base) : base[i].head \in Commits /\ base[i].tips \subseteq Commits
    /\ \A r \in Runs : /\ run[r].rep.final \in Commits \union {None, Root}
                       /\ run[r].acked \in Commits \union {None} /\ run[r].held \subseteq Branches
                       /\ run[r].rep.landed \subseteq Branches /\ run[r].rep.unlands \in 0..MaxRuns
    /\ \A c \in Commits : note[c] = NoReport \/ note[c].by \in Runs \union {0}
    /\ query.dirs \union query.torn \union query.busy \subseteq Used
    /\ query.want \union query.list \subseteq Commits /\ query.open \subseteq query.want

Answered == Over /\ query.kind = "sha" /\ query.answer.role # "none"
Document == Over /\ query.kind = "release"
Card     == Over /\ query.kind = "board"

\* Whoever is said to have landed a commit landed it, whoever is said to have taken a
\* run back landed that, and a row of a release claims only what its landing brought to
\* the base -- the runs apart whose swap was refused (see LandingsLanded).  (log.go
\* matchProvenance: "some members landed, others dropped"; "Only a LANDED unland counts")
ClaimsAreTrue ==
    /\ Answered /\ query.answer.landed =>
         \/ Sha \in OnBase
         \/ query.answer.run # 0 /\ run[query.answer.run].refused
    /\ Answered /\ query.answer.by # 0 =>
         /\ Final(query.answer.by) \in OnBase
         /\ run[query.answer.by].rep.unlands = query.answer.run
    /\ Document => \A row \in Rows :
         \/ run[row.final[1]].refused
         \/ \E k \in 1..Len(base) : base[k].head = row.final
              /\ row.covers \subseteq {base[k].head} \union base[k].tips

\* The same, refused swaps included (release.go:20: "a run claims a commit only if it
\* actually LANDED it").
LandingsLanded == Document => \A row \in Rows : row.final \in OnBase

\* An unattributed commit is no landing of a finished run whose report is there
\* (docs/USAGE.md:2923: "landed by a run whose ledger and note are both gone").
UnattributedIsUnclaimed ==
    Document => \A r \in query.known.settled :
        run[r].dir => {Final(r), run[r].acked} \intersect query.open = {}

\* A document that was read from several files while runs went on has a landing twice
\* only if two notes tell of it, one with and one without a run id, and its run
\* directory was not read: no other two of its rows are of one landing, or of one run
\* (release.go claimedRuns: "Claimed under BOTH identities a note might carry").
OnceEach ==
    Document => \A i, j \in 1..Len(query.rows) :
        i < j => LET a == query.rows[i]  b == query.rows[j]
                 IN  \/ a.final # b.final /\ (a.run = b.run => a.run = 0)
                     \/ {a.keys, b.keys} = {{<<"run", a.final[1]>>}, {<<"landed", a.final>>}}

\* No two rows of a document are of one landing (release.go: "One landing, one row";
\* "the landed sha is the fallback identity").
OneRowPerLanding ==
    Document => \A i, j \in 1..Len(query.rows) :
        i < j => query.rows[i].final # query.rows[j].final

\* What the note of the run's own landing says, when there is one.
Tells(n, r) == landed(n) /\ n.final = Final(r)

\* A run's own landing in the range that has no row belongs to a run that is counted
\* as incomplete, was still marked as running when it was read, or had no directory; or
\* no note tells of it, and the run filed its report while the question was being answered
\* (release.go: "it may be exactly the ledger behind a commit counted unattributed
\* below").
UnattributedExplained ==
    Document => \A r \in query.known.listed :
        Final(r) \in query.open =>
            \/ r \in query.torn \union query.busy
            \/ r \notin query.known.filed /\ run[r].filed /\ ~Tells(note[Final(r)], r)

\* A run's own landing in the range that has no row belongs to a run that is counted
\* as incomplete, was still marked as running when it was read, or had no directory:
\* never to one whose report was there before the document was (release.go: "Only a dir
\* where a report was genuinely expected counts").
NoneSeenInNeither ==
    Document => \A r \in query.known.listed :
        Final(r) \in query.open => r \in query.torn \union query.busy

\* -sha's answer on a commit that was taken back says so, and only then
\* (docs/USAGE.md:2247).
UnlandedByExact ==
    Answered /\ query.answer.source = "manifest" /\ query.answer.landed /\ Sha \in query.known.taken
        => query.answer.by # 0

\* A landed card landed, and a card never leaves out a park that waited all along
\* (board.go boardColumn: "a newer landing must not hide a park").
BoardTells ==
    Card => LET column == boardColumn(query.cards)
            IN  /\ column = "landed" => query.cards[1].sha \in OnBase
                /\ (\E r \in query.known.parked :
                      run[r].dir /\ run[r].status = "awaiting-ack") => column = "awaiting-ack"
=============================================================================
