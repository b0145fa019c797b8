-------------------------------- MODULE Park --------------------------------
(***************************************************************************)
(* The parking protocol of cmd/sig/park.go.  A run whose verified landing  *)
(* needs a human is PARKED: a record (park.json), a phase marker           *)
(* (status.json), and a keep-alive ref pinning the verified commit.  Any   *)
(* number of processes may then try to resolve the park at once:           *)
(*   - `sig ack` / POST /ack            (ackRun, ackReverify, refuseAck)   *)
(*   - `sig reject` / POST /reject      (rejectRun)                        *)
(*   - a reader's lazy timeout sweep    (enforceParkTimeout)               *)
(*   - `sig gc -delete [-force]`        (gcPlanFor, applyGC)               *)
(* Nothing but the file system and git's ref update is atomic between      *)
(* them, so each file operation that another process can see is an action  *)
(* of its own.  A process may be killed between any two of them.           *)
(*                                                                         *)
(* A commit is the sequence of landings that built it (see Landing); the   *)
(* landing an ack re-verifies is named after that ack, since it is a new   *)
(* commit object.  A branch set is one boolean: the branches of the parked *)
(* groups exist, or gc has deleted them.                                   *)
(***************************************************************************)
EXTENDS Integers, Sequences, FiniteSets

CONSTANTS Ackers,       \* calls of ackRun
          Rejecters,    \* calls of rejectRun
          Sweepers,     \* readers that run enforceParkTimeout, again and again
          Collectors,   \* runs of sig gc -delete
          Run,          \* the landing the parking run verified
          Foreign,      \* a landing by somebody else
          Root,         \* the base's history so far
          Nobody,       \* no approver, no lock holder
          MaxForeign,   \* bound: foreign landings in a behaviour
          Casts,        \* the sets of calls that may take part together
          Crashable,    \* the calls that may be killed
          Faulty,       \* those whose file or git operation may fail for another reason
          Blind,        \* acks whose pidAlive cannot tell live from dead (Windows)
          GcForce       \* sig gc may be called with -force

Resolvers == Ackers \union Rejecters \union Sweepers
Calls     == Resolvers \union Collectors
Landings  == Ackers \union {Run}
Steps     == Landings \union {Foreign}
Commits   == Seq(Steps \union {Root})
NoCommit  == << >>

ASSUME ParkAssumption ==
    /\ Foreign \notin Landings /\ Root \notin Landings
    /\ Ackers \intersect (Rejecters \union Sweepers \union Collectors) = {}
    /\ Rejecters \intersect (Sweepers \union Collectors) = {}
    /\ Sweepers \intersect Collectors = {}
    /\ Nobody \notin Calls
    /\ MaxForeign \in Nat
    /\ Casts \subseteq SUBSET Calls
    /\ Crashable \subseteq Calls /\ Faulty \subseteq Calls /\ Blind \subseteq Ackers
    /\ GcForce \in BOOLEAN

VARIABLES base,      \* refs/heads/<base>
          keep,      \* the keep-alive ref, NoCommit when deleted
          branches,  \* the parked branches still exist
          park,      \* park.json
          status,    \* status.json
          claim,     \* .park.claim
          lock,      \* .park.lock
          expired,   \* the ack-timeout deadline has passed
          green,     \* commits whose tree passed verify
          noted      \* commits carrying an acknowledgement note

VARIABLES pc,        \* where each call is
          at,        \* which claimPark section it is in
          tries,     \* claimPark's attempt counter
          mine,      \* its copy of park.json (raw / pk)
          cur,       \* the base head it read
          verdict,   \* att.VerifyOK
          number,    \* att.N
          doomed     \* what a gc plan will delete

files  == <<base, keep, branches, park, status, claim, lock, noted>>
locals == <<at, tries, mine, cur, verdict, number, doomed>>
vars   == <<base, keep, branches, park, status, claim, lock, expired, green,
            noted, pc, at, tries, mine, cur, verdict, number, doomed>>

-----------------------------------------------------------------------------
(* The parking record.  resolvedAt is a boolean: the record says resolved.  *)
(* A rejection leaves landedSHA empty; only the timeout always says why.    *)

Reasons == {"none", "human", "timeout"}

Records == [verifiedSHA : Commits, baseSHA : Commits, landedSHA : Commits,
            resolved : BOOLEAN, rejectReason : Reasons,
            approvedBy : Calls \union {Nobody}, attempts : Seq(Nat)]

parkRecord(b) == [verifiedSHA |-> Append(b, Run), baseSHA |-> b,
                  landedSHA |-> NoCommit, resolved |-> FALSE,
                  rejectReason |-> "none", approvedBy |-> Nobody,
                  attempts |-> <<1>>]

Claims == [owner : Calls \union {Nobody},
           section : {"none", "sweep", "reject", "direct", "reverify"},
           stale : BOOLEAN]

NoClaim == [owner |-> Nobody, section |-> "none", stale |-> FALSE]

\* diskRunStatus: an unresolved record outranks a phase marker that is neither
\* awaiting-ack nor terminal, so a crash before the marker loses no park.
diskRunStatus ==
    IF status = "running" /\ ~park.resolved THEN "awaiting-ack" ELSE status

Descends(b, a) == Len(a) <= Len(b) /\ \A i \in 1..Len(a) : b[i] = a[i]

Live(c)   == pc[c] \notin {"absent", "idle", "end", "crashed"}
Crashed(c) == c # Nobody /\ pc[c] = "crashed"

-----------------------------------------------------------------------------
Init ==
    /\ base = <<Root>>
    /\ park = parkRecord(base)
    /\ green = {park.verifiedSHA}
    /\ keep = park.verifiedSHA
    /\ branches = TRUE
    /\ status \in {"awaiting-ack", "running"}
    /\ claim = NoClaim
    /\ lock = Nobody
    /\ expired = FALSE
    /\ noted = {}
    /\ \E cast \in Casts : pc = [c \in Calls |-> IF c \in cast THEN "idle" ELSE "absent"]
    /\ at = [c \in Calls |-> "sweep"]
    /\ tries = [c \in Calls |-> 0]
    /\ mine = [c \in Calls |-> park]
    /\ cur = [c \in Calls |-> base]
    /\ verdict = [c \in Calls |-> FALSE]
    /\ number = [c \in Calls |-> 0]
    /\ doomed = [c \in Collectors |-> {}]

Goto(c, l) == pc' = [pc EXCEPT ![c] = l]

\* ackRun's deferred release: os.Remove by path, by whoever still thinks it
\* holds the lock.
Unlock(c) == lock' = IF c \in Ackers /\ at[c] = "direct" THEN Nobody ELSE lock

Section(c, s) == /\ at' = [at EXCEPT ![c] = s]
                 /\ tries' = [tries EXCEPT ![c] = 0]

\* Every front door sweeps first, then does what it was called for.
AfterSweep(c) ==
    \/ c \in Ackers /\ Goto(c, "lock") /\ UNCHANGED <<at, tries>>
    \/ c \in Rejecters /\ Goto(c, "create") /\ Section(c, "reject")
    \/ c \in Sweepers /\ Goto(c, "end") /\ UNCHANGED <<at, tries>>

\* What a call does when a claimPark section is over, won or not.
Leave(c) ==
    \/ at[c] = "sweep" /\ AfterSweep(c) /\ UNCHANGED lock
    \/ at[c] # "sweep" /\ Goto(c, "end") /\ Unlock(c) /\ UNCHANGED <<at, tries>>

-----------------------------------------------------------------------------
(* enforceParkTimeout, up to its claim.                                     *)

Start(c) ==
    /\ pc[c] = "idle" /\ c \in Resolvers
    /\ \/ diskRunStatus = "awaiting-ack" /\ Goto(c, "create") /\ Section(c, "sweep")
       \/ diskRunStatus # "awaiting-ack" /\ AfterSweep(c)
    /\ UNCHANGED <<files, expired, green, mine, cur, verdict, number, doomed>>

\* A reader looks again later (GET /runs/{id}, GET /inbox).
LookAgain(c) ==
    /\ pc[c] = "end" /\ c \in Sweepers
    /\ Goto(c, "idle")
    /\ at' = [at EXCEPT ![c] = "sweep"] /\ tries' = [tries EXCEPT ![c] = 0]
    /\ mine' = [mine EXCEPT ![c] = parkRecord(<<Root>>)]
    /\ UNCHANGED <<files, expired, green, cur, verdict, number, doomed>>

-----------------------------------------------------------------------------
(* claimPark, one action per system call.                                   *)

\* os.OpenFile(O_CREATE|O_EXCL)
Create(c) ==
    /\ pc[c] = "create"
    /\ \/ /\ claim = NoClaim
          /\ claim' = [owner |-> c, section |-> at[c], stale |-> FALSE]
          /\ Goto(c, "confirm")
       \/ claim # NoClaim /\ Goto(c, "exists") /\ UNCHANGED claim
    /\ UNCHANGED <<base, keep, branches, park, status, lock, expired, green, noted, locals>>

Owns(c) == claim.owner = c /\ claim.section = at[c]

\* The token on disk must still be ours.
Confirm(c) ==
    /\ pc[c] = "confirm"
    /\ \/ Owns(c) /\ Goto(c, "recheck") /\ UNCHANGED <<lock, at, tries>>
       \/ ~Owns(c) /\ Leave(c)
    /\ UNCHANGED <<base, keep, branches, park, status, claim, expired, green, noted,
                   mine, cur, verdict, number, doomed>>

\* The claim exists: is the park it guards already resolved?
Exists(c) ==
    /\ pc[c] = "exists"
    /\ Goto(c, IF park.resolved THEN "vestige" ELSE "stat")
    /\ UNCHANGED <<files, expired, green, locals>>

\* os.Remove of a claim taken for vestigial; errParkResolved.
Vestige(c) ==
    /\ pc[c] = "vestige"
    /\ claim' = NoClaim
    /\ Leave(c)
    /\ UNCHANGED <<base, keep, branches, park, status, expired, green, noted,
                   mine, cur, verdict, number, doomed>>

Retry(c) ==
    IF tries[c] < 2
    THEN tries' = [tries EXCEPT ![c] = @ + 1] /\ Goto(c, "create") /\ UNCHANGED <<at, lock>>
    ELSE Leave(c)

\* (mutant: a stale claim is never reclaimed)
StatNeverStale(c) ==
    /\ pc[c] = "stat"
    /\ \/ claim = NoClaim /\ Retry(c)
       \/ claim # NoClaim /\ Leave(c)
    /\ UNCHANGED <<base, keep, branches, park, status, claim, expired, green, noted,
                   mine, cur, verdict, number, doomed>>

\* os.Stat: vanished (retry), young (busy), or older than parkClaimStale.
Stat(c) ==
    /\ pc[c] = "stat"
    /\ \/ claim = NoClaim /\ Retry(c)
       \/ claim # NoClaim /\ ~claim.stale /\ Leave(c)
       \/ claim.stale /\ Goto(c, "steal") /\ UNCHANGED <<at, tries, lock>>
    /\ UNCHANGED <<base, keep, branches, park, status, claim, expired, green, noted,
                   mine, cur, verdict, number, doomed>>

\* os.Remove of a claim judged stale, by path.
Steal(c) ==
    /\ pc[c] = "steal"
    /\ claim' = NoClaim
    /\ Retry(c)
    /\ UNCHANGED <<base, keep, branches, park, status, expired, green, noted,
                   mine, cur, verdict, number, doomed>>

\* The deferred release: os.Remove by path, whoever owns the file by now.
Unclaim(c) ==
    /\ pc[c] = "unclaim"
    /\ claim' = NoClaim
    /\ Leave(c)
    /\ UNCHANGED <<base, keep, branches, park, status, expired, green, noted,
                   mine, cur, verdict, number, doomed>>

-----------------------------------------------------------------------------
(* Under the claim: recheckResolvable, then the caller's own checks.        *)

\* (mutant: no recheck under the claim)
ResolvableUnchecked == park.verifiedSHA # NoCommit

Resolvable == diskRunStatus = "awaiting-ack" /\ ~park.resolved

\* validateParkedLanding: the commit still resolves (certain only while a ref
\* pins it; git may or may not have pruned it otherwise), and descends from the
\* base the record names.
Pinned(s)    == keep = s \/ Descends(base, s)
OnItsBase    == Descends(park.verifiedSHA, park.baseSHA)

AfterRecheck(c) ==
    CASE at[c] = "sweep"                     -> IF expired THEN "compare" ELSE "unclaim"
      [] at[c] = "reject"                    -> "compare"
      [] at[c] = "direct"                    -> "compare"
      [] at[c] = "reverify" /\ verdict[c]    -> "pin"
      [] at[c] = "reverify" /\ ~verdict[c]   -> "compare"

Recheck(c) ==
    /\ pc[c] = "recheck"
    /\ \/ /\ Resolvable
          /\ at[c] = "direct" => OnItsBase
          /\ mine' = [mine EXCEPT ![c] = park]
          /\ Goto(c, AfterRecheck(c))
       \/ /\ \/ ~Resolvable
             \/ at[c] = "direct" /\ ~Pinned(park.verifiedSHA)
             \/ at[c] = "direct" /\ ~OnItsBase
          /\ Goto(c, "unclaim")
          /\ UNCHANGED mine
    /\ UNCHANGED <<files, expired, green, at, tries, cur, verdict, number, doomed>>

-----------------------------------------------------------------------------
(* writeParkCAS: the compare and the rename are two steps.                  *)

resolution(c) ==
    LET r    == mine[c]
        next == Append(cur[c], c)
    IN  CASE at[c] = "sweep"    -> [r EXCEPT !.resolved = TRUE, !.rejectReason = "timeout"]
          [] at[c] = "reject"   -> [r EXCEPT !.resolved = TRUE, !.rejectReason = "human",
                                             !.approvedBy = c]
          [] at[c] = "direct"   -> [r EXCEPT !.resolved = TRUE, !.landedSHA = r.verifiedSHA,
                                             !.approvedBy = c]
          [] at[c] = "reverify" ->
               IF verdict[c]
               THEN [r EXCEPT !.resolved = TRUE, !.landedSHA = next, !.verifiedSHA = next,
                              !.baseSHA = cur[c], !.approvedBy = c,
                              !.attempts = Append(@, number[c])]
               ELSE [r EXCEPT !.attempts = Append(@, number[c])]

Compare(c) ==
    /\ pc[c] = "compare"
    /\ Goto(c, IF park = mine[c] THEN "write" ELSE "unclaim")
    /\ UNCHANGED <<files, expired, green, locals>>

\* What a resolver does once its record is on disk: a landing moves the ref, a
\* rejection or a red attempt records its phase.
Write(c) ==
    /\ pc[c] = "write"
    /\ park' = resolution(c)
    /\ mine' = [mine EXCEPT ![c] = resolution(c)]
    /\ Goto(c, IF resolution(c).landedSHA # NoCommit THEN "swap" ELSE "phase")
    /\ UNCHANGED <<base, keep, branches, status, claim, lock, noted, expired, green,
                   at, tries, cur, verdict, number, doomed>>

\* writeRunStatus: done, rejected, or (a red attempt) still awaiting-ack.
Phase(c) ==
    /\ pc[c] = "phase"
    /\ \/ mine[c].landedSHA # NoCommit /\ status' = "done" /\ Goto(c, "note")
       \/ /\ mine[c].landedSHA = NoCommit /\ mine[c].resolved
          /\ status' = "rejected" /\ Goto(c, "unpin")
       \/ ~mine[c].resolved /\ status' = "awaiting-ack" /\ Goto(c, "unclaim")
    /\ UNCHANGED <<base, keep, branches, park, claim, lock, noted, expired, green, locals>>

\* attachAckNote.
Note(c) ==
    /\ pc[c] = "note"
    /\ noted' = noted \union {mine[c].landedSHA}
    /\ Goto(c, "unpin")
    /\ UNCHANGED <<base, keep, branches, park, status, claim, lock, expired, green, locals>>

\* releaseParkRef.
Unpin(c) ==
    /\ pc[c] = "unpin"
    /\ keep' = NoCommit
    /\ Goto(c, "unclaim")
    /\ UNCHANGED <<base, branches, park, status, claim, lock, noted, expired, green, locals>>

-----------------------------------------------------------------------------
(* ackRun and ackReverify.                                                  *)

\* lockParkFile: free, or its holder's pid is dead (or unreadable as alive).
Lock(c) ==
    /\ pc[c] = "lock"
    /\ \/ /\ lock = Nobody \/ Crashed(lock) \/ c \in Blind
          /\ lock' = c
          /\ Goto(c, "look")
       \/ /\ lock # Nobody /\ c \notin Blind /\ ~Crashed(lock)
          /\ Goto(c, "end")
          /\ UNCHANGED lock
    /\ UNCHANGED <<base, keep, branches, park, status, claim, noted, expired, green, locals>>

\* The status gate, the record, and the base head.  A moved base releases the
\* lock and goes off to verify; an unmoved one goes on to claim.
Look(c) ==
    /\ pc[c] = "look"
    /\ \/ /\ diskRunStatus # "awaiting-ack"
          /\ Goto(c, "end") /\ lock' = Nobody
          /\ UNCHANGED <<at, tries, mine, cur>>
       \/ /\ diskRunStatus = "awaiting-ack"
          /\ mine' = [mine EXCEPT ![c] = park]
          /\ cur' = [cur EXCEPT ![c] = base]
          /\ \/ /\ base = park.baseSHA
                /\ Section(c, "direct") /\ Goto(c, "create")
                /\ UNCHANGED lock
             \/ /\ base # park.baseSHA
                /\ Section(c, "reverify") /\ Goto(c, "verify")
                /\ lock' = Nobody
    /\ UNCHANGED <<base, keep, branches, park, status, claim, noted, expired, green,
                   verdict, number, doomed>>

\* integrateVerifyPark onto the head read by Look, under the policy at that
\* head.  A missing branch, a conflict, a policy error or a red verify all give
\* a failed attempt; the attempt takes its number from the record read by Look.
Verify(c) ==
    /\ pc[c] = "verify"
    /\ number' = [number EXCEPT ![c] = Len(mine[c].attempts) + 1]
    /\ \/ /\ branches
          /\ verdict' = [verdict EXCEPT ![c] = TRUE]
          /\ green' = green \union {Append(cur[c], c)}
       \/ verdict' = [verdict EXCEPT ![c] = FALSE] /\ UNCHANGED green
    /\ Goto(c, "create")
    /\ UNCHANGED <<files, expired, at, tries, mine, cur, doomed>>

\* The keep-alive ref moves to the re-verified commit before the record does.
Pin(c) ==
    /\ pc[c] = "pin"
    /\ keep' = Append(cur[c], c)
    /\ Goto(c, "compare")
    /\ UNCHANGED <<base, branches, park, status, claim, lock, noted, expired, green, locals>>

\* (mutant: a plain write of the ref)
SwapUnconditional(c) ==
    /\ pc[c] = "swap"
    /\ base' = mine[c].landedSHA
    /\ Goto(c, "phase")
    /\ UNCHANGED <<keep, branches, park, status, claim, lock, noted, expired, green, locals>>

\* (mutant: a landing taken for a lost swap)
SwapAlwaysRefused(c) ==
    /\ pc[c] = "swap"
    /\ base' = IF base = mine[c].baseSHA THEN mine[c].landedSHA ELSE base
    /\ Goto(c, "refuse")
    /\ UNCHANGED <<keep, branches, park, status, claim, lock, noted, expired, green, locals>>

\* landRef: a compare-and-swap on the base the landing was computed against.
Swap(c) ==
    /\ pc[c] = "swap"
    /\ \/ /\ base = mine[c].baseSHA
          /\ base' = mine[c].landedSHA
          /\ Goto(c, "phase")
       \/ /\ base # mine[c].baseSHA
          /\ Goto(c, "refuse")
          /\ UNCHANGED base
    /\ UNCHANGED <<keep, branches, park, status, claim, lock, noted, expired, green, locals>>

\* refuseAck re-reads the record: still this call's resolution?
Refuse(c) ==
    /\ pc[c] = "refuse"
    /\ \/ /\ park.resolved /\ park.landedSHA = mine[c].landedSHA
          /\ mine' = [mine EXCEPT ![c] = park]
          /\ Goto(c, "rewind")
       \/ /\ ~(park.resolved /\ park.landedSHA = mine[c].landedSHA)
          /\ Goto(c, "unclaim")
          /\ UNCHANGED mine
    /\ UNCHANGED <<files, expired, green, at, tries, cur, verdict, number, doomed>>

\* refuseAck takes the landing back; approvedBy stays as it was.
rewound(r) == [r EXCEPT !.landedSHA = NoCommit, !.resolved = FALSE]

Rewind(c) ==
    /\ pc[c] = "rewind"
    /\ park' = rewound(mine[c])
    /\ mine' = [mine EXCEPT ![c] = rewound(mine[c])]
    /\ Goto(c, "phase")
    /\ UNCHANGED <<base, keep, branches, status, claim, lock, noted, expired, green,
                   at, tries, cur, verdict, number, doomed>>

-----------------------------------------------------------------------------
(* sig gc: a plan computed from what the files say, then carried out.       *)

\* loadParkedBranches protects an open park's branches absolutely;
\* loadProtectedBranches protects an unfinished run's unless -force.
\* strandedParkRefs takes a resolved park's keep-alive ref.
\* (mutant: the parking record is not consulted)
gcPlanForgetsParks(force) ==
    (IF force \/ status \in {"awaiting-ack", "done", "rejected"} THEN {"branches"} ELSE {})
    \union {"keep"}

gcPlanFor(force) ==
    IF ~park.resolved THEN {}
    ELSE {"keep"} \union (IF status \in {"done", "rejected"} THEN {"branches"}
                          ELSE IF force THEN {"branches", "forced"} ELSE {})

Plan(c) ==
    /\ pc[c] = "idle" /\ c \in Collectors
    /\ \E force \in {FALSE, GcForce} : doomed' = [doomed EXCEPT ![c] = gcPlanFor(force)]
    /\ Goto(c, "apply")
    /\ UNCHANGED <<files, expired, green, at, tries, mine, cur, verdict, number>>

applyGC(c) ==
    /\ pc[c] = "apply"
    /\ branches' = (branches /\ "branches" \notin doomed[c])
    /\ keep' = IF "keep" \in doomed[c] THEN NoCommit ELSE keep
    /\ Goto(c, "end")
    /\ UNCHANGED <<base, park, status, claim, lock, noted, expired, green, locals>>

-----------------------------------------------------------------------------
(* The environment.                                                         *)

\* A git or file operation fails for a reason that is not a moved ref: the call
\* returns its error, releasing its claim and nothing else.
Fail(c) ==
    /\ c \in Faulty
    /\ pc[c] \in {"pin", "compare", "write", "swap", "rewind"}
    /\ Goto(c, "unclaim")
    /\ UNCHANGED <<files, expired, green, locals>>

\* kill -9: the call stops where it stands, the files stay.
Crash(c) ==
    /\ c \in Crashable /\ Live(c)
    /\ Goto(c, "crashed")
    /\ UNCHANGED <<files, expired, green, locals>>

\* A dead holder's claim outlives parkClaimStale.  A live holder never holds one
\* that long: a claim covers a few local file and git calls.
Age ==
    /\ Crashed(claim.owner) /\ ~claim.stale
    /\ claim' = [claim EXCEPT !.stale = TRUE]
    /\ UNCHANGED <<base, keep, branches, park, status, lock, noted, expired, green,
                   pc, locals>>

Expire ==
    /\ ~expired /\ expired' = TRUE
    /\ UNCHANGED <<files, green, pc, locals>>

ForeignLand ==
    /\ Len(SelectSeq(base, LAMBDA x : x = Foreign)) < MaxForeign
    /\ base' = Append(base, Foreign)
    /\ UNCHANGED <<keep, branches, park, status, claim, lock, noted, expired, green,
                   pc, locals>>

-----------------------------------------------------------------------------
ClaimStep(c)   == Create(c) \/ Confirm(c) \/ Exists(c) \/ Vestige(c) \/ Stat(c)
                  \/ Steal(c) \/ Unclaim(c)
RecordStep(c)  == Recheck(c) \/ Compare(c) \/ Write(c) \/ Phase(c) \/ Note(c) \/ Unpin(c)
AckStep(c)     == Lock(c) \/ Look(c) \/ Verify(c) \/ Pin(c) \/ Swap(c) \/ Refuse(c)
                  \/ Rewind(c)
ResolverStep(c) == Start(c) \/ ClaimStep(c) \/ RecordStep(c) \/ AckStep(c)

Next == \/ \E c \in Resolvers : ResolverStep(c) \/ LookAgain(c) \/ Fail(c)
        \/ \E c \in Collectors : Plan(c) \/ applyGC(c)
        \/ \E c \in Calls : Crash(c)
        \/ Age \/ Expire \/ ForeignLand

Spec == Init /\ [][Next]_vars

\* A call that is not killed runs to its end, somebody keeps looking at the run,
\* and time passes.
Fairness == /\ \A c \in Resolvers : WF_vars(ResolverStep(c)) /\ WF_vars(LookAgain(c))
            /\ WF_vars(Age)

FairSpec == Spec /\ Fairness

-----------------------------------------------------------------------------
(* Properties.                                                              *)

\* Files, records and calls keep their types; a claimPark section makes at most three
\* attempts (tries), an attempt number is a natural number.
TypeOK ==
    /\ base \in Commits /\ keep \in Commits
    /\ branches \in BOOLEAN /\ expired \in BOOLEAN
    /\ park \in Records
    /\ status \in {"running", "awaiting-ack", "done", "rejected"}
    /\ claim \in Claims
    /\ lock \in Calls \union {Nobody}
    /\ green \in SUBSET Commits /\ noted \in SUBSET Commits
    /\ pc \in [Calls -> {"absent", "idle", "create", "confirm", "exists", "vestige", "stat",
                        "steal", "recheck", "compare", "write", "phase", "note",
                        "unpin", "unclaim", "lock", "look", "verify", "pin", "swap",
                        "refuse", "rewind", "apply", "end", "crashed"}]
    /\ at \in [Calls -> {"sweep", "reject", "direct", "reverify"}]
    /\ tries \in [Calls -> 0..2]
    /\ mine \in [Calls -> Records]
    /\ cur \in [Calls -> Commits]
    /\ verdict \in [Calls -> BOOLEAN]
    /\ number \in [Calls -> Nat]
    /\ doomed \in [Collectors -> SUBSET {"branches", "keep", "forced"}]

\* Whatever races, crashes or steals happen, the base only ever gains one landing
\* on top of the head it held, and what an ack puts there is a commit whose own
\* tree passed verify on exactly that head (park.go ackRun, ackReverify: nothing
\* landed by anyone is ever reset away).
LandsOnlyVerified ==
    [][base' # base => \E x \in Steps : /\ base' = Append(base, x)
                                        /\ (x # Foreign => base' \in green)]_vars

ParkLandings == {i \in 1..Len(base) : base[i] \in Landings}

\* Two acks at once, one of them killed or failing anywhere, land a parked change at
\* most once (park_test.go TestConcurrentAcksLandExactlyOnce).  Four acks can land it
\* twice, when one of them takes a lost landing back (README, section 5).
LandsAtMostOnce == Cardinality(ParkLandings) <= 1

\* `sig reject` (or a timeout) that told its caller "rejected" is final: nothing
\* of the park is on the base.  One ack at a time against rejections, readers that
\* time it out, and kills: two acks and a reject break it, and so do two calls that
\* both take over the claim of a killed one (README, section 5).
RejectedNeverLands == status = "rejected" => ParkLandings = {}

\* What an ack needs is there while a park is open: its branches, the only copy of the
\* work, and, if the next ack would land it directly, the pin that keeps git from
\* collecting its commit.  One exception: a gc -force that planned while an ack had the
\* record resolved may take the branches after that ack lost its swap, so only of a
\* park whose base has moved (park.go loadParkedBranches, strandedParkRefs; gc.go).
OpenParkIsKept ==
    ~park.resolved =>
        /\ branches \/ /\ base # park.baseSHA
                       /\ \E g \in Collectors : "forced" \in doomed[g]
        /\ base = park.baseSHA => keep = park.verifiedSHA

\* As loadParkedBranches has it: "UNCONDITIONAL: a parked branch is the only copy of a
\* verified landing that has not landed yet, so no age cutoff and no -force may sweep
\* it."  It may, in the exception above.
ParkedBranchesKept == ~park.resolved => branches

\* Once its deadline has passed a park that somebody looks at does not stay open,
\* even when the call that was resolving it is killed: the claim it left goes stale
\* and is stolen.
Watched == \E c \in Sweepers : pc[c] # "absent"
ExpiredParkResolves == (expired /\ Watched) ~> park.resolved

\* The base ref as every landing path promises it (module Landing).
Base == INSTANCE Landing WITH Landings <- Landings, Foreign <- Foreign, Root <- Root,
                              base <- base, green <- green
LandingSpec == Base!Spec
=============================================================================
