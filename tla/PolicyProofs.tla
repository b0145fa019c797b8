---------------------------- MODULE PolicyProofs ----------------------------
(***************************************************************************)
(* What the landing policy guarantees for any policies, package graphs,    *)
(* verify commands and requests, however many runs, acks and pushes race   *)
(* and whatever the verify cache holds: nothing that needs an ack lands    *)
(* without one, what lands was judged in full, and what -verify-impact     *)
(* left out did not change.                                                *)
(***************************************************************************)
EXTENDS Policy, TLAPS

States == {"idle", "agents", "verify", "repair", "land", "park", "parking", "parked",
           "reverify", "end"}

(* A commit that was the head: it still is unless the base's number grew.    *)
PinOK(c) == c \in Commits /\ c.id <= base.id /\ (c.id = base.id => c = base)

(* The policy that a run's memory was resolved under, and how.               *)
Judged(r, m) == /\ PinOK(m.pin)
                /\ acceptable(policyOf(m.pin.tree), Flags[r], Branches)
                /\ m.eff = resolvePolicy(policyOf(m.pin.tree), Flags[r])

(* A candidate differs from its base on counted paths only, and none of      *)
(* those needs an ack.                                                       *)
Clear(m) == /\ m.cand \in Trees /\ m.changed \subseteq Paths
            /\ \A p \in Paths \ m.changed : m.cand[p] = m.pin.tree[p]
            /\ HoldReason(m.changed, policyOf(m.pin.tree)) = "none"

Worked(m) == m = [pin |-> m.pin, eff |-> m.eff, cand |-> m.cand, held |-> m.held,
                  changes |-> m.changes, clear |-> m.clear, changed |-> m.changed,
                  tries |-> m.tries, scope |-> m.scope, verdict |-> m.verdict]

Passed(m) == m.eff.verify # {} => m.verdict = Verdict(m, m.scope, TRUE)

Scope(m) == \/ m.scope = Full
            \/ /\ m.eff.impact /\ m.changed \subseteq Packages
               /\ m.scope = Scoped(m.changed)

(* A candidate that is to be acked, or was: under the policy of the base it   *)
(* was computed on, by the whole battery.                                    *)
Battery(r, m) ==
    /\ PinOK(m.pin) /\ m.cand \in Trees /\ m.scope = Full
    /\ policyOf(m.pin.tree).valid
    /\ m.eff.verify = policyOf(m.pin.tree).verify \union Flags[r].verify
    /\ policyOf(m.pin.tree).strict => m.eff.strict
    /\ m = [pin |-> m.pin, eff |-> m.eff, cand |-> m.cand, held |-> m.held,
            changes |-> m.changes, scope |-> m.scope, verdict |-> m.verdict]

RunOK(r) ==
    /\ pc[r] \in {"agents", "verify", "repair", "land", "park"} => Judged(r, mem[r])
    /\ pc[r] = "agents" => mem[r].cand = mem[r].pin.tree
    /\ pc[r] \in {"verify", "repair", "land"} => Worked(mem[r]) /\ Clear(mem[r])
    /\ pc[r] = "land" => Passed(mem[r]) /\ Scope(mem[r])
    /\ pc[r] \in {"parking", "reverify"} => Battery(r, mem[r])
    /\ pc[r] \in {"parked", "reverify"} => Battery(r, parked[r]) /\ Passed(parked[r])

(* A remembered verdict is a green one on the tree and the command, with the  *)
(* packages, that it is filed under.                                         *)
CacheOK == \A e \in cache : \E t, c, s :
    e = [key |-> <<t, c, s>>,
         verdict |-> [tree |-> t, command |-> c, scope |-> s, ok |-> TRUE]]

Types == /\ base \in Commits
         /\ pc \in [Runs -> States]
         /\ mem = [r \in Runs |-> mem[r]] /\ parked = [r \in Runs |-> parked[r]]

IInv == Types /\ CacheOK /\ \A r \in Runs : RunOK(r)

-----------------------------------------------------------------------------
(* Trees.                                                                    *)

LEMMA EditedType ==
    ASSUME NEW t \in Trees, NEW n, NEW ch \in Edits(t, n)
    PROVE  Edited(t, ch) \in Trees /\ DOMAIN ch \subseteq Paths
  <1>1. PICK S \in SUBSET Paths :
          /\ ch \in [S -> Contents \union Texts]
          /\ \A p \in S : ch[p] \in IF p = PolicyFile THEN Texts ELSE Contents
    BY DEF Edits
  <1>2. DOMAIN ch = S
    BY <1>1
  <1>3. \A p \in Paths : Edited(t, ch)[p] = IF p \in S THEN ch[p] ELSE t[p]
    BY <1>2 DEF Edited
  <1>4. Edited(t, ch) \in [Paths -> Contents \union Texts]
    BY <1>1, <1>2 DEF Edited, Trees
  <1>5. Edited(t, ch)[PolicyFile] \in Texts
    BY <1>1, <1>3 DEF Trees, Paths
  <1>6. \A p \in Packages : Edited(t, ch)[p] \in Contents
    BY <1>1, <1>3, PolicyAssumption DEF Trees, Paths
  <1> QED
    BY <1>1, <1>2, <1>4, <1>5, <1>6 DEF Trees

LEMMA OwnGroup == ASSUME NEW ch, NEW b \in Branches PROVE b \in groupOf(ch, b)
  BY DEF groupOf

(* What is not held back needs no ack.                                       *)
LEMMA ClearBranches ==
    ASSUME NEW ch, NEW pol,
           \A b \in Branches : DOMAIN ch[b] \subseteq Paths
    PROVE  LET w == writes(ch, Branches \ policyHoldback(ch, pol))
           IN  w \subseteq Paths /\ HoldReason(w, pol) = "none"
  <1> DEFINE h == policyHoldback(ch, pol)
             w == writes(ch, Branches \ h)
  <1>1. \A b \in Branches \ h : HoldReason(DOMAIN ch[b], pol) = "none"
    BY OwnGroup DEF policyHoldback
  <1>2. \A b \in Branches \ h : PolicyFile \notin DOMAIN ch[b] /\ DOMAIN ch[b] \intersect pol.ack = {}
    BY <1>1 DEF HoldReason
  <1>3. \A p \in w : \E b \in Branches \ h : p \in DOMAIN ch[b]
    BY DEF writes
  <1> HIDE DEF h, w
  <1>4. PolicyFile \notin w /\ w \intersect pol.ack = {}
    BY <1>2, <1>3
  <1>5. w \subseteq Paths
    BY <1>3
  <1> QED
    BY <1>4, <1>5 DEF HoldReason, h, w

LEMMA FewerPaths ==
    ASSUME NEW S, NEW T, T \subseteq S, NEW pol, HoldReason(S, pol) = "none"
    PROVE  HoldReason(T, pol) = "none"
  BY DEF HoldReason

LEMMA ImpactGrows ==
    ASSUME NEW S, NEW T, T \subseteq S PROVE impactedPackages(T) \subseteq impactedPackages(S)
  BY DEF impactedPackages

-----------------------------------------------------------------------------
(* The verify cache.                                                         *)

LEMMA PassMeans ==
    ASSUME CacheOK, NEW m, NEW sc, NEW v, Pass(m, sc, v)
    PROVE  v = Verdict(m, sc, TRUE) /\ CacheOK'
  <1>1. CASE entry(m, sc, v) \in cache /\ UNCHANGED cache
    <2>1. PICK t, c, s : entry(m, sc, v) =
            [key |-> <<t, c, s>>,
             verdict |-> [tree |-> t, command |-> c, scope |-> s, ok |-> TRUE]]
      BY <1>1 DEF CacheOK
    <2>2. /\ entry(m, sc, v).key = <<t, c, s>>
          /\ entry(m, sc, v).verdict = [tree |-> t, command |-> c, scope |-> s, ok |-> TRUE]
      BY <2>1
    <2>3. /\ entry(m, sc, v).verdict = v
          /\ entry(m, sc, v).key = <<m.cand, Command(m.eff.verify, sc), sc>>
      BY DEF entry, verifyCacheKey
    <2>4. t = m.cand /\ c = Command(m.eff.verify, sc) /\ s = sc
      BY <2>2, <2>3
    <2> QED
      BY <1>1, <2>2, <2>3, <2>4 DEF Verdict, CacheOK
  <1>2. CASE v = Verdict(m, sc, TRUE) /\ store(m, sc, v)
    <2>1. entry(m, sc, v) = [key |-> <<m.cand, Command(m.eff.verify, sc), sc>>,
             verdict |-> [tree |-> m.cand, command |-> Command(m.eff.verify, sc),
                          scope |-> sc, ok |-> TRUE]]
      BY <1>2 DEF entry, verifyCacheKey, Verdict
    <2>2. cache' \subseteq cache \union {entry(m, sc, v)}
      BY <1>2 DEF store
    <2> HIDE DEF CacheOK
    <2>3. \A e \in cache' : \E t, c, s :
            e = [key |-> <<t, c, s>>,
                 verdict |-> [tree |-> t, command |-> c, scope |-> s, ok |-> TRUE]]
      BY <2>1, <2>2 DEF CacheOK
    <2> QED
      BY <1>2, <2>3 DEF CacheOK
  <1> QED
    BY <1>1, <1>2 DEF Pass

LEMMA PassFullMeans ==
    ASSUME CacheOK, NEW r, NEW v, PassFull(r, v)
    PROVE  /\ CacheOK'
           /\ mem[r].eff.verify # {} => v = Verdict(mem[r], Full, TRUE)
  BY PassMeans DEF PassFull, CacheOK

-----------------------------------------------------------------------------
(* Steps.                                                                    *)

(* The base's number only grows, so what was true of a pin stays so.         *)
Moves == base' \in Commits /\ (UNCHANGED base \/ base'.id = base.id + 1)

LEMMA PinStays == ASSUME base \in Commits, Moves, NEW c, PinOK(c)
                  PROVE  PinOK(c)'
  <1>1. c.id \in Nat /\ base.id \in Nat
    BY DEF PinOK, Commits
  <1>2. c.id <= base'.id /\ (c.id = base'.id => c = base')
    BY <1>1 DEF PinOK, Moves
  <1> QED
    BY <1>2 DEF PinOK, Commits

LEMMA OthersStay ==
    ASSUME IInv, Moves, NEW q \in Runs, pc'[q] = pc[q], mem'[q] = mem[q], parked'[q] = parked[q]
    PROVE  RunOK(q)'
  <1>1. RunOK(q) /\ base \in Commits
    BY DEF IInv, Types
  <1>4. /\ pc[q] \in {"agents", "verify", "repair", "land", "park"} => Judged(q, mem[q])'
        /\ pc[q] \in {"parking", "reverify"} => Battery(q, mem[q])'
        /\ pc[q] \in {"parked", "reverify"} => Battery(q, parked[q])'
    <2>1. \A m : Judged(q, m) => PinOK(m.pin)'
      BY <1>1, PinStays DEF Judged
    <2>2. \A m : Battery(q, m) => PinOK(m.pin)'
      BY <1>1, PinStays DEF Battery
    <2> QED
      BY <1>1, <2>1, <2>2 DEF RunOK, Judged, Battery, PinOK
  <1> QED
    BY <1>1, <1>4 DEF RunOK, Worked, Clear, Passed, Scope

(* A step of one run.                                                        *)
LEMMA OneSteps ==
    ASSUME IInv, Moves, CacheOK', NEW r \in Runs, RunOK(r)',
           NEW l \in States, pc' = [pc EXCEPT ![r] = l],
           NEW m, mem' = [mem EXCEPT ![r] = m],
           NEW k, parked' = [parked EXCEPT ![r] = k]
    PROVE  IInv'
  <1>1. ASSUME NEW q \in Runs, q # r
        PROVE  pc'[q] = pc[q] /\ mem'[q] = mem[q] /\ parked'[q] = parked[q]
    BY <1>1 DEF IInv, Types
  <1>2. Types'
    BY DEF IInv, Types, Moves
  <1> QED
    BY <1>1, <1>2, OthersStay DEF IInv

LEMMA Initially == Init => IInv
  <1> SUFFICES ASSUME Init PROVE IInv
    OBVIOUS
  <1>1. Types
    BY DEF Init, Types, States, Commits
  <1>2. CacheOK /\ \A r \in Runs : RunOK(r)
    BY DEF Init, CacheOK, RunOK
  <1> QED
    BY <1>1, <1>2 DEF IInv

LEMMA SameMem ==
    ASSUME IInv, NEW r \in Runs
    PROVE  /\ UNCHANGED mem => mem' = [mem EXCEPT ![r] = mem[r]]
           /\ UNCHANGED parked => parked' = [parked EXCEPT ![r] = parked[r]]
  BY DEF IInv, Types

(* A run that ends, or waits parked on what it parked before.                *)
LEMMA EndsOK ==
    ASSUME IInv, Moves, CacheOK', NEW r \in Runs, UNCHANGED parked,
           NEW m, mem' = [mem EXCEPT ![r] = m],
           \/ pc' = [pc EXCEPT ![r] = "end"]
           \/ pc' = [pc EXCEPT ![r] = "parked"] /\ pc[r] = "reverify"
    PROVE  IInv'
  <1>1. CASE pc' = [pc EXCEPT ![r] = "end"]
    <2>1. RunOK(r)'
      BY <1>1 DEF RunOK, IInv, Types
    <2> QED
      BY <1>1, <2>1, SameMem, OneSteps DEF States
  <1>2. CASE pc' = [pc EXCEPT ![r] = "parked"] /\ pc[r] = "reverify"
    <2>1. Battery(r, parked[r]) /\ Passed(parked[r]) /\ pc'[r] = "parked"
      BY <1>2 DEF RunOK, IInv, Types
    <2>2. PinOK(parked[r].pin)'
      BY <2>1, PinStays DEF Battery, IInv, Types
    <2>3. RunOK(r)'
      BY <2>1, <2>2 DEF RunOK, Battery, Passed, PinOK
    <2> QED
      BY <1>2, <2>3, SameMem, OneSteps DEF States
  <1> QED
    BY <1>1, <1>2

LEMMA NoMove == ASSUME IInv, UNCHANGED <<base, cache>> PROVE Moves /\ CacheOK'
  BY DEF IInv, Types, Moves, CacheOK

LEMMA BeginStep == ASSUME IInv, NEW r \in Runs, Begin(r) PROVE IInv'
  <1> DEFINE pol == policyOf(base.tree)
             e == resolvePolicy(pol, Flags[r])
  <1>0. PICK m : m = [pin |-> base, eff |-> e, held |-> {}, cand |-> base.tree]
    OBVIOUS
  <1>1. Moves /\ CacheOK' /\ UNCHANGED <<base, parked>>
    BY NoMove DEF Begin
  <1>2. CASE /\ acceptable(pol, Flags[r], Branches)
             /\ pc' = [pc EXCEPT ![r] = "agents"] /\ mem' = [mem EXCEPT ![r] = m]
    <2>1. pc'[r] = "agents" /\ mem'[r] = m
      BY <1>2 DEF IInv, Types
    <2>2. m.pin = base /\ m.eff = e /\ m.cand = base.tree
      BY <1>0
    <2>3. Judged(r, m)'
      BY <1>1, <1>2, <2>2 DEF Judged, PinOK, IInv, Types, Commits
    <2>4. RunOK(r)'
      BY <2>1, <2>2, <2>3 DEF RunOK, Judged, PinOK
    <2> QED
      BY <1>1, <1>2, <2>4, SameMem, OneSteps DEF States
  <1>3. CASE pc' = [pc EXCEPT ![r] = "end"] /\ mem' = [mem EXCEPT ![r] = Gone]
    BY <1>1, <1>3, EndsOK
  <1> QED
    BY <1>0, <1>2, <1>3 DEF Begin, Goto, Hold, Exit

LEMMA IntegrateStep == ASSUME IInv, NEW r \in Runs, Integrate(r) PROVE IInv'
  <1>1. Moves /\ CacheOK' /\ UNCHANGED <<base, parked>> /\ pc[r] = "agents"
    BY NoMove DEF Integrate
  <1> DEFINE o == mem[r]
             pol == policyOf(o.pin.tree)
  <1>2. PICK ch \in [Branches -> Edits(o.cand, WriteMax)] :
          \E t \in Merged(o.cand, ch, Branches \ policyHoldback(ch, pol)) :
          Hold(r, [pin |-> o.pin, eff |-> o.eff, cand |-> t, held |-> policyHoldback(ch, pol),
                   changes |-> [b \in policyHoldback(ch, pol) |-> ch[b]],
                   clear |-> Branches # policyHoldback(ch, pol),
                   changed |-> writes(ch, Branches \ policyHoldback(ch, pol)), tries |-> 0,
                   scope |-> Full, verdict |-> NoVerdict])
    BY DEF Integrate
  <1>2a. PICK t \in Merged(o.cand, ch, Branches \ policyHoldback(ch, pol)) :
          Hold(r, [pin |-> o.pin, eff |-> o.eff, cand |-> t, held |-> policyHoldback(ch, pol),
                   changes |-> [b \in policyHoldback(ch, pol) |-> ch[b]],
                   clear |-> Branches # policyHoldback(ch, pol),
                   changed |-> writes(ch, Branches \ policyHoldback(ch, pol)), tries |-> 0,
                   scope |-> Full, verdict |-> NoVerdict])
    BY <1>2
  <1> DEFINE h == policyHoldback(ch, pol)
             w == writes(ch, Branches \ h)
             l == IF o.eff.verify = {} THEN "land" ELSE "verify"
  <1>2b. PICK m : m = [pin |-> o.pin, eff |-> o.eff, cand |-> t, held |-> h,
                      changes |-> [b \in h |-> ch[b]], clear |-> Branches # h,
                      changed |-> w, tries |-> 0, scope |-> Full, verdict |-> NoVerdict]
    OBVIOUS
  <1>3. /\ pc' = [pc EXCEPT ![r] = l] /\ pc'[r] = l
        /\ mem' = [mem EXCEPT ![r] = m] /\ mem'[r] = m
    BY <1>2a, <1>2b DEF Integrate, Goto, Hold, IInv, Types
  <1>4. Judged(r, o) /\ o.cand = o.pin.tree /\ o.cand \in Trees
    BY <1>1 DEF IInv, RunOK, Judged, PinOK, Commits
  <1>5. w \subseteq Paths /\ HoldReason(w, pol) = "none"
    <2>1. \A b \in Branches : DOMAIN ch[b] \subseteq Paths
      BY <1>4, EditedType
    <2> QED
      BY <2>1, ClearBranches
  <1>6. t \in Trees /\ \A p \in Paths \ w : t[p] = o.pin.tree[p]
    BY <1>4 DEF Merged
  <1>7. /\ m.pin = o.pin /\ m.eff = o.eff /\ m.cand = t /\ m.changed = w /\ m.scope = Full
        /\ Worked(m)
    BY <1>2b DEF Worked
  <1> HIDE DEF w, h
  <1>8. Judged(r, m)' /\ Clear(m)
    BY <1>1, <1>4, <1>5, <1>6, <1>7 DEF Judged, PinOK, Clear
  <1>9. l \in {"land", "verify"} /\ (l = "land" => Passed(m) /\ Scope(m))
    BY <1>7 DEF Passed, Scope
  <1>10. RunOK(r)'
    BY <1>3, <1>7, <1>8, <1>9 DEF RunOK, Judged, PinOK, Clear, Worked, Passed, Scope
  <1> HIDE DEF l
  <1> QED
    BY <1>1, <1>3, <1>9, <1>10, SameMem, OneSteps DEF States

LEMMA VerifyStep == ASSUME IInv, NEW r \in Runs, Verify(r) PROVE IInv'
  <1> DEFINE o == mem[r]
  <1>1. /\ Moves /\ UNCHANGED <<base, parked>> /\ pc[r] = "verify"
        /\ Judged(r, o) /\ Worked(o) /\ Clear(o)
    BY DEF Verify, Moves, IInv, Types, RunOK
  <1>2. PICK sc \in scopes(o) :
          \/ \E v : /\ Pass(o, sc, v) /\ Hold(r, [o EXCEPT !.scope = sc, !.verdict = v])
                    /\ Goto(r, "land")
          \/ /\ UNCHANGED cache
             /\ \/ Goto(r, "repair") /\ UNCHANGED mem
                \/ Exit(r)
    BY DEF Verify, Fail
  <1>3. ASSUME NEW v, Pass(o, sc, v), Hold(r, [o EXCEPT !.scope = sc, !.verdict = v]),
               Goto(r, "land")
        PROVE  IInv'
    <2>0. PICK m : m = [o EXCEPT !.scope = sc, !.verdict = v]
      OBVIOUS
    <2>1. CacheOK' /\ v = Verdict(o, sc, TRUE)
      BY <1>3, PassMeans DEF IInv
    <2>2. /\ m.pin = o.pin /\ m.eff = o.eff /\ m.cand = o.cand /\ m.changed = o.changed
          /\ m.scope = sc /\ m.verdict = v /\ Worked(m)
      <3> DEFINE n == [pin |-> o.pin, eff |-> o.eff, cand |-> o.cand, held |-> o.held,
                       changes |-> o.changes, clear |-> o.clear, changed |-> o.changed,
                       tries |-> o.tries, scope |-> sc, verdict |-> v]
      <3>1. m = n
        BY <1>1, <2>0 DEF Worked
      <3> QED
        BY <3>1 DEF Worked
    <2>3. /\ pc' = [pc EXCEPT ![r] = "land"] /\ pc'[r] = "land"
          /\ mem' = [mem EXCEPT ![r] = m] /\ mem'[r] = m
      BY <1>3, <2>0 DEF Goto, Hold, IInv, Types
    <2>4. Judged(r, m)' /\ Clear(m)
      BY <1>1, <2>2 DEF Judged, PinOK, Clear
    <2>5. Passed(m)
      BY <2>1, <2>2 DEF Passed, Verdict
    <2>6. Scope(m)
      BY <2>2 DEF Scope, scopes
    <2>7. RunOK(r)'
      BY <2>2, <2>3, <2>4, <2>5, <2>6 DEF RunOK, Judged, PinOK, Clear, Worked, Passed, Scope
    <2> QED
      BY <1>1, <2>1, <2>3, <2>7, SameMem, OneSteps DEF States
  <1>4. CASE UNCHANGED cache /\ Goto(r, "repair") /\ UNCHANGED mem
    <2>1. /\ pc' = [pc EXCEPT ![r] = "repair"] /\ pc'[r] = "repair" /\ mem'[r] = o /\ CacheOK'
      BY <1>1, <1>4, NoMove DEF Goto, IInv, Types
    <2>2. RunOK(r)'
      BY <1>1, <2>1 DEF RunOK, Judged, PinOK, Clear, Worked
    <2> QED
      BY <1>1, <1>4, <2>1, <2>2, SameMem, OneSteps DEF States
  <1>5. CASE UNCHANGED cache /\ Exit(r)
    BY <1>1, <1>5, NoMove, EndsOK DEF Exit, Goto, Hold
  <1> QED
    BY <1>2, <1>3, <1>4, <1>5

LEMMA RepairStep == ASSUME IInv, NEW r \in Runs, Repair(r) PROVE IInv'
  <1> DEFINE o == mem[r]
             pol == policyOf(o.pin.tree)
  <1>1. /\ Moves /\ CacheOK' /\ UNCHANGED <<base, parked>> /\ pc[r] = "repair"
        /\ Judged(r, o) /\ Worked(o) /\ Clear(o)
    BY NoMove DEF Repair, IInv, RunOK
  <1>2. ASSUME NEW ch \in Edits(o.cand, FixMax), ~RepairRefusal(DOMAIN ch, pol),
               Hold(r, Fixed(o, ch)), Goto(r, "verify")
        PROVE  IInv'
    <2>1. PICK m : m = Fixed(o, ch)
      OBVIOUS
    <2>2. /\ m.pin = o.pin /\ m.eff = o.eff /\ m.cand = Edited(o.cand, ch)
          /\ m.changed = o.changed \union DOMAIN ch /\ Worked(m)
      <3> DEFINE n == [pin |-> o.pin, eff |-> o.eff, cand |-> Edited(o.cand, ch),
                       held |-> o.held, changes |-> o.changes, clear |-> o.clear,
                       changed |-> o.changed \union DOMAIN ch,
                       tries |-> o.tries + 1, scope |-> o.scope, verdict |-> o.verdict]
      <3>1. m = n
        BY <1>1, <2>1 DEF Worked, Fixed
      <3> QED
        BY <3>1 DEF Worked
    <2>3. Edited(o.cand, ch) \in Trees /\ DOMAIN ch \subseteq Paths
      BY <1>1, EditedType DEF Clear
    <2>4. \A p \in Paths \ m.changed : m.cand[p] = o.cand[p]
      BY <2>2 DEF Edited
    <2>5. HoldReason(m.changed, pol) = "none"
      BY <1>1, <1>2, <2>2 DEF Clear, HoldReason, RepairRefusal
    <2>6. Judged(r, m)' /\ Clear(m)
      BY <1>1, <2>2, <2>3, <2>4, <2>5 DEF Judged, PinOK, Clear
    <2>7. /\ pc' = [pc EXCEPT ![r] = "verify"] /\ pc'[r] = "verify"
          /\ mem' = [mem EXCEPT ![r] = m] /\ mem'[r] = m
      BY <1>2, <2>1 DEF Goto, Hold, IInv, Types
    <2>8. RunOK(r)'
      BY <2>2, <2>6, <2>7 DEF RunOK, Judged, PinOK, Clear, Worked
    <2> QED
      BY <1>1, <2>7, <2>8, SameMem, OneSteps DEF States
  <1>3. CASE Exit(r)
    BY <1>1, <1>3, EndsOK DEF Exit, Goto, Hold
  <1> QED
    BY <1>2, <1>3 DEF Repair

(* A compare-and-swap that succeeds finds the very commit it compares with.  *)
LEMMA SwapMeans ==
    ASSUME IInv, NEW m, PinOK(m.pin), m.cand \in Trees, Swap(m.pin, m)
    PROVE  /\ base = m.pin /\ base'.tree = m.cand
           /\ base' # base /\ Moves /\ base'.id \in Nat
  <1>1. base = m.pin /\ base' = [id |-> base.id + 1, tree |-> m.cand] /\ base.id \in Nat
    BY DEF Swap, PinOK, IInv, Types, Commits
  <1>2. base'.id = base.id + 1 /\ base'.tree = m.cand /\ base' \in Commits
    BY <1>1 DEF Commits
  <1> QED
    BY <1>1, <1>2 DEF Moves, PinOK

LEMMA LandStep == ASSUME IInv, NEW r \in Runs, Land(r) PROVE IInv'
  <1> DEFINE o == mem[r]
  <1>1. /\ UNCHANGED <<cache, parked>> /\ pc[r] = "land" /\ CacheOK'
        /\ Judged(r, o) /\ Worked(o) /\ Clear(o)
    BY DEF Land, IInv, RunOK, CacheOK
  <1>2. ASSUME NEW c, Moves, PinOK(c)', policyOf(c.tree) = policyOf(o.pin.tree),
               \/ Exit(r)
               \/ Goto(r, "park") /\ Hold(r, [o EXCEPT !.pin = c])
        PROVE  IInv'
    <2>1. CASE Exit(r)
      BY <1>1, <1>2, <2>1, EndsOK DEF Exit, Goto, Hold
    <2>2. CASE Goto(r, "park") /\ Hold(r, [o EXCEPT !.pin = c])
      <3>1. PICK m : m = [o EXCEPT !.pin = c]
        OBVIOUS
      <3>2. m.pin = c /\ m.eff = o.eff
        BY <1>1, <3>1 DEF Worked
      <3>3. Judged(r, m)'
        BY <1>1, <1>2, <3>2 DEF Judged, PinOK
      <3>4. /\ pc' = [pc EXCEPT ![r] = "park"] /\ pc'[r] = "park"
            /\ mem' = [mem EXCEPT ![r] = m] /\ mem'[r] = m
        BY <2>2, <3>1 DEF Goto, Hold, IInv, Types
      <3>5. RunOK(r)'
        BY <3>3, <3>4 DEF RunOK, Judged, PinOK
      <3> QED
        BY <1>1, <1>2, <3>4, <3>5, SameMem, OneSteps DEF States
    <2> QED
      BY <1>2, <2>1, <2>2
  <1>3. CASE Swap(o.pin, o) /\ (Exit(r) \/ (Goto(r, "park") /\ Hold(r, [o EXCEPT !.pin = base'])))
    <2>1. /\ base = o.pin /\ base'.tree = o.cand /\ Moves /\ base'.id \in Nat
      BY <1>1, <1>3, SwapMeans DEF Judged, Clear
    <2>2. policyOf(base'.tree) = policyOf(o.pin.tree)
      BY <1>1, <2>1 DEF Clear, HoldReason, policyOf, Paths
    <2>3. PICK c : c = base'
      OBVIOUS
    <2>4. PinOK(c)'
      BY <2>1, <2>3 DEF PinOK, Moves
    <2> QED
      BY <1>2, <1>3, <2>1, <2>2, <2>3, <2>4
  <1>4. CASE UNCHANGED base /\ (Exit(r) \/ (Goto(r, "park") /\ Hold(r, [o EXCEPT !.pin = o.pin])))
    <2>1. Moves
      BY <1>1, <1>4, NoMove
    <2>2. PICK c : c = o.pin
      OBVIOUS
    <2>3. PinOK(c)'
      BY <1>1, <1>4, <2>2 DEF Judged, PinOK
    <2> QED
      BY <1>2, <1>4, <2>1, <2>2, <2>3
  <1> QED
    BY <1>3, <1>4 DEF Land

-----------------------------------------------------------------------------
(* Parks and acks.                                                           *)

(* A candidate computed on c under e.                                        *)
LEMMA CandidateMeans ==
    ASSUME NEW o, NEW c, NEW e, NEW m \in Candidates(o, c, e)
    PROVE  /\ m.pin = c /\ m.eff = e /\ m.cand \in Trees /\ m.scope = Full
           /\ m = [pin |-> m.pin, eff |-> m.eff, cand |-> m.cand, held |-> m.held,
                   changes |-> m.changes, scope |-> m.scope, verdict |-> m.verdict]
  BY DEF Candidates, Merged

LEMMA ParkStep == ASSUME IInv, NEW r \in Runs, Park(r) PROVE IInv'
  <1> DEFINE o == mem[r]
             e == [o.eff EXCEPT !.impact = FALSE]
             pol == policyOf(o.pin.tree)
  <1>1. /\ Moves /\ CacheOK' /\ UNCHANGED <<base, parked>> /\ pc[r] = "park" /\ Judged(r, o)
    BY NoMove DEF Park, IInv, RunOK
  <1>2. PICK m \in Candidates(o, o.pin, e) : Hold(r, m)
    BY DEF Park
  <1>3. /\ e.verify = pol.verify \union Flags[r].verify /\ pol.valid
        /\ pol.strict => e.strict
    <2>1. pol.valid /\ o.eff = resolvePolicy(pol, Flags[r])
      BY <1>1 DEF Judged, acceptable
    <2>2. /\ resolvePolicy(pol, Flags[r]).verify = pol.verify \union Flags[r].verify
          /\ pol.strict => resolvePolicy(pol, Flags[r]).strict
      BY DEF resolvePolicy
    <2>3. e.verify = o.eff.verify /\ e.strict = o.eff.strict
      BY <2>1 DEF resolvePolicy
    <2> QED
      BY <2>1, <2>2, <2>3
  <1>4. /\ m.pin = o.pin /\ m.eff = e /\ m.cand \in Trees /\ m.scope = Full
        /\ m = [pin |-> m.pin, eff |-> m.eff, cand |-> m.cand, held |-> m.held,
                changes |-> m.changes, scope |-> m.scope, verdict |-> m.verdict]
    <2> HIDE DEF e
    <2> QED
      BY CandidateMeans
  <1>5. /\ pc' = [pc EXCEPT ![r] = "parking"] /\ pc'[r] = "parking"
        /\ mem' = [mem EXCEPT ![r] = m] /\ mem'[r] = m
    BY <1>2 DEF Park, Goto, Hold, IInv, Types
  <1>6. PinOK(m.pin)'
    BY <1>1, <1>4 DEF Judged, PinOK
  <1>7. Battery(r, m)'
    BY <1>3, <1>4, <1>6 DEF Battery, PinOK
  <1>8. RunOK(r)'
    BY <1>5, <1>7 DEF RunOK, Battery, PinOK
  <1> QED
    BY <1>1, <1>5, <1>8, SameMem, OneSteps DEF States

(* A candidate with its verdict.                                             *)
LEMMA WithVerdict ==
    ASSUME NEW r, NEW o, NEW v, Battery(r, o), o.eff.verify # {} => v = Verdict(o, Full, TRUE)
    PROVE  LET m == [o EXCEPT !.verdict = v]
           IN  Battery(r, m) /\ Passed(m) /\ m.pin = o.pin /\ m.cand = o.cand /\ m.eff = o.eff
  <1>1. PICK m : m = [o EXCEPT !.verdict = v]
    OBVIOUS
  <1> DEFINE n == [pin |-> o.pin, eff |-> o.eff, cand |-> o.cand, held |-> o.held,
                   changes |-> o.changes, scope |-> o.scope, verdict |-> v]
  <1>2. m = n
    BY <1>1 DEF Battery
  <1>3. /\ m.pin = o.pin /\ m.eff = o.eff /\ m.cand = o.cand /\ m.scope = o.scope
        /\ m.verdict = v
        /\ m = [pin |-> m.pin, eff |-> m.eff, cand |-> m.cand, held |-> m.held,
                changes |-> m.changes, scope |-> m.scope, verdict |-> m.verdict]
    BY <1>2
  <1> HIDE DEF n
  <1>4. Battery(r, m)
    BY <1>3 DEF Battery
  <1>5. Passed(m)
    BY <1>3 DEF Passed, Battery, Verdict
  <1> QED
    BY <1>1, <1>3, <1>4, <1>5

(* A verified candidate may be recorded.                                     *)
LEMMA RecordOK ==
    ASSUME IInv, Moves, CacheOK', NEW r \in Runs, NEW m, Battery(r, m), Passed(m),
           parked' = [parked EXCEPT ![r] = m], mem' = [mem EXCEPT ![r] = Gone],
           NEW l \in {"parked", "end"}, pc' = [pc EXCEPT ![r] = l]
    PROVE  IInv'
  <1>1. parked'[r] = m /\ pc'[r] = l
    BY DEF IInv, Types
  <1>2. PinOK(m.pin)'
    BY PinStays DEF Battery, IInv, Types
  <1>3. RunOK(r)'
    BY <1>1, <1>2 DEF RunOK, Battery, Passed, PinOK
  <1> QED
    BY <1>3, OneSteps DEF States

LEMMA VerifyParkStep == ASSUME IInv, NEW r \in Runs, VerifyPark(r) PROVE IInv'
  <1> DEFINE o == mem[r]
  <1>1. Moves /\ UNCHANGED base /\ pc[r] = "parking" /\ Battery(r, o) /\ CacheOK
    BY DEF VerifyPark, Moves, IInv, Types, RunOK
  <1>2. ASSUME NEW v, PassFull(r, v), parked' = [parked EXCEPT ![r] = [o EXCEPT !.verdict = v]],
               Goto(r, "parked"), Hold(r, Gone)
        PROVE  IInv'
    <2>1. CacheOK' /\ (o.eff.verify # {} => v = Verdict(o, Full, TRUE))
      BY <1>1, <1>2, PassFullMeans
    <2>2. PICK m : m = [o EXCEPT !.verdict = v]
      OBVIOUS
    <2>3. Battery(r, m) /\ Passed(m)
      BY <1>1, <2>1, <2>2, WithVerdict
    <2> QED
      BY <1>1, <1>2, <2>1, <2>2, <2>3, RecordOK DEF Goto, Hold
  <1>3. CASE UNCHANGED cache /\ Exit(r) /\ UNCHANGED parked
    BY <1>1, <1>3, NoMove, EndsOK DEF Exit, Goto, Hold
  <1> QED
    BY <1>2, <1>3 DEF VerifyPark, Fail

LEMMA AckStep == ASSUME IInv, NEW r \in Runs, Ack(r) PROVE IInv'
  <1>1. /\ pc[r] = "parked" /\ Swap(parked[r].pin, parked[r]) /\ Battery(r, parked[r])
        /\ CacheOK' /\ UNCHANGED parked /\ Exit(r)
    BY DEF Ack, IInv, RunOK, CacheOK
  <1>2. Moves
    BY <1>1, SwapMeans DEF Battery
  <1> QED
    BY <1>1, <1>2, EndsOK DEF Exit, Goto, Hold

LEMMA ReverifyStep == ASSUME IInv, NEW r \in Runs, Reverify(r) PROVE IInv'
  <1> DEFINE pol == policyOf(base.tree)
             e == resolvePolicy(pol, ackRequest(r))
  <1>1. /\ Moves /\ CacheOK' /\ UNCHANGED <<base, parked>> /\ pc[r] = "parked"
        /\ Battery(r, parked[r]) /\ Passed(parked[r]) /\ pol.valid
    BY NoMove DEF Reverify, IInv, RunOK, acceptable
  <1>2. PICK m \in Candidates(parked[r], base, e) : Hold(r, m)
    BY DEF Reverify
  <1>3. e.verify = pol.verify \union Flags[r].verify /\ (pol.strict => e.strict)
    BY DEF resolvePolicy, ackRequest
  <1>4. /\ m.pin = base /\ m.eff = e /\ m.cand \in Trees /\ m.scope = Full
        /\ m = [pin |-> m.pin, eff |-> m.eff, cand |-> m.cand, held |-> m.held,
                changes |-> m.changes, scope |-> m.scope, verdict |-> m.verdict]
    <2> HIDE DEF e
    <2> QED
      BY CandidateMeans
  <1>5. /\ pc' = [pc EXCEPT ![r] = "reverify"] /\ pc'[r] = "reverify"
        /\ mem' = [mem EXCEPT ![r] = m] /\ mem'[r] = m /\ parked'[r] = parked[r]
    BY <1>1, <1>2 DEF Reverify, Goto, Hold, IInv, Types
  <1>6. PinOK(m.pin)' /\ PinOK(parked[r].pin)'
    BY <1>1, <1>4, PinStays DEF Battery, PinOK, IInv, Types, Commits
  <1>7. Battery(r, m)'
    BY <1>1, <1>3, <1>4, <1>6 DEF Battery, PinOK
  <1>8. RunOK(r)'
    BY <1>1, <1>5, <1>6, <1>7 DEF RunOK, Battery, PinOK, Passed
  <1> QED
    BY <1>1, <1>5, <1>8, SameMem, OneSteps DEF States

LEMMA VerifyAckStep == ASSUME IInv, NEW r \in Runs, VerifyAck(r) PROVE IInv'
  <1> DEFINE o == mem[r]
  <1>1. pc[r] = "reverify" /\ Battery(r, o) /\ CacheOK
    BY DEF VerifyAck, IInv, RunOK
  <1>2. ASSUME NEW v, PassFull(r, v), parked' = [parked EXCEPT ![r] = [o EXCEPT !.verdict = v]],
               LET m == [o EXCEPT !.verdict = v]
               IN  \/ Swap(m.pin, m) /\ Exit(r)
                   \/ Goto(r, "parked") /\ Hold(r, Gone) /\ UNCHANGED base
        PROVE  IInv'
    <2>1. CacheOK' /\ (o.eff.verify # {} => v = Verdict(o, Full, TRUE))
      BY <1>1, <1>2, PassFullMeans
    <2>2. PICK m : m = [o EXCEPT !.verdict = v]
      OBVIOUS
    <2>3. Battery(r, m) /\ Passed(m)
      BY <1>1, <2>1, <2>2, WithVerdict
    <2>4. CASE Swap(m.pin, m) /\ Exit(r)
      <3>1. Moves
        BY <2>3, <2>4, SwapMeans DEF Battery
      <3> QED
        BY <1>2, <2>1, <2>2, <2>3, <2>4, <3>1, RecordOK DEF Exit, Goto, Hold
    <2>5. CASE Goto(r, "parked") /\ Hold(r, Gone) /\ UNCHANGED base
      <3>1. Moves
        BY <2>5 DEF Moves, IInv, Types
      <3> QED
        BY <1>2, <2>1, <2>2, <2>3, <2>5, <3>1, RecordOK DEF Goto, Hold
    <2> QED
      BY <1>2, <2>2, <2>4, <2>5
  <1>3. CASE UNCHANGED <<base, cache, parked>> /\ Goto(r, "parked") /\ Hold(r, Gone)
    BY <1>1, <1>3, NoMove, EndsOK DEF Goto, Hold
  <1> QED
    BY <1>2, <1>3 DEF VerifyAck, Fail

LEMMA PushStep == ASSUME IInv, Push PROVE IInv'
  <1>1. PICK ch \in Edits(base.tree, FixMax) :
          base' = [id |-> base.id + 1, tree |-> Edited(base.tree, ch)]
    BY DEF Push
  <1>2. base.tree \in Trees /\ base.id \in Nat
    BY DEF IInv, Types, Commits
  <1>3. Moves
    BY <1>1, <1>2, EditedType DEF Moves, Commits
  <1>4. Types' /\ CacheOK'
    BY <1>3 DEF Push, Moves, IInv, Types, CacheOK
  <1> QED
    BY <1>3, <1>4, OthersStay DEF Push, IInv

LEMMA StepKeeps == IInv /\ [Next]_vars => IInv'
  <1> SUFFICES ASSUME IInv, [Next]_vars PROVE IInv'
    OBVIOUS
  <1>1. CASE UNCHANGED vars
    <2>1. UNCHANGED <<base, cache, pc, mem, parked>> /\ Moves /\ CacheOK'
      BY <1>1, NoMove DEF vars
    <2>2. Types'
      BY <2>1 DEF IInv, Types
    <2> QED
      BY <2>1, <2>2, OthersStay DEF IInv
  <1>2. CASE Push
    BY <1>2, PushStep
  <1>3. CASE \E r \in Runs : RunStep(r)
    BY <1>3, BeginStep, IntegrateStep, VerifyStep, RepairStep, LandStep, ParkStep,
       VerifyParkStep, AckStep, ReverifyStep, VerifyAckStep DEF RunStep
  <1> QED
    BY <1>1, <1>2, <1>3 DEF Next

LEMMA Invariance == Spec => []IInv
  BY Initially, StepKeeps, PTL DEF Spec

-----------------------------------------------------------------------------
(* What lands.                                                               *)

(* What a run that lands by itself lands, and on which base.                 *)
Own(r) == LET m == mem[r]
          IN  /\ pc[r] = "land" /\ ~ByAck(r) /\ landing(r) = m
              /\ base = m.pin /\ base'.tree = m.cand
              /\ Judged(r, m) /\ Clear(m) /\ Passed(m) /\ Scope(m)

(* What a run lands by an ack.                                               *)
Acked(r) == LET m == parked'[r]
            IN  /\ ByAck(r) /\ landing(r) = m
                /\ base = m.pin /\ base'.tree = m.cand
                /\ Battery(r, m) /\ Passed(m)

LEMMA WhoLands ==
    ASSUME IInv, [Next]_vars, NEW r \in Runs, Lands(r)
    PROVE  Own(r) \/ Acked(r)
  <1>1. RunStep(r)
    <2>1. pc'[r] # pc[r]
      BY DEF Lands
    <2>2. ASSUME NEW q \in Runs, RunStep(q) PROVE q = r
      <3>1. \E l : pc' = [pc EXCEPT ![q] = l] \/ UNCHANGED pc
        BY <2>2 DEF RunStep, Begin, Integrate, Verify, Repair, Land, Park, VerifyPark, Ack,
                   Reverify, VerifyAck, Goto, Exit
      <3> QED
        BY <2>1, <3>1 DEF IInv, Types
    <2> QED
      BY <2>1, <2>2 DEF Next, Push, vars
  <1>2. base' # base
    BY DEF Lands
  <1>3. CASE Land(r)
    <2>1. /\ pc[r] = "land" /\ Swap(mem[r].pin, mem[r])
          /\ Judged(r, mem[r]) /\ Clear(mem[r]) /\ Passed(mem[r]) /\ Scope(mem[r])
      BY <1>2, <1>3 DEF Land, IInv, RunOK
    <2>2. base = mem[r].pin /\ base'.tree = mem[r].cand
      BY <2>1, SwapMeans DEF Judged, Clear
    <2> QED
      BY <2>1, <2>2 DEF Own, ByAck, landing
  <1>4. CASE Ack(r)
    <2>1. /\ pc[r] = "parked" /\ Swap(parked[r].pin, parked[r]) /\ UNCHANGED parked
          /\ Battery(r, parked[r]) /\ Passed(parked[r])
      BY <1>4 DEF Ack, IInv, RunOK
    <2>2. base = parked[r].pin /\ base'.tree = parked[r].cand
      BY <2>1, SwapMeans DEF Battery
    <2> QED
      BY <2>1, <2>2 DEF Acked, ByAck, landing
  <1>5. CASE VerifyAck(r)
    <2>1. /\ pc[r] = "reverify" /\ Battery(r, mem[r]) /\ CacheOK
      BY <1>5 DEF VerifyAck, IInv, RunOK
    <2>2. PICK v : /\ PassFull(r, v) /\ parked' = [parked EXCEPT ![r] = [mem[r] EXCEPT !.verdict = v]]
                   /\ Swap([mem[r] EXCEPT !.verdict = v].pin, [mem[r] EXCEPT !.verdict = v])
      BY <1>2, <1>5 DEF VerifyAck
    <2>3. PICK m : m = [mem[r] EXCEPT !.verdict = v]
      OBVIOUS
    <2>4. Battery(r, m) /\ Passed(m)
      <3>1. mem[r].eff.verify # {} => v = Verdict(mem[r], Full, TRUE)
        BY <2>1, <2>2, PassFullMeans
      <3> QED
        BY <2>1, <2>3, <3>1, WithVerdict
    <2>5. base = m.pin /\ base'.tree = m.cand
      BY <2>2, <2>3, <2>4, SwapMeans DEF Battery
    <2>6. parked'[r] = m
      BY <2>2, <2>3 DEF IInv, Types
    <2> QED
      BY <2>1, <2>4, <2>5, <2>6 DEF Acked, ByAck, landing
  <1>6. CASE Begin(r) \/ Integrate(r) \/ Verify(r) \/ Repair(r) \/ Park(r) \/ VerifyPark(r) \/ Reverify(r)
    BY <1>2, <1>6 DEF Begin, Integrate, Verify, Repair, Park, VerifyPark, Reverify
  <1> QED
    BY <1>1, <1>3, <1>4, <1>5, <1>6 DEF RunStep

(* What a run lands by itself changes counted paths only.                    *)
LEMMA OwnTouches ==
    ASSUME NEW r, Own(r)
    PROVE  Touched \subseteq mem[r].changed
  BY DEF Own, Clear, Touched

(* Nothing that the policy in force on the base reserves for an ack lands     *)
(* without one, for any number of runs, any entanglement, fix and push        *)
(* (run.go policyHoldback, policy.go HoldReason).                             *)
THEOREM NoLandingWithoutAck == Spec => AckPathsNeedAnAck
  <1>1. ASSUME IInv, [Next]_vars
        PROVE  [\A r \in Runs : Lands(r) /\ ~ByAck(r) =>
                  HoldReason(Touched, policyOf(base.tree)) = "none"]_vars
    <2>1. ASSUME NEW r \in Runs, Lands(r), ~ByAck(r)
          PROVE  HoldReason(Touched, policyOf(base.tree)) = "none"
      <3>1. Own(r)
        BY <1>1, <2>1, WhoLands DEF Acked
      <3>2. HoldReason(mem[r].changed, policyOf(base.tree)) = "none"
        BY <3>1 DEF Own, Clear
      <3> QED
        BY <3>1, <3>2, OwnTouches, FewerPaths
    <2> QED
      BY <2>1
  <1> QED
    BY <1>1, Invariance, PTL DEF Spec, AckPathsNeedAnAck

(* Whatever lands passed, as the very tree that lands, the battery that the   *)
(* policy on its base and its request ask for -- or the impact command, where *)
(* the policy asks for nothing and nobody acked -- and no cached verdict      *)
(* stands for anything else (verifycache.go runVerifyCached, park.go          *)
(* ackReverify).                                                             *)
THEOREM LandsFullyVerified == Spec => VerifiedInFull
  <1>1. ASSUME IInv, [Next]_vars
        PROVE  [\A r \in Runs : Lands(r) =>
                  LET pol == policyOf(base.tree)
                      m == landing(r)
                      asked == pol.verify \union Flags[r].verify
                  IN  /\ base.tree' = m.cand /\ pol.valid
                      /\ pol.strict => m.eff.strict
                      /\ asked # {} => m.verdict = [tree |-> m.cand,
                                                    command |-> Command(asked, m.scope),
                                                    scope |-> m.scope, ok |-> TRUE]
                      /\ pol.verify # {} \/ ByAck(r) => m.scope = Full]_vars
    <2>1. ASSUME NEW r \in Runs, Lands(r)
          PROVE  LET pol == policyOf(base.tree)
                     m == landing(r)
                     asked == pol.verify \union Flags[r].verify
                 IN  /\ base.tree' = m.cand /\ pol.valid
                     /\ pol.strict => m.eff.strict
                     /\ asked # {} => m.verdict = [tree |-> m.cand,
                                                   command |-> Command(asked, m.scope),
                                                   scope |-> m.scope, ok |-> TRUE]
                     /\ pol.verify # {} \/ ByAck(r) => m.scope = Full
      <3> DEFINE pol == policyOf(base.tree)
                 asked == pol.verify \union Flags[r].verify
      <3>1. CASE Own(r)
        <4>1. PICK m : m = mem[r]
          OBVIOUS
        <4>2. /\ landing(r) = m /\ ~ByAck(r) /\ base'.tree = m.cand
              /\ acceptable(pol, Flags[r], Branches) /\ m.eff = resolvePolicy(pol, Flags[r])
              /\ Passed(m) /\ Scope(m)
          BY <3>1, <4>1 DEF Own, Judged
        <4>3. /\ m.eff.verify = asked /\ (pol.strict => m.eff.strict)
              /\ m.eff.impact => pol.verify = {}
          <5>1. PICK e : e = resolvePolicy(pol, Flags[r])
            OBVIOUS
          <5>2. /\ e.verify = asked /\ e.strict = (pol.strict \/ Flags[r].lanes = "strict")
                /\ e.impact = (Flags[r].impact /\ pol.verify = {})
            BY <5>1 DEF resolvePolicy
          <5> HIDE DEF pol, asked
          <5> QED
            BY <4>2, <5>1, <5>2
        <4>4. pol.valid /\ (pol.verify # {} => m.scope = Full)
          BY <4>2, <4>3 DEF acceptable, Scope
        <4>5. asked # {} => m.verdict = [tree |-> m.cand, command |-> Command(asked, m.scope),
                                         scope |-> m.scope, ok |-> TRUE]
          BY <4>2, <4>3 DEF Passed, Verdict
        <4> HIDE DEF pol, asked
        <4> QED
          BY <4>2, <4>3, <4>4, <4>5 DEF pol, asked
      <3>2. CASE Acked(r)
        <4>1. PICK m : m = parked'[r]
          OBVIOUS
        <4>2. /\ landing(r) = m /\ base = m.pin /\ base'.tree = m.cand
              /\ Battery(r, m) /\ Passed(m)
          BY <3>2, <4>1 DEF Acked
        <4>3. /\ m.eff.verify = asked /\ (pol.strict => m.eff.strict) /\ pol.valid
              /\ m.scope = Full
          BY <4>2 DEF Battery
        <4>4. asked # {} => m.verdict = [tree |-> m.cand, command |-> Command(asked, m.scope),
                                         scope |-> m.scope, ok |-> TRUE]
          BY <4>2, <4>3 DEF Passed, Verdict
        <4> HIDE DEF pol, asked
        <4> QED
          BY <4>2, <4>3, <4>4 DEF pol, asked
      <3> QED
        BY <1>1, <2>1, <3>1, <3>2, WhoLands
    <2> QED
      BY <2>1
  <1> QED
    BY <1>1, Invariance, PTL DEF Spec, VerifiedInFull

(* What only the impact command judged is packages that it was given, with    *)
(* every package that imports one of them, fixes included, for any import     *)
(* graph (impact.go computeImpact, run.go verifyWithRepair).                  *)
THEOREM ImpactSuffices == Spec => ScopeCoversChange
  <1>1. ASSUME IInv, [Next]_vars
        PROVE  [\A r \in Runs : Lands(r) /\ landing(r).scope # Full =>
                  Touched \subseteq Packages
                  /\ impactedPackages(Touched) \subseteq landing(r).scope.pkgs]_vars
    <2>1. ASSUME NEW r \in Runs, Lands(r), landing(r).scope # Full
          PROVE  Touched \subseteq Packages
                 /\ impactedPackages(Touched) \subseteq landing(r).scope.pkgs
      <3>1. Own(r)
        BY <1>1, <2>1, WhoLands DEF Acked, Battery
      <3>2. /\ landing(r) = mem[r] /\ mem[r].changed \subseteq Packages
            /\ mem[r].scope = Scoped(mem[r].changed)
        BY <2>1, <3>1 DEF Own, Scope
      <3>3. mem[r].scope.pkgs = impactedPackages(mem[r].changed)
        BY <3>2 DEF Scoped
      <3> QED
        BY <3>1, <3>2, <3>3, OwnTouches, ImpactGrows
    <2> QED
      BY <2>1
  <1> QED
    BY <1>1, Invariance, PTL DEF Spec, ScopeCoversChange
=============================================================================
