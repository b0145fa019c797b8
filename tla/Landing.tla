------------------------------ MODULE Landing ------------------------------
(***************************************************************************)
(* What every landing path of sigbound promises about the base branch,     *)
(* whichever door it came through (sig run, sig ack, sig serve, sig watch, *)
(* sig unland).  A commit is named by the sequence of landings that built  *)
(* it, so the parent of a commit is its Front and ancestry is the prefix   *)
(* order.  The base ref moves by exactly one landing at a time, always     *)
(* onto a child of the head it held, and only to a commit whose tree       *)
(* passed verify -- or by a landing this system did not make.              *)
(***************************************************************************)
EXTENDS Integers, Sequences

CONSTANTS Landings,   \* what can be put on the base by sigbound
          Foreign,    \* a landing made by somebody else's git push
          Root        \* the base's history before the model starts

VARIABLES base,       \* the commit refs/heads/<base> names
          green       \* the commits whose tree passed verify

landingVars == <<base, green>>

Steps   == Landings \union {Foreign}
Commits == Seq(Steps \union {Root})

(* a is an ancestor of b (gitx.IsAncestor). *)
Descends(b, a) == /\ Len(a) <= Len(b)
                  /\ \A i \in 1..Len(a) : b[i] = a[i]

(* b was committed with a as its first parent. *)
ChildOf(b, a) == \E x \in Steps : b = Append(a, x)

Init == /\ base \in Commits
        /\ green \in SUBSET Commits

(* A verify command passed on a commit built on some earlier base. *)
PassVerify == /\ green \subseteq green' /\ green' \subseteq Commits
              /\ UNCHANGED base

(* The compare-and-swap of run.go's landRef. *)
Land == /\ \E v \in green : ChildOf(v, base) /\ base' = v
        /\ UNCHANGED green

(* Somebody else advanced the branch. *)
ForeignLand == /\ base' = Append(base, Foreign)
               /\ UNCHANGED green

Next == PassVerify \/ Land \/ ForeignLand

Spec == Init /\ [][Next]_landingVars
============================================================================
