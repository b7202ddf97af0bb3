------------------------------- MODULE FairPick -------------------------------
(***************************************************************************)
(* Which jobs a worker takes in one turn of its loop: how many of each     *)
(* kind it asks for (claimWants, src/src/lib/jobs/plan.ts) and which due   *)
(* rows of a kind the claim picks for them, so that no kind and no         *)
(* organization waits behind the backlog of another (app.claim_jobs,       *)
(* drizzle/0032).  Both are computed from what one statement reads; the    *)
(* actions of JobQueue leave the pick open.                                *)
(***************************************************************************)
EXTENDS JobQueue, FiniteSetsExt

CONSTANTS
    NRow,        \* most due rows of the kind, 1 the oldest
    NOrg,        \* organizations
    NKind,       \* job kinds, in the order of the registry
    Cap,         \* most runs of a kind at once in a process
    ProcessCap   \* most runs at once in a process

ASSUME FairPickAssumption ==
    /\ NRow \in Nat /\ NOrg \in Nat /\ NKind \in Nat \ {0}
    /\ Cap \in Nat /\ ProcessCap \in Nat

Kind == 0 .. NKind - 1

-----------------------------------------------------------------------------
(* The claim: rows by their organization's turn, then by age.              *)

\* A row's turn is its place among the rows of its organization.
Turn(org, i) == Cardinality({j \in 1 .. i : org[j] = org[i]})

\* (mutant of Before: by age alone)
Before_age(org, i, j) == i < j

Before(org, i, j) == Turn(org, i) < Turn(org, j) \/ (Turn(org, i) = Turn(org, j) /\ i < j)

\* The first `lim` of the `size` oldest due rows (at most 1000 in the code).
Chosen(org, size, lim) ==
    {i \in 1 .. size : Cardinality({j \in 1 .. size : Before(org, j, i)}) < lim}

\* What a fair pick is: as many rows as asked for, the oldest of each
\* organization first, and no organization gets two more than another that
\* still has rows to give.
IsFair(org, size, picked) ==
    LET share(o) == {i \in picked : org[i] = o}
        all(o) == {i \in 1 .. size : org[i] = o}
    IN  /\ \A i \in picked, j \in 1 .. size : org[i] = org[j] /\ j < i => j \in picked
        /\ \A o, p \in 1 .. NOrg :
              Cardinality(share(o)) > Cardinality(share(p)) + 1 => share(p) = all(p)

PickIsFair(lim) ==
    \A org \in [1 .. NRow -> 1 .. NOrg], size \in 0 .. NRow :
        LET picked == Chosen(org, size, lim)
        IN  Cardinality(picked) = Min({lim, size}) /\ IsFair(org, size, picked)

-----------------------------------------------------------------------------
(* The plan: free slots per kind, handed out from a rotating start.        *)

\* (mutant of KindAt: always from the first kind)
KindAt_fixed(i, rotate) == i

KindAt(i, rotate) == (i + rotate) % NKind

\* claimWants: what is left of the process's slots before the i-th kind, which
\* gets what it has room for.
Left(room, free, rotate) ==
    LET left[i \in 0 .. NKind] ==
            IF i = 0 THEN free ELSE left[i - 1] - Min({room[KindAt(i - 1, rotate)], left[i - 1]})
    IN  left

Wanted(room, free, rotate, kind) ==
    LET left == Left(room, free, rotate)
        i == CHOOSE n \in Kind : KindAt(n, rotate) = kind
    IN  left[i] - left[i + 1]

\* No kind gets more than it has room for, no slot stays empty that a kind has
\* room for, and a kind with room gets a slot in one turn out of NKind.
PlanIsFair(free) ==
    \A room \in [Kind -> 0 .. Cap] :
        /\ \A rotate \in Kind :
              LET wanted == [k \in Kind |-> Wanted(room, free, rotate, k)] IN
              /\ \A k \in Kind : wanted[k] \in 0 .. room[k]
              /\ SumFunction(wanted) = Min({free, SumFunction(room)})
        /\ \A k \in Kind :
              room[k] > 0 /\ free > 0 => \E rotate \in Kind : Wanted(room, free, rotate, k) > 0

-----------------------------------------------------------------------------
\* For each number of free slots: is what a turn asks for and takes fair?
TurnIsFair == [free \in 0 .. ProcessCap |-> PlanIsFair(free) /\ PickIsFair(free)]

\* With the slots a worker has free, or more, one turn of its loop starves no
\* kind and no organization: every organization's oldest due row comes before
\* anyone's second (claim_jobs), and the start of the hand-out rotates
\* (plan.ts "so that no kind starves").
ClaimIsFair ==
    \A w \in Worker : \A n \in DOMAIN TurnIsFair : n >= Cardinality(Free(w)) => TurnIsFair[n]
=============================================================================
