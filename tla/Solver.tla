------------------------------- MODULE Solver -------------------------------
(***************************************************************************)
(* The dependency solver of lib/transaction_solve.c: the global struct     *)
(* transaction, xbps_transaction_init1 and the loop of                     *)
(* xbps_transaction_solve with its steps propagate / propagateIncompat,    *)
(* resolve and choose.                                                     *)
(*                                                                         *)
(* The model is the build with the blocks under "#if 0" that construct     *)
(* and compare constraints switched on (termrelation, termintersect and    *)
(* every xbps_constraint_* call): without them xbps_transaction_solve      *)
(* returns -1 before its loop (rootterm.constraint == NULL), which the     *)
(* constant ConstraintsBuilt = FALSE stands for.  The constraint algebra   *)
(* is not part of this repository; a constraint is the set of versions it  *)
(* allows, as the spec defines it.                                         *)
(*                                                                         *)
(* Packages are model values; the root package and its version "0" are    *)
(* Root and RootV.  A universe u gives, per package, the installed and the *)
(* repository version (NoVer for none), the automatic-install flag, the    *)
(* run_depends of every version as <<package, allowed versions>> (the      *)
(* result of xbps_constraint_parse) and the iteration order of the pkgdb.  *)
(***************************************************************************)
EXTENDS Integers, Sequences, SequencesExt, FiniteSets

CONSTANTS
    Pkgs,             \* package names
    Vers,             \* version strings (a finite set of naturals)
    Root, RootV,      \* trans->root and trans->rootv
    NoVer,            \* no such version (a NULL pkgver)
    Universes,        \* the pkgdb / repository pool states to solve
    ConstraintsBuilt, \* the "#if 0" constraint code compiled in
    MaxTerms          \* bound on the terms allocated in one solve

ASSUME RootV \notin Vers /\ NoVer \notin Vers /\ Root \notin Pkgs

AllPkgs == Pkgs \cup {Root}
AllVers == Vers \cup {RootV}

\* the enum of incompatibility causes
CauseRoot == 0
CauseDependency == 1
CauseNotFound == 3
CauseConflict == 4

\* the enum returned by termrelation
DISJOINT == 1
OVERLAPPING == 2
SUBSET_ == 3

VARIABLES
    u,            \* the universe being solved (the handle's pkgdb and rpool)
    created,      \* packages in PkgHash (lookupPkg / addPkg)
    versions,     \* pkg->versions, the candidate versions in array order
    listed,       \* pkg->listed, as the set of versions already listed
    incompats,    \* pkg->incompats, as ids into inc
    inc,          \* every registered struct incompat, by id
    positive,     \* trans->positive: the in-force positive terms
    negative,     \* trans->negative: nodes [term, prevNull] in link order
    assignments,  \* trans->assignments: [level, index, cause, term]
    decisions,    \* trans->decisions: pkg -> version (NoVer if none)
    level,        \* trans->level
    nterms,       \* terms allocated so far (a term's id is its pointer)
    pc,           \* where xbps_transaction_solve is
    changed,      \* propagate's queue of changed packages
    cur, i,       \* propagate: the package popped and the index counting down
    rinc, rorig,  \* resolve: the incompatibility in hand and the conflicting one
    newTerms,     \* resolve's newTerms list, shared by every round
    newIncompat,  \* resolve's newIncompat flag
    result        \* what xbps_transaction_solve returned

vars == <<u, created, versions, listed, incompats, inc, positive, negative,
          assignments, decisions, level, nterms, pc, changed, cur, i, rinc,
          rorig, newTerms, newIncompat, result>>

-----------------------------------------------------------------------------
(* Terms.  A term is [pos, pkg, c, id]: the constraint c is the set of     *)
(* versions it names; id identifies the allocation (0 for the terms        *)
(* embedded in an assignment or created by termintersect).                 *)

Term(pos, p, c, id) == [pos |-> pos, pkg |-> p, c |-> c, id |-> id]

\* compatible(): the two terms are of the root or of the same package
compatible(a, b) == a.pkg = Root \/ b.pkg = Root \/ a.pkg = b.pkg

\* termrelation(a, b): how the assigned term a relates to the term b
termrelation(a, b) ==
    LET this == a.c  other == b.c IN
    CASE b.pos /\ a.pos ->
            IF ~compatible(a, b) THEN DISJOINT
            ELSE IF this \subseteq other THEN SUBSET_
            ELSE IF this \cap other = {} THEN DISJOINT
            ELSE OVERLAPPING
      [] b.pos /\ ~a.pos ->
            IF ~compatible(a, b) THEN OVERLAPPING
            ELSE IF other \subseteq this THEN DISJOINT
            ELSE OVERLAPPING
      [] ~b.pos /\ a.pos ->
            IF ~compatible(a, b) THEN SUBSET_
            ELSE IF this \cap other = {} THEN SUBSET_
            ELSE IF this \subseteq other THEN DISJOINT
            ELSE OVERLAPPING
      [] ~b.pos /\ ~a.pos ->
            IF ~compatible(a, b) THEN OVERLAPPING
            ELSE IF other \subseteq this THEN SUBSET_
            ELSE OVERLAPPING

\* termintersect(): a mixed pair gives the positive difference, two
\* positives their intersection, two negatives the negative intersection
\* mutant: a mixed pair keeps the positive term whole
termintersectLoose(a, b) ==
    IF a.pos # b.pos
    THEN LET pos == IF a.pos THEN a ELSE b IN Term(TRUE, a.pkg, pos.c, 0)
    ELSE Term(a.pos, a.pkg, a.c \cap b.c, 0)

termintersect(a, b) ==
    IF a.pos # b.pos
    THEN LET pos == IF a.pos THEN a ELSE b
             neg == IF a.pos THEN b ELSE a
         IN Term(TRUE, a.pkg, pos.c \ neg.c, 0)
    ELSE Term(a.pos, a.pkg, a.c \cap b.c, 0)

\* termdiff(): a intersected with the inverse of b
termdiff(a, b) == termintersect(a, [b EXCEPT !.pos = ~b.pos])

\* the first term of a list that is about package p
FirstOf(list, p) == SelectInSeq(list, LAMBDA t : t.pkg = p)

\* relation(): against the first positive term of the package, else the
\* first negative one, else OVERLAPPING
relation(t) ==
    LET kp == FirstOf(positive, t.pkg)
        kn == SelectInSeq(negative, LAMBDA n : n.term.pkg = t.pkg)
    IN IF kp # 0 THEN termrelation(positive[kp], t)
       ELSE IF kn # 0 THEN termrelation(negative[kn].term, t)
       ELSE OVERLAPPING

satisfies(t) == relation(t) = SUBSET_

-----------------------------------------------------------------------------
(* _register(): the effect of an assignment on the positive and negative   *)
(* lists.  Unlinking the old negative node only rewires its neighbours:    *)
(* a node whose prev is NULL (the head, or one whose predecessor was       *)
(* unlinked before) stays reachable from trans->negative, and its          *)
(* successor inherits the NULL prev.                                       *)

Unlink(neg, k) ==
    LET succ == IF k < Len(neg)
                THEN [neg EXCEPT ![k + 1].prevNull = neg[k].prevNull]
                ELSE neg
    IN IF neg[k].prevNull THEN succ ELSE RemoveAt(succ, k)

\* termq_add on the negative list: the new node's prev is the old tail
AddNegative(neg, t) == Append(neg, [term |-> t, prevNull |-> neg = <<>>])

\* <<positive', negative'>> after _register(a)
Register(a) ==
    LET t == a.term
        kp == FirstOf(positive, t.pkg)
        kn == SelectInSeq(negative, LAMBDA n : n.term.pkg = t.pkg)
        term == IF kn # 0 THEN termintersect(t, negative[kn].term) ELSE t
    IN IF kp # 0
       THEN <<[positive EXCEPT ![kp] = termintersect(positive[kp], t)], negative>>
       ELSE IF term.pos
       THEN <<Append(positive, term), IF kn # 0 THEN Unlink(negative, kn) ELSE negative>>
       ELSE IF kn # 0
       THEN <<positive, [negative EXCEPT ![kn].term = term]>>
       ELSE <<positive, AddNegative(negative, term)>>

\* _assign(): append to trans->assignments, then _register
Assign(a) ==
    LET r == Register(a) IN
    /\ assignments' = Append(assignments, a)
    /\ positive' = r[1]
    /\ negative' = r[2]

-----------------------------------------------------------------------------
(* propagateIncompat(): a term the partial solution contradicts makes the  *)
(* incompatibility useless, two inconclusive terms make it undecided, one  *)
(* inconclusive term is derived inverted, none is a conflict.              *)

Relations(ic) == [k \in 1..Len(ic.terms) |-> relation(ic.terms[k])]

Inconclusive(ic) == {k \in 1..Len(ic.terms) : Relations(ic)[k] = OVERLAPPING}

Outcome(ic) ==
    IF \E k \in 1..Len(ic.terms) : Relations(ic)[k] = DISJOINT THEN "nothing"
    ELSE CASE Cardinality(Inconclusive(ic)) >= 2 -> "nothing"
           [] Cardinality(Inconclusive(ic)) = 1  -> "unit"
           [] OTHER                              -> "conflict"

Unsatisfied(ic) == ic.terms[CHOOSE k \in Inconclusive(ic) : TRUE]

\* derive(): the inverse of the unsatisfied term, caused by incompat id
Derived(t, id) ==
    [level |-> level, index |-> 0, cause |-> id,
     term |-> Term(~t.pos, t.pkg, t.c, 0)]

-----------------------------------------------------------------------------
(* satisfier(): the first assignment of the term's package at which the    *)
(* intersection of that package's assignments so far satisfies the term;  *)
(* 0 where the code prints "[BUG] ... is not satisfied" and returns -1.    *)
RECURSIVE SatisfierFrom(_, _, _)
SatisfierFrom(t, k, acc) ==
    IF k > Len(assignments) THEN 0
    ELSE IF assignments[k].term.pkg # t.pkg THEN SatisfierFrom(t, k + 1, acc)
    ELSE LET next == IF acc = NoVer THEN assignments[k].term
                     ELSE termintersect(acc, assignments[k].term)
         IN IF termrelation(next, t) = SUBSET_ THEN k
            ELSE SatisfierFrom(t, k + 1, next)

satisfier(t) == SatisfierFrom(t, 1, NoVer)

isfailure(ic) == ic.terms = <<>> \/ (Len(ic.terms) = 1 /\ ic.terms[1].pkg = Root)

-----------------------------------------------------------------------------
(* versions(): the installed version first, then the repository one if it  *)
(* differs; none at all is the error path (versions[0] == NULL).           *)
VersionsOf(p) ==
    LET pv == u.inst[p]  rv == u.repo[p] IN
    CASE pv # NoVer /\ rv # NoVer /\ pv # rv -> <<pv, rv>>
      [] pv # NoVer -> <<pv>>
      [] rv # NoVer -> <<rv>>
      [] OTHER -> <<>>

\* versions() fails for a package not yet in PkgHash that nobody provides
Unavailable(p) == p \notin created /\ VersionsOf(p) = <<>>

\* bestversion(): pkg->hold is never set, so the last version of the array
\* the constraint allows (the repository one before the installed one)
bestversion(p, c) ==
    LET k == SelectLastInSeq(versions[p], LAMBDA v : v \in c) IN
    IF k = 0 THEN NoVer ELSE versions[p][k]

\* dependency(): {depender at its version, not target at targetvers}, its
\* two terms allocated as ids n + 1 and n + 2
Dependency(depender, dv, target, tv, n) ==
    [terms |-> <<Term(TRUE, depender, {dv}, n + 1), Term(FALSE, target, tv, n + 2)>>,
     cause |-> CauseDependency]

\* mutant: the last dependency of the list is left out
DepIncsShort(depender, dv, ds) ==
    [k \in 1..Len(ds) - 1 |-> Dependency(depender, dv, ds[k][1], ds[k][2], nterms + 2 * (k - 1))]

\* the incompatibilities of a list of <<target, targetvers>>, in order
DepIncs(depender, dv, ds) ==
    [k \in 1..Len(ds) |-> Dependency(depender, dv, ds[k][1], ds[k][2], nterms + 2 * (k - 1))]

\* pkg_add_incompat(term->pkg, incompat) for each term of incompat id
IdsFor(ic, id, p) == [j \in 1..Cardinality({j \in 1..Len(ic.terms) : ic.terms[j].pkg = p}) |-> id]

\* mutant: incompatibility ids counted from Len(inc) + 2
AddIncompatsOff(recs) ==
    /\ inc' = inc \o recs
    /\ incompats' = [p \in AllPkgs |->
          incompats[p] \o FlattenSeq([k \in 1..Len(recs) |-> IdsFor(recs[k], Len(inc) + k + 1, p)])]

\* addincompatibility() for each new incompatibility, ids following Len(inc)
AddIncompats(recs) ==
    /\ inc' = inc \o recs
    /\ incompats' = [p \in AllPkgs |->
          incompats[p] \o FlattenSeq([k \in 1..Len(recs) |-> IdsFor(recs[k], Len(inc) + k, p)])]

\* lookupPkg() / addPkg() / versions() for packages met for the first time
Create(ps) ==
    /\ created' = created \cup ps
    /\ versions' = [p \in Pkgs |-> IF p \in ps \ created THEN VersionsOf(p) ELSE versions[p]]

-----------------------------------------------------------------------------
(* xbps_transaction_init1(): trans zeroed, the root package with its       *)
(* version; the universe is whatever the handle's pkgdb and rpool hold.    *)
Init ==
    /\ u \in Universes
    /\ created = {}
    /\ versions = [p \in Pkgs |-> <<>>]
    /\ listed = [p \in Pkgs |-> {}]
    /\ incompats = [p \in AllPkgs |-> <<>>]
    /\ inc = <<>>
    /\ positive = <<>>
    /\ negative = <<>>
    /\ assignments = <<>>
    /\ decisions = [p \in AllPkgs |-> NoVer]
    /\ level = 0
    /\ nterms = 0
    /\ pc = "solve"
    /\ changed = <<>>
    /\ cur = Root
    /\ i = 0
    /\ rinc = [terms |-> <<>>, cause |-> CauseRoot]
    /\ rorig = 0
    /\ newTerms = <<>>
    /\ newIncompat = FALSE
    /\ result = "none"

Finish(r) == pc' = "done" /\ result' = r

\* solve stopped: nothing but the return value changes (Halt leaves the
\* incompatibility store to the caller)
Halt(r) ==
    /\ Finish(r)
    /\ UNCHANGED <<u, created, versions, listed, positive, negative, assignments,
                   decisions, level, nterms, changed, cur, i, rinc, rorig, newTerms,
                   newIncompat>>

Stop(r) == Halt(r) /\ UNCHANGED <<inc, incompats>>

\* entry of xbps_transaction_solve: the root incompatibility {not root 0},
\* then propagate(root)
SolveStart ==
    /\ pc = "solve"
    /\ IF ~ConstraintsBuilt
       THEN Stop("-1")
       ELSE /\ inc' = <<[terms |-> <<Term(FALSE, Root, {RootV}, 1)>>, cause |-> CauseRoot]>>
            /\ incompats' = [incompats EXCEPT ![Root] = <<1>>]
            /\ nterms' = 1
            /\ changed' = <<Root>>
            /\ pc' = "propagate"
            /\ UNCHANGED <<u, created, versions, listed, positive, negative, assignments,
                           decisions, level, cur, i, rinc, rorig, newTerms,
                           newIncompat, result>>

\* mutant: the package is read but left on the queue
PropagatePopStuck ==
    /\ pc = "propagate"
    /\ IF changed = <<>>
       THEN pc' = "choose" /\ UNCHANGED <<changed, cur, i>>
       ELSE /\ cur' = Head(changed)
            /\ i' = Len(incompats[Head(changed)])
            /\ pc' = "incompat"
            /\ UNCHANGED changed
    /\ UNCHANGED <<u, created, versions, listed, incompats, inc, positive, negative,
                   assignments, decisions, level, nterms, rinc, rorig, newTerms,
                   newIncompat, result>>

\* pkgq_add(): the package appended at the tail of the queue
pkgq_add(q, p) == Append(q, p)

\* pkgq_pop(): the head's package and the rest of the queue
pkgq_pop(q) == <<Head(q), Tail(q)>>

\* head of the while loop of propagate(): pop a changed package, or return 0
PropagatePop ==
    /\ pc = "propagate"
    /\ IF changed = <<>>
       THEN pc' = "choose" /\ UNCHANGED <<changed, cur, i>>
       ELSE /\ cur' = pkgq_pop(changed)[1]
            /\ changed' = pkgq_pop(changed)[2]
            /\ i' = Len(incompats[cur'])
            /\ pc' = "incompat"
    /\ UNCHANGED <<u, created, versions, listed, incompats, inc, positive, negative,
                   assignments, decisions, level, nterms, rinc, rorig, newTerms,
                   newIncompat, result>>

\* one iteration of the for loop: propagateIncompat(cur->incompats[i-1])
PropagateIncompat ==
    /\ pc = "incompat"
    /\ LET id == incompats[cur][i]
           ic == inc[id]
       IN
       IF i = 0
       THEN /\ pc' = "propagate"
            /\ UNCHANGED <<assignments, positive, negative, changed, i, rinc, rorig,
                           newTerms, newIncompat>>
       ELSE CASE Outcome(ic) = "nothing" ->
                   /\ i' = i - 1
                   /\ UNCHANGED <<pc, assignments, positive, negative, changed, rinc, rorig, newTerms, newIncompat>>
              [] Outcome(ic) = "unit" ->
                   /\ Assign(Derived(Unsatisfied(ic), id))
                   /\ changed' = pkgq_add(changed, Unsatisfied(ic).pkg)
                   /\ i' = i - 1
                   /\ UNCHANGED <<pc, rinc, rorig, newTerms, newIncompat>>
              [] OTHER ->
                   /\ pc' = "resolve"
                   /\ rinc' = ic
                   /\ rorig' = id
                   /\ newTerms' = <<>>
                   /\ newIncompat' = FALSE
                   /\ UNCHANGED <<assignments, positive, negative, changed, i>>
    /\ UNCHANGED <<u, created, versions, listed, incompats, inc, decisions, level,
                   nterms, cur, result>>

-----------------------------------------------------------------------------
(* resolve(): one iteration of its while loop.  Every assignment has level *)
(* trans->level, which nothing increments, and index 0, which nothing     *)
(* sets; so recentSatisfier stays the satisfier of the first term,        *)
(* prevLevel stays 1, and the loop returns only when that satisfier is a  *)
(* decision (cause NULL).  From the second iteration on, incompat->terms  *)
(* is the list newTerms itself, which "resolve 2" appends to while it     *)
(* walks it.                                                               *)

Lvl(k) == assignments[k].level

\* back in propagate after resolve returned 0: the queue is dropped and the
\* conflicting incompatibility propagated again; what it yields (possibly
\* NULL) is the only package queued
Repropagate(ic, id) ==
    CASE Outcome(ic) = "conflict" ->
           Halt("broke")
      [] Outcome(ic) = "unit" ->
           /\ Assign(Derived(Unsatisfied(ic), id))
           /\ changed' = <<Unsatisfied(ic).pkg>>
           /\ pc' = "propagate"
           /\ UNCHANGED <<u, created, versions, listed, decisions, level, nterms, cur,
                          i, rinc, rorig, newTerms, newIncompat, result>>
      [] OTHER ->
           \* a NULL package is queued and popped: cur->name faults
           Halt("crash")

ResolveRound ==
    /\ pc = "resolve"
    /\ LET T    == rinc.terms
           sats == [k \in 1..Len(T) |-> satisfier(T[k])]
           rs   == sats[1]
           diff == termdiff(assignments[rs].term, T[1])
           sd   == satisfier(diff)
           prevLevel == LET ls == {1} \cup {Lvl(sats[k]) : k \in 2..Len(T)} \cup {Lvl(sd)}
                        IN CHOOSE m \in ls : \A x \in ls : x <= m
           backjump == prevLevel < Lvl(rs) \/ assignments[rs].cause = 0
           rest == SelectSeq(T, LAMBDA t : t.id # T[1].id)
           cause == inc[assignments[rs].cause]
           fromCause == SelectSeq(cause.terms, LAMBDA t : t.pkg # assignments[rs].term.pkg)
           negDiff == [diff EXCEPT !.pos = ~diff.pos, !.id = nterms + 1]
           grown == newTerms \o (IF newIncompat THEN <<>> ELSE rest) \o fromCause \o <<negDiff>>
       IN
       CASE isfailure(rinc) ->
              \* "failed to resolve incompatibility"; abort()
              Stop("abort")
         [] (\E k \in 1..Len(T) : sats[k] = 0) \/ sd = 0 ->
              \* resolve returns -1, so does propagate: the solve loop breaks
              Stop("broke")
         [] backjump /\ ~newIncompat ->
              /\ Repropagate(inc[rorig], rorig)
              /\ UNCHANGED <<inc, incompats>>
         [] backjump /\ newIncompat ->
              \* the learned incompatibility is added to its packages first
              /\ AddIncompats(<<rinc>>)
              /\ Repropagate(inc'[rorig], rorig)
         [] newIncompat /\ rest # <<>> ->
              \* "resolve 2" walks newTerms while appending a calloc'ed node
              \* per element walked: calloc fails at last (termq_add returns
              \* -1, resolve and propagate return -1, the solve loop breaks)
              \* or the process is killed for want of memory
              \E r \in {"broke", "killed"} : Stop(r)
         [] OTHER ->
              /\ nterms < MaxTerms
              /\ nterms' = nterms + 1
              /\ newTerms' = grown
              /\ rinc' = [terms |-> grown, cause |-> CauseConflict]
              /\ newIncompat' = TRUE
              /\ UNCHANGED <<u, created, versions, listed, incompats, inc, positive,
                             negative, assignments, decisions, level, pc, changed, cur,
                             i, rorig, result>>

-----------------------------------------------------------------------------
(* choose(): the first positive term whose package is undecided (the       *)
(* fewest-versions heuristic never applies: nversions stays 0, so the     *)
(* loop breaks at the first candidate).                                    *)

\* decide(): the decision, and the assignment {pkg at version} with no cause
Decide(p, v) ==
    /\ decisions' = [decisions EXCEPT ![p] = v]
    /\ Assign([level |-> level, index |-> 0, cause |-> 0, term |-> Term(TRUE, p, {v}, 0)])

\* dependency() adds the depender term and then, unless a conflict was seen,
\* asks whether the partial solution satisfies it
Conflict(p, v, n) == n > 0 /\ ~satisfies(Term(TRUE, p, {v}, 0))

\* mutant: the decided package is not handed to propagate()
ChosenNoQueue(p, v, n) ==
    /\ IF Conflict(p, v, n) THEN UNCHANGED <<decisions, assignments, positive, negative>>
                            ELSE Decide(p, v)
    /\ changed' = <<>>
    /\ pc' = "propagate"
    /\ UNCHANGED result

\* the end of choose(): decide unless there was a conflict, and hand the
\* package to the next propagate()
Chosen(p, v, n) ==
    /\ IF Conflict(p, v, n) THEN UNCHANGED <<decisions, assignments, positive, negative>>
                            ELSE Decide(p, v)
    /\ changed' = <<p>>
    /\ pc' = "propagate"
    /\ UNCHANGED result

\* the root: rootincompatibilites() for every pkgdb entry not installed
\* automatically, {root at 0, not pkg at its versions}
ChooseRoot ==
    LET ps == SelectSeq(u.order, LAMBDA p : p \notin u.auto)
        ds == [k \in 1..Len(ps) |-> <<ps[k], ToSet(VersionsOf(ps[k]))>>]
    IN /\ Create(ToSet(ps))
       /\ AddIncompats(DepIncs(Root, RootV, ds))
       /\ nterms' = nterms + 2 * Len(ds)
       /\ Chosen(Root, RootV, Len(ds))
       /\ UNCHANGED listed

\* no version allowed: notfound() adds {pkg at any version}
ChooseNotFound(p) ==
    /\ nterms' = nterms + 1
    /\ AddIncompats(<<[terms |-> <<Term(TRUE, p, AllVers, nterms + 1)>>, cause |-> CauseNotFound]>>)
    /\ changed' = <<p>>
    /\ pc' = "propagate"
    /\ UNCHANGED <<created, versions, listed, decisions, assignments, positive, negative,
                   result>>

\* incompatibilites() -> dependencies() of pkg at v: nothing if listed,
\* else the run_depends in order; a dependency nobody provides makes
\* versions() fail and choose() return -1
ChooseVersion(p, v) ==
    LET ds == u.deps[p][v]
        f  == SelectInSeq(ds, LAMBDA d : Unavailable(d[1]))
    IN CASE v \in listed[p] ->
              /\ Chosen(p, v, 0)
              /\ UNCHANGED <<created, versions, listed, incompats, inc, nterms>>
         [] f # 0 ->
              /\ Stop("errno")
         [] OTHER ->
              /\ Create({d[1] : d \in ToSet(ds)})
              /\ AddIncompats(DepIncs(p, v, ds))
              /\ nterms' = nterms + 2 * Len(ds)
              /\ listed' = [listed EXCEPT ![p] = @ \cup {v}]
              /\ Chosen(p, v, Len(ds))

Choose ==
    /\ pc = "choose"
    /\ LET k == SelectInSeq(positive, LAMBDA t : decisions[t.pkg] = NoVer) IN
       IF k = 0
       THEN Stop("solved")
       ELSE LET p == positive[k].pkg
                v == IF p = Root THEN RootV ELSE bestversion(p, positive[k].c)
            IN /\ CASE p = Root   -> ChooseRoot
                    [] v = NoVer  -> ChooseNotFound(p)
                    [] OTHER      -> ChooseVersion(p, v)
               /\ nterms' <= MaxTerms
               /\ UNCHANGED <<u, level, cur, i, rinc, rorig, newTerms, newIncompat>>

Next ==
    \/ SolveStart
    \/ PropagatePop
    \/ PropagateIncompat
    \/ ResolveRound
    \/ Choose

Spec == Init /\ [][Next]_vars /\ WF_vars(Next)

-----------------------------------------------------------------------------
(* What a solve should produce (spec sections 4.2 and 8): a version for    *)
(* every package installed manually, each chosen version one the pkgdb or *)
(* the repository offers, and every run_depends of a chosen version met    *)
(* by the version chosen for its target.                                   *)
Sound(sel) ==
    /\ \A p \in Pkgs : sel[p] # NoVer => sel[p] \in ToSet(VersionsOf(p))
    /\ \A p \in ToSet(u.order) \ u.auto : sel[p] # NoVer
    /\ \A p \in Pkgs : sel[p] # NoVer =>
          \A k \in 1..Len(u.deps[p][sel[p]]) :
             sel[u.deps[p][sel[p]][k][1]] \in u.deps[p][sel[p]][k][2]

Satisfiable == \E sel \in [Pkgs -> Vers \cup {NoVer}] : Sound(sel)

Selection == [p \in Pkgs |-> decisions[p]]

\* xbps_transaction_solve returned 0 (through choose() finding nothing, or
\* through propagate() failing and the loop breaking)
ReturnedZero == pc = "done" /\ result \in {"solved", "broke"}

\* the assignments of package p, and the term they add up to (PubGrub's
\* partial solution): positive if any is, allowing what every positive one
\* allows and no negative one names; else negative, naming every version
\* some negative one names
AssignedTo(p) == {assignments[k].term : k \in {k \in 1..Len(assignments) : assignments[k].term.pkg = p}}
Meet(p) ==
    LET pos == {t \in AssignedTo(p) : t.pos}
        neg == {t \in AssignedTo(p) : ~t.pos}
        ex  == UNION {t.c : t \in neg}
    IN IF pos # {}
       THEN [pos |-> TRUE, c |-> {v \in AllVers : \A t \in pos : v \in t.c} \ ex]
       ELSE [pos |-> FALSE, c |-> ex]

\* the term relation() and _register() use for p
InForce(p) ==
    LET kp == FirstOf(positive, p)
        kn == SelectInSeq(negative, LAMBDA n : n.term.pkg = p)
    IN IF kp # 0 THEN positive[kp] ELSE negative[kn].term

-----------------------------------------------------------------------------
TypeOK ==
    /\ pc \in {"solve", "propagate", "incompat", "resolve", "choose", "done"}
    /\ result \in {"none", "-1", "solved", "broke", "errno", "abort", "crash", "killed"}
    /\ created \subseteq Pkgs
    /\ decisions \in [AllPkgs -> AllVers \cup {NoVer}]
    /\ \A k \in 1..Len(assignments) : assignments[k].cause \in 0..Len(inc)
    /\ \A p \in AllPkgs : \A k \in 1..Len(incompats[p]) : incompats[p][k] \in 1..Len(inc)
    /\ nterms \in 0..MaxTerms

(* When choose() runs, propagate() has reached its fixpoint: no registered *)
(* incompatibility is almost satisfied or satisfied by the partial         *)
(* solution.  This rests on every derivation and decision queueing its     *)
(* package, on the queue being drained, and on choose() registering new    *)
(* incompatibilities only on the package it hands to the next propagate.   *)
PropagationFixpoint ==
    pc = "choose" =>
        \A p \in AllPkgs : \A k \in 1..Len(incompats[p]) :
            Outcome(inc[incompats[p][k]]) = "nothing"

(* The term _register() keeps in force for each package (first in the     *)
(* positive list, else first in the negative list, whose stale head is    *)
(* never unlinked) is the meet of all the package's assignments: the      *)
(* intersections termintersect() builds lose nothing and the stale        *)
(* negative node is never the one consulted.                               *)
TermsMatchAssignments ==
    \A p \in AllPkgs :
        AssignedTo(p) # {} =>
            /\ InForce(p).pos = Meet(p).pos
            /\ InForce(p).c = Meet(p).c

(* A solve that ends because choose() finds no undecided package returns  *)
(* decisions that install every manual package and meet every dependency  *)
(* of every decided version.                                               *)
SolvedSound ==
    pc = "done" /\ result = "solved" => Sound(Selection)

====
