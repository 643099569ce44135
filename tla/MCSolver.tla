------------------------------ MODULE MCSolver ------------------------------
(***************************************************************************)
(* Universes for Solver: three packages, versions 1 and 2.  Each universe  *)
(* is one pkgdb plus repository pool; the solve starts from it after       *)
(* xbps_transaction_init1.                                                 *)
(***************************************************************************)
EXTENDS Solver, TLC

CONSTANTS A, B, C

NoDeps == [p \in Pkgs |-> [v \in Vers |-> <<>>]]
None == [p \in Pkgs |-> NoVer]

\* a pkgdb (installed versions, in iteration order), a repository and deps
U(inst, repo, auto, deps) ==
    [inst |-> inst, repo |-> repo, auto |-> auto, deps |-> deps,
     order |-> SelectSeq(<<A, B, C>>, LAMBDA p : inst[p] # NoVer)]

Dep(p, v, ds) == [NoDeps EXCEPT ![p][v] = ds]

Scenarios == {
  \* nothing installed
  U(None, None, {}, NoDeps),
  \* one package, no dependencies
  U([None EXCEPT ![A] = 1], None, {}, NoDeps),
  \* installed automatically: left out of the root incompatibilities
  U([None EXCEPT ![A] = 1], None, {A}, NoDeps),
  \* A depends on B, which the repository has
  U([None EXCEPT ![A] = 1], [None EXCEPT ![B] = 1], {}, Dep(A, 1, <<<<B, {1, 2}>>>>)),
  \* A depends on B>=2, the repository has B-1 only
  U([None EXCEPT ![A] = 1], [None EXCEPT ![B] = 1], {}, Dep(A, 1, <<<<B, {2}>>>>)),
  \* A depends on B, which nobody has
  U([None EXCEPT ![A] = 1], None, {}, Dep(A, 1, <<<<B, {1, 2}>>>>)),
  \* A-1 installed, A-2 in the repository needing B-1
  U([None EXCEPT ![A] = 1], [None EXCEPT ![A] = 2, ![B] = 1], {},
    Dep(A, 2, <<<<B, {1}>>>>)),
  \* A-2 in the repository needs B-2, which nobody has; A-1 would do
  U([None EXCEPT ![A] = 1], [None EXCEPT ![A] = 2, ![B] = 1], {},
    Dep(A, 2, <<<<B, {2}>>>>)),
  \* A needs C-1, B needs C-2, C-1 installed and C-2 in the repository
  U([None EXCEPT ![A] = 1, ![B] = 1, ![C] = 1], [None EXCEPT ![C] = 2], {C},
    [NoDeps EXCEPT ![A][1] = <<<<C, {1}>>>>, ![B][1] = <<<<C, {2}>>>>]),
  \* a chain A -> B -> C
  U([None EXCEPT ![A] = 1], [None EXCEPT ![B] = 1, ![C] = 2], {},
    [NoDeps EXCEPT ![A][1] = <<<<B, {1}>>>>, ![B][1] = <<<<C, {1, 2}>>>>])
}

\* generated: A installed at 1, B and C maybe installed at 1 (C then
\* automatically); A and B maybe at 2 in the repository, C at 1 or 2; A's
\* versions depend on nothing, on B or on one version of C, B's on C
RunDeps(p) == {<<>>} \cup {<<<<q, c>>>> : q \in {B, C} \ {p}, c \in {{1}, {2}}}
              \cup (IF p = A THEN {<<<<B, {1, 2}>>>>} ELSE {})
Generated ==
  { U(A :> 1 @@ B :> ib @@ C :> ic, A :> ra @@ B :> rb @@ C :> rc,
      IF ic = NoVer THEN {} ELSE {C},
      A :> (1 :> a1 @@ 2 :> a2) @@ B :> (1 :> b1 @@ 2 :> b2) @@ C :> (1 :> <<>> @@ 2 :> <<>>)) :
      ib \in {NoVer, 1}, ic \in {NoVer, 1}, ra \in {NoVer, 2}, rb \in {NoVer, 2},
      rc \in {NoVer, 1, 2}, a1 \in RunDeps(A), a2 \in RunDeps(A),
      b1 \in RunDeps(B), b2 \in RunDeps(B) }

MCUniverses == Scenarios \cup Generated

\* for the liveness run: the hand-written universes and the generated ones
\* where B and C are not installed and A has no second version
LiveUniverses ==
    Scenarios \cup {g \in Generated : g.inst[B] = NoVer /\ g.inst[C] = NoVer /\ g.repo[A] = NoVer}
=============================================================================
