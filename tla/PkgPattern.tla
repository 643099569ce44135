----------------------------- MODULE PkgPattern -----------------------------
(***************************************************************************)
(* The package patterns of lib/version.c: xbps_pkgpattern_parse and        *)
(* xbps_pkgpattern_match as pure operators over strings of one-character   *)
(* strings, and the spec's reading of a pattern (sections 3 and 6) as the  *)
(* reference.  A pointer into a string is a 1-based position, 0 for NULL.  *)
(*                                                                         *)
(* xbps_version_cmpn is called here as a function: its three loops as     *)
(* recursive operators over VersionCmp's xbps_version_component, the same *)
(* steps the VersionCmp state machine takes one at a time.  The fnmatch   *)
(* branch for patterns with * ? [ ] calls libc and is not modelled: no     *)
(* input pattern has those bytes.                                          *)
(***************************************************************************)
EXTENDS VersionCmp, SequencesExt

CONSTANTS PatternCases,  \* records [pkg, pat, name, lo, loinc, hi, hiinc]
          CmpverArgs     \* plain versions and NAME-V strings for xbps_cmpver

\* strpbrk(pattern, "*?[]") sends a pattern to fnmatch
Glob == {"*", "?", "[", "]"}
ASSUME \A c \in PatternCases : \A i \in 1..Len(c.pat) : c.pat[i] \notin Glob

\* strchr(s + from - 1, c): the first c at or after from, 0 for none
strchr(s, from, c) ==
    IF from > Len(s) THEN 0 ELSE SelectInSubSeq(s, from, Len(s), LAMBDA x : x = c)

\* a bound that does not skip the '=' of ">=" or "<="
BoundNoEq(s, at) == [pos |-> at + 1, inc |-> Char(s, at + 1) = "="]

\* the position just past a '>' or '<' followed by '=', and that flag
Bound(s, at) == [pos |-> at + (IF Char(s, at + 1) = "=" THEN 2 ELSE 1),
                 inc |-> Char(s, at + 1) = "="]

\* xbps_pkgpattern_parse: the name's length and the two bounds, each a
\* position, a length and an inclusive flag; ok = FALSE for no '<', '>', '-'
xbps_pkgpattern_parse(pat) ==
    LET op   == SelectInSeq(pat, LAMBDA c : c \in {"<", ">"})
        p    == IF op # 0 THEN op ELSE SelectLastInSeq(pat, LAMBDA c : c = "-")
        from == IF Char(pat, p) = "-" THEN p + 1 ELSE p
        gt   == strchr(pat, from, ">")
        lo   == Bound(pat, gt)
        ltlo == IF gt # 0 THEN strchr(pat, lo.pos, "<") ELSE 0
        lt   == IF ltlo # 0 THEN ltlo ELSE strchr(pat, from, "<")
        hi   == Bound(pat, lt)
        rest(i) == Len(pat) - i + 1
    IN
    CASE p = 0 -> [ok |-> FALSE]
      [] gt = 0 /\ lt = 0 ->
           [ok |-> TRUE, namelen |-> p - 1,
            min |-> from, minlen |-> rest(from), mininc |-> TRUE,
            max |-> from, maxlen |-> rest(from), maxinc |-> TRUE]
      [] OTHER ->
           [ok |-> TRUE, namelen |-> p - 1,
            min |-> IF gt = 0 THEN 0 ELSE lo.pos,
            minlen |-> CASE gt = 0 -> 0 [] ltlo # 0 -> ltlo - lo.pos
                         [] OTHER -> rest(lo.pos),
            mininc |-> gt # 0 /\ lo.inc,
            max |-> IF lt = 0 THEN 0 ELSE hi.pos,
            maxlen |-> IF lt = 0 THEN 0 ELSE rest(hi.pos),
            maxinc |-> lt # 0 /\ hi.inc]

\* the revisions decide once both sides are at their end
Revisions(pa, pb) == LET cmp == Wrap(pa.rev - pb.rev) IN IF cmp = 0 THEN 0 ELSE Sign(cmp)

\* the rest of one side against 0 (the sign reversed for pb)
RECURSIVE RestA(_, _)
RestA(pa, pb) ==
    IF AtEnd(pa) THEN Revisions(pa, pb)
    ELSE LET ra == xbps_version_component(pa) IN
         IF ra[1] # 0 THEN Sign(ra[1]) ELSE RestA(ra[2], pb)
RECURSIVE RestB(_, _)
RestB(pa, pb) ==
    IF AtEnd(pb) THEN Revisions(pa, pb)
    ELSE LET rb == xbps_version_component(pb) IN
         IF rb[1] # 0 THEN -Sign(rb[1]) ELSE RestB(pa, rb[2])

\* the first loop of xbps_version_cmpn, then whichever side is left
RECURSIVE BothLoop(_, _)
BothLoop(pa, pb) ==
    CASE ~AtEnd(pa) /\ ~AtEnd(pb) ->
           LET ra == xbps_version_component(pa)
               rb == xbps_version_component(pb)
               cmp == Wrap(ra[1] - rb[1])
           IN  IF cmp # 0 THEN Sign(cmp) ELSE BothLoop(ra[2], rb[2])
      [] ~AtEnd(pa) -> RestA(pa, pb)
      [] ~AtEnd(pb) -> RestB(pa, pb)
      [] OTHER     -> Revisions(pa, pb)

\* xbps_version_cmpn(version, NULL, s + at - 1, s + at - 1 + len)
Cmpn(version, s, at, len) ==
    BothLoop(NewParser(version, 0), NewParser(SubSeq(s, at, Len(s)), len + 1))

\* strrchr(pkg, '-'): the last '-', 0 for NULL
LastDash(s) == SelectLastInSeq(s, LAMBDA c : c = "-")

\* a NULL string with a NULL end: the parser starts with p = e
NullParser == NewParser(<<>>, 1)

\* a mutant: only the lengths of the names are asserted equal
CmpverAssertsLenOnly(pkg1, pkg2) ==
    LET av == LastDash(pkg1)
        bv == LastDash(pkg2)
    IN  (av = 0 /\ bv = 0) \/ (av # 0 /\ bv # 0 /\ av - 1 = bv - 1)

\* the asserts of xbps_cmpver hold: two plain versions, or two pkgvers
\* whose names have the same length and the same bytes
CmpverAsserts(pkg1, pkg2) ==
    LET av == LastDash(pkg1)
        bv == LastDash(pkg2)
    IN  \/ av = 0 /\ bv = 0
        \/ /\ av # 0 /\ bv # 0
           /\ av - 1 = bv - 1
           /\ SubSeq(pkg1, 1, av - 1) = SubSeq(pkg2, 1, bv - 1)

\* what xbps_cmpver returns once past its asserts (always, in a build with
\* NDEBUG): the versions from just past the '-', or the whole strings;
\* for a pkgver against a plain version the pointers stay as strrchr left
\* them, NULL for the one and the '-' for the other
xbps_cmpver(pkg1, pkg2) ==
    LET av == LastDash(pkg1)
        bv == LastDash(pkg2)
        From(s, i) == NewParser(SubSeq(s, i, Len(s)), 0)
        Ptr(s, i)  == IF i = 0 THEN NullParser ELSE From(s, i)
        cmp == CASE av = 0 /\ bv = 0   -> BothLoop(From(pkg1, 1), From(pkg2, 1))
                 [] av # 0 /\ bv # 0   -> BothLoop(From(pkg1, av + 1), From(pkg2, bv + 1))
                 [] OTHER             -> BothLoop(Ptr(pkg1, av), Ptr(pkg2, bv))
    IN  CASE cmp = 0 -> 0 [] cmp < 0 -> -1 [] OTHER -> 1

\* xbps_pkgpattern_match on a pattern without glob bytes: 1 or 0
xbps_pkgpattern_match(pkg, pat) ==
    LET r    == xbps_pkgpattern_parse(pat)
        dash == LastDash(pkg)
        version == SubSeq(pkg, dash + 1, Len(pkg))
        lowcmp  == Cmpn(version, pat, r.min, r.minlen)
        highcmp == Cmpn(version, pat, r.max, r.maxlen)
    IN
    CASE pat = pkg -> 1
      [] ~r.ok -> 0
      [] dash = 0 -> 0
      [] r.namelen # dash - 1 \/ SubSeq(pkg, 1, r.namelen) # SubSeq(pat, 1, r.namelen) -> 0
      [] r.min = r.max -> IF lowcmp = 0 THEN 1 ELSE 0
      [] r.min # 0 /\ (lowcmp < 0 \/ (lowcmp = 0 /\ ~r.mininc)) -> 0
      [] r.max # 0 /\ (highcmp > 0 \/ (highcmp = 0 /\ ~r.maxinc)) -> 0
      [] OTHER -> 1

-----------------------------------------------------------------------------
(* Reference.  A case names the package the pattern was written for and   *)
(* its interval: lo and hi are version strings or <<>> for no bound.  The  *)
(* spec: a NAME-V string matches when it equals the pattern, or when its   *)
(* name is the pattern's and its version lies in the interval, bounds      *)
(* included as the operators say.                                          *)

VCmp(x, y) == RefCmp([s1 |-> x, e1 |-> 0, s2 |-> y, e2 |-> 0])

SpecMatch(c) ==
    LET dash == SelectLastInSeq(c.pkg, LAMBDA x : x = "-")
        name == SubSeq(c.pkg, 1, dash - 1)
        ver  == SubSeq(c.pkg, dash + 1, Len(c.pkg))
        Above == c.lo = <<>> \/ VCmp(ver, c.lo) > 0 \/ (VCmp(ver, c.lo) = 0 /\ c.loinc)
        Below == c.hi = <<>> \/ VCmp(ver, c.hi) < 0 \/ (VCmp(ver, c.hi) = 0 /\ c.hiinc)
    IN  c.pat = c.pkg \/ (dash # 0 /\ name = c.name /\ Above /\ Below)

(* xbps_pkgpattern_match answers as the spec reads the pattern: for every  *)
(* NAME-V string and every pattern NAME-V, NAME>V, NAME>=V, NAME<V,        *)
(* NAME<=V or NAME>A<B (names with and without '-'), the code's parse of   *)
(* the name, the operators and the bound lengths, and its comparisons,     *)
(* give 1 exactly when the package lies in the pattern's interval.  The    *)
(* operators are pure, so the cases are evaluated once (PatternsAgree is a *)
(* constant) and stated of every state where the comparisons are done.     *)
PatternsAgree ==
    \A c \in PatternCases : (xbps_pkgpattern_match(c.pkg, c.pat) = 1) = SpecMatch(c)

PatternMatchesSpec == Done => PatternsAgree

(* xbps_cmpver, as its comment promises, compares the version parts of two *)
(* pkgvers, or two plain versions, as the spec orders versions: -1, 0 or 1 *)
(* by the version after the last '-', whatever '-' the name holds; and its *)
(* asserts stop exactly the calls that mix a pkgver with a plain version   *)
(* or pair two different names (two names that differ only past the       *)
(* first '-' included).                                                    *)
Ver(s) == IF LastDash(s) = 0 THEN s ELSE SubSeq(s, LastDash(s) + 1, Len(s))
Name(s) == IF LastDash(s) = 0 THEN <<>> ELSE SubSeq(s, 1, LastDash(s) - 1)
SameKind(x, y) == (LastDash(x) = 0) = (LastDash(y) = 0) /\ Name(x) = Name(y)
CmpverAgrees ==
    \A x, y \in CmpverArgs :
        /\ CmpverAsserts(x, y) = SameKind(x, y)
        /\ SameKind(x, y) => xbps_cmpver(x, y) = VCmp(Ver(x), Ver(y))

CmpverMatchesSpec == Done => CmpverAgrees

=============================================================================
