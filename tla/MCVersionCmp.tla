--------------------------- MODULE MCVersionCmp ---------------------------
(***************************************************************************)
(* Inputs for VersionCmp: version strings put together from a few chunks   *)
(* (numbers, separators, single letters, each keyword), compared with      *)
(* NULL ends and with every end position up to just past the terminator,  *)
(* plus the calls of the test suite tests/xbps/libxbps/version/main.c.     *)
(* MCInputsOther adds a byte the parser ignores; MCInputsDiverge is both. *)
(* MCPatternCases pairs every pattern form with NAME-V strings.            *)
(***************************************************************************)
EXTENDS PkgPattern

S(w) == w   \* a string, written as a tuple of one-character strings

Chunks == { <<"1">>, <<"2">>, <<"1", "2">>, <<"9", "9">>, <<".">>, <<"_">>,
            <<"a">>, <<"b">>, <<"p">>, <<"r", "c">>, <<"p", "l">>,
            <<"p", "r", "e">>, <<"b", "e", "t", "a">>,
            <<"a", "l", "p", "h", "a">> }

\* a byte neither digit, letter, ".", "_" nor NUL
Other == <<"-">>

Pieces == Chunks \cup {<<>>}

\* strings of at most two chunks
Strings == { x \o y : x, y \in Pieces }

\* NULL, or an end anywhere from the first byte to past the terminator
Ends(s) == {0} \cup 1..Len(s) + 2

Unbounded == { [s1 |-> x, e1 |-> 0, s2 |-> y, e2 |-> 0] : x, y \in Strings }

Bounded == UNION { { [s1 |-> x, e1 |-> i, s2 |-> y, e2 |-> j] :
                       i \in Ends(x), j \in Ends(y) } : x, y \in Pieces }

\* TEST(a, an, b, bn, r) of the test suite: ends are a+an and b+bn
T(x, n, y, m) == [s1 |-> x, e1 |-> n + 1, s2 |-> y, e2 |-> m + 1]
SuiteCalls ==
  { T(<<"9", "2", "3">>, 1, <<"9">>, 1), T(<<"9", "2", "3">>, 3, <<"9">>, 1),
    T(<<"1", "_", "1">>, 3, <<"1", "_", "1">>, 1),
    T(<<"1", "_", "1">>, 2, <<"1", "_", "1">>, 3),
    T(<<"1", "b", "e", "t", "a">>, 2, <<"1", "b", "e", "t", "a">>, 5),
    T(<<"a", "b", "c">>, 3, <<".", "1", ".", "2", ".", "3">>, 6),
    T(<<"b", "e", "t", "a">>, 3, <<"b", "e", "t", "a">>, 4),
    T(<<"b", "e", "t", "a", "b", "e", "t", "a">>, 8,
      <<"b", "e", "t", "a", "b", "e", "t", "a">>, 4),
    T(<<"b", "e", "t", "a", "a">>, 5,
      <<"b", "e", "t", "a", "a", "l", "p", "h", "a">>, 9),
    T(<<"1", ".">>, 5, <<"1", ".">>, 5),
    T(<<"1", NUL, "1">>, 3, <<"1", NUL, "0">>, 3) }

MCInputs == { <<c>> : c \in Unbounded \cup Bounded \cup SuiteCalls }

\* the ignored byte placed before or after a chunk, against every string
MCInputsOther ==
  { <<[s1 |-> x, e1 |-> 0, s2 |-> y, e2 |-> 0]>> :
      x \in Strings, y \in {Other \o z : z \in Pieces} \cup {z \o Other : z \in Pieces} }

\* the inputs of the passing run and those with the ignored byte
MCInputsDiverge == MCInputs \cup MCInputsOther

\* package names with and without '-', and versions with a dot, a revision,
\* a letter and two digits
PName == { <<"a">>, <<"a", "-", "b">> }
PVer  == { <<"1">>, <<"2">>, <<"1", ".", "1">>, <<"1", "_", "1">>, <<"1", "a">>,
           <<"1", "0">> }
Ops   == { <<">">>, <<">", "=">>, <<"<">>, <<"<", "=">> }

\* the pattern a case was written for: its string and its interval
Exact(n, v) == [pat |-> n \o <<"-">> \o v, name |-> n,
                lo |-> v, loinc |-> TRUE, hi |-> v, hiinc |-> TRUE]
OneBound(n, o, v) ==
    [pat |-> n \o o \o v, name |-> n,
     lo |-> IF o[1] = ">" THEN v ELSE <<>>, loinc |-> Len(o) = 2,
     hi |-> IF o[1] = "<" THEN v ELSE <<>>, hiinc |-> Len(o) = 2]
TwoBounds(n, o1, v1, o2, v2) ==
    [pat |-> n \o o1 \o v1 \o o2 \o v2, name |-> n,
     lo |-> v1, loinc |-> Len(o1) = 2, hi |-> v2, hiinc |-> Len(o2) = 2]

Patterns ==
    { Exact(n, v) : n \in PName, v \in PVer }
    \cup { OneBound(n, o, v) : n \in PName, o \in Ops, v \in PVer }
    \cup { TwoBounds(n, o1, v1, o2, v2) :
            n \in PName, o1 \in {<<">">>, <<">", "=">>}, o2 \in {<<"<">>, <<"<", "=">>},
            v1 \in {<<"1">>, <<"1", ".", "1">>}, v2 \in {<<"2">>, <<"1", "0">>} }

Pkgvers == { n \o <<"-">> \o v : n \in PName \cup {<<"b">>}, v \in PVer }

\* xbps_cmpver's arguments: the versions alone and the pkgvers
MCCmpverArgs == PVer \cup Pkgvers

MCPatternCases == { [pkg |-> k, pat |-> p.pat, name |-> p.name, lo |-> p.lo,
                      loinc |-> p.loinc, hi |-> p.hi, hiinc |-> p.hiinc] :
                    p \in Patterns, k \in Pkgvers }
====
