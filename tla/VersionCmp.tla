----------------------------- MODULE VersionCmp -----------------------------
(***************************************************************************)
(* The version comparison of lib/version.c: xbps_version_cmpn compares two *)
(* version strings without allocating, pulling one component at a time    *)
(* from each side through xbps_version_component and stopping at the first *)
(* difference.  A string is a sequence of one-character strings; a bound   *)
(* e (the end pointer) is a 1-based position, 0 standing for NULL.         *)
(*                                                                         *)
(* The module is driven by a list of calls: each call is one invocation of *)
(* xbps_version_cmpn (xbps_version_cmp passes NULL for both ends), and     *)
(* each iteration of one of its three loops is one step.                   *)
(***************************************************************************)
EXTENDS Integers, Sequences

CONSTANTS
    IntBits,   \* width of the C int the parser accumulates into
    Inputs     \* set of call lists: sequences of [s1, e1, s2, e2]

ASSUME IntBits \in 4..24

VARIABLES
    pending,   \* calls not yet started
    log,       \* finished calls: <<call, result>>
    a, b,      \* the two struct xbps_version_parser
    phase      \* which loop of xbps_version_cmpn runs ("idle" between calls)

vars == <<pending, log, a, b, phase>>

NUL == "\\0"    \* the terminating (or an embedded) NUL byte

\* the enum of version.c
Alpha == -3
Beta  == -2
RC    == -1
Dot   == 0

\* two's complement wrap-around of an IntBits-wide signed int
Wrap(x) == LET m == 2^IntBits IN ((x + m \div 2) % m) - m \div 2

DigitVal == [c \in {"0", "1", "2", "3", "4", "5", "6", "7", "8", "9"} |->
               CASE c = "0" -> 0 [] c = "1" -> 1 [] c = "2" -> 2
                 [] c = "3" -> 3 [] c = "4" -> 4 [] c = "5" -> 5
                 [] c = "6" -> 6 [] c = "7" -> 7 [] c = "8" -> 8
                 [] c = "9" -> 9]
\* tolower(c) - 'a' + 1 for the letters the inputs use (all lower case)
LetterVal == [c \in {"a", "b", "c", "e", "h", "l", "p", "r", "t"} |->
               CASE c = "a" -> 1 [] c = "b" -> 2 [] c = "c" -> 3
                 [] c = "e" -> 5 [] c = "h" -> 8 [] c = "l" -> 12
                 [] c = "p" -> 16 [] c = "r" -> 18 [] c = "t" -> 20]
IsDigit(c) == c \in DOMAIN DigitVal
IsAlpha(c) == c \in DOMAIN LetterVal

\* the keywords tried, longest first, by the switch on the remaining length
Keywords == << [w |-> <<"a", "l", "p", "h", "a">>, v |-> Alpha],
               [w |-> <<"b", "e", "t", "a">>,      v |-> Beta],
               [w |-> <<"p", "r", "e">>,           v |-> RC],
               [w |-> <<"r", "c">>,                v |-> RC],
               [w |-> <<"p", "l">>,                v |-> Dot] >>

\* *p: the byte at position i; the terminator lies just past the string
Char(s, i) == IF i <= Len(s) THEN s[i] ELSE NUL

NewParser(s, e) == [s |-> s, p |-> 1, e |-> e, st |-> "SDEF", rev |-> 0]

AtEnd(pr) == pr.p = pr.e

\* number(): the first digit unconditionally, then digits up to the end
RECURSIVE Digits(_, _, _, _)
Digits(s, i, e, n) ==
    IF (e = 0 \/ i < e) /\ IsDigit(Char(s, i))
    THEN Digits(s, i + 1, e, Wrap(10 * n + DigitVal[Char(s, i)]))
    ELSE <<n, i>>
\* mutant: the loop's initial p->p++ forgotten, the parser does not advance
numberStuck(pr) == <<DigitVal[Char(pr.s, pr.p)], pr.p>>
number(pr) == Digits(pr.s, pr.p + 1, pr.e, DigitVal[Char(pr.s, pr.p)])

\* the first of the cases tried that matches (the switch falls through in order)
FirstOf(S) == CHOOSE k \in S : \A j \in S : k <= j

\* strncasecmp(kw, p, len) == 0
KeywordAt(pr, kw) == \A k \in 1..Len(kw) : Char(pr.s, pr.p + k - 1) = kw[k]

\* xbps_version_component: <<component value, parser after it>>
xbps_version_component(pr) ==
    LET c   == Char(pr.s, pr.p)
        rem == IF pr.e = 0 THEN 5 ELSE pr.e - pr.p
        hit == {k \in 1..Len(Keywords) :
                   Len(Keywords[k].w) <= rem /\ KeywordAt(pr, Keywords[k].w)}
    IN
    IF AtEnd(pr) THEN <<0, pr>>
    ELSE IF pr.st = "SALPHA"
    THEN <<LetterVal[c], [pr EXCEPT !.st = "SDEF", !.p = pr.p + 1]>>
    ELSE IF c = NUL THEN <<0, [pr EXCEPT !.e = pr.p]>>
    ELSE IF c = "_"
    THEN LET q == [pr EXCEPT !.p = pr.p + 1] IN
         IF AtEnd(q) \/ ~IsDigit(Char(q.s, q.p)) THEN <<0, q>>
         ELSE LET r == number(q) IN <<0, [q EXCEPT !.rev = r[1], !.p = r[2]]>>
    ELSE IF c = "." THEN <<Dot, [pr EXCEPT !.p = pr.p + 1]>>
    ELSE IF IsDigit(c)
    THEN LET r == number(pr) IN <<r[1], [pr EXCEPT !.p = r[2]]>>
    ELSE IF IsAlpha(c)
    THEN IF hit = {} THEN <<Dot, [pr EXCEPT !.st = "SALPHA"]>>
         ELSE LET k == FirstOf(hit) IN
              <<Keywords[k].v, [pr EXCEPT !.p = pr.p + Len(Keywords[k].w)]>>
    ELSE <<0, [pr EXCEPT !.p = pr.p + 1]>>

Sign(x) == IF x > 0 THEN 1 ELSE -1

\* the call being compared is the last one started
Current == Head(pending)

Finish(r) ==
    /\ log' = Append(log, <<Current, r>>)
    /\ pending' = Tail(pending)
    /\ phase' = "idle"

-----------------------------------------------------------------------------
Init ==
    /\ pending \in Inputs
    /\ log = <<>>
    /\ a = NewParser(<<>>, 0)
    /\ b = NewParser(<<>>, 0)
    /\ phase = "idle"

\* entry of xbps_version_cmpn: both parsers at the start, state SDEF, rev 0
Start ==
    /\ phase = "idle"
    /\ pending # <<>>
    /\ a' = NewParser(Current.s1, Current.e1)
    /\ b' = NewParser(Current.s2, Current.e2)
    /\ phase' = "both"
    /\ UNCHANGED <<pending, log>>

\* first loop: one component of each side, return on a difference
StepBoth ==
    /\ phase = "both"
    /\ ~AtEnd(a) /\ ~AtEnd(b)
    /\ LET ra == xbps_version_component(a)
           rb == xbps_version_component(b)
           cmp == Wrap(ra[1] - rb[1])
       IN /\ a' = ra[2]
          /\ b' = rb[2]
          /\ IF cmp # 0 THEN Finish(Sign(cmp))
                        ELSE UNCHANGED <<phase, pending, log>>

\* the first loop ends: go on with whichever side is left
LeaveBoth ==
    /\ phase = "both"
    /\ AtEnd(a) \/ AtEnd(b)
    /\ phase' = CASE ~AtEnd(a) -> "restA"
                  [] AtEnd(a) /\ ~AtEnd(b) -> "restB"
                  [] OTHER -> "rev"
    /\ UNCHANGED <<pending, log, a, b>>

\* the rest of a is compared against 0
StepRestA ==
    /\ phase = "restA"
    /\ IF AtEnd(a)
       THEN phase' = "rev" /\ UNCHANGED <<a, pending, log>>
       ELSE LET ra == xbps_version_component(a) IN
            /\ a' = ra[2]
            /\ IF ra[1] # 0 THEN Finish(Sign(ra[1]))
                            ELSE UNCHANGED <<phase, pending, log>>
    /\ UNCHANGED b

\* mutant: the second rest loop returns the sign of the component unreversed
StepRestBUnreversed ==
    /\ phase = "restB"
    /\ IF AtEnd(b)
       THEN phase' = "rev" /\ UNCHANGED <<b, pending, log>>
       ELSE LET rb == xbps_version_component(b) IN
            /\ b' = rb[2]
            /\ IF rb[1] # 0 THEN Finish(Sign(rb[1]))
                            ELSE UNCHANGED <<phase, pending, log>>
    /\ UNCHANGED a

\* the rest of b is compared against 0, with the sign reversed
StepRestB ==
    /\ phase = "restB"
    /\ IF AtEnd(b)
       THEN phase' = "rev" /\ UNCHANGED <<b, pending, log>>
       ELSE LET rb == xbps_version_component(b) IN
            /\ b' = rb[2]
            /\ IF rb[1] # 0 THEN Finish(IF rb[1] < 0 THEN 1 ELSE -1)
                            ELSE UNCHANGED <<phase, pending, log>>
    /\ UNCHANGED a

\* mutant: the difference of the revisions returned as it is
CompareRevisionsRaw ==
    /\ phase = "rev"
    /\ Finish(Wrap(a.rev - b.rev))
    /\ UNCHANGED <<a, b>>

\* all components equal: the revisions decide
CompareRevisions ==
    /\ phase = "rev"
    /\ LET cmp == Wrap(a.rev - b.rev) IN
       Finish(IF cmp = 0 THEN 0 ELSE Sign(cmp))
    /\ UNCHANGED <<a, b>>

Next == Start \/ StepBoth \/ LeaveBoth \/ StepRestA \/ StepRestB
        \/ CompareRevisions

Spec == Init /\ [][Next]_vars /\ WF_vars(Next)

Done == phase = "idle" /\ pending = <<>>

-----------------------------------------------------------------------------
(***************************************************************************)
(* Reference: the comparison as the spec (section 3) defines it, on the    *)
(* whole token stream.  The string is cut at its end marker or at its      *)
(* first NUL; digits form a natural number (unbounded), "." is Dot, a      *)
(* keyword is its sentinel, any other letter is Dot followed by its        *)
(* offset in the alphabet, "_" is a separator whose following digits set   *)
(* the revision (the last one wins).  Streams are compared component by    *)
(* component, the shorter one padded with 0, and the revisions break a     *)
(* tie.                                                                    *)
(***************************************************************************)
Cut(s, e) ==
    LET stops == {i \in 1..Len(s) : s[i] = NUL}
                 \cup (IF e = 0 THEN {} ELSE {e})
                 \cup {Len(s) + 1}
        n == CHOOSE i \in stops : \A j \in stops : i <= j
    IN SubSeq(s, 1, n - 1)

\* length of the run of digits of t starting at i
RECURSIVE RunLen(_, _)
RunLen(t, i) == IF i <= Len(t) /\ IsDigit(t[i]) THEN 1 + RunLen(t, i + 1) ELSE 0

RECURSIVE Decimal(_, _, _)
Decimal(t, i, n) == IF n = 0 THEN 0
                    ELSE 10 ^ (n - 1) * DigitVal[t[i]] + Decimal(t, i + 1, n - 1)

WordAt(t, i, w) == i + Len(w) - 1 <= Len(t) /\ SubSeq(t, i, i + Len(w) - 1) = w

RECURSIVE Tokens(_, _, _, _)
Tokens(t, i, comps, rev) ==
    IF i > Len(t) THEN [comps |-> comps, rev |-> rev]
    ELSE LET c == t[i]
             kws == {k \in 1..Len(Keywords) : WordAt(t, i, Keywords[k].w)}
         IN
         IF IsDigit(c)
         THEN Tokens(t, i + RunLen(t, i), Append(comps, Decimal(t, i, RunLen(t, i))), rev)
         ELSE IF c = "." THEN Tokens(t, i + 1, Append(comps, Dot), rev)
         ELSE IF c = "_"
         THEN IF RunLen(t, i + 1) > 0
              THEN Tokens(t, i + 1 + RunLen(t, i + 1), Append(comps, 0),
                          Decimal(t, i + 1, RunLen(t, i + 1)))
              ELSE Tokens(t, i + 1, Append(comps, 0), rev)
         ELSE IF IsAlpha(c) /\ kws # {}
         THEN LET k == FirstOf(kws) IN
              Tokens(t, i + Len(Keywords[k].w), Append(comps, Keywords[k].v), rev)
         ELSE IF IsAlpha(c)
         THEN Tokens(t, i + 1, comps \o <<Dot, LetterVal[c]>>, rev)
         ELSE Tokens(t, i + 1, comps, rev)

TokensOf(s, e) == Tokens(Cut(s, e), 1, <<>>, 0)

RefCmp(call) ==
    LET x == TokensOf(call.s1, call.e1)
        y == TokensOf(call.s2, call.e2)
        n == IF Len(x.comps) > Len(y.comps) THEN Len(x.comps) ELSE Len(y.comps)
        At(z, k) == IF k <= Len(z) THEN z[k] ELSE 0
        diff == {k \in 1..n : At(x.comps, k) # At(y.comps, k)}
    IN IF diff # {}
       THEN LET k == CHOOSE k \in diff : \A j \in diff : k <= j IN
            IF At(x.comps, k) > At(y.comps, k) THEN 1 ELSE -1
       ELSE IF x.rev = y.rev THEN 0 ELSE IF x.rev > y.rev THEN 1 ELSE -1

-----------------------------------------------------------------------------
(* Every call of xbps_version_cmpn that has returned returned what the     *)
(* whole-stream comparison of the spec gives: the lazy parse, its early    *)
(* return, the end markers, the letter state carried between calls of      *)
(* xbps_version_component and the revision kept from the last "_" agree    *)
(* with comparing the full token streams.                                  *)
CmpMatchesReference ==
    \A k \in 1..Len(log) : log[k][2] = RefCmp(log[k][1])

TypeOK ==
    /\ phase \in {"idle", "both", "restA", "restB", "rev"}
    /\ \A k \in 1..Len(log) : log[k][2] \in {-1, 0, 1}
    /\ \A pr \in {a, b} : /\ pr.st \in {"SDEF", "SALPHA"}
                         /\ pr.p \in 1..Len(pr.s) + 1
                         /\ pr.rev \in -(2^(IntBits - 1))..(2^(IntBits - 1) - 1)

(* Each call of xbps_version_cmpn returns: none of its loops runs forever. *)
Termination == <>Done

\* the promise of version comparison, with the reference as the order
Order == INSTANCE VersionOrder WITH Cmp <- RefCmp

(* xbps_version_cmpn implements the safety part of VersionOrder: its       *)
(* parser steps change nothing a caller sees, and each call ends in one    *)
(* step that answers the first pending call, and no other, with the        *)
(* reference comparison of the spec.  Termination gives the liveness part. *)
ImplementsVersionOrder == Order!Init /\ [][Order!Compare]_<<pending, log>>
=============================================================================
