---------------------------- MODULE Alternatives ----------------------------
(***************************************************************************)
(* The alternatives check of bin/xbps-pkgdb/check_pkg_alternatives.c.      *)
(* check_pkg_alternatives walks the groups a package declares; for each    *)
(* group the package heads in the _XBPS_ALTERNATIVES_ registry of pkgdb,   *)
(* check_symlinks splits every "linkpath:target" entry, makes a relative   *)
(* linkpath absolute under the target's directory, makes an absolute       *)
(* target relative to the link, reads the link under the root directory    *)
(* and compares what it reads with the target.                             *)
(*                                                                         *)
(* A string is a sequence of one-character strings.  The file system is    *)
(* a function from the components of a link path to the link's contents.  *)
(* Each entry of check_symlinks and each group of check_pkg_alternatives   *)
(* is one step.                                                            *)
(***************************************************************************)
EXTENDS Integers, Sequences, SequencesExt

CONSTANTS
    Pkgname,    \* the package checked
    Universes,  \* records [registry, alts, disk]
    NoRegistry  \* pkgdb without _XBPS_ALTERNATIVES_

(* A universe u has: u.registry, a function from group names to the        *)
(* sequence of packages providing the group (or NoRegistry); u.alts, the    *)
(* package's "alternatives" as a sequence of [group, links] in key order;   *)
(* u.disk, a function from link components to the link's contents.         *)

VARIABLES
    u,      \* the pkgdb, the package's dictionary and the file system
    pc,     \* "start", "group", "link" or "done"
    gi,     \* the index in allkeys
    li,     \* the index in the group's array of alternatives
    crv,    \* the rv of the running check_symlinks
    rv      \* the rv of check_pkg_alternatives

vars == <<u, pc, gi, li, crv, rv>>

-----------------------------------------------------------------------------
(* Paths.  libc's dirname and the libxbps helpers xbps_path_join and       *)
(* xbps_path_rel, which lie outside this source tree.                      *)

\* the components of a path, "" and "." dropped as the kernel resolves them
RECURSIVE Split(_)
Split(p) ==
    LET cut == SelectInSeq(p, LAMBDA c : c = "/")
        part == IF cut = 0 THEN p ELSE SubSeq(p, 1, cut - 1)
        rest == IF cut = 0 THEN <<>> ELSE SubSeq(p, cut + 1, Len(p))
        keep == IF part \in {<<>>, <<".">>} THEN <<>> ELSE <<part>>
    IN  IF p = <<>> THEN <<>> ELSE keep \o Split(rest)

\* the components written out with "/" between them
Unsplit(cs) == FlattenSeq([i \in 1..Len(cs) |->
                             IF i = 1 THEN cs[i] ELSE <<"/">> \o cs[i]])

IsAbsolute(p) == p # <<>> /\ p[1] = "/"

\* dirname(3): "." for a path without a slash
dirname(p) ==
    LET cs == Split(p) IN
    CASE IsAbsolute(p) -> <<"/">> \o Unsplit(Front(cs))
      [] Len(cs) > 1   -> Unsplit(Front(cs))
      [] OTHER         -> <<".">>

\* xbps_path_join(buf, sz, dir, linkpath, NULL)
xbps_path_join(dir, p) ==
    IF IsAbsolute(dir) THEN <<"/">> \o Unsplit(Split(dir) \o Split(p))
                       ELSE Unsplit(Split(dir) \o Split(p))

\* xbps_path_rel(buf, sz, from, to): to, relative to the directory of from
xbps_path_rel(from, to) ==
    LET d == Front(Split(from))
        t == Split(to)
        n == Cardinality({i \in 1..Len(d) : i <= Len(t) /\ SubSeq(d, 1, i) = SubSeq(t, 1, i)})
    IN  Unsplit([i \in 1..Len(d) - n |-> <<".", ".">>] \o SubSeq(t, n + 1, Len(t)))

-----------------------------------------------------------------------------

\* strchr(alternative, ':'), 1-based, 0 for none; the two halves
Colon(a)      == SelectInSeq(a, LAMBDA c : c = ":")
LinkPart(a)   == SubSeq(a, 1, Colon(a) - 1)
TargetPart(a) == SubSeq(a, Colon(a) + 1, Len(a))

\* the link the entry names and the target it should hold, or <<>> for an
\* entry without ':'
Entry(a) ==
    LET link == IF IsAbsolute(LinkPart(a)) THEN LinkPart(a)
                ELSE xbps_path_join(dirname(TargetPart(a)), LinkPart(a))
        tgt  == IF IsAbsolute(TargetPart(a)) THEN xbps_path_rel(link, TargetPart(a))
                ELSE TargetPart(a)
    IN  IF Colon(a) = 0 THEN <<>> ELSE <<link, tgt>>

\* the entry calls strdup and xbps_path_join (a relative link) or
\* xbps_path_rel (an absolute target), which may fail
MayFail(a) == Colon(a) # 0 /\ (~IsAbsolute(LinkPart(a)) \/ IsAbsolute(TargetPart(a)))

\* root_readlink: the contents, or <<>> when readlink fails
root_readlink(p) == IF Split(p) \in DOMAIN u.disk THEN u.disk[Split(p)] ELSE <<>>

\* strncmp(path, target, l) == 0 with l the bytes readlink returned
SameTarget(path, target) == IsPrefix(path, target)

Group == u.alts[gi].group
Links == u.alts[gi].links

Init ==
    /\ u \in Universes
    /\ pc = "start"
    /\ gi = 1
    /\ li = 1
    /\ crv = 0
    /\ rv = 0

\* the two early returns of check_pkg_alternatives
Start ==
    /\ pc = "start"
    /\ IF u.registry = NoRegistry \/ u.alts = <<>>
       THEN pc' = "done" ELSE pc' = "group"
    /\ UNCHANGED <<u, gi, li, crv, rv>>

\* one key of allkeys: a group the registry lacks, or whose first provider
\* is another package, is skipped; otherwise check_symlinks starts
NextGroup ==
    /\ pc = "group"
    /\ gi <= Len(u.alts)
    /\ IF Group \in DOMAIN u.registry /\ u.registry[Group][1] = Pkgname
       THEN pc' = "link" /\ li' = 1 /\ crv' = 0 /\ gi' = gi
       ELSE gi' = gi + 1 /\ UNCHANGED <<pc, li, crv>>
    /\ UNCHANGED <<u, rv>>

\* one entry of check_symlinks.  strdup, xbps_path_join and xbps_path_rel
\* may fail (no memory, a path past PATH_MAX): check_symlinks returns -1
CheckLink ==
    /\ pc = "link"
    /\ li <= Len(Links)
    /\ LET e == Entry(Links[li]) IN
           \/ /\ e = <<>>
              /\ UNCHANGED crv
           \/ /\ e # <<>>
              /\ crv' = IF root_readlink(e[1]) = <<>>
                           \/ ~SameTarget(root_readlink(e[1]), e[2])
                        THEN 1 ELSE crv
           \/ /\ MayFail(Links[li])
              /\ crv' = -1
    /\ li' = IF crv' = -1 THEN Len(Links) + 1 ELSE li + 1
    /\ UNCHANGED <<u, pc, gi, rv>>

\* check_symlinks returns; a non-zero result makes rv 1
EndGroup ==
    /\ pc = "link"
    /\ li > Len(Links)
    /\ rv' = IF crv # 0 THEN 1 ELSE rv
    /\ pc' = "group"
    /\ gi' = gi + 1
    /\ UNCHANGED <<u, li, crv>>

Finish ==
    /\ pc = "group"
    /\ gi > Len(u.alts)
    /\ pc' = "done"
    /\ UNCHANGED <<u, gi, li, crv, rv>>

Next == Start \/ NextGroup \/ CheckLink \/ EndGroup \/ Finish

Spec == Init /\ [][Next]_vars

-----------------------------------------------------------------------------

(* Spec 4.5: check_pkg_alternatives returns 0 only when every link of     *)
(* the groups the package heads reads back exactly as its target.          *)
ZeroMeansLinksIntact ==
    pc = "done" /\ rv = 0 /\ u.registry # NoRegistry =>
        \A g \in ToSet(u.alts) :
           g.group \in DOMAIN u.registry /\ u.registry[g.group][1] = Pkgname =>
              \A a \in ToSet(g.links) :
                 Entry(a) # <<>> => root_readlink(Entry(a)[1]) = Entry(a)[2]

=============================================================================
