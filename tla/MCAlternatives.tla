--------------------------- MODULE MCAlternatives ---------------------------
(***************************************************************************)
(* Instances of Alternatives for TLC.  The package P declares the group    *)
(* "editor" (a relative link next to an absolute target, a link in a       *)
(* subdirectory, an entry without ':') and the group "ex" (an absolute     *)
(* link with a relative target).  The registry lets P head one group, both *)
(* or none; each link on disk is right, a prefix of its target, another    *)
(* file or absent.                                                         *)
(***************************************************************************)
EXTENDS Alternatives, TLC

CONSTANTS P, Q

\* "v:/b/vm", "/b/e:vm", "m/v.1:/b/vm", "x"
AltV   == <<"v", ":", "/", "b", "/", "v", "m">>
AltE   == <<"/", "b", "/", "e", ":", "v", "m">>
AltSub == <<"m", "/", "v", ".", "1", ":", "/", "b", "/", "v", "m">>
AltBad == <<"x">>

Absent == <<>>
Vm == <<"v", "m">>

\* the links with contents other than Absent
DiskOf(f) == [k \in {k2 \in DOMAIN f : f[k2] # Absent} |-> f[k]]

\* the components of /b/v, /b/e and /b/m/v.1
LinkV   == << <<"b">>, <<"v">> >>
LinkE   == << <<"b">>, <<"e">> >>
LinkSub == << <<"b">>, <<"m">>, <<"v", ".", "1">> >>

Disks == {DiskOf(LinkV :> x @@ LinkE :> y @@ LinkSub :> z) :
             x \in {Vm, <<"v">>, <<"n">>, Absent},
             y \in {Vm, <<"v">>},
             z \in {<<".", ".", "/", "v", "m">>, Absent}}

Registries == {NoRegistry, "editor" :> <<P>>, "editor" :> <<Q, P>>,
               "editor" :> <<P>> @@ "ex" :> <<P, Q>>}

PkgAlts == {<<>>,
            << [group |-> "editor", links |-> <<AltV, AltBad>>] >>,
            << [group |-> "editor", links |-> <<AltV, AltSub>>],
               [group |-> "ex", links |-> <<AltE>>] >>}

MCUniverses == [registry : Registries, alts : PkgAlts, disk : Disks]
=============================================================================
