---------------------------- MODULE MCDiskSpace ----------------------------
(***************************************************************************)
(* Instances of DiskSpace for TLC.  The mount tables are one like a        *)
(* running system's (the root, nested mounts, the ignored pseudo file      *)
(* systems and mounts under them), one of eighteen kept mounts that makes  *)
(* the array grow past its first sixteen slots, and one with nothing but   *)
(* ignored entries.  Transactions are every single entry and pairs of      *)
(* entries whose archives open.                                            *)
(***************************************************************************)
EXTENDS DiskSpace

Root == <<"/">>
Dev  == <<"/", "d", "e", "v">>
Boot == <<"/", "b", "o", "o", "t">>
Home == <<"/", "h", "o", "m", "e">>

Running == << Root, <<"/", "p", "r", "o", "c">>, <<"/", "s", "y", "s">>, Dev,
              Dev \o <<"/", "p", "t", "s">>, Boot, Boot \o <<"/", "e", "f", "i">>,
              Home, <<"/", "r", "u", "n", "/", "u">>, <<"/", "t", "m", "p">>,
              Home \o <<"-", "x">> >>

Letters == <<"a", "b", "c", "e", "f", "g", "h", "i", "j", "k", "l", "m",
             "n", "o", "q", "u", "v">>
Crowded == <<Root>> \o [i \in 1..Len(Letters) |-> <<"/", Letters[i]>>]

OnlyIgnored == << <<"/", "p", "r", "o", "c">>, Dev >>

MCMountTables == {Running, Crowded, OnlyIgnored}

Entries == [tract : {"install", "update", "remove", "configure"},
            preserve : BOOLEAN, inpkgdb : BOOLEAN,
            archive : {"ok", "nopath", "bad"}]
OpenEntries == {e \in Entries : e.archive = "ok" /\ e.inpkgdb}

MCTransactions == {NoPackages, <<>>} \cup {<<e>> : e \in Entries}
                  \cup {<<e, f>> : e, f \in OpenEntries}
=============================================================================
