----------------------------- MODULE DiskSpace -----------------------------
(***************************************************************************)
(* The disk-space check of lib/transaction_diskspace.c.                    *)
(* xbps_transaction_diskspace reads the mount table (get_mountpoints),     *)
(* drops the entries under the ignored prefixes, and grows the array of    *)
(* struct mountpoint by doubling.  It sorts the array with mountcmp, then  *)
(* walks the "packages" array of the transaction, calling                  *)
(* update_install_sizes and update_remove_sizes, and returns.              *)
(*                                                                         *)
(* A path is a sequence of one-character strings, compared by strcmp      *)
(* through the characters' byte order.  A transaction entry is a record    *)
(* [tract, preserve, inpkgdb, archive]: the action, the preserve flag,     *)
(* whether xbps_pkgdb_get_pkg finds the package, and what becomes of the   *)
(* binary package (its path, or the archive opened or refused).  Each      *)
(* getmntent iteration and each package of the loop is one step.          *)
(***************************************************************************)
EXTENDS Integers, Sequences, SequencesExt, TLC

CONSTANTS
    MountTables,   \* the contents /proc/mounts may have: sequences of paths
    Transactions,  \* the "packages" arrays of xhp->transd, or NoPackages
    NoPackages     \* xhp->transd without a "packages" array

VARIABLES
    pc,       \* "open", "read", "pkgs" or "done"
    table,    \* the mount table getmntent walks
    pos,      \* the next entry getmntent returns
    fp,       \* the setmntent handle: "closed" or "open"
    mounts,   \* mounts[0 .. nmounts-1]: the struct mountpoint records
    alloc,    \* allocmounts, the slots the array has room for
    txn,      \* the transaction's packages
    k,        \* the package the loop visits next
    dropped,  \* the error codes of the size helpers the loop discarded
    rv        \* the value xbps_transaction_diskspace returns

vars == <<pc, table, pos, fp, mounts, alloc, txn, k, dropped, rv>>

\* errno values (Linux)
ENOMEM == 12
EINVAL == 22
ENOSPC == 28

\* byte order of the characters the paths use: '-' < '/' < digits < letters
Alphabet == <<"-", "/", "0", "1", "2", "a", "b", "c", "d", "e", "f", "g",
              "h", "i", "j", "k", "l", "m", "n", "o", "p", "q", "r", "s",
              "t", "u", "v", "w", "x", "y", "z">>
Byte(c) == SelectInSeq(Alphabet, LAMBDA x : x = c)

\* strcmp: the sign of the first differing byte, the shorter string first
RECURSIVE strcmp(_, _)
strcmp(s, t) ==
    CASE s = <<>> /\ t = <<>>  -> 0
      [] s = <<>>              -> -1
      [] t = <<>>              -> 1
      [] Head(s) = Head(t)     -> strcmp(Tail(s), Tail(t))
      [] OTHER                 -> IF Byte(Head(s)) < Byte(Head(t)) THEN -1 ELSE 1

\* the static ignore[] array
ignore == << <<"/", "d", "e", "v">>, <<"/", "p", "r", "o", "c">>,
             <<"/", "r", "u", "n">>, <<"/", "s", "y", "s">>,
             <<"/", "t", "m", "p">> >>

\* strncmp(ignore[i], dir, strlen(ignore[i])) == 0 for some i
Ignored(dir) == \E i \in 1..Len(ignore) : IsPrefix(ignore[i], dir)

\* a comparator that forgets the minus sign
mountcmpAsc(ma, mb) == strcmp(ma.path, mb.path)

\* mountcmp: the reverse of strcmp on the paths
mountcmp(ma, mb) == -strcmp(ma.path, mb.path)

Init ==
    /\ pc = "open"
    /\ table \in MountTables
    /\ pos = 1
    /\ fp = "closed"
    /\ mounts = <<>>
    /\ alloc = 0
    /\ txn \in Transactions
    /\ k = 1
    /\ dropped = {}
    /\ rv = 0

\* setmntent("/proc/mounts"): on failure get_mountpoints returns 0 and so
\* does xbps_transaction_diskspace; otherwise calloc 16 slots
SetMntEnt ==
    /\ pc = "open"
    /\ \/ /\ pc' = "done"
          /\ rv' = 0
          /\ UNCHANGED <<fp, alloc>>
       \/ /\ fp' = "open"
          /\ alloc' = 16
          /\ pc' = "read"
          /\ UNCHANGED rv
    /\ UNCHANGED <<table, pos, mounts, txn, k, dropped>>

\* a growth test that waits for the array to be full
MustGrowLate(nmounts, allocmounts) == nmounts > allocmounts

\* the need for room before mounts[nmounts++] = m
MustGrow(nmounts, allocmounts) == nmounts + 1 >= allocmounts

\* a length that counts the terminating NUL
NewMountNul(dir) == [path |-> dir, len |-> Len(dir) + 1, instsize |-> 0, rmsize |-> 0]

\* calloc'd struct mountpoint with strdup'd path and its strlen
NewMount(dir) == [path |-> dir, len |-> Len(dir), instsize |-> 0, rmsize |-> 0]

\* one iteration of the getmntent loop
GetMntEnt ==
    /\ pc = "read"
    /\ pos <= Len(table)
    /\ LET dir == table[pos] IN
       IF Ignored(dir)
       THEN UNCHANGED <<mounts, alloc>>
       ELSE /\ alloc' = IF MustGrow(Len(mounts), alloc) THEN alloc * 2
                                                         ELSE alloc
            /\ mounts' = Append(mounts, NewMount(dir))
    /\ pos' = pos + 1
    /\ UNCHANGED <<pc, table, fp, txn, k, dropped, rv>>

\* qsort(mnts, nmnts, sizeof, mountcmp)
Sorted(ms) == SortSeq(ms, LAMBDA x, y : mountcmp(x, y) < 0)

\* getmntent is exhausted: endmntent, then the caller returns 0 for no
\* mount point, sorts them, and returns EINVAL without a packages array
EndMntEnt ==
    /\ pc = "read"
    /\ pos > Len(table)
    /\ fp' = "closed"
    /\ mounts' = Sorted(mounts)
    /\ CASE mounts = <<>>     -> pc' = "done" /\ rv' = 0
         [] txn = NoPackages  -> pc' = "done" /\ rv' = EINVAL
         [] OTHER             -> pc' = "pkgs" /\ UNCHANGED rv
    /\ UNCHANGED <<table, pos, alloc, txn, k, dropped>>

\* open_archive: NULL when archive_read_new or archive_read_open_filename
\* fails on the binary package
open_archive(e) == e.archive # "bad"

\* update_install_sizes: the archive's headers are read and nothing is
\* added to a mount point; its return value is ignored by the caller
update_install_sizes(e) ==
    CASE e.archive = "nopath" -> ENOMEM
      [] ~open_archive(e)     -> EINVAL
      [] OTHER                -> 0

\* update_remove_sizes: a package without a path falls back to 0
update_remove_sizes(e) ==
    CASE e.archive = "nopath" -> 0
      [] ~open_archive(e)     -> EINVAL
      [] OTHER                -> 0

Installs(e) == e.tract \in {"install", "update"}
Removes(e)  == e.tract = "remove" \/ (e.tract = "update" /\ ~e.preserve)

\* one package of the loop over the transaction; neither helper touches
\* the mount points, and what they return is dropped
Package ==
    /\ pc = "pkgs"
    /\ k <= Len(txn)
    /\ LET e == txn[k]
           irv == IF Installs(e) THEN update_install_sizes(e) ELSE 0
           rrv == IF Removes(e) /\ e.inpkgdb THEN update_remove_sizes(e) ELSE 0
       IN  dropped' = dropped \cup ({irv, rrv} \ {0})
    /\ k' = k + 1
    /\ UNCHANGED <<pc, table, pos, fp, mounts, alloc, txn, rv>>

\* the loop is over: the iterator is reset and ENOSPC returned
Return ==
    /\ pc = "pkgs"
    /\ k > Len(txn)
    /\ pc' = "done"
    /\ rv' = ENOSPC
    /\ UNCHANGED <<table, pos, fp, mounts, alloc, txn, k, dropped>>

Next == SetMntEnt \/ GetMntEnt \/ EndMntEnt \/ Package \/ Return

Spec == Init /\ [][Next]_vars

-----------------------------------------------------------------------------
(* Properties                                                              *)

TypeOK ==
    /\ pc \in {"open", "read", "pkgs", "done"}
    /\ table \in MountTables
    /\ pos \in 1..Len(table) + 1
    /\ fp \in {"closed", "open"}
    /\ alloc \in Nat
    /\ \A i \in 1..Len(mounts) :
          mounts[i].len = Len(mounts[i].path) /\ mounts[i].instsize \in Nat
    /\ txn \in Transactions
    /\ k \in Nat
    /\ dropped \subseteq {ENOMEM, EINVAL}
    /\ rv \in {0, EINVAL, ENOSPC}

(* get_mountpoints writes mounts[nmounts++] into an array of allocmounts   *)
(* slots that calloc and realloc size: the growth test before each write   *)
(* keeps every write inside the allocation, however long the mount table.  *)
NoOverrun == Len(mounts) <= alloc

(* After qsort with mountcmp, the array holds exactly the mount table's    *)
(* entries outside the ignored prefixes, and a mount point that lies       *)
(* under another (its path extends the other's) comes before it, so a      *)
(* first-match scan meets the deepest mount point first.                   *)
DeepestFirst ==
    pc \in {"pkgs", "done"} /\ pos > Len(table) =>
        /\ {m.path : m \in ToSet(mounts)} = {d \in ToSet(table) : ~Ignored(d)}
        /\ \A i, j \in 1..Len(mounts) :
              i < j => ~(IsPrefix(mounts[i].path, mounts[j].path)
                         /\ mounts[i].path # mounts[j].path)

(* Spec 4.5 and its open question: xbps_transaction_diskspace signals      *)
(* ENOSPC only when some mount point needs more than it frees, which       *)
(* requires its install tally to exceed its remove tally.                  *)
EnospcOnlyOnDeficit ==
    pc = "done" /\ rv = ENOSPC =>
        \E i \in 1..Len(mounts) : mounts[i].instsize > mounts[i].rmsize

=============================================================================
