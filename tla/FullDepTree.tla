----------------------------- MODULE FullDepTree -----------------------------
(***************************************************************************)
(* xbps_get_pkg_fulldeptree() of lib/package_fulldeptree.c: collect_depends *)
(* builds one item per package in the static ItemHash (never cleared, so   *)
(* it outlives a call), then ordered_depends walks the head's children     *)
(* with collect_todo and empties the todo list with sort_recursive.        *)
(*                                                                         *)
(* An item's flags word is the set of its bits that are set: "DONE"        *)
(* (0x0001), "CYCLE" (0x0010) and "OTHER" for every other bit, which       *)
(* ~FLAG_CYCLE sets.  A package is a model value; the pkgver strings only  *)
(* matter through the hash of lookupItem(pkgn, strlen(pkgn)) in the todo   *)
(* loop, which hashes the whole pkgver where addItem hashed the name:      *)
(* u.hit is the set of packages for which the two land in one bucket.      *)
(***************************************************************************)
EXTENDS Integers, Sequences, SequencesExt, FiniteSets, Graphs

CONSTANTS
    Pkgs,       \* packages (their pkgver strings)
    Missing,    \* a dependency neither the pkgdb nor the rpool offers
    NULL,       \* a NULL struct item pointer
    Universes,  \* pkgdb / rpool contents and hash outcomes
    MaxCalls    \* calls of xbps_get_pkg_fulldeptree in one process

ASSUME Missing \notin Pkgs /\ NULL \notin Pkgs \cup {Missing}

VARIABLES
    u,        \* db[rpool]: run_depends and provides per package; hit
    items,    \* ItemHash: package -> [deps, flags], or NULL
    head,     \* the pkg argument of the current call
    rpool,    \* the rpool argument of the current call
    pc,       \* "idle" between calls, "loop" in the while loop of ordered_depends
    todo,     \* the todo array
    result,   \* the result array
    i,        \* the for loop index of ordered_depends (1-based)
    calls,    \* calls made so far
    log       \* <<head, rpool, outcome, result>> of every finished call

vars == <<u, items, head, rpool, pc, todo, result, i, calls, log>>

FLAG_DONE  == {"DONE"}
FLAG_CYCLE == {"CYCLE"}
AllBits    == {"DONE", "CYCLE", "OTHER"}
Not(f)     == AllBits \ f

Deps(r, p) == u.db[r].deps[p]

\* lookupItem(pkgver, strlen(pkgver)): itemhash() of the whole pkgver picks
\* the bucket, and only a package whose name hashed there is found
TodoLookup(x) == x \in u.hit

-----------------------------------------------------------------------------
(* collect_depends(): <<ok, items'>>.  The item is added with FLAG_CYCLE   *)
(* and NULL deps; a dependency that is missing is fatal from the rpool and *)
(* skipped from the pkgdb; one the package provides is skipped; one        *)
(* already in ItemHash is linked; any other is collected first.  Failing   *)
(* leaves what was added in ItemHash.                                      *)
RECURSIVE collect_depends(_, _, _), CollectFrom(_, _, _, _)

LinkDep(its, p, k, d) == [its EXCEPT ![p].deps[k] = d]

\* addItem: a calloc'd item for p pushed on the head of its bucket
addItem(its, p) == [its EXCEPT ![p] = [deps |-> <<>>, flags |-> {}]]

collect_depends(p, r, its) ==
    LET added == addItem(its, p) IN
    CollectFrom(p, r, 1,
        [added EXCEPT ![p] = [deps |-> [k \in 1..Len(Deps(r, p)) |-> NULL],
                              flags |-> @.flags \cup FLAG_CYCLE]])

\* mutant: a missing dependency is skipped from the rpool too
CollectFromLax(p, r, k, its) ==
    LET ds == Deps(r, p) IN
    IF k > Len(ds) THEN <<TRUE, [its EXCEPT ![p].flags = @ \cup Not(FLAG_CYCLE)]>>
    ELSE LET d == ds[k] IN
         CASE d = Missing                  -> CollectFrom(p, r, k + 1, its)
           [] d \in u.db[r].provides[p]    -> CollectFrom(p, r, k + 1, its)
           [] its[d] # NULL                -> CollectFrom(p, r, k + 1, LinkDep(its, p, k, d))
           [] OTHER ->
                LET sub == collect_depends(d, r, its) IN
                IF sub[1] THEN CollectFrom(p, r, k + 1, LinkDep(sub[2], p, k, d))
                ELSE <<FALSE, sub[2]>>

CollectFrom(p, r, k, its) ==
    LET ds == Deps(r, p) IN
    IF k > Len(ds) THEN <<TRUE, [its EXCEPT ![p].flags = @ \cup Not(FLAG_CYCLE)]>>
    ELSE LET d == ds[k] IN
         CASE d = Missing /\ r             -> <<FALSE, its>>
           [] d = Missing                  -> CollectFrom(p, r, k + 1, its)
           [] d \in u.db[r].provides[p]    -> CollectFrom(p, r, k + 1, its)
           [] its[d] # NULL                -> CollectFrom(p, r, k + 1, LinkDep(its, p, k, d))
           [] OTHER ->
                LET sub == collect_depends(d, r, its) IN
                IF sub[1] THEN CollectFrom(p, r, k + 1, LinkDep(sub[2], p, k, d))
                ELSE <<FALSE, sub[2]>>

-----------------------------------------------------------------------------
(* collect_todo(): st is [its, todo, result].  A child without deps goes   *)
(* to result with flags FLAG_DONE; any other is walked and then pushed on  *)
(* todo with flags 0.  The walk returns at once on FLAG_CYCLE; an item     *)
(* entered again while its own frame is open has lost FLAG_CYCLE to the    *)
(* "&= FLAG_CYCLE" and repeats the same frame without end (over).          *)
RECURSIVE collect_todo(_, _, _), TodoFrom(_, _, _, _)

collect_todo(p, st, stack) ==
    CASE "CYCLE" \in st.its[p].flags -> [over |-> FALSE, st |-> st]
      [] p \in stack                 -> [over |-> TRUE, st |-> st]
      [] OTHER -> TodoFrom(p, 1, [st EXCEPT !.its[p].flags = @ \cap FLAG_CYCLE], stack \cup {p})

TodoFrom(p, k, st, stack) ==
    IF k > Len(st.its[p].deps)
    THEN [over |-> FALSE, st |-> [st EXCEPT !.its[p].flags = @ \cup FLAG_CYCLE]]
    ELSE LET x == st.its[p].deps[k] IN
         CASE x = NULL -> TodoFrom(p, k + 1, st, stack)
           [] x \in ToSet(st.result) \cup ToSet(st.todo) -> TodoFrom(p, k + 1, st, stack)
           [] st.its[x].deps = <<>> ->
                TodoFrom(p, k + 1, [st EXCEPT !.result = Append(@, x),
                                              !.its[x].flags = FLAG_DONE], stack)
           [] OTHER ->
                LET sub == collect_todo(x, st, stack) IN
                IF sub.over THEN sub
                ELSE TodoFrom(p, k + 1, [sub.st EXCEPT !.todo = Append(@, x),
                                                      !.its[x].flags = {}], stack)

-----------------------------------------------------------------------------
(* sort_recursive(): false at once on FLAG_CYCLE; otherwise count the deps *)
(* that are NULL, FLAG_DONE or sortable, set every bit but FLAG_CYCLE, and *)
(* append the item with FLAG_DONE when all of them count.                  *)
RECURSIVE sort_recursive(_, _), SortFrom(_, _, _, _)

sort_recursive(p, st) ==
    IF "CYCLE" \in st.its[p].flags THEN [ok |-> FALSE, st |-> st]
    ELSE SortFrom(p, 1, 0, [st EXCEPT !.its[p].flags = @ \cup FLAG_CYCLE])

\* mutant: every dep counts as done without being sorted
SortFromEager(p, k, done, st) ==
    [ok |-> TRUE, st |-> [st EXCEPT !.its[p].flags = @ \cup Not(FLAG_CYCLE) \cup FLAG_DONE,
                                    !.result = Append(@, p)]]

SortFrom(p, k, done, st) ==
    LET n == Len(st.its[p].deps) IN
    IF k > n
    THEN LET st2 == [st EXCEPT !.its[p].flags = @ \cup Not(FLAG_CYCLE)] IN
         IF done = n
         THEN [ok |-> TRUE, st |-> [st2 EXCEPT !.result = Append(@, p),
                                               !.its[p].flags = @ \cup FLAG_DONE]]
         ELSE [ok |-> FALSE, st |-> st2]
    ELSE LET x == st.its[p].deps[k] IN
         IF x = NULL \/ "DONE" \in st.its[x].flags THEN SortFrom(p, k + 1, done + 1, st)
         ELSE LET sub == sort_recursive(x, st) IN
              SortFrom(p, k + 1, IF sub.ok THEN done + 1 ELSE done, sub.st)

-----------------------------------------------------------------------------
Init ==
    /\ u \in Universes
    /\ items = [p \in Pkgs |-> NULL]
    /\ head = NULL
    /\ rpool = FALSE
    /\ pc = "idle"
    /\ todo = <<>>
    /\ result = <<>>
    /\ i = 1
    /\ calls = 0
    /\ log = <<>>

\* a call that returns with the given outcome
Return(h, r, out, res) ==
    /\ log' = Append(log, <<h, r, out, res>>)
    /\ pc' = "idle"

\* a failed assert or an exhausted stack ends the process
Die(h, r, out) ==
    /\ log' = Append(log, <<h, r, out, <<>>>>)
    /\ pc' = "dead"

(* xbps_get_pkg_fulldeptree(pkg, rpool) up to the while loop: the lookup  *)
(* of pkg, collect_depends unless ItemHash already holds it, then         *)
(* ordered_depends' "item->flags = FLAG_DONE" and collect_todo.           *)
Call(h, r) ==
    /\ pc = "idle"
    /\ calls < MaxCalls
    /\ calls' = calls + 1
    /\ head' = h
    /\ rpool' = r
    /\ IF h = Missing
       THEN Return(h, r, "null", <<>>) /\ UNCHANGED <<items, todo, result, i>>
       ELSE LET c  == IF items[h] # NULL THEN <<TRUE, items>> ELSE collect_depends(h, r, items)
                st == [its |-> [c[2] EXCEPT ![h].flags = FLAG_DONE], todo |-> <<>>, result |-> <<>>]
                ct == collect_todo(h, st, {})
            IN CASE ~c[1] ->
                      /\ items' = c[2]
                      /\ Return(h, r, "null", <<>>)
                      /\ UNCHANGED <<todo, result, i>>
                 [] ct.over ->
                      /\ items' = ct.st.its
                      /\ Die(h, r, "overflow")
                      /\ UNCHANGED <<todo, result, i>>
                 [] OTHER ->
                      /\ items' = ct.st.its
                      /\ todo' = ct.st.todo
                      /\ result' = ct.st.result
                      /\ i' = 1
                      /\ pc' = "loop"
                      /\ UNCHANGED log
    /\ UNCHANGED u

(* One iteration of the for loop: lookupItem(pkgn, strlen(pkgn)) (assert *)
(* (xitem) fails unless the pkgver hashes to its name's bucket), then a   *)
(* FLAG_DONE or sortable item is removed and the for loop left (the next  *)
(* while iteration starts it again at index 0).                           *)
VisitAt(next) ==
    /\ pc = "loop"
    /\ i <= Len(todo)
    /\ LET x  == todo[i]
           sr == sort_recursive(x, [its |-> items, todo |-> todo, result |-> result])
       IN CASE ~TodoLookup(x) ->
                 /\ Die(head, rpool, "assert")
                 /\ UNCHANGED <<items, todo, result, i>>
            [] "DONE" \in items[x].flags ->
                 /\ todo' = RemoveAt(todo, i)
                 /\ i' = next
                 /\ UNCHANGED <<items, result, pc, log>>
            [] sr.ok ->
                 /\ items' = sr.st.its
                 /\ result' = sr.st.result
                 /\ todo' = RemoveAt(todo, i)
                 /\ i' = next
                 /\ UNCHANGED <<pc, log>>
            [] OTHER ->
                 /\ items' = sr.st.its
                 /\ result' = sr.st.result
                 /\ i' = i + 1
                 /\ UNCHANGED <<todo, pc, log>>
    /\ UNCHANGED <<u, head, rpool, calls>>

\* mutant: the break after the removal is missing
VisitNoBreak == VisitAt(i + 1)

Visit == VisitAt(1)

\* mutant: the loop index lives outside the while loop and is not reset
RescanKeep ==
    /\ pc = "loop"
    /\ todo # <<>>
    /\ i > Len(todo)
    /\ UNCHANGED <<u, items, head, rpool, pc, todo, result, i, calls, log>>

\* the for loop ran off the end of todo: the while loop starts it again
Rescan ==
    /\ pc = "loop"
    /\ todo # <<>>
    /\ i > Len(todo)
    /\ i' = 1
    /\ UNCHANGED <<u, items, head, rpool, pc, todo, result, calls, log>>

\* todo is empty: ordered_depends returns result
Finish ==
    /\ pc = "loop"
    /\ todo = <<>>
    /\ Return(head, rpool, "ok", result)
    /\ UNCHANGED <<u, items, head, rpool, todo, result, i, calls>>

Next ==
    \/ \E h \in Pkgs \cup {Missing}, r \in BOOLEAN : Call(h, r)
    \/ Visit
    \/ Rescan
    \/ Finish

Spec == Init /\ [][Next]_vars /\ WF_vars(Visit \/ Rescan \/ Finish)

-----------------------------------------------------------------------------
(* What the spec (section 4.4) asks of the result, over the dependency    *)
(* graph of the database the call reads: an edge p -> d for every         *)
(* run_depends entry d of p that some package offers and p does not      *)
(* provide itself.                                                         *)
DepGraph(r) ==
    [node |-> Pkgs,
     edge |-> {<<p, d>> \in Pkgs \X Pkgs :
                 d \in ToSet(Deps(r, p)) /\ d \notin u.db[r].provides[p]}]

\* every package the head reaches, the head itself included
Reach(r, h) == {q \in Pkgs : ConnectionsIn(DepGraph(r))[h, q]}

\* no entry twice, and each entry after every dependency of it in the list
Linearised(r, res) ==
    /\ IsInjective(res)
    /\ \A j, k \in 1..Len(res) : <<res[k], res[j]>> \in DepGraph(r).edge => j < k

Outcomes == {"ok", "null", "assert", "overflow"}

TypeOK ==
    /\ pc \in {"idle", "loop", "dead"}
    /\ calls \in 0..MaxCalls
    /\ i \in 1..Len(todo) + 1
    /\ \A p \in Pkgs : items[p] = NULL \/ items[p].flags \subseteq AllBits
    /\ \A k \in 1..Len(log) : log[k][3] \in Outcomes

(* The result ordered_depends builds, while it builds it and once it is   *)
(* returned, lists no package twice and lists each package after all of   *)
(* its dependencies that it lists: what the skip test of collect_todo,    *)
(* the FLAG_DONE bits and the done count of sort_recursive together must  *)
(* ensure.                                                                 *)
ResultIsLinearised ==
    /\ pc = "loop" => Linearised(rpool, result)
    /\ \A k \in 1..Len(log) : Linearised(log[k][2], log[k][4])

(* A call on the repository pool whose head reaches a dependency nobody   *)
(* offers returns NULL (spec 4.4 and 7: MissingDependency is fatal when   *)
(* traversing the repo pool), whatever ItemHash holds from earlier calls. *)
MissingDependencyFatal ==
    \A k \in 1..Len(log) :
        LET h == log[k][1]  r == log[k][2] IN
        (r /\ h \in Pkgs /\ \E q \in Reach(r, h) : Missing \in ToSet(Deps(r, q)))
            => log[k][3] = "null"

(* A call that returns a result returns every package the head reaches    *)
(* but the head (spec 4.4: the full dependency tree; 9: do not silently   *)
(* drop a package).                                                        *)
Completeness ==
    \A k \in 1..Len(log) :
        log[k][3] = "ok" => ToSet(log[k][4]) = Reach(log[k][2], log[k][1]) \ {log[k][1]}

(* No call ends the process: the assert(xitem) after lookupItem(pkgn,     *)
(* strlen(pkgn)) in the todo loop holds, finding every pkgver on todo in  *)
(* ItemHash again, and collect_todo's recursion ends, so the stack holds. *)
NoInternalError == \A k \in 1..Len(log) : log[k][3] \in {"ok", "null"}

(* Every while loop of ordered_depends ends: each pass either removes an  *)
(* entry of todo or marks one FLAG_DONE for the next pass to remove.      *)
Termination == [](pc = "loop" => <>(pc # "loop"))

====
