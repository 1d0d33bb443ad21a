---------------------------- MODULE AuctionLists ----------------------------
(* The page of the user's own auctions and the page of all auctions: a list *)
(* whose page, order and search text the user changes while requests for    *)
(* earlier ones are under way and answered in any order, and from which the *)
(* user deletes auctions.                                                   *)
(*                                                                          *)
(* Each change of the query runs the load effect of React again: its        *)
(* cleanup cancels the load before, which then must not touch the page.     *)
EXTENDS Integers, Sequences, FiniteSets, SequencesExt

CONSTANTS
    Auctions, Matching,     \* auctions; those the search text finds
    Drafts,                 \* the auctions that are PENDING at first
    EndingSoon,             \* those that end within 24 hours
    Key,                    \* what each order of the list sorts by
    PageSize,               \* PAGE_SIZE
    MaxLoads                \* bound: requests of the list

Sorts == {"newest", "ending", "relevance"}
Statuses == {"PENDING", "ACTIVE", "gone"}
Cards(ids) == [id : ids, status : Statuses]     \* items that show these auctions

ASSUME ListsAssumption ==
    /\ Matching \subseteq Auctions /\ Drafts \subseteq Auctions /\ EndingSoon \subseteq Auctions
    /\ IsFiniteSet(Auctions)
    /\ Key \in [Sorts -> [Auctions -> Int]] /\ \A sort \in Sorts : IsInjective(Key[sort])
    /\ PageSize \in Nat \ {0} /\ MaxLoads \in Nat \ {0}

VARIABLES
    page,       \* kind of page, its query and what it shows
    status,     \* the auctions in the database
    loads,      \* the requests of the list, in order; the last is not cancelled
    del         \* the deletion of each auction

vars == <<page, status, loads, del>>

\* The k-th element of a set in the order of a key.
Kth(S, key, k) == CHOOSE x \in S : Cardinality({y \in S : key[y] <= key[x]}) = k

\* WHERE of GET /auctions and /auctions/me: of the query and of its COUNT(*).
Wanted(query) ==
    {a \in Auctions : /\ status[a] # "gone"
                      /\ query.search => a \in Matching
                      /\ query.sort = "ending" => a \in EndingSoon}

\* ORDER BY, LIMIT and OFFSET; an item carries the status it was served with.
PageOf(query) ==
    LET first == (query.page - 1) * PageSize IN
    [i \in 1 .. Max({0, Min({PageSize, Cardinality(Wanted(query)) - first})}) |->
        LET a == Kth(Wanted(query), Key[query.sort], first + i) IN [id |-> a, status |-> status[a]]]

\* The pages that Pagination offers.
PagesOf(total) == 1 .. (total + PageSize - 1) \div PageSize

Load(query) == [query |-> query, st |-> "sent", items |-> <<>>, total |-> 0]
FirstQuery(search) == [page |-> 1, sort |-> "newest", search |-> search]

Opened(kind, query) ==
    [kind |-> kind, st |-> "list", query |-> query, loading |-> TRUE, loaded |-> FALSE,
     items |-> <<>>, total |-> 0]

\* Without a token the page of one's own auctions only leads to the login page;
\* a search text in the URL makes the list of all auctions start with relevance,
\* one request later.
Init ==
    /\ status = [a \in Auctions |-> IF a \in Drafts THEN "PENDING" ELSE "ACTIVE"]
    /\ del = [a \in Auctions |-> "none"]
    /\ \/ page = Opened("mine", FirstQuery(FALSE)) /\ loads = <<Load(FirstQuery(FALSE))>>
       \/ page = [Opened("mine", FirstQuery(FALSE)) EXCEPT !.loading = FALSE, !.st = "leaving"]
          /\ loads = <<>>
       \/ page = Opened("all", FirstQuery(FALSE)) /\ loads = <<Load(FirstQuery(FALSE))>>
       \/ LET relevant == [FirstQuery(TRUE) EXCEPT !.sort = "relevance"] IN
            /\ page = Opened("all", relevant)
            /\ loads = <<Load(FirstQuery(TRUE)), Load(relevant)>>

-----------------------------------------------------------------------------
(* The query.                                                               *)

Here == page.st # "left"

\* The effect: the load before is cancelled, a new one is sent.
Ask(query, calls) ==
    /\ Len(calls) < MaxLoads
    /\ page' = [page EXCEPT !.query = query, !.loading = TRUE]
    /\ loads' = Append(calls, Load(query))
    /\ UNCHANGED <<status, del>>

\* While it loads, the list of all auctions is a spinner without buttons; the
\* other page keeps its buttons and shows skeletons.
MineView ==
    IF page.loading THEN "skeletons" ELSE IF page.items = <<>> THEN "empty" ELSE "cards"
AllView == IF page.loading THEN "spinner" ELSE "cards"

MineSort(sort) ==
    /\ Here /\ page.kind = "mine" /\ sort # "relevance"
    /\ LET query == [page.query EXCEPT !.page = 1, !.sort = sort] IN
         query # page.query /\ Ask(query, loads)

AllSort(sort) ==
    /\ Here /\ page.kind = "all" /\ AllView = "cards"
    /\ sort = "relevance" => page.query.search
    /\ LET query == [page.query EXCEPT !.page = 1, !.sort = sort] IN
         query # page.query /\ Ask(query, loads)

MineTurn(n) ==
    /\ Here /\ page.kind = "mine" /\ MineView = "cards"
    /\ n \in PagesOf(page.total) /\ n # page.query.page
    /\ Ask([page.query EXCEPT !.page = n], loads)

AllTurn(n) ==
    /\ Here /\ page.kind = "all" /\ AllView = "cards"
    /\ n \in PagesOf(page.total) /\ n # page.query.page
    /\ Ask([page.query EXCEPT !.page = n], loads)

\* The search text is in the URL.  Both effects run: one loads with the old page
\* and order, the other resets them, which loads again if it changes them.
Search(on) ==
    /\ Here /\ page.kind = "all" /\ page.query.search # on
    /\ LET half == [page.query EXCEPT !.search = on]
           full == [page |-> 1, sort |-> IF on THEN "relevance" ELSE "newest", search |-> on]
       IN Ask(full, IF half = full THEN loads ELSE Append(loads, Load(half)))

-----------------------------------------------------------------------------
(* The answers.                                                             *)

\* AuctionService.List: the rows, then their number, in two queries.
ServeRows(i) ==
    /\ loads[i].st = "sent"
    /\ loads' = [loads EXCEPT ![i] = [@ EXCEPT !.st = "rows",
                                        !.items = PageOf(loads[i].query)]]
    /\ UNCHANGED <<page, status, del>>

ServeCount(i) ==
    /\ loads[i].st = "rows"
    /\ loads' = [loads EXCEPT ![i] = [@ EXCEPT !.st = "answered", !.total = Cardinality(Wanted(loads[i].query))]]
    /\ UNCHANGED <<page, status, del>>

ServeError(i) ==
    /\ loads[i].st \in {"sent", "rows"}
    /\ \E st \in {"error"} \cup (IF loads[i].st = "sent" THEN {"401"} ELSE {}) :
        loads' = [loads EXCEPT ![i].st = st]
    /\ UNCHANGED <<page, status, del>>

\* Mutant of Cancelled: nothing is cancelled.
NeverCancelled(i) == FALSE

Cancelled(i) == i # Len(loads) \/ ~Here

\* Mutant of AfterError: only an answer ends the loading.
AfterErrorLoading(st) == page

\* A message; after a 401 the page leaves for the login page a little later.
AfterError(st) ==
    [page EXCEPT !.loading = FALSE, !.loaded = FALSE,
                 !.st = IF st = "401" /\ page.kind = "mine" THEN "leaving" ELSE @]

Deliver(i) ==
    /\ loads[i].st \in {"answered", "error", "401"}
    /\ loads' = [loads EXCEPT ![i].st = "done"]
    /\ page' = IF Cancelled(i) THEN page
               ELSE IF loads[i].st # "answered" THEN AfterError(loads[i].st)
               ELSE [page EXCEPT !.items = loads[i].items, !.total = loads[i].total,
                                 !.loading = FALSE, !.loaded = TRUE]
    /\ UNCHANGED <<status, del>>

Leave == page.st = "leaving" /\ page' = [page EXCEPT !.st = "left"] /\ UNCHANGED <<status, loads, del>>

-----------------------------------------------------------------------------
(* Editing and deleting one's own auctions.                                 *)

\* The status on the card is the one it was served with.
CanEdit(a) == MineView = "cards" /\ Contains(page.items, [id |-> a, status |-> "PENDING"])

Edit(a) ==
    /\ Here /\ page.kind = "mine" /\ CanEdit(a)
    /\ page' = [page EXCEPT !.st = "left"]
    /\ UNCHANGED <<status, loads, del>>

\* Confirmed in the dialogue, which can be closed before the answer.  Bound: an
\* auction whose deletion succeeded is not deleted again.
Delete(a) ==
    /\ Here /\ page.kind = "mine" /\ CanEdit(a) /\ del[a] = "none"
    /\ del' = [del EXCEPT ![a] = "sent"]
    /\ UNCHANGED <<page, status, loads>>

\* AuctionService.Delete: status, then a DELETE of the PENDING row.
DeleteReads(a) ==
    /\ del[a] = "sent"
    /\ del' = [del EXCEPT ![a] = IF status[a] = "PENDING" THEN "read" ELSE "refused"]
    /\ UNCHANGED <<page, status, loads>>

DeleteRow(a) ==
    /\ del[a] = "read"
    /\ del' = [del EXCEPT ![a] = "ok"]
    /\ status' = IF status[a] = "PENDING" THEN [status EXCEPT ![a] = "gone"] ELSE status
    /\ UNCHANGED <<page, loads>>

DeleteErrs(a) ==
    /\ del[a] \in {"sent", "read", "ok"}
    /\ del' = [del EXCEPT ![a] = "refused"]
    /\ UNCHANGED <<page, status, loads>>

\* Array.filter: the elements of a list that are in a set, in the list's order.  It
\* is SelectSeq, which the provers do not know, by the positions kept.
Keep(list, wanted) ==
    LET at == {i \in DOMAIN list : list[i] \in wanted}
    IN [k \in 1 .. Cardinality(at) |-> list[Kth(at, [i \in at |-> i], k)]]

DeleteReturns(a) ==
    /\ del[a] \in {"ok", "refused"}
    /\ del' = [del EXCEPT ![a] = IF del[a] = "ok" THEN "deleted" ELSE "none"]
    /\ page' = IF del[a] = "refused" \/ ~Here THEN page
               ELSE [page EXCEPT !.items = Keep(@, Cards(Auctions \ {a})),
                                 !.total = IF @ = 0 THEN 0 ELSE @ - 1]
    /\ UNCHANGED <<status, loads>>

Activate(a) ==
    /\ status[a] = "PENDING"
    /\ status' = [status EXCEPT ![a] = "ACTIVE"]
    /\ UNCHANGED <<page, loads, del>>

-----------------------------------------------------------------------------
Next ==
    \/ \E sort \in Sorts : MineSort(sort) \/ AllSort(sort)
    \/ \E n \in 1 .. Cardinality(Auctions) : MineTurn(n) \/ AllTurn(n)
    \/ \E on \in BOOLEAN : Search(on)
    \/ \E i \in DOMAIN loads : ServeRows(i) \/ ServeCount(i) \/ ServeError(i) \/ Deliver(i)
    \/ Leave
    \/ \E a \in Auctions :
        \/ Edit(a) \/ Delete(a) \/ Activate(a)
        \/ DeleteReads(a) \/ DeleteRow(a) \/ DeleteErrs(a) \/ DeleteReturns(a)

\* Every request is answered, with an error if need be, and the browser runs the
\* continuation of an answer.
Spec ==
    /\ Init /\ [][Next]_vars
    /\ \A i \in 1 .. MaxLoads :
        WF_vars(i \in DOMAIN loads /\ (ServeRows(i) \/ ServeCount(i) \/ ServeError(i) \/ Deliver(i)))

-----------------------------------------------------------------------------
(* Properties.                                                              *)

Deleted == {a \in Auctions : del[a] = "deleted"}

\* Whatever the order of the answers, a page that is not loading shows what was
\* answered for the page, order and search text that it has now, and nothing of
\* it is missing but auctions whose deletion was confirmed.  (The load effects:
\* users/myauction/page.tsx 119-179, AuctionList.tsx 45-79.)
ShownIsForQuery ==
    Here /\ page.loaded /\ ~page.loading =>
        LET last == loads[Len(loads)]
            Undeleted(items) == Keep(items, Cards(Auctions \ Deleted))
        IN /\ last.query = page.query /\ last.st = "done"
           /\ Undeleted(page.items) = Undeleted(last.items)
           /\ ToSet(page.items) \subseteq ToSet(last.items)
           /\ page.total \in last.total - Cardinality(Deleted) .. last.total

\* The skeletons and the spinner always go away: a cancelled load does not end
\* the loading, so the one that cancelled it must, answered or failed.
ListSettles == page.loading ~> ~page.loading \/ ~Here
=============================================================================
