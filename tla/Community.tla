----------------------------- MODULE Community -----------------------------
(***************************************************************************)
(* The community feed: shared_plans as community/store.py keeps and pages  *)
(* through it, and the list one reader scrolls and searches on the phone   *)
(* (CommunityViewModel.kt) while others publish, are trimmed and withdraw. *)
(*                                                                         *)
(* A post is its id: ids are random, so their order says nothing about     *)
(* time.  A transaction of the store is one step; what a handler does      *)
(* before it, the request on its way and the reply on its way back are     *)
(* steps of their own.                                                     *)
(***************************************************************************)
EXTENDS Integers, FiniteSets, SequencesExt, Lists

CONSTANTS
    Posts,      \* ids that are published
    Earlier,    \* those already in the feed when the reader comes
    Author,     \* whose post it is
    Place,      \* its destination
    Reader,     \* who scrolls the list
    Searches,   \* what the reader may type; All is the empty search
    Cap,        \* MAX_SHARED_PER_AUTHOR
    PageSize,   \* DEFAULT_FEED
    MaxClock,   \* bound: instants told apart by created_at
    MaxAsks,    \* bound: requests for a page
    MaxTyped,   \* bound: changes of the search
    All, None

ASSUME PostsAssumption == Posts \subseteq Nat /\ IsFiniteSet(Posts) /\ Earlier \subseteq Posts
ASSUME EarlierAssumption ==
    \A p \in Earlier : Cardinality({q \in Earlier : Author[q] = Author[p]}) <= Cap
ASSUME LimitsAssumption == Cap \in Nat \ {0} /\ PageSize \in Nat \ {0}
ASSUME NoneAssumption == None \notin [stamp : Nat, id : Posts]
ASSUME BoundsAssumption == {MaxClock, MaxAsks, MaxTyped} \subseteq Nat

VARIABLES
    clock,
    stamp,      \* created_at of every post that got one
    inserting,  \* stamped posts whose transaction has not run
    posts,      \* rows of shared_plans
    state,      \* CommunityState
    query,      \* what is typed
    due,        \* the debounce timer is running
    emitted,    \* the last search the debounced flow emitted
    typed,      \* history: changes of the search
    calls,      \* page requests under way
    taken,      \* the reader's own withdrawals whose reply is on its way
    asks,       \* history: page requests made
    reading     \* history: what the list on screen began with

table == <<clock, stamp, inserting, posts>>
typing == <<query, due, emitted, typed>>
vars == <<table, state, typing, calls, taken, asks, reading>>

Position == [stamp : Nat, id : Posts]
Page == [items : Seq(Posts), next : Position \cup {None}, basis : SUBSET Posts]
Call == [kind : {"refresh", "more"}, query : Searches \cup {All}, cursor : Position \cup {None},
         number : 1 .. MaxAsks, reply : Page \cup {None}]

CommunityState ==
    [loading |-> FALSE, cards |-> <<>>, error |-> FALSE, loaded |-> FALSE,
     nextCursor |-> None, loadingMore |-> FALSE]

Init ==
    /\ clock = 0 /\ stamp = [p \in Earlier |-> 0] /\ inserting = {} /\ posts = Earlier
    /\ state = CommunityState
    /\ query = All /\ due = FALSE /\ emitted = None /\ typed = 0
    /\ calls = {} /\ taken = {} /\ asks = 0
    /\ reading = [basis |-> {}, query |-> All, sound |-> TRUE]
-----------------------------------------------------------------------------
(* The table.                                                              *)

(* created_at is taken in the handler, before the worker thread gets to    *)
(* the insert; two posts may share an instant.                             *)
Stamp(p) ==
    /\ p \notin DOMAIN stamp
    /\ \E now \in {clock, clock + 1} :
          /\ now <= MaxClock /\ clock' = now
          /\ stamp' = [q \in DOMAIN stamp \cup {p} |-> IF q = p THEN now ELSE stamp[q]]
    /\ inserting' = inserting \cup {p}
    /\ UNCHANGED <<posts, state, typing, calls, taken, asks, reading>>

ByAuthor(all, author) == {p \in all : Author[p] = author}

(* ORDER BY created_at DESC LIMIT -1 OFFSET Cap: among posts of one        *)
(* instant the database chooses.                                           *)
Keepable_Oldest(mine) ==
    {kept \in SUBSET mine :
        /\ Cardinality(kept) = IF Cardinality(mine) < Cap THEN Cardinality(mine) ELSE Cap
        /\ \A p \in kept, q \in mine \ kept : stamp[p] <= stamp[q]}

Keepable_OneMore(mine) ==
    {kept \in SUBSET mine :
        /\ Cardinality(kept) = IF Cardinality(mine) <= Cap THEN Cardinality(mine) ELSE Cap + 1
        /\ \A p \in kept, q \in mine \ kept : stamp[p] >= stamp[q]}

Keepable(mine) ==
    {kept \in SUBSET mine :
        /\ Cardinality(kept) = IF Cardinality(mine) < Cap THEN Cardinality(mine) ELSE Cap
        /\ \A p \in kept, q \in mine \ kept : stamp[p] >= stamp[q]}

Insert(p) ==
    LET mine == ByAuthor(posts \cup {p}, Author[p])
    IN  /\ p \in inserting
        /\ inserting' = inserting \ {p}
        /\ \E kept \in Keepable(mine) : posts' = (posts \ mine) \cup kept
        /\ UNCHANGED <<clock, stamp, state, typing, calls, taken, asks, reading>>

Withdraw(p) ==
    /\ p \in posts
    /\ posts' = posts \ {p}
    /\ taken' = IF Author[p] = Reader THEN taken \cup {p} ELSE taken
    /\ UNCHANGED <<clock, stamp, inserting, state, typing, calls, asks, reading>>

Matches(p, search) == search = All \/ Place[p] = search

(* The order of the feed: by (created_at, id), newest first.               *)
Before_StampOnly(a, b) == a.stamp > b.stamp

Before(a, b) == a.stamp > b.stamp \/ (a.stamp = b.stamp /\ a.id > b.id)

PositionOf(p) == [stamp |-> stamp[p], id |-> p]
Rows(search, cursor) ==
    {p \in posts : Matches(p, search) /\ (cursor = None \/ Before(cursor, PositionOf(p)))}

\* ORDER BY created_at DESC, id DESC
Sorted(rows) ==
    Listed(rows, [p \in rows |->
        {q \in rows : stamp[q] > stamp[p] \/ (stamp[q] = stamp[p] /\ q > p)}])

(* One row more than a page tells whether there is another page.           *)
feed(search, cursor) ==
    LET rows == Sorted(Rows(search, cursor))
        items == SubSeq(rows, 1, IF Len(rows) > PageSize THEN PageSize ELSE Len(rows))
    IN  [items |-> items, basis |-> Range(rows),
         next |-> IF Len(rows) > PageSize THEN PositionOf(Last(items)) ELSE None]
-----------------------------------------------------------------------------
(* The reader.                                                             *)
Ask(kind, cursor) ==
    /\ asks < MaxAsks
    /\ asks' = asks + 1
    /\ calls' = calls \cup {[kind |-> kind, query |-> query, cursor |-> cursor,
                             number |-> asks + 1, reply |-> None]}

Idle == ~state.loading

(* One refresh at a time: another one is dropped.                          *)
refresh ==
    IF Idle
       THEN /\ state' = [state EXCEPT !.loading = TRUE, !.error = FALSE]
            /\ Ask("refresh", None)
       ELSE UNCHANGED <<state, calls, asks>>

EnterTab ==
    /\ refresh
    /\ UNCHANGED <<table, typing, taken, reading>>

Search(text) ==
    /\ text # query /\ typed < MaxTyped /\ typed' = typed + 1
    /\ query' = text /\ due' = TRUE
    /\ UNCHANGED <<table, state, emitted, calls, taken, asks, reading>>

Debounced ==
    /\ due /\ due' = FALSE
    /\ emitted' = query
    /\ IF emitted = query THEN UNCHANGED <<state, calls, asks>> ELSE refresh
    /\ UNCHANGED <<table, query, typed, taken, reading>>

LoadMore ==
    /\ state.nextCursor # None /\ ~state.loading /\ ~state.loadingMore
    /\ state' = [state EXCEPT !.loadingMore = TRUE]
    /\ Ask("more", state.nextCursor)
    /\ reading' = [reading EXCEPT !.sound = @ /\ query = reading.query]
    /\ UNCHANGED <<table, typing, taken>>

(* The server reads the page.                                              *)
Read(call) ==
    /\ call.reply = None
    /\ calls' = (calls \ {call})
                  \cup {[call EXCEPT !.reply = feed(call.query, call.cursor)]}
    /\ UNCHANGED <<table, state, typing, taken, asks, reading>>

Refreshed(call) ==
    /\ call.kind = "refresh" /\ call.reply # None
    /\ state' = [CommunityState EXCEPT !.cards = call.reply.items, !.loaded = TRUE,
                                       !.nextCursor = call.reply.next]
    /\ calls' = calls \ {call}
    /\ reading' = [basis |-> call.reply.basis, query |-> call.query,
                   sound |-> \A other \in calls : other.kind # "more"]
    /\ UNCHANGED <<table, typing, taken, asks>>

Unseen(items) == Only(items, Posts \ Range(state.cards))

Appended(page) ==
    [state EXCEPT !.cards = @ \o Unseen(page.items), !.nextCursor = page.next,
                  !.loadingMore = FALSE]

More(call) ==
    /\ call.kind = "more" /\ call.reply # None
    /\ state' = Appended(call.reply)
    /\ calls' = calls \ {call}
    /\ UNCHANGED <<table, typing, taken, asks, reading>>

(* A request fails and whatever is on screen stays.  Reading changes       *)
(* nothing, so a page lost on its way back is one that was never read.     *)
Failed_StillLoading(kind) == [state EXCEPT !.error = TRUE, !.loaded = TRUE]

Failed(kind) ==
    IF kind = "refresh"
       THEN [state EXCEPT !.loading = FALSE, !.error = TRUE, !.loaded = TRUE]
       ELSE [state EXCEPT !.loadingMore = FALSE, !.error = TRUE]

Fail(call) ==
    /\ state' = Failed(call.kind)
    /\ calls' = calls \ {call}
    /\ UNCHANGED <<table, typing, taken, asks, reading>>

(* The reader's own post is down: its card goes.                           *)
TakenDown(p) ==
    /\ p \in taken /\ taken' = taken \ {p}
    /\ state' = [state EXCEPT !.cards = Only(@, Posts \ {p})]
    /\ UNCHANGED <<table, typing, calls, asks, reading>>

Next ==
    \/ \E p \in Posts : Stamp(p) \/ Insert(p) \/ Withdraw(p) \/ TakenDown(p)
    \/ EnterTab \/ Debounced \/ LoadMore
    \/ \E text \in Searches \cup {All} : Search(text)
    \/ \E call \in calls : Read(call) \/ Refreshed(call) \/ More(call) \/ Fail(call)

(* A request ends: the client's timeouts see to it.                        *)
Outcome == \E call \in calls : Read(call) \/ Refreshed(call) \/ More(call) \/ Fail(call)

Spec == Init /\ [][Next]_vars /\ WF_vars(Outcome)
-----------------------------------------------------------------------------
(* However publishes overlap, no author has more posts than the cap.       *)
AuthorCap == \A p \in posts : Cardinality(ByAuthor(posts, Author[p])) <= Cap

(* In one publish a post only makes way for Cap posts of its author that   *)
(* are no older.                                                           *)
TrimsOldest ==
    [][\A p \in posts \ posts' :
          posts' \subseteq posts \/
          Cardinality({q \in ByAuthor(posts', Author[p]) : stamp[q] >= stamp[p]}) >= Cap]_vars

(* A spinner always has the request that will end it, and there is never   *)
(* a second refresh to race the first.                                     *)
Asked(kind) == {call \in calls : call.kind = kind}
SpinnerHasCall ==
    /\ Cardinality(Asked("refresh")) = IF state.loading THEN 1 ELSE 0
    /\ state.loadingMore => Asked("more") # {}

(* Cursors, not offsets: a reader who scrolls to the end has seen, newest  *)
(* first, every post that was there when the list began and still is,      *)
(* whatever was published, trimmed or withdrawn meanwhile -- as long as no *)
(* refresh overtook a page and the search stayed the same.                 *)
ReadingComplete ==
    reading.sound =>
        /\ \A i, k \in DOMAIN state.cards :
              i < k => Before(PositionOf(state.cards[i]), PositionOf(state.cards[k]))
        /\ state.nextCursor = None => reading.basis \cap posts \subseteq Range(state.cards)

(* Loading comes to an end.                                                *)
LoadingEnds == (state.loading \/ state.loadingMore) ~> ~(state.loading \/ state.loadingMore)
=============================================================================
