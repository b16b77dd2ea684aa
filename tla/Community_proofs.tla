-------------------------- MODULE Community_proofs --------------------------
(***************************************************************************)
(* Proofs about Community: the per-author cap, what may make a post go,    *)
(* that a spinner always has its request, and that a reader who scrolls to *)
(* the end misses nothing; and about Library, the saving of those posts:   *)
(* when a heart tells the truth, and what becomes of the copies.           *)
(***************************************************************************)
EXTENDS Community, Library, Lists_proofs, FiniteSetTheorems, TLAPS

CapInv == posts \subseteq Posts /\ AuthorCap

(* The transaction of publish keeps at most Cap posts of its author and    *)
(* touches nobody else's.                                                  *)
LEMMA KeepableFits ==
    ASSUME NEW mine, IsFiniteSet(mine), NEW kept \in Keepable(mine)
    PROVE  kept \subseteq mine /\ IsFiniteSet(kept) /\ Cardinality(kept) <= Cap
<1>1. kept \subseteq mine BY DEF Keepable
<1>2. IsFiniteSet(kept) BY <1>1, FS_Subset
<1>3. Cardinality(mine) \in Nat /\ Cardinality(kept) \in Nat BY <1>2, FS_CardinalityType
<1>4. Cardinality(kept) = IF Cardinality(mine) < Cap THEN Cardinality(mine) ELSE Cap
  BY DEF Keepable
<1> QED BY <1>1, <1>2, <1>3, <1>4, LimitsAssumption

LEMMA InsertCap ==
    ASSUME CapInv, NEW p \in Posts, Insert(p)
    PROVE  CapInv'
<1> DEFINE mine == ByAuthor(posts \cup {p}, Author[p])
<1>1. PICK kept \in Keepable(mine) : posts' = (posts \ mine) \cup kept BY DEF Insert
<1>2. mine \subseteq Posts BY DEF ByAuthor, CapInv
<1>3. IsFiniteSet(mine) BY <1>2, FS_Subset, PostsAssumption
<1>4. kept \subseteq mine /\ Cardinality(kept) <= Cap BY <1>1, <1>3, KeepableFits
<1>5. posts' \subseteq Posts BY <1>1, <1>2, <1>4 DEF CapInv
<1>6. ASSUME NEW q \in posts' PROVE Cardinality(ByAuthor(posts', Author[q])) <= Cap
  <2>1. CASE Author[q] = Author[p]
    <3>1. ByAuthor(posts', Author[q]) = kept BY <1>1, <1>4, <2>1 DEF ByAuthor
    <3> QED BY <3>1, <1>4
  <2>2. CASE Author[q] # Author[p]
    <3>1. q \in posts BY <1>1, <1>4, <2>2 DEF ByAuthor
    <3>2. ByAuthor(posts', Author[q]) = ByAuthor(posts, Author[q])
      BY <1>1, <1>4, <2>2 DEF ByAuthor
    <3> QED BY <3>1, <3>2 DEF CapInv, AuthorCap
  <2> QED BY <2>1, <2>2
<1> QED BY <1>5, <1>6 DEF CapInv, AuthorCap

LEMMA WithdrawCap ==
    ASSUME CapInv, NEW p \in Posts, Withdraw(p)
    PROVE  CapInv'
<1>1. posts' = posts \ {p} BY DEF Withdraw
<1>2. ASSUME NEW q \in posts' PROVE Cardinality(ByAuthor(posts', Author[q])) <= Cap
  <2>1. ByAuthor(posts', Author[q]) \subseteq ByAuthor(posts, Author[q]) BY <1>1 DEF ByAuthor
  <2>2. IsFiniteSet(ByAuthor(posts, Author[q]))
    BY FS_Subset, PostsAssumption DEF CapInv, ByAuthor
  <2>3. Cardinality(ByAuthor(posts', Author[q])) <= Cardinality(ByAuthor(posts, Author[q]))
    BY <2>1, <2>2, FS_Subset
  <2>4. Cardinality(ByAuthor(posts, Author[q])) <= Cap BY <1>1 DEF CapInv, AuthorCap
  <2>5. IsFiniteSet(ByAuthor(posts', Author[q])) BY <2>1, <2>2, FS_Subset
  <2>6. Cardinality(ByAuthor(posts', Author[q])) \in Nat /\ Cardinality(ByAuthor(posts, Author[q])) \in Nat
    BY <2>2, <2>5, FS_CardinalityType
  <2> QED BY <2>3, <2>4, <2>6, LimitsAssumption
<1> QED BY <1>1, <1>2 DEF CapInv, AuthorCap

LEMMA CapStep == CapInv /\ [Next]_vars => CapInv'
<1> SUFFICES ASSUME CapInv, [Next]_vars PROVE CapInv'
  OBVIOUS
<1>1. CASE \E p \in Posts : Insert(p) BY <1>1, InsertCap
<1>2. CASE \E p \in Posts : Withdraw(p) BY <1>2, WithdrawCap
<1>3. CASE posts' = posts BY <1>3 DEF CapInv, AuthorCap, ByAuthor
<1>4. \/ \E p \in Posts : Insert(p)
      \/ \E p \in Posts : Withdraw(p)
      \/ posts' = posts
  BY DEF Next, Stamp, TakenDown, EnterTab, Debounced, LoadMore, Search, Read, Refreshed,
         More, Fail, vars, table
<1> QED BY <1>1, <1>2, <1>3, <1>4

(* Whatever number of authors publish in whatever order of threads, no     *)
(* author ever has more posts in the feed than MAX_SHARED_PER_AUTHOR.      *)
THEOREM CapSafe == Spec => []AuthorCap
<1>1. Init => CapInv
  BY PostsAssumption, EarlierAssumption DEF Init, CapInv, AuthorCap, ByAuthor
<1>2. CapInv => AuthorCap BY DEF CapInv
<1> QED BY <1>1, <1>2, CapStep, PTL DEF Spec
-----------------------------------------------------------------------------
(* A post only goes when it is withdrawn or when as many posts of its      *)
(* author as the cap allows are no older, in whatever order the threads of *)
(* that author's publishes run.                                            *)
THEOREM TrimSafe == Spec => TrimsOldest
<1>1. ASSUME CapInv, NEW p \in Posts, Insert(p), NEW q \in posts \ posts'
      PROVE  Cardinality({o \in ByAuthor(posts', Author[q]) : stamp[o] >= stamp[q]}) >= Cap
  <2> DEFINE mine == ByAuthor(posts \cup {p}, Author[p])
  <2>1. PICK kept \in Keepable(mine) : posts' = (posts \ mine) \cup kept BY <1>1 DEF Insert
  <2>2. q \in mine \ kept BY <1>1, <2>1
  <2>3. IsFiniteSet(mine)
    <3>1. mine \subseteq Posts BY <1>1 DEF ByAuthor, CapInv
    <3> QED BY <3>1, FS_Subset, PostsAssumption
  <2>4. kept \subseteq mine BY DEF Keepable
  <2>5. ByAuthor(posts', Author[q]) = kept BY <2>1, <2>2, <2>4 DEF ByAuthor
  <2>6. {o \in kept : stamp[o] >= stamp[q]} = kept BY <2>2 DEF Keepable
  <2>7. Cardinality(kept) = Cap
    <3>1. kept # mine BY <2>2
    <3>2. Cardinality(kept) # Cardinality(mine) BY <2>2, <2>3, <2>4, FS_Subset, <3>1
    <3> QED BY <3>2 DEF Keepable
  <2> QED BY <2>5, <2>6, <2>7, LimitsAssumption
<1>2. CapInv /\ [Next]_vars =>
        [\A p \in posts \ posts' :
            posts' \subseteq posts \/
            Cardinality({q \in ByAuthor(posts', Author[p]) : stamp[q] >= stamp[p]}) >= Cap]_vars
  <2>1. [Next]_vars => (\E p \in Posts : Insert(p)) \/ posts' \subseteq posts
    BY DEF Next, Stamp, TakenDown, EnterTab, Debounced, LoadMore, Search, Read, Refreshed,
           More, Fail, Withdraw, vars, table
  <2> QED BY <1>1, <2>1
<1>3. Init => CapInv
  BY PostsAssumption, EarlierAssumption DEF Init, CapInv, AuthorCap, ByAuthor
<1> QED BY <1>2, <1>3, CapStep, PTL DEF Spec, TrimsOldest
-----------------------------------------------------------------------------
(* What the loading flags and the requests under way say of each other.    *)
Fields == {"loading", "cards", "error", "loaded", "nextCursor", "loadingMore"}
FlagsOK == DOMAIN state = Fields /\ state.loading \in BOOLEAN /\ state.loadingMore \in BOOLEAN

RefreshInv ==
    /\ ~state.loading => Asked("refresh") = {}
    /\ state.loading => \E call : Asked("refresh") = {call}
MoreInv == state.loadingMore => Asked("more") # {}
SpinInv == FlagsOK /\ RefreshInv /\ MoreInv

LEMMA SpinInit == Init => SpinInv
BY DEF Init, CommunityState, SpinInv, FlagsOK, Fields, RefreshInv, MoreInv, Asked

(* Neither flag nor any request is touched.                                *)
LEMMA SpinStill ==
    ASSUME SpinInv, calls' = calls, DOMAIN state' = Fields,
           state'.loading = state.loading, state'.loadingMore = state.loadingMore
    PROVE  SpinInv'
BY DEF SpinInv, FlagsOK, RefreshInv, MoreInv, Asked

LEMMA RefreshStep == SpinInv /\ refresh => SpinInv'
<1> SUFFICES ASSUME SpinInv, refresh PROVE SpinInv'
  OBVIOUS
<1>1. CASE state.loading
  <2>1. UNCHANGED <<state, calls>> BY <1>1 DEF refresh, Idle
  <2> QED BY <2>1, SpinStill DEF SpinInv, FlagsOK
<1>2. CASE ~state.loading
  <2> DEFINE new == [kind |-> "refresh", query |-> query, cursor |-> None,
                     number |-> asks + 1, reply |-> None]
  <2>1. state' = [state EXCEPT !.loading = TRUE, !.error = FALSE] /\ calls' = calls \cup {new}
    BY <1>2 DEF refresh, Idle, Ask
  <2>2. DOMAIN state' = Fields /\ state'.loading = TRUE /\ state'.loadingMore = state.loadingMore
    BY <2>1 DEF SpinInv, FlagsOK, Fields
  <2>3. Asked("refresh")' = {new} BY <1>2, <2>1 DEF SpinInv, RefreshInv, Asked
  <2>4. Asked("more") \subseteq Asked("more")' BY <2>1 DEF Asked
  <2> QED BY <2>2, <2>3, <2>4 DEF SpinInv, FlagsOK, RefreshInv, MoreInv
<1> QED BY <1>1, <1>2 DEF SpinInv, FlagsOK

LEMMA LoadMoreStep == SpinInv /\ LoadMore => SpinInv'
<1> SUFFICES ASSUME SpinInv, LoadMore PROVE SpinInv'
  OBVIOUS
<1> DEFINE new == [kind |-> "more", query |-> query, cursor |-> state.nextCursor,
                   number |-> asks + 1, reply |-> None]
<1>1. state' = [state EXCEPT !.loadingMore = TRUE] /\ calls' = calls \cup {new} /\ ~state.loading
  BY DEF LoadMore, Ask
<1>2. DOMAIN state' = Fields /\ state'.loading = state.loading /\ state'.loadingMore = TRUE
  BY <1>1 DEF SpinInv, FlagsOK, Fields
<1>3. Asked("refresh")' = Asked("refresh") BY <1>1 DEF Asked
<1>4. new \in Asked("more")' BY <1>1 DEF Asked
<1> QED BY <1>1, <1>2, <1>3, <1>4 DEF SpinInv, FlagsOK, RefreshInv, MoreInv

(* A request that was read is still the same request.                      *)
LEMMA ReadStep == ASSUME SpinInv, NEW call \in calls, Read(call) PROVE SpinInv'
<1> DEFINE answered == [call EXCEPT !.reply = feed(call.query, call.cursor)]
<1>1. calls' = (calls \ {call}) \cup {answered} /\ state' = state BY DEF Read
<1>2. answered.kind = call.kind BY DEF feed
<1>3. Asked("refresh")' = IF call.kind = "refresh"
                              THEN (Asked("refresh") \ {call}) \cup {answered}
                              ELSE Asked("refresh")
  BY <1>1, <1>2 DEF Asked
<1>4. Asked("more") # {} => Asked("more")' # {} BY <1>1, <1>2 DEF Asked
<1>5. call.kind = "refresh" => state.loading /\ Asked("refresh") = {call}
  BY DEF SpinInv, FlagsOK, RefreshInv, Asked
<1>6. call.kind = "refresh" => Asked("refresh")' = {answered} BY <1>3, <1>5
<1> QED BY <1>1, <1>3, <1>4, <1>5, <1>6 DEF SpinInv, FlagsOK, RefreshInv, MoreInv

LEMMA RefreshedStep == ASSUME SpinInv, NEW call \in calls, Refreshed(call) PROVE SpinInv'
<1>1. calls' = calls \ {call} /\ call.kind = "refresh" BY DEF Refreshed
<1>2. DOMAIN state' = Fields /\ state'.loading = FALSE /\ state'.loadingMore = FALSE
  BY DEF Refreshed, CommunityState, Fields
<1>3. Asked("refresh") = {call} BY <1>1 DEF SpinInv, FlagsOK, RefreshInv, Asked
<1>4. Asked("refresh")' = {} BY <1>1, <1>3 DEF Asked
<1> QED BY <1>2, <1>4 DEF SpinInv, FlagsOK, RefreshInv, MoreInv

LEMMA MoreStep == ASSUME SpinInv, NEW call \in calls, More(call) PROVE SpinInv'
<1>1. calls' = calls \ {call} /\ call.kind = "more" BY DEF More
<1>2. DOMAIN state' = Fields /\ state'.loading = state.loading /\ state'.loadingMore = FALSE
  BY DEF More, Appended, SpinInv, FlagsOK, Fields
<1>3. Asked("refresh")' = Asked("refresh") BY <1>1 DEF Asked
<1> QED BY <1>2, <1>3 DEF SpinInv, FlagsOK, RefreshInv, MoreInv

LEMMA FailStep == ASSUME SpinInv, NEW call \in calls, Fail(call) PROVE SpinInv'
<1>1. calls' = calls \ {call} BY DEF Fail
<1>2. CASE call.kind = "refresh"
  <2>1. DOMAIN state' = Fields /\ state'.loading = FALSE /\ state'.loadingMore = state.loadingMore
    BY <1>2 DEF Fail, Failed, SpinInv, FlagsOK, Fields
  <2>2. Asked("refresh") = {call} BY <1>2 DEF SpinInv, FlagsOK, RefreshInv, Asked
  <2>3. Asked("refresh")' = {} /\ Asked("more")' = Asked("more") BY <1>1, <1>2, <2>2 DEF Asked
  <2> QED BY <2>1, <2>3 DEF SpinInv, FlagsOK, RefreshInv, MoreInv
<1>3. CASE call.kind # "refresh"
  <2>1. DOMAIN state' = Fields /\ state'.loading = state.loading /\ state'.loadingMore = FALSE
    BY <1>3 DEF Fail, Failed, SpinInv, FlagsOK, Fields
  <2>2. Asked("refresh")' = Asked("refresh") BY <1>1, <1>3 DEF Asked
  <2> QED BY <2>1, <2>2 DEF SpinInv, FlagsOK, RefreshInv, MoreInv
<1> QED BY <1>2, <1>3

LEMMA SpinStep == SpinInv /\ [Next]_vars => SpinInv'
<1> SUFFICES ASSUME SpinInv, [Next]_vars PROVE SpinInv'
  OBVIOUS
<1>1. CASE refresh BY <1>1, RefreshStep
<1>2. CASE LoadMore BY <1>2, LoadMoreStep
<1>3. CASE \E call \in calls : Read(call) \/ Refreshed(call) \/ More(call) \/ Fail(call)
  BY <1>3, ReadStep, RefreshedStep, MoreStep, FailStep
<1>4. CASE UNCHANGED <<state, calls>>
  BY <1>4, SpinStill DEF SpinInv, FlagsOK
<1>5. CASE \E p \in Posts : TakenDown(p)
  <2>1. PICK p \in Posts : TakenDown(p) BY <1>5
  <2>2. state' = [state EXCEPT !.cards = Only(@, Posts \ {p})] /\ calls' = calls
    BY <2>1 DEF TakenDown
  <2>3. DOMAIN state' = Fields /\ state'.loading = state.loading
        /\ state'.loadingMore = state.loadingMore
    BY <2>2 DEF SpinInv, FlagsOK, Fields
  <2> QED BY <2>2, <2>3, SpinStill
<1> QED
  BY <1>1, <1>2, <1>3, <1>4, <1>5
  DEF Next, Stamp, Insert, Withdraw, EnterTab, Search, Debounced, vars, table

(* Neither loading flag is ever left without the request that will clear   *)
(* it, and two refreshes never race, for any feed and any page size.       *)
THEOREM SpinnerSafe == Spec => []SpinnerHasCall
<1>1. SpinInv => SpinnerHasCall
  <2>1. Cardinality({}) = 0 BY FS_EmptySet
  <2>2. \A call : Cardinality({call}) = 1 BY FS_Singleton
  <2> QED BY <2>1, <2>2 DEF SpinInv, FlagsOK, RefreshInv, MoreInv, SpinnerHasCall
<1> QED BY <1>1, SpinInit, SpinStep, PTL DEF Spec
-----------------------------------------------------------------------------
(* The reader's list.  A post is stamped once and inserted once, so one     *)
(* that left never comes back; and the cursor stands between what is on     *)
(* screen and what the next page brings.  What a list or a page says is     *)
(* stated of the stamps it was made with, which later ones extend.          *)
At(st, p) == [stamp |-> st[p], id |-> p]
InFeedOrder(st, list) ==
    \A i, k \in DOMAIN list : i < k => Before(At(st, list[i]), At(st, list[k]))
Reached(st, cursor, p) == cursor = None \/ ~Before(cursor, At(st, p))

\* A page, whatever has happened since it was read.
PageOK(st, settled, call) ==
    LET batch == call.reply IN
    /\ batch.items \in Seq(DOMAIN st) /\ InFeedOrder(st, batch.items)
    /\ batch.next \in Position \cup {None}
    /\ batch.basis \subseteq settled
    /\ \A p \in batch.basis : Matches(p, call.query)
    /\ \A p \in batch.basis : Reached(st, batch.next, p) => p \in Range(batch.items)
    /\ \A p \in Range(batch.items) : Reached(st, batch.next, p)
    /\ call.cursor # None =>
          /\ \A p \in Range(batch.items) : Before(call.cursor, At(st, p))
          /\ batch.next # None => Before(call.cursor, batch.next)

\* A list read from the rows of basis down to a position.
ListOK(st, list, cursor, basis, lines) ==
    /\ InFeedOrder(st, list)
    /\ \A p \in Range(list) : Reached(st, cursor, p)
    /\ \A p \in basis \cap lines : Reached(st, cursor, p) => p \in Range(list)

\* The page after it brings what is left of those rows.
Continues(st, call, basis, lines) ==
    call.reply # None => \A p \in basis \cap lines :
                            Before(call.cursor, At(st, p)) => p \in call.reply.basis

Stamps(st) == DOMAIN st \subseteq Posts /\ \A p \in DOMAIN st : st[p] \in Nat
Settled == DOMAIN stamp \ inserting
Rowed ==
    /\ clock \in Nat /\ Stamps(stamp)
    /\ posts \subseteq Settled /\ inserting \subseteq DOMAIN stamp
    /\ taken \subseteq Settled \ posts
CallsOK ==
    \A call \in calls :
        /\ DOMAIN call = {"kind", "query", "cursor", "number", "reply"}
        /\ call.kind = "refresh" => call.cursor = None
        /\ call.kind = "more" => call.cursor \in Position
        /\ call.kind \in {"refresh", "more"}
        /\ call.reply # None => PageOK(stamp, Settled, call)
ScreenOK ==
    /\ DOMAIN state = Fields
    /\ state.cards \in Seq(DOMAIN stamp)
    /\ state.nextCursor \in Position \cup {None}
    /\ DOMAIN reading = {"basis", "query", "sound"} /\ reading.basis \subseteq Settled
Awaited ==
    \A call \in Asked("more") :
        /\ state.loadingMore /\ call.cursor = state.nextCursor /\ call.query = reading.query
        /\ \A other \in Asked("more") : other = call
        /\ Continues(stamp, call, reading.basis, posts)
Sound ==
    reading.sound =>
        /\ ListOK(stamp, state.cards, state.nextCursor, reading.basis, posts)
        /\ \A p \in reading.basis : Matches(p, reading.query)
        /\ Awaited

ReadInv == Rowed /\ CallsOK /\ ScreenOK /\ Sound

LEMMA AtIsPosition == \A st, p : Stamps(st) /\ p \in DOMAIN st => At(st, p) \in Position
BY DEF Stamps, At, Position

LEMMA PositionIsAt == \A p : PositionOf(p) = At(stamp, p)
BY DEF PositionOf, At

(* The order of positions.                                                  *)
LEMMA BeforeIsOrder ==
    ASSUME NEW a \in Position, NEW b \in Position
    PROVE  /\ ~Before(a, a)
           /\ ~(Before(a, b) /\ Before(b, a))
           /\ \A c \in Position : Before(a, b) /\ Before(b, c) => Before(a, c)
           /\ a # b => Before(a, b) \/ Before(b, a)
<1>1. a.stamp \in Nat /\ b.stamp \in Nat /\ a.id \in Nat /\ b.id \in Nat
  BY PostsAssumption DEF Position
<1>2. a = [stamp |-> a.stamp, id |-> a.id] /\ b = [stamp |-> b.stamp, id |-> b.id]
  BY DEF Position
<1>3. a # b => a.stamp # b.stamp \/ a.id # b.id BY <1>2
<1>4. \A c \in Position : c.stamp \in Nat /\ c.id \in Nat BY PostsAssumption DEF Position
<1> QED BY <1>1, <1>3, <1>4 DEF Before

LEMMA RangeIs ==
    ASSUME NEW T, NEW list \in Seq(T), NEW p
    PROVE  p \in Range(list) <=> \E i \in 1 .. Len(list) : list[i] = p
<1>1. DOMAIN list = 1 .. Len(list) BY LenProperties
<1> QED BY <1>1 DEF Range

(* The rows a page is cut from.                                             *)
LEMMA SortedIs ==
    ASSUME Stamps(stamp), NEW lines, lines \subseteq DOMAIN stamp
    PROVE  /\ Sorted(lines) \in Seq(lines)
           /\ Range(Sorted(lines)) = lines
           /\ InFeedOrder(stamp, Sorted(lines))
<1> DEFINE above == [p \in lines |->
               {q \in lines : stamp[q] > stamp[p] \/ (stamp[q] = stamp[p] /\ q > p)}]
<1>1. IsFiniteSet(lines)
  <2>1. lines \subseteq Posts BY DEF Stamps
  <2> QED BY <2>1, FS_Subset, PostsAssumption
<1>2. \A p \in lines : p \in Nat /\ stamp[p] \in Nat BY PostsAssumption DEF Stamps
<1>3. above \in [lines -> SUBSET lines] OBVIOUS
<1>4. \A p \in lines, q \in lines :
         q \in above[p] <=> stamp[q] > stamp[p] \/ (stamp[q] = stamp[p] /\ q > p)
  OBVIOUS
<1>5. Sorted(lines) = Listed(lines, above) BY DEF Sorted
<1> HIDE DEF above
<1>6. TotalOrder(lines, above)
  <2>1. \A x \in lines : x \notin above[x] BY <1>2, <1>4
  <2>2. \A x, y \in lines : x # y => x \in above[y] \/ y \in above[x] BY <1>2, <1>4
  <2>3. ASSUME NEW x \in lines, NEW y \in lines, x \in above[y], NEW z \in above[x]
        PROVE  z \in above[y]
    <3>1. z \in lines BY <1>3
    <3> QED BY <1>2, <1>4, <2>3, <3>1
  <2> QED BY <1>3, <2>1, <2>2, <2>3 DEF TotalOrder
<1> DEFINE list == Sorted(lines)
<1>7. /\ list \in Seq(lines)
      /\ \A x \in lines : \E i \in DOMAIN list : list[i] = x
      /\ \A i, k \in DOMAIN list : i < k => list[i] \in above[list[k]]
  BY <1>1, <1>5, <1>6, ListedIs
<1> HIDE DEF list
<1>8. \A i \in DOMAIN list : list[i] \in lines BY <1>7, LenProperties, ElementOfSeq
<1>9. Range(list) = lines BY <1>7, <1>8 DEF Range
<1>10. InFeedOrder(stamp, list)
  <2> SUFFICES ASSUME NEW i \in DOMAIN list, NEW k \in DOMAIN list, i < k
               PROVE  Before(At(stamp, list[i]), At(stamp, list[k]))
    BY DEF InFeedOrder
  <2>1. stamp[list[i]] > stamp[list[k]]
        \/ (stamp[list[i]] = stamp[list[k]] /\ list[i] > list[k])
    BY <1>4, <1>7, <1>8
  <2> QED BY <2>1 DEF Before, At
<1> QED BY <1>7, <1>9, <1>10 DEF list

(* A page as it is read.                                                    *)
LEMMA FeedIs ==
    ASSUME Rowed, NEW search, NEW cursor \in Position \cup {None}
    PROVE  LET batch == feed(search, cursor) IN
           /\ batch.basis = Rows(search, cursor)
           /\ batch.items \in Seq(DOMAIN stamp) /\ InFeedOrder(stamp, batch.items)
           /\ batch.next \in Position \cup {None}
           /\ \A p \in batch.basis : Reached(stamp, batch.next, p) => p \in Range(batch.items)
           /\ \A p \in Range(batch.items) : Reached(stamp, batch.next, p)
           /\ cursor # None =>
                 /\ \A p \in Range(batch.items) : Before(cursor, At(stamp, p))
                 /\ batch.next # None => Before(cursor, batch.next)
<1> DEFINE all == Rows(search, cursor)
           list == Sorted(all)
           n == Len(list)
           m == IF n > PageSize THEN PageSize ELSE n
           items == SubSeq(list, 1, m)
           next == IF n > PageSize THEN PositionOf(Last(items)) ELSE None
           batch == feed(search, cursor)
<1>1. batch.items = items /\ batch.next = next /\ batch.basis = Range(list) BY DEF feed
<1>2. all \subseteq DOMAIN stamp /\ Stamps(stamp) /\ DOMAIN stamp \subseteq Posts
  BY DEF Rows, Rowed, Stamps, Settled
<1>3. list \in Seq(all) /\ Range(list) = all /\ InFeedOrder(stamp, list)
  <2> HIDE DEF all
  <2> QED BY <1>2, SortedIs
<1>4. cursor # None => \A p \in all : Before(cursor, At(stamp, p))
  BY PositionIsAt DEF Rows
<1> HIDE DEF all, list, batch
<1>5. n \in Nat /\ DOMAIN list = 1 .. n /\ \A i \in 1 .. n : list[i] \in all
  BY <1>3, LenProperties, ElementOfSeq
<1> HIDE DEF n
<1>6. m \in 0 .. n /\ (n > PageSize => m = PageSize /\ m \in 1 .. n /\ m < n) /\ (n <= PageSize => m = n)
  BY <1>5, LimitsAssumption
<1> HIDE DEF m
<1>7. /\ items \in Seq(all) /\ Len(items) = m /\ DOMAIN items = 1 .. m
      /\ \A i \in 1 .. m : items[i] = list[i] /\ i \in 1 .. n
  <2>1. \A i \in 1 .. m : list[i] \in all /\ i \in 1 .. n BY <1>5, <1>6
  <2>2. /\ items \in Seq(all) /\ Len(items) = IF 1 <= m THEN m - 1 + 1 ELSE 0
        /\ \A i \in 1 .. m - 1 + 1 : items[i] = list[1 + i - 1]
    BY <1>5, <1>6, <2>1, SubSeqProperties
  <2> HIDE DEF items
  <2>3. m \in Nat BY <1>5, <1>6
  <2>4. Len(items) = m /\ \A i \in 1 .. m : items[i] = list[i] BY <2>2, <2>3
  <2> QED BY <2>1, <2>2, <2>4, LenProperties
<1> HIDE DEF items
<1>8. n > PageSize => next = At(stamp, list[m]) /\ list[m] \in all /\ next \in Position /\ next # None
  <2> SUFFICES ASSUME n > PageSize
               PROVE  next = At(stamp, list[m]) /\ list[m] \in all /\ next \in Position /\ next # None
    OBVIOUS
  <2>1. m \in 1 .. n /\ m \in 1 .. m BY <1>5, <1>6
  <2>2. Last(items) = list[m] BY <1>7, <2>1 DEF Last
  <2>3. next = At(stamp, list[m]) /\ list[m] \in all BY <1>5, <2>1, <2>2, PositionIsAt
  <2> HIDE DEF next
  <2>4. next \in Position BY <1>2, <2>3, AtIsPosition
  <2> QED BY <2>3, <2>4, NoneAssumption DEF Position
<1>9. ~(n > PageSize) => next = None /\ m = n BY <1>5, <1>6, LimitsAssumption
<1> HIDE DEF next
<1>10. \A p \in all : At(stamp, p) \in Position BY <1>2, AtIsPosition
<1>11. InFeedOrder(stamp, items) BY <1>3, <1>5, <1>7 DEF InFeedOrder
<1>12. items \in Seq(DOMAIN stamp) BY <1>2, <1>7, SeqMonotonic
<1>13. \A p \in Range(items) : \E i \in 1 .. m : p = list[i] BY <1>7 DEF Range
<1>14. ASSUME NEW p \in Range(items) PROVE p \in all /\ Reached(stamp, next, p)
  <2>1. PICK i \in 1 .. m : p = list[i] BY <1>13
  <2>2. i \in 1 .. n /\ p \in all BY <1>5, <1>7, <2>1
  <2>3. CASE n > PageSize
    <3>1. m \in 1 .. n BY <1>6, <2>3
    <3>2. i = m \/ i < m BY <1>5, <1>6, <2>2
    <3>3. i < m => Before(At(stamp, p), next) BY <1>3, <1>5, <1>8, <2>1, <2>2, <2>3, <3>1 DEF InFeedOrder
    <3>4. next \in Position /\ At(stamp, p) \in Position BY <1>8, <1>10, <2>2, <2>3
    <3>5. ~Before(next, At(stamp, p))
      <4>1. CASE i = m BY <1>8, <2>1, <2>3, <3>4, <4>1, BeforeIsOrder
      <4>2. CASE i < m BY <3>3, <3>4, <4>2, BeforeIsOrder
      <4> QED BY <3>2, <4>1, <4>2
    <3> QED BY <2>2, <3>5 DEF Reached
  <2>4. CASE ~(n > PageSize) BY <1>9, <2>2, <2>4 DEF Reached
  <2> QED BY <2>3, <2>4
<1>15. ASSUME NEW p \in all, Reached(stamp, next, p) PROVE p \in Range(items)
  <2>1. PICK i \in 1 .. n : p = list[i] BY <1>3, <1>5 DEF Range
  <2>2. i \in 1 .. m
    <3>1. CASE n > PageSize
      <4>1. m \in 1 .. n /\ m \in Int /\ i \in Int BY <1>5, <1>6, <3>1
      <4>2. m < i => Before(next, At(stamp, p)) BY <1>3, <1>5, <1>8, <2>1, <3>1, <4>1 DEF InFeedOrder
      <4>3. ~(m < i) BY <1>8, <1>15, <3>1, <4>2 DEF Reached
      <4> QED BY <2>1, <4>1, <4>3
    <3>2. CASE ~(n > PageSize) BY <1>9, <3>2
    <3> QED BY <3>1, <3>2
  <2> QED BY <1>7, <2>1, <2>2 DEF Range
<1>16. cursor # None =>
          /\ \A p \in Range(items) : Before(cursor, At(stamp, p))
          /\ next # None => Before(cursor, next)
  BY <1>4, <1>8, <1>9, <1>14
<1>17. next \in Position \cup {None} BY <1>8, <1>9
<1> QED BY <1>1, <1>3, <1>11, <1>12, <1>14, <1>15, <1>16, <1>17 DEF batch, all

-----------------------------------------------------------------------------
(* What was said of earlier stamps stays true when more posts get one.      *)
Extends(new, old) == DOMAIN old \subseteq DOMAIN new /\ \A p \in DOMAIN old : new[p] = old[p]

LEMMA AtStays == \A new, old, p : Extends(new, old) /\ p \in DOMAIN old => At(new, p) = At(old, p)
BY DEF Extends, At

LEMMA OrderStays ==
    ASSUME NEW old, NEW new, Extends(new, old), NEW list \in Seq(DOMAIN old)
    PROVE  /\ list \in Seq(DOMAIN new)
           /\ InFeedOrder(old, list) => InFeedOrder(new, list)
<1>1. list \in Seq(DOMAIN new) BY SeqMonotonic DEF Extends
<1>2. \A i \in DOMAIN list : list[i] \in DOMAIN old BY LenProperties, ElementOfSeq
<1>3. \A i \in DOMAIN list : At(new, list[i]) = At(old, list[i]) BY <1>2, AtStays
<1> QED BY <1>1, <1>3 DEF InFeedOrder

LEMMA ReachedStays ==
    \A new, old, p, cursor : Extends(new, old) /\ p \in DOMAIN old =>
        (Reached(new, cursor, p) <=> Reached(old, cursor, p))
BY AtStays DEF Reached

LEMMA PageStays ==
    ASSUME NEW old, NEW new, Extends(new, old), NEW before, NEW after, before \subseteq after,
           before \subseteq DOMAIN old, NEW call, PageOK(old, before, call)
    PROVE  PageOK(new, after, call)
<1>1. call.reply.items \in Seq(DOMAIN old) BY DEF PageOK
<1>2. call.reply.items \in Seq(DOMAIN new) /\ InFeedOrder(new, call.reply.items)
  BY <1>1, OrderStays DEF PageOK
<1>3. Range(call.reply.items) \subseteq DOMAIN old BY <1>1, RangeInside
<1>4. \A p \in DOMAIN old : Reached(new, call.reply.next, p) <=> Reached(old, call.reply.next, p)
  BY ReachedStays
<1>5. \A p \in DOMAIN old : At(new, p) = At(old, p) BY AtStays
<1>6. call.reply.basis \subseteq DOMAIN old BY DEF PageOK
<1> QED BY <1>2, <1>3, <1>4, <1>5, <1>6 DEF PageOK

LEMMA ListStays ==
    ASSUME NEW old, NEW new, Extends(new, old), NEW list \in Seq(DOMAIN old), NEW cursor,
           NEW basis, basis \subseteq DOMAIN old, NEW lines, NEW fewer,
           basis \cap fewer \subseteq lines, ListOK(old, list, cursor, basis, lines)
    PROVE  ListOK(new, list, cursor, basis, fewer)
<1>1. InFeedOrder(new, list) BY OrderStays DEF ListOK
<1>2. Range(list) \subseteq DOMAIN old BY RangeInside
<1>3. \A p \in DOMAIN old : Reached(new, cursor, p) <=> Reached(old, cursor, p) BY ReachedStays
<1> QED BY <1>1, <1>2, <1>3 DEF ListOK

-----------------------------------------------------------------------------
(* One step per action.                                                     *)

(* The table moves on: what has settled stays so, and no post comes back.   *)
LEMMA TableMoves ==
    ASSUME ReadInv, Extends(stamp', stamp), Stamps(stamp'), Settled \subseteq Settled',
           posts' \subseteq Settled', inserting' \subseteq DOMAIN stamp',
           taken' \subseteq Settled' \ posts', Settled \cap posts' \subseteq posts,
           clock' \in Nat, UNCHANGED <<state, calls, reading>>
    PROVE  ReadInv'
<1>0. Settled \subseteq DOMAIN stamp BY DEF Settled
<1>1. Rowed' BY DEF Rowed
<1>2. CallsOK'
  <2>1. \A call \in calls : call.reply # None => PageOK(stamp', Settled', call)
    BY <1>0, PageStays DEF ReadInv, CallsOK
  <2> QED BY <2>1 DEF ReadInv, CallsOK
<1>3. state.cards \in Seq(DOMAIN stamp') BY OrderStays DEF ReadInv, ScreenOK
<1>4. ScreenOK' BY <1>3 DEF ReadInv, ScreenOK
<1>5. Sound'
  <2> SUFFICES ASSUME reading.sound PROVE Sound'
    BY DEF Sound
  <2>1. reading.basis \subseteq DOMAIN stamp /\ reading.basis \cap posts' \subseteq posts
    BY <1>0 DEF ReadInv, ScreenOK
  <2>2. ListOK(stamp', state.cards, state.nextCursor, reading.basis, posts')
    BY <2>1, ListStays DEF ReadInv, Sound, ScreenOK
  <2>3. ASSUME NEW call \in Asked("more")
        PROVE  Continues(stamp', call, reading.basis, posts')
    <3>1. Continues(stamp, call, reading.basis, posts) BY DEF ReadInv, Sound, Awaited
    <3>2. \A p \in reading.basis : At(stamp', p) = At(stamp, p) BY <2>1, AtStays
    <3> QED BY <2>1, <3>1, <3>2 DEF Continues
  <2>4. Asked("more")' = Asked("more") BY DEF Asked
  <2>5. Awaited' BY <2>3, <2>4 DEF ReadInv, Sound, Awaited
  <2> QED BY <2>2, <2>5 DEF ReadInv, Sound
<1> QED BY <1>1, <1>2, <1>4, <1>5 DEF ReadInv

LEMMA StampMoves == ASSUME ReadInv, NEW p \in Posts, Stamp(p) PROVE ReadInv'
<1>1. PICK now \in {clock, clock + 1} :
         /\ clock' = now
         /\ stamp' = [q \in DOMAIN stamp \cup {p} |-> IF q = p THEN now ELSE stamp[q]]
  BY DEF Stamp
<1>2. /\ p \notin DOMAIN stamp /\ inserting' = inserting \cup {p} /\ posts' = posts
      /\ UNCHANGED <<state, calls, reading, taken>>
  BY DEF Stamp
<1>3. now \in Nat BY <1>1 DEF ReadInv, Rowed
<1>4. /\ DOMAIN stamp' = DOMAIN stamp \cup {p}
      /\ \A q \in DOMAIN stamp : stamp'[q] = stamp[q]
      /\ stamp'[p] = now
  BY <1>1, <1>2
<1>5. Extends(stamp', stamp) /\ Stamps(stamp') BY <1>3, <1>4 DEF Extends, Stamps, ReadInv, Rowed
<1>6. Settled' = Settled BY <1>2, <1>4 DEF Settled
<1> QED BY <1>1, <1>2, <1>3, <1>4, <1>5, <1>6, TableMoves DEF ReadInv, Rowed

LEMMA InsertMoves == ASSUME ReadInv, NEW p \in Posts, Insert(p) PROVE ReadInv'
<1> DEFINE mine == ByAuthor(posts \cup {p}, Author[p])
<1>1. /\ p \in inserting /\ inserting' = inserting \ {p}
      /\ UNCHANGED <<clock, stamp, taken, state, calls, reading>>
  BY DEF Insert
<1>2. PICK kept \in Keepable(mine) : posts' = (posts \ mine) \cup kept BY DEF Insert
<1>3. kept \subseteq posts \cup {p} BY DEF Keepable, ByAuthor
<1>4. posts' \subseteq posts \cup {p} BY <1>2, <1>3
<1>5. Settled' = Settled \cup {p} /\ p \notin Settled BY <1>1 DEF Settled, ReadInv, Rowed
<1>6. Extends(stamp', stamp) /\ Stamps(stamp') BY <1>1 DEF Extends, ReadInv, Rowed
<1> QED BY <1>1, <1>4, <1>5, <1>6, TableMoves DEF ReadInv, Rowed

LEMMA WithdrawMoves == ASSUME ReadInv, NEW p \in Posts, Withdraw(p) PROVE ReadInv'
<1>1. /\ p \in posts /\ posts' = posts \ {p} /\ taken' \subseteq taken \cup {p}
      /\ UNCHANGED <<clock, stamp, inserting, state, calls, reading>>
  BY DEF Withdraw
<1>2. Settled' = Settled BY <1>1 DEF Settled
<1>3. Extends(stamp', stamp) /\ Stamps(stamp') BY <1>1 DEF Extends, ReadInv, Rowed
<1> QED BY <1>1, <1>2, <1>3, TableMoves DEF ReadInv, Rowed

(* What the reader does leaves the table alone.                             *)
Still == UNCHANGED <<clock, stamp, inserting, posts>>

LEMMA RowedStays == ReadInv /\ Still /\ taken' \subseteq taken => Rowed' /\ Settled' = Settled
BY DEF Still, ReadInv, Rowed, Settled

LEMMA SoundStays ==
    ASSUME Sound, Still, reading' = reading, state'.cards = state.cards,
           state'.nextCursor = state.nextCursor, state'.loadingMore = state.loadingMore,
           Asked("more")' = Asked("more")
    PROVE  Sound'
BY DEF Sound, Awaited, Still

LEMMA RefreshReads ==
    ASSUME ReadInv, refresh, Still, UNCHANGED <<taken, reading>>
    PROVE  ReadInv'
<1>1. Rowed' /\ Settled' = Settled BY RowedStays
<1>2. CASE UNCHANGED <<state, calls>>
  <2>1. Asked("more")' = Asked("more") BY <1>2 DEF Asked
  <2>2. Sound' BY <1>2, <2>1, SoundStays DEF ReadInv
  <2> QED BY <1>1, <1>2, <2>2 DEF ReadInv, CallsOK, ScreenOK, Still
<1>3. CASE Idle
  <2> DEFINE new == [kind |-> "refresh", query |-> query, cursor |-> None,
                     number |-> asks + 1, reply |-> None]
  <2>1. state' = [state EXCEPT !.loading = TRUE, !.error = FALSE] /\ calls' = calls \cup {new}
    BY <1>3 DEF refresh, Ask
  <2>2. /\ DOMAIN state' = Fields /\ state'.cards = state.cards
        /\ state'.nextCursor = state.nextCursor /\ state'.loadingMore = state.loadingMore
    BY <2>1 DEF ReadInv, ScreenOK, Fields
  <2>3. /\ new.kind = "refresh" /\ new.cursor = None /\ new.reply = None
        /\ DOMAIN new = {"kind", "query", "cursor", "number", "reply"}
    OBVIOUS
  <2> HIDE DEF new
  <2>4. Asked("more")' = Asked("more") BY <2>1, <2>3 DEF Asked
  <2>5. Sound' BY <2>2, <2>4, SoundStays DEF ReadInv
  <2>6. CallsOK' BY <1>1, <2>1, <2>3 DEF ReadInv, CallsOK, Still
  <2>7. ScreenOK' BY <1>1, <2>2 DEF ReadInv, ScreenOK, Still
  <2> QED BY <1>1, <2>5, <2>6, <2>7 DEF ReadInv
<1> QED BY <1>2, <1>3 DEF refresh

LEMMA LoadMoreReads == ASSUME ReadInv, LoadMore PROVE ReadInv'
<1> DEFINE new == [kind |-> "more", query |-> query, cursor |-> state.nextCursor,
                   number |-> asks + 1, reply |-> None]
<1>1. /\ state.nextCursor # None /\ ~state.loadingMore
      /\ state' = [state EXCEPT !.loadingMore = TRUE] /\ calls' = calls \cup {new}
      /\ Still /\ taken' = taken
      /\ reading' = [reading EXCEPT !.sound = @ /\ query = reading.query]
  BY DEF LoadMore, Ask, Still, table
<1>2. /\ DOMAIN state' = Fields /\ state'.cards = state.cards
      /\ state'.nextCursor = state.nextCursor /\ state'.loadingMore = TRUE
  BY <1>1 DEF ReadInv, ScreenOK, Fields
<1>3. /\ reading'.basis = reading.basis /\ reading'.query = reading.query
      /\ reading'.sound => (reading.sound /\ query = reading.query)
      /\ DOMAIN reading' = DOMAIN reading
  BY <1>1 DEF ReadInv, ScreenOK
<1>4. /\ new.kind = "more" /\ new.cursor = state.nextCursor /\ new.reply = None
      /\ new.query = query
      /\ DOMAIN new = {"kind", "query", "cursor", "number", "reply"}
  OBVIOUS
<1> HIDE DEF new
<1>5. Rowed' /\ Settled' = Settled BY <1>1, RowedStays
<1>6. CallsOK' BY <1>1, <1>4, <1>5 DEF ReadInv, CallsOK, ScreenOK, Still
<1>7. ScreenOK' BY <1>1, <1>2, <1>3, <1>5 DEF ReadInv, ScreenOK, Still
<1>8. Sound'
  <2> SUFFICES ASSUME reading'.sound PROVE Sound'
    BY DEF Sound
  <2>1. Sound /\ reading.sound /\ query = reading.query BY <1>3 DEF ReadInv
  <2>2. Asked("more") = {} BY <1>1, <2>1 DEF Sound, Awaited
  <2>3. Asked("more")' = {new} BY <1>1, <1>4, <2>2 DEF Asked
  <2>4. Awaited' BY <1>2, <1>3, <1>4, <2>1, <2>3 DEF Awaited, Continues
  <2> QED BY <1>1, <1>2, <1>3, <2>1, <2>4 DEF Sound, Still
<1> QED BY <1>5, <1>6, <1>7, <1>8 DEF ReadInv

(* A page is read.  The one awaited brings every post the list began with  *)
(* that stands after the cursor and is still there.                         *)
LEMMA PageReads ==
    ASSUME Rowed, CallsOK, NEW call \in calls, Read(call),
           NEW answered, answered = [call EXCEPT !.reply = feed(call.query, call.cursor)]
    PROVE  /\ DOMAIN answered = DOMAIN call /\ answered.kind = call.kind
           /\ answered.query = call.query /\ answered.cursor = call.cursor
           /\ answered.reply = feed(call.query, call.cursor)
           /\ PageOK(stamp, Settled, answered)
<1>1. /\ DOMAIN answered = DOMAIN call /\ answered.kind = call.kind
      /\ answered.query = call.query /\ answered.cursor = call.cursor
      /\ answered.reply = feed(call.query, call.cursor)
  BY DEF CallsOK
<1>2. call.cursor \in Position \cup {None} BY DEF CallsOK
<1> DEFINE batch == feed(call.query, call.cursor)
<1>3. /\ batch.basis = Rows(call.query, call.cursor)
      /\ batch.items \in Seq(DOMAIN stamp) /\ InFeedOrder(stamp, batch.items)
      /\ batch.next \in Position \cup {None}
      /\ \A p \in batch.basis : Reached(stamp, batch.next, p) => p \in Range(batch.items)
      /\ \A p \in Range(batch.items) : Reached(stamp, batch.next, p)
      /\ call.cursor # None =>
            /\ \A p \in Range(batch.items) : Before(call.cursor, At(stamp, p))
            /\ batch.next # None => Before(call.cursor, batch.next)
  BY <1>2, FeedIs
<1> HIDE DEF batch
<1>4. batch.basis \subseteq Settled /\ \A p \in batch.basis : Matches(p, call.query)
  BY <1>3 DEF Rows, Rowed
<1>5. answered.reply = batch BY <1>1 DEF batch
<1>6. PageOK(stamp, Settled, answered) BY <1>1, <1>3, <1>4, <1>5 DEF PageOK
<1> QED BY <1>1, <1>6

LEMMA ReadReads == ASSUME ReadInv, NEW call \in calls, Read(call) PROVE ReadInv'
<1> DEFINE answered == [call EXCEPT !.reply = feed(call.query, call.cursor)]
<1>1. /\ calls' = (calls \ {call}) \cup {answered} /\ Still
      /\ UNCHANGED <<state, taken, reading>>
  BY DEF Read, Still, table
<1>2. /\ DOMAIN answered = DOMAIN call /\ answered.kind = call.kind
      /\ answered.query = call.query /\ answered.cursor = call.cursor
      /\ answered.reply = feed(call.query, call.cursor)
      /\ PageOK(stamp, Settled, answered)
  BY PageReads DEF ReadInv
<1> HIDE DEF answered
<1>3. Rowed' /\ Settled' = Settled BY <1>1, RowedStays
<1>4. CallsOK' BY <1>1, <1>2, <1>3 DEF ReadInv, CallsOK, Still
<1>5. ScreenOK' BY <1>1, <1>3 DEF ReadInv, ScreenOK, Still
<1>6. Sound'
  <2>1. CASE call.kind # "more"
    <3>1. Asked("more")' = Asked("more") BY <1>1, <1>2, <2>1 DEF Asked
    <3> QED BY <1>1, <3>1, SoundStays DEF ReadInv
  <2>2. CASE call.kind = "more"
    <3> SUFFICES ASSUME reading.sound PROVE Sound'
      BY <1>1 DEF Sound
    <3>1. call \in Asked("more") BY <2>2 DEF Asked
    <3>2. Sound /\ Awaited BY DEF ReadInv, Sound
    <3>3. /\ state.loadingMore /\ call.cursor = state.nextCursor
          /\ call.query = reading.query /\ Asked("more") = {call}
      BY <3>1, <3>2 DEF Awaited
    <3>4. Asked("more")' = {answered} BY <1>1, <1>2, <2>2, <3>3 DEF Asked
    <3>5. answered.reply.basis = Rows(call.query, call.cursor)
      BY <1>2 , FeedIs DEF ReadInv, CallsOK
    <3>6. \A p \in reading.basis \cap posts :
             Before(call.cursor, At(stamp, p)) => p \in answered.reply.basis
      BY <3>2, <3>3, <3>5, PositionIsAt DEF Sound, Rows
    <3>7. Continues(stamp, answered, reading.basis, posts) BY <1>2, <3>6 DEF Continues
    <3>8. Awaited' BY <1>1, <1>2, <3>3, <3>4, <3>7 DEF Awaited, Still
    <3> QED BY <1>1, <3>2, <3>8 DEF Sound, Still
  <2> QED BY <2>1, <2>2
<1> QED BY <1>3, <1>4, <1>5, <1>6 DEF ReadInv

(* Requests that end leave the others as they were.                         *)
LEMMA CallsEnd ==
    ASSUME ReadInv, Still, taken' \subseteq taken, calls' \subseteq calls
    PROVE  Rowed' /\ Settled' = Settled /\ CallsOK'
<1>1. Rowed' /\ Settled' = Settled BY RowedStays
<1> QED BY <1>1 DEF ReadInv, CallsOK, Still

LEMMA RefreshedReads == ASSUME ReadInv, NEW call \in calls, Refreshed(call) PROVE ReadInv'
<1>1. /\ call.kind = "refresh" /\ call.reply # None /\ calls' = calls \ {call}
      /\ Still /\ taken' = taken
      /\ state' = [CommunityState EXCEPT !.cards = call.reply.items, !.loaded = TRUE,
                                         !.nextCursor = call.reply.next]
      /\ reading' = [basis |-> call.reply.basis, query |-> call.query,
                     sound |-> \A other \in calls : other.kind # "more"]
  BY DEF Refreshed, Still, table
<1>2. /\ DOMAIN state' = Fields /\ state'.cards = call.reply.items
      /\ state'.nextCursor = call.reply.next
  BY <1>1 DEF CommunityState, Fields
<1>3. /\ DOMAIN reading' = {"basis", "query", "sound"}
      /\ reading'.basis = call.reply.basis /\ reading'.query = call.query
      /\ reading'.sound => \A other \in calls : other.kind # "more"
  BY <1>1
<1>4. Rowed' /\ Settled' = Settled /\ CallsOK' BY <1>1, CallsEnd
<1>5. PageOK(stamp, Settled, call) BY <1>1 DEF ReadInv, CallsOK
<1>6. ScreenOK' BY <1>1, <1>2, <1>3, <1>4, <1>5 DEF ScreenOK, PageOK, Still
<1>7. Sound'
  <2> SUFFICES ASSUME reading'.sound PROVE Sound'
    BY DEF Sound
  <2>1. Asked("more")' = {} BY <1>1, <1>3 DEF Asked
  <2>2. Awaited' BY <2>1 DEF Awaited
  <2>3. ListOK(stamp, call.reply.items, call.reply.next, call.reply.basis, posts)
    BY <1>5 DEF PageOK, ListOK
  <2>4. \A p \in call.reply.basis : Matches(p, call.query) BY <1>5 DEF PageOK
  <2> QED BY <1>1, <1>2, <1>3, <2>2, <2>3, <2>4 DEF Sound, Still
<1> QED BY <1>4, <1>6, <1>7 DEF ReadInv

(* Some of a list's posts, in their order.                                  *)
LEMMA SomeOf ==
    ASSUME NEW st, NEW list \in Seq(DOMAIN st), NEW some
    PROVE  /\ Only(list, some) \in Seq(DOMAIN st)
           /\ Range(Only(list, some)) = Range(list) \cap some
           /\ InFeedOrder(st, list) => InFeedOrder(st, Only(list, some))
<1> DEFINE only == Only(list, some)
           R == {pair \in (DOMAIN st) \X (DOMAIN st) :
                    Before(At(st, pair[1]), At(st, pair[2]))}
<1>1. /\ only \in Seq(DOMAIN st)
      /\ \A k \in DOMAIN only : only[k] \in some /\ \E i \in DOMAIN list : list[i] = only[k]
      /\ \A i \in DOMAIN list : list[i] \in some => \E k \in DOMAIN only : only[k] = list[i]
  BY OnlyHolds
<1>2. (\A i, k \in DOMAIN list : i < k => <<list[i], list[k]>> \in R)
      => \A i, k \in DOMAIN only : i < k => <<only[i], only[k]>> \in R
  <2> HIDE DEF R
  <2> QED BY OnlyOrdered
<1> HIDE DEF only
<1>3. Range(only) = Range(list) \cap some BY <1>1 DEF Range
<1>4. /\ \A i \in DOMAIN list : list[i] \in DOMAIN st
      /\ \A i \in DOMAIN only : only[i] \in DOMAIN st
  BY <1>1, LenProperties, ElementOfSeq
<1>5. ASSUME InFeedOrder(st, list) PROVE InFeedOrder(st, only)
  <2>1. \A i, k \in DOMAIN list : i < k => <<list[i], list[k]>> \in R
    BY <1>4, <1>5 DEF InFeedOrder
  <2>2. \A i, k \in DOMAIN only : i < k => <<only[i], only[k]>> \in R
    BY <1>2, <2>1
  <2> QED BY <2>2 DEF InFeedOrder
<1> QED BY <1>1, <1>3, <1>5 DEF only

(* One list after another.                                                  *)
LEMMA OneAfterAnother ==
    ASSUME NEW st, NEW s \in Seq(DOMAIN st), NEW t \in Seq(DOMAIN st),
           InFeedOrder(st, s), InFeedOrder(st, t),
           \A p \in Range(s), q \in Range(t) : Before(At(st, p), At(st, q))
    PROVE  InFeedOrder(st, s \o t)
<1>1. /\ Len(s) \in Nat /\ Len(t) \in Nat /\ DOMAIN s = 1 .. Len(s) /\ DOMAIN t = 1 .. Len(t)
      /\ Len(s \o t) = Len(s) + Len(t)
      /\ \A i \in 1 .. Len(s) + Len(t) :
            (s \o t)[i] = IF i <= Len(s) THEN s[i] ELSE t[i - Len(s)]
      /\ DOMAIN (s \o t) = 1 .. Len(s) + Len(t)
  BY LenProperties, ConcatProperties
<1>2. \A i \in DOMAIN s : s[i] \in Range(s) BY DEF Range
<1>3. \A i \in DOMAIN t : t[i] \in Range(t) BY DEF Range
<1> DEFINE n == Len(s)
           m == Len(t)
           both == s \o t
<1> HIDE DEF n, m, both
<1>4. /\ n \in Nat /\ m \in Nat /\ DOMAIN s = 1 .. n /\ DOMAIN t = 1 .. m
      /\ DOMAIN both = 1 .. n + m
      /\ \A i \in 1 .. n + m : both[i] = IF i <= n THEN s[i] ELSE t[i - n]
  BY <1>1 DEF n, m, both
<1>5. ASSUME NEW i \in DOMAIN both, NEW k \in DOMAIN both, i < k
      PROVE  Before(At(st, both[i]), At(st, both[k]))
  <2>1. CASE k <= n
    <3>1. i \in DOMAIN s /\ k \in DOMAIN s /\ both[i] = s[i] /\ both[k] = s[k]
      BY <1>4, <1>5, <2>1
    <3> QED BY <1>5, <3>1 DEF InFeedOrder
  <2>2. CASE i > n
    <3>1. /\ i - n \in DOMAIN t /\ k - n \in DOMAIN t /\ i - n < k - n
          /\ both[i] = t[i - n] /\ both[k] = t[k - n]
      BY <1>4, <1>5, <2>2
    <3> QED BY <3>1 DEF InFeedOrder
  <2>3. CASE i <= n /\ k > n
    <3>1. /\ i \in DOMAIN s /\ k - n \in DOMAIN t /\ both[i] = s[i] /\ both[k] = t[k - n]
      BY <1>4, <2>3
    <3> QED BY <1>2, <1>3, <3>1
  <2>4. i \in Int /\ k \in Int /\ n \in Int BY <1>4
  <2> QED BY <2>1, <2>2, <2>3, <2>4
<1> QED BY <1>5 DEF InFeedOrder, both

(* The next page is put under the list: the cursor the page was asked with  *)
(* stands between the two, so only what no list can repeat is dropped.      *)
LEMMA MoreReads == ASSUME ReadInv, NEW call \in calls, More(call) PROVE ReadInv'
<1> DEFINE batch == call.reply
           fresh == Unseen(batch.items)
<1>1. /\ call.kind = "more" /\ call.reply # None /\ calls' = calls \ {call}
      /\ Still /\ UNCHANGED <<taken, reading>>
      /\ state' = [state EXCEPT !.cards = state.cards \o fresh, !.nextCursor = batch.next,
                                !.loadingMore = FALSE]
  BY DEF More, Appended, Still, table
<1>2. PageOK(stamp, Settled, call) BY <1>1 DEF ReadInv, CallsOK
<1>3. batch.items \in Seq(DOMAIN stamp) /\ batch.next \in Position \cup {None}
  BY <1>2 DEF PageOK
<1>4. state.cards \in Seq(DOMAIN stamp) /\ DOMAIN stamp \subseteq Posts
  BY DEF ReadInv, ScreenOK, Rowed, Stamps
<1>5. /\ fresh \in Seq(DOMAIN stamp)
      /\ Range(fresh) = Range(batch.items) \cap (Posts \ Range(state.cards))
      /\ InFeedOrder(stamp, batch.items) => InFeedOrder(stamp, fresh)
  <2> HIDE DEF batch
  <2> QED BY <1>3, SomeOf DEF Unseen
<1> HIDE DEF fresh, batch
<1>6. /\ DOMAIN state' = Fields /\ state'.cards = state.cards \o fresh
      /\ state'.nextCursor = batch.next /\ state'.loadingMore = FALSE
  BY <1>1 DEF ReadInv, ScreenOK, Fields
<1>7. /\ state.cards \o fresh \in Seq(DOMAIN stamp)
      /\ Range(state.cards \o fresh) = Range(state.cards) \cup Range(fresh)
  BY <1>4, <1>5, RangeOfBoth
<1>8. Range(batch.items) \subseteq DOMAIN stamp /\ Range(state.cards) \subseteq DOMAIN stamp
  BY <1>3, <1>4, RangeInside
<1>9. Range(state.cards \o fresh) = Range(state.cards) \cup Range(batch.items)
  BY <1>4, <1>5, <1>7, <1>8
<1>10. Rowed' /\ Settled' = Settled /\ CallsOK' BY <1>1, CallsEnd
<1>11. ScreenOK' BY <1>1, <1>3, <1>6, <1>7, <1>10 DEF ReadInv, ScreenOK, Still
<1>12. Sound'
  <2> SUFFICES ASSUME reading.sound PROVE Sound'
    BY <1>1 DEF Sound
  <2> DEFINE cursor == call.cursor
  <2>1. /\ ListOK(stamp, state.cards, state.nextCursor, reading.basis, posts) /\ Awaited
        /\ \A p \in reading.basis : Matches(p, reading.query)
    BY DEF ReadInv, Sound
  <2>2. call \in Asked("more") BY <1>1 DEF Asked
  <2>3. /\ cursor = state.nextCursor /\ Asked("more") = {call}
        /\ Continues(stamp, call, reading.basis, posts)
    BY <2>1, <2>2 DEF Awaited
  <2>4. cursor \in Position /\ cursor # None
    BY <1>1, NoneAssumption DEF ReadInv, CallsOK, Position
  <2>5. \A p \in DOMAIN stamp : At(stamp, p) \in Position
    BY AtIsPosition DEF ReadInv, Rowed
  <2>6. /\ InFeedOrder(stamp, batch.items)
        /\ \A p \in batch.basis : Reached(stamp, batch.next, p) => p \in Range(batch.items)
        /\ \A p \in Range(batch.items) : Reached(stamp, batch.next, p)
        /\ \A p \in Range(batch.items) : Before(cursor, At(stamp, p))
        /\ batch.next # None => Before(cursor, batch.next)
    BY <1>2, <2>4 DEF PageOK, batch
  <2>7. \A p \in reading.basis \cap posts : Before(cursor, At(stamp, p)) => p \in batch.basis
    BY <1>1, <2>3 DEF Continues, batch
  <2>8. /\ InFeedOrder(stamp, state.cards)
        /\ \A p \in Range(state.cards) : ~Before(cursor, At(stamp, p))
        /\ \A p \in reading.basis \cap posts :
              ~Before(cursor, At(stamp, p)) => p \in Range(state.cards)
    BY <2>1, <2>3, <2>4 DEF ListOK, Reached
  <2> HIDE DEF cursor
  <2>9. ASSUME NEW p \in Range(state.cards), NEW q \in Range(batch.items)
        PROVE  Before(At(stamp, p), At(stamp, q))
    <3>1. At(stamp, p) \in Position /\ At(stamp, q) \in Position BY <1>8, <2>5
    <3>2. Before(cursor, At(stamp, q)) /\ ~Before(cursor, At(stamp, p)) BY <2>6, <2>8
    <3>3. At(stamp, p) = cursor \/ Before(At(stamp, p), cursor)
      BY <2>4, <3>1, <3>2, BeforeIsOrder
    <3> QED BY <2>4, <3>1, <3>2, <3>3, BeforeIsOrder
  <2>10. InFeedOrder(stamp, state.cards \o fresh)
    <3>1. Range(fresh) \subseteq Range(batch.items) BY <1>5
    <3> QED BY <1>4, <1>5, <2>6, <2>8, <2>9, <3>1, OneAfterAnother
  <2>11. ASSUME NEW p \in Range(state.cards) PROVE Reached(stamp, batch.next, p)
    <3> SUFFICES ASSUME batch.next # None, Before(batch.next, At(stamp, p)) PROVE FALSE
      BY DEF Reached
    <3>1. At(stamp, p) \in Position /\ batch.next \in Position BY <1>3, <1>8, <2>5
    <3>2. Before(cursor, At(stamp, p)) BY <2>4, <2>6, <3>1, BeforeIsOrder
    <3> QED BY <2>8, <3>2
  <2>12. ASSUME NEW p \in reading.basis \cap posts, Reached(stamp, batch.next, p)
         PROVE  p \in Range(state.cards) \cup Range(batch.items)
    BY <2>6, <2>7, <2>8, <2>12
  <2>13. ListOK(stamp, state.cards \o fresh, batch.next, reading.basis, posts)
    BY <1>9, <2>6, <2>10, <2>11, <2>12 DEF ListOK
  <2>14. Asked("more")' = {} BY <1>1, <2>3 DEF Asked
  <2>15. Awaited' BY <2>14 DEF Awaited
  <2> QED BY <1>1, <1>6, <2>1, <2>13, <2>15 DEF Sound, Still
<1> QED BY <1>10, <1>11, <1>12 DEF ReadInv

LEMMA FailReads == ASSUME ReadInv, NEW call \in calls, Fail(call) PROVE ReadInv'
<1>1. /\ state' = Failed(call.kind) /\ calls' = calls \ {call} /\ Still
      /\ UNCHANGED <<taken, reading>>
  BY DEF Fail, Still, table
<1>2. call.kind \in {"refresh", "more"} BY DEF ReadInv, CallsOK
<1>3. /\ DOMAIN state' = Fields /\ state'.cards = state.cards
      /\ state'.nextCursor = state.nextCursor
      /\ call.kind = "refresh" => state'.loadingMore = state.loadingMore
  BY <1>1, <1>2 DEF Failed, ReadInv, ScreenOK, Fields
<1>4. Rowed' /\ Settled' = Settled /\ CallsOK' BY <1>1, CallsEnd
<1>5. ScreenOK' BY <1>1, <1>3, <1>4 DEF ReadInv, ScreenOK, Still
<1>6. Sound'
  <2>1. CASE call.kind = "refresh"
    <3>1. Asked("more")' = Asked("more") BY <1>1, <2>1 DEF Asked
    <3> QED BY <1>1, <1>3, <2>1, <3>1, SoundStays DEF ReadInv
  <2>2. CASE call.kind = "more"
    <3> SUFFICES ASSUME reading.sound PROVE Sound'
      BY <1>1 DEF Sound
    <3>1. call \in Asked("more") /\ Sound BY <2>2 DEF Asked, ReadInv
    <3>2. Asked("more") = {call} BY <3>1 DEF Sound, Awaited
    <3>3. Asked("more")' = {} BY <1>1, <3>2 DEF Asked
    <3>4. Awaited' BY <3>3 DEF Awaited
    <3> QED BY <1>1, <1>3, <3>1, <3>4 DEF Sound, Still
  <2> QED BY <1>2, <2>1, <2>2
<1> QED BY <1>4, <1>5, <1>6 DEF ReadInv

(* A post of the reader's that is down is no row any more.                  *)
LEMMA TakenDownReads == ASSUME ReadInv, NEW p \in Posts, TakenDown(p) PROVE ReadInv'
<1> DEFINE left == Only(state.cards, Posts \ {p})
<1>1. /\ p \in taken /\ taken' \subseteq taken /\ Still /\ UNCHANGED <<calls, reading>>
      /\ state' = [state EXCEPT !.cards = left]
  BY DEF TakenDown, Still, table
<1>2. state.cards \in Seq(DOMAIN stamp) /\ DOMAIN stamp \subseteq Posts /\ p \notin posts
  BY <1>1 DEF ReadInv, ScreenOK, Rowed, Stamps
<1>3. /\ left \in Seq(DOMAIN stamp)
      /\ Range(left) = Range(state.cards) \cap (Posts \ {p})
      /\ InFeedOrder(stamp, state.cards) => InFeedOrder(stamp, left)
  BY <1>2, SomeOf
<1> HIDE DEF left
<1>4. /\ DOMAIN state' = Fields /\ state'.cards = left
      /\ state'.nextCursor = state.nextCursor /\ state'.loadingMore = state.loadingMore
  BY <1>1 DEF ReadInv, ScreenOK, Fields
<1>5. Rowed' /\ Settled' = Settled /\ CallsOK' BY <1>1, CallsEnd
<1>6. ScreenOK' BY <1>1, <1>3, <1>4, <1>5 DEF ReadInv, ScreenOK, Still
<1>7. Sound'
  <2> SUFFICES ASSUME reading.sound PROVE Sound'
    BY <1>1 DEF Sound
  <2>1. Sound BY DEF ReadInv
  <2>2. Range(state.cards) \subseteq Posts BY <1>2, RangeInside
  <2>3. ListOK(stamp, left, state.nextCursor, reading.basis, posts)
    BY <1>2, <1>3, <2>1, <2>2 DEF Sound, ListOK
  <2>4. Asked("more")' = Asked("more") BY <1>1 DEF Asked
  <2>5. Awaited' BY <1>1, <1>4, <2>1, <2>4 DEF Sound, Awaited, Still
  <2> QED BY <1>1, <1>4, <2>1, <2>3, <2>5 DEF Sound, Still
<1> QED BY <1>5, <1>6, <1>7 DEF ReadInv

LEMMA NothingReads ==
    ASSUME ReadInv, Still, UNCHANGED <<state, calls, taken, reading>>
    PROVE  ReadInv'
<1>1. Rowed' /\ Settled' = Settled /\ CallsOK' BY CallsEnd
<1>2. Asked("more")' = Asked("more") BY DEF Asked
<1>3. Sound' BY <1>2, SoundStays DEF ReadInv
<1> QED BY <1>1, <1>3 DEF ReadInv, ScreenOK, Still

LEMMA ReadingStep == ReadInv /\ [Next]_vars => ReadInv'
<1> SUFFICES ASSUME ReadInv, [Next]_vars PROVE ReadInv'
  OBVIOUS
<1>1. CASE \E p \in Posts : Stamp(p) \/ Insert(p) \/ Withdraw(p) \/ TakenDown(p)
  BY <1>1, StampMoves, InsertMoves, WithdrawMoves, TakenDownReads
<1>2. CASE refresh /\ Still /\ UNCHANGED <<taken, reading>> BY <1>2, RefreshReads
<1>3. CASE LoadMore BY <1>3, LoadMoreReads
<1>4. CASE \E call \in calls : Read(call) \/ Refreshed(call) \/ More(call) \/ Fail(call)
  BY <1>4, ReadReads, RefreshedReads, MoreReads, FailReads
<1>5. CASE Still /\ UNCHANGED <<state, calls, taken, reading>> BY <1>5, NothingReads
<1>6. \/ \E p \in Posts : Stamp(p) \/ Insert(p) \/ Withdraw(p) \/ TakenDown(p)
      \/ refresh /\ Still /\ UNCHANGED <<taken, reading>>
      \/ LoadMore
      \/ \E call \in calls : Read(call) \/ Refreshed(call) \/ More(call) \/ Fail(call)
      \/ Still /\ UNCHANGED <<state, calls, taken, reading>>
  BY DEF Next, EnterTab, Debounced, Search, Still, vars, table
<1> QED BY <1>1, <1>2, <1>3, <1>4, <1>5, <1>6

LEMMA ReadingInit == Init => ReadInv
<1> SUFFICES ASSUME Init PROVE ReadInv
  OBVIOUS
<1>1. Rowed BY PostsAssumption DEF Init, Rowed, Stamps, Settled
<1>2. /\ state.cards = <<>> /\ state.nextCursor = None /\ state.loadingMore = FALSE
      /\ DOMAIN state = Fields /\ calls = {} /\ reading.basis = {}
      /\ DOMAIN reading = {"basis", "query", "sound"}
  BY DEF Init, CommunityState, Fields
<1>3. CallsOK BY <1>2 DEF CallsOK
<1>4. ScreenOK BY <1>2 DEF ScreenOK
<1>5. Sound
  <2>1. DOMAIN state.cards = {} /\ Range(state.cards) = {} BY <1>2 DEF Range
  <2>2. Asked("more") = {} BY <1>2 DEF Asked
  <2> QED BY <1>2, <2>1, <2>2 DEF Sound, ListOK, InFeedOrder, Awaited
<1> QED BY <1>1, <1>3, <1>4, <1>5 DEF ReadInv

(* Whatever is published, trimmed and withdrawn meanwhile, for any number   *)
(* of posts, any page size and any searches: the list on screen is in the   *)
(* feed's order without a repetition, and a reader at its end has every     *)
(* post it began with that is still there.                                  *)
THEOREM ReadingSafe == Spec => []ReadingComplete
<1>1. ReadInv => ReadingComplete
  <2> SUFFICES ASSUME ReadInv, reading.sound
               PROVE  /\ InFeedOrder(stamp, state.cards)
                      /\ state.nextCursor = None =>
                            reading.basis \cap posts \subseteq Range(state.cards)
    BY PositionIsAt DEF ReadingComplete, InFeedOrder
  <2> QED BY DEF ReadInv, Sound, ListOK, Reached
<1> QED BY <1>1, ReadingInit, ReadingStep, PTL DEF Spec
-----------------------------------------------------------------------------
(* Library.                                                                 *)

(* What a heart, a page under way and an answer under way say of a post     *)
(* still shared is true, unless a tap on it ran since it was.               *)
Tells(p, says, when) == p \in shared /\ ran[p] <= when => (says <=> p \in saves)

HeartsInv ==
    /\ \A p \in Shared : ran[p] <= ticks /\ shown[p] <= ticks
    /\ HeartTrue
    /\ page # Nothing =>
          page.at <= ticks /\ \A p \in page.of : Tells(p, p \in page.hearts, page.at)
    /\ \A tap \in taps : tap.stage = "answered" =>
          tap.at <= ticks /\ Tells(tap.post, tap.wanted, tap.at)

(* Each copy is in one place, under an id of its own that was given out.    *)
Offered == {undo} \ {Nothing}
Copies == rows \cup deleting \cup Offered \cup restoring
CopiesInv ==
    /\ \A a \in Copies : a.id < nextRow
    /\ \A a, b \in Copies : a.id = b.id => a = b
    /\ rows \cap (deleting \cup Offered \cup restoring) = {}
    /\ deleting \cap (Offered \cup restoring) = {}
    /\ Offered \cap restoring = {}

(* A post that was handled without haste has one tap at a time whose        *)
(* outcome is awaited, no copy while that tap is about to make one, and     *)
(* never comes back from a deletion.                                        *)
Heeded == {tap \in taps : tap.heard}
HasteInv ==
    /\ \A tap \in taps : tap.stage \notin {"sent", "found"} => tap.heard
    /\ \A s, t \in Heeded : s.post = t.post /\ s.post \notin doubled => s = t
    /\ \A tap \in taps : tap.stage = "insert" /\ tap.post \notin doubled =>
          \A row \in rows : row.post # tap.post
    /\ \A row \in restoring : row.post \in doubled
    /\ OneCopy

LibInv == TypeOK /\ HeartsInv /\ CopiesInv /\ HasteInv

LEMMA LibInit == LibraryInit => LibInv
<1> SUFFICES ASSUME LibraryInit PROVE LibInv OBVIOUS
<1>1. TypeOK
  BY TapsAssumption DEF LibraryInit, TypeOK
<1>2. HeartsInv
  BY DEF LibraryInit, HeartsInv, HeartTrue
<1>3. CopiesInv
  BY DEF LibraryInit, CopiesInv, Copies, Offered
<1>4. HasteInv
  BY DEF LibraryInit, HasteInv, Heeded, OneCopy
<1> QED BY <1>1, <1>2, <1>3, <1>4 DEF LibInv

Stages == {"sent", "found", "answered", "copy", "find", "insert"}

(* What becomes of a tap is a tap of the same post.                         *)
LEMMA TapMoves ==
    ASSUME NEW tap \in Tap
    PROVE  /\ \A s \in Stages : [tap EXCEPT !.stage = s] \in Tap
           /\ \A t \in Nat : [tap EXCEPT !.stage = "answered", !.at = t] \in Tap
           /\ [tap EXCEPT !.heard = FALSE] \in Tap
  BY DEF Tap, Stages

LEMMA LibTypes ==
    ASSUME TypeOK, [LibraryNext]_libraryVars
    PROVE  TypeOK'
<1> USE DEF server, screen, library, shelf, Counted
<1>1. ASSUME NEW p \in Shared, Gone(p) PROVE TypeOK'
  BY <1>1 DEF TypeOK, Gone
<1>2. ASSUME NEW p \in Shared, Open(p) PROVE TypeOK'
  BY <1>2 DEF TypeOK, Open
<1>3. ASSUME NEW p \in Shared, toggleSave(p) PROVE TypeOK'
  <2>1. counts' \in [taps : Nat, loads : Nat, undone : Nat, starts : Nat]
    BY <1>3 DEF TypeOK, toggleSave
  <2>2. (~cards[p]) \in BOOLEAN OBVIOUS
  <2> DEFINE new == [number |-> counts'.taps, post |-> p, wanted |-> ~cards[p],
                     heard |-> TRUE, at |-> 0, stage |-> "sent"]
  <2>a. counts'.taps \in Nat BY <2>1
  <2>b. new \in Tap BY <2>2, <2>a DEF Tap
  <2>c. taps' = taps \cup {new} BY <1>3 DEF toggleSave
  <2> HIDE DEF new
  <2>3. taps' \subseteq Tap BY <2>b, <2>c DEF TypeOK
  <2> QED BY <1>3, <2>1, <2>3 DEF TypeOK, toggleSave
<1>4. CASE Refresh BY <1>4 DEF TypeOK, Refresh
<1>5. CASE ReadFeed BY <1>5 DEF TypeOK, ReadFeed
<1>6. CASE FeedShown
  <2>1. page \in [hearts : SUBSET Shared, of : SUBSET Shared, at : Nat]
    BY <1>6 DEF TypeOK, FeedShown
  <2>2. page.of \subseteq Shared /\ page.at \in Nat BY <2>1
  <2>a. cards' = [p \in page.of |-> p \in page.hearts] BY <1>6 DEF FeedShown
  <2>b. \A p \in page.of : (p \in page.hearts) \in BOOLEAN OBVIOUS
  <2>3. DOMAIN cards' \subseteq Shared /\ \A p \in DOMAIN cards' : cards'[p] \in BOOLEAN
    BY <2>2, <2>a, <2>b, Zenon
  <2>4. shown' \in [Shared -> Nat] BY <1>6, <2>2 DEF TypeOK, FeedShown
  <2> QED BY <1>6, <2>3, <2>4 DEF TypeOK, FeedShown
<1>7. CASE RefreshFails BY <1>7 DEF TypeOK, RefreshFails
<1>8. ASSUME NEW tap \in taps, FindPost(tap) \/ set_saved(tap) \/ Lost(tap) \/ Answered(tap)
                                \/ copyToLibrary(tap) \/ save(tap) \/ insert(tap)
      PROVE TypeOK'
  <2> USE <1>8 DEF Over, Becomes
  <2>0. tap \in Tap /\ tap.post \in Shared /\ ticks + 1 \in Nat BY DEF TypeOK, Tap
  <2>1. CASE FindPost(tap)
    <3>1. [tap EXCEPT !.stage = "found"] \in Tap BY <2>0, TapMoves DEF Stages
    <3> QED BY <2>0, <2>1, <3>1 DEF TypeOK, FindPost
  <2>2. CASE set_saved(tap)
    <3>a. [tap EXCEPT !.stage = "answered", !.at = ticks'] \in Tap
      BY <2>0, <2>2, TapMoves DEF set_saved
    <3>1. taps' \subseteq Tap BY <2>2, <3>a DEF TypeOK, set_saved
    <3> QED BY <2>0, <2>2, <3>1 DEF TypeOK, set_saved, Written
  <2>3. CASE Lost(tap) BY <2>0, <2>3 DEF TypeOK, Lost, Tap
  <2>4. CASE Answered(tap)
    <3>1. taps' \subseteq Tap BY <2>0, <2>4 DEF TypeOK, Answered, Tap
    <3>2. tap.at \in Nat /\ tap.wanted \in BOOLEAN BY <2>0 DEF Tap
    <3>3. shown' \in [Shared -> Nat] BY <3>2, <2>0, <2>4 DEF TypeOK, Answered
    <3> QED BY <2>0, <2>4, <3>1, <3>2, <3>3 DEF TypeOK, Answered, Heart
  <2>5. CASE copyToLibrary(tap) BY <2>0, <2>5 DEF TypeOK, copyToLibrary, Tap
  <2>6. CASE save(tap) BY <2>0, <2>6 DEF TypeOK, save, Tap
  <2>7. CASE insert(tap) BY <2>0, <2>7 DEF TypeOK, insert, Row, NewId
  <2> QED BY <2>1, <2>2, <2>3, <2>4, <2>5, <2>6, <2>7
<1>9. ASSUME NEW row \in rows, delete(row) PROVE TypeOK' BY <1>9 DEF TypeOK, delete
<1>10. ASSUME NEW row \in deleting, Offer(row) PROVE TypeOK' BY <1>10 DEF TypeOK, Offer
<1>11. ASSUME NEW row \in restoring, restore(row) PROVE TypeOK' BY <1>11 DEF TypeOK, restore
<1>12. CASE clearUndo BY <1>12 DEF TypeOK, clearUndo
<1>13. CASE undoDelete
  <2>1. undo \in Row /\ undo.post \in Shared BY <1>13 DEF TypeOK, undoDelete, Row
  <2>2. counts' \in [taps : Nat, loads : Nat, undone : Nat, starts : Nat]
    BY <1>13 DEF TypeOK, undoDelete
  <2> QED BY <1>13, <2>1, <2>2 DEF TypeOK, undoDelete
<1>14. CASE Restart
  <2>1. taps' \subseteq Tap BY <1>14, TapMoves DEF TypeOK, Restart
  <2>a. counts' = [counts EXCEPT !["starts"] = @ + 1] BY <1>14 DEF Restart
  <2>2. counts' \in [taps : Nat, loads : Nat, undone : Nat, starts : Nat]
    BY <2>a DEF TypeOK
  <2> QED BY <1>14, <2>1, <2>2 DEF TypeOK, Restart
<1>15. CASE UNCHANGED libraryVars BY <1>15 DEF TypeOK, libraryVars
<1> QED
  BY <1>1, <1>2, <1>3, <1>4, <1>5, <1>6, <1>7, <1>8, <1>9, <1>10, <1>11, <1>12, <1>13,
     <1>14, <1>15 DEF LibraryNext

LEMMA LibHearts ==
    ASSUME TypeOK, HeartsInv, [LibraryNext]_libraryVars
    PROVE  HeartsInv'
<1> USE DEF server, screen, library, shelf, Tells
<1>a. /\ ticks \in Nat /\ ran \in [Shared -> Nat] /\ shown \in [Shared -> Nat]
      /\ shared \subseteq Shared /\ DOMAIN cards \subseteq Shared
      /\ page # Nothing => page.at \in Nat /\ page.of \subseteq Shared
      /\ \A tap \in taps : tap.at \in Nat /\ tap.post \in Shared
  BY DEF TypeOK, Tap
<1>1. ASSUME UNCHANGED <<server, cards, page, taps, ticks, ran, shown>> PROVE HeartsInv'
  BY <1>1 DEF HeartsInv, HeartTrue
<1>2. ASSUME NEW p \in Shared, Gone(p) PROVE HeartsInv'
  BY <1>a, <1>2 DEF HeartsInv, HeartTrue, Gone
<1>3. ASSUME UNCHANGED <<server, cards, page, ticks, ran, shown>>,
             \A tap \in taps' : tap.stage = "answered" =>
                \E old \in taps : /\ old.stage = "answered" /\ old.post = tap.post
                                  /\ old.wanted = tap.wanted /\ old.at = tap.at
      PROVE  HeartsInv'
  BY <1>3 DEF HeartsInv, HeartTrue
<1>4. ASSUME NEW p \in Shared, toggleSave(p) PROVE HeartsInv'
  BY <1>3, <1>4 DEF toggleSave
<1>5. CASE Refresh BY <1>5 DEF HeartsInv, HeartTrue, Refresh
<1>6. CASE ReadFeed BY <1>a, <1>6 DEF HeartsInv, HeartTrue, ReadFeed
<1>7. CASE FeedShown
  <2>1. \A p \in Shared : shown'[p] = IF p \in page.of THEN page.at ELSE shown[p]
    BY <1>7 DEF FeedShown
  <2>2. DOMAIN cards' = page.of /\ \A p \in page.of : cards'[p] = (p \in page.hearts)
    BY <1>7 DEF FeedShown
  <2> QED BY <1>a, <1>7, <2>1, <2>2 DEF HeartsInv, HeartTrue, FeedShown
<1>8. CASE RefreshFails BY <1>8 DEF HeartsInv, HeartTrue, RefreshFails
<1>9. ASSUME NEW tap \in taps PROVE /\ FindPost(tap) => HeartsInv'
                                    /\ Lost(tap) => HeartsInv'
                                    /\ copyToLibrary(tap) => HeartsInv'
                                    /\ save(tap) => HeartsInv'
                                    /\ insert(tap) => HeartsInv'
  <2> USE <1>3 DEF Over, Becomes
  <2>0. tap \in Tap BY DEF TypeOK
  <2>1. FindPost(tap) => HeartsInv' BY <2>0 DEF FindPost, Tap
  <2>2. Lost(tap) => HeartsInv' BY <2>0 DEF Lost, Tap
  <2>3. copyToLibrary(tap) => HeartsInv' BY <2>0 DEF copyToLibrary, Tap
  <2>4. save(tap) => HeartsInv' BY <2>0 DEF save, Tap
  <2>5. insert(tap) => HeartsInv' BY <2>0 DEF insert, Tap
  <2> QED BY <2>1, <2>2, <2>3, <2>4, <2>5
<1>10. ASSUME NEW tap \in taps, set_saved(tap) PROVE HeartsInv'
  <2> USE <1>10 DEF set_saved
  <2>0. tap \in Tap /\ tap.post \in Shared BY DEF TypeOK, Tap
  <2>1. /\ ticks' = ticks + 1
        /\ ran' \in [Shared -> Nat]
        /\ ran'[tap.post] = ticks'
        /\ \A p \in Shared : p # tap.post => ran'[p] = ran[p]
    BY <1>a, <2>0
  <2>2. \A p \in Shared : p # tap.post => (p \in saves' <=> p \in saves) BY DEF Written
  <2>3. tap.post \in saves' <=> tap.wanted BY <2>0 DEF Written, Tap
  <2>4. \A t \in taps' : t.stage = "answered" =>
          \/ t \in taps
          \/ t.post = tap.post /\ t.wanted = tap.wanted /\ t.at = ticks'
    <3>1. /\ [tap EXCEPT !.stage = "answered", !.at = ticks'].post = tap.post
          /\ [tap EXCEPT !.stage = "answered", !.at = ticks'].wanted = tap.wanted
          /\ [tap EXCEPT !.stage = "answered", !.at = ticks'].at = ticks'
      BY <2>0 DEF Tap
    <3>2. \/ taps' = taps \ {tap}
          \/ taps' = (taps \ {tap}) \cup {[tap EXCEPT !.stage = "answered", !.at = ticks']}
      BY DEF Over, Becomes
    <3> QED BY <3>1, <3>2
  <2>5. \A p \in Shared, when \in Nat : when <= ticks /\ ran'[p] <= when =>
            p # tap.post /\ ran[p] <= when
    BY <1>a, <2>1
  <2>6. HeartTrue'
    <3> SUFFICES ASSUME NEW p \in DOMAIN cards \cap shared, ran'[p] <= shown[p]
                 PROVE  cards[p] <=> p \in saves'
      BY DEF HeartTrue
    <3>1. p # tap.post /\ ran[p] <= shown[p] BY <1>a, <2>5 DEF HeartsInv
    <3> QED BY <1>a, <3>1, <2>2 DEF HeartsInv, HeartTrue
  <2>7. \A p \in Shared : ran'[p] <= ticks' /\ shown'[p] <= ticks'
    BY <1>a, <2>1 DEF HeartsInv
  <2>8. ASSUME page # Nothing
        PROVE page.at <= ticks' /\ \A p \in page.of : Tells(p, p \in page.hearts, page.at)'
    BY <2>8, <1>a, <2>1, <2>2, <2>5 DEF HeartsInv
  <2>9. ASSUME NEW t \in taps', t.stage = "answered"
        PROVE  t.at <= ticks' /\ Tells(t.post, t.wanted, t.at)'
    BY <2>9, <1>a, <2>0, <2>1, <2>2, <2>3, <2>4, <2>5 DEF HeartsInv
  <2> QED BY <2>6, <2>7, <2>8, <2>9 DEF HeartsInv
<1>11. ASSUME NEW tap \in taps, Answered(tap) PROVE HeartsInv'
  <2> USE <1>11 DEF Answered
  <2>0. tap \in Tap BY DEF TypeOK
  <2>1. DOMAIN cards' = DOMAIN cards
    BY DEF Answered
  <2>2. \A p \in DOMAIN cards : /\ p # tap.post => cards'[p] = cards[p] /\ shown'[p] = shown[p]
                               /\ p = tap.post => cards'[p] = tap.wanted /\ shown'[p] = tap.at
    BY <1>a DEF Heart
  <2>3. \A p \in Shared : shown'[p] \in {shown[p], tap.at} BY <1>a
  <2>4. \A t \in taps' : t.stage = "answered" => t \in taps
    BY <2>0 DEF Over, Becomes, Tap
  <2> QED BY <1>a, <2>1, <2>2, <2>3, <2>4 DEF HeartsInv, HeartTrue
<1>12. CASE Restart
  <2>1. \A t \in taps' : t.stage # "answered" BY <1>12 DEF Restart, TypeOK, Tap
  <2> QED BY <1>12, <2>1 DEF Restart, HeartsInv, HeartTrue
<1>13. ASSUME NEW p \in Shared, Open(p) PROVE HeartsInv' BY <1>1, <1>13 DEF Open
<1>14. ASSUME NEW row, delete(row) \/ Offer(row) \/ restore(row) PROVE HeartsInv'
  BY <1>1, <1>14 DEF delete, Offer, restore
<1>15. CASE clearUndo \/ undoDelete \/ UNCHANGED libraryVars
  BY <1>1, <1>15 DEF clearUndo, undoDelete, libraryVars
<1> QED
  BY <1>2, <1>4, <1>5, <1>6, <1>7, <1>8, <1>9, <1>10, <1>11, <1>12, <1>13, <1>14, <1>15
  DEF LibraryNext

LEMMA LibCopies ==
    ASSUME TypeOK, CopiesInv, [LibraryNext]_libraryVars
    PROVE  CopiesInv'
<1> USE DEF server, screen, library, shelf
<1>a. /\ nextRow \in Nat /\ rows \subseteq Row /\ deleting \subseteq Row /\ restoring \subseteq Row
      /\ Offered \subseteq Row
  BY DEF TypeOK, Offered
<1>b. \A row \in Row : row # Nothing /\ row.id \in Nat BY NothingAssumption DEF Row
<1>1. ASSUME UNCHANGED <<library, shelf>> PROVE CopiesInv'
  BY <1>1 DEF CopiesInv, Copies, Offered
<1>2. ASSUME NEW tap \in taps, insert(tap) PROVE CopiesInv'
  <2> DEFINE new == [id |-> nextRow, post |-> tap.post]
  <2>1. new \in Row BY <1>a DEF TypeOK, Tap, Row
  <2>2. rows' = rows \cup {new} /\ nextRow' = nextRow + 1 /\ UNCHANGED shelf
    BY <1>2 DEF insert, NewId
  <2>3. new.id = nextRow OBVIOUS
  <2> HIDE DEF new
  <2>4. \A row \in Copies : row.id \in Nat BY <1>a, <1>b DEF Copies
  <2>5. new \notin Copies BY <1>a, <2>3, <2>4 DEF CopiesInv
  <2> QED BY <1>a, <2>2, <2>3, <2>4, <2>5 DEF CopiesInv, Copies, Offered
<1>3. ASSUME NEW row \in rows, delete(row) PROVE CopiesInv'
  BY <1>a, <1>3 DEF delete, CopiesInv, Copies, Offered
<1>4. ASSUME NEW row \in deleting, Offer(row) PROVE CopiesInv'
  BY <1>a, <1>b, <1>4 DEF Offer, CopiesInv, Copies, Offered
<1>5. ASSUME NEW row \in restoring, restore(row) PROVE CopiesInv'
  BY <1>a, <1>5 DEF restore, CopiesInv, Copies, Offered
<1>6. CASE clearUndo BY <1>a, <1>6 DEF clearUndo, CopiesInv, Copies, Offered
<1>7. CASE undoDelete BY <1>a, <1>b, <1>7 DEF undoDelete, CopiesInv, Copies, Offered
<1>8. CASE Restart BY <1>a, <1>8 DEF Restart, CopiesInv, Copies, Offered
<1>9. ASSUME NEW p \in Shared, Gone(p) \/ Open(p) \/ toggleSave(p) PROVE CopiesInv'
  BY <1>1, <1>9 DEF Gone, Open, toggleSave
<1>10. CASE Refresh \/ ReadFeed \/ FeedShown \/ RefreshFails \/ UNCHANGED libraryVars
  BY <1>1, <1>10 DEF Refresh, ReadFeed, FeedShown, RefreshFails, libraryVars
<1>11. ASSUME NEW tap \in taps, FindPost(tap) \/ set_saved(tap) \/ Lost(tap) \/ Answered(tap)
                                 \/ copyToLibrary(tap) \/ save(tap)
       PROVE  CopiesInv'
  BY <1>1, <1>11 DEF FindPost, set_saved, Lost, Answered, copyToLibrary, save
<1> QED
  BY <1>2, <1>3, <1>4, <1>5, <1>6, <1>7, <1>8, <1>9, <1>10, <1>11 DEF LibraryNext

LEMMA LibHaste ==
    ASSUME TypeOK, HasteInv, [LibraryNext]_libraryVars
    PROVE  HasteInv'
<1> USE DEF server, screen, library, shelf
<1>1. ASSUME UNCHANGED <<taps, rows, restoring, doubled>> PROVE HasteInv'
  BY <1>1 DEF HasteInv, Heeded, OneCopy
(* A tap that goes on, is no longer awaited, or is over.                    *)
<1>2. ASSUME NEW tap \in taps, NEW next \in Tap, UNCHANGED <<rows, restoring, doubled>>,
             \/ taps' = taps \ {tap}
             \/ /\ taps' = (taps \ {tap}) \cup {next}
                /\ next.post = tap.post
                /\ next.heard => tap.heard
                /\ next.stage \notin {"sent", "found"} => next.heard
                /\ next.stage = "insert" =>
                      \A row \in rows : row.post # tap.post
      PROVE  HasteInv'
  <2> USE <1>2
  <2>1. \A t \in taps' : t.stage \notin {"sent", "found"} => t.heard BY DEF HasteInv
  <2>2. \A s, t \in Heeded' : s.post = t.post /\ s.post \notin doubled => s = t
    <3>1. \A u \in Heeded' : u = next \/ (u \in Heeded /\ u # tap) BY DEF Heeded
    <3>2. next \in Heeded' /\ next \notin Heeded => next.post = tap.post /\ tap \in Heeded
      BY DEF Heeded
    <3>3. next \in Heeded' => next \in Heeded \/ (tap \in Heeded /\ next.post = tap.post)
      BY <3>2
    <3>4. \A a, b \in Heeded : a.post = b.post /\ a.post \notin doubled => a = b
      BY DEF HasteInv
    <3>5. ASSUME NEW u \in Heeded', next \in Heeded', u.post = next.post, u.post \notin doubled
          PROVE  u = next
      BY <3>1, <3>3, <3>4, <3>5
    <3> QED BY <3>1, <3>4, <3>5
  <2>3. \A t \in taps' : t.stage = "insert" /\ t.post \notin doubled =>
            \A row \in rows : row.post # t.post
    BY DEF HasteInv
  <2>4. \A row \in restoring : row.post \in doubled BY DEF HasteInv
  <2>5. OneCopy' BY DEF HasteInv, OneCopy
  <2> QED BY <2>1, <2>2, <2>3, <2>4, <2>5 DEF HasteInv
<1>3. ASSUME NEW p \in Shared, toggleSave(p) PROVE HasteInv'
  <2> DEFINE new == [number |-> counts'.taps, post |-> p, wanted |-> ~cards[p],
                     heard |-> TRUE, at |-> 0, stage |-> "sent"]
  <2>1. taps' = taps \cup {new} /\ new.stage = "sent" /\ new.post = p
    BY <1>3 DEF toggleSave
  <2> HIDE DEF new
  <2>2. doubled \subseteq doubled' /\ UNCHANGED <<rows, restoring>>
    BY <1>3 DEF toggleSave
  <2>3. (\E s \in Heeded : s.post = p) => p \in doubled'
    BY <1>3 DEF toggleSave, Heeded
  <2> QED BY <2>1, <2>2, <2>3 DEF HasteInv, Heeded, OneCopy
<1>4. ASSUME NEW tap \in taps, FindPost(tap) \/ set_saved(tap) \/ Lost(tap) \/ Answered(tap)
                                \/ copyToLibrary(tap) \/ save(tap)
      PROVE  HasteInv'
  <2> USE DEF Over, Becomes
  <2>0. tap \in Tap /\ ticks + 1 \in Nat BY DEF TypeOK
  <2>1. tap.stage \notin {"sent", "found"} => tap.heard BY DEF HasteInv
  <2>2. CASE FindPost(tap)
    <3>1. [tap EXCEPT !.stage = "found"] \in Tap BY <2>0, TapMoves DEF Stages
    <3> QED BY <1>2, <2>0, <2>2, <3>1 DEF FindPost, Tap
  <2>3. CASE set_saved(tap)
    <3>1. [tap EXCEPT !.stage = "answered", !.at = ticks'] \in Tap
      BY <2>0, <2>3, TapMoves DEF set_saved
    <3> QED BY <1>2, <2>0, <2>3, <3>1 DEF set_saved, Tap
  <2>4. CASE Lost(tap)
    <3>1. [tap EXCEPT !.heard = FALSE] \in Tap BY <2>0, TapMoves
    <3> QED BY <1>2, <2>0, <2>4, <3>1 DEF Lost, Tap
  <2>5. CASE Answered(tap)
    <3>1. [tap EXCEPT !.stage = "copy"] \in Tap BY <2>0, TapMoves DEF Stages
    <3> QED BY <1>2, <2>0, <2>1, <2>5, <3>1 DEF Answered, Tap
  <2>6. CASE copyToLibrary(tap)
    <3>1. [tap EXCEPT !.stage = "find"] \in Tap BY <2>0, TapMoves DEF Stages
    <3> QED BY <1>2, <2>0, <2>1, <2>6, <3>1 DEF copyToLibrary, Tap
  <2>7. CASE save(tap)
    <3>1. [tap EXCEPT !.stage = "insert"] \in Tap BY <2>0, TapMoves DEF Stages
    <3>2. findShared(tap.post) = {} => \A row \in rows : row.post # tap.post
      BY DEF findShared
    <3> QED BY <1>2, <2>0, <2>1, <2>7, <3>1, <3>2 DEF save, Tap
  <2> QED BY <1>4, <2>2, <2>3, <2>4, <2>5, <2>6, <2>7
<1>5. ASSUME NEW tap \in taps, insert(tap) PROVE HasteInv'
  <2> DEFINE new == [id |-> nextRow, post |-> tap.post]
  <2>1. rows' = rows \cup {new} /\ new.post = tap.post
    BY <1>5 DEF insert, NewId
  <2> HIDE DEF new
  <2>2. taps' = taps \ {tap} /\ UNCHANGED <<restoring, doubled>> /\ tap.stage = "insert"
    BY <1>5 DEF insert, Over
  <2>3. tap.heard BY <2>2 DEF HasteInv
  <2>4. \A t \in taps' : t.stage = "insert" /\ t.post \notin doubled => t.post # tap.post
    BY <2>2, <2>3 DEF HasteInv, Heeded
  <2> QED BY <2>1, <2>2, <2>4 DEF HasteInv, Heeded, OneCopy
<1>6. ASSUME NEW row \in rows, delete(row) PROVE HasteInv'
  BY <1>6 DEF delete, HasteInv, Heeded, OneCopy
<1>7. ASSUME NEW row \in restoring, restore(row) PROVE HasteInv'
  BY <1>7 DEF restore, HasteInv, Heeded, OneCopy
<1>8. CASE undoDelete BY <1>8 DEF undoDelete, HasteInv, Heeded, OneCopy
<1>9. CASE Restart
  <2>1. \A t \in taps' : t.stage \in {"sent", "found"} /\ ~t.heard
    BY <1>9 DEF Restart, TypeOK, Tap
  <2> QED BY <1>9, <2>1 DEF Restart, HasteInv, Heeded, OneCopy
<1>10. ASSUME NEW p \in Shared, Gone(p) \/ Open(p) PROVE HasteInv'
  BY <1>1, <1>10 DEF Gone, Open
<1>11. ASSUME NEW row \in deleting, Offer(row) PROVE HasteInv' BY <1>1, <1>11 DEF Offer
<1>12. CASE \/ Refresh \/ ReadFeed \/ FeedShown \/ RefreshFails
            \/ clearUndo \/ UNCHANGED libraryVars
  BY <1>1, <1>12 DEF Refresh, ReadFeed, FeedShown, RefreshFails, clearUndo, libraryVars
<1> QED
  BY <1>3, <1>4, <1>5, <1>6, <1>7, <1>8, <1>9, <1>10, <1>11, <1>12 DEF LibraryNext

LEMMA LibInvariant == LibrarySpec => []LibInv
<1>1. LibInv /\ [LibraryNext]_libraryVars => LibInv'
  BY LibTypes, LibHearts, LibCopies, LibHaste DEF LibInv
<1> QED BY LibInit, <1>1, PTL DEF LibrarySpec

(* For any number of posts, taps, refreshes and losses, in every order: a   *)
(* heart is wrong only about a post that is gone, or when the server has    *)
(* run a tap on it since what the heart shows was true.                     *)
THEOREM HeartSafe == LibrarySpec => []HeartTrue
<1>1. LibInv => HeartTrue BY DEF LibInv, HeartsInv
<1> QED BY LibInvariant, <1>1, PTL

(* However often posts are saved, deleted, taken back and saved again: the  *)
(* row that returns finds its id free, and a post tapped without haste and  *)
(* never taken back has one copy.                                           *)
THEOREM LibrarySafe == LibrarySpec => []LibraryInv
<1>1. LibInv => UndoFits
  BY DEF LibInv, CopiesInv, Copies, Offered, UndoFits
<1>2. LibInv => LibraryInv
  BY <1>1 DEF LibInv, HasteInv, LibraryInv
<1> QED BY LibInvariant, <1>2, PTL
=============================================================================
