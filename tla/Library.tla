------------------------------- MODULE Library -------------------------------
(***************************************************************************)
(* Saving a shared trip: the heart on a card of the feed, the row of       *)
(* plan_saves behind it (community/store.py), and the copy the phone keeps *)
(* in its library (CommunityViewModel.kt, SavedPlanRepository.kt), which   *)
(* the reader may delete and take back (SavedViewModel.kt).                *)
(*                                                                         *)
(* One reader, signed in.  A statement on either database is one step; so  *)
(* are a request on its way, a reply on its way back, and the resumption   *)
(* of a coroutine.  Others only withdraw posts or push them over the cap.  *)
(* Names are told apart from Community's, whose theorems stand beside      *)
(* those about this module.                                                *)
(***************************************************************************)
EXTENDS Integers, FiniteSets

CONSTANTS
    Shared,     \* posts shared when the reader comes
    MaxTaps,    \* bound: taps on hearts
    MaxFlight,  \* bound: taps whose outcome the screen still awaits
    MaxLoads,   \* bound: refreshes
    MaxUndone,  \* bound: deletions taken back
    MaxStarts,  \* bound: times the process dies
    Nothing

ASSUME TapsAssumption == {MaxTaps, MaxFlight, MaxLoads, MaxUndone, MaxStarts} \subseteq Nat
ASSUME NothingAssumption ==
    /\ Nothing \notin [id : Nat, post : Shared]
    /\ Nothing \notin [hearts : SUBSET Shared, of : SUBSET Shared, at : Nat]

VARIABLES
    shared,     \* rows of shared_plans
    saves,      \* the reader's rows of plan_saves
    cards,      \* what the feed shows: [p |-> savedByViewer]
    loading,    \* a refresh is under way
    page,       \* what it read, Nothing before it has
    opened,     \* posts whose full itinerary the screen holds
    taps,       \* taps that are not over
    rows,       \* rows of saved_plans that are copies of posts
    nextRow,    \* AUTOINCREMENT
    deleting,   \* deleted rows the view model has not been told of
    undo,       \* the deletion on offer to be taken back
    restoring,  \* rows on their way back
    ticks,      \* history: taps and refreshes the server has run
    ran,        \* history: when it last ran a tap on each post
    shown,      \* history: when what each heart shows was true
    doubled,    \* history: posts tapped while a tap was pending, or with a deletion undone
    counts      \* history: what the bounds count

server == <<shared, saves>>
screen == <<cards, loading, page, opened>>
library == <<rows, nextRow>>
shelf == <<deleting, undo, restoring>>
libraryVars == <<server, screen, taps, library, shelf, ticks, ran, shown, doubled, counts>>

Row == [id : Nat, post : Shared]
Tap == [number : Nat, post : Shared, wanted : BOOLEAN, heard : BOOLEAN, at : Nat,
         stage : {"sent", "found", "answered", "copy", "find", "insert"}]

LibraryInit ==
    /\ shared = Shared /\ saves = {}
    /\ cards = [p \in {} |-> FALSE] /\ loading = FALSE /\ page = Nothing /\ opened = {}
    /\ taps = {}
    /\ rows = {} /\ nextRow = 1
    /\ deleting = {} /\ undo = Nothing /\ restoring = {}
    /\ ticks = 0 /\ ran = [p \in Shared |-> 0] /\ shown = [p \in Shared |-> 0]
    /\ doubled = {}
    /\ counts = [taps |-> 0, loads |-> 0, undone |-> 0, starts |-> 0]

Counted(what) == counts' = [counts EXCEPT ![what] = @ + 1]
-----------------------------------------------------------------------------
(* The feed.                                                               *)

(* Its author withdraws a post, with everybody's saves; or the cap trims   *)
(* it, and the saves stay.                                                 *)
Gone(p) ==
    /\ p \in shared
    /\ shared' = shared \ {p}
    /\ saves' \in {saves, saves \ {p}}
    /\ UNCHANGED <<screen, taps, library, shelf, ticks, ran, shown, doubled, counts>>

Refresh ==
    /\ ~loading /\ counts.loads < MaxLoads /\ Counted("loads")
    /\ loading' = TRUE /\ page' = Nothing
    /\ UNCHANGED <<server, cards, opened, taps, library, shelf, ticks, ran, shown, doubled>>

ReadFeed ==
    /\ loading /\ page = Nothing
    /\ ticks' = ticks + 1
    /\ page' = [hearts |-> saves \cap shared, of |-> shared, at |-> ticks']
    /\ UNCHANGED <<server, cards, loading, opened, taps, library, shelf, ran, shown, doubled, counts>>

FeedShown ==
    /\ page # Nothing
    /\ cards' = [p \in page.of |-> p \in page.hearts]
    /\ shown' = [p \in Shared |-> IF p \in page.of THEN page.at ELSE shown[p]]
    /\ loading' = FALSE /\ page' = Nothing
    /\ UNCHANGED <<server, opened, taps, library, shelf, ticks, ran, doubled, counts>>

RefreshFails ==
    /\ loading
    /\ loading' = FALSE /\ page' = Nothing
    /\ UNCHANGED <<server, cards, opened, taps, library, shelf, ticks, ran, shown, doubled, counts>>

Open(p) ==
    /\ p \in DOMAIN cards /\ p \in shared \ opened
    /\ opened' = opened \cup {p}
    /\ UNCHANGED <<server, cards, loading, page, taps, library, shelf, ticks, ran, shown, doubled, counts>>
-----------------------------------------------------------------------------
(* A tap on a heart asks for the opposite of what the card shows.          *)
toggleSave(p) ==
    /\ p \in DOMAIN cards
    /\ counts.taps < MaxTaps /\ Counted("taps")
    /\ Cardinality({tap \in taps : tap.heard}) < MaxFlight
    /\ taps' = taps \cup {[number |-> counts'.taps, post |-> p, wanted |-> ~cards[p],
                             heard |-> TRUE, at |-> 0, stage |-> "sent"]}
    /\ doubled' = doubled \cup ({p} \cap {tap.post : tap \in {c \in taps : c.heard}})
    /\ UNCHANGED <<server, screen, library, shelf, ticks, ran, shown>>

Over(tap) == taps' = taps \ {tap}
Becomes(tap, next) == taps' = (taps \ {tap}) \cup {next}

(* SELECT 1 opens no transaction: the post may go before the write.  A     *)
(* post that is not there is a 404, and only a message on the screen.      *)
FindPost(tap) ==
    /\ tap.stage = "sent"
    /\ IF tap.post \in shared THEN Becomes(tap, [tap EXCEPT !.stage = "found"]) ELSE Over(tap)
    /\ UNCHANGED <<server, screen, library, shelf, ticks, ran, shown, doubled, counts>>

(* INSERT OR IGNORE, or DELETE: either way twice is once.                  *)
Written_Toggled(tap) == IF tap.post \in saves THEN saves \ {tap.post} ELSE saves \cup {tap.post}

Written(tap) == IF tap.wanted THEN saves \cup {tap.post} ELSE saves \ {tap.post}

set_saved(tap) ==
    /\ tap.stage = "found"
    /\ saves' = Written(tap)
    /\ ticks' = ticks + 1
    /\ ran' = [ran EXCEPT ![tap.post] = ticks']
    /\ IF tap.heard THEN Becomes(tap, [tap EXCEPT !.stage = "answered", !.at = ticks'])
                     ELSE Over(tap)
    /\ UNCHANGED <<shared, screen, library, shelf, shown, doubled, counts>>

(* No answer: the request never arrived, was refused, or the server        *)
(* carries on unheard; or the reply is lost.                               *)
Lost(tap) ==
    /\ tap.heard
    /\ \/ tap.stage \in {"sent", "answered"} /\ Over(tap)
       \/ tap.stage \in {"sent", "found"} /\ Becomes(tap, [tap EXCEPT !.heard = FALSE])
    /\ UNCHANGED <<server, screen, library, shelf, ticks, ran, shown, doubled, counts>>

(* The card shows what the server says, not what the tap wished.           *)
Heart_Flipped(tap) == ~cards[tap.post]

Heart(tap) == tap.wanted

Answered(tap) ==
    /\ tap.stage = "answered"
    /\ cards' = [p \in DOMAIN cards |-> IF p = tap.post THEN Heart(tap) ELSE cards[p]]
    /\ shown' = [shown EXCEPT ![tap.post] = IF tap.post \in DOMAIN cards THEN tap.at ELSE @]
    /\ IF tap.wanted THEN Becomes(tap, [tap EXCEPT !.stage = "copy"]) ELSE Over(tap)
    /\ UNCHANGED <<server, loading, page, opened, library, shelf, ticks, ran, doubled, counts>>

(* The itinerary the copy is made of is at hand or has to be fetched; a    *)
(* fetch that fails leaves the heart, and says so.                         *)
copyToLibrary(tap) ==
    /\ tap.stage = "copy"
    /\ \/ tap.post \in opened \cup shared /\ Becomes(tap, [tap EXCEPT !.stage = "find"])
       \/ tap.post \notin opened /\ Over(tap)
    /\ UNCHANGED <<server, screen, library, shelf, ticks, ran, shown, doubled, counts>>

findShared_Skipped(post) == {}

findShared(post) == {row \in rows : row.post = post}

save(tap) ==
    /\ tap.stage = "find"
    /\ IF findShared(tap.post) # {} THEN Over(tap)
                                     ELSE Becomes(tap, [tap EXCEPT !.stage = "insert"])
    /\ UNCHANGED <<server, screen, library, shelf, ticks, ran, shown, doubled, counts>>

(* An id is never given out again, also not that of a deleted row.         *)
NewId_Reused ==
    CHOOSE id \in 1 .. nextRow :
        /\ \A row \in rows : row.id < id
        /\ id = 1 \/ \E row \in rows : row.id = id - 1

NewId == nextRow

insert(tap) ==
    /\ tap.stage = "insert"
    /\ rows' = rows \cup {[id |-> NewId, post |-> tap.post]}
    /\ nextRow' = NewId + 1
    /\ Over(tap)
    /\ UNCHANGED <<server, screen, shelf, ticks, ran, shown, doubled, counts>>
-----------------------------------------------------------------------------
(* The library.                                                            *)
delete(row) ==
    /\ row \in rows
    /\ rows' = rows \ {row} /\ deleting' = deleting \cup {row}
    /\ UNCHANGED <<server, screen, taps, nextRow, undo, restoring, ticks, ran, shown, doubled, counts>>

(* Only the last deletion is on offer.                                     *)
Offer(row) ==
    /\ row \in deleting
    /\ deleting' = deleting \ {row} /\ undo' = row
    /\ UNCHANGED <<server, screen, taps, library, restoring, ticks, ran, shown, doubled, counts>>

clearUndo ==
    /\ undo # Nothing /\ undo' = Nothing
    /\ UNCHANGED <<server, screen, taps, library, deleting, restoring, ticks, ran, shown, doubled, counts>>

(* The offer is consumed before the row is put back.                       *)
undoDelete ==
    /\ undo # Nothing /\ counts.undone < MaxUndone /\ Counted("undone")
    /\ restoring' = restoring \cup {undo} /\ undo' = Nothing
    /\ doubled' = doubled \cup {undo.post}
    /\ UNCHANGED <<server, screen, taps, library, deleting, ticks, ran, shown>>

restore(row) ==
    /\ row \in restoring
    /\ restoring' = restoring \ {row} /\ rows' = rows \cup {row}
    /\ UNCHANGED <<server, screen, taps, nextRow, deleting, undo, ticks, ran, shown, doubled, counts>>

(* The process dies: the databases stay, and so does what is on the wire.  *)
Restart ==
    /\ counts.starts < MaxStarts /\ Counted("starts")
    /\ cards' = [p \in {} |-> FALSE] /\ loading' = FALSE /\ page' = Nothing /\ opened' = {}
    /\ taps' = {[tap EXCEPT !.heard = FALSE] : tap \in {c \in taps : c.stage \in {"sent", "found"}}}
    /\ deleting' = {} /\ undo' = Nothing /\ restoring' = {}
    /\ UNCHANGED <<server, library, ticks, ran, shown, doubled>>

LibraryNext ==
    \/ \E p \in Shared : Gone(p) \/ Open(p) \/ toggleSave(p)
    \/ Refresh \/ ReadFeed \/ FeedShown \/ RefreshFails
    \/ \E tap \in taps :
          \/ FindPost(tap) \/ set_saved(tap) \/ Lost(tap) \/ Answered(tap)
          \/ copyToLibrary(tap) \/ save(tap) \/ insert(tap)
    \/ \E row \in rows : delete(row)
    \/ \E row \in deleting : Offer(row)
    \/ \E row \in restoring : restore(row)
    \/ clearUndo \/ undoDelete \/ Restart

LibrarySpec == LibraryInit /\ [][LibraryNext]_libraryVars
-----------------------------------------------------------------------------
TypeOK ==
    /\ shared \subseteq Shared /\ saves \subseteq Shared /\ opened \subseteq Shared
    /\ DOMAIN cards \subseteq Shared /\ \A p \in DOMAIN cards : cards[p] \in BOOLEAN
    /\ loading \in BOOLEAN
    /\ page \in [hearts : SUBSET Shared, of : SUBSET Shared, at : Nat] \cup {Nothing}
    /\ taps \subseteq Tap
    /\ rows \subseteq Row /\ nextRow \in Nat
    /\ deleting \subseteq Row /\ undo \in Row \cup {Nothing} /\ restoring \subseteq Row
    /\ ticks \in Nat /\ ran \in [Shared -> Nat] /\ shown \in [Shared -> Nat]
    /\ doubled \subseteq Shared
    /\ counts \in [taps : Nat, loads : Nat, undone : Nat, starts : Nat]

(* A heart on screen is wrong only about a post that is gone, or when the  *)
(* server has run a tap on it since what the heart shows was true: one     *)
(* whose answer is lost, late, or came before an older one.                *)
HeartTrue ==
    \A p \in DOMAIN cards \cap shared :
        ran[p] <= shown[p] => (cards[p] <=> p \in saves)

(* An undo never meets a row of its id: the insert that puts the row back  *)
(* cannot fail on the primary key, whatever was saved in between.          *)
UndoFits ==
    \A row \in restoring \cup ({undo} \ {Nothing}) : \A other \in rows : other.id # row.id

(* "Copying the same post twice is a no-op, not a second row": not so when  *)
(* a heart is tapped before the last tap and its copy are done, or a        *)
(* deletion is taken back; otherwise, however often a post is saved,        *)
(* unsaved, deleted and saved again, and whatever is lost.                  *)
OneCopy == \A a, b \in rows : a.post = b.post /\ a.post \notin doubled => a = b

(* What the library holds is of its kind, and no sequence of taps, losses, *)
(* deletions and undos breaks its keys or copies a post twice unasked.     *)
LibraryInv == TypeOK /\ UndoFits /\ OneCopy
=============================================================================
