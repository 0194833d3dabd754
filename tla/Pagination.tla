----------------------------- MODULE Pagination ------------------------------
(***************************************************************************)
(* The four listings that are cut into pages: the sessions of an            *)
(* organization, the messages of a session, the runs of a session and the   *)
(* steps of a run.  A client walks one of them from page to page, the id of *)
(* a page's last row being the cursor of the next page; each page is a query*)
(* of its own, and the rows are inserted and updated between two of them.   *)
(***************************************************************************)
EXTENDS Integers, Sequences, FiniteSets

CONSTANTS
  Listings,     \* which of the listings may be walked
  MaxRows,      \* bound: ids of rows
  MaxLimit,     \* bound: the page sizes a client asks for
  MaxTime,      \* bound: distinct values of a timestamp
  MaxUpdates    \* bound: updates of sessions

ASSUME ListingsAssumption ==
  Listings \subseteq {"sessions", "messages", "agentRuns", "steps"}
ASSUME BoundsAssumption ==
  /\ MaxRows \in Nat /\ MaxTime \in Nat /\ MaxUpdates \in Nat
  /\ MaxLimit \in Nat \ {0}

\* nextCursor of a last page, and the cursor of a first one
Null == 0

Ids == 1..MaxRows

VARIABLES
  listing,   \* the listing that is walked
  now,       \* the database's clock
  rows,      \* the table: id -> order key, and whether the filter selects it
  updates,   \* updates of sessions so far
  walk,      \* the client: its next cursor, the ids it was given, is it through
  history    \* what happened since the walk began

vars == <<listing, now, rows, updates, walk, history>>

\* The ids listed when the first page was cut, those updated since, whether a
\* row that a page ended with was updated before the next page was cut, and
\* whether such a row had left the listing by then.
Fresh == [initial |-> {}, touched |-> {}, moved |-> FALSE, gone |-> FALSE]

Descending == listing \in {"sessions", "agentRuns"}

-----------------------------------------------------------------------------
(* findMany and buildPage                                                  *)

\* orderBy: the sessions' updatedAt and the runs' startedAt, newest first, the
\* messages' createdAt and the steps' index, lowest first, each with the id.
Precedes(i, j) ==
  IF Descending
    THEN rows[i].key > rows[j].key \/ (rows[i].key = rows[j].key /\ i > j)
    ELSE rows[i].key < rows[j].key \/ (rows[i].key = rows[j].key /\ i < j)

Listed == {i \in DOMAIN rows : rows[i].listed}

\* Mutant: rows are compared with the cursor by the order key alone.
FromCursorByKey(cursor) ==
  IF cursor = Null THEN Listed
  ELSE {i \in Listed : IF Descending THEN rows[i].key <= rows[cursor].key
                                     ELSE rows[i].key >= rows[cursor].key}

\* The rows from the cursor's on.  Prisma compares with the values the cursor's
\* row has now, whether the filter still selects that row or not.
FromCursor(cursor) ==
  IF cursor = Null THEN Listed ELSE {i \in Listed : ~ Precedes(i, cursor)}

\* The rows of S in the order of the listing.
InOrder(S) ==
  CHOOSE s \in [1..Cardinality(S) -> S] :
    \A m, n \in DOMAIN s : m < n => Precedes(s[m], s[n])

First(n, s) == SubSeq(s, 1, IF n < Len(s) THEN n ELSE Len(s))

\* Mutant: no row is skipped.
FindManyUnskipped(cursor, take) ==
  First(take, InOrder(FromCursor(cursor)))

\* skip: 1 drops the first row there is.
FindMany(cursor, take) ==
  LET found == InOrder(FromCursor(cursor)) IN
  First(take, IF cursor # Null /\ found # <<>> THEN Tail(found) ELSE found)

\* Mutant: the cursor is the first row of the next page.
BuildPageAhead(found, limit) ==
  [items |-> First(limit, found),
   nextCursor |-> IF Len(found) > limit THEN found[limit + 1] ELSE Null]

BuildPage(found, limit) ==
  LET items == First(limit, found) IN
  [items |-> items,
   nextCursor |-> IF Len(found) > limit THEN items[Len(items)] ELSE Null]

\* What the properties need to know of a page that is cut now.
Remember ==
  /\ history' = IF walk.cursor = Null
       THEN [Fresh EXCEPT !.initial = Listed]
       ELSE [history EXCEPT !.gone = @ \/ walk.cursor \notin Listed]

\* Mutant: what is asked for is what a page shows.
ListPageExactly(limit) ==
  LET page == BuildPage(FindMany(walk.cursor, limit), limit) IN
  /\ ~ walk.done
  /\ walk' = [cursor |-> page.nextCursor, seen |-> walk.seen \o page.items,
              done |-> page.nextCursor = Null]
  /\ Remember
  /\ UNCHANGED <<listing, now, rows, updates>>

\* One request: limit + 1 rows are asked for, to learn whether there are more.
ListPage(limit) ==
  LET page == BuildPage(FindMany(walk.cursor, limit + 1), limit) IN
  /\ ~ walk.done
  /\ walk' = [cursor |-> page.nextCursor, seen |-> walk.seen \o page.items,
              done |-> page.nextCursor = Null]
  /\ Remember
  /\ UNCHANGED <<listing, now, rows, updates>>

-----------------------------------------------------------------------------
(* What changes the tables                                                 *)

WithRow(id, row) == [i \in DOMAIN rows \cup {id} |-> IF i = id THEN row ELSE rows[i]]

\* A session, message or run is inserted with the time its statement began,
\* and is seen once it is committed, which may be after a later one.
Insert(id) ==
  /\ listing # "steps"
  /\ id \in Ids \ DOMAIN rows
  /\ \E time \in {now - 1, now} \cap Nat :
       rows' = WithRow(id, [key |-> time, listed |-> TRUE])
  /\ UNCHANGED <<listing, now, updates, walk, history>>

\* recordStep: the next index.
AppendStep(id) ==
  /\ listing = "steps"
  /\ id \in Ids \ DOMAIN rows
  /\ rows' = WithRow(id, [key |-> Cardinality(DOMAIN rows), listed |-> TRUE])
  /\ UNCHANGED <<listing, now, updates, walk, history>>

\* A session's title or status is set: updatedAt is now, and with another status
\* it may leave the listing, or come back to it.
UpdateSession(id) ==
  /\ listing = "sessions"
  /\ id \in DOMAIN rows
  /\ updates < MaxUpdates
  /\ \E listed \in BOOLEAN :
       rows' = [rows EXCEPT ![id] = [key |-> now, listed |-> listed]]
  /\ updates' = updates + 1
  /\ history' = [history EXCEPT !.touched = @ \cup {id},
                                !.moved = @ \/ id = walk.cursor]
  /\ UNCHANGED <<listing, now, walk>>

Tick ==
  /\ now < MaxTime
  /\ now' = now + 1
  /\ UNCHANGED <<listing, rows, updates, walk, history>>

Init ==
  /\ listing \in Listings
  /\ now     = 0
  /\ rows    = [i \in {} |-> [key |-> 0, listed |-> TRUE]]
  /\ updates = 0
  /\ walk    = [cursor |-> Null, seen |-> <<>>, done |-> FALSE]
  /\ history = Fresh

Next ==
  \/ Tick
  \/ \E limit \in 1..MaxLimit : ListPage(limit)
  \/ \E id \in Ids : Insert(id) \/ AppendStep(id) \/ UpdateSession(id)

Spec == Init /\ [][Next]_vars

-----------------------------------------------------------------------------
(* Properties.                                                             *)

Seen == {walk.seen[n] : n \in DOMAIN walk.seen}

\* The table and the walk have their types.
TypeOK ==
  /\ listing \in Listings
  /\ now \in 0..MaxTime
  /\ DOMAIN rows \subseteq Ids
  /\ \A i \in DOMAIN rows : rows[i] \in [key : Nat, listed : BOOLEAN]
  /\ walk \in [cursor : Ids \cup {Null}, seen : Seq(Ids), done : BOOLEAN]

\* Rows that never change are given in the listing's order and never twice,
\* across pages of any sizes and whatever is inserted behind the walk.
ListedInOrder ==
  listing # "sessions" =>
    \A m, n \in DOMAIN walk.seen :
      m < n => Precedes(walk.seen[m], walk.seen[n])

\* A client that has walked to the end has seen every row that was there from the
\* start and was left alone, unless a session that a page ended with had left the
\* listing by the next page: then the row skipped for it is one not yet seen.
NothingMissed ==
  walk.done /\ ~ history.gone => history.initial \ history.touched \subseteq Seen

\* An untouched row is seen twice only if a session that a page ended with was
\* updated before the next page, which starts over from the session's new place.
SeenOnce ==
  \A m, n \in DOMAIN walk.seen :
    m # n /\ walk.seen[m] = walk.seen[n] =>
      walk.seen[m] \in history.touched \/ history.moved

\* The steps of a run that is still written are seen from the first on, with no
\* gap: the transcript can be followed while it grows.
StepsWithoutGap ==
  listing = "steps" =>
    \A n \in DOMAIN walk.seen : rows[walk.seen[n]].key = n - 1

==============================================================================
