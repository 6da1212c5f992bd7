---------------------------- MODULE IncidentPaging ----------------------------
(***************************************************************************)
(* GET /incidents read page by page while incidents are being stored.      *)
(* Pages are cut by (created_at, id), newest first; created_at is the      *)
(* start of the transaction that stored the incident, which may commit     *)
(* after rows that are younger, and after a cursor has passed its place.   *)
(***************************************************************************)
EXTENDS Naturals, FiniteSets

CONSTANTS
  Ids,         \* incident ids, ordered as uuids are
  Times,       \* what a transaction's start may be
  Priorities,
  MaxLimit,    \* of the incidents of a page
  Null

ASSUME PagingAssumption ==
  /\ Ids \subseteq Nat /\ Times \subseteq Nat
  /\ MaxLimit \in Nat \ {0}
  /\ Null \notin [created_at : Times, priority : Priorities]
  /\ Null \notin [created_at : Times, incident_id : Ids]
  /\ Null \notin Priorities

\* Rows that are committed; nothing changes or deletes one.
IncidentRow == [created_at : Times, priority : Priorities]
CursorPayload == [created_at : Times, incident_id : Ids]

VARIABLES
  incidents,   \* id |-> its row, or Null
  listing,     \* the client's listing: "idle", "open" or "done"
  filter,      \* the priority asked for, or Null
  cursor,      \* next_cursor of the last page, or Null
  page,        \* items of the last page
  earlier,     \* history: items of the pages before it
  late         \* history: ids committed when the listing had passed their place

vars == <<incidents, listing, filter, cursor, page, earlier, late>>

Stored == {id \in Ids : incidents[id] # Null}

Init ==
  /\ incidents = [id \in Ids |-> Null]
  /\ listing = "idle"
  /\ filter = Null /\ cursor = Null
  /\ page = {} /\ earlier = {} /\ late = {}

-----------------------------------------------------------------------------
(* The order of the pages *)

\* ORDER BY created_at DESC, id DESC
Newer(a, b) ==
  \/ incidents[a].created_at > incidents[b].created_at
  \/ incidents[a].created_at = incidents[b].created_at /\ a > b

\* Faulty: the id does not break ties.
BelowByTime(id, position) == incidents[id].created_at < position.created_at

\* Faulty: the position itself is listed again.
NotAbove(id, position) ==
  \/ incidents[id].created_at < position.created_at
  \/ incidents[id].created_at = position.created_at /\ id <= position.incident_id

\* The WHERE of a cursor.
Below(id, position) ==
  \/ incidents[id].created_at < position.created_at
  \/ incidents[id].created_at = position.created_at /\ id < position.incident_id

EncodeCursor(id) == [created_at |-> incidents[id].created_at, incident_id |-> id]

Matches(id, priority) == priority = Null \/ incidents[id].priority = priority

\* Faulty: the cursor is decoded and not used.
SelectedFromStart(position, priority) == {id \in Stored : Matches(id, priority)}

\* The rows that the statement selects, without its LIMIT.
Selected(position, priority) ==
  {id \in Stored : Matches(id, priority) /\ (position # Null => Below(id, position))}

\* encode_incident_cursor(items[-1])
NextCursor(rows, items) ==
  {EncodeCursor(id) : id \in {last \in items : \A other \in items : other = last \/ Newer(other, last)}}

-----------------------------------------------------------------------------
(* Operations *)

\* What one SELECT ... LIMIT limit + 1 finds is a page with a cursor, or the last one.
ListIncidents(limit, position, priority) ==
  LET rows == Selected(position, priority)
  IN  /\ \/ Cardinality(rows) <= limit /\ page' = rows /\ cursor' = Null /\ listing' = "done"
         \/ /\ Cardinality(rows) > limit
            /\ \E items \in SUBSET rows :
                 /\ Cardinality(items) = limit
                 /\ \A a \in items, b \in rows \ items : Newer(a, b)
                 /\ page' = items
                 /\ cursor' \in NextCursor(rows, items)
            /\ listing' = "open"
      /\ filter' = priority
      /\ earlier' = earlier \cup page
      /\ UNCHANGED <<incidents, late>>

FirstPage ==
  /\ listing = "idle"
  /\ \E limit \in 1..MaxLimit, priority \in Priorities \cup {Null} :
       ListIncidents(limit, Null, priority)

\* The client sends the cursor back with the same filter; the limit may be another.
NextPage ==
  /\ listing = "open"
  /\ \E limit \in 1..MaxLimit : ListIncidents(limit, cursor, filter)

\* The listing has been where the incident belongs.
Passed(id) == listing = "done" \/ (listing = "open" /\ ~ Below(id, cursor))

\* A transaction of the ingestion commits, whenever it began.
CommitIncident(id) ==
  /\ incidents[id] = Null
  /\ \E row \in IncidentRow : incidents' = [incidents EXCEPT ![id] = row]
  /\ UNCHANGED <<listing, filter, cursor, page, earlier>>
  /\ late' = IF Passed(id)' THEN late \cup {id} ELSE late

Next ==
  \/ \E id \in Ids : CommitIncident(id)
  \/ FirstPage
  \/ NextPage

\* A client that has got a cursor asks again until it is answered.
PagingSpec == Init /\ [][Next]_vars /\ WF_vars(NextPage)

-----------------------------------------------------------------------------
(* Correctness *)

\* Every variable has its type, and an open listing's cursor is the place of the last incident of
\* its last page (incidents.py:94).
PagingTypeOK ==
  /\ incidents \in [Ids -> IncidentRow \cup {Null}]
  /\ listing \in {"idle", "open", "done"}
  /\ filter \in Priorities \cup {Null}
  /\ cursor \in CursorPayload \cup {Null}
  /\ page \subseteq Stored /\ earlier \subseteq Stored /\ late \subseteq Stored
  /\ listing = "open" <=> cursor # Null
  /\ listing = "open" =>
       /\ cursor.incident_id \in page
       /\ cursor = EncodeCursor(cursor.incident_id)
       /\ \A id \in page : ~ Below(id, cursor)

\* Pages do not overlap and go down: whatever is stored meanwhile and whichever created_at are
\* equal, every incident of a page is older than those of all pages before (docs/architecture.md:51).
PagesDescend == \A a \in earlier, b \in page : Newer(a, b)

\* The listing shows exactly the matching incidents whose place it has passed, except those that
\* were committed behind it: nothing that was stored in time is skipped at the end of a page, and
\* a transaction that commits late is the only way to be missing (postgres.py:178-206).
ListingExact ==
  \A id \in Ids :
    id \in page \cup earlier <=>
      id \in Stored /\ Matches(id, filter) /\ Passed(id) /\ id \notin late

\* A client that follows the cursors reaches the last page.
ListingEnds == listing = "open" ~> listing = "done"
=============================================================================
