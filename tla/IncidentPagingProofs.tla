------------------------ MODULE IncidentPagingProofs ------------------------
(***************************************************************************)
(* IncidentPaging for any number of incidents, transaction starts and page *)
(* sizes.  The argument: a page takes the newest of the rows below the     *)
(* cursor, so that what is above the next cursor is what was above this    *)
(* one and the page; and a row that commits above it is late.              *)
(***************************************************************************)
EXTENDS IncidentPaging, TLAPS

\* An incident is late only where the listing has been.
LatePassed == \A id \in late : Passed(id)

IInv == PagingTypeOK /\ PagesDescend /\ ListingExact /\ LatePassed

-----------------------------------------------------------------------------
(* The order *)

LEMMA RowFacts ==
  ASSUME PagingTypeOK, NEW id \in Stored
  PROVE  /\ id \in Ids /\ id \in Nat
         /\ incidents[id] \in IncidentRow
         /\ incidents[id].created_at \in Times
         /\ incidents[id].created_at \in Nat
BY PagingAssumption DEF PagingTypeOK, Stored, IncidentRow

LEMMA CursorFacts ==
  ASSUME PagingTypeOK, listing = "open"
  PROVE  /\ cursor \in CursorPayload /\ cursor # Null
         /\ cursor.created_at \in Nat /\ cursor.incident_id \in Nat
BY PagingAssumption DEF PagingTypeOK, CursorPayload

\* The place of an incident separates the older ones from the others.
LEMMA EncodeFacts ==
  ASSUME PagingTypeOK, NEW last \in Stored
  PROVE  /\ EncodeCursor(last) \in CursorPayload
         /\ EncodeCursor(last) # Null
         /\ EncodeCursor(last).incident_id = last
         /\ \A id \in Stored : Below(id, EncodeCursor(last)) <=> Newer(last, id)
         /\ \A id \in Stored : id # last => (Newer(id, last) <=> ~ Newer(last, id))
         /\ ~ Newer(last, last)
<1>1. EncodeCursor(last) \in CursorPayload /\ EncodeCursor(last) # Null
  BY RowFacts, PagingAssumption DEF EncodeCursor, CursorPayload
<1>2. /\ EncodeCursor(last).incident_id = last
      /\ EncodeCursor(last).created_at = incidents[last].created_at
  BY DEF EncodeCursor
<1>3. /\ \A id \in Stored : Below(id, EncodeCursor(last)) <=> Newer(last, id)
      /\ \A id \in Stored : id # last => (Newer(id, last) <=> ~ Newer(last, id))
      /\ ~ Newer(last, last)
  BY <1>2, RowFacts DEF Below, Newer
<1> QED
  BY <1>1, <1>2, <1>3

\* What is not below the cursor is newer than what is.
LEMMA CursorSeparates ==
  ASSUME PagingTypeOK, listing = "open", NEW a \in Stored, NEW b \in Stored,
         ~ Below(a, cursor), Below(b, cursor)
  PROVE  Newer(a, b)
BY RowFacts, CursorFacts DEF Below, Newer

LEMMA NewerTransitive ==
  ASSUME PagingTypeOK, NEW a \in Stored, NEW b \in Stored, NEW d \in Stored,
         Newer(a, b), Newer(b, d)
  PROVE  Newer(a, d)
BY RowFacts DEF Newer

-----------------------------------------------------------------------------
(* Pages *)

\* A request of the listing: its first, or one that follows the cursor.
Follows(position, priority) ==
  \/ listing = "idle" /\ position = Null /\ priority \in Priorities \cup {Null}
  \/ listing = "open" /\ position = cursor /\ priority = filter

\* The rows selected are those that the listing has not passed.
LEMMA SelectedFacts ==
  ASSUME IInv, NEW position, NEW priority, Follows(position, priority)
  PROVE  /\ \A id \in Stored :
              id \in Selected(position, priority) <=> Matches(id, priority) /\ ~ Passed(id)
         /\ Selected(position, priority) \subseteq Stored
         /\ \A id \in Ids : id \in page \cup earlier <=>
              id \in Stored /\ Matches(id, priority) /\ Passed(id) /\ id \notin late
         /\ page \cup earlier \subseteq Ids
         /\ priority \in Priorities \cup {Null}
         /\ \A a \in page \cup earlier, b \in Selected(position, priority) : Newer(a, b)
<1>1. CASE listing = "idle" /\ position = Null /\ priority \in Priorities \cup {Null}
  <2>1. \A id \in Ids : ~ Passed(id)
    BY <1>1 DEF Passed
  <2>2. page \cup earlier = {}
    BY <2>1 DEF IInv, ListingExact, PagingTypeOK, Stored
  <2> QED
    BY <1>1, <2>1, <2>2 DEF Selected, Stored
<1>2. CASE listing = "open" /\ position = cursor /\ priority = filter
  <2>1. cursor # Null /\ listing # "done"
    BY <1>2 DEF IInv, PagingTypeOK
  <2>2. \A id \in Stored :
          id \in Selected(position, priority) <=> Matches(id, priority) /\ ~ Passed(id)
    BY <1>2, <2>1 DEF Selected, Passed
  <2>3. page \cup earlier \subseteq Stored /\ Stored \subseteq Ids
    BY DEF IInv, PagingTypeOK, Stored
  <2>4. \A a \in page \cup earlier, b \in Selected(position, priority) : Newer(a, b)
    <3> SUFFICES ASSUME NEW a \in page \cup earlier, NEW b \in Selected(position, priority)
                 PROVE  Newer(a, b)
      OBVIOUS
    <3>1. a \in Stored /\ b \in Stored
      BY <2>3 DEF Selected
    <3>2. ~ Below(a, cursor)
      BY <1>2, <2>1, <2>3 DEF IInv, ListingExact, Passed
    <3>3. Below(b, cursor)
      BY <1>2, <2>1 DEF Selected
    <3> QED
      BY <1>2, <3>1, <3>2, <3>3, CursorSeparates DEF IInv
  <2> QED
    BY <1>2, <2>2, <2>3, <2>4 DEF IInv, ListingExact, PagingTypeOK, Selected
<1> QED
  BY <1>1, <1>2 DEF Follows

LEMMA ListStep ==
  ASSUME IInv, NEW limit, NEW position, NEW priority, Follows(position, priority),
         ListIncidents(limit, position, priority)
  PROVE  IInv'
<1> DEFINE rows == Selected(position, priority)
<1>t. PagingTypeOK
  BY DEF IInv
<1>u. /\ incidents' = incidents /\ late' = late /\ filter' = priority
      /\ earlier' = earlier \cup page /\ Stored' = Stored
  BY DEF ListIncidents, Stored
<1>s. /\ \A id \in Stored : id \in rows <=> Matches(id, priority) /\ ~ Passed(id)
      /\ rows \subseteq Stored
      /\ \A id \in Ids : id \in page \cup earlier <=>
           id \in Stored /\ Matches(id, priority) /\ Passed(id) /\ id \notin late
      /\ page \cup earlier \subseteq Ids
      /\ priority \in Priorities \cup {Null}
      /\ \A a \in page \cup earlier, b \in rows : Newer(a, b)
  BY SelectedFacts
<1>e. page \cup earlier \subseteq Stored /\ late \subseteq Stored /\ Stored \subseteq Ids
  BY <1>t DEF PagingTypeOK, Stored
<1>n. \A a, b : Newer(a, b)' <=> Newer(a, b)
  BY <1>u DEF Newer
<1>m. \A id : Matches(id, filter)' <=> Matches(id, priority)
  BY <1>u DEF Matches
<1>1. CASE page' = rows /\ cursor' = Null /\ listing' = "done"
  <2>1. PagingTypeOK'
    BY <1>t, <1>u, <1>s, <1>e, <1>1 DEF PagingTypeOK
  <2>2. PagesDescend'
    BY <1>u, <1>s, <1>n, <1>1 DEF PagesDescend
  <2>3. \A id : Passed(id)'
    BY <1>1 DEF Passed
  <2>4. ListingExact'
    <3> SUFFICES ASSUME NEW id \in Ids
                 PROVE  id \in rows \cup earlier \cup page <=>
                          id \in Stored /\ Matches(id, priority) /\ id \notin late
      BY <1>u, <1>m, <1>1, <2>3 DEF ListingExact
    <3>1. id \in rows => id \notin late
      BY <1>s DEF IInv, LatePassed
    <3> QED
      BY <1>s, <3>1
  <2> QED
    BY <2>1, <2>2, <2>3, <2>4 DEF IInv, LatePassed
<1>2. CASE /\ \E items \in SUBSET rows :
                /\ \A a \in items, b \in rows \ items : Newer(a, b)
                /\ page' = items
                /\ cursor' \in NextCursor(rows, items)
           /\ listing' = "open"
  <2>1. PICK last \in page' :
          /\ \A other \in page' : other = last \/ Newer(other, last)
          /\ cursor' = EncodeCursor(last)
    BY <1>2 DEF NextCursor
  <2>2. page' \subseteq rows /\ \A a \in page', b \in rows \ page' : Newer(a, b)
    BY <1>2
  <2>3. last \in Stored /\ last \in rows
    BY <1>s, <2>1, <2>2
  <2>4. /\ cursor' \in CursorPayload /\ cursor' # Null /\ cursor'.incident_id = last
        /\ \A id \in Stored : Below(id, cursor') <=> Newer(last, id)
        /\ \A id \in Stored : id # last => (Newer(id, last) <=> ~ Newer(last, id))
        /\ ~ Newer(last, last)
    BY <1>t, <2>1, <2>3, EncodeFacts
  <2>5. \A id \in Stored : Below(id, cursor)' <=> Newer(last, id)
    BY <1>u, <2>4 DEF Below
  <2>6. \A id \in Stored : Passed(id)' <=> ~ Newer(last, id)
    BY <1>2, <2>5 DEF Passed
  <2>7. \A id \in page' : ~ Newer(last, id)
    BY <1>s, <2>1, <2>2, <2>4
  <2>8. \A id \in rows \ page' : Newer(last, id)
    BY <2>1, <2>2
  <2>9. \A id \in Stored : Passed(id) => ~ Newer(last, id)
    <3> SUFFICES ASSUME NEW id \in Stored, Passed(id), Newer(last, id) PROVE FALSE
      OBVIOUS
    <3>1. ~ Passed(last)
      BY <1>s, <2>3
    <3>2. listing = "open" /\ ~ Below(id, cursor) /\ Below(last, cursor)
      BY <3>1 DEF Passed, Follows
    <3>3. Newer(id, last)
      BY <1>t, <2>3, <3>2, CursorSeparates
    <3> QED
      BY <2>4, <3>3
  <2>10. PagingTypeOK'
    <3>1. cursor' = EncodeCursor(cursor.incident_id)'
      BY <1>u, <2>1, <2>4 DEF EncodeCursor
    <3>2. page' \subseteq Stored /\ \A id \in page' : ~ Below(id, cursor)'
      BY <1>s, <2>2, <2>5, <2>7
    <3> QED
      BY <1>t, <1>u, <1>s, <1>e, <1>2, <2>1, <2>4, <3>1, <3>2 DEF PagingTypeOK
  <2>11. PagesDescend'
    BY <1>u, <1>s, <1>n, <2>2 DEF PagesDescend
  <2>12. ListingExact'
    <3> SUFFICES ASSUME NEW id \in Ids
                 PROVE  id \in page' \cup earlier \cup page <=>
                          id \in Stored /\ Matches(id, priority) /\ Passed(id)' /\ id \notin late
      BY <1>u, <1>m DEF ListingExact
    <3>1. CASE id \in page'
      BY <1>s, <2>2, <2>6, <2>7, <3>1 DEF IInv, LatePassed
    <3>2. CASE id \in page \cup earlier
      BY <1>s, <1>e, <2>6, <2>9, <3>2
    <3>3. CASE id \notin page' /\ id \notin page \cup earlier
      BY <1>s, <2>6, <2>8, <3>3
    <3> QED
      BY <3>1, <3>2, <3>3
  <2>13. LatePassed'
    BY <1>u, <1>e, <2>6, <2>9 DEF IInv, LatePassed
  <2> QED
    BY <2>10, <2>11, <2>12, <2>13 DEF IInv
<1> QED
  BY <1>1, <1>2 DEF ListIncidents

-----------------------------------------------------------------------------
(* Ingestion *)

\* A row that appears is listed by a later page if the cursor is above it, and late otherwise.
LEMMA CommitStep == ASSUME IInv, NEW new \in Ids, CommitIncident(new) PROVE IInv'
<1>t. PagingTypeOK
  BY DEF IInv
<1>u. UNCHANGED <<listing, filter, cursor, page, earlier>> /\ incidents[new] = Null
  BY DEF CommitIncident
<1>1. /\ incidents' \in [Ids -> IncidentRow \cup {Null}]
      /\ incidents'[new] \in IncidentRow /\ incidents'[new] # Null
      /\ \A id \in Ids \ {new} : incidents'[id] = incidents[id]
  BY <1>t, PagingAssumption DEF CommitIncident, PagingTypeOK, IncidentRow
<1>2. Stored' = Stored \cup {new} /\ new \notin Stored /\ Stored \subseteq Ids
  BY <1>1, <1>u DEF Stored
<1>3. \A id \in Stored : incidents'[id] = incidents[id]
  BY <1>1, <1>2
<1>4. late' = IF Passed(new)' THEN late \cup {new} ELSE late
  BY DEF CommitIncident
<1>5. page \subseteq Stored /\ earlier \subseteq Stored /\ late \subseteq Stored
  BY <1>t DEF PagingTypeOK
<1>6. \A id \in Stored : /\ Passed(id)' <=> Passed(id)
                         /\ Matches(id, filter)' <=> Matches(id, filter)
                         /\ Below(id, cursor)' <=> Below(id, cursor)
  BY <1>3, <1>u DEF Passed, Matches, Below
<1>7. PagingTypeOK'
  <2>1. listing = "open" =>
          /\ cursor.incident_id \in Stored
          /\ EncodeCursor(cursor.incident_id)' = EncodeCursor(cursor.incident_id)
    BY <1>t, <1>3, <1>5, <1>u DEF PagingTypeOK, EncodeCursor
  <2> QED
    BY <1>t, <1>u, <1>1, <1>2, <1>4, <1>5, <1>6, <2>1 DEF PagingTypeOK
<1>8. PagesDescend'
  BY <1>3, <1>5, <1>u DEF IInv, PagesDescend, Newer
<1>9. ListingExact'
  <2> SUFFICES ASSUME NEW id \in Ids
               PROVE  (id \in page \cup earlier <=>
                         id \in Stored /\ Matches(id, filter) /\ Passed(id) /\ id \notin late)'
    BY DEF ListingExact
  <2>1. CASE id = new
    BY <1>2, <1>4, <1>5, <1>u, <2>1
  <2>2. CASE id # new
    <3>1. id \in Stored' <=> id \in Stored
      BY <1>2, <2>2
    <3>2. id \in late' <=> id \in late
      BY <1>4, <2>2
    <3> QED
      BY <1>5, <1>6, <1>u, <3>1, <3>2 DEF IInv, ListingExact
  <2> QED
    BY <2>1, <2>2
<1>10. LatePassed'
  BY <1>4, <1>5, <1>6 DEF IInv, LatePassed
<1> QED
  BY <1>7, <1>8, <1>9, <1>10 DEF IInv

LEMMA IInvStep == IInv /\ [Next]_vars => IInv'
<1> SUFFICES ASSUME IInv, [Next]_vars PROVE IInv'
  OBVIOUS
<1>1. CASE \E id \in Ids : CommitIncident(id)
  BY <1>1, CommitStep
<1>2. CASE FirstPage
  BY <1>2, ListStep DEF FirstPage, Follows
<1>3. CASE NextPage
  BY <1>3, ListStep DEF NextPage, Follows
<1>4. CASE UNCHANGED vars
  BY <1>4 DEF vars, IInv, PagingTypeOK, PagesDescend, ListingExact, LatePassed, Stored, Passed,
     Below, Newer, Matches, EncodeCursor
<1> QED
  BY <1>1, <1>2, <1>3, <1>4 DEF Next

LEMMA IInvInit == Init => IInv
BY PagingAssumption DEF Init, IInv, PagingTypeOK, PagesDescend, ListingExact, LatePassed, Stored,
   Passed

LEMMA PagingInductive == PagingSpec => []IInv
BY IInvInit, IInvStep, PTL DEF PagingSpec

\* Every variable has its type, and an open listing's cursor is the place of the last incident
\* shown, for any incidents, times and page sizes.
THEOREM PagingTypeCorrect == PagingSpec => []PagingTypeOK
<1>1. IInv => PagingTypeOK
  BY DEF IInv
<1> QED
  BY <1>1, PagingInductive, PTL

\* No two pages of a listing overlap, and they go down in time.
THEOREM PagesDoNotOverlap == PagingSpec => []PagesDescend
<1>1. IInv => PagesDescend
  BY DEF IInv
<1> QED
  BY <1>1, PagingInductive, PTL

\* A listing shows what it has passed, all of it but what was committed behind it.
THEOREM NothingSkipped == PagingSpec => []ListingExact
<1>1. IInv => ListingExact
  BY DEF IInv
<1> QED
  BY <1>1, PagingInductive, PTL
=============================================================================
