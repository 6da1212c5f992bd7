----------------------------- MODULE MCBundles -----------------------------
(* Bundles that meet in every way: the same identities with another text, the same       *)
(* correlation, the same ticket, and the same events in opposite orders.                 *)
CONSTANTS k1, k2, c1, c2, t1, t2, e1, e2, p, q, none

B(correlation, ticket, events, text) ==
  [correlation_id |-> correlation, ticket_id |-> ticket, event_ids |-> events, text |-> text]

First == B(c1, t1, <<e1, e2>>, p)
Altered == B(c1, t1, <<e1, e2>>, q)
Crossed == B(c2, t2, <<e2, e1>>, p)
SameTicket == B(c2, t1, <<e2>>, p)

AllBundles == {First, Altered, Crossed, SameTicket}
=============================================================================
