--------------------------- MODULE MCHistoryStore ---------------------------
(* HistoryStore for TLC: calls that retry entry e1, or append e1 and e2. *)
EXTENDS HistoryStore, TLC

CONSTANTS c1, c2, c3, e1, e2, e3

MCEntryOf == [c \in Call |-> IF c = c3 THEN e2 ELSE e1]
MCDistinctEntryOf == [c \in Call |-> IF c = c1 THEN e1 ELSE e2]
MCOlder == <<e3>>
MCEarlier == <<e3, e2>>
=============================================================================
