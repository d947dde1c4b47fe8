----------------------------- MODULE MCSidecar -----------------------------
(***************************************************************************)
(* Small instances of Sidecar for TLC.  Two zones: b1, b2 and b3 live in   *)
(* the first, c1 and c2 in the second, and lost maps to no zone.           *)
(***************************************************************************)
EXTENDS Sidecar

CONSTANTS b1, b2, b3, c1, c2, lost

MCZone == 1..2

MCZoneOf == [n \in Name |-> IF n = lost THEN NoZone
                            ELSE IF n \in {c1, c2} THEN 2 ELSE 1]

\* Refuse when more than three fifths of all records, or half of a zone's, are
\* gone and that is more than one record.
MCGuard == [enabled    |-> TRUE,
            globalDrop |-> [num |-> 3, den |-> 5], globalMin |-> 1,
            zoneDrop   |-> [num |-> 1, den |-> 2], zoneMin   |-> 1]

\* From the full set: one record less passes, {b1, c1, c2} and {c1, c2} trip the
\* zone rule only, {c1} the global one; lost is an answer without anything to
\* publish.
GuardContents == {{b1, b2, b3, c1, c2}, {b1, b2, c1, c2}, {b1, c1, c2},
                  {c1, c2}, {c1}, {lost}, {}}

\* A record's name moves from a zone to the other; an answer without anything
\* to publish; an empty answer.
MoveContents == {{b1}, {c1}, {lost}, {}}

TwoContents == {{b1, c1}, {b1}, {}}
=============================================================================
