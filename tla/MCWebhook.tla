----------------------------- MODULE MCWebhook -----------------------------
(***************************************************************************)
(* Small instances of Webhook for TLC: the names a and b map to a zone     *)
(* each, x to none.                                                        *)
(***************************************************************************)
EXTENDS Webhook

CONSTANTS a, b, x, za, zb

MCZoneOf == [n \in {a, b} |-> IF n = a THEN za ELSE zb]

\* Every kind of event follows from some pair of these: created, deleted,
\* renamed within the zones, out of them and into them, unpublished, and
\* without dns_name.
MCStates == {[status |-> "published", name |-> a], [status |-> "published", name |-> b],
             [status |-> "published", name |-> x], [status |-> "reserved", name |-> a],
             [status |-> "published", name |-> NoName], Gone}

MCInitial == {[status |-> "published", name |-> a]}
=============================================================================
