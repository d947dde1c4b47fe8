--------------------------- MODULE OverlayPromise --------------------------
(***************************************************************************)
(* What the dynamic record store promises its writers and the zone files,  *)
(* whatever locks, requests, polls under way and signals it takes: every   *)
(* write is one atomic change of one name, a poll drops only what it has   *)
(* seen itself, a restart brings back what was kept, and what is published *)
(* is the last poll under the records, each zone's as they were at one     *)
(* moment since the publication began.  The zones' moments differ: a name  *)
(* that moves to another zone meanwhile may be published twice, or not.    *)
(***************************************************************************)
EXTENDS Integers

CONSTANTS
    Name, Object,   \* as in Webhook
    RoutedName, Zone, ZoneOf,
    Clock,          \* the moments a change or a read of NetBox may have
    KeepMayFail     \* keeping the records for a restart may fail

VARIABLES
    overlay,    \* name -> the record that shadows NetBox's
    kept,       \* what a restart brings back
    seen,       \* name -> the objects the last poll found
    asof,       \* the moment it found them
    known,      \* there was a poll since the last restart
    unread,     \* the zones a publication has still to look at
    view,       \* name -> the record it has found
    published   \* name -> what it resolves to

overlayVars == <<overlay, kept, seen, asof, known, unread, view, published>>

-----------------------------------------------------------------------------
None       == [source |-> "none"]
Pinned     == [source |-> "manual"]
News(o, t) == [source |-> "webhook", object |-> o, at |-> t]

IsNews(rec) == rec.source = "webhook"

\* What a name with this record is to resolve to.
Meaning(n, rec) ==
    IF rec = None THEN seen[n]
    ELSE IF rec = Pinned THEN {"manual"} ELSE {rec.object}

InZone(n, z) == n \in RoutedName /\ ZoneOf[n] = z

\* What remains of the overlay after a poll that began at c.
Since(c) == [n \in Name |-> IF IsNews(overlay[n]) /\ overlay[n].at <= c
                            THEN None ELSE overlay[n]]

Store(new) ==
    /\ overlay' = new
    /\ kept' = new \/ (KeepMayFail /\ kept' = kept)

NothingRead == unread = Zone /\ view = [n \in Name |-> None]

-----------------------------------------------------------------------------
Init ==
    /\ overlay = [n \in Name |-> None] /\ kept = overlay
    /\ seen \in [Name -> SUBSET Object] /\ asof = 0 /\ known = TRUE
    /\ NothingRead
    /\ published = seen

\* NetBox's news of a name, never in the place of later news.  They may replace
\* a pin that was set while they were being applied.
Apply(n, o, t) ==
    /\ IsNews(overlay[n]) => overlay[n].at < t
    /\ Store([overlay EXCEPT ![n] = News(o, t)])
    /\ UNCHANGED <<seen, asof, known, unread, view, published>>

Withdraw(n) ==
    /\ Store([overlay EXCEPT ![n] = None])
    /\ UNCHANGED <<seen, asof, known, unread, view, published>>

Pin(n) ==
    /\ Store([overlay EXCEPT ![n] = Pinned])
    /\ UNCHANGED <<seen, asof, known, unread, view, published>>

\* A poll begins after the one before has read and reads after it began.  News
\* of any later moment than its beginning outlive it.  No poll comes while a
\* publication is being made.
Poll ==
    /\ NothingRead
    /\ seen' \in [Name -> SUBSET Object] /\ asof' \in Clock /\ known' = TRUE
    /\ \E c \in Clock :
         /\ asof <= c /\ c <= asof'
         /\ \/ Since(c) = overlay /\ UNCHANGED <<overlay, kept>>
            \/ Since(c) # overlay /\ Store(Since(c))
    /\ UNCHANGED <<unread, view, published>>

\* A publication looks at one zone at a time.
Look(z) ==
    /\ known /\ z \in unread
    /\ unread' = unread \ {z}
    /\ view' = [n \in Name |-> IF InZone(n, z) THEN overlay[n] ELSE view[n]]
    /\ UNCHANGED <<overlay, kept, seen, asof, known, published>>

Publish ==
    /\ known /\ unread = {}
    /\ published' = [n \in Name |-> Meaning(n, view[n])]
    /\ NothingRead'
    /\ UNCHANGED <<overlay, kept, seen, asof, known>>

\* A publication may be cut short, and none is made before the next poll.
Restart ==
    /\ overlay' = kept
    /\ seen' = [n \in Name |-> {}] /\ asof' = 0 /\ known' = FALSE
    /\ NothingRead'
    /\ UNCHANGED <<kept, published>>

Next ==
    \/ \E n \in Name : \/ Withdraw(n) \/ Pin(n)
                       \/ \E o \in Object, t \in Clock : Apply(n, o, t)
    \/ Poll \/ (\E z \in Zone : Look(z)) \/ Publish \/ Restart

Spec == Init /\ [][Next]_overlayVars
=============================================================================
