---------------------------- MODULE ShrinkGuard ----------------------------
(***************************************************************************)
(* internal/shrinkguard: may a candidate record set replace the published  *)
(* one?  The package is pure, so this module has operators and no state;   *)
(* Sidecar.tla calls them from the poll loop the way fetchNetbox does.     *)
(*                                                                         *)
(* A baseline counts records: in total and per zone.  A zone the code's    *)
(* map has no key for has the count 0 here; the code reads it as 0 too     *)
(* (now.Zones[zone]), or skips it because it has nothing to lose (trips).  *)
(***************************************************************************)
EXTENDS Integers

CONSTANTS
    Zone,   \* zone names, as numbers in the order sort.Strings gives them
    Guard   \* the policy: shrinkguard.Config

\* A drop fraction is a rational: float64(a)/float64(b) > num/den compares two
\* correctly rounded quotients, which keeps equal rationals equal.
Fraction == [num : Int, den : Nat \ {0}]

Config == [enabled : BOOLEAN,
           globalDrop : Fraction, globalMin : Int,
           zoneDrop   : Fraction, zoneMin   : Int]

ASSUME ZoneAssumption  == Zone \subseteq Nat \ {0}
ASSUME GuardAssumption == Guard \in Config

Baseline == [total : Nat, zones : [Zone -> Nat], onDisk : BOOLEAN]

-----------------------------------------------------------------------------
NoZone == 0

\* The zero Verdict: publish.
Pass == [refuse |-> FALSE, scope |-> "none", zone |-> NoZone]

Refusal(scope, zone) == [refuse |-> TRUE, scope |-> scope, zone |-> zone]

\* Faulty variant: the zones a restarted process found do not count.
EmptyResultCountsOnly(prev, nowTotal) ==
    IF nowTotal = 0 /\ prev.total > 0 THEN Refusal("empty", NoZone) ELSE Pass

\* EmptyResult: an empty result never replaces a published set, nor the zones a
\* restarted process found on its volume.
EmptyResult(prev, nowTotal) ==
    IF nowTotal = 0 /\ (prev.total > 0 \/ prev.onDisk)
    THEN Refusal("empty", NoZone)
    ELSE Pass

\* trips: a large enough share AND more than the floor, both strictly.
Trips(dropped, was, drop, minRecords) ==
    /\ drop.num > 0
    /\ dropped > 0 /\ was > 0
    /\ dropped > minRecords
    /\ dropped * drop.den > drop.num * was

Dropped(prev, now, z) == prev.zones[z] - now.zones[z]

GlobalTrips(prev, now) ==
    Trips(prev.total - now.total, prev.total, Guard.globalDrop, Guard.globalMin)

\* Faulty variant: a zone that lost every record is not looked at.
ZonesTrippingPresent(prev, now) ==
    {z \in Zone : /\ now.zones[z] > 0
                  /\ Trips(Dropped(prev, now, z), prev.zones[z],
                           Guard.zoneDrop, Guard.zoneMin)}

\* The zones whose own loss is out of bounds.
ZonesTripping(prev, now) ==
    {z \in Zone : Trips(Dropped(prev, now, z), prev.zones[z],
                        Guard.zoneDrop, Guard.zoneMin)}

\* The zone the refusal names: the largest loss, the first in sorted order
\* among equals.
WorstZone(prev, now) ==
    CHOOSE z \in ZonesTripping(prev, now) :
        \A y \in ZonesTripping(prev, now) \ {z} :
            \/ Dropped(prev, now, y) < Dropped(prev, now, z)
            \/ Dropped(prev, now, y) = Dropped(prev, now, z) /\ z < y

\* Evaluate: the rules in the order the code applies them.
Evaluate(prev, now) ==
    IF EmptyResult(prev, now.total).refuse THEN EmptyResult(prev, now.total)
    ELSE IF prev.total = 0 \/ ~Guard.enabled THEN Pass
    ELSE IF GlobalTrips(prev, now) THEN Refusal("global", NoZone)
    ELSE IF ZonesTripping(prev, now) # {}
         THEN Refusal("zone", WorstZone(prev, now))
    ELSE Pass
=============================================================================
