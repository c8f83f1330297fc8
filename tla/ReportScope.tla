---------------------------- MODULE ReportScope ----------------------------
(* The scope of a report: the businesses and branches a query reaches, and   *)
(* each business's own window on the server's clock.  The businesses of one  *)
(* owner begin their day at different hours.                                 *)
EXTENDS CartTotals, BusinessDay

CONSTANTS
  Businesses, Branches, Demo,   \* of one owner; Demo is the training business
  BusinessOf,                   \* the business of each branch
  DayStart,                     \* of each business
  Instants                      \* the minutes at which something happens

(* A branch belongs to a business, a day starts at a minute of the day (the    *)
(* entities' foreign key and the DTO's bound), null is nobody's id, and there  *)
(* are as many branches, and as many instants, as there are.                  *)
ASSUME ScopeAssumption ==
  /\ Null \notin Businesses \cup Branches
  /\ IsFiniteSet(Branches) /\ BusinessOf \in [Branches -> Businesses]
  /\ DayStart \in [Businesses -> DayStarts]
  /\ IsFiniteSet(Instants) /\ Instants \subseteq Int /\ Instants # {}

MAX_RANGE_DAYS == 366

VARIABLE now   \* the server's clock

StartOfClock == now = Min(Instants)
ClockTicks == /\ \E t \in Instants : t > now
              /\ now' = Min({t \in Instants : t > now})

chosen(q) == IF q.business = Null THEN Businesses \ Demo ELSE {q.business}
branchesIn(q, b) == {br \in Branches : BusinessOf[br] = b /\ q.branch \in {Null, br}}

refused(q) == \/ q.branch # Null /\ q.business = Null
              \/ q.to < q.from
              \/ q.to - q.from + 1 > MAX_RANGE_DAYS
              \/ chosen(q) = {}
              \/ q.branch # Null /\ \A b \in chosen(q) : branchesIn(q, b) = {}

resolve(q) ==
  {LET w == businessDayRangeUtc(q.from, q.to, DayStart[b])
   IN [id |-> b, branchIds |-> branchesIn(q, b), window |-> w, previous |-> previousPeriod(w)]
     : b \in {c \in chosen(q) : branchesIn(q, c) # {}}}

dayWindow(date, dayStart) ==
  [fromUtc |-> businessDayStartUtc(date, dayStart),
   toUtc |-> businessDayStartUtc(addDays(date, 1), dayStart)]

resolveOneToday == \* mutant: one calendar today for every business
  LET all == [business |-> Null, branch |-> Null]
      today == businessDayOf(now, 0)
  IN {[id |-> b, branchIds |-> branchesIn(all, b), window |-> dayWindow(today, DayStart[b]),
       previous |-> dayWindow(addDays(today, -7), DayStart[b])]
        : b \in {c \in chosen(all) : branchesIn(all, c) # {}}}

(* Every business on its own today, against the same day a week earlier. *)
resolveToday ==
  LET all == [business |-> Null, branch |-> Null]
  IN {LET today == businessDayOf(now, DayStart[b])
      IN [id |-> b, branchIds |-> branchesIn(all, b), window |-> dayWindow(today, DayStart[b]),
          previous |-> dayWindow(addDays(today, -7), DayStart[b])]
        : b \in {c \in chosen(all) : branchesIn(all, c) # {}}}
=============================================================================
