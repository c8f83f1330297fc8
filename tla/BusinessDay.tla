----------------------------- MODULE BusinessDay -----------------------------
(* Business-day arithmetic.  An instant is a whole number of minutes of UTC, *)
(* a date is its number of days since 1 January 1970, and dayStart is the    *)
(* minute of the Manila day at which a business begins its day.              *)
EXTENDS Integers

MANILA_OFFSET_MINUTES == 8 * 60
MinutesPerDay == 24 * 60
DayStarts == 0 .. MinutesPerDay - 1

businessDayStartUtc(date, dayStart) == date * MinutesPerDay + dayStart - MANILA_OFFSET_MINUTES

businessDayOf(instant, dayStart) ==
  (instant + (MANILA_OFFSET_MINUTES - dayStart)) \div MinutesPerDay

addDays(date, days) ==
  businessDayOf(businessDayStartUtc(date, 0) + days * MinutesPerDay, 0)

(* The dates a report zero-fills. *)
businessDaySeries(first, last) ==
  {businessDayOf(businessDayStartUtc(d, 0), 0) : d \in first .. last}

(* [fromUtc, toUtc) covering both endpoint days in full. *)
businessDayRangeUtc(first, last, dayStart) ==
  [fromUtc |-> businessDayStartUtc(first, dayStart),
   toUtc |-> businessDayStartUtc(last, dayStart) + MinutesPerDay]

previousPeriod(w) ==
  [fromUtc |-> w.fromUtc - (w.toUtc - w.fromUtc), toUtc |-> w.fromUtc]

(* dayBucketExpr: the same shift, done by Postgres. *)
dayBucket(instant, dayStart) ==
  (instant + (MANILA_OFFSET_MINUTES - dayStart)) \div MinutesPerDay

(* date_trunc on a date: weeks start on Monday, and day 0 was a Thursday. *)
weekBucket(date) == date - ((date + 3) % 7)
dayOfWeek(date) == (date + 4) % 7
hourOfDay(instant) == ((instant + MANILA_OFFSET_MINUTES) \div 60) % 24

InClosedWindow(instant, w) == \* mutant: the last instant included
  w.fromUtc <= instant /\ instant <= w.toUtc
InWindow(instant, w) == w.fromUtc <= instant /\ instant < w.toUtc
=============================================================================
