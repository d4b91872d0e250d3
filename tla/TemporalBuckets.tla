--------------------------- MODULE TemporalBuckets ---------------------------
(***************************************************************************)
(* Fixed and calendar buckets: packages/timeseries/.../buckets.py.         *)
(*                                                                         *)
(* Time is counted in ticks from an instant 0.  The calendar is a small    *)
(* one of the same shape as the real one: DayLen ticks in a day, seven     *)
(* days in a week, months of unequal lengths (MonthDays, repeated), and a  *)
(* time zone whose distance from UTC changes once, as at the beginning or  *)
(* the end of summer time.                                                 *)
(***************************************************************************)
EXTENDS Integers, Sequences, FiniteSetsExt

CONSTANTS
  DayLen,       \* ticks in a day
  MonthDays,    \* the lengths of the months in days, repeated for ever
  Months,       \* the months of the model are 0 .. Months
  Zone,         \* [at, before, after]: the zone's distance from UTC changes at "at"
  Micro         \* ticks in a microsecond: a datetime keeps no finer digit

ASSUME CalendarAssumption ==
  /\ DayLen \in Nat \ {0} /\ Micro \in Nat \ {0} /\ Months \in Nat
  /\ MonthDays \in Seq(Nat \ {0}) /\ Len(MonthDays) > 0
  /\ Zone \in [at : Int, before : Int, after : Int]

-----------------------------------------------------------------------------
(* Wall clocks and dates *)

\* astimezone: what the clock on the wall shows at an instant
Local(t) == t + (IF t < Zone.at THEN Zone.before ELSE Zone.after)

\* replace(tzinfo=zone).astimezone(UTC) with fold 0: an hour shown twice is
\* its first showing, an hour skipped is read with the distance before the gap
Utc(l) ==
  IF l < Zone.at + Max({Zone.before, Zone.after}) THEN l - Zone.before ELSE l - Zone.after

\* _datetime_from_ns: a datetime drops what is below a microsecond
Datetime(t) == (t \div Micro) * Micro

DaysIn(m) == MonthDays[(m % Len(MonthDays)) + 1]

\* the day a month begins on
FirstDay[m \in 0 .. Months] == IF m = 0 THEN 0 ELSE FirstDay[m - 1] + DaysIn(m - 1)

MonthOf(l) ==
  CHOOSE m \in 0 .. Months - 1 :
    FirstDay[m] <= l \div DayLen /\ l \div DayLen < FirstDay[m + 1]

\* _add_months: the same day of another month, or its last one
AddMonths(l, n) ==
  LET m   == MonthOf(l)
      day == (l \div DayLen) - FirstDay[m]
  IN  (FirstDay[m + n] + Min({day, DaysIn(m + n) - 1})) * DayLen + (l % DayLen)

-----------------------------------------------------------------------------
(* Buckets.  A bucket is [kind |-> "fixed", width, origin, offset] or      *)
(* [kind |-> unit, count, weekStart, origin, offset].                      *)

\* fixed_bucket_start
FixedStart(t, b) ==
  LET anchor == b.origin + b.offset
  IN  anchor + ((t - anchor) \div b.width) * b.width

MonthsPerUnit == [month |-> 1, quarter |-> 3, year |-> 12]

\* the days since the beginning of the week
WeekDay(day, b) == ((day % 7) + 1 - b.weekStart) % 7

WeekBoundary(l, o, b) ==
  LET week  == (l \div DayLen) - WeekDay(l \div DayLen, b)
      first == (o \div DayLen) - WeekDay(o \div DayLen, b)
      weeks == (week - first) \div 7
  IN  (first + 7 * ((weeks \div b.count) * b.count)) * DayLen + (o % DayLen)

MonthBoundary(l, o, b) ==
  LET width  == b.count * MonthsPerUnit[b.kind]
      months == MonthOf(l) - MonthOf(o)
      begun  == IF l < AddMonths(o, months) THEN months - 1 ELSE months
  IN  AddMonths(o, (begun \div width) * width)

\* _calendar_boundary, on wall clocks
Boundary(l, o, b) ==
  CASE b.kind = "day"  -> o + DayLen * ((((l - o) \div DayLen) \div b.count) * b.count)
    [] b.kind = "week" -> WeekBoundary(l, o, b)
    [] OTHER           -> MonthBoundary(l, o, b)

\* calendar_bucket_start
CalendarStart(t, b) ==
  Utc(Boundary(Local(Datetime(t - b.offset)), Local(Datetime(b.origin - b.offset)), b)) + b.offset

\* calendar_bucket_next: one step on the wall, then back to the bucket it falls in
CalendarNext(label, b) ==
  LET l == Local(Datetime(label - b.offset))
      advanced == CASE b.kind = "day"  -> l + DayLen * b.count
                    [] b.kind = "week" -> l + 7 * DayLen * b.count
                    [] OTHER           -> AddMonths(l, b.count * MonthsPerUnit[b.kind])
  IN  CalendarStart(Utc(advanced) + b.offset, b)

BucketOf(t, b) == IF b.kind = "fixed" THEN FixedStart(t, b) ELSE CalendarStart(t, b)

NextBucket(label, b) == IF b.kind = "fixed" THEN label + b.width ELSE CalendarNext(label, b)

-----------------------------------------------------------------------------
(* The buckets of a range *)

\* _bucket_domain follows the chain of buckets from the one of start while they
\* begin before end; a chain that stops advancing is an error.
Chain(start, end, b) ==
  LET link[i \in 0 .. end - start + 1] ==
        IF i = 0 THEN BucketOf(start, b)
        ELSE LET label == link[i - 1]
             IN  IF label >= end THEN label ELSE NextBucket(label, b)
  IN  link

ChainStops(start, end, b) ==
  LET link == Chain(start, end, b)
  IN  \E i \in 0 .. end - start : link[i] < end /\ link[i + 1] <= link[i]

BucketDomain(start, end, b) ==
  LET link == Chain(start, end, b)
  IN  {link[i] : i \in {j \in 0 .. end - start + 1 : link[j] < end}}
=============================================================================
