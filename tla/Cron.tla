-------------------------------- MODULE Cron --------------------------------
(***************************************************************************)
(* Cron expressions (cron/cron.go): parsing of the fields, and the scan of *)
(* Next for the first later instant that matches, in a zone whose offset   *)
(* may change once.  Every branch of the loop of Next is an action.        *)
(*                                                                         *)
(* An instant is a number of seconds; fractions are dropped, as Next does  *)
(* first.  The calendar is a parameter: units per unit, days per week, and *)
(* the months, which repeat after a cycle (of 400 years).  So are the      *)
(* zones; the time package is external.  Steps are taken to be far below   *)
(* 2^63.                                                                   *)
(***************************************************************************)
EXTENDS Integers, Sequences, FiniteSetsExt

CONSTANTS
  Minute, Hour, Day,  \* seconds in each
  Week,               \* days in a week
  MonthStart, Cycle,  \* the days a cycle's months begin with, and its length
  MonthLimit,         \* the range of the day of the month
  Year,               \* months in a year
  ScanYears,          \* maxScanYears
  Zones,              \* [before, after, at]: offsets, and when they change
  Texts,              \* expressions: a set of parts for each field
  Starts,             \* instants Next is called with
  Rounds              \* the argument of NextN

ASSUME CronAssumption ==
  /\ {Minute, Hour, Day, Week, Year, ScanYears, Rounds} \subseteq Nat \ {0}
  /\ Hour % Minute = 0 /\ Day % Hour = 0
  /\ Starts \subseteq Int
  /\ Zones \subseteq [before : Int, after : Int, at : Int]

Months == Len(MonthStart)  \* of a cycle

\* The months of a cycle follow one another, and none is too long.
ASSUME CalendarAssumption ==
  /\ Cycle \in Nat \ {0} /\ MonthLimit \in Nat \ {0}
  /\ MonthStart \in Seq(Nat) /\ Months > 0
  /\ MonthStart[1] = 0
  /\ \A i, j \in 1..Months : i < j => MonthStart[i] < MonthStart[j]
  /\ \A i \in 1..Months :
       LET end == IF i < Months THEN MonthStart[i + 1] ELSE Cycle
       IN MonthStart[i] < end /\ end <= MonthStart[i] + MonthLimit

VARIABLES
  text, zone,  \* what Parse and Next are given
  expr,        \* the result of Parse
  pc,          \* parse, refused, ready, scan, found or none
  after,       \* the argument of Next
  t, limit,    \* its local variables
  left         \* rounds NextN has still to make

vars == <<text, zone, expr, pc, after, t, limit, left>>

-----------------------------------------------------------------------------
\* The time package: the wall clock of an instant, and the instant of a wall
\* clock.  time.Date looks up the offset at the wall clock taken for UTC, and
\* again at the instant that gives.
Offset(u) == IF u < zone.at THEN zone.before ELSE zone.after

Wall(u) == u + Offset(u)

FromWall(w) == IF Offset(w) = 0 THEN w ELSE w - Offset(w - Offset(w))

Truncate(u, unit) == u - (u % unit)

SecondOf(u) == Wall(u) % Minute
MinuteOf(u) == (Wall(u) % Hour) \div Minute
HourOf(u) == (Wall(u) % Day) \div Hour
DayOf(u) == Wall(u) \div Day

\* The first day of month k, and the month of a day; month 1 begins on day 0.
FirstDay(k) == Cycle * ((k - 1) \div Months) + MonthStart[((k - 1) % Months) + 1]

MonthIn(d) ==
  CHOOSE i \in 1..Months : MonthStart[i] <= d /\ (i < Months => d < MonthStart[i + 1])

MonthAt(u) == Months * (DayOf(u) \div Cycle) + MonthIn(DayOf(u) % Cycle)

MonthOf(u) == ((MonthAt(u) - 1) % Year) + 1
DomOf(u) == DayOf(u) - FirstDay(MonthAt(u)) + 1
DowOf(u) == DayOf(u) % Week

\* AddDate of a number of months, with the time of day.
AddMonths(u, n) ==
  FromWall(Day * (FirstDay(MonthAt(u) + n) + DomOf(u) - 1) + (Wall(u) % Day))

\* Midnight of the day, and AddDate(0, 0, 1).
Midnight(u) == FromWall(Day * DayOf(u))
NextDay(u) == FromWall(Wall(u) + Day)

-----------------------------------------------------------------------------
\* parseField.  A part is *, a, a-b, each with a step.
Fields == {"sec", "min", "hour", "dom", "month", "dow"}

Part == [star : BOOLEAN, lo : Int, hi : Int, step : Int]

ASSUME TextAssumption == Texts \subseteq [Fields -> SUBSET Part]

Bounds ==
  [sec |-> 0..(Minute - 1), min |-> 0..((Hour \div Minute) - 1),
   hour |-> 0..((Day \div Hour) - 1), dom |-> 1..MonthLimit, month |-> 1..Year,
   dow |-> 0..(Week - 1)]

\* Mutation: b > max is not refused.
ValidPartNoMax(p, range) ==
  p.step > 0 /\ (p.star \/ (p.lo \in range /\ p.lo <= p.hi))

ValidPart(p, range) ==
  p.step > 0 /\ (p.star \/ (p.lo \in range /\ p.hi \in range /\ p.lo <= p.hi))

Values(p, range) ==
  LET lo == IF p.star THEN Min(range) ELSE p.lo
      hi == IF p.star THEN Max(range) ELSE p.hi
  IN {i \in lo..hi : (i - lo) % p.step = 0}

ParseField(parts, range) ==
  [set |-> UNION {Values(p, range) : p \in parts}, all |-> \E p \in parts : p.star]

NoField == [set |-> {}, all |-> FALSE]

NextInSet(f, v) == {i \in f.set : i >= v}

\* Mutation: the days of month and week are intersected.
DayMatchBoth(domAll, dowAll, domOK, dowOK) == domOK /\ dowOK

DayMatch(domAll, dowAll, domOK, dowOK) ==
  \/ domAll /\ dowAll
  \/ dowOK /\ ~dowAll
  \/ domOK /\ ~domAll

Init ==
  /\ text \in Texts
  /\ zone \in Zones
  /\ expr = [f \in Fields |-> NoField]
  /\ pc = "parse"
  /\ after \in Starts
  /\ t = after
  /\ limit = after
  /\ left = Rounds

Parse ==
  /\ pc = "parse"
  /\ IF \A f \in Fields : \A p \in text[f] : ValidPart(p, Bounds[f])
       THEN /\ expr' = [f \in Fields |-> ParseField(text[f], Bounds[f])]
            /\ pc' = "ready"
       ELSE pc' = "refused" /\ UNCHANGED expr
  /\ UNCHANGED <<text, zone, after, t, limit, left>>

-----------------------------------------------------------------------------
\* Next, from its first two lines to its two ways out.
NextCall ==
  /\ pc = "ready"
  /\ t' = after + 1
  /\ limit' = AddMonths(after + 1, ScanYears * Year)
  /\ pc' = "scan"
  /\ UNCHANGED <<text, zone, expr, after, left>>

Scanning == pc = "scan" /\ t < limit

ScanTo(u) == t' = u /\ UNCHANGED <<text, zone, expr, pc, after, limit, left>>

SecondOK == SecondOf(t) \in expr.sec.set
MinuteOK == MinuteOf(t) \in expr.min.set
HourOK == HourOf(t) \in expr.hour.set
DayOK == DayMatch(expr.dom.all, expr.dow.all,
                  DomOf(t) \in expr.dom.set, DowOf(t) \in expr.dow.set)
MonthOK == MonthOf(t) \in expr.month.set

SecondStep ==
  /\ Scanning
  /\ ~SecondOK
  /\ LET later == NextInSet(expr.sec, SecondOf(t))
     IN ScanTo(IF later # {} THEN t + Min(later) - SecondOf(t)
                             ELSE Truncate(t, Minute) + Minute)

MinuteStep ==
  /\ Scanning
  /\ SecondOK
  /\ ~MinuteOK
  /\ LET later == NextInSet(expr.min, MinuteOf(t))
     IN ScanTo(IF later # {}
                 THEN Truncate(t, Minute) + Minute * (Min(later) - MinuteOf(t))
                 ELSE Truncate(t, Hour) + Hour)

\* time.Date of the hour h of the day of t.
AtHour(h) == FromWall(Day * DayOf(t) + Hour * h)

\* Mutation: an hour that the clock skips is not passed over.
HourStepIntoGap ==
  /\ Scanning
  /\ SecondOK /\ MinuteOK
  /\ ~HourOK
  /\ LET later == NextInSet(expr.hour, HourOf(t) + 1)
     IN ScanTo(IF later # {} THEN AtHour(Min(later)) ELSE NextDay(Midnight(t)))

HourStep ==
  /\ Scanning
  /\ SecondOK /\ MinuteOK
  /\ ~HourOK
  /\ LET later == {h \in NextInSet(expr.hour, HourOf(t) + 1) : HourOf(AtHour(h)) = h}
     IN ScanTo(IF later # {} THEN AtHour(Min(later)) ELSE NextDay(Midnight(t)))

DayStep ==
  /\ Scanning
  /\ SecondOK /\ MinuteOK /\ HourOK
  /\ ~DayOK
  /\ ScanTo(NextDay(Midnight(t)))

MonthStep ==
  /\ Scanning
  /\ SecondOK /\ MinuteOK /\ HourOK /\ DayOK
  /\ ~MonthOK
  /\ ScanTo(FromWall(Day * FirstDay(MonthAt(t) + 1)))

Found ==
  /\ Scanning
  /\ SecondOK /\ MinuteOK /\ HourOK /\ DayOK /\ MonthOK
  /\ pc' = "found"
  /\ UNCHANGED <<text, zone, expr, after, t, limit, left>>

Exhausted ==
  /\ pc = "scan"
  /\ t >= limit
  /\ pc' = "none"
  /\ UNCHANGED <<text, zone, expr, after, t, limit, left>>

\* NextN, and the loop of a cron entry: the next round starts from the result.
NextRound ==
  /\ pc = "found"
  /\ left > 1
  /\ left' = left - 1
  /\ after' = t
  /\ pc' = "ready"
  /\ UNCHANGED <<text, zone, expr, t, limit>>

Next ==
  \/ Parse \/ NextCall \/ NextRound
  \/ SecondStep \/ MinuteStep \/ HourStep \/ DayStep \/ MonthStep
  \/ Found \/ Exhausted

\* The code is one sequential call: it takes every step that it can.
Spec == Init /\ [][Next]_vars /\ WF_vars(Next)

-----------------------------------------------------------------------------
\* Every variable has its type.  A field holds values of its own range only,
\* as they index the 60 places of field.set and are compared with a clock.
TypeOK ==
  /\ text \in Texts /\ zone \in Zones
  /\ pc \in {"parse", "refused", "ready", "scan", "found", "none"}
  /\ DOMAIN expr = Fields
  /\ \A f \in Fields : expr[f].set \subseteq Bounds[f] /\ expr[f].all \in BOOLEAN
  /\ after \in Int /\ t \in Int /\ limit \in Int
  /\ left \in 1..Rounds

\* What an expression means, read off its text: every field holds, and of the
\* two day fields, if both are restricted, at least one.
Written(f) == UNION {Values(p, Bounds[f]) : p \in text[f]}
Restricted(f) == \A p \in text[f] : ~(p.star /\ p.step = 1)

Matches(u) ==
  /\ SecondOf(u) \in Written("sec")
  /\ MinuteOf(u) \in Written("min")
  /\ HourOf(u) \in Written("hour")
  /\ MonthOf(u) \in Written("month")
  /\ IF Restricted("dom") /\ Restricted("dow")
       THEN DomOf(u) \in Written("dom") \/ DowOf(u) \in Written("dow")
       ELSE DomOf(u) \in Written("dom") /\ DowOf(u) \in Written("dow")

\* The scan jumps over minutes, hours, days and months, but never over an
\* instant that matches: what it returns is the first later one that does
\* (TestNext, TestNextStrict), and it gives up only when there is none up to
\* the limit (TestNextNoSolution).
NextExact ==
  /\ pc \in {"found", "none"} =>
       \A u \in (after + 1)..(t - 1) : u < limit => ~Matches(u)
  /\ pc = "found" => after < t /\ Matches(t)
  /\ pc = "none" => t >= limit

\* docs/api.md:267: Next looks up to the limit, and returns an error when there
\* is nothing.  It returns, then, in every zone.
NextReturns == (pc = "ready") ~> (pc \in {"found", "none"})
=============================================================================
