----------------------------- MODULE RepeatRule -----------------------------
(* The calendar of a repetition: the moment it fires next, across months of  *)
(* different lengths and a summer time that begins and ends. Moments count   *)
(* steps of half an hour in UTC; days count from the first of a month.       *)
EXTENDS Integers, Sequences

CONSTANTS
  MonthStart,    \* the days on which months begin
  DayLength,     \* half hours of a day
  Begins, Ends,  \* the moments summer time begins and ends
  Rules, Times,  \* the repetitions to look at
  FirstDay, LastDay,
  None

VARIABLES rule, at, after

Hour == 2

-----------------------------------------------------------------------------
\* The zone: its clocks show an hour more in summer.
Local(moment) == moment + (IF Begins <= moment /\ moment < Ends THEN Hour ELSE 0)
MomentsOf(naive) == {m \in {naive - Hour, naive} : Local(m) = naive}

Least(S) == CHOOSE x \in S : \A y \in S : x <= y

\* A time the clocks show twice is the first of both.
\* A time the clocks skip is an hour later.
LocalToUtc(naive) ==
  Least(IF MomentsOf(naive) # {} THEN MomentsOf(naive) ELSE MomentsOf(naive + Hour))

-----------------------------------------------------------------------------
\* The calendar. Day 0 is the first of the first month and of a week.
DateOf(day) ==
  LET m == CHOOSE m \in 1..(Len(MonthStart) - 1) : MonthStart[m] <= day /\ day < MonthStart[m + 1]
  IN  [day |-> day - MonthStart[m] + 1, of |-> MonthStart[m + 1] - MonthStart[m]]

Smaller(a, b) == IF a < b THEN a ELSE b

Validate(r) ==
  CASE r.kind = "EveryDays" -> r.every # 0
    [] r.kind = "Weekdays" -> r.days # {}
    [] r.kind = "DayOfMonth" -> r.day \in 1..31
    [] OTHER -> TRUE

Matches(r, day) ==
  CASE r.kind = "EveryDays" -> day >= r.from /\ (day - r.from) % r.every = 0
    [] r.kind = "Weekdays" -> day % 7 \in r.days
    [] r.kind = "DayOfMonth" -> LET d == DateOf(day) IN d.day = Smaller(r.day, d.of)
    [] r.kind = "FixedDate" -> day = r.date

\* How many days to look at, today among them: today may be over.
HorizonWithoutToday(r) ==
  CASE r.kind = "EveryDays" -> r.every
    [] r.kind = "Weekdays" -> 7
    [] r.kind = "DayOfMonth" -> 31
    [] r.kind = "FixedDate" -> 1
HorizonDays(r) ==
  CASE r.kind = "EveryDays" -> r.every + 1
    [] r.kind = "Weekdays" -> 8
    [] r.kind = "DayOfMonth" -> 32
    [] r.kind = "FixedDate" -> 1

\* Where the search begins: a fixed date, the first day of the count, today.
NextFireAfter(r, time, moment) ==
  LET local == Local(moment)
      today == local \div DayLength
      first == IF r.kind = "FixedDate" THEN r.date
               ELSE IF r.kind = "EveryDays" /\ r.from > today THEN r.from ELSE today
      fires == {d \in first..(first + HorizonDays(r) - 1) :
                  Matches(r, d) /\ d * DayLength + time > local}
  IN  IF (r.kind = "FixedDate" /\ r.date < today) \/ fires = {} THEN None
      ELSE LocalToUtc(Least(fires) * DayLength + time)

-----------------------------------------------------------------------------
RuleInit ==
  /\ rule \in {r \in Rules : Validate(r)}
  /\ at \in Times
  /\ after \in (FirstDay * DayLength)..(LastDay * DayLength)

\* fire_repeats: the repetition moves on.
MovesOn ==
  /\ after <= LastDay * DayLength
  /\ NextFireAfter(rule, at, after) # None
  /\ after' = NextFireAfter(rule, at, after)
  /\ UNCHANGED <<rule, at>>

-----------------------------------------------------------------------------
\* Every moment of the repetition, by its rule alone.
Firings == {LocalToUtc(d * DayLength + at) : d \in {d \in 0..(LastDay + 40) : Matches(rule, d)}}

\* The hour shown for the second time, and the one after an hour that is left
\* out: there the clock on the wall does not tell which moment is later.
Blurred(moment) == moment \in (Ends..(Ends + Hour - 1)) \cup (Begins..(Begins + Hour - 1))

\* repeat.rs: "The first firing strictly after `after`, in UTC. None when the
\* rule is exhausted". None is skipped and none comes twice, over months of
\* any length and the changes of the clocks, asked at any moment that is not
\* blurred.
NextIsNext ==
  ~Blurred(after) /\ after <= LastDay * DayLength =>
    LET later == {m \in Firings : m > after}
    IN  NextFireAfter(rule, at, after) = IF later = {} THEN None ELSE Least(later)
=============================================================================
