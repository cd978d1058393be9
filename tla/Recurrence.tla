----------------------------- MODULE Recurrence -----------------------------
(***************************************************************************)
(* Recurrence of one event (recurrence.go): the rules understood, the date *)
(* a series moves on to, and the rule as Discord is sent it and as it is   *)
(* read back.  Discord reads a rule's days in UTC and this store in the    *)
(* event's own zone, so a rule is moved between the two.                   *)
(*                                                                         *)
(* A date is a day number (0 is 1 January 1970) in the proleptic Gregorian *)
(* calendar; the wall-clock time is kept by every step and is left out.    *)
(* `ahead` is how many days the start's date in its zone is ahead of its   *)
(* date in UTC.  The present is the last date whose occurrence has begun.  *)
(***************************************************************************)
EXTENDS Integers, FiniteSets

CONSTANTS
  Starts,       \* the dates an event may be given
  Missed,       \* how many days after an occurrence the sweep gets to it
  MaxSteps      \* bound: edits, pushes and rollovers

VARIABLES
  series,   \* the event's rule, its start, and the zone's day difference there
  native,   \* the rule Discord's event carries
  origin,   \* "local", or "discord" until the series was edited or moved on
  steps

vars == <<series, native, origin, steps>>

Words   == {"never", "daily", "weekdays", "weekly", "every 2 weeks", "monthly", "yearly"}
Shifts   == {-1, 0, 1}   \* zoneDaysAheadOfUTC, less the same of UTC
Weekdays == 0..6   \* Monday = 0, as Discord counts
NoRule  == [freq |-> "none", interval |-> 1, days |-> {}, nth |-> 0, month |-> 0, monthDay |-> 0]

-----------------------------------------------------------------------------
\* The calendar, as the time package reckons it: a year is counted from its
\* March, so that a leap day is its last.

Epoch          == 719468   \* days from the first of March of year 0 to 1970
FirstOfYear(y) == 365 * y + y \div 4 - y \div 100 + y \div 400
FirstOfMonth(k) == (153 * k + 2) \div 5   \* of the month k after March
YearOf(z) ==
  LET doe == z % 146097
  IN  400 * (z \div 146097)
        + (doe - doe \div 1460 + doe \div 36524 - doe \div 146096) \div 365
MonthOf(doy)   == (5 * doy + 2) \div 153

DayNumber(y, m, d) ==
  FirstOfYear(IF m <= 2 THEN y - 1 ELSE y) + FirstOfMonth((m + 9) % 12) + d - 1 - Epoch

DateOf(n) ==
  LET z   == n + Epoch
      y   == YearOf(z)
      doy == z - FirstOfYear(y)
      k   == MonthOf(doy)
  IN  [year |-> y + k \div 10, month |-> ((k + 2) % 12) + 1, day |-> doy - FirstOfMonth(k) + 1]

DiscordWeekday(n) == (n + 3) % 7
NthOfMonth(n)     == (DateOf(n).day - 1) \div 7 + 1
TheDay(days)      == CHOOSE d \in days : TRUE
Least(S)          == CHOOSE n \in S : \A o \in S : n <= o

-----------------------------------------------------------------------------
\* The rules understood.

DailyKnownSets == {0..4, 1..5, 0..3 \cup {6}, {4, 5}, {5, 6}, {0, 6}}

\* parseRRule's verdict on a rule of its grammar.
ParseRRule(r) ==
  \/ /\ r.freq = "daily" /\ r.interval = 1 /\ r.nth = 0 /\ r.month = 0 /\ r.monthDay = 0
     /\ r.days \in DailyKnownSets \cup {{}}
  \/ /\ r.freq = "weekly" /\ r.interval \in 1..2 /\ r.nth = 0 /\ r.month = 0 /\ r.monthDay = 0
     /\ Cardinality(r.days) <= 1
  \/ /\ r.freq = "monthly" /\ r.interval = 1 /\ r.month = 0 /\ r.monthDay = 0
     /\ r.nth \in 0..5 /\ Cardinality(r.days) <= 1 /\ (r.days = {} => r.nth = 0)
  \/ /\ r.freq = "yearly" /\ r.interval = 1 /\ r.days = {} /\ r.nth = 0
     /\ \/ r.month = 0 /\ r.monthDay = 0
        \/ r.month \in 1..12 /\ r.monthDay \in 1..31

DailyRule(days)      == [NoRule EXCEPT !.freq = "daily", !.days = days]
WeeklyRule(i, days)  == [NoRule EXCEPT !.freq = "weekly", !.interval = i, !.days = days]
MonthlyRule(n, day)  == [NoRule EXCEPT !.freq = "monthly", !.nth = n, !.days = {day}]
YearlyRule(m, d)     == [NoRule EXCEPT !.freq = "yearly", !.month = m, !.monthDay = d]

\* repeatWordToRRule: the days come from the start.
RepeatWordToRRule(word, start) ==
  LET today == DiscordWeekday(start) IN
  CASE word = "never"         -> NoRule
    [] word = "daily"         -> DailyRule({})
    [] word = "weekdays"      -> DailyRule(0..4)
    [] word = "weekly"        -> WeeklyRule(1, {today})
    [] word = "every 2 weeks" -> WeeklyRule(2, {today})
    [] word = "monthly"       -> MonthlyRule(NthOfMonth(start), today)
    [] word = "yearly"        -> YearlyRule(DateOf(start).month, DateOf(start).day)

-----------------------------------------------------------------------------
\* nextOccurrence: the first date after `after`, counting from `start`; the
\* set is empty when the rule cannot be expanded or the tries run out.

RuleDay(r, start) == IF r.days = {} THEN DiscordWeekday(start) ELSE TheDay(r.days)
RuleNth(r, start) == IF r.nth = 0 THEN NthOfMonth(start) ELSE r.nth

\* Fourteen days past both the start and `after`.
NextDaily(r, start, after) ==
  LET from == IF start > after THEN start ELSE after
  IN  {c \in from + 1 .. from + 14 : r.days = {} \/ DiscordWeekday(c) \in r.days}

\* From the rule's day in the start's own week, a step at a time.
\* Mutant of NextWeekly: the days of the week of `after`, whatever the step.
NextWeeklyAnyWeek(r, start, after) ==
  {c \in after + 1 .. after + 7 : DiscordWeekday(c) = RuleDay(r, start)}
NextWeekly(r, start, after) ==
  LET first == start - (DiscordWeekday(start) - RuleDay(r, start))
      step  == 7 * r.interval
  IN  IF first > after THEN {first} ELSE {first + step * ((after - first) \div step + 1)}

\* nthWeekdayOfMonth, of the month k months from the start's: none when the
\* month has no such day.
NthWeekdayOfMonth(k, start, nth, day) ==
  LET month == DateOf(start).month + k - 1
      first == DayNumber(DateOf(start).year + month \div 12, (month % 12) + 1, 1)
      c     == first + ((day - DiscordWeekday(first)) % 7) + 7 * (nth - 1)
  IN  {n \in {c} : DateOf(n).month = (month % 12) + 1}

NextMonthly(r, start, after) ==
  {c \in UNION {NthWeekdayOfMonth(k, start, RuleNth(r, start), RuleDay(r, start)) : k \in 0..59} : c > after}

\* Eight years; a 29 February only in a leap year.
NextYearly(r, start, after) ==
  LET month == IF r.month = 0 THEN DateOf(start).month ELSE r.month
      day   == IF r.month = 0 THEN DateOf(start).day ELSE r.monthDay
      at(k) == DayNumber(DateOf(start).year + k, month, day)
  IN  {c \in {at(k) : k \in 0..7} : DateOf(c).month = month /\ c > after}

NextOccurrence(r, start, after) ==
  LET found == IF ~ParseRRule(r) THEN {}
               ELSE CASE r.freq = "daily"   -> NextDaily(r, start, after)
                      [] r.freq = "weekly"  -> NextWeekly(r, start, after)
                      [] r.freq = "monthly" -> NextMonthly(r, start, after)
                      [] r.freq = "yearly"  -> NextYearly(r, start, after)
  IN  IF found = {} THEN {} ELSE {Least(found)}

\* The rule with the days the start stands for filled in, as it is sent.
Filled(r, start) ==
  CASE r.freq = "weekly"  -> [r EXCEPT !.days = {RuleDay(r, start)}]
    [] r.freq = "monthly" -> [r EXCEPT !.days = {RuleDay(r, start)}, !.nth = RuleNth(r, start)]
    [] r.freq = "yearly" /\ r.month = 0 -> [r EXCEPT !.month = DateOf(start).month, !.monthDay = DateOf(start).day]
    [] OTHER -> r

\* What a rule says of a date, counting from the start.
Fires(r, start, n) ==
  CASE r.freq = "daily"   -> r.days = {} \/ DiscordWeekday(n) \in r.days
    [] r.freq = "weekly"  -> /\ DiscordWeekday(n) = RuleDay(r, start)
                             /\ ((n + 3) \div 7 - (start + 3) \div 7) % r.interval = 0
    [] r.freq = "monthly" -> DiscordWeekday(n) = RuleDay(r, start) /\ NthOfMonth(n) = RuleNth(r, start)
    [] r.freq = "yearly"  -> LET named == Filled(r, start) IN
                             DateOf(n).month = named.month /\ DateOf(n).day = named.monthDay
    [] OTHER -> FALSE

-----------------------------------------------------------------------------
\* A rule between the event's zone and UTC.

\* moveRuleDays: weekdays shift by the difference in date; a week of the
\* month, or a date of the year, that is the start's own is taken whole.
MoveRuleDays(r, from, to) ==
  LET ownWeek == r.nth = NthOfMonth(from) /\ r.days = {DiscordWeekday(from)}
      ownDate == r.month = DateOf(from).month /\ r.monthDay = DateOf(from).day
  IN  [r EXCEPT !.days = {(d + to - from) % 7 : d \in r.days},
                !.nth = IF ownWeek THEN NthOfMonth(to) ELSE @,
                !.month = IF ownDate THEN DateOf(to).month ELSE @,
                !.monthDay = IF ownDate THEN DateOf(to).day ELSE @]

UTC(s) == s.start - s.ahead

\* discordRecurrenceRule: what an edit sends, "never" being null.
DiscordRecurrenceRule(s) == MoveRuleDays(Filled(s.rule, s.start), s.start, UTC(s))

\* rruleInZoneFromDiscord: what an import reads.
RRuleInZoneFromDiscord(r, start, ahead) == MoveRuleDays(r, start - ahead, start)

\* What Discord takes (its business rules, recurrence.go:20-28).
DiscordTakes(r) == r = NoRule \/ ParseRRule(r)

-----------------------------------------------------------------------------
\* The rules somebody types or a client sends, and those Discord's form makes.
Typed ==
  {DailyRule(D) : D \in DailyKnownSets \cup {{}, {0, 2}}}
    \cup {WeeklyRule(i, D) : i \in 1..3, D \in {{}, {0, 1}} \cup {{d} : d \in Weekdays}}
    \cup {MonthlyRule(n, d) : n \in 0..5, d \in Weekdays}
    \cup {YearlyRule(d[1], d[2]) : d \in {<<0, 0>>, <<1, 1>>, <<2, 29>>, <<10, 31>>, <<12, 31>>}}
Made ==
  {r \in Typed : /\ ParseRRule(r) /\ (r.freq = "weekly" => r.days # {})
                 /\ (r.freq = "monthly" => r.nth # 0) /\ (r.freq = "yearly" => r.month # 0)}

Init ==
  /\ series \in [rule : {NoRule}, start : Starts, ahead : Shifts]
  /\ native = NoRule /\ origin = "local" /\ steps = 0

Step == steps < MaxSteps /\ steps' = steps + 1

\* An event made in Discord's own form, on one of its dates, is imported;
\* a rule validateRecurrence refuses keeps it out.
ImportSeries(r) ==
  /\ steps = 0 /\ Step
  /\ Fires(r, UTC(series), UTC(series))
  /\ LET read == RRuleInZoneFromDiscord(r, series.start, series.ahead) IN
     /\ ParseRRule(read) /\ series' = [series EXCEPT !.rule = read]
  /\ native' = r /\ origin' = "discord"

\* The Repeat form, or a rule sent by a client and validated.
EditRule(r) ==
  /\ Step /\ series' = [series EXCEPT !.rule = r] /\ origin' = "local"
  /\ UNCHANGED native
ApplyRepeatForm(word) == EditRule(RepeatWordToRRule(word, series.start))
ValidateRecurrence(r) == ParseRRule(r) /\ EditRule(r)

\* The start is moved; the rule stays.
MoveStart(start, ahead) ==
  /\ Step /\ series' = [series EXCEPT !.start = start, !.ahead = ahead] /\ origin' = "local"
  /\ UNCHANGED native

\* Every push of the event carries its rule; Discord refuses the whole edit
\* when it does not take the rule.
PushRule ==
  /\ Step
  /\ native' = IF DiscordTakes(DiscordRecurrenceRule(series)) THEN DiscordRecurrenceRule(series) ELSE native
  /\ UNCHANGED <<series, origin>>

\* The sweep moves the series on (nextOccurrenceOf), some days late.
NextOccurrenceOf(late) ==
  /\ Step /\ series.rule # NoRule
  /\ \E next \in NextOccurrence(series.rule, series.start, series.start + late) :
       series' = [series EXCEPT !.start = next]
  /\ origin' = "local" /\ UNCHANGED native

Edit ==
  \/ \E word \in Words : ApplyRepeatForm(word)
  \/ \E r \in Typed : ValidateRecurrence(r)
  \/ \E start \in Starts, ahead \in Shifts : MoveStart(start, ahead)

Next ==
  \/ \E r \in Made : ImportSeries(r)
  \/ Edit \/ PushRule
  \/ \E late \in Missed : NextOccurrenceOf(late)

Spec == Init /\ [][Next]_vars

-----------------------------------------------------------------------------
Rule == [freq : {"none", "daily", "weekly", "monthly", "yearly"}, interval : 1..2,
         days : SUBSET Weekdays, nth : 0..5, month : 0..12, monthDay : 0..31]

TypeOK ==
  /\ series \in [rule : Rule, start : Int, ahead : Shifts]
  /\ native \in Rule /\ origin \in {"local", "discord"} /\ steps \in 0..MaxSteps

\* A series that moves on goes to the first date its rule names after the
\* present, in every shape of rule, however many dates the sweep missed, over
\* month ends, leap days and years, and every second week stays every second
\* week (nextOccurrence, recurrence.go).
GoesToTheFirst ==
  series' # series /\ series'.rule = series.rule => \A late \in Missed :
    NextOccurrenceOf(late) =>
      /\ Fires(series.rule, series.start, series'.start)
      /\ \A n \in series.start + late + 1 .. series'.start - 1 : ~Fires(series.rule, series.start, n)

NextIsTheFirst == [][GoesToTheFirst]_vars

\* A rule read from Discord and not touched since goes back to Discord as it
\* came, across month and year ends (moveRuleDays, recurrence.go).
ImportedRulesComeBack ==
  origin = "discord" => DiscordRecurrenceRule(series) = native

\* What is sent is something Discord takes; a rule it cannot be told is left
\* out of the request (discordRecurrenceRule, recurrence.go).
SentRulesAreTaken == DiscordTakes(DiscordRecurrenceRule(series))
=============================================================================
