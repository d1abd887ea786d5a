---------------------------- MODULE ReadingViews ----------------------------
(***************************************************************************)
(* What a chart is told about the readings: the materialized views by day  *)
(* and by hour, and the queries for lines (and radars), bars, comparisons  *)
(* and 3D surfaces of meters and of groups, with what the client asks for  *)
(* and what it makes of an answer.                                         *)
(*                                                                         *)
(* Time goes in ticks of which an hour has Hour.  Values are fixed-point   *)
(* numbers in units of 1/Unit, a number all the divisions of an instance   *)
(* come out even with.  A view is a function of the readings at its last   *)
(* refresh, so it is kept as those readings.                               *)
(***************************************************************************)
EXTENDS Integers, Sequences, FiniteSets, FiniteSetsExt, SequencesExt

CONSTANTS
    Meters,
    Meter(_),       \* [kind, frequency, perHour, slope, intercept] of a meter, with its Cik
    Hour,           \* ticks in an hour
    Unit,           \* the fraction values are counted in
    Uploads,        \* bound: what can be uploaded, sets of readings of one meter each
    Groups,         \* bound: the meters of the groups that are asked for
    Intervals,      \* bound: the time intervals that are asked for
    Widths,         \* bound: the widths of bars, in days
    HoursEach,      \* bound: the hours in a point of a surface that are asked for
    Nows,           \* bound: the times at which a comparison is made
    MaxRaw,         \* determineMaxPoints
    MaxHourly,
    None            \* NULL

Day == 24 * Hour
Views == {"daily", "hourly"}
Width(v) == IF v = "daily" THEN Day ELSE Hour
Periods == {"Day", "Week", "FourWeeks"}
Targets == {[group |-> FALSE, meters |-> {m}] : m \in Meters}
           \cup {[group |-> TRUE, meters |-> g] : g \in Groups}

ASSUME ViewsAssumption ==
    /\ Hour \in Nat \ {0} /\ Unit \in Nat \ {0}
    /\ \A g \in Groups : g \subseteq Meters /\ g # {}
    /\ \A u \in Uploads : \A r \in u : r.meter \in Meters /\ r.start < r.end

VARIABLES
    readings,   \* the readings table
    seen,       \* the readings each view was last refreshed with
    answer      \* what the last query got, until something changes

vars == <<readings, seen, answer>>

Floor(t, w) == t - (t % w)                      \* date_trunc
Ceiling(t, w) == Floor(t + w - 1, w)          \* date_trunc_up
Total(S, f(_)) == MapThenSumSet(f, S)
Inside(a, b) == b.start <= a.start /\ a.end <= b.end
Span(S) == [start |-> Min({r.start : r \in S}), end |-> Max({r.end : r \in S})]
Meet(a, b) == [start |-> Max({a.start, b.start}), end |-> Min({a.end, b.end})]
Of(S, ms) == {r \in S : r.meter \in ms}

-----------------------------------------------------------------------------
(* The views.                                                              *)

(* What a reading says of each hour: a quantity is spread over its length, *)
(* a flow or raw value is a rate already.                                  *)
Rate(r) ==
    IF Meter(r.meter).kind = "quantity"
    THEN (r.val * Unit * Hour) \div (r.end - r.start)
    ELSE r.val * Unit * Meter(r.meter).perHour

Overlap(r, i, w) == Min({r.end, i + w}) - Max({r.start, i})

(* Fault: each reading counts the same, however little it shares.          *)
WeightedEqually(S, i, w) == Total(S, Rate) \div Cardinality(S)

Weighted(S, i, w) ==
    Total(S, LAMBDA r : Rate(r) * Overlap(r, i, w)) \div Total(S, LAMBDA r : Overlap(r, i, w))

(* One row of a view.  The least flow of an hour is divided by what its    *)
(* reading shares with a day.                                              *)
ViewRow(S, i, w) ==
    LET least(r) == IF Meter(r.meter).kind = "quantity" \/ w = Day THEN Rate(r)
                    ELSE (Rate(r) * Overlap(r, i, w)) \div Overlap(r, i, Day)
    IN  [start |-> i, end |-> i + w, rate |-> Weighted(S, i, w),
         min |-> Min({least(r) : r \in S}), max |-> Max({Rate(r) : r \in S})]

Starts(r, w) == {i \in Floor(r.start, w)..(r.end - 1) : i % w = 0}

(* The rows of view v for meter m.                                         *)
View(v, m) ==
    LET rs == Of(seen[v], {m})
        w == Width(v)
    IN  {ViewRow({r \in rs : i \in Starts(r, w)}, i, w) : i \in UNION {Starts(r, w) : r \in rs}}

Converted(m, x) == IF x = None THEN None ELSE x * Meter(m).slope + Meter(m).intercept * Unit

-----------------------------------------------------------------------------
(* Lines and radars.                                                       *)

(* shrink_tsrange_to_real_readings: what is asked for and there is.        *)
RealRange(ms, iv) == Meet(iv, Span(Of(readings, ms)))

(* The finest points that are not too many and not finer than the meter.   *)
Accuracy(m, length) ==
    LET f == Meter(m).frequency
    IN  IF length \div f <= MaxRaw \/ f >= Day THEN "raw"
        ELSE IF length \div Hour <= MaxHourly /\ f <= Hour THEN "hourly"
        ELSE "daily"

(* Groups have no raw points.                                              *)
GroupAccuracy(ms, length) ==
    IF length \div Hour <= MaxHourly /\ Min({Meter(m).frequency : m \in ms}) <= Hour
    THEN "hourly" ELSE "daily"

MeterLine(m, iv, accuracy) ==
    LET range == RealRange({m}, iv)
        point(p) == [meter |-> m, start |-> p.start, end |-> p.end, rate |-> Converted(m, p.rate),
                     min |-> Converted(m, p.min), max |-> Converted(m, p.max)]
        rows == IF accuracy = "raw"
                THEN {[start |-> r.start, end |-> r.end, rate |-> Rate(r), min |-> None, max |-> None]
                        : r \in Of(readings, {m})}
                ELSE View(accuracy, m)
    IN  IF Of(readings, {m}) = {} THEN {} ELSE {point(p) : p \in {p \in rows : Inside(p, range)}}

(* What groups add up: the points of the same time.                        *)
SumPoints(points) ==
    {[start |-> p.start, end |-> p.end,
      rate |-> Total({q \in points : q.start = p.start /\ q.end = p.end}, LAMBDA q : q.rate)]
        : p \in points}

Length(iv) == iv.end - iv.start

LineOf(target, iv) ==
    LET ms == target.meters
        there == Of(readings, ms) # {}
        length == IF there THEN Length(RealRange(ms, iv)) ELSE 0
    IN  IF target.group
        THEN SumPoints(UNION {MeterLine(m, iv, GroupAccuracy(ms, length)) : m \in ms})
        ELSE UNION {MeterLine(m, iv, Accuracy(m, length)) : m \in ms}

(* A radar has the points of the line, without least and largest.          *)
RadarOf(target, iv) ==
    {[start |-> p.start, end |-> p.end, rate |-> p.rate] : p \in LineOf(target, iv)}

-----------------------------------------------------------------------------
(* Bars.                                                                   *)

WholeDays(iv) == [start |-> Ceiling(iv.start, Day), end |-> Floor(iv.end, Day)]
Dailies(ms) == UNION {View("daily", m) : m \in ms}

(* Fault: the bars start at the first day, and the last days are dropped.  *)
BarStartsFirst(range, width) == range.start

(* Whole bars only: the last one ends with the range.                      *)
BarStarts(range, width) == range.end - (Length(range) \div width) * width

BarsOf(target, iv, days) ==
    LET ms == target.meters
        width == days * Day
        range == Meet(WholeDays(iv), Span(Dailies(ms)))
        number == Length(range) \div width
        starts == {BarStarts(range, width) + k * width : k \in 0..(number - 1)}
        view == [m \in ms |-> View("daily", m)]
        bar(m, s) ==
            LET ds == {d \in view[m] : Inside(d, [start |-> s, end |-> s + width])}
            IN  IF ds = {} THEN {}
                ELSE {[meter |-> m, start |-> s, end |-> s + width,
                       rate |-> Converted(m, Total(ds, LAMBDA d : d.rate * 24))]}
        bars == UNION {bar(m, s) : m \in {m \in ms : Meter(m).kind # "raw"}, s \in starts}
    IN  IF Dailies(ms) = {} THEN {} ELSE IF target.group THEN SumPoints(bars) ELSE bars

-----------------------------------------------------------------------------
(* Comparisons: calculateCompareTimeInterval and calculateCompareShift of  *)
(* the client.  Day 0 is a Sunday, and the end is on the hour.             *)

Begin(period, now) ==
    CASE period = "Day" -> Floor(now, Day)
      [] period = "Week" -> Floor(now, 7 * Day)
      [] period = "FourWeeks" -> Floor(now, 7 * Day) - 21 * Day

Shift(period) ==
    CASE period = "Day" -> Day [] period = "Week" -> 7 * Day [] period = "FourWeeks" -> 28 * Day

Current(period, now) == [start |-> Begin(period, now), end |-> Floor(now, Hour)]
Previous(current, shift) == [start |-> current.start - shift, end |-> current.end - shift]

Use(m, range) ==
    LET hs == {h \in View("hourly", m) : Inside(h, range)}
    IN  IF hs = {} THEN None ELSE Converted(m, Total(hs, LAMBDA h : h.rate))

(* SUM of the meters that have something.                                  *)
UseOf(ms, range) ==
    LET uses == {m \in ms : Use(m, range) # None}
    IN  IF uses = {} THEN None ELSE Total(uses, LAMBDA m : Use(m, range))

(* The use of the current period and of the one before.                    *)
ComparedOf(ms, current, shift) ==
    [current |-> UseOf(ms, current), previous |-> UseOf(ms, Previous(current, shift))]

-----------------------------------------------------------------------------
(* 3D surfaces.                                                            *)

(* roundTimeIntervalForFetch: the days the interval touches.               *)
RoundedForFetch(iv) == [start |-> Floor(iv.start, Day), end |-> Ceiling(iv.end, Day)]

(* Hours in each point: a divisor of 24, or more than 12.                  *)
ReadingLength(ms, hours) ==
    LET m == Max({Ceiling(Min({Meter(x).frequency : x \in ms}), Hour) \div Hour, hours})
    IN  IF m = 5 THEN 6 ELSE IF m = 7 THEN 8 ELSE IF m > 8 /\ m < 12 THEN 12 ELSE m

Blocks(m, iv, hours) ==
    LET days == View("daily", m)
        range == IF days = {} THEN WholeDays(iv) ELSE Meet(WholeDays(iv), Span(days))
        w == hours * Hour
        hs == View("hourly", m)
        within(b) == {h \in hs : Inside(h, [start |-> b, end |-> b + w])}
        starts == {b \in range.start..(range.end - w) :
                      (b - range.start) % w = 0 /\ within(b) # {}}
    IN  {[start |-> b, end |-> b + w, meter |-> m,
          rate |-> Converted(m, Total(within(b), LAMBDA h : h.rate) \div Cardinality(within(b)))]
            : b \in starts}

(* The rows come in order of time, at which the points all begin at a      *)
(* multiple of their length.                                               *)
ThreeDRows(target, iv, hours) ==
    LET points == SumPoints(UNION {Blocks(m, iv, hours) : m \in target.meters})
        w == hours * Hour
        times == [k \in 1..(Length(iv) \div w) |-> iv.start + (k - 1) * w]
        starts == {p.start : p \in points}
        begins == SelectSeq(times, LAMBDA t : t \in starts)
    IN  [k \in DOMAIN begins |-> CHOOSE p \in points : p.start = begins[k]]

(* Fault: a hole is filled with one point, however long it is.             *)
FilledOnce(rows, w) ==
    FoldLeft(LAMBDA acc, p :
                IF acc = <<>> \/ Last(acc).end = p.start THEN Append(acc, p)
                ELSE acc \o <<[start |-> Last(acc).end, end |-> Last(acc).end + w, rate |-> None], p>>,
             <<>>, rows)

(* threeDHoleAlgorithm: holes between two points are filled with nothing.  *)
Filled(rows, w) ==
    FoldLeft(LAMBDA acc, p :
                IF acc = <<>> THEN <<p>>
                ELSE LET from == Last(acc).end
                     IN  Append(acc \o [k \in 1..((p.start - from) \div w) |->
                                           [start |-> from + (k - 1) * w, end |-> from + k * w,
                                            rate |-> None]], p),
             <<>>, rows)

(* Each chunk of the points is a row of the surface; the first row names   *)
(* the times of the day, the first point of each row the day.              *)
Surface(rows, iv, hours) ==
    LET perDay == 24 \div hours
        expected == (Length(iv) \div Day) * perDay
        all == IF Len(rows) = expected THEN rows ELSE Filled(rows, hours * Hour)
        days == (Len(all) + perDay - 1) \div perDay
        row(i) == SubSeq(all, (i - 1) * perDay + 1, Min({i * perDay, Len(all)}))
    IN  [x |-> [j \in 1..Len(row(1)) |-> row(1)[j].start],
         y |-> [i \in 1..days |-> row(i)[1].start],
         z |-> [i \in 1..days |-> [j \in 1..Len(row(i)) |-> row(i)[j].rate]]]

Empty == [x |-> <<>>, y |-> <<>>, z |-> <<>>]

(* Meters that read less than twice a day get one point of -999 each.      *)
Dummy(target) ==
    [x |-> <<0>>, y |-> <<0>>, z |-> <<<< -999 * Unit * Cardinality(target.meters) >>>>]

SurfaceOf(target, asked, hours) ==
    LET iv == RoundedForFetch(asked)
        length == ReadingLength(target.meters, hours)
        rows == ThreeDRows(target, iv, length)
    IN  IF length > 12 THEN Dummy(target)
        ELSE IF rows = <<>> THEN Empty ELSE Surface(rows, iv, length)

(* ThreeDComponent: a first point below zero says that there is no surface.*)
Refused(s) == s.z # <<>> /\ s.z[1][1] # None /\ s.z[1][1] < 0

-----------------------------------------------------------------------------
NoAnswer == [kind |-> "none"]

Init ==
    /\ readings = {}
    /\ seen = [v \in Views |-> {}]
    /\ answer = NoAnswer

Upload(u) ==
    /\ readings' = readings \cup u
    /\ answer' = NoAnswer
    /\ UNCHANGED seen

(* REFRESH MATERIALIZED VIEW of one view: refreshAllReadingViews sends     *)
(* both at once and either may end first.                                  *)
Refresh(v) ==
    /\ seen' = [seen EXCEPT ![v] = readings]
    /\ answer' = NoAnswer
    /\ UNCHANGED readings

Answered(a) ==
    /\ answer = NoAnswer
    /\ answer' = a
    /\ UNCHANGED <<readings, seen>>

Line(target, iv) ==
    Answered([kind |-> "line", target |-> target, asked |-> iv, got |-> LineOf(target, iv)])

Radar(target, iv) ==
    Answered([kind |-> "radar", target |-> target, asked |-> iv, got |-> RadarOf(target, iv)])

Bar(target, iv, days) ==
    Answered([kind |-> "bar", target |-> target, asked |-> iv, days |-> days,
              got |-> BarsOf(target, iv, days)])

Compare(target, period, now) ==
    Answered([kind |-> "compare", target |-> target, period |-> period, now |-> now,
              got |-> ComparedOf(target.meters, Current(period, now), Shift(period))])

ThreeD(target, iv, hours) ==
    LET s == SurfaceOf(target, iv, hours)
    IN  Answered([kind |-> "threeD", target |-> target, asked |-> iv, hours |-> hours,
                  got |-> s, refused |-> Refused(s)])

Next ==
    \/ \E u \in Uploads : Upload(u)
    \/ \E v \in Views : Refresh(v)
    \/ \E t \in Targets, iv \in Intervals :
        \/ Line(t, iv) \/ Radar(t, iv)
        \/ \E days \in Widths : Bar(t, iv, days)
        \/ \E hours \in HoursEach : ThreeD(t, iv, hours)
    \/ \E t \in Targets, p \in Periods, now \in Nows : Compare(t, p, now)

Spec == Init /\ [][Next]_vars
-----------------------------------------------------------------------------
(* The properties measure answers by the ticks.                            *)

Ticks(p) == p.start..(p.end - 1)

(* What meter m did on average in the ticks of p that S has readings for.  *)
Mean(S, m, p) ==
    LET rs == {r \in Of(S, {m}) : r.start < p.end /\ p.start < r.end}
        shared(r) == Cardinality({t \in Ticks(r) : p.start <= t /\ t < p.end})
    IN  IF rs = {} THEN None
        ELSE Converted(m, Total(rs, LAMBDA r : Rate(r) * shared(r)) \div Total(rs, shared))

SumOver(ms, f(_)) ==
    LET some == {m \in ms : f(m) # None}
    IN  IF some = {} THEN None ELSE Total(some, f)

(* A point of a line or radar is what the meters of the target did in its time, all *)
(* those whose readings begin before it and end after it, by the table of  *)
(* its accuracy, and lies between its least and its largest; the points    *)
(* are of times that were asked for, do not overlap, and are no more than  *)
(* the screen has room for, days aside (meter_line_readings_unit,          *)
(* group_line_readings_unit).                                              *)
LinesTrue ==
    answer.kind \in {"line", "radar"} =>
        LET ms == answer.target.meters
            raw == IF answer.target.group THEN {} ELSE {readings}
            around(p) == {m \in ms : Of(readings, {m}) # {} /\ Inside(p, Span(Of(readings, {m})))}
            tables(p) == raw \cup {seen[v] : v \in {v \in Views : Width(v) = Length(p)}}
        IN  /\ \A p \in answer.got :
                /\ \E S \in tables(p) : p.rate = SumOver(around(p), LAMBDA m : Mean(S, m, p))
                /\ Inside(p, answer.asked)
                /\ \A q \in answer.got \ {p} : p.end <= q.start \/ q.end <= p.start
                /\ "min" \in DOMAIN p /\ p.min # None => p.min <= p.rate /\ p.rate <= p.max
            /\ \/ Cardinality(answer.got) <= Max({MaxRaw, MaxHourly})
               \/ \A p \in answer.got : Length(p) >= Day

(* What meter m used in the steps of length w that p consists of.          *)
Used(v, m, p) ==
    LET w == Width(v)
        mean == [s \in {s \in Ticks(p) : s % w = 0} |->
                   Mean(seen[v], m, [start |-> s, end |-> s + w])]
        some == {s \in DOMAIN mean : mean[s] # None}
        fixed == Meter(m).intercept * Unit
    IN  IF some = {} THEN None
        ELSE (w \div Hour) * Total(some, LAMBDA s : mean[s] - fixed) + fixed

(* The bars lie side by side, whole days each, and the last ends with the  *)
(* last day there is to show; a bar holds all that was used in its days    *)
(* by the meters that can be added up, and so does a comparison in its     *)
(* hours; the two periods of a comparison begin on the same day of the     *)
(* week (but for days), last as long and share no hour                     *)
(* (meter_bar_readings_unit, meter_compare_readings_unit and what the      *)
(* client asks of it).                                                     *)
TotalsTrue ==
    LET ms == answer.target.meters
        sum(v, p) == SumOver(ms, LAMBDA m : Used(v, m, p))
    IN  /\ answer.kind = "bar" =>
            LET last == Min({Floor(answer.asked.end, Day),
                             Max({Ceiling(r.end, Day) : r \in Of(seen["daily"], ms)})})
                added == {m \in ms : Meter(m).kind # "raw"}
            IN  \A b \in answer.got :
                /\ b.rate = SumOver(added, LAMBDA m : Used("daily", m, b))
                /\ Length(b) = answer.days * Day /\ b.start % Day = 0
                /\ b.end <= last /\ (last - b.end) % Length(b) = 0
                /\ answer.asked.start <= b.start
        /\ answer.kind = "compare" =>
            \E from \in 0..answer.now, back \in {Day, 7 * Day, 28 * Day} :
                LET to == Floor(answer.now, Hour)
                IN  /\ from % Day = 0 /\ to - from < back
                    /\ answer.period # "Day" => from % (7 * Day) = 0 /\ back > Day
                    /\ answer.got.current = sum("hourly", [start |-> from, end |-> to])
                    /\ answer.got.previous = sum("hourly", [start |-> from - back, end |-> to - back])

(* What the meters did on average in the hours of the point that begins    *)
(* at t.                                                                   *)
PointAt(ms, t, w) ==
    LET mean(m) ==
            LET at == [h \in {h \in t..(t + w - 1) : h % Hour = 0} |->
                         Mean(seen["hourly"], m, [start |-> h, end |-> h + Hour])]
                some == {h \in DOMAIN at : at[h] # None}
            IN  IF some = {} THEN None ELSE Total(some, LAMBDA h : at[h]) \div Cardinality(some)
    IN  SumOver(ms, mean)

IsSurface == answer.kind = "threeD" /\ ~answer.refused /\ answer.got.z # <<>>
PointLength == ReadingLength(answer.target.meters, answer.hours) * Hour

(* The cells of a surface follow each other in time, each holds what was   *)
(* done then and nothing is in the cells without readings, whatever is     *)
(* missing between the readings and whichever meter of a group misses it   *)
(* (threeDHoleAlgorithm); a surface is refused just when all its meters    *)
(* read less than twice a day (ThreeDComponent; no value is below zero).   *)
CellsInPlace ==
    /\ answer.kind = "threeD" =>
            (answer.refused <=> \A m \in answer.target.meters : Meter(m).frequency > 12 * Hour)
    /\ IsSurface =>
            LET s == answer.got
            IN  \A i \in DOMAIN s.z : \A j \in DOMAIN s.z[i] :
                s.z[i][j] = PointAt(answer.target.meters, s.y[i] + s.x[j] - s.x[1], PointLength)
=============================================================================
