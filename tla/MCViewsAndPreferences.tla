---------------------------- MODULE MCViewsAndPreferences ----------------------------
(***************************************************************************)
(* Instances for ReadingViews, where a tick is half an hour, and for       *)
(* Preferences with two tabs, in one run.  The two share no state: a       *)
(* behaviour moves one of them, and the other stays as it starts.          *)
(***************************************************************************)
EXTENDS ReadingViews, Preferences

CONSTANTS fast, odd, daily, weekly

MCMeters == {fast, odd, daily, weekly}

(* A meter of electricity that reads every half hour, a flow per minute    *)
(* read every hour and a half, a meter that reads once a day and one that  *)
(* reads once a week.                                                      *)
MCMeter(m) ==
    CASE m = fast -> [kind |-> "quantity", frequency |-> 1, perHour |-> 1, slope |-> 1, intercept |-> 0]
      [] m = odd -> [kind |-> "flow", frequency |-> 3, perHour |-> 60, slope |-> 2, intercept |-> 1]
      [] m = daily -> [kind |-> "quantity", frequency |-> 48, perHour |-> 1, slope |-> 3, intercept |-> 0]
      [] m = weekly -> [kind |-> "raw", frequency |-> 336, perHour |-> 1, slope |-> 1, intercept |-> 0]

Row(m, s, e, v) == [meter |-> m, start |-> s, end |-> e, val |-> v]

(* Half hours from 6 in the morning of day 7, but for seven of them in the *)
(* evening and until the morning after next.                               *)
FastRows ==
    {Row(fast, t, t + 1, 1 + ((t * t) % 5)) : t \in ((7 * 48 + 12)..(9 * 48 + 11)) \ ((7 * 48 + 36)..(7 * 48 + 42))}

(* From eleven in the evening before day 8 to half past midnight after it, *)
(* but for six hours about noon.                                           *)
OddRows ==
    {Row(odd, 8 * 48 + 1 + 3 * k, 8 * 48 + 4 + 3 * k, k % 3) : k \in ((-1)..15) \ (5..8)}

SlowRows ==
    {Row(daily, 48 * d, 48 * (d + 1), d + 1) : d \in {0, 1, 7, 8}}
    \cup {Row(weekly, 13, 336 + 13, 700)}

MCUploads == {FastRows, OddRows, SlowRows}
MCGroups == {{fast, odd}, {odd, daily}}
MCIntervals ==
    {[start |-> 0, end |-> 480], [start |-> 7 * 48 + 5, end |-> 8 * 48 + 41], [start |-> 8 * 48, end |-> 8 * 48 + 12]}
MCNows == {48 + 5, 8 * 48 + 27}

MCStart == [chart |-> "line", title |-> "a", min |-> 1, max |-> 2, number |-> 0]

PreferencesRest ==
    /\ acts = 0 /\ version = 0 /\ jobs = [s \in Slots |-> Idle]
    /\ tab = [t \in Tabs |-> [NewTab EXCEPT !.data = Start]]
ViewsRest == readings = {} /\ answer = NoAnswer /\ seen = [v \in Views |-> {}]

ViewsMove == PreferencesRest /\ Next /\ UNCHANGED preferencesVars
PreferencesMove == ViewsRest /\ PreferencesNext /\ UNCHANGED vars

MCInit == Init /\ PreferencesInit
MCSpec ==
    /\ MCInit
    /\ [][ViewsMove \/ PreferencesMove]_<<vars, preferencesVars>>
=============================================================================
