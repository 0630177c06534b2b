------------------------------- MODULE Analytics -------------------------------
(***************************************************************************)
(* What the dashboard reports: the queries of services/analyticsService.ts *)
(* over the tables the app writes, and getStreak of services/              *)
(* cardService.ts, with the writes that give a user a day,                 *)
(* take it away or move it: answers, daily completions, events, claims and *)
(* the pruning of old events.                                              *)
(*                                                                         *)
(* A row is known by its user and its day.  Days are numbers, day 0 begins *)
(* a week; the day of the database and of the server are the same.  A      *)
(* query reads one snapshot; the writes are single steps here, but for the *)
(* events: their times are settled when they arrive, and they are inserted *)
(* later, with retries.  More of the interleavings is in Progress and      *)
(* Events.                                                                 *)
(***************************************************************************)
EXTENDS Integers, FiniteSetsExt, KeyValue

CONSTANTS
    Accounts, Anons, \* user ids; IS_ANON tells them apart
    Cards,
    Milestones,  \* of the return rates, in days
    Week,        \* days of a week
    Weeks,       \* the weeks parameter of getRetention
    Recently,    \* the days before today that WAU and MAU look back, as <<wau, mau>>
    Days,        \* the days parameter of getOverview
    MinAnswers,  \* the minAnswers parameter of getContent
    MaxBackdate, \* how far back the time of an event is accepted
    Retention,   \* ANALYTICS_RETENTION_DAYS
    StreakRows,  \* the LIMIT of getStreak's days
    MaxDay,      \* bound: the last day
    MaxRows      \* bound: rows in the tables and on the way to them

ASSUME UsersAssumption == Accounts \cap Anons = {}
ASSUME PeriodsAssumption ==
    /\ Week \in Nat \ {0} /\ Weeks \in Nat \ {0} /\ Days \in Nat \ {0}
    /\ Recently[1] \in Nat /\ Recently[2] \in Nat /\ Recently[1] <= Recently[2]
    /\ Milestones \subseteq Nat \ {0}
    /\ MaxBackdate \in Nat /\ Retention \in Nat /\ MaxBackdate <= Retention
    /\ StreakRows \in Nat \ {0}
    /\ MaxDay \in Nat /\ MaxRows \in Nat /\ MinAnswers \in Nat \ {0}

VARIABLES
    today,
    progress, \* user_progress: the day and the mark by <<user, card>>
    dailies,  \* daily_results: <<user, date>>
    events,   \* analytics_events: <<user, day>>
    flushes   \* events received and not yet in the table: user, day, day of receipt

vars == <<today, progress, dailies, events, flushes>>

Users == Accounts \cup Anons
IsAnon(u) == u \in Anons

Init ==
    /\ today = 0
    /\ progress = Empty /\ dailies = {} /\ events = {} /\ flushes = {}

-------------------------------------------------------------------------------
(* The writes.                                                             *)

Room ==
    Cardinality(DOMAIN progress) + Cardinality(dailies) + Cardinality(events)
        + Cardinality(flushes) < MaxRows

\* POST /api/cards/answer: a right answer replaces the day of a row that is not right.
Answer(u, c, mark) ==
    /\ IF <<u, c>> \in DOMAIN progress
       THEN mark = "right" /\ progress[<<u, c>>].mark # "right"
       ELSE Room
    /\ progress' = Put(progress, <<u, c>>, [day |-> today, mark |-> mark])
    /\ UNCHANGED <<today, dailies, events, flushes>>

\* POST /api/daily/complete: the first completion of a date counts.
CompleteDaily(u) ==
    /\ <<u, today>> \notin dailies /\ Room
    /\ dailies' = dailies \cup {<<u, today>>}
    /\ UNCHANGED <<today, progress, events, flushes>>

Flush(u, d) == [user |-> u, day |-> d, received |-> today]

\* Mutant: the time of an event is not clamped to the past week.
Receive_Unclamped(u, d) ==
    /\ d \in 0..today /\ Room
    /\ flushes' = flushes \cup {Flush(u, d)}
    /\ UNCHANGED <<today, progress, dailies, events>>

\* POST /api/events: resolveAt clamps the time of an event when it arrives.
Receive(u, d) ==
    /\ d \in (today - MaxBackdate)..today /\ d >= 0 /\ Room
    /\ flushes' = flushes \cup {Flush(u, d)}
    /\ UNCHANGED <<today, progress, dailies, events>>

\* withDbRetry's insert, at the first attempt or a later one; a row that is there stays.
Insert(p) ==
    /\ flushes' = flushes \ {p}
    /\ events' = events \cup {<<p.user, p.day>>}
    /\ UNCHANGED <<today, progress, dailies>>

\* The last attempt fails, or the server stops.
Lose(p) ==
    /\ flushes' = flushes \ {p}
    /\ UNCHANGED <<today, progress, dailies, events>>

\* POST /api/auth/claim-anon: rows of user_progress move, those of a card the account
\* has are dropped; the other tables are left alone.
Claim(a, u) ==
    /\ LET moved == {c \in Cards : <<a, c>> \in DOMAIN progress /\ <<u, c>> \notin DOMAIN progress}
           kept  == {k \in DOMAIN progress : k[1] # a}
       IN  progress' = [k \in kept \cup ({u} \X moved) |->
                           IF k \in kept THEN progress[k] ELSE progress[<<a, k[2]>>]]
    /\ UNCHANGED <<today, dailies, events, flushes>>

\* pruneOldEvents.
Prune ==
    /\ events' = {e \in events : e[2] >= today - Retention}
    /\ UNCHANGED <<today, progress, dailies, flushes>>

NextDay ==
    /\ today < MaxDay
    /\ today' = today + 1
    /\ UNCHANGED <<progress, dailies, events, flushes>>

Next ==
    \/ \E u \in Users :
         \/ \E c \in Cards, mark \in {"right", "wrong", "unknown"} : Answer(u, c, mark)
         \/ CompleteDaily(u)
         \/ \E d \in 0..MaxDay : Receive(u, d)
    \/ \E p \in flushes : Insert(p) \/ Lose(p)
    \/ \E a \in Anons, u \in Accounts : Claim(a, u)
    \/ Prune \/ NextDay

Spec == Init /\ [][Next]_vars

-------------------------------------------------------------------------------
(* getOverview.                                                            *)

\* ACTIVE_DAYS: the union of the three tables.
ActiveDays == {<<k[1], progress[k].day>> : k \in DOMAIN progress} \cup dailies \cup events

ActiveOn(d) == {u \in Users : <<u, d>> \in ActiveDays}
ActiveSince(d) == {p[1] : p \in {q \in ActiveDays : q[2] >= d}}
EverActive == {p[1] : p \in ActiveDays}

\* pct, in tenths of a percent; -1 for null.
Pct(part, whole) == IF whole <= 0 THEN -1 ELSE (2000 * part + whole) \div (2 * whole)

Split(S) ==
    [all |-> Cardinality(S), authed |-> Cardinality({u \in S : ~IsAnon(u)}),
     anon |-> Cardinality({u \in S : IsAnon(u)})]

\* A point of the series: who was active, the cards whose row is of that day, the
\* challenges of that date.
Point(d) ==
    LET mine == {k \in DOMAIN progress : progress[k].day = d}
    IN  [active |-> Split(ActiveOn(d)), newCards |-> Cardinality(mine),
         correct |-> Cardinality({k \in mine : progress[k].mark = "right"}),
         dailies |-> Cardinality({p \in dailies : p[2] = d})]

Series == [d \in (today - Days + 1)..today |-> Point(d)]

\* Mutant: the month is measured from the first day that is not in it.
Mau_Short == Split(ActiveSince(today - Recently[2] + 1))

Mau == Split(ActiveSince(today - Recently[2]))

Totals ==
    LET dau     == Cardinality(ActiveOn(today))
        ever    == Split(EverActive)
        correct == Cardinality({k \in DOMAIN progress : progress[k].mark = "right"})
        graded  == Cardinality({k \in DOMAIN progress : progress[k].mark # "unknown"})
    IN  [ever |-> ever, dau |-> dau, wau |-> Cardinality(ActiveSince(today - Recently[1])),
         mau |-> Mau, stickiness |-> Pct(dau, Mau.all), answers |-> Cardinality(DOMAIN progress),
         correct |-> correct, accuracy |-> Pct(correct, graded),
         dailies |-> Cardinality(dailies), signupRate |-> Pct(ever.authed, ever.all)]

-------------------------------------------------------------------------------
(* getRetention.                                                           *)

DaysOf(u) == {p[2] : p \in {q \in ActiveDays : q[1] = u}}
FirstDay(u) == Min(DaysOf(u))

\* Who had the chance to come back by day n of theirs, and who did then or later.
Eligible(n) == {u \in EverActive : FirstDay(u) <= today - n}
Returned(n) == {u \in Eligible(n) : \E d \in DaysOf(u) : d >= FirstDay(u) + n}
ReturnedNextDay == {u \in Eligible(1) : FirstDay(u) + 1 \in DaysOf(u)}

\* date_trunc('week', d).
WeekOf(d) == d - (d % Week)

CohortOf(u) == WeekOf(FirstDay(u))
Cohort(w) ==
    {u \in EverActive : CohortOf(u) = w /\ FirstDay(u) >= WeekOf(today - Weeks * Week)}
Cohorts == {w \in {CohortOf(u) : u \in EverActive} : Cohort(w) # {}}

\* Those of a cohort that were active in week i of their own.
Hits(w, i) == {u \in Cohort(w) : \E d \in DaysOf(u) : (d - FirstDay(u)) \div Week = i}

\* Whole weeks since the Monday of the cohort.
Elapsed(w) == (today - w) \div Week

\* Mutant: the grid ends a week early.
MaxWeekOffset_Narrow ==
    LET hit    == {i \in 0..MaxDay : \E w \in Cohorts : Hits(w, i) # {}}
        widest == {Elapsed(w) : w \in Cohorts}
    IN  Min({Max({0} \cup hit \cup widest), Weeks - 1})

MaxWeekOffset ==
    LET hit    == {i \in 0..MaxDay : \E w \in Cohorts : Hits(w, i) # {}}
        widest == {Elapsed(w) : w \in Cohorts}
    IN  Min({Max({0} \cup hit \cup widest), Weeks})

\* A row of the grid; -1 for null: a week that has not happened yet.
Cells(w) ==
    [i \in 0..MaxWeekOffset |-> IF i <= Elapsed(w) THEN Cardinality(Hits(w, i)) ELSE -1]

-------------------------------------------------------------------------------
(* getUsers and getContent.                                                *)

UserRow(u) ==
    LET days == DaysOf(u)
        mine == {k \in DOMAIN progress : k[1] = u}
    IN  [active |-> Cardinality(days), since |-> today - Max(days),
         lifespan |-> Max(days) - Min(days) + 1, answers |-> Cardinality(mine),
         dailies |-> Cardinality({p \in dailies : p[1] = u})]

Attempts(c) == {k \in DOMAIN progress : k[2] = c}
Graded(c) == {k \in Attempts(c) : progress[k].mark # "unknown"}

Measured == {c \in Cards : Cardinality(Graded(c)) >= MinAnswers}
Unseen == {c \in Cards : Attempts(c) = {}}

\* The row of a category, or of a difficulty, with the cards S.
Bucket(S) ==
    LET attempts == UNION {Attempts(c) : c \in S}
        graded   == UNION {Graded(c) : c \in S}
    IN  [attempts |-> Cardinality(attempts), users |-> Cardinality({k[1] : k \in attempts}),
         accuracy |-> Pct(Cardinality({k \in graded : progress[k].mark = "right"}),
                          Cardinality(graded))]

-------------------------------------------------------------------------------
(* getStreak, when it is computed.                                         *)

PracticeDays(u) == {progress[k].day : k \in {r \in DOMAIN progress : r[1] = u}}

\* Mutant: a streak is over at midnight.
Streak_Today(u) ==
    LET days   == PracticeDays(u)
        recent == Max(days)
    IN  IF days = {} \/ today - recent > 0 THEN 0
        ELSE Max({n \in 1..StreakRows : (recent - n + 1)..recent \subseteq days})

\* The walk back from the most recent day, which is today or yesterday, over the
\* days before it without a gap.
Streak(u) ==
    LET days   == PracticeDays(u)
        recent == Max(days)
    IN  IF days = {} \/ today - recent > 1 THEN 0
        ELSE Max({n \in 1..StreakRows : (recent - n + 1)..recent \subseteq days})

-------------------------------------------------------------------------------
\* The figures of one snapshot agree across the queries, whatever was answered,
\* claimed, backdated or pruned: the day of the series and the totals, a longer
\* window and a shorter one, everyone and the split by kind of user, the series
\* added up and the totals, the people listed and the people counted, the answers by
\* user, by category, however the cards are divided, and in all; no share is above
\* 100 %.
CountsAgree ==
    LET t == Totals
        s == Series
        Added(F(_)) == MapThenSumSet(F, DOMAIN s)
    IN  /\ s[today].active.all = t.dau
        /\ t.dau <= t.wau /\ t.wau <= t.mau.all /\ t.mau.all <= t.ever.all
        /\ \A split \in {s[d].active : d \in DOMAIN s} \cup {t.mau, t.ever} :
              split.all = split.authed + split.anon
        /\ \A d \in DOMAIN s :
              /\ d >= today - Recently[2] => s[d].active.all <= t.mau.all
              /\ s[d].newCards + s[d].dailies > 0 => s[d].active.all > 0
        /\ today < Days =>
              /\ Added(LAMBDA d : s[d].newCards) = t.answers
              /\ Added(LAMBDA d : s[d].correct) = t.correct
              /\ Added(LAMBDA d : s[d].dailies) = t.dailies
        /\ {t.stickiness, t.signupRate, t.accuracy} \subseteq -1..1000
        /\ \A u \in EverActive : UserRow(u).active <= UserRow(u).lifespan /\ UserRow(u).since >= 0
        /\ MapThenSumSet(LAMBDA u : UserRow(u).answers, EverActive) = t.answers
        /\ Bucket(Cards).accuracy = t.accuracy
        /\ \A S \in SUBSET Cards :
              /\ Bucket(S).attempts + Bucket(Cards \ S).attempts = t.answers
              /\ Bucket(S).users <= Cardinality(EverActive)
        /\ MapThenSumSet(LAMBDA u : UserRow(u).dailies, EverActive) = t.dailies
        /\ \A c \in Measured : c \notin Unseen

\* The later the milestone, the fewer have had the chance and the fewer returned, and
\* who came the next day has returned by then; a user is in one cohort, no cell counts
\* more than the cohort, no user's return falls outside the grid, and a blank hides
\* nobody: it stands only where no member of the cohort can have been counted.
RetentionSound ==
    /\ \A m, n \in Milestones : m <= n =>
          Eligible(n) \subseteq Eligible(m) /\ Returned(n) \subseteq Returned(m)
    /\ \A n \in Milestones : n = 1 => ReturnedNextDay \subseteq Returned(n)
    /\ \A v, w \in Cohorts : v # w => Cohort(v) \cap Cohort(w) = {}
    /\ \A w \in Cohorts :
          /\ Cells(w)[0] = Cardinality(Cohort(w))
          /\ \A i \in 0..MaxWeekOffset : Cells(w)[i] <= Cells(w)[0]
          /\ \A i \in 0..MaxDay : Hits(w, i) # {} => i <= MaxWeekOffset /\ Cells(w)[i] > 0
          /\ \A i \in 0..MaxWeekOffset :
                Cells(w)[i] = -1 => \A u \in Cohort(w) : FirstDay(u) + i * Week > today

\* The comments at analyticsService.ts:360-362 and dashboardHtml.ts:1467 have a cell
\* blank while its week has not happened: a 0 is shown only if some member of the
\* cohort has reached that week of its own.
ZerosHappened ==
    \A w \in Cohorts : \A i \in 0..MaxWeekOffset :
        Cells(w)[i] = 0 => \E u \in Cohort(w) : FirstDay(u) + i * Week <= today

\* A day that is over for longer than an event may be late gains nobody any more, but
\* an account that claims a session of that day, and a user whose event arrived in
\* time and is inserted only now.
ClosedDaysStay ==
    [][\A d \in 0..(today - MaxBackdate - 1) : \A u \in ActiveOn(d)' \ ActiveOn(d) :
          \/ ~IsAnon(u) /\ \E a \in ActiveOn(d) : IsAnon(a)
          \/ \E p \in flushes : p.user = u /\ p.day = d /\ d >= p.received - MaxBackdate]_vars

\* The streak, computed from the rows alone each time, counts as a user would from
\* day to day: the first practice of a day adds one, midnight takes it away from who
\* did not practise on the day that ends and from nobody else, what else happens
\* leaves it alone, and rows that are claimed never cost a day.  Only an answer that
\* moves its row to today may.
StreakCounts ==
    [][\A u \in Users :
          LET days == PracticeDays(u)
          IN  /\ today' = today + 1 => Streak(u)' = IF today \in days THEN Streak(u) ELSE 0
              /\ today' = today =>
                    /\ PracticeDays(u)' = days \cup {today} /\ today \notin days
                          => Streak(u)' = Min({Streak(u) + 1, StreakRows})
                    /\ days = PracticeDays(u)' => Streak(u)' = Streak(u)
                    /\ days \subseteq PracticeDays(u)' => Streak(u)' >= Streak(u)]_vars
===============================================================================
