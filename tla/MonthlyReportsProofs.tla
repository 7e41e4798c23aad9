------------------------ MODULE MonthlyReportsProofs ------------------------
(***************************************************************************)
(* Proofs about MonthlyReports, for every year, any number of users,       *)
(* overlapping ticks, failures and months: the windows of the reports are  *)
(* the calendar's months and never overlap, a row has a summary when its   *)
(* status says so, and the cron's loop leaves no subscriber out.           *)
(***************************************************************************)
EXTENDS MonthlyReports, TLAPS

(* The first day of a month. *)
Day1(d) == from_calendar_date(d.year, d.month, 1)

(* The window that is asked for in the n-th month. *)
Window(n) == previous_month_window(MonthAt(n))

Period == [start : Nat, last : Nat]

CronLoop == [read : SUBSET Users, todo : SUBSET Users, period : Period, skipped : SUBSET Users]

(* The fields of the rows and of the cron's loop. *)
StateTyped ==
    /\ month \in Nat
    /\ \A k \in Keys : report[k] \in Row
    /\ cron \in CronLoop

(* Every row has the window of a month that has begun, first day and last. *)
RowsWindowed ==
    \A k \in Keys : \E n \in 0..month : k[2] = Window(n).start /\ report[k].last = Window(n).last

(* So has the loop of the cron, even one that runs on into the next month. *)
CronWindowed == cron.todo # {} => \E n \in 0..month : cron.period = Window(n)

(* Whom the loop is through with has a row or an error in the log; EnqueueCovers says
   so of the end of the loop only and is not inductive by itself. *)
Covered == \A u \in cron.read \ cron.todo : u \in cron.skipped \/ <<u, cron.period.start>> \in Keys

(* The inductive invariant. *)
IInv ==
    /\ StateTyped
    /\ RowsWindowed
    /\ CronWindowed
    /\ Covered
    /\ SummaryMatches

-----------------------------------------------------------------------------
(* The calendar: from_calendar_date counts the days of every month. *)

(* A month has the days DaysIn says, in every year. *)
LEMMA MonthLength ==
    ASSUME NEW y \in Int, y >= -1, NEW m \in 1..11
    PROVE  from_calendar_date(y, m + 1, 1) = from_calendar_date(y, m, 1) + DaysIn(y, m)
  <1>1. CASE m = 1
    BY <1>1 DEF from_calendar_date, DaysIn
  <1>2. CASE m = 2
    <2>1. from_calendar_date(y, 3, 1) = from_calendar_date(y, 2, 1) + (IF Leap(y) THEN 29 ELSE 28)
      BY DEF from_calendar_date, Leap
    <2>2. QED
      BY <1>2, <2>1 DEF DaysIn
  <1>3. CASE m \in 3..11
    BY <1>3 DEF from_calendar_date, DaysIn
  <1>4. QED
    BY <1>1, <1>2, <1>3

(* December is followed by the next year's January. *)
LEMMA YearEnd ==
    ASSUME NEW y \in Int, y >= -1
    PROVE  from_calendar_date(y + 1, 1, 1) = from_calendar_date(y, 12, 1) + DaysIn(y, 12)
  BY DEF from_calendar_date, DaysIn

(* First days are numbered in the order of their months. *)
LEMMA DayOrder ==
    ASSUME NEW y \in Int, y >= -1, NEW z \in Int, NEW m \in 1..12, NEW p \in 1..12,
           y < z \/ (y = z /\ m < p)
    PROVE  from_calendar_date(y, m, 1) < from_calendar_date(z, p, 1)
  <1>1. CASE y = z /\ m < p
    BY <1>1 DEF from_calendar_date
  <1>2. CASE y < z
    BY <1>2 DEF from_calendar_date
  <1>3. QED
    BY <1>1, <1>2

(* Day numbers of the years in use are natural numbers. *)
LEMMA DayType ==
    ASSUME NEW y \in Int, y >= -1, NEW m \in 1..12
    PROVE  from_calendar_date(y, m, 1) \in Nat /\ from_calendar_date(y, m, 1) > 0
  BY DEF from_calendar_date

Date == [year : Nat, month : 1..12]

(* The year and the month before d's. *)
Before(d) == [year  |-> IF d.month = 1 THEN d.year - 1 ELSE d.year,
              month |-> IF d.month = 1 THEN 12 ELSE d.month - 1]

(* previous_month_window is the month before, whole and nothing else. *)
LEMMA WindowFacts ==
    ASSUME NEW d \in Date
    PROVE  LET w == previous_month_window(d) IN
           /\ w \in Period
           /\ w.start = Day1(Before(d))
           /\ w.last + 1 = Day1(d)
           /\ w.last - w.start + 1 = IF d.month = 1 THEN DaysIn(d.year - 1, 12)
                                                   ELSE DaysIn(d.year, d.month - 1)
           /\ w.start <= w.last
  <1> DEFINE w == previous_month_window(d)
             s == Day1(Before(d))
             e == Day1(d)
             days == IF d.month = 1 THEN DaysIn(d.year - 1, 12) ELSE DaysIn(d.year, d.month - 1)
  <1>1. d.year \in Nat /\ d.month \in 1..12
    BY DEF Date
  <1>2. w = [start |-> s, last |-> e - 1]
    <2>1. CASE d.month = 1
      <3>1. d.year - 1 + 1 = d.year
        BY <1>1
      <3>2. QED
        BY <2>1, <3>1 DEF previous_month_window, Day1, Before
    <2>2. CASE d.month # 1
      <3>1. d.month - 1 # 12 /\ d.month - 1 + 1 = d.month
        BY <1>1
      <3>2. QED
        BY <2>2, <3>1 DEF previous_month_window, Day1, Before
    <2>3. QED
      BY <2>1, <2>2
  <1>3. s \in Nat /\ e \in Nat /\ days \in Nat /\ days > 0 /\ e = s + days
    <2>1. CASE d.month = 1
      <3>1. d.year - 1 \in Int /\ d.year - 1 >= -1 /\ d.year - 1 + 1 = d.year
        BY <1>1
      <3>2. from_calendar_date(d.year, 1, 1)
              = from_calendar_date(d.year - 1, 12, 1) + DaysIn(d.year - 1, 12)
        BY <3>1, YearEnd
      <3>3. s = from_calendar_date(d.year - 1, 12, 1) /\ e = from_calendar_date(d.year, 1, 1)
        BY <2>1 DEF Day1, Before
      <3>4. s \in Nat /\ e \in Nat
        <4>1. 12 \in 1..12 /\ 1 \in 1..12 /\ d.year \in Int /\ d.year >= -1
          BY <1>1
        <4>2. from_calendar_date(d.year - 1, 12, 1) \in Nat
          BY <3>1, <4>1, DayType
        <4>3. from_calendar_date(d.year, 1, 1) \in Nat
          BY <4>1, DayType
        <4>4. QED
          BY <3>3, <4>2, <4>3
      <3>5. DaysIn(d.year - 1, 12) = 31
        BY DEF DaysIn
      <3>6. QED
        BY <2>1, <3>2, <3>3, <3>4, <3>5
    <2>2. CASE d.month # 1
      <3>1. d.month - 1 \in 1..11 /\ d.month - 1 + 1 = d.month /\ d.year \in Int /\ d.year >= -1
        BY <1>1, <2>2
      <3>2. from_calendar_date(d.year, d.month, 1)
              = from_calendar_date(d.year, d.month - 1, 1) + DaysIn(d.year, d.month - 1)
        BY <3>1, MonthLength
      <3>3. s = from_calendar_date(d.year, d.month - 1, 1) /\ e = from_calendar_date(d.year, d.month, 1)
        BY <2>2 DEF Day1, Before
      <3>4. s \in Nat /\ e \in Nat
        <4>1. d.month - 1 \in 1..12
          BY <3>1
        <4>2. QED
          BY <1>1, <3>1, <3>3, <4>1, DayType
      <3>5. DaysIn(d.year, d.month - 1) \in Nat /\ DaysIn(d.year, d.month - 1) > 0
        BY <3>1 DEF DaysIn
      <3>6. QED
        BY <2>2, <3>2, <3>3, <3>4, <3>5
    <2>3. QED
      BY <2>1, <2>2
  <1> HIDE DEF w, s, e, days
  <1>4. w.start = s /\ w.last = e - 1
    BY <1>2
  <1>5. w \in Period
    BY <1>2, <1>3 DEF Period
  <1>6. w.start <= w.last /\ w.last + 1 = e /\ w.last - w.start + 1 = days
    BY <1>3, <1>4
  <1>7. QED
    BY <1>4, <1>5, <1>6 DEF w, s, e, days

(* The windows of all years tile the calendar. *)
LEMMA AllWindowsTile == WindowsTile
  <1> SUFFICES ASSUME NEW y \in Years, NEW m \in 1..12
               PROVE  LET w == previous_month_window([year |-> y, month |-> m]) IN
                      /\ w.last + 1 = from_calendar_date(y, m, 1)
                      /\ w.last - w.start + 1 = IF m = 1 THEN DaysIn(y - 1, 12) ELSE DaysIn(y, m - 1)
    BY DEF WindowsTile
  <1> DEFINE d == [year |-> y, month |-> m]
  <1>1. d \in Date /\ d.year = y /\ d.month = m
    BY ReportsAssumption DEF Date
  <1> HIDE DEF d
  <1>2. QED
    BY <1>1, WindowFacts DEF Day1, d

-----------------------------------------------------------------------------
(* The months of a behaviour. *)

(* MonthAt counts months: a later one is a later month, and so is the month before
   a later one, or it is the same. *)
LEMMA MonthFacts ==
    ASSUME NEW n \in Nat
    PROVE  /\ MonthAt(n) \in Date
           /\ \A k \in Nat : n < k =>
                 LET c == MonthAt(n)  d == MonthAt(k)  b == Before(MonthAt(k)) IN
                 /\ c.year < d.year \/ (c.year = d.year /\ c.month < d.month)
                 /\ c.year < b.year \/ (c.year = b.year /\ c.month <= b.month)
                 /\ b.year \in Int /\ b.month \in 1..12
  <1> DEFINE base == 12 * FirstMonth[1] + FirstMonth[2] - 1
  <1>1. base \in Nat
    BY ReportsAssumption
  <1>2. \A i : MonthAt(i) = [year |-> (base + i) \div 12, month |-> ((base + i) % 12) + 1]
    BY DEF MonthAt
  <1> HIDE DEF base
  <1>3. \A i \in Nat : MonthAt(i) \in Date
    BY <1>1, <1>2 DEF Date
  <1>4. ASSUME NEW k \in Nat, n < k
        PROVE  LET c == MonthAt(n)  d == MonthAt(k)  b == Before(MonthAt(k)) IN
                 /\ c.year < d.year \/ (c.year = d.year /\ c.month < d.month)
                 /\ c.year < b.year \/ (c.year = b.year /\ c.month <= b.month)
                 /\ b.year \in Int /\ b.month \in 1..12
    <2> DEFINE p == base + n
               q == base + k
    <2>1. p \in Nat /\ q \in Nat /\ p < q
      BY <1>1, <1>4
    <2>2. /\ MonthAt(n).year = p \div 12 /\ MonthAt(n).month = (p % 12) + 1
          /\ MonthAt(k).year = q \div 12 /\ MonthAt(k).month = (q % 12) + 1
      BY <1>2
    <2> HIDE DEF p, q
    <2>3. /\ p \div 12 < q \div 12 \/ (p \div 12 = q \div 12 /\ p % 12 < q % 12)
          /\ p \div 12 \in Nat /\ q \div 12 \in Nat /\ p % 12 \in 0..11 /\ q % 12 \in 0..11
      BY <2>1
    <2>4. CASE q % 12 = 0
      <3>1. Before(MonthAt(k)).year = q \div 12 - 1 /\ Before(MonthAt(k)).month = 12
        BY <2>2, <2>4 DEF Before
      <3>2. QED
        BY <2>2, <2>3, <2>4, <3>1
    <2>5. CASE q % 12 # 0
      <3>1. Before(MonthAt(k)).year = q \div 12 /\ Before(MonthAt(k)).month = q % 12
        BY <2>2, <2>3, <2>5 DEF Before
      <3>2. QED
        BY <2>2, <2>3, <2>5, <3>1
    <2>6. QED
      BY <2>4, <2>5
  <1>5. QED
    BY <1>3, <1>4

(* A window ends before that of a later month begins. *)
LEMMA WindowsApart ==
    ASSUME NEW n \in Nat, NEW k \in Nat, n < k
    PROVE  Window(n).last < Window(k).start /\ Day1(MonthAt(n)) < Day1(MonthAt(k))
  <1> DEFINE c == MonthAt(n)
             d == MonthAt(k)
             b == Before(MonthAt(k))
  <1>1. c \in Date /\ d \in Date
    BY MonthFacts
  <1>2. /\ c.year < d.year \/ (c.year = d.year /\ c.month < d.month)
        /\ c.year < b.year \/ (c.year = b.year /\ c.month <= b.month)
        /\ b.year \in Int /\ b.month \in 1..12
    BY MonthFacts
  <1>3. Window(n).last + 1 = Day1(c) /\ Window(k).start = Day1(b) /\ Window(n) \in Period
    BY <1>1, WindowFacts DEF Window
  <1> HIDE DEF b, c, d
  <1>4. c.year \in Nat /\ c.year >= -1 /\ c.month \in 1..12 /\ d.year \in Nat /\ d.month \in 1..12
    BY <1>1 DEF Date
  <1>5. Day1(c) < Day1(d)
    BY <1>2, <1>4, DayOrder DEF Day1
  <1>6. Day1(c) = Day1(b) \/ Day1(c) < Day1(b)
    <2>1. CASE c.year = b.year /\ c.month = b.month
      BY <2>1 DEF Day1
    <2>2. CASE c.year < b.year \/ (c.year = b.year /\ c.month < b.month)
      <3>1. from_calendar_date(c.year, c.month, 1) < from_calendar_date(b.year, b.month, 1)
        BY <1>2, <1>4, <2>2, DayOrder
      <3>2. QED
        BY <3>1 DEF Day1
    <2>3. QED
      BY <1>2, <1>4, <2>1, <2>2
  <1>7. Day1(c) \in Nat /\ Day1(b) \in Int
    <2>1. b.year >= -1
      BY <1>2, <1>4
    <2>2. QED
      <3>1. from_calendar_date(b.year, b.month, 1) \in Nat
        BY <1>2, <2>1, DayType
      <3>2. from_calendar_date(c.year, c.month, 1) \in Nat
        <4>1. c.year \in Int
          BY <1>4
        <4>2. QED
          BY <1>4, <4>1, DayType
      <3>3. QED
        BY <3>1, <3>2 DEF Day1
  <1>8. QED
    BY <1>3, <1>5, <1>6, <1>7 DEF Period, c, d

(* A window is a period. *)
LEMMA WindowType ==
    ASSUME NEW n \in Nat
    PROVE  /\ Window(n) \in Period /\ Window(n).start <= Window(n).last
           /\ Window(n).last + 1 = Day1(MonthAt(n))
           /\ Window(n).start \in Nat /\ Window(n).last \in Nat /\ Day1(MonthAt(n)) \in Nat
  <1>1. MonthAt(n) \in Date
    BY MonthFacts
  <1>2. /\ Window(n) \in Period /\ Window(n).start <= Window(n).last
        /\ Window(n).last + 1 = Day1(MonthAt(n))
    BY <1>1, WindowFacts DEF Window
  <1>3. QED
    BY <1>2 DEF Period

-----------------------------------------------------------------------------
(* The table. *)

(* ON CONFLICT DO NOTHING: the row is there afterwards, and rows that were there
   are as they were. *)
LEMMA EnqueueFacts ==
    ASSUME NEW u, NEW period, enqueue_pending(u, period)
    PROVE  LET k == <<u, period.start>> IN
           /\ Keys' = Keys \cup {k}
           /\ \A j \in Keys : report'[j] = report[j]
           /\ k \notin Keys => report'[k] = Pending(period.last)
  BY DEF enqueue_pending, Keys

(* A row inserted for a window of the months so far keeps the invariants of the
   rows, and rows only ever come in as pending. *)
LEMMA EnqueueRows ==
    ASSUME StateTyped, RowsWindowed, SummaryMatches, UNCHANGED month,
           NEW u \in Users, NEW n \in 0..month, enqueue_pending(u, Window(n))
    PROVE  (\A k \in Keys : report[k] \in Row)' /\ RowsWindowed' /\ SummaryMatches'
  <1> DEFINE k == <<u, Window(n).start>>
             new == Pending(Window(n).last)
  <1>1. /\ Keys' = Keys \cup {k}
        /\ \A j \in Keys : report'[j] = report[j]
        /\ k \notin Keys => report'[k] = new
    BY EnqueueFacts
  <1>2. n \in Nat /\ Window(n).last \in Nat
    BY WindowType DEF StateTyped
  <1>3. new \in Row /\ new.status = "pending" /\ new.summary = FALSE /\ new.last = Window(n).last
    BY <1>2 DEF Pending, Row
  <1>4. k[2] = Window(n).start
    OBVIOUS
  <1> HIDE DEF k, new
  <1>5. \A j \in Keys' : j \in Keys \/ (j = k /\ report'[j] = new)
    BY <1>1
  <1>6. (\A j \in Keys : report[j] \in Row)'
    BY <1>1, <1>3, <1>5 DEF StateTyped
  <1>7. RowsWindowed'
    <2>1. ASSUME NEW j \in Keys'
          PROVE  \E i \in 0..month : j[2] = Window(i).start /\ report'[j].last = Window(i).last
      <3>1. CASE j \in Keys
        BY <3>1, <1>1 DEF RowsWindowed
      <3>2. CASE j = k /\ report'[j] = new
        BY <3>2, <1>3, <1>4
      <3>3. QED
        BY <1>5, <3>1, <3>2
    <2>2. QED
      BY <2>1 DEF RowsWindowed, Window, previous_month_window, MonthAt
  <1>8. SummaryMatches'
    BY <1>1, <1>3, <1>5 DEF SummaryMatches
  <1>9. QED
    BY <1>6, <1>7, <1>8

(* A row finished by a worker keeps its period. *)
LEMMA FinishRows ==
    ASSUME StateTyped, RowsWindowed, SummaryMatches, UNCHANGED month, NEW h,
           \/ report' = [report EXCEPT ![h].status = "succeeded", ![h].summary = TRUE]
           \/ report' = [report EXCEPT ![h].status = "failed"]
    PROVE  /\ (\A k \in Keys : report[k] \in Row)' /\ RowsWindowed' /\ SummaryMatches'
           /\ Keys' = Keys
  <1> USE DEF Keys
  <1>1. Keys' = Keys
    OBVIOUS
  <1>2. \A k \in Keys : report[k] \in Row
    BY DEF StateTyped
  <1>3. \A k \in Keys \ {h} : report'[k] = report[k]
    OBVIOUS
  <1>4. h \in Keys => /\ report'[h] \in Row /\ report'[h].last = report[h].last
                      /\ \/ report'[h].status = "succeeded" /\ report'[h].summary
                         \/ report'[h].status = "failed"
    <2>1. CASE report' = [report EXCEPT ![h].status = "succeeded", ![h].summary = TRUE]
      <3>1. h \in Keys => report'[h] = [[report[h] EXCEPT !.status = "succeeded"] EXCEPT !.summary = TRUE]
        BY <2>1
      <3>2. QED
        BY <1>2, <3>1 DEF Row
    <2>2. CASE report' = [report EXCEPT ![h].status = "failed"]
      <3>1. h \in Keys => report'[h] = [report[h] EXCEPT !.status = "failed"]
        BY <2>2
      <3>2. QED
        BY <1>2, <3>1 DEF Row
    <2>3. QED
      BY <2>1, <2>2
  <1>5. \A k \in Keys : report'[k] \in Row /\ report'[k].last = report[k].last
    BY <1>2, <1>3, <1>4
  <1>6. RowsWindowed'
    <2>1. ASSUME NEW k \in Keys
          PROVE  \E i \in 0..month : k[2] = Window(i).start /\ report'[k].last = Window(i).last
      BY <1>5 DEF RowsWindowed
    <2>2. QED
      BY <1>1, <2>1 DEF RowsWindowed, Window, previous_month_window, MonthAt
  <1>7. SummaryMatches'
    BY <1>1, <1>3, <1>4 DEF SummaryMatches
  <1>8. QED
    BY <1>1, <1>3, <1>4, <1>5, <1>6, <1>7

(* A step that leaves the table alone and moves the calendar on by a month at most. *)
LEMMA QuietRows ==
    ASSUME StateTyped, RowsWindowed, SummaryMatches, UNCHANGED report,
           month' = month \/ month' = month + 1
    PROVE  (\A k \in Keys : report[k] \in Row)' /\ RowsWindowed' /\ SummaryMatches'
  <1> USE DEF Keys
  <1>1. month' \in Nat /\ \A n \in 0..month : n \in 0..month'
    BY DEF StateTyped
  <1>2. RowsWindowed'
    BY <1>1 DEF RowsWindowed, Window, previous_month_window, MonthAt
  <1>3. QED
    BY <1>2 DEF StateTyped, SummaryMatches

(* The loop of the cron where a step leaves it alone. *)
LEMMA QuietCron ==
    ASSUME StateTyped, CronWindowed, UNCHANGED cron, month' = month \/ month' = month + 1
    PROVE  /\ month' \in Nat
           /\ cron' \in CronLoop
           /\ CronWindowed'
  <1>1. month' \in Nat /\ \A n \in 0..month : n \in 0..month'
    BY DEF StateTyped
  <1>2. CronWindowed'
    BY <1>1 DEF CronWindowed, Window, previous_month_window, MonthAt
  <1>3. QED
    BY <1>1, <1>2 DEF StateTyped

(* It stays covered where no row disappears. *)
LEMMA QuietCovered ==
    ASSUME Covered, UNCHANGED cron, Keys \subseteq Keys'
    PROVE  Covered'
  BY DEF Covered

-----------------------------------------------------------------------------
(* The initial state and the actions. *)

(* No row and no loop of the cron. *)
LEMMA InitIInv == Init => IInv
  <1> SUFFICES ASSUME Init PROVE IInv
    OBVIOUS
  <1> USE DEF Init
  <1>1. Keys = {}
    BY DEF Keys
  <1>2. StateTyped
    BY <1>1 DEF StateTyped, NoCron, Period, CronLoop
  <1>3. CronWindowed /\ Covered
    BY DEF CronWindowed, Covered, NoCron
  <1>4. QED
    BY <1>1, <1>2, <1>3 DEF IInv, RowsWindowed, SummaryMatches

(* A request over HTTP. *)
LEMMA RequestIInv ==
    ASSUME IInv, NEW u \in Users, request_monthly_report(u)
    PROVE  IInv'
  <1>1. month \in Nat /\ month \in 0..month
    BY DEF IInv, StateTyped
  <1>2. enqueue_pending(u, Window(month)) /\ UNCHANGED <<month, cron>>
    BY DEF request_monthly_report, Window, today
  <1>3. (\A k \in Keys : report[k] \in Row)' /\ RowsWindowed' /\ SummaryMatches'
    BY <1>1, <1>2, EnqueueRows DEF IInv
  <1>4. /\ month' \in Nat
        /\ cron' \in CronLoop
        /\ CronWindowed'
    BY <1>2, QuietCron DEF IInv
  <1>5. Covered'
    <2>1. Keys \subseteq Keys'
      BY <1>2, EnqueueFacts
    <2>2. QED
      BY <1>2, <2>1, QuietCovered DEF IInv
  <1>6. QED
    BY <1>3, <1>4, <1>5 DEF IInv, StateTyped

(* The first of the month. *)
LEMMA RunEnqueueIInv ==
    ASSUME IInv, run_enqueue
    PROVE  IInv'
  <1>1. month \in Nat /\ month \in 0..month
    BY DEF IInv, StateTyped
  <1>2. PICK active \in SUBSET Users :
          cron' = [read |-> active, todo |-> active, period |-> Window(month), skipped |-> {}]
    BY DEF run_enqueue, Window, today
  <1>3. UNCHANGED <<month, report>>
    BY DEF run_enqueue
  <1>4. (\A k \in Keys : report[k] \in Row)' /\ RowsWindowed' /\ SummaryMatches'
    BY <1>3, QuietRows DEF IInv
  <1>5. cron' \in CronLoop
    BY <1>1, <1>2, WindowType DEF CronLoop
  <1>6. CronWindowed'
    <2>1. cron'.period = Window(month)
      BY <1>2
    <2>2. QED
      BY <1>1, <1>3, <2>1 DEF CronWindowed, Window, previous_month_window, MonthAt
  <1>7. Covered'
    <2>1. cron'.read \ cron'.todo = {}
      BY <1>2
    <2>2. QED
      BY <2>1 DEF Covered
  <1>8. QED
    BY <1>1, <1>3, <1>4, <1>5, <1>6, <1>7 DEF IInv, StateTyped

(* One user of the loop is inserted. *)
LEMMA EnqueueUserIInv ==
    ASSUME IInv, NEW u \in Users, enqueue_user(u)
    PROVE  IInv'
  <1> USE DEF enqueue_user
  <1>1. PICK n \in 0..month : cron.period = Window(n)
    BY DEF IInv, CronWindowed
  <1>2. enqueue_pending(u, Window(n)) /\ UNCHANGED month
    BY <1>1
  <1>3. (\A k \in Keys : report[k] \in Row)' /\ RowsWindowed' /\ SummaryMatches'
    BY <1>2, EnqueueRows DEF IInv
  <1>4. /\ cron' \in CronLoop
        /\ cron'.period = cron.period /\ cron'.read = cron.read
        /\ cron'.skipped = cron.skipped /\ cron'.todo = cron.todo \ {u}
    BY DEF IInv, StateTyped, CronLoop
  <1>5. CronWindowed'
    BY <1>1, <1>2, <1>4 DEF CronWindowed, Window, previous_month_window, MonthAt
  <1>6. Covered'
    <2>1. <<u, cron.period.start>> \in Keys' /\ Keys \subseteq Keys'
      BY EnqueueFacts
    <2>2. \A v \in cron'.read \ cron'.todo : v = u \/ v \in cron.read \ cron.todo
      BY <1>4
    <2>3. QED
      BY <1>4, <2>1, <2>2 DEF IInv, Covered
  <1>7. QED
    BY <1>2, <1>3, <1>4, <1>5, <1>6 DEF IInv, StateTyped

(* One user of the loop fails. *)
LEMMA EnqueueFailedIInv ==
    ASSUME IInv, NEW u \in Users, enqueue_user_failed(u)
    PROVE  IInv'
  <1> USE DEF enqueue_user_failed
  <1>1. UNCHANGED <<month, report>> /\ u \in cron.todo
    OBVIOUS
  <1>2. (\A k \in Keys : report[k] \in Row)' /\ RowsWindowed' /\ SummaryMatches'
    BY <1>1, QuietRows DEF IInv
  <1>3. /\ cron' \in CronLoop
        /\ cron'.period = cron.period /\ cron'.read = cron.read
        /\ cron'.skipped = cron.skipped \cup {u} /\ cron'.todo = cron.todo \ {u}
    BY DEF IInv, StateTyped, CronLoop
  <1>4. CronWindowed'
    BY <1>1, <1>3 DEF IInv, CronWindowed, Window, previous_month_window, MonthAt
  <1>5. Covered'
    <2>1. \A v \in cron'.read \ cron'.todo : v = u \/ v \in cron.read \ cron.todo
      BY <1>3
    <2>2. QED
      BY <1>1, <1>3, <2>1 DEF IInv, Covered, Keys
  <1>6. QED
    BY <1>1, <1>2, <1>3, <1>4, <1>5 DEF IInv, StateTyped

(* A worker writes the outcome of a report. *)
LEMMA FinishIInv ==
    ASSUME IInv, NEW w \in Ticks, mark_succeeded(w) \/ mark_failed(w)
    PROVE  IInv'
  <1> DEFINE h == Head(tick[w].todo)
  <1>1. /\ UNCHANGED <<month, cron>>
        /\ \/ report' = [report EXCEPT ![h].status = "succeeded", ![h].summary = TRUE]
           \/ report' = [report EXCEPT ![h].status = "failed"]
    BY DEF mark_succeeded, mark_failed
  <1> HIDE DEF h
  <1>2. /\ (\A k \in Keys : report[k] \in Row)' /\ RowsWindowed' /\ SummaryMatches'
        /\ Keys' = Keys
    BY <1>1, FinishRows DEF IInv
  <1>3. /\ month' \in Nat
        /\ cron' \in CronLoop
        /\ CronWindowed'
    BY <1>1, QuietCron DEF IInv
  <1>4. Covered'
    BY <1>1, <1>2, QuietCovered DEF IInv
  <1>5. QED
    BY <1>1, <1>2, <1>3, <1>4 DEF IInv, StateTyped

(* Steps that touch neither the table nor the cron's loop: fetches, failing
   statements, the month's turn and stuttering. *)
LEMMA QuietIInv ==
    ASSUME IInv, UNCHANGED <<report, cron>>, month' = month \/ month' = month + 1
    PROVE  IInv'
  <1>1. (\A k \in Keys : report[k] \in Row)' /\ RowsWindowed' /\ SummaryMatches'
    BY QuietRows DEF IInv
  <1>2. /\ month' \in Nat
        /\ cron' \in CronLoop
        /\ CronWindowed'
    BY QuietCron DEF IInv
  <1>3. Covered'
    BY QuietCovered DEF IInv, Keys
  <1>4. QED
    BY <1>1, <1>2, <1>3 DEF IInv, StateTyped

(* A restart. *)
LEMMA CrashIInv ==
    ASSUME IInv, Crash
    PROVE  IInv'
  <1>1. UNCHANGED <<month, report>> /\ cron' = NoCron
    BY DEF Crash
  <1>2. (\A k \in Keys : report[k] \in Row)' /\ RowsWindowed' /\ SummaryMatches'
    BY <1>1, QuietRows DEF IInv
  <1>3. /\ cron' \in CronLoop
        /\ cron'.todo = {} /\ cron'.read = {}
    BY <1>1 DEF NoCron, Period, CronLoop
  <1>4. QED
    BY <1>1, <1>2, <1>3 DEF IInv, StateTyped, CronWindowed, Covered

(* Every step keeps the invariant. *)
LEMMA NextIInv ==
    ASSUME IInv, [Next]_vars
    PROVE  IInv'
  <1>1. CASE UNCHANGED vars
    BY <1>1, QuietIInv DEF vars
  <1>2. ASSUME NEW u \in Users, request_monthly_report(u)
        PROVE  IInv'
    BY <1>2, RequestIInv
  <1>3. ASSUME NEW u \in Users, enqueue_user(u)
        PROVE  IInv'
    BY <1>3, EnqueueUserIInv
  <1>4. ASSUME NEW u \in Users, enqueue_user_failed(u)
        PROVE  IInv'
    BY <1>4, EnqueueFailedIInv
  <1>5. CASE run_enqueue
    BY <1>5, RunEnqueueIInv
  <1>6. ASSUME NEW w \in Ticks, run_worker_tick(w) \/ mark_succeeded_error(w) \/ mark_failed_error(w)
        PROVE  IInv'
    <2>1. UNCHANGED <<report, cron, month>>
      BY <1>6 DEF run_worker_tick, mark_succeeded_error, mark_failed_error
    <2>2. QED
      BY <2>1, QuietIInv
  <1>7. ASSUME NEW w \in Ticks, mark_succeeded(w) \/ mark_failed(w)
        PROVE  IInv'
    BY <1>7, FinishIInv
  <1>8. CASE NextMonth
    BY <1>8, QuietIInv DEF NextMonth
  <1>9. CASE Crash
    BY <1>9, CrashIInv
  <1>10. QED
    BY <1>1, <1>2, <1>3, <1>4, <1>5, <1>6, <1>7, <1>8, <1>9 DEF Next, Work

-----------------------------------------------------------------------------
(* The theorems. *)

(* The inductive invariant holds in every reachable state. *)
THEOREM Invariance == Spec => []IInv
  <1>1. IInv /\ [Next]_vars => IInv'
    BY NextIInv
  <1>2. QED
    BY InitIInv, <1>1, PTL DEF Spec

(* A pending report has no summary and a succeeded one has, whichever of the
   overlapping worker ticks wrote the row last. *)
THEOREM SummariesMatch == Spec => []SummaryMatches
  <1>1. IInv => SummaryMatches
    BY DEF IInv
  <1>2. QED
    BY Invariance, <1>1, PTL

(* When the loop of the first of the month is over every subscriber it read has a
   row for the period or an error in the log. *)
THEOREM LoopCovers == Spec => []EnqueueCovers
  <1>1. IInv => EnqueueCovers
    BY DEF IInv, Covered, EnqueueCovers
  <1>2. QED
    BY Invariance, <1>1, PTL

(* The rows' windows are those of months that are over, and no two reports of a
   user overlap. *)
LEMMA RowsTile == IInv => ReportsTile
  <1> SUFFICES ASSUME IInv PROVE ReportsTile
    OBVIOUS
  <1>1. month \in Nat /\ \A n \in 0..month : n \in Nat
    BY DEF IInv, StateTyped
  <1>2. ASSUME NEW k \in Keys
        PROVE  /\ \E n \in 0..month : k[2] = previous_month_window(MonthAt(n)).start
               /\ report[k].last < from_calendar_date(today.year, today.month, 1)
    <2>1. PICK n \in 0..month : k[2] = Window(n).start /\ report[k].last = Window(n).last
      BY DEF IInv, RowsWindowed
    <2>2. n = month \/ n < month
      BY <1>1
    <2>3. Window(n).last < Day1(MonthAt(n)) /\ Window(n).last \in Nat /\ Day1(MonthAt(n)) \in Nat
      BY <1>1, WindowType
    <2>4. Day1(MonthAt(month)) \in Nat
      BY <1>1, WindowType
    <2>5. Window(n).last < Day1(MonthAt(month))
      <3>1. CASE n = month
        BY <2>3, <3>1
      <3>2. CASE n < month
        <4>1. Day1(MonthAt(n)) < Day1(MonthAt(month))
          BY <1>1, <3>2, WindowsApart
        <4>2. QED
          BY <2>3, <2>4, <4>1
      <3>3. QED
        BY <2>2, <3>1, <3>2
    <2>6. QED
      BY <2>1, <2>5 DEF Window, Day1, today
  <1>3. ASSUME NEW j \in Keys, NEW k \in Keys, j[2] < k[2]
        PROVE  report[j].last < k[2]
    <2>1. PICK n \in 0..month : j[2] = Window(n).start /\ report[j].last = Window(n).last
      BY DEF IInv, RowsWindowed
    <2>2. PICK p \in 0..month : k[2] = Window(p).start /\ report[k].last = Window(p).last
      BY DEF IInv, RowsWindowed
    <2>3. n \in Nat /\ p \in Nat
      BY <1>1
    <2>4. /\ Window(n).start \in Nat /\ Window(n).last \in Nat /\ Window(n).start <= Window(n).last
          /\ Window(p).start \in Nat /\ Window(p).last \in Nat /\ Window(p).start <= Window(p).last
      BY <2>3, WindowType
    <2>5. CASE n < p
      BY <2>1, <2>2, <2>3, <2>5, WindowsApart
    <2>6. CASE p < n
      <3>1. Window(p).last < Window(n).start
        BY <2>3, <2>6, WindowsApart
      <3>2. QED
        BY <1>3, <2>1, <2>2, <2>4, <3>1
    <2>7. CASE n = p
      BY <1>3, <2>1, <2>2, <2>4, <2>7
    <2>8. QED
      BY <2>3, <2>5, <2>6, <2>7
  <1>4. QED
    BY <1>2, <1>3, AllWindowsTile DEF ReportsTile

(* The report periods are whole calendar months of every year, every row has the
   period of a month that is over, and no two reports of a user overlap. *)
THEOREM PeriodsTile == Spec => []ReportsTile
  BY Invariance, RowsTile, PTL
=============================================================================
