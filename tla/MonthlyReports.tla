--------------------------- MODULE MonthlyReports ---------------------------
(***************************************************************************)
(* Monthly reports: the monthly_reports table of src/billing/reports.rs    *)
(* and the two jobs of src/billing/reports_cron.rs that fill and drain it. *)
(*                                                                         *)
(* The scheduler starts a worker tick every 60 s and does not wait for the *)
(* one before; a second machine runs ticks of its own.  Nothing claims a   *)
(* row: two ticks may hold the same pending row.  A row's key is the user  *)
(* and the first day of the period, which previous_month_window derives    *)
(* from today's date.                                                      *)
(***************************************************************************)
EXTENDS Integers, Sequences, SequencesExt, Calendar

CONSTANTS
    Users,
    FirstMonth,          \* the month a behaviour starts in: <<year, month>>
    Years,               \* years previous_month_window is checked for
    LastMonth,           \* bound: months that pass
    Ticks,               \* slots of overlapping worker ticks
    WORKER_PARALLELISM,  \* rows fetched per tick
    MaxFaults            \* bound: failing statements and crashes

ASSUME ReportsAssumption ==
    /\ FirstMonth \in Nat \X (1..12) /\ Years \subseteq Nat
    /\ LastMonth \in Nat /\ WORKER_PARALLELISM \in Nat \ {0} /\ MaxFaults \in Nat

VARIABLES
    month,     \* months since FirstMonth
    due,       \* 03:00 on the 1st of this month has come and is not yet served
    report,    \* report[<<u, start>>]: the row of user u for the period that begins at start
    requests,  \* the rows in requested_at order
    cron,      \* the run_enqueue in progress
    tick,      \* tick[w]: the run_worker_tick in slot w
    faults     \* failures so far (bounded)

vars == <<month, due, report, requests, cron, tick, faults>>

Row == [status : {"pending", "succeeded", "failed"}, summary : BOOLEAN, last : Nat]
Pending(last) == [status |-> "pending", summary |-> FALSE, last |-> last]
Keys == DOMAIN report

(* todo are the fetched rows not yet finished; failing: the first one's
   mark_succeeded has failed. *)
NoTick == [todo |-> <<>>, failing |-> FALSE]

(* read are the subscribers the SELECT returned (history), todo those the loop has
   still to come to, and skipped those whose error it logged. *)
NoCron == [read |-> {}, todo |-> {}, period |-> [start |-> 0, last |-> 0], skipped |-> {}]

TypeOK ==
    /\ month \in 0..LastMonth
    /\ due \in BOOLEAN
    /\ Keys \subseteq Users \X Nat /\ \A k \in Keys : report[k] \in Row
    /\ requests \in Seq(Keys)
    /\ cron.read \subseteq Users /\ cron.todo \subseteq cron.read /\ cron.skipped \subseteq cron.read
    /\ tick \in [Ticks -> [todo : Seq(Keys), failing : BOOLEAN]]
    /\ faults \in 0..MaxFaults

Init ==
    /\ month = 0
    /\ due = FALSE
    /\ report = <<>>
    /\ requests = <<>>
    /\ cron = NoCron
    /\ tick = [w \in Ticks |-> NoTick]
    /\ faults = 0

-----------------------------------------------------------------------------
(* The month that is n months after the first one. *)
MonthAt(n) ==
    LET m == 12 * FirstMonth[1] + FirstMonth[2] - 1 + n
    IN  [year |-> m \div 12, month |-> (m % 12) + 1]

today == MonthAt(month)  \* the day of the month plays no part

(* Faulty variant: the year is kept when the month wraps. *)
previous_month_window_same_year(now) ==
    LET prev  == IF now.month = 1 THEN 12 ELSE now.month - 1
        start == from_calendar_date(now.year, prev, 1)
        next  == IF prev = 12 THEN from_calendar_date(now.year + 1, 1, 1)
                              ELSE from_calendar_date(now.year, prev + 1, 1)
    IN  [start |-> start, last |-> next - 1]

(* The first and the last day of the month before. *)
previous_month_window(now) ==
    LET prev  == IF now.month = 1 THEN 12 ELSE now.month - 1
        year  == IF now.month = 1 THEN now.year - 1 ELSE now.year
        start == from_calendar_date(year, prev, 1)
        next  == IF prev = 12 THEN from_calendar_date(year + 1, 1, 1)
                              ELSE from_calendar_date(year, prev + 1, 1)
    IN  [start |-> start, last |-> next - 1]

(* INSERT ... ON CONFLICT (user_id, period_start) DO NOTHING: a row that is there stays
   as it is, a failed one included. *)
enqueue_pending(u, period) ==
    LET k == <<u, period.start>> IN
    /\ report' = [j \in Keys \cup {k} |-> IF j \in Keys THEN report[j] ELSE Pending(period.last)]
    /\ requests' = IF k \in Keys THEN requests ELSE Append(requests, k)

(* Faulty variant: the oldest pending row is passed over. *)
fetch_pending_skips_oldest(limit) ==
    LET pending == SelectSeq(requests, LAMBDA k : report[k].status = "pending")
    IN  SubSeq(pending, 2, IF Len(pending) < limit THEN Len(pending) ELSE limit)

(* The oldest pending rows, at most limit of them. *)
fetch_pending(limit) ==
    LET pending == SelectSeq(requests, LAMBDA k : report[k].status = "pending")
    IN  SubSeq(pending, 1, IF Len(pending) < limit THEN Len(pending) ELSE limit)

(* POST /v1/reports/monthly *)
request_monthly_report(u) ==
    /\ enqueue_pending(u, previous_month_window(today))
    /\ UNCHANGED <<month, due, cron, tick, faults>>

-----------------------------------------------------------------------------
(* Job 1: the first of the month. *)

(* Subscriptions change from outside: any set of users may be the active or
   trialing ones the SELECT returns.  The loop is over before the next month. *)
run_enqueue ==
    /\ due /\ cron.todo = {}
    /\ due' = FALSE
    /\ \E active \in SUBSET Users :
          cron' = [read |-> active, todo |-> active,
                   period |-> previous_month_window(today), skipped |-> {}]
    /\ UNCHANGED <<month, report, requests, tick, faults>>

enqueue_user(u) ==
    /\ u \in cron.todo
    /\ enqueue_pending(u, cron.period)
    /\ cron' = [cron EXCEPT !.todo = @ \ {u}]
    /\ UNCHANGED <<month, due, tick, faults>>

(* Faulty variant: one user's error ends the loop. *)
enqueue_user_gives_up(u) ==
    /\ u \in cron.todo
    /\ faults < MaxFaults
    /\ faults' = faults + 1
    /\ cron' = [cron EXCEPT !.todo = {}, !.skipped = @ \cup {u}]
    /\ UNCHANGED <<month, due, report, requests, tick>>

(* An error is logged and the loop goes on with the next user. *)
enqueue_user_failed(u) ==
    /\ u \in cron.todo
    /\ faults < MaxFaults
    /\ faults' = faults + 1
    /\ cron' = [cron EXCEPT !.todo = @ \ {u}, !.skipped = @ \cup {u}]
    /\ UNCHANGED <<month, due, report, requests, tick>>

-----------------------------------------------------------------------------
(* Job 2: the worker. *)

run_worker_tick(w) ==
    /\ tick[w] = NoTick
    /\ fetch_pending(WORKER_PARALLELISM) # <<>>
    /\ tick' = [tick EXCEPT ![w].todo = fetch_pending(WORKER_PARALLELISM)]
    /\ UNCHANGED <<month, due, report, requests, cron, faults>>

(* `for t in tasks` pulls the next task out of a lazy iterator: a row's task is
   spawned only when the one before it has been awaited.  The head of todo is the
   row being generated. *)
Generating(w) == tick[w].todo # <<>> /\ ~tick[w].failing

Joined(w) == tick' = [tick EXCEPT ![w] = [todo |-> Tail(@.todo), failing |-> FALSE]]

(* Faulty variant: the summary is left for a second statement. *)
mark_succeeded_without_summary(w) ==
    /\ Generating(w)
    /\ report' = [report EXCEPT ![Head(tick[w].todo)].status = "succeeded"]
    /\ Joined(w)
    /\ UNCHANGED <<month, due, requests, cron, faults>>

(* UPDATE ... WHERE id, whatever the status is by now. *)
mark_succeeded(w) ==
    /\ Generating(w)
    /\ report' = [report EXCEPT ![Head(tick[w].todo)].status = "succeeded",
                               ![Head(tick[w].todo)].summary = TRUE]
    /\ Joined(w)
    /\ UNCHANGED <<month, due, requests, cron, faults>>

mark_succeeded_error(w) ==
    /\ Generating(w)
    /\ faults < MaxFaults
    /\ faults' = faults + 1
    /\ tick' = [tick EXCEPT ![w].failing = TRUE]
    /\ UNCHANGED <<month, due, report, requests, cron>>

(* summary_md is left as it is. *)
mark_failed(w) ==
    /\ tick[w].failing
    /\ report' = [report EXCEPT ![Head(tick[w].todo)].status = "failed"]
    /\ Joined(w)
    /\ UNCHANGED <<month, due, requests, cron, faults>>

mark_failed_error(w) ==
    /\ tick[w].failing
    /\ faults < MaxFaults
    /\ faults' = faults + 1
    /\ Joined(w)
    /\ UNCHANGED <<month, due, report, requests, cron>>

-----------------------------------------------------------------------------
(* The environment. *)

NextMonth ==
    /\ month < LastMonth
    /\ month' = month + 1
    /\ due' = TRUE
    /\ UNCHANGED <<report, requests, cron, tick, faults>>

(* A restart loses the jobs in progress, and the cron run if it was due then. *)
Crash ==
    /\ faults < MaxFaults
    /\ faults' = faults + 1
    /\ due' = FALSE
    /\ cron' = NoCron
    /\ tick' = [w \in Ticks |-> NoTick]
    /\ UNCHANGED <<month, report, requests>>

Work(w) == \/ run_worker_tick(w) \/ mark_succeeded(w) \/ mark_failed(w)

Next ==
    \/ \E u \in Users : request_monthly_report(u) \/ enqueue_user(u) \/ enqueue_user_failed(u)
    \/ run_enqueue
    \/ \E w \in Ticks : Work(w) \/ mark_succeeded_error(w) \/ mark_failed_error(w)
    \/ NextMonth
    \/ Crash

Spec == Init /\ [][Next]_vars

(* The scheduler keeps ticking and a tick's statements are answered. *)
FairSpec == Spec /\ \A w \in Ticks : WF_vars(Work(w))

-----------------------------------------------------------------------------
(* Properties. *)

(* 0004: summary_md is "NULL while status='pending'"; and a succeeded report has
   one, whichever tick wrote it last. *)
SummaryMatches ==
    \A k \in Keys : /\ report[k].status = "pending" => ~report[k].summary
                    /\ report[k].status = "succeeded" => report[k].summary

(* "Enqueue a pending report row for every active subscriber": once the loop is
   over every subscriber the cron read has a row for the period the cron began
   with, or an error in the log: whoever failed on the way, whoever asked for the
   same report meanwhile, and also when the loop ran on into the next month. *)
EnqueueCovers ==
    cron.todo = {} => \A u \in cron.read : u \in cron.skipped \/ <<u, cron.period.start>> \in Keys

Due(k) == k \in Keys /\ report[k].status = "pending"

(* "pending work survives across restarts": a pending row is finished in the
   end, behind older rows, failing statements and crashes. *)
PendingEnds ==
    \A u \in Users, n \in 0..LastMonth :
        Due(<<u, previous_month_window(MonthAt(n)).start>>)
            ~> ~Due(<<u, previous_month_window(MonthAt(n)).start>>)

(* The window of every month is the whole month before it: it ends the day before
   the month begins and has that month's length. *)
WindowsTile ==
    \A y \in Years, m \in 1..12 :
        LET w == previous_month_window([year |-> y, month |-> m]) IN
        /\ w.last + 1 = from_calendar_date(y, m, 1)
        /\ w.last - w.start + 1 = IF m = 1 THEN DaysIn(y - 1, 12) ELSE DaysIn(y, m - 1)

(* "The report period is the previous full calendar month": over year ends, in leap
   and in century years the windows are whole months and leave no gap; every row
   has the window of a month that is over, and no two reports of a user overlap,
   whoever asked for them and when. *)
ReportsTile ==
    /\ WindowsTile
    /\ \A k \in Keys : /\ \E n \in 0..month : k[2] = previous_month_window(MonthAt(n)).start
                       /\ report[k].last < from_calendar_date(today.year, today.month, 1)
    /\ \A j, k \in Keys : j[1] = k[1] /\ j[2] < k[2] => report[j].last < k[2]
=============================================================================
