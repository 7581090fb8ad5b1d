------------------------------- MODULE Monitor -------------------------------
(***************************************************************************)
(* The pipeline together with those who watch it through the REST API of    *)
(* engine/src/api.rs: analysis/capture_telemetry.py, which asks for /stats  *)
(* and then for /alerts, one round after the other, and the polling loop of *)
(* dashboard/index.html, whose timer starts a poll without waiting for the  *)
(* one before.                                                              *)
(*                                                                          *)
(* The stats handler loads its four fields one by one while workers count;  *)
(* the alerts handler copies its page under the lock, in one step.  Any     *)
(* request may fail: refused, timed out, or answered 401.                   *)
(***************************************************************************)
EXTENDS Pipeline, Lists, SequencesExt

CONSTANTS
  PageCap,          \* no page is longer, whatever limit is asked for
  CaptureLimit,     \* ?limit= of capture_telemetry.py
  DashboardLimit,   \* ?limit= of the dashboard
  Millisecond,      \* Millisecond[n]: timestamp_ms of the n-th event
  MaxPolls          \* bound on the rounds and polls begun, together

ASSUME MonitorAssumption ==
  /\ {PageCap, CaptureLimit, DashboardLimit, MaxPolls} \subseteq Nat
  /\ \A n \in 1..MaxProduced : Millisecond[n] \in Nat

VARIABLES
  phase,            \* of the capture: "sleep", "stats" or "alerts"
  got,              \* the fields its /stats request has loaded so far
  rounds,           \* rounds it has begun
  stats_rows, alert_rows, seen_ids,
  polls,            \* the dashboard's polls, in the order they began
  shown,            \* what the dashboard shows: the answers of one poll
  fetched,          \* history: alerts recorded when the capture last got a page
  outpaced          \* history: alerts that left the page between two of them

captureVars == <<phase, got, rounds, stats_rows, alert_rows, seen_ids, fetched, outpaced>>
dashboardVars == <<polls, shown>>
monitorVars == <<pipelineVars, captureVars, dashboardVars>>

MonitorInit ==
  /\ PipelineInit
  /\ phase = "sleep" /\ got = <<>> /\ rounds = 0
  /\ stats_rows = <<>> /\ alert_rows = <<>> /\ seen_ids = {}
  /\ polls = <<>>
  /\ shown = [poll |-> 0, processed |-> 0, page |-> <<>>]
  /\ fetched = 0 /\ outpaced = {}

-----------------------------------------------------------------------------
(* The handlers of the API *)

\* events_processed, events_dropped, alerts_fired, queue_backpressure_events:
\* the last is another load of the second.
Field(i) == <<events_processed, events_dropped, alerts_fired, events_dropped>>[i]

\* Mutant: the oldest alerts of the store instead of the newest.
PageFromFront(limit) == SubSeq(alerts, 1, Min({limit, PageCap, Len(alerts)}))

\* alerts.iter().rev().take(limit), with limit.min(5000)
Page(limit) ==
  SubSeq(Reverse(alerts), 1, Min({limit, PageCap, Len(alerts)}))

-----------------------------------------------------------------------------
(* capture_telemetry.py *)

\* The next turn of the loop, while time is left.
CaptureBegin ==
  /\ phase = "sleep" /\ rounds + Len(polls) < MaxPolls
  /\ phase' = "stats" /\ got' = <<>> /\ rounds' = rounds + 1
  /\ UNCHANGED <<pipelineVars, dashboardVars, stats_rows, alert_rows, seen_ids,
                 fetched, outpaced>>

\* Mutant: the handler empties the counter it reads, swap(0) instead of load.
CaptureLoadSwaps ==
  /\ phase = "stats" /\ Len(got) < 4
  /\ got' = Append(got, Field(Len(got) + 1))
  /\ events_processed' = 0
  /\ UNCHANGED <<producerVars, workerVars, queues, alerts, events_dropped, alerts_fired,
                 handled, recorded, dashboardVars, phase, rounds, stats_rows, alert_rows,
                 seen_ids, fetched, outpaced>>

\* The stats handler loads its next field.
CaptureLoad ==
  /\ phase = "stats" /\ Len(got) < 4
  /\ got' = Append(got, Field(Len(got) + 1))
  /\ UNCHANGED <<pipelineVars, dashboardVars, phase, rounds, stats_rows, alert_rows,
                 seen_ids, fetched, outpaced>>

\* stats_rows.append(...)
CaptureStats ==
  /\ phase = "stats" /\ Len(got) = 4
  /\ stats_rows' = Append(stats_rows, got)
  /\ phase' = "alerts" /\ got' = <<>>
  /\ UNCHANGED <<pipelineVars, dashboardVars, rounds, alert_rows, seen_ids,
                 fetched, outpaced>>

\* Mutant: alerts are told apart by their id alone.
KeyIsId(a) == a.id

\* The key of an alert; every detector has one rule_name in this model.
Key(a) == <<a.id, a.detector, Millisecond[a.n]>>

\* The alerts of a page at the positions where their key appears first.
FirstOnPage(page) ==
  {n \in DOMAIN page : \A m \in DOMAIN page : m < n => Key(page[m]) # Key(page[n])}

\* Mutant: every page starts with a fresh set of keys.
KeptForgets(page) == Retained(page, FirstOnPage(page))

\* The alerts of a page whose key is new, each key once.
Kept(page) == Retained(page, {n \in FirstOnPage(page) : Key(page[n]) \notin seen_ids})

\* The page arrives and its new alerts are kept.
CaptureAlerts ==
  /\ phase = "alerts"
  /\ alert_rows' = alert_rows \o Kept(Page(CaptureLimit))
  /\ seen_ids' = seen_ids \cup {Key(a) : a \in Range(Page(CaptureLimit))}
  /\ phase' = "sleep"
  /\ outpaced' = outpaced \cup (fetched + 1)..(Len(recorded) - Len(Page(CaptureLimit)))
  /\ fetched' = Len(recorded)
  /\ UNCHANGED <<pipelineVars, dashboardVars, got, rounds, stats_rows>>

\* except Exception: what the round has appended so far stays.
CaptureFails ==
  /\ phase \in {"stats", "alerts"}
  /\ phase' = "sleep" /\ got' = <<>>
  /\ UNCHANGED <<pipelineVars, dashboardVars, rounds, stats_rows, alert_rows, seen_ids,
                 fetched, outpaced>>

-----------------------------------------------------------------------------
(* The dashboard *)

\* poll(): both requests go out.  awaits is what the poll still has to do, and
\* during the set of polls that are under way when it begins.
PollBegin ==
  /\ rounds + Len(polls) < MaxPolls
  /\ polls' = Append(polls, [awaits |-> {"stats", "alerts", "apply"},
                             processed |-> 0, page |-> <<>>,
                             during |-> {i \in DOMAIN polls : polls[i].awaits # {}}])
  /\ UNCHANGED <<pipelineVars, captureVars, shown>>

\* Mutant: the handler empties the counter it reads, swap(0) instead of load.
PollStatsSwaps(i) ==
  /\ "stats" \in polls[i].awaits
  /\ polls' = [polls EXCEPT ![i].awaits = @ \ {"stats"}, ![i].processed = Field(1)]
  /\ events_processed' = 0
  /\ UNCHANGED <<producerVars, workerVars, queues, alerts, events_dropped, alerts_fired,
                 handled, recorded, captureVars, shown>>

\* The answer to /stats; only the first field is computed with.
PollStats(i) ==
  /\ "stats" \in polls[i].awaits
  /\ polls' = [polls EXCEPT ![i].awaits = @ \ {"stats"}, ![i].processed = Field(1)]
  /\ UNCHANGED <<pipelineVars, captureVars, shown>>

\* The answer to /alerts.
PollAlerts(i) ==
  /\ "alerts" \in polls[i].awaits
  /\ polls' = [polls EXCEPT ![i].awaits = @ \ {"alerts"}, ![i].page = Page(DashboardLimit)]
  /\ UNCHANGED <<pipelineVars, captureVars, shown>>

\* The poll is over and its answers are dropped.
Over(i) == [polls EXCEPT ![i].awaits = {}, ![i].processed = 0, ![i].page = <<>>]

\* Promise.all is fulfilled: the answers replace whatever is shown.
PollApply(i) ==
  /\ polls[i].awaits = {"apply"}
  /\ shown' = [poll |-> i, processed |-> polls[i].processed, page |-> polls[i].page]
  /\ polls' = Over(i)
  /\ UNCHANGED <<pipelineVars, captureVars>>

\* One of the two requests fails: "poll failed", nothing is shown.
PollFails(i) ==
  /\ polls[i].awaits \cap {"stats", "alerts"} # {}
  /\ polls' = Over(i)
  /\ UNCHANGED <<pipelineVars, captureVars, shown>>

-----------------------------------------------------------------------------

CaptureStep ==
  CaptureBegin \/ CaptureLoad \/ CaptureStats \/ CaptureAlerts \/ CaptureFails

DashboardStep ==
  \/ PollBegin
  \/ \E i \in DOMAIN polls : PollStats(i) \/ PollAlerts(i) \/ PollApply(i) \/ PollFails(i)

MonitorNext ==
  \/ PipelineNext /\ UNCHANGED <<captureVars, dashboardVars>>
  \/ CaptureStep
  \/ DashboardStep

MonitorSpec == MonitorInit /\ [][MonitorNext]_monitorVars

-----------------------------------------------------------------------------
(* Properties *)

\* The page the dashboard shows is the newest-first list of the alerts up to
\* some moment, with no gap and no alert of a later moment in it, although the
\* store is changed by several workers and forgets.
ShownIsSnapshot ==
  \E m \in 0..Len(recorded) :
    /\ Len(shown.page) = Min({DashboardLimit, PageCap, ALERT_HISTORY_CAP, m})
    /\ \A i \in DOMAIN shown.page : shown.page[i] = recorded[m - i + 1]

\* The series that analyze_alerts.py takes differences of never falls, though a
\* row mixes four instants: the drops of one row, loaded twice, do not fall
\* within the row or from it to the next.
SeriesNeverFalls ==
  /\ \A i \in DOMAIN stats_rows : stats_rows[i][2] <= stats_rows[i][4]
  /\ \A i, j \in DOMAIN stats_rows : i < j =>
       /\ \A f \in 1..4 : stats_rows[i][f] <= stats_rows[j][f]
       /\ stats_rows[i][4] <= stats_rows[j][2]

\* "captured {len(alert_rows)} unique alerts": no alert is written twice,
\* however many pages it was on and whichever rounds failed in between.
CapturedOnce ==
  \A i, j \in DOMAIN alert_rows : i # j => alert_rows[i] # alert_rows[j]

\* Of the alerts recorded before the last page, the capture misses only those
\* that left the page between two rounds that got one, and alerts of another
\* worker with the same id, detector and millisecond as one it has.
CaptureMissesLittle ==
  \A i \in (1..fetched) \ outpaced :
    \E r \in DOMAIN alert_rows :
      /\ alert_rows[r].id = recorded[i].id
      /\ alert_rows[r].detector = recorded[i].detector
      /\ Millisecond[alert_rows[r].n] = Millisecond[recorded[i].n]
      /\ alert_rows[r] # recorded[i] => Shard(alert_rows[r]) # Shard(recorded[i])

\* The number of processed events that the dashboard shows, and its events per
\* second with it, goes back only between two polls that were under way at the
\* same time.
GoesBackOnlyOnOverlap ==
  [][shown'.processed < shown.processed =>
       \/ shown.poll \in polls[shown'.poll].during
       \/ shown'.poll \in polls[shown.poll].during]_monitorVars
=============================================================================
