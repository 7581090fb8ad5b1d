---------------------------- MODULE MonitorProofs ----------------------------
(***************************************************************************)
(* Proofs about those who watch the pipeline through engine/src/api.rs -    *)
(* analysis/capture_telemetry.py and dashboard/index.html - for every       *)
(* number of workers, rounds and polls, and every limit and cap.            *)
(***************************************************************************)
EXTENDS Monitor, PipelineProofs

-----------------------------------------------------------------------------
(* The pipeline, watched. *)

\* What the watchers do leaves the pipeline as it is.
LEMMA PipelineStep ==
  MonitorNext => [PipelineNext]_pipelineVars
BY DEF MonitorNext, CaptureStep, DashboardStep, CaptureBegin, CaptureLoad, CaptureStats,
       CaptureAlerts, CaptureFails, PollBegin, PollStats, PollAlerts, PollApply, PollFails

\* The pipeline that is watched is the pipeline of Pipeline, so that all that
\* holds of it unwatched still does.
THEOREM WatchingChangesNothing ==
  MonitorSpec => PipelineSpec
<1>1. MonitorInit => PipelineInit
  BY DEF MonitorInit
<1>2. [MonitorNext]_monitorVars => [PipelineNext]_pipelineVars
  BY PipelineStep DEF monitorVars
<1> QED BY <1>1, <1>2, PTL DEF MonitorSpec, PipelineSpec

\* The statistics and the history of the store only grow.
LEMMA PipelineGrows ==
  ASSUME PipelineShape, [PipelineNext]_pipelineVars
  PROVE  /\ events_processed <= events_processed'
         /\ events_dropped <= events_dropped'
         /\ alerts_fired <= alerts_fired'
         /\ Len(recorded) \in Nat /\ Len(recorded') \in Nat
         /\ Len(recorded) <= Len(recorded')
         /\ \A i \in 1..Len(recorded) : recorded'[i] = recorded[i]
<1>0. /\ events_processed \in Nat /\ events_dropped \in Nat /\ alerts_fired \in Nat
      /\ recorded \in Seq(PipelineAlerts) /\ Len(recorded) \in Nat
  BY LenProperties DEF PipelineShape
<1>1. CASE UNCHANGED <<events_processed, events_dropped, alerts_fired, recorded>>
  BY <1>0, <1>1
<1>2. CASE CountDropped
  BY <1>0, <1>2 DEF CountDropped
<1>3. ASSUME NEW w \in Workers, CountProcessed(w)
      PROVE  events_processed' = events_processed + 1
             /\ UNCHANGED <<events_dropped, alerts_fired, recorded>>
  BY <1>3 DEF CountProcessed
<1>4. ASSUME NEW w \in Workers, RecordCount(w)
      PROVE  alerts_fired' = alerts_fired + 1
             /\ UNCHANGED <<events_processed, events_dropped, recorded>>
  BY <1>4 DEF RecordCount
<1>5. ASSUME NEW w \in Workers, RecordStore(w)
      PROVE  /\ UNCHANGED <<events_processed, events_dropped, alerts_fired>>
             /\ Len(recorded') = Len(recorded) + 1
             /\ \A i \in 1..Len(recorded) : recorded'[i] = recorded[i]
  <2>1. PICK a \in PipelineAlerts : a = Head(pending[w])
    BY <1>5, TailElements DEF RecordStore, PipelineShape
  <2>2. recorded' = Append(recorded, a)
    BY <1>5, <2>1 DEF RecordStore
  <2> QED BY <1>0, <1>5, <2>2, AppendElements DEF RecordStore
<1>6. ASSUME NEW w \in Workers, CountProcessed(w) \/ RecordCount(w) \/ RecordStore(w)
      PROVE  /\ events_processed <= events_processed'
             /\ events_dropped <= events_dropped'
             /\ alerts_fired <= alerts_fired'
             /\ Len(recorded) \in Nat /\ Len(recorded') \in Nat
             /\ Len(recorded) <= Len(recorded')
             /\ \A i \in 1..Len(recorded) : recorded'[i] = recorded[i]
  BY <1>0, <1>3, <1>4, <1>5, <1>6
<1> QED BY <1>0, <1>1, <1>2, <1>6
        DEF PipelineNext, ProducerStep, WorkerStep, NextBatch, PushOk, PushErr,
            PopEvent, Detect, pipelineVars


-----------------------------------------------------------------------------
(* The series of /stats. *)

\* What the capture has read lies below the counters, each row below every later
\* one, and a row's second reading of the drops below the next row's first.
SeriesInv ==
  /\ phase \in {"sleep", "stats", "alerts"}
  /\ got \in Seq(Nat) /\ Len(got) <= 4
  /\ stats_rows \in Seq({row \in Seq(Nat) : Len(row) = 4})
  /\ \A f \in 1..Len(got) : got[f] <= Field(f)
  /\ Len(got) = 4 => got[2] <= got[4]
  /\ \A i \in 1..Len(stats_rows) :
       /\ \A f \in 1..4 : stats_rows[i][f] <= Field(f)
       /\ \A f \in 1..Len(got) : stats_rows[i][f] <= got[f]
       /\ Len(got) >= 2 => stats_rows[i][4] <= got[2]
  /\ SeriesNeverFalls

\* The counters behind the four fields are numbers that only grow.
LEMMA Fields ==
  ASSUME PipelineShape
  PROVE  /\ \A f \in 1..4 : Field(f) \in Nat
         /\ Field(4) = Field(2)
BY DEF PipelineShape, Field

LEMMA FieldsGrow ==
  ASSUME PipelineShape, PipelineShape', [PipelineNext]_pipelineVars
  PROVE  \A f \in 1..4 : Field(f) \in Nat /\ Field(f)' \in Nat /\ Field(f) <= Field(f)'
<1>1. /\ events_processed <= events_processed'
      /\ events_dropped <= events_dropped'
      /\ alerts_fired <= alerts_fired'
  BY PipelineGrows
<1>2. /\ events_processed \in Nat /\ events_dropped \in Nat /\ alerts_fired \in Nat
      /\ events_processed' \in Nat /\ events_dropped' \in Nat /\ alerts_fired' \in Nat
  BY DEF PipelineShape
<1> QED BY <1>1, <1>2 DEF Field

\* The rows written so far are rows of four numbers.
LEMMA Rows ==
  ASSUME SeriesInv
  PROVE  /\ Len(stats_rows) \in Nat /\ DOMAIN stats_rows = 1..Len(stats_rows)
         /\ \A i \in 1..Len(stats_rows) : \A f \in 1..4 : stats_rows[i][f] \in Nat
         /\ Len(got) \in Nat /\ \A f \in 1..Len(got) : got[f] \in Nat
<1> DEFINE R == {row \in Seq(Nat) : Len(row) = 4}
<1>1. stats_rows \in Seq(R) /\ got \in Seq(Nat)
  BY DEF SeriesInv
<1>2. \A row \in R : \A f \in 1..4 : row[f] \in Nat
  BY ElementOfSeq
<1> HIDE DEF R
<1>3. \A i \in 1..Len(stats_rows) : stats_rows[i] \in R
  BY <1>1, ElementOfSeq
<1>4. \A f \in 1..Len(got) : got[f] \in Nat
  BY <1>1, ElementOfSeq
<1> QED BY <1>1, <1>2, <1>3, <1>4, LenProperties

LEMMA InitSeries ==
  ASSUME MonitorInit
  PROVE  SeriesInv
<1>1. /\ got = <<>> /\ stats_rows = <<>> /\ Len(<<>>) = 0 /\ DOMAIN stats_rows = {}
      /\ \A S : <<>> \in Seq(S)
      /\ \A i : i \notin 1..0
  BY EmptySeq DEF MonitorInit
<1> QED BY <1>1 DEF MonitorInit, SeriesInv, SeriesNeverFalls

\* While nothing is read, the counters run ahead of what has been.
LEMMA QuietSeries ==
  ASSUME PipelineShape, PipelineShape', [PipelineNext]_pipelineVars, SeriesInv,
         UNCHANGED stats_rows, phase' \in {"sleep", "stats", "alerts"},
         got' = got \/ got' = <<>>
  PROVE  SeriesInv'
<1>1. /\ Len(stats_rows) \in Nat
      /\ \A i \in 1..Len(stats_rows) : \A f \in 1..4 : stats_rows[i][f] \in Nat
      /\ Len(got) \in Nat /\ \A f \in 1..Len(got) : got[f] \in Nat
  BY Rows
<1>2. \A f \in 1..4 : Field(f) \in Nat /\ Field(f)' \in Nat /\ Field(f) <= Field(f)'
  BY FieldsGrow
<1>3. \A x \in Nat, f \in 1..4 : x <= Field(f) => x <= Field(f)'
  BY <1>2
<1>4. SeriesNeverFalls'
  BY DEF SeriesInv, SeriesNeverFalls
<1>5. \A i \in 1..Len(stats_rows) : \A f \in 1..4 : stats_rows[i][f] <= Field(f)'
  BY <1>1, <1>3 DEF SeriesInv
<1>6. CASE got' = got
  <2>1. \A f \in 1..Len(got) : f \in 1..4
    BY <1>1 DEF SeriesInv
  <2>2. \A f \in 1..Len(got) : got[f] <= Field(f)'
    BY <1>1, <1>3, <2>1 DEF SeriesInv
  <2> QED BY <1>4, <1>5, <1>6, <2>2 DEF SeriesInv
<1>7. CASE got' = <<>>
  <2>1. got' \in Seq(Nat) /\ Len(got') = 0
    BY <1>7, EmptySeq
  <2>2. \A f : f \notin 1..0
    OBVIOUS
  <2> QED BY <1>4, <1>5, <2>1, <2>2 DEF SeriesInv
<1> QED BY <1>6, <1>7

\* How what was read compares with the counters, and within itself.
LEMMA Readings ==
  ASSUME SeriesInv
  PROVE  /\ \A f \in 1..Len(got) : got[f] <= Field(f)
         /\ Len(got) = 4 => got[2] <= got[4]
         /\ \A i \in 1..Len(stats_rows) : \A f \in 1..4 : stats_rows[i][f] <= Field(f)
         /\ \A i \in 1..Len(stats_rows) : \A f \in 1..Len(got) : stats_rows[i][f] <= got[f]
         /\ Len(got) >= 2 => \A i \in 1..Len(stats_rows) : stats_rows[i][4] <= got[2]
BY DEF SeriesInv

\* The next field that is loaded is no lower than any row's, and the second load
\* of the drops no lower than the first.
LEMMA LoadSeries ==
  ASSUME PipelineShape, SeriesInv, CaptureLoad
  PROVE  SeriesInv'
<1>1. /\ Len(stats_rows) \in Nat
      /\ \A i \in 1..Len(stats_rows) : \A f \in 1..4 : stats_rows[i][f] \in Nat
      /\ Len(got) \in Nat /\ \A f \in 1..Len(got) : got[f] \in Nat
  BY Rows
<1>2. PICK g \in Nat : g = Len(got) /\ g <= 3
  BY <1>1 DEF CaptureLoad
<1>3. PICK x \in Nat : x = Field(g + 1)
  BY <1>2, Fields
<1>4. /\ got \in Seq(Nat) /\ got' = Append(got, x) /\ UNCHANGED <<stats_rows, phase>>
  <2>1. got \in Seq(Nat) /\ UNCHANGED <<stats_rows, phase>>
    BY DEF CaptureLoad, SeriesInv
  <2>2. got' = Append(got, Field(Len(got) + 1))
    BY DEF CaptureLoad
  <2> QED BY <1>2, <1>3, <2>1, <2>2
<1>5. /\ got' \in Seq(Nat) /\ Len(got') = g + 1 /\ got'[g + 1] = x
      /\ \A f \in 1..g : got'[f] = got[f]
  BY <1>2, <1>4, AppendElements
<1>6. \A f : Field(f)' = Field(f)
  <2>1. UNCHANGED <<events_processed, events_dropped, alerts_fired>>
    BY DEF CaptureLoad, pipelineVars
  <2> QED BY <2>1 DEF Field
<1>7. /\ \A f \in 1..g : got[f] <= Field(f)
      /\ \A i \in 1..Len(stats_rows) : \A f \in 1..4 : stats_rows[i][f] <= Field(f)
      /\ \A i \in 1..Len(stats_rows) : \A f \in 1..g : stats_rows[i][f] <= got[f]
      /\ g >= 2 => \A i \in 1..Len(stats_rows) : stats_rows[i][4] <= got[2]
  BY <1>2, Readings
<1>8. \A f \in 1..(g + 1) : f \in 1..g \/ f = g + 1
  BY <1>2
<1>9. \A f \in 1..(g + 1) : got'[f] <= Field(f)
  BY <1>3, <1>5, <1>7, <1>8
<1>10. g + 1 = 4 => got'[2] <= got'[4]
  <2>1. g + 1 = 4 => 2 \in 1..g /\ got'[4] = Field(4)
    BY <1>3, <1>5
  <2> QED BY <1>5, <1>7, <2>1, Fields
<1>11. \A i \in 1..Len(stats_rows) : \A f \in 1..(g + 1) : stats_rows[i][f] <= got'[f]
  <2>1. g + 1 \in 1..4
    BY <1>2
  <2>2. ASSUME NEW i \in 1..Len(stats_rows)
        PROVE  stats_rows[i][g + 1] <= got'[g + 1]
    BY <1>3, <1>5, <1>7, <2>1
  <2> QED BY <1>5, <1>7, <1>8, <2>2
<1>12. g + 1 >= 2 => \A i \in 1..Len(stats_rows) : stats_rows[i][4] <= got'[2]
  <2>1. CASE g = 1
    <3>1. got'[2] = Field(4)
      BY <1>3, <1>5, <2>1, Fields
    <3> QED BY <1>7, <3>1
  <2>2. CASE g >= 2
    BY <1>5, <1>7, <2>2
  <2> QED BY <1>2, <2>1, <2>2
<1>13. SeriesNeverFalls'
  BY <1>4 DEF SeriesInv, SeriesNeverFalls
<1>14. phase' \in {"sleep", "stats", "alerts"}
       /\ stats_rows' \in Seq({row \in Seq(Nat) : Len(row) = 4})
  BY <1>4 DEF SeriesInv
<1>15. g + 1 <= 4
  BY <1>2
<1> QED BY <1>4, <1>5, <1>6, <1>7, <1>9, <1>10, <1>11, <1>12, <1>13, <1>14, <1>15
        DEF SeriesInv

\* A complete reading becomes a row, no lower than those before it.
LEMMA StatsSeries ==
  ASSUME PipelineShape, SeriesInv, CaptureStats
  PROVE  SeriesInv'
<1> DEFINE R == {row \in Seq(Nat) : Len(row) = 4}
<1>1. /\ Len(stats_rows) \in Nat
      /\ \A i \in 1..Len(stats_rows) : \A f \in 1..4 : stats_rows[i][f] \in Nat
      /\ \A f \in 1..Len(got) : got[f] \in Nat
  BY Rows
<1>2. /\ got \in R /\ Len(got) = 4 /\ stats_rows \in Seq(R)
      /\ stats_rows' = Append(stats_rows, got)
      /\ got' = <<>> /\ phase' = "alerts" /\ UNCHANGED pipelineVars
  BY DEF CaptureStats, SeriesInv
<1> HIDE DEF R
<1>3. PICK k \in Nat : k = Len(stats_rows)
  BY <1>1
<1>4. /\ stats_rows' \in Seq(R) /\ Len(stats_rows') = k + 1
      /\ DOMAIN stats_rows' = 1..(k + 1) /\ stats_rows'[k + 1] = got
      /\ \A i \in 1..k : stats_rows'[i] = stats_rows[i]
  BY <1>2, <1>3, AppendElements
<1>5. \A f : Field(f)' = Field(f)
  BY <1>2 DEF Field, pipelineVars
<1>6. /\ \A f \in 1..4 : got[f] <= Field(f)
      /\ got[2] <= got[4]
      /\ \A i \in 1..k : \A f \in 1..4 : stats_rows[i][f] <= Field(f)
      /\ \A i \in 1..k : \A f \in 1..4 : stats_rows[i][f] <= got[f]
      /\ \A i \in 1..k : stats_rows[i][4] <= got[2]
  BY <1>2, <1>3, Readings
<1>7. /\ \A i \in 1..k : stats_rows[i][2] <= stats_rows[i][4]
      /\ \A i, j \in 1..k : i < j =>
           /\ \A f \in 1..4 : stats_rows[i][f] <= stats_rows[j][f]
           /\ stats_rows[i][4] <= stats_rows[j][2]
  <2>1. SeriesNeverFalls /\ DOMAIN stats_rows = 1..k
    BY <1>3, Rows DEF SeriesInv
  <2> QED BY <2>1 DEF SeriesNeverFalls
<1>8. \A i \in 1..(k + 1) : i \in 1..k \/ i = k + 1
  OBVIOUS
<1>9. \A i \in 1..(k + 1) : /\ stats_rows'[i][2] <= stats_rows'[i][4]
                            /\ \A f \in 1..4 : stats_rows'[i][f] <= Field(f)
  BY <1>4, <1>6, <1>7, <1>8
<1>10. ASSUME NEW i \in 1..(k + 1), NEW j \in 1..(k + 1), i < j
       PROVE  /\ \A f \in 1..4 : stats_rows'[i][f] <= stats_rows'[j][f]
              /\ stats_rows'[i][4] <= stats_rows'[j][2]
  <2>1. i \in 1..k /\ stats_rows'[i] = stats_rows[i]
    BY <1>4, <1>10
  <2>2. CASE j = k + 1
    BY <1>4, <1>6, <2>1, <2>2
  <2>3. CASE j \in 1..k
    BY <1>4, <1>7, <1>10, <2>1, <2>3
  <2> QED BY <1>8, <2>2, <2>3
<1>11. SeriesNeverFalls'
  BY <1>4, <1>9, <1>10 DEF SeriesNeverFalls
<1>12. got' \in Seq(Nat) /\ Len(got') = 0 /\ \A f : f \notin 1..0
  BY <1>2, EmptySeq
<1>13. stats_rows' \in Seq({row \in Seq(Nat) : Len(row) = 4})
  BY <1>4 DEF R
<1>14. \A i \in 1..Len(stats_rows') : \A f \in 1..4 : stats_rows'[i][f] <= Field(f)'
  BY <1>4, <1>5, <1>9
<1>15. phase' \in {"sleep", "stats", "alerts"}
  BY <1>2
<1> QED BY <1>11, <1>12, <1>13, <1>14, <1>15 DEF SeriesInv

LEMMA NextSeries ==
  ASSUME PipelineShape, SeriesInv, [MonitorNext]_monitorVars
  PROVE  SeriesInv'
<1>1. [PipelineNext]_pipelineVars
  BY PipelineStep DEF monitorVars
<1>2. PipelineShape'
  BY <1>1, NextShape
<1>3. phase \in {"sleep", "stats", "alerts"}
  BY DEF SeriesInv
<1>4. CASE CaptureLoad \/ CaptureStats
  BY <1>4, LoadSeries, StatsSeries
<1>5. CASE CaptureBegin \/ CaptureAlerts \/ CaptureFails
  <2>1. /\ UNCHANGED stats_rows /\ phase' \in {"sleep", "stats", "alerts"}
        /\ got' = got \/ got' = <<>>
    BY <1>5 DEF CaptureBegin, CaptureAlerts, CaptureFails
  <2> QED BY <1>1, <1>2, <2>1, QuietSeries
<1>6. CASE \/ PipelineNext /\ UNCHANGED <<captureVars, dashboardVars>>
           \/ DashboardStep
           \/ UNCHANGED monitorVars
  <2>1. UNCHANGED <<stats_rows, phase, got>>
    BY <1>6 DEF DashboardStep, PollBegin, PollStats, PollAlerts, PollApply, PollFails,
                captureVars, monitorVars
  <2> QED BY <1>1, <1>2, <1>3, <2>1, QuietSeries
<1> QED BY <1>4, <1>5, <1>6 DEF MonitorNext, CaptureStep

\* The series that analyze_alerts.py takes differences of never falls.
THEOREM SeriesRises ==
  MonitorSpec => []SeriesNeverFalls
<1>1. MonitorInit => SeriesInv
  BY InitSeries
<1>2. PipelineShape /\ SeriesInv /\ [MonitorNext]_monitorVars => SeriesInv'
  BY NextSeries
<1>3. PipelineSpec => []PipelineShape
  <2>1. PipelineInv => PipelineShape
    BY DEF PipelineInv
  <2> QED BY <2>1, PipelineInvariant, PTL
<1>4. SeriesInv => SeriesNeverFalls
  BY DEF SeriesInv
<1> QED BY <1>1, <1>2, <1>3, <1>4, WatchingChangesNothing, PTL DEF MonitorSpec

-----------------------------------------------------------------------------
(* The dashboard. *)

PollRecords ==
  [awaits : SUBSET {"stats", "alerts", "apply"}, processed : Nat,
   page : Seq(PipelineAlerts), during : SUBSET Nat]

\* A page is the newest-first list of the alerts up to some moment.
Snapshot(page) ==
  \E m \in 0..Len(recorded) :
    /\ Len(page) = Min({DashboardLimit, PageCap, ALERT_HISTORY_CAP, m})
    /\ \A i \in DOMAIN page : page[i] = recorded[m - i + 1]

DashboardShape ==
  /\ polls \in Seq(PollRecords)
  /\ shown \in [poll : Nat, processed : Nat, page : Seq(PipelineAlerts)]
  /\ shown.poll <= Len(polls)

\* Every page in hand or shown is a snapshot and every count was true once.  A
\* poll knows those that were under way when it began, the poll that is shown
\* is over, and a later poll that began after that and has its answer to /stats
\* has a count no lower than the one shown.
DashboardInv ==
  /\ DashboardShape
  /\ Snapshot(shown.page) /\ shown.processed <= events_processed
  /\ shown.poll > 0 => polls[shown.poll].awaits = {}
  /\ \A i \in 1..Len(polls) :
       Snapshot(polls[i].page) /\ polls[i].processed <= events_processed
  /\ \A i, j \in 1..Len(polls) :
       i < j /\ polls[i].awaits # {} => i \in polls[j].during
  /\ \A j \in 1..Len(polls) :
       /\ shown.poll < j /\ shown.poll \notin polls[j].during
       /\ polls[j].awaits # {} /\ "stats" \notin polls[j].awaits
       => shown.processed <= polls[j].processed

\* The parts of a record of a poll.
LEMMA PollParts ==
  ASSUME DashboardShape
  PROVE  /\ Len(polls) \in Nat /\ DOMAIN polls = 1..Len(polls)
         /\ \A i \in 1..Len(polls) :
              /\ polls[i] \in PollRecords
              /\ polls[i].awaits \in SUBSET {"stats", "alerts", "apply"}
              /\ polls[i].processed \in Nat /\ polls[i].page \in Seq(PipelineAlerts)
              /\ polls[i].during \in SUBSET Nat
         /\ shown.poll \in Nat /\ shown.processed \in Nat
         /\ shown.page \in Seq(PipelineAlerts)
<1>1. polls \in Seq(PollRecords)
  BY DEF DashboardShape
<1>2. /\ Len(polls) \in Nat /\ DOMAIN polls = 1..Len(polls)
      /\ \A i \in 1..Len(polls) : polls[i] \in PollRecords
  BY <1>1, ElementOfSeq, LenProperties
<1> QED BY <1>2 DEF DashboardShape, PollRecords

\* A page is a newest-first copy of the end of the store.
LEMMA PageElements ==
  ASSUME PipelineShape, NEW limit \in Nat
  PROVE  /\ Page(limit) \in Seq(PipelineAlerts)
         /\ Len(Page(limit)) = Min({limit, PageCap, Len(alerts)})
         /\ Len(Page(limit)) <= Len(alerts)
         /\ \A i \in 1..Len(Page(limit)) : Page(limit)[i] = alerts[Len(alerts) - i + 1]
<1>1. alerts \in Seq(PipelineAlerts)
  BY DEF PipelineShape
<1>2. PICK n \in Nat : n = Len(alerts)
  BY <1>1, LenProperties
<1>3. \A i \in 1..n : alerts[i] \in PipelineAlerts
  BY <1>1, <1>2, ElementOfSeq
<1>4. {limit, PageCap, n} \subseteq Nat
  BY MonitorAssumption
<1>5. PICK T : T = {limit, PageCap, n}
  OBVIOUS
<1>6. Min(T) \in T /\ \A x \in T : Min(T) <= x
  BY <1>4, <1>5, MinIsLeast
<1>7. PICK k \in Nat : k = Min(T) /\ k <= n
  BY <1>2, <1>4, <1>5, <1>6
<1>8. PICK s : s = Reverse(alerts)
  OBVIOUS
<1>9. \A i \in 1..n : s[i] = alerts[n - i + 1] /\ s[i] \in PipelineAlerts
  BY <1>2, <1>3, <1>8 DEF Reverse
<1>10. \A i \in 1..k : s[i] \in PipelineAlerts
  BY <1>2, <1>7, <1>9
<1>11. PICK t : t = SubSeq(s, 1, k)
  OBVIOUS
<1>12. /\ t \in Seq(PipelineAlerts)
       /\ Len(t) = IF 1 <= k THEN k - 1 + 1 ELSE 0
       /\ \A i \in 1..(k - 1 + 1) : t[i] = s[1 + i - 1]
  BY <1>7, <1>10, <1>11, SubSeqProperties
<1>13. Len(t) = k /\ \A i \in 1..k : t[i] = s[i]
  BY <1>7, <1>12
<1>14. Page(limit) = t
  BY <1>2, <1>5, <1>7, <1>8, <1>11 DEF Page
<1>15. \A i \in 1..k : t[i] = alerts[n - i + 1]
  BY <1>2, <1>7, <1>9, <1>13
<1> QED BY <1>2, <1>5, <1>7, <1>12, <1>13, <1>14, <1>15

\* The least of three numbers, one of them the lesser of two.
LEMMA MinOfMin ==
  ASSUME NEW a \in Nat, NEW b \in Nat, NEW c \in Nat, NEW d \in Nat
  PROVE  Min({a, b, Min({c, d})}) = Min({a, b, c, d}) /\ Min({a, b, c, d}) <= d
<1>1. PICK T : T = {a, b, c, d}
  OBVIOUS
<1>2. PICK e \in Nat : e = Min({c, d}) /\ e \in {c, d} /\ e <= c /\ e <= d
  BY MinIsLeast
<1>3. PICK U : U = {a, b, e}
  OBVIOUS
<1>4. PICK m \in Nat : m = Min(U) /\ m \in {a, b, e} /\ m <= a /\ m <= b /\ m <= e
  <2>1. U \subseteq Nat /\ U # {}
    BY <1>3
  <2>2. Min(U) \in U /\ \A x \in U : Min(U) <= x
    BY <2>1, MinIsLeast
  <2> QED BY <1>3, <2>1, <2>2
<1>5. m \in T /\ \A x \in T : m <= x
  BY <1>1, <1>2, <1>4
<1>6. T \subseteq Nat /\ T # {}
  BY <1>1
<1>7. Min(T) = m
  BY <1>5, <1>6, MinIsLeast
<1> QED BY <1>1, <1>2, <1>3, <1>4, <1>7

\* The page that the handler of /alerts copies is a snapshot.
LEMMA PageIsSnapshot ==
  ASSUME PipelineShape, StoreIsRecent
  PROVE  Snapshot(Page(DashboardLimit))
<1>1. PICK n \in Nat : n = Len(alerts)
  BY LenProperties DEF PipelineShape
<1>2. PICK m \in Nat : m = Len(recorded)
  BY LenProperties DEF PipelineShape
<1>3. n = Min({ALERT_HISTORY_CAP, m}) /\ \A i \in 1..n : alerts[i] = recorded[m - n + i]
  <2>1. DOMAIN alerts = 1..n
    BY <1>1, LenProperties DEF PipelineShape
  <2> QED BY <1>1, <1>2, <2>1 DEF StoreIsRecent
<1>4. DashboardLimit \in Nat /\ PageCap \in Nat /\ ALERT_HISTORY_CAP \in Nat
  BY PipelineAssumption, MonitorAssumption
<1>5. PICK p : p = Page(DashboardLimit)
  OBVIOUS
<1>6. /\ p \in Seq(PipelineAlerts) /\ Len(p) = Min({DashboardLimit, PageCap, n})
      /\ Len(p) <= n
      /\ \A i \in 1..Len(p) : p[i] = alerts[n - i + 1]
  BY <1>1, <1>4, <1>5, PageElements
<1>7. PICK k \in Nat : k = Len(p) /\ DOMAIN p = 1..k
  BY <1>6, LenProperties
<1>8. k = Min({DashboardLimit, PageCap, ALERT_HISTORY_CAP, m})
  <2>1. k = Min({DashboardLimit, PageCap, Min({ALERT_HISTORY_CAP, m})})
    BY <1>3, <1>6, <1>7
  <2>2. Min({DashboardLimit, PageCap, Min({ALERT_HISTORY_CAP, m})})
          = Min({DashboardLimit, PageCap, ALERT_HISTORY_CAP, m})
    BY <1>4, MinOfMin
  <2> QED BY <2>1, <2>2
<1>9. ASSUME NEW i \in 1..k
      PROVE  p[i] = recorded[m - i + 1]
  <2>1. n - i + 1 \in 1..n /\ m - n + (n - i + 1) = m - i + 1
    BY <1>1, <1>2, <1>6, <1>7
  <2>2. alerts[n - i + 1] = recorded[m - n + (n - i + 1)]
    BY <1>3, <2>1
  <2> QED BY <1>6, <1>7, <2>1, <2>2
<1>10. m \in 0..Len(recorded)
  BY <1>2
<1> QED BY <1>5, <1>7, <1>8, <1>9, <1>10 DEF Snapshot

\* No alerts at all are a snapshot of the beginning.
LEMMA NoPageIsSnapshot ==
  ASSUME PipelineShape
  PROVE  Snapshot(<<>>)
<1>1. 0 \in 0..Len(recorded)
  BY LenProperties DEF PipelineShape
<1>2. PICK T : T = {DashboardLimit, PageCap, ALERT_HISTORY_CAP, 0}
  OBVIOUS
<1>3. T \subseteq Nat /\ 0 \in T /\ \A x \in T : 0 <= x
  BY <1>2, PipelineAssumption, MonitorAssumption
<1>4. Min(T) = 0
  BY <1>3, MinIsLeast
<1>5. Len(<<>>) = 0 /\ DOMAIN <<>> = {}
  BY EmptySeq
<1> QED BY <1>1, <1>2, <1>4, <1>5 DEF Snapshot

\* A snapshot remains one while the history grows.
LEMMA SnapshotStays ==
  ASSUME PipelineShape, [PipelineNext]_pipelineVars,
         NEW CONSTANT p \in Seq(PipelineAlerts), Snapshot(p)
  PROVE  Snapshot(p)'
<1>1. PICK m \in 0..Len(recorded) :
        /\ Len(p) = Min({DashboardLimit, PageCap, ALERT_HISTORY_CAP, m})
        /\ \A i \in DOMAIN p : p[i] = recorded[m - i + 1]
  BY DEF Snapshot
<1>2. /\ Len(recorded) \in Nat /\ Len(recorded') \in Nat /\ Len(recorded) <= Len(recorded')
      /\ \A i \in 1..Len(recorded) : recorded'[i] = recorded[i]
  BY PipelineGrows
<1>3. m \in Nat /\ m <= Len(recorded) /\ m \in 0..Len(recorded')
  BY <1>1, <1>2
<1>4. DOMAIN p = 1..Len(p) /\ Len(p) \in Nat
  BY LenProperties
<1>5. Len(p) <= m
  <2>1. DashboardLimit \in Nat /\ PageCap \in Nat /\ ALERT_HISTORY_CAP \in Nat
    BY PipelineAssumption, MonitorAssumption
  <2>2. Min({DashboardLimit, PageCap, ALERT_HISTORY_CAP, m}) <= m
    BY <1>3, <2>1, MinOfMin
  <2> QED BY <1>1, <2>2
<1>6. ASSUME NEW i \in DOMAIN p
      PROVE  p[i] = recorded'[m - i + 1]
  <2>1. m - i + 1 \in 1..Len(recorded)
    BY <1>2, <1>3, <1>4, <1>5
  <2> QED BY <1>1, <1>2, <2>1
<1> QED BY <1>1, <1>3, <1>6 DEF Snapshot

LEMMA InitDashboard ==
  ASSUME MonitorInit
  PROVE  DashboardInv
<1>1. PipelineShape
  BY InitShape DEF MonitorInit
<1>2. Snapshot(<<>>)
  BY <1>1, NoPageIsSnapshot
<1>3. /\ polls = <<>> /\ Len(<<>>) = 0 /\ <<>> \in Seq(PollRecords)
      /\ <<>> \in Seq(PipelineAlerts)
      /\ shown = [poll |-> 0, processed |-> 0, page |-> <<>>]
      /\ events_processed = 0 /\ \A i : i \notin 1..0
  BY EmptySeq DEF MonitorInit, PipelineInit
<1> QED BY <1>2, <1>3 DEF DashboardInv, DashboardShape

\* What a step of poll i makes of its record.
Followed(i, r) ==
  /\ polls' = [polls EXCEPT ![i] = r]
  /\ polls[i].awaits # {} /\ r.during = polls[i].during
  /\ r.processed \in {0, polls[i].processed, events_processed}
  /\ r.page \in {<<>>, polls[i].page, Page(DashboardLimit)}
  /\ r.awaits # {} /\ "stats" \notin r.awaits =>
       \/ r.processed = events_processed
       \/ "stats" \notin polls[i].awaits /\ r.processed = polls[i].processed

LEMMA PollSteps ==
  ASSUME PipelineShape, DashboardShape, NEW i \in DOMAIN polls,
         PollStats(i) \/ PollAlerts(i) \/ PollApply(i) \/ PollFails(i)
  PROVE  \E r \in PollRecords : Followed(i, r)
<1>1. PICK q \in PollRecords : q = polls[i]
  BY PollParts
<1>2. /\ q.awaits \in SUBSET {"stats", "alerts", "apply"} /\ q.processed \in Nat
      /\ q.page \in Seq(PipelineAlerts) /\ q.during \in SUBSET Nat
      /\ q = [awaits |-> q.awaits, processed |-> q.processed, page |-> q.page,
              during |-> q.during]
  BY DEF PollRecords
<1>3. /\ events_processed \in Nat /\ Field(1) = events_processed
      /\ <<>> \in Seq(PipelineAlerts)
  BY EmptySeq DEF PipelineShape, Field
<1>4. Page(DashboardLimit) \in Seq(PipelineAlerts)
  BY PageElements, MonitorAssumption
<1>5. CASE PollStats(i)
  <2> DEFINE r == [q EXCEPT !.awaits = @ \ {"stats"}, !.processed = events_processed]
  <2>1. polls' = [polls EXCEPT ![i] = r] /\ q.awaits # {}
    BY <1>1, <1>3, <1>5 DEF PollStats
  <2>2. r \in PollRecords
    BY <1>2, <1>3 DEF PollRecords
  <2>3. r.during = q.during /\ r.processed = events_processed /\ r.page = q.page
    BY <1>2
  <2> QED BY <1>1, <2>1, <2>2, <2>3 DEF Followed
<1>6. CASE PollAlerts(i)
  <2> DEFINE r == [q EXCEPT !.awaits = @ \ {"alerts"}, !.page = Page(DashboardLimit)]
  <2>1. polls' = [polls EXCEPT ![i] = r] /\ q.awaits # {}
    BY <1>1, <1>6 DEF PollAlerts
  <2>2. r \in PollRecords
    BY <1>2, <1>4 DEF PollRecords
  <2>3. /\ r.during = q.during /\ r.processed = q.processed
        /\ r.page = Page(DashboardLimit) /\ r.awaits = q.awaits \ {"alerts"}
    BY <1>2
  <2> QED BY <1>1, <2>1, <2>2, <2>3 DEF Followed
<1>7. CASE PollApply(i) \/ PollFails(i)
  <2> DEFINE r == [q EXCEPT !.awaits = {}, !.processed = 0, !.page = <<>>]
  <2>1. polls' = [polls EXCEPT ![i] = r] /\ q.awaits # {}
    BY <1>1, <1>7 DEF PollApply, PollFails, Over
  <2>2. r \in PollRecords
    BY <1>2, <1>3 DEF PollRecords
  <2>3. r.during = q.during /\ r.processed = 0 /\ r.page = <<>> /\ r.awaits = {}
    BY <1>2
  <2> QED BY <1>1, <2>1, <2>2, <2>3 DEF Followed
<1> QED BY <1>5, <1>6, <1>7

\* The pipeline takes a step, or the capture does.
LEMMA QuietDashboard ==
  ASSUME PipelineShape, PipelineShape', [PipelineNext]_pipelineVars, DashboardInv,
         UNCHANGED <<polls, shown>>
  PROVE  DashboardInv'
<1>1. DashboardShape
  BY DEF DashboardInv
<1>2. DashboardShape'
  BY <1>1 DEF DashboardShape
<1>3. PICK c \in Nat, d \in Nat : c = events_processed /\ d = events_processed' /\ c <= d
  BY PipelineGrows DEF PipelineShape
<1>4. PICK t : t = shown
  OBVIOUS
<1>5. t.page \in Seq(PipelineAlerts) /\ t.processed \in Nat
  BY <1>1, <1>4, PollParts
<1>6. Snapshot(t.page)'
  BY <1>4, <1>5, SnapshotStays DEF DashboardInv
<1>7. t.processed <= events_processed'
  BY <1>3, <1>4, <1>5 DEF DashboardInv
<1>8. ASSUME NEW i \in 1..Len(polls)
      PROVE  Snapshot(polls[i].page)' /\ polls[i].processed <= events_processed'
  <2>1. PICK q : q = polls[i]
    OBVIOUS
  <2>2. q.page \in Seq(PipelineAlerts) /\ q.processed \in Nat
    BY <1>1, <2>1, PollParts
  <2>3. Snapshot(q.page) /\ q.processed <= c
    BY <1>3, <2>1 DEF DashboardInv
  <2>4. Snapshot(q.page)'
    BY <2>2, <2>3, SnapshotStays
  <2>5. PICK p : p = q.page /\ p = polls'[i].page
    BY <2>1
  <2>6. Snapshot(polls[i].page)'
    BY <2>4, <2>5, Zenon DEF Snapshot
  <2>7. polls[i].processed <= events_processed'
    BY <1>3, <2>1, <2>2, <2>3
  <2> QED BY <2>6, <2>7
<1> QED BY <1>2, <1>4, <1>6, <1>7, <1>8 DEF DashboardInv, Snapshot

\* A poll begins: it knows those under way, and the one shown is not.
LEMMA BeginDashboard ==
  ASSUME PipelineShape, DashboardInv, PollBegin
  PROVE  DashboardInv'
<1>1. DashboardShape
  BY DEF DashboardInv
<1>2. PICK k \in Nat : k = Len(polls) /\ DOMAIN polls = 1..k
  BY <1>1, PollParts
<1>3. PICK r : r = [awaits |-> {"stats", "alerts", "apply"}, processed |-> 0, page |-> <<>>,
                    during |-> {i \in DOMAIN polls : polls[i].awaits # {}}]
  OBVIOUS
<1>4. r \in PollRecords
  <2>1. <<>> \in Seq(PipelineAlerts) /\ {i \in DOMAIN polls : polls[i].awaits # {}} \subseteq Nat
    BY <1>2, EmptySeq
  <2> QED BY <1>3, <2>1 DEF PollRecords
<1>5. polls' = Append(polls, r) /\ UNCHANGED <<shown, events_processed, recorded>>
  BY <1>3 DEF PollBegin, pipelineVars
<1>6. /\ polls' \in Seq(PollRecords) /\ Len(polls') = k + 1 /\ polls'[k + 1] = r
      /\ \A i \in 1..k : polls'[i] = polls[i]
  BY <1>1, <1>2, <1>4, <1>5, AppendElements DEF DashboardShape
<1>7. /\ shown.poll \in Nat /\ shown.poll <= k
      /\ shown \in [poll : Nat, processed : Nat, page : Seq(PipelineAlerts)]
  BY <1>1, <1>2, PollParts DEF DashboardShape
<1>8. DashboardShape'
  BY <1>2, <1>5, <1>6, <1>7 DEF DashboardShape
<1>9. Snapshot(shown.page)' /\ shown'.processed <= events_processed'
  BY <1>5 DEF DashboardInv, Snapshot
<1>10. shown'.poll > 0 => polls'[shown'.poll].awaits = {}
  <2>1. shown.poll > 0 => shown.poll \in 1..k
    BY <1>7
  <2> QED BY <1>5, <1>6, <2>1 DEF DashboardInv
<1>11. \A i \in 1..(k + 1) : i \in 1..k \/ i = k + 1
  OBVIOUS
<1>12. ASSUME NEW i \in 1..(k + 1)
       PROVE  Snapshot(polls[i].page)' /\ polls'[i].processed <= events_processed'
  <2>1. CASE i \in 1..k
    <3>1. Snapshot(polls[i].page) /\ polls[i].processed <= events_processed
      BY <1>2, <2>1 DEF DashboardInv
    <3>2. polls'[i].page = polls[i].page /\ polls'[i].processed = polls[i].processed
      BY <1>6, <2>1
    <3> QED BY <1>5, <3>1, <3>2 DEF Snapshot
  <2>2. CASE i = k + 1
    <3>1. PICK p : p = <<>> /\ p = polls'[i].page
      BY <1>3, <1>6, <2>2
    <3>2. Snapshot(p)
      BY <3>1, NoPageIsSnapshot
    <3>3. Snapshot(polls[i].page)'
      BY <1>5, <3>1, <3>2, Zenon DEF Snapshot
    <3>4. polls'[i].processed = 0 /\ events_processed' \in Nat
      BY <1>3, <1>5, <1>6, <2>2 DEF PipelineShape
    <3> QED BY <3>3, <3>4
  <2> QED BY <1>11, <2>1, <2>2
<1>13. ASSUME NEW i \in 1..(k + 1), NEW j \in 1..(k + 1), i < j, polls'[i].awaits # {}
       PROVE  i \in polls'[j].during
  <2>1. i \in 1..k /\ polls[i].awaits # {}
    BY <1>6, <1>13
  <2>2. CASE j \in 1..k
    BY <1>2, <1>6, <1>13, <2>1, <2>2 DEF DashboardInv
  <2>3. CASE j = k + 1
    BY <1>2, <1>3, <1>6, <2>1, <2>3
  <2> QED BY <1>11, <2>2, <2>3
<1>14. ASSUME NEW j \in 1..(k + 1), shown.poll < j, shown.poll \notin polls'[j].during,
              polls'[j].awaits # {}, "stats" \notin polls'[j].awaits
       PROVE  shown.processed <= polls'[j].processed
  <2>1. j \in 1..k /\ polls'[j] = polls[j]
    BY <1>3, <1>6, <1>11, <1>14
  <2> QED BY <1>2, <1>14, <2>1 DEF DashboardInv
<1> QED BY <1>5, <1>6, <1>8, <1>9, <1>10, <1>12, <1>13, <1>14 DEF DashboardInv

\* A poll goes on, or ends; its answers are shown or nothing is.
LEMMA FollowDashboard ==
  ASSUME PipelineShape, StoreIsRecent, DashboardInv, NEW i \in DOMAIN polls,
         PollStats(i) \/ PollAlerts(i) \/ PollApply(i) \/ PollFails(i)
  PROVE  DashboardInv'
<1>1. DashboardShape
  BY DEF DashboardInv
<1>2. PICK k \in Nat : k = Len(polls) /\ DOMAIN polls = 1..k /\ i \in 1..k
  BY <1>1, PollParts
<1>3. PICK r \in PollRecords : Followed(i, r)
  BY <1>1, PollSteps
<1>4. UNCHANGED <<events_processed, recorded>>
  BY DEF PollStats, PollAlerts, PollApply, PollFails, pipelineVars
<1>5. /\ polls' \in Seq(PollRecords) /\ Len(polls') = k /\ polls'[i] = r
      /\ \A j \in 1..k : j # i => polls'[j] = polls[j]
  BY <1>1, <1>2, <1>3, ExceptSeq DEF Followed, DashboardShape
<1>6. /\ polls[i].awaits # {} /\ r.during = polls[i].during
      /\ r.processed \in {0, polls[i].processed, events_processed}
      /\ r.page \in {<<>>, polls[i].page, Page(DashboardLimit)}
      /\ r.awaits # {} /\ "stats" \notin r.awaits =>
           \/ r.processed = events_processed
           \/ "stats" \notin polls[i].awaits /\ r.processed = polls[i].processed
  BY <1>3 DEF Followed
<1>7. \A j \in 1..k : /\ polls'[j].during = polls[j].during
                      /\ polls'[j].awaits # {} => polls[j].awaits # {}
  BY <1>5, <1>6
<1>8. /\ shown.poll \in Nat /\ shown.poll <= k /\ shown.processed \in Nat
      /\ shown.page \in Seq(PipelineAlerts) /\ events_processed \in Nat
      /\ shown \in [poll : Nat, processed : Nat, page : Seq(PipelineAlerts)]
      /\ polls[i].processed \in Nat /\ polls[i].page \in Seq(PipelineAlerts)
      /\ i \in Nat
  BY <1>1, <1>2, PollParts DEF DashboardShape, PipelineShape
<1>9. /\ Snapshot(shown.page) /\ shown.processed <= events_processed
      /\ shown.poll > 0 => polls[shown.poll].awaits = {}
      /\ \A j \in 1..k :
           Snapshot(polls[j].page) /\ polls[j].processed <= events_processed
      /\ \A j, l \in 1..k : j < l /\ polls[j].awaits # {} => j \in polls[l].during
      /\ \A j \in 1..k :
           /\ shown.poll < j /\ shown.poll \notin polls[j].during
           /\ polls[j].awaits # {} /\ "stats" \notin polls[j].awaits
           => shown.processed <= polls[j].processed
  BY <1>2 DEF DashboardInv
<1>10. Snapshot(r.page)
  <2>1. CASE r.page = <<>>
    BY <2>1, NoPageIsSnapshot
  <2>2. CASE r.page = polls[i].page
    BY <1>2, <1>9, <2>2
  <2>3. CASE r.page = Page(DashboardLimit)
    BY <2>3, PageIsSnapshot
  <2> QED BY <1>6, <2>1, <2>2, <2>3
<1>11. r.processed <= events_processed
  BY <1>2, <1>6, <1>8, <1>9
<1>12. \A j \in 1..k : Snapshot(polls'[j].page) /\ polls'[j].processed <= events_processed
  <2>1. ASSUME NEW j \in 1..k
        PROVE  Snapshot(polls'[j].page) /\ polls'[j].processed <= events_processed
    <3>1. CASE j = i
      BY <1>5, <1>10, <1>11, <3>1
    <3>2. CASE j # i
      BY <1>5, <1>9, <3>2
    <3> QED BY <3>1, <3>2
  <2> QED BY <2>1
<1>13. \A j, l \in 1..k : j < l /\ polls'[j].awaits # {} => j \in polls'[l].during
  BY <1>7, <1>9
<1>14. CASE UNCHANGED shown
  <2>1. DashboardShape'
    BY <1>5, <1>8, <1>14 DEF DashboardShape
  <2>2. shown.poll > 0 => polls'[shown.poll].awaits = {}
    <3>1. shown.poll > 0 => shown.poll \in 1..k /\ shown.poll # i
      BY <1>6, <1>8, <1>9
    <3> QED BY <1>5, <1>9, <3>1
  <2>3. ASSUME NEW j \in 1..k, shown.poll < j, shown.poll \notin polls'[j].during,
               polls'[j].awaits # {}, "stats" \notin polls'[j].awaits
        PROVE  shown.processed <= polls'[j].processed
    <3>1. CASE j # i
      BY <1>5, <1>9, <2>3, <3>1
    <3>2. CASE j = i
      <4>1. CASE r.processed = events_processed
        BY <1>5, <1>9, <3>2, <4>1
      <4>2. CASE "stats" \notin polls[i].awaits /\ r.processed = polls[i].processed
        <5>1. shown.poll < i /\ shown.poll \notin polls[i].during
          BY <1>5, <1>6, <2>3, <3>2
        <5>2. polls[i].awaits # {} /\ i \in 1..k
          BY <1>2, <1>5, <1>6, <2>3, <3>2
        <5>3. shown.processed <= polls[i].processed
          BY <1>9, <4>2, <5>1, <5>2
        <5> QED BY <1>5, <3>2, <4>2, <5>3
      <4> QED BY <1>5, <1>6, <2>3, <3>2, <4>1, <4>2
    <3> QED BY <3>1, <3>2
  <2>4. shown'.poll > 0 => polls'[shown'.poll].awaits = {}
    BY <1>14, <2>2
  <2>5. Snapshot(shown.page)' /\ shown'.processed <= events_processed'
    BY <1>4, <1>9, <1>14 DEF Snapshot
  <2>6. \A j \in 1..Len(polls') :
          Snapshot(polls[j].page)' /\ polls'[j].processed <= events_processed'
    BY <1>4, <1>5, <1>12 DEF Snapshot
  <2>7. \A j \in 1..Len(polls') :
          /\ shown'.poll < j /\ shown'.poll \notin polls'[j].during
          /\ polls'[j].awaits # {} /\ "stats" \notin polls'[j].awaits
          => shown'.processed <= polls'[j].processed
    BY <1>5, <1>14, <2>3
  <2>8. \A j, l \in 1..Len(polls') :
          j < l /\ polls'[j].awaits # {} => j \in polls'[l].during
    BY <1>5, <1>13
  <2> QED BY <2>1, <2>4, <2>5, <2>6, <2>7, <2>8 DEF DashboardInv
<1>15. CASE PollApply(i)
  <2>1. /\ shown' = [poll |-> i, processed |-> polls[i].processed, page |-> polls[i].page]
        /\ polls' = Over(i)
    BY <1>15 DEF PollApply
  <2>2. DashboardShape'
    BY <1>2, <1>5, <1>8, <2>1 DEF DashboardShape
  <2>3. polls'[i].awaits = {}
    <3>1. polls[i] \in PollRecords
      BY <1>1, <1>2, PollParts
    <3> QED BY <1>2, <2>1, <3>1 DEF Over, PollRecords
  <2>4. \A j \in 1..k : i < j => i \in polls'[j].during
    BY <1>2, <1>6, <1>7, <1>9
  <2>5. Snapshot(polls[i].page) /\ polls[i].processed <= events_processed
    BY <1>2, <1>9
  <2>6. /\ shown'.poll = i /\ shown'.processed = polls[i].processed
        /\ shown'.page = polls[i].page
    BY <2>1
  <2>7. Snapshot(shown.page)'
    BY <1>4, <2>5, <2>6, Zenon DEF Snapshot
  <2>8. /\ shown'.processed <= events_processed'
        /\ shown'.poll > 0 => polls'[shown'.poll].awaits = {}
    BY <1>4, <2>3, <2>5, <2>6
  <2>9. \A j \in 1..Len(polls') :
          Snapshot(polls[j].page)' /\ polls'[j].processed <= events_processed'
    BY <1>4, <1>5, <1>12, Zenon DEF Snapshot
  <2> QED BY <1>5, <1>13, <2>2, <2>4, <2>6, <2>7, <2>8, <2>9 DEF DashboardInv
<1>16. UNCHANGED shown \/ PollApply(i)
  BY DEF PollStats, PollAlerts, PollFails
<1> QED BY <1>14, <1>15, <1>16

LEMMA NextDashboard ==
  ASSUME PipelineInv, PipelineInv', DashboardInv, [MonitorNext]_monitorVars
  PROVE  DashboardInv'
<1>1. PipelineShape /\ PipelineShape' /\ StoreIsRecent
  BY DEF PipelineInv
<1>2. [PipelineNext]_pipelineVars
  BY PipelineStep DEF monitorVars
<1>3. CASE PollBegin
  BY <1>1, <1>3, BeginDashboard
<1>4. ASSUME NEW i \in DOMAIN polls,
             PollStats(i) \/ PollAlerts(i) \/ PollApply(i) \/ PollFails(i)
      PROVE  DashboardInv'
  BY <1>1, <1>4, FollowDashboard
<1>5. CASE \/ PipelineNext /\ UNCHANGED <<captureVars, dashboardVars>>
           \/ CaptureStep \/ UNCHANGED monitorVars
  <2>1. UNCHANGED <<polls, shown>>
    BY <1>5 DEF CaptureStep, CaptureBegin, CaptureLoad, CaptureStats, CaptureAlerts,
                CaptureFails, dashboardVars, monitorVars
  <2> QED BY <1>1, <1>2, <2>1, QuietDashboard
<1> QED BY <1>3, <1>4, <1>5 DEF MonitorNext, DashboardStep

\* What the dashboard shows and holds, with what it is compared to, is always as
\* DashboardInv says.
THEOREM DashboardInvariant ==
  MonitorSpec => []DashboardInv
<1>1. MonitorInit => DashboardInv
  BY InitDashboard
<1>2. PipelineInv /\ PipelineInv' /\ DashboardInv /\ [MonitorNext]_monitorVars
        => DashboardInv'
  BY NextDashboard
<1> QED BY <1>1, <1>2, PipelineInvariant, WatchingChangesNothing, PTL DEF MonitorSpec

\* The page that the dashboard shows is one that the store once had, whatever
\* the workers recorded while its answer was under way.
THEOREM PageIsWhole ==
  MonitorSpec => []ShownIsSnapshot
<1>1. DashboardInv => ShownIsSnapshot
  BY DEF DashboardInv, Snapshot, ShownIsSnapshot
<1> QED BY <1>1, DashboardInvariant, PTL

\* What is shown goes back only if the two polls overlapped.
LEMMA StepBack ==
  ASSUME DashboardInv, [MonitorNext]_monitorVars, shown'.processed < shown.processed
  PROVE  \/ shown.poll \in polls[shown'.poll].during
         \/ shown'.poll \in polls[shown.poll].during
<1>1. DashboardShape
  BY DEF DashboardInv
<1>2. /\ shown.poll \in Nat /\ shown.processed \in Nat /\ shown.poll <= Len(polls)
      /\ Len(polls) \in Nat /\ DOMAIN polls = 1..Len(polls)
  BY <1>1, PollParts DEF DashboardShape
<1>3. ASSUME UNCHANGED shown
      PROVE  FALSE
  BY <1>2, <1>3
<1>4. PICK i \in 1..Len(polls) : PollApply(i)
  <2>1. PICK i \in DOMAIN polls : PollApply(i)
    BY <1>3 DEF MonitorNext, CaptureStep, DashboardStep, CaptureBegin, CaptureLoad,
                CaptureStats, CaptureAlerts, CaptureFails, PollBegin, PollStats,
                PollAlerts, PollFails, dashboardVars, monitorVars
  <2> QED BY <1>2, <2>1
<1>5. /\ shown'.poll = i /\ shown'.processed = polls[i].processed
      /\ polls[i].awaits = {"apply"} /\ polls[i].processed \in Nat
  BY <1>1, <1>4, PollParts DEF PollApply
<1>6. CASE shown.poll < i
  <2>1. shown.poll \notin polls[i].during => shown.processed <= polls[i].processed
    BY <1>5, <1>6 DEF DashboardInv
  <2> QED BY <1>2, <1>5, <2>1
<1>7. CASE shown.poll = i
  BY <1>2, <1>5, <1>7 DEF DashboardInv
<1>8. CASE i < shown.poll
  <2>1. shown.poll \in 1..Len(polls)
    BY <1>2, <1>8
  <2>2. i \in polls[shown.poll].during
    BY <1>5, <1>8, <2>1 DEF DashboardInv
  <2> QED BY <1>5, <2>2
<1> QED BY <1>2, <1>6, <1>7, <1>8

\* The number of processed events that is shown goes back only between two polls
\* that were under way at the same time.
THEOREM NoStaleStats ==
  MonitorSpec => GoesBackOnlyOnOverlap
<1>1. DashboardInv /\ [MonitorNext]_monitorVars =>
        (shown'.processed < shown.processed =>
           \/ shown.poll \in polls[shown'.poll].during
           \/ shown'.poll \in polls[shown.poll].during)
  BY StepBack
<1> QED BY <1>1, DashboardInvariant, PTL DEF MonitorSpec, GoesBackOnlyOnOverlap

-----------------------------------------------------------------------------
(* The alerts of the capture. *)

\* Every row is an alert that was recorded; seen_ids holds the keys of the rows,
\* no two of which have the same; and of what was recorded before the last page
\* only the outpaced alerts have no key there.
CaptureInv ==
  /\ alert_rows \in Seq(PipelineAlerts)
  /\ fetched \in 0..Len(recorded)
  /\ \A r \in 1..Len(alert_rows) :
       /\ Key(alert_rows[r]) \in seen_ids
       /\ \E i \in 1..Len(recorded) : alert_rows[r] = recorded[i]
  /\ \A r, s \in 1..Len(alert_rows) : r < s => Key(alert_rows[r]) # Key(alert_rows[s])
  /\ \A k \in seen_ids : \E r \in 1..Len(alert_rows) : Key(alert_rows[r]) = k
  /\ \A i \in 1..fetched : i \notin outpaced => Key(recorded[i]) \in seen_ids

\* A page of any length is the end of the store's history, newest first.
LEMMA PageOfHistory ==
  ASSUME PipelineShape, StoreIsRecent, NEW limit \in Nat
  PROVE  /\ Page(limit) \in Seq(PipelineAlerts)
         /\ Len(Page(limit)) \in Nat /\ DOMAIN Page(limit) = 1..Len(Page(limit))
         /\ Len(recorded) \in Nat /\ Len(Page(limit)) <= Len(recorded)
         /\ \A i \in 1..Len(Page(limit)) : Page(limit)[i] = recorded[Len(recorded) - i + 1]
<1>1. PICK n \in Nat : n = Len(alerts)
  BY LenProperties DEF PipelineShape
<1>2. PICK m \in Nat : m = Len(recorded)
  BY LenProperties DEF PipelineShape
<1>3. n = Min({ALERT_HISTORY_CAP, m}) /\ \A i \in 1..n : alerts[i] = recorded[m - n + i]
  <2>1. DOMAIN alerts = 1..n
    BY <1>1, LenProperties DEF PipelineShape
  <2> QED BY <1>1, <1>2, <2>1 DEF StoreIsRecent
<1>4. n <= m
  <2>1. ALERT_HISTORY_CAP \in Nat
    BY PipelineAssumption
  <2> QED BY <1>2, <1>3, <2>1, MinIsLeast
<1>5. PICK p : p = Page(limit)
  OBVIOUS
<1>6. /\ p \in Seq(PipelineAlerts) /\ Len(p) <= n
      /\ \A i \in 1..Len(p) : p[i] = alerts[n - i + 1]
  BY <1>1, <1>5, PageElements
<1>7. PICK k \in Nat : k = Len(p) /\ DOMAIN p = 1..k
  BY <1>6, LenProperties
<1>8. ASSUME NEW i \in 1..k
      PROVE  p[i] = recorded[m - i + 1]
  <2>1. n - i + 1 \in 1..n /\ m - n + (n - i + 1) = m - i + 1
    BY <1>1, <1>2, <1>6, <1>7
  <2>2. alerts[n - i + 1] = recorded[m - n + (n - i + 1)]
    BY <1>3, <2>1
  <2> QED BY <1>6, <1>7, <2>1, <2>2
<1> QED BY <1>2, <1>4, <1>5, <1>6, <1>7, <1>8

\* What is kept of a page: alerts of it, one for each of its keys that is new.
LEMMA KeptElements ==
  ASSUME NEW page \in Seq(PipelineAlerts)
  PROVE  /\ Kept(page) \in Seq(PipelineAlerts)
         /\ \A i \in 1..Len(Kept(page)) :
              /\ Key(Kept(page)[i]) \notin seen_ids
              /\ \E n \in 1..Len(page) : Kept(page)[i] = page[n]
         /\ \A i, j \in 1..Len(Kept(page)) : i < j => Key(Kept(page)[i]) # Key(Kept(page)[j])
         /\ \A n \in 1..Len(page) :
              Key(page[n]) \notin seen_ids =>
                \E i \in 1..Len(Kept(page)) : Key(Kept(page)[i]) = Key(page[n])
<1>1. PICK k \in Nat : k = Len(page) /\ DOMAIN page = 1..k
  BY LenProperties
<1>2. PICK I : I = {n \in FirstOnPage(page) : Key(page[n]) \notin seen_ids}
  OBVIOUS
<1>3. \A n : n \in I <=> /\ n \in 1..k
                         /\ \A m \in 1..k : m < n => Key(page[m]) # Key(page[n])
                         /\ Key(page[n]) \notin seen_ids
  BY <1>1, <1>2 DEF FirstOnPage
<1>4. PICK t : t = Kept(page) /\ t = Retained(page, I)
  BY <1>2 DEF Kept
<1>5. t \in Seq(PipelineAlerts) /\ Len(t) \in Nat
  BY <1>4, RetainedElements
<1>6. PICK f : Keeps(t, page, I, k, f)
  BY <1>1, <1>4, RetainedElements
<1>7. /\ \A i \in 1..Len(t) : f[i] \in I /\ f[i] \in 1..k /\ t[i] = page[f[i]]
      /\ \A i, j \in 1..Len(t) : i < j => f[i] < f[j]
      /\ \A j \in I : \E i \in 1..Len(t) : f[i] = j
  <2>1. \A j \in I : j \in I \cap (1..k)
    BY <1>3
  <2> QED BY <1>6, <2>1 DEF Keeps
<1>8. \A i \in 1..Len(t) : Key(t[i]) \notin seen_ids /\ \E n \in 1..k : t[i] = page[n]
  BY <1>3, <1>7
<1>9. \A i, j \in 1..Len(t) : i < j => Key(t[i]) # Key(t[j])
  <2>1. ASSUME NEW i \in 1..Len(t), NEW j \in 1..Len(t), i < j
        PROVE  Key(t[i]) # Key(t[j])
    <3>1. f[i] < f[j] /\ f[i] \in 1..k /\ f[j] \in I
      BY <1>7, <2>1
    <3>2. Key(page[f[i]]) # Key(page[f[j]])
      BY <1>3, <3>1
    <3> QED BY <1>7, <3>2
  <2> QED BY <2>1
<1>10. ASSUME NEW n \in 1..k, Key(page[n]) \notin seen_ids
       PROVE  \E i \in 1..Len(t) : Key(t[i]) = Key(page[n])
  <2> DEFINE T == {m \in 1..k : Key(page[m]) = Key(page[n])}
  <2>1. T \subseteq Nat /\ n \in T
    OBVIOUS
  <2>2. PICK m \in T : \A j \in T : m <= j
    BY <2>1, LeastNumber
  <2>3. \A j \in 1..k : j < m => Key(page[j]) # Key(page[m])
    <3>1. \A j \in 1..k : j < m => ~(m <= j)
      OBVIOUS
    <3> QED BY <2>2, <3>1
  <2>4. m \in I
    BY <1>3, <1>10, <2>3
  <2> QED BY <1>7, <2>4
<1> QED BY <1>1, <1>4, <1>5, <1>8, <1>9, <1>10

LEMMA InitCapture ==
  ASSUME MonitorInit
  PROVE  CaptureInv
<1>1. /\ alert_rows = <<>> /\ recorded = <<>> /\ fetched = 0 /\ seen_ids = {}
      /\ Len(<<>>) = 0 /\ <<>> \in Seq(PipelineAlerts) /\ \A i : i \notin 1..0
  BY EmptySeq DEF MonitorInit, PipelineInit
<1> QED BY <1>1 DEF CaptureInv

\* While the capture does nothing with alerts the history only grows.
LEMMA QuietCapture ==
  ASSUME PipelineShape, [PipelineNext]_pipelineVars, CaptureInv,
         UNCHANGED <<alert_rows, seen_ids, fetched, outpaced>>
  PROVE  CaptureInv'
<1>1. /\ Len(recorded) \in Nat /\ Len(recorded') \in Nat /\ Len(recorded) <= Len(recorded')
      /\ \A i \in 1..Len(recorded) : recorded'[i] = recorded[i]
  BY PipelineGrows
<1>2. fetched \in Nat /\ fetched <= Len(recorded) /\ fetched \in 0..Len(recorded')
  BY <1>1 DEF CaptureInv
<1>3. ASSUME NEW r \in 1..Len(alert_rows)
      PROVE  \E i \in 1..Len(recorded') : alert_rows[r] = recorded'[i]
  <2>1. PICK i \in 1..Len(recorded) : alert_rows[r] = recorded[i]
    BY DEF CaptureInv
  <2>2. i \in 1..Len(recorded')
    BY <1>1
  <2> QED BY <1>1, <2>1, <2>2
<1>4. \A i \in 1..fetched : i \notin outpaced => Key(recorded'[i]) \in seen_ids
  <2>1. \A i \in 1..fetched : i \in 1..Len(recorded)
    BY <1>1, <1>2
  <2> QED BY <1>1, <2>1 DEF CaptureInv
<1> QED BY <1>2, <1>3, <1>4 DEF CaptureInv, Key

\* The keys of a page join those the capture has.
LEMMA PageCapture ==
  ASSUME PipelineShape, StoreIsRecent, CaptureInv, CaptureAlerts
  PROVE  CaptureInv'
<1>1. PICK page \in Seq(PipelineAlerts) : page = Page(CaptureLimit)
  BY PageOfHistory, MonitorAssumption
<1>2. PICK k \in Nat, m \in Nat :
        /\ k = Len(page) /\ DOMAIN page = 1..k /\ m = Len(recorded) /\ k <= m
        /\ \A i \in 1..k : page[i] = recorded[m - i + 1]
  <2>1. CaptureLimit \in Nat
    BY MonitorAssumption
  <2>2. /\ Len(page) \in Nat /\ DOMAIN page = 1..Len(page)
        /\ Len(recorded) \in Nat /\ Len(page) <= Len(recorded)
        /\ \A i \in 1..Len(page) : page[i] = recorded[Len(recorded) - i + 1]
    BY <1>1, <2>1, PageOfHistory
  <2> QED BY <2>2
<1>3. PICK kept \in Seq(PipelineAlerts) : kept = Kept(page)
  BY KeptElements
<1>4. PICK l \in Nat, o \in Nat : l = Len(kept) /\ o = Len(alert_rows)
  BY LenProperties DEF CaptureInv
<1>5. /\ \A i \in 1..l : /\ Key(kept[i]) \notin seen_ids
                         /\ \E n \in 1..k : kept[i] = page[n]
      /\ \A i, j \in 1..l : i < j => Key(kept[i]) # Key(kept[j])
      /\ \A n \in 1..k : Key(page[n]) \notin seen_ids => \E i \in 1..l : Key(kept[i]) = Key(page[n])
  <2>1. \A i \in 1..Len(Kept(page)) : /\ Key(Kept(page)[i]) \notin seen_ids
                                      /\ \E n \in 1..Len(page) : Kept(page)[i] = page[n]
    BY KeptElements
  <2>2. \A i, j \in 1..Len(Kept(page)) : i < j => Key(Kept(page)[i]) # Key(Kept(page)[j])
    BY KeptElements
  <2>3. \A n \in 1..Len(page) :
          Key(page[n]) \notin seen_ids =>
            \E i \in 1..Len(Kept(page)) : Key(Kept(page)[i]) = Key(page[n])
    BY KeptElements
  <2> QED BY <1>2, <1>3, <1>4, <2>1, <2>2, <2>3
<1>6. PICK rows : rows = alert_rows \o kept
  OBVIOUS
<1>7. /\ rows \in Seq(PipelineAlerts) /\ Len(rows) = o + l
      /\ \A i \in 1..o : rows[i] = alert_rows[i]
      /\ \A i \in 1..l : rows[o + i] = kept[i]
  <2>1. /\ rows \in Seq(PipelineAlerts) /\ Len(rows) = o + l
        /\ \A i \in 1..(o + l) : rows[i] = IF i <= o THEN alert_rows[i] ELSE kept[i - o]
    BY <1>4, <1>6, ConcatProperties DEF CaptureInv
  <2>2. \A i \in 1..o : i \in 1..(o + l) /\ i <= o
    OBVIOUS
  <2>3. \A i \in 1..l : o + i \in 1..(o + l) /\ ~(o + i <= o) /\ o + i - o = i
    OBVIOUS
  <2> QED BY <2>1, <2>2, <2>3
<1>8. \A r \in 1..(o + l) : r \in 1..o \/ \E i \in 1..l : r = o + i
  <2>1. \A r \in 1..(o + l) : r \in 1..o \/ (r - o \in 1..l /\ r = o + (r - o))
    OBVIOUS
  <2> QED BY <2>1
<1>9. PICK ids : ids = seen_ids \cup {Key(page[n]) : n \in 1..k}
  OBVIOUS
<1>10. PICK late : late = outpaced \cup (fetched + 1)..(m - k)
  OBVIOUS
<1>11. /\ alert_rows' = rows /\ seen_ids' = ids /\ fetched' = m /\ outpaced' = late
       /\ UNCHANGED recorded
  <2>1. {Key(a) : a \in Range(page)} = {Key(page[n]) : n \in 1..k}
    BY <1>2 DEF Range
  <2> QED BY <1>1, <1>2, <1>3, <1>6, <1>9, <1>10, <2>1 DEF CaptureAlerts, pipelineVars
<1>12. ASSUME NEW r \in 1..(o + l)
       PROVE  /\ Key(rows[r]) \in ids
              /\ \E i \in 1..m : rows[r] = recorded[i]
  <2>1. CASE r \in 1..o
    BY <1>2, <1>4, <1>7, <1>9, <2>1 DEF CaptureInv
  <2>2. ASSUME NEW i \in 1..l, r = o + i
        PROVE  /\ Key(rows[r]) \in ids
               /\ \E j \in 1..m : rows[r] = recorded[j]
    <3>1. PICK n \in 1..k : rows[r] = page[n]
      BY <1>5, <1>7, <2>2
    <3>2. m - n + 1 \in 1..m
      BY <1>2
    <3> QED BY <1>2, <1>9, <3>1, <3>2
  <2> QED BY <1>8, <2>1, <2>2
<1>13. ASSUME NEW r \in 1..(o + l), NEW s \in 1..(o + l), r < s
       PROVE  Key(rows[r]) # Key(rows[s])
  <2>1. CASE s \in 1..o
    <3>1. r \in 1..o
      BY <1>13, <2>1
    <3> QED BY <1>4, <1>7, <1>13, <2>1, <3>1 DEF CaptureInv
  <2>2. ASSUME NEW j \in 1..l, s = o + j
        PROVE  Key(rows[r]) # Key(rows[s])
    <3>1. CASE r \in 1..o
      <4>1. Key(rows[r]) \in seen_ids
        BY <1>4, <1>7, <3>1 DEF CaptureInv
      <4> QED BY <1>5, <1>7, <2>2, <4>1
    <3>2. ASSUME NEW i \in 1..l, r = o + i
          PROVE  Key(rows[r]) # Key(rows[s])
      <4>1. i < j
        BY <1>13, <2>2, <3>2
      <4>2. Key(kept[i]) # Key(kept[j])
        BY <1>5, <4>1
      <4> QED BY <1>7, <2>2, <3>2, <4>2
    <3> QED BY <1>8, <3>1, <3>2
  <2> QED BY <1>8, <2>1, <2>2
<1>14. ASSUME NEW key \in ids
       PROVE  \E r \in 1..(o + l) : Key(rows[r]) = key
  <2>1. CASE key \in seen_ids
    <3>1. PICK r \in 1..o : Key(alert_rows[r]) = key
      BY <1>4, <2>1 DEF CaptureInv
    <3>2. r \in 1..(o + l)
      OBVIOUS
    <3> QED BY <1>7, <3>1, <3>2
  <2>2. CASE key \notin seen_ids
    <3>1. PICK n \in 1..k : key = Key(page[n])
      BY <1>9, <2>2
    <3>2. PICK i \in 1..l : Key(kept[i]) = key
      BY <1>5, <2>2, <3>1
    <3>3. o + i \in 1..(o + l)
      OBVIOUS
    <3> QED BY <1>7, <3>2, <3>3
  <2> QED BY <2>1, <2>2
<1>15. ASSUME NEW i \in 1..m, i \notin late
       PROVE  Key(recorded[i]) \in ids
  <2>1. fetched \in Nat
    BY DEF CaptureInv
  <2>2. CASE i <= fetched
    <3>1. i \in 1..fetched /\ i \notin outpaced
      BY <1>10, <1>15, <2>1, <2>2
    <3> QED BY <1>9, <3>1 DEF CaptureInv
  <2>3. CASE i > fetched
    <3>1. i \notin (fetched + 1)..(m - k)
      BY <1>10, <1>15
    <3>2. m - i + 1 \in 1..k /\ m - (m - i + 1) + 1 = i
      BY <1>2, <2>1, <2>3, <3>1
    <3>3. recorded[i] = page[m - i + 1]
      BY <1>2, <3>2
    <3> QED BY <1>9, <3>2, <3>3
  <2> QED BY <2>1, <2>2, <2>3
<1>16. m \in 0..m
  OBVIOUS
<1>17. alert_rows' \in Seq(PipelineAlerts) /\ fetched' \in 0..Len(recorded')
  BY <1>2, <1>7, <1>11, <1>16
<1>18. \A r \in 1..Len(alert_rows') :
         /\ Key(alert_rows'[r]) \in seen_ids'
         /\ \E i \in 1..Len(recorded') : alert_rows'[r] = recorded'[i]
  BY <1>2, <1>7, <1>11, <1>12
<1>19. \A r, s \in 1..Len(alert_rows') : r < s => Key(alert_rows'[r]) # Key(alert_rows'[s])
  BY <1>7, <1>11, <1>13
<1>20. \A key \in seen_ids' : \E r \in 1..Len(alert_rows') : Key(alert_rows'[r]) = key
  BY <1>7, <1>11, <1>14
<1>21. \A i \in 1..fetched' : i \notin outpaced' => Key(recorded'[i]) \in seen_ids'
  BY <1>11, <1>15
<1> QED BY <1>17, <1>18, <1>19, <1>20, <1>21 DEF CaptureInv, Key

LEMMA NextCapture ==
  ASSUME PipelineInv, CaptureInv, [MonitorNext]_monitorVars
  PROVE  CaptureInv'
<1>1. PipelineShape /\ StoreIsRecent
  BY DEF PipelineInv
<1>2. [PipelineNext]_pipelineVars
  BY PipelineStep DEF monitorVars
<1>3. CASE CaptureAlerts
  BY <1>1, <1>3, PageCapture
<1>4. CASE UNCHANGED <<alert_rows, seen_ids, fetched, outpaced>>
  BY <1>1, <1>2, <1>4, QuietCapture
<1> QED BY <1>3, <1>4
        DEF MonitorNext, DashboardStep, CaptureStep, CaptureBegin, CaptureLoad, CaptureStats,
            CaptureFails, PollBegin, PollStats, PollAlerts, PollApply, PollFails,
            captureVars, monitorVars

\* What the capture has is always as CaptureInv says.
THEOREM CaptureInvariant ==
  MonitorSpec => []CaptureInv
<1>1. MonitorInit => CaptureInv
  BY InitCapture
<1>2. PipelineInv /\ CaptureInv /\ [MonitorNext]_monitorVars => CaptureInv'
  BY NextCapture
<1> QED BY <1>1, <1>2, PipelineInvariant, WatchingChangesNothing, PTL DEF MonitorSpec

\* No alert is written twice, however many pages it was on and whichever rounds
\* failed in between.
THEOREM NoRowTwice ==
  MonitorSpec => []CapturedOnce
<1>1. ASSUME CaptureInv
      PROVE  CapturedOnce
  <2>1. DOMAIN alert_rows = 1..Len(alert_rows) /\ Len(alert_rows) \in Nat
    BY <1>1, LenProperties DEF CaptureInv
  <2>2. ASSUME NEW i \in 1..Len(alert_rows), NEW j \in 1..Len(alert_rows), i # j
        PROVE  alert_rows[i] # alert_rows[j]
    <3>1. i < j \/ j < i
      BY <2>2
    <3>2. Key(alert_rows[i]) # Key(alert_rows[j])
      BY <1>1, <3>1 DEF CaptureInv
    <3> QED BY <3>2
  <2> QED BY <2>1, <2>2 DEF CapturedOnce
<1> QED BY <1>1, CaptureInvariant, PTL

\* Of the alerts recorded before its last page the capture misses those that
\* left the page in between, and those of another worker with the key of one it
\* has: two alerts of one worker never have the same key.
THEOREM LittleIsMissed ==
  MonitorSpec => []CaptureMissesLittle
<1>1. ASSUME PipelineShape, IdsRise, CaptureInv
      PROVE  CaptureMissesLittle
  <2>1. SUFFICES ASSUME NEW i \in (1..fetched) \ outpaced
                 PROVE  \E r \in DOMAIN alert_rows :
                          /\ alert_rows[r].id = recorded[i].id
                          /\ alert_rows[r].detector = recorded[i].detector
                          /\ Millisecond[alert_rows[r].n] = Millisecond[recorded[i].n]
                          /\ alert_rows[r] # recorded[i]
                               => Shard(alert_rows[r]) # Shard(recorded[i])
    BY DEF CaptureMissesLittle
  <2>2. /\ DOMAIN alert_rows = 1..Len(alert_rows)
        /\ fetched \in Nat /\ fetched <= Len(recorded) /\ Len(recorded) \in Nat
    BY <1>1, LenProperties DEF CaptureInv, PipelineShape
  <2>3. i \in 1..Len(recorded)
    BY <2>2
  <2>4. PICK r \in 1..Len(alert_rows) : Key(alert_rows[r]) = Key(recorded[i])
    BY <1>1 DEF CaptureInv
  <2>5. PICK row, other : row = alert_rows[r] /\ other = recorded[i]
    OBVIOUS
  <2>6. /\ row.id = other.id /\ row.detector = other.detector
        /\ Millisecond[row.n] = Millisecond[other.n]
    BY <2>4, <2>5 DEF Key
  <2>7. PICK j \in 1..Len(recorded) : row = recorded[j]
    BY <1>1, <2>5 DEF CaptureInv
  <2>8. ASSUME row # other
        PROVE  Shard(row) # Shard(other)
    <3>1. i < j \/ j < i
      BY <2>2, <2>3, <2>5, <2>7, <2>8
    <3>2. row.id \in Nat
      BY <1>1, <2>7, RecordedAlert
    <3>3. ~(row.id < other.id) /\ ~(other.id < row.id)
      BY <2>6, <3>2
    <3> QED BY <1>1, <2>3, <2>5, <2>6, <2>7, <3>1, <3>3 DEF IdsRise
  <2> QED BY <2>2, <2>5, <2>6, <2>8
<1>2. PipelineSpec => [](PipelineShape /\ IdsRise)
  <2>1. PipelineInv => PipelineShape
    BY DEF PipelineInv
  <2> QED BY <2>1, PipelineInvariant, IdsNeverRepeat, PTL
<1>3. PipelineShape /\ IdsRise /\ CaptureInv => CaptureMissesLittle
  BY <1>1
<1> QED BY <1>2, <1>3, CaptureInvariant, WatchingChangesNothing, PTL
=============================================================================
