------------------------------ MODULE CepHistory ------------------------------
(***************************************************************************)
(* CepEngine together with what a bystander would write down: every event   *)
(* of every source with the time it was processed and the time stamp it     *)
(* carries, and which events made a rule fire.  The detections are then     *)
(* compared with what cep.rs says a rule is: its conditions, in order, from *)
(* the same source, within the window.                                      *)
(***************************************************************************)
EXTENDS CepEngine, FiniteSets

CONSTANTS
  MaxEvents,   \* bound on the number of events recorded
  MaxDelay     \* bound on the time an event waits in its worker's queue

ASSUME HistBoundAssumption == MaxEvents \in Nat /\ MaxDelay \in Nat

VARIABLES
  seen,    \* seen[key]: the events of key in the order they were processed
  fired    \* fired[r][key]: the indices into seen[key] at which r fired

histVars == <<active, now, seen, fired>>

HistInit ==
  /\ CepInit
  /\ seen = [key \in Sources |-> <<>>]
  /\ fired = [r \in Rules |-> [key \in Sources |-> {}]]

\* The time stamps the next event of a source can have: a source's events are
\* stamped (now_ms) and queued in order, and processed at most MaxDelay later.
Stamps(key) ==
  {t \in 0..now : /\ now - t <= MaxDelay
                  /\ \A n \in DOMAIN seen[key] : seen[key][n].stamp <= t}

Recorded == {x \in Sources \X (1..MaxEvents) : x[2] <= Len(seen[x[1]])}

Observed(event, stamp) ==
  LET key == event.src_ip
  IN /\ Cardinality(Recorded) < MaxEvents
     /\ process(event)
     /\ seen' = [seen EXCEPT ![key] =
                   Append(@, [event |-> event, at |-> now, stamp |-> stamp])]
     /\ fired' = [r \in Rules |->
                    IF Fires(r, event)
                    THEN [fired[r] EXCEPT ![key] = @ \cup {Len(seen[key]) + 1}]
                    ELSE fired[r]]

HistNext ==
  \/ Tick /\ UNCHANGED <<seen, fired>>
  \/ \E event \in Events : \E stamp \in Stamps(event.src_ip) : Observed(event, stamp)

HistSpec == HistInit /\ [][HistNext]_histVars

-----------------------------------------------------------------------------
(* Properties *)

\* The events of key at the indices f[1] < f[2] < ... satisfy the conditions
\* of r in order, the last of them at index n and none before index from.
Matchings(r, key, from, n) ==
  {f \in [DOMAIN Steps[r] -> from..n] :
     /\ f[Len(Steps[r])] = n
     /\ \A i, j \in DOMAIN f : i < j => f[i] < f[j]
     /\ \A i \in DOMAIN f : matches(Steps[r][i], seen[key][f[i]].event)}

InWindow(r, key, f) ==
  seen[key][f[Len(Steps[r])]].at - seen[key][f[1]].at <= Window[r]

\* No false alarm: where process fires, the source's own events contain the
\* whole sequence of the rule, in order, the first step at most a window ago.
AlertJustified ==
  \A r \in Rules : \A key \in Sources : \A n \in fired[r][key] :
    \E f \in Matchings(r, key, 1, n) : InWindow(r, key, f)

\* Nothing is missed: where process does not fire, no sequence of the rule lies
\* within the window and begins at or after the source's previous alert ("one
\* event can both advance an older sequence and begin a new one").
SequenceDetected ==
  \A r \in Rules : \A key \in Sources :
    \A n \in DOMAIN seen[key] \ fired[r][key] : \A from \in 1..n :
      (\A m \in fired[r][key] : m < n => m <= from) =>
        ~\E f \in Matchings(r, key, from, n) : InWindow(r, key, f)

\* "Drop completed matches so they don't fire again": a source has never more
\* alerts of a rule than first steps before them.
FiresOncePerStart ==
  \A r \in Rules : \A key \in Sources : \A n \in DOMAIN seen[key] :
    Cardinality({m \in fired[r][key] : m <= n}) <=
    Cardinality({m \in 1..(n - 1) : matches(Steps[r][1], seen[key][m].event)})

\* "a reconnaissance probe followed by an exploit attempt from the same source
\* within 5 seconds" (module documentation), by the events' own time stamps.
WithinEventTime ==
  \A r \in Rules : \A key \in Sources : \A n \in fired[r][key] :
    \E f \in Matchings(r, key, 1, n) :
      seen[key][f[Len(Steps[r])]].stamp - seen[key][f[1]].stamp <= Window[r]
=============================================================================
