------------------------------ MODULE CepEngine ------------------------------
(***************************************************************************)
(* The complex-event-processing engine of engine/src/detection/cep.rs: for  *)
(* every rule and every source, the list of partial matches in progress.    *)
(* One action, process, models the whole method; the clock is the Instant   *)
(* it reads.  One worker owns the engine, so nothing runs beside it.        *)
(***************************************************************************)
EXTENDS Lists, NetworkEvent

CONSTANTS
  Sources,       \* source addresses, the correlation keys
  Shapes,        \* the events of one source, up to src_ip
  Rules,         \* rule names
  Steps,         \* Steps[r]: CepRule::steps, a sequence of conditions
  Window,        \* Window[r]: CepRule::window
  PortBound,     \* the port that DistinctPortAbove carries
  MaxTime,       \* bound on the clock
  MaxPartials    \* bound: an event that would leave its source with more
                 \* partial matches of one rule than this does not arrive

Conditions == {"IsSynOnly", "HasSignaturePayload", "DistinctPortAbove"}

\* The only rule set the code builds (with_default_rules) has one rule of two
\* steps and a window of five seconds.  A one-step rule would never fire: its
\* partial match is born with step = steps.len().
ASSUME RuleAssumption ==
  \A r \in Rules : /\ Steps[r] \in Seq(Conditions) /\ Len(Steps[r]) >= 2
                   /\ Window[r] \in Nat

ASSUME CepBoundAssumption == MaxTime \in Nat /\ MaxPartials \in Nat

VARIABLES
  active,        \* active[r][key]: partial matches, oldest first; the domain
                 \* of active[r] is the set of keys the HashMap holds
  now            \* what Instant::now() returns

cepVars == <<active, now>>

CepInit ==
  /\ active = [r \in Rules |-> [key \in {} |-> <<>>]]
  /\ now = 0

-----------------------------------------------------------------------------

\* Condition::matches
matches(condition, event) ==
  \/ condition = "IsSynOnly" /\ is_syn(event)
  \/ condition = "HasSignaturePayload" /\ HasPattern(event, <<"passwd">>)
  \/ condition = "DistinctPortAbove" /\ event.dst_port > PortBound

\* self.active[rule_idx].entry(key).or_default()
Partials(r, key) == IF key \in DOMAIN active[r] THEN active[r][key] ELSE <<>>

\* Mutant: the window is one tick too long.
UnexpiredLate(r, partials) ==
  Retained(partials, {i \in DOMAIN partials : now - partials[i].started_at <= Window[r] + 1})

\* partials.retain(|p| now.duration_since(p.started_at) <= rule.window)
Unexpired(r, partials) ==
  Retained(partials, {i \in DOMAIN partials : now - partials[i].started_at <= Window[r]})

\* p.step < rule.steps.len() && rule.steps[p.step].matches(event)
CanAdvance(r, p, event) ==
  p.step < Len(Steps[r]) /\ matches(Steps[r][p.step + 1], event)

Completes(r, p, event) == CanAdvance(r, p, event) /\ p.step + 1 = Len(Steps[r])

\* for p in partials.iter_mut().rev() ... break: newest first, and nothing
\* older than the first match that completes is looked at.
Visited(r, partials, i, event) ==
  \A j \in DOMAIN partials : j > i => ~Completes(r, partials[j], event)

\* Mutant: the match that completes keeps its step.
AdvancedUnlessComplete(r, partials, event) ==
  [i \in DOMAIN partials |->
     IF /\ Visited(r, partials, i, event)
        /\ CanAdvance(r, partials[i], event) /\ ~Completes(r, partials[i], event)
     THEN [partials[i] EXCEPT !.step = @ + 1]
     ELSE partials[i]]

Advanced(r, partials, event) ==
  [i \in DOMAIN partials |->
     IF Visited(r, partials, i, event) /\ CanAdvance(r, partials[i], event)
     THEN [partials[i] EXCEPT !.step = @ + 1]
     ELSE partials[i]]

\* Some unexpired partial match of the event's source completes: one alert.
Fires(r, event) ==
  LET live == Unexpired(r, Partials(r, event.src_ip))
  IN \E i \in DOMAIN live : Completes(r, live[i], event)

\* Mutant: completed matches stay in the list.
DroppedNever(r, partials, event) == partials

\* partials.retain(|p| p.step < rule.steps.len()), only when one completed
Dropped(r, partials, event) ==
  IF Fires(r, event)
  THEN Retained(partials, {i \in DOMAIN partials : partials[i].step < Len(Steps[r])})
  ELSE partials

\* Mutant: an event that completes a match does not begin another one.
StartedUnlessFires(r, partials, event) ==
  IF matches(Steps[r][1], event) /\ ~Fires(r, event)
  THEN Append(partials, [step |-> 1, started_at |-> now])
  ELSE partials

\* Mutant: the new match is put in front.
StartedInFront(r, partials, event) ==
  IF matches(Steps[r][1], event)
  THEN <<[step |-> 1, started_at |-> now]>> \o partials
  ELSE partials

\* partials.push(PartialMatch { step: 1, started_at: now })
Started(r, partials, event) ==
  IF matches(Steps[r][1], event)
  THEN Append(partials, [step |-> 1, started_at |-> now])
  ELSE partials

Processed(r, event) ==
  LET live == Unexpired(r, Partials(r, event.src_ip))
  IN Started(r, Dropped(r, Advanced(r, live, event), event), event)

\* The lists of every rule and source after an event.
ActiveAfter(event) ==
  [r \in Rules |->
     [key \in DOMAIN active[r] \cup {event.src_ip} |->
        IF key = event.src_ip THEN Processed(r, event) ELSE active[r][key]]]

\* CepEngine::process; the alerts it returns are {r : Fires(r, event)}.
process(event) ==
  /\ \A r \in Rules : Len(Processed(r, event)) <= MaxPartials
  /\ active' = ActiveAfter(event)
  /\ UNCHANGED now

Tick ==
  /\ now < MaxTime
  /\ now' = now + 1
  /\ UNCHANGED active

Events == {[src_ip |-> s, dst_port |-> x.dst_port, flags |-> x.flags,
            payload_sample |-> x.payload_sample] : s \in Sources, x \in Shapes}

CepNext == Tick \/ \E event \in Events : process(event)

CepSpec == CepInit /\ [][CepNext]_cepVars

\* Time passes and the worker keeps taking events from its queue; no source is
\* obliged to send again.
CepFairSpec ==
  /\ CepSpec
  /\ WF_cepVars(Tick)
  /\ WF_cepVars(\E event \in Events : process(event))

-----------------------------------------------------------------------------
(* Properties *)

\* Every partial match has matched its first step, lacks its last one and began
\* in the past; a match with all its steps never stays in the list.
CepTypeOK ==
  /\ now \in 0..MaxTime
  /\ \A r \in Rules :
       /\ DOMAIN active[r] \subseteq Sources
       /\ \A key \in DOMAIN active[r] : \A i \in DOMAIN active[r][key] :
            /\ active[r][key][i].step \in 1..(Len(Steps[r]) - 1)
            /\ active[r][key][i].started_at \in 0..now

\* The list of a key is sorted both ways: an older partial match is at least as
\* far along as a newer one.  So the reversed loop of process visits the match
\* furthest along last, and its break never keeps a match that is not yet ready
\* to complete from advancing.
PartialsOrdered ==
  \A r \in Rules : \A key \in DOMAIN active[r] :
    \A i, j \in DOMAIN active[r][key] :
      i < j => /\ active[r][key][i].started_at <= active[r][key][j].started_at
               /\ active[r][key][i].step >= active[r][key][j].step

\* "Partial matches older than the rule's window are expired [...] rather than
\* kept forever, which bounds memory per key" (module documentation).
StaleExpired ==
  \A r \in Rules : \A key \in Sources :
    LET Stale == \E i \in DOMAIN Partials(r, key) :
                   now - Partials(r, key)[i].started_at > Window[r]
    IN Stale ~> ~Stale
=============================================================================
