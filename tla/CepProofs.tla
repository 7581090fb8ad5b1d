------------------------------ MODULE CepProofs ------------------------------
(***************************************************************************)
(* Proofs about engine/src/detection/cep.rs for every set of sources, every *)
(* kind of event, every rule of two steps or more with any window, any      *)
(* number of events and any delay before they are processed.                *)
(***************************************************************************)
EXTENDS CepHistory, DataLemmas, FiniteSetTheorems

-----------------------------------------------------------------------------
(* The inductive invariant of the engine. *)

PartialMatches == [step : Nat, started_at : Nat]

CepShape ==
  /\ now \in 0..MaxTime
  /\ DOMAIN active = Rules
  /\ \A r \in Rules : /\ DOMAIN active[r] \subseteq Sources
                      /\ \A key \in DOMAIN active[r] : active[r][key] \in Seq(PartialMatches)

CepInv == CepShape /\ CepTypeOK /\ PartialsOrdered

\* The list of a rule: matches that have their first step and not their last,
\* begun in the past, sorted both ways.
InProgress(r, list) ==
  /\ list \in Seq(PartialMatches)
  /\ \A i \in 1..Len(list) : /\ list[i].step \in 1..(Len(Steps[r]) - 1)
                             /\ list[i].started_at <= now
  /\ \A i, j \in 1..Len(list) :
       i < j => /\ list[i].started_at <= list[j].started_at
                /\ list[i].step >= list[j].step

\* The invariant says that of every list, one that is not there yet included.
LEMMA ListsInProgress ==
  ASSUME CepInv, NEW r \in Rules, NEW key
  PROVE  InProgress(r, Partials(r, key))
<1>1. CASE key \in DOMAIN active[r]
  <2>1. PICK list : list = active[r][key]
    OBVIOUS
  <2>2. list \in Seq(PartialMatches) /\ DOMAIN list = 1..Len(list)
    BY <1>1, <2>1, LenProperties DEF CepInv, CepShape
  <2>3. now \in Nat /\ \A i \in 1..Len(list) : /\ list[i].step \in 1..(Len(Steps[r]) - 1)
                                               /\ list[i].started_at \in 0..now
    BY <1>1, <2>1, <2>2 DEF CepInv, CepShape, CepTypeOK
  <2>4. \A i, j \in 1..Len(list) :
          i < j => /\ list[i].started_at <= list[j].started_at
                   /\ list[i].step >= list[j].step
    BY <1>1, <2>1, <2>2 DEF CepInv, PartialsOrdered
  <2> QED BY <1>1, <2>1, <2>2, <2>3, <2>4 DEF InProgress, Partials
<1>2. CASE key \notin DOMAIN active[r]
  <2>1. PICK list : list = Partials(r, key) /\ list = <<>>
    BY <1>2 DEF Partials
  <2>2. list \in Seq(PartialMatches) /\ Len(list) = 0 /\ \A i : i \notin 1..0
    BY <2>1, EmptySeq
  <2> QED BY <2>1, <2>2 DEF InProgress
<1> QED BY <1>1, <1>2

\* The rules, as the assumption has them.
LEMMA RuleFacts ==
  ASSUME NEW r \in Rules
  PROVE  /\ Len(Steps[r]) \in Nat /\ Len(Steps[r]) >= 2 /\ Window[r] \in Nat
         /\ DOMAIN Steps[r] = 1..Len(Steps[r])
BY RuleAssumption, LenProperties

-----------------------------------------------------------------------------
(* What process makes of the list of a rule. *)

\* What becomes of a partial match that stays: it goes one step on, if the event
\* matches that step; it stays behind only when another match completes.
Carried(r, event, p, q) ==
  /\ q \in PartialMatches /\ q.started_at = p.started_at
  /\ \/ q.step = p.step
     \/ q.step = p.step + 1 /\ CanAdvance(r, p, event)
  /\ CanAdvance(r, p, event) => q.step = p.step + 1 \/ Fires(r, event)

\* The unexpired matches of the event's source.
Live(r, event) == Unexpired(r, Partials(r, event.src_ip))

\* f takes their positions to those in the list.
LiveFrom(r, list, live, f) ==
  /\ InProgress(r, live)
  /\ Len(live) \in Nat /\ Len(list) \in Nat /\ Len(live) <= Len(list)
  /\ f \in [1..Len(live) -> 1..Len(list)]
  /\ \A i, j \in 1..Len(live) : i < j => f[i] < f[j]
  /\ \A i \in 1..Len(live) : /\ live[i] = list[f[i]]
                             /\ now - live[i].started_at <= Window[r]
  /\ \A j \in 1..Len(list) :
       now - list[j].started_at <= Window[r] => \E i \in 1..Len(live) : f[i] = j

LEMMA LiveElements ==
  ASSUME CepInv, NEW r \in Rules, NEW event, NEW list, list = Partials(r, event.src_ip)
  PROVE  \E live, f : live = Live(r, event) /\ LiveFrom(r, list, live, f)
<1>1. InProgress(r, list)
  BY ListsInProgress
<1>2. list \in Seq(PartialMatches) /\ Len(list) \in Nat /\ DOMAIN list = 1..Len(list)
  BY <1>1, LenProperties DEF InProgress
<1>3. PICK I : I = {i \in DOMAIN list : now - list[i].started_at <= Window[r]}
  OBVIOUS
<1>4. PICK live : live = Retained(list, I)
  OBVIOUS
<1>5. /\ live \in Seq(PartialMatches) /\ Len(live) \in Nat /\ Len(live) <= Len(list)
      /\ \E f : Keeps(live, list, I, Len(list), f)
  BY <1>2, <1>4, RetainedElements
<1>6. PICK f : Keeps(live, list, I, Len(list), f)
  BY <1>5
<1>7. I \cap (1..Len(list)) = I
  BY <1>2, <1>3
<1>8. /\ f \in [1..Len(live) -> I]
      /\ \A i, j \in 1..Len(live) : i < j => f[i] < f[j]
      /\ \A i \in 1..Len(live) : live[i] = list[f[i]]
      /\ \A j \in I : \E i \in 1..Len(live) : f[i] = j
  BY <1>6, <1>7 DEF Keeps
<1>9. I \subseteq 1..Len(list) /\ \A j \in I : now - list[j].started_at <= Window[r]
  BY <1>2, <1>3
<1>10. \A i \in 1..Len(live) : f[i] \in 1..Len(list) /\ f[i] \in I
  BY <1>8, <1>9
<1>11. f \in [1..Len(live) -> 1..Len(list)]
  BY <1>8, <1>10
<1>12. InProgress(r, live)
  <2>1. \A i \in 1..Len(live) : /\ live[i].step \in 1..(Len(Steps[r]) - 1)
                                /\ live[i].started_at <= now
    BY <1>1, <1>8, <1>10 DEF InProgress
  <2>2. ASSUME NEW i \in 1..Len(live), NEW j \in 1..Len(live), i < j
        PROVE  /\ live[i].started_at <= live[j].started_at
               /\ live[i].step >= live[j].step
    <3>1. /\ f[i] < f[j] /\ f[i] \in 1..Len(list) /\ f[j] \in 1..Len(list)
          /\ live[i] = list[f[i]] /\ live[j] = list[f[j]]
      BY <1>8, <1>10, <2>2
    <3> QED BY <1>1, <3>1 DEF InProgress
  <2> QED BY <1>5, <2>1, <2>2 DEF InProgress
<1>13. live = Live(r, event)
  BY <1>3, <1>4 DEF Live, Unexpired
<1>14. \A j \in 1..Len(list) : now - list[j].started_at <= Window[r] => j \in I
  BY <1>2, <1>3
<1>15. \A i \in 1..Len(live) : now - live[i].started_at <= Window[r]
  BY <1>8, <1>9, <1>10
<1>16. LiveFrom(r, list, live, f)
  BY <1>2, <1>5, <1>8, <1>11, <1>12, <1>14, <1>15 DEF LiveFrom
<1> QED BY <1>13, <1>16

\* The matches of the list are looked at down to the newest that completes, so
\* that one has all its steps then, and the rest of the list remains sorted.
LEMMA AdvancedElements ==
  ASSUME NEW r \in Rules, NEW event, NEW live, live = Live(r, event), InProgress(r, live),
         now \in Nat
  PROVE  \E adv :
           /\ adv = Advanced(r, live, event)
           /\ adv \in Seq(PartialMatches) /\ Len(adv) = Len(live)
           /\ \A i \in 1..Len(live) :
                /\ Carried(r, event, live[i], adv[i])
                /\ adv[i].step \in 1..Len(Steps[r])
                /\ ~Fires(r, event) => adv[i].step < Len(Steps[r])
           /\ Fires(r, event) => \E i \in 1..Len(live) : adv[i].step = Len(Steps[r])
           /\ \A i, j \in 1..Len(live) :
                i < j /\ adv[i].step < Len(Steps[r]) /\ adv[j].step < Len(Steps[r])
                  => adv[i].step >= adv[j].step
<1>1. PICK n \in Nat : n = Len(live) /\ DOMAIN live = 1..n
  BY LenProperties DEF InProgress
<1>2. PICK N \in Nat : N = Len(Steps[r]) /\ N >= 2
  BY RuleFacts
<1>3. /\ \A i \in 1..n : /\ live[i] \in PartialMatches /\ live[i].step \in 1..(N - 1)
                         /\ live[i].started_at <= now
      /\ \A i, j \in 1..n : i < j => live[i].step >= live[j].step
  BY <1>1, <1>2, ElementOfSeq DEF InProgress
<1> DEFINE Can(i) == CanAdvance(r, live[i], event)
           Does(i) == Visited(r, live, i, event) /\ Can(i)
<1>4. \A i, j \in 1..n : live[i].step = live[j].step /\ Can(j) => Can(i)
  BY DEF CanAdvance
<1>5. \A i \in 1..n : Completes(r, live[i], event) <=> Can(i) /\ live[i].step = N - 1
  BY <1>2, <1>3 DEF Completes
<1>6. \A i \in 1..n :
        Visited(r, live, i, event) <=>
          \A j \in 1..n : j > i => ~(Can(j) /\ live[j].step = N - 1)
  BY <1>1, <1>5 DEF Visited
<1>7. Fires(r, event) <=> \E i \in 1..n : Can(i) /\ live[i].step = N - 1
  BY <1>1, <1>5 DEF Fires, Live
<1>8. PICK adv : adv = Advanced(r, live, event)
  OBVIOUS
<1>9. /\ DOMAIN adv = 1..n /\ adv = [i \in 1..n |-> adv[i]]
      /\ \A i \in 1..n :
           adv[i] = IF Does(i) THEN [live[i] EXCEPT !.step = @ + 1] ELSE live[i]
  BY <1>1, <1>8 DEF Advanced
<1>10. ASSUME NEW i \in 1..n
       PROVE  /\ adv[i] \in PartialMatches
              /\ adv[i].started_at = live[i].started_at
              /\ Does(i) => adv[i].step = live[i].step + 1
              /\ ~Does(i) => adv[i].step = live[i].step
  <2>1. PICK p \in PartialMatches : p = live[i] /\ p.step \in Nat /\ p.started_at \in Nat
    BY <1>3 DEF PartialMatches
  <2>2. CASE Does(i)
    <3>1. adv[i] = [p EXCEPT !.step = @ + 1]
      BY <1>9, <2>1, <2>2
    <3> QED BY <2>1, <2>2, <3>1 DEF PartialMatches
  <2>3. CASE ~Does(i)
    BY <1>9, <2>1, <2>3
  <2> QED BY <2>2, <2>3
<1> HIDE DEF Does
<1>11. adv \in Seq(PartialMatches) /\ Len(adv) = n
  <2>1. adv \in [1..n -> PartialMatches]
    BY <1>9, <1>10
  <2> QED BY <2>1, IsASeq, LenProperties
<1>12. \A i \in 1..n : Does(i) <=> Can(i) /\ Visited(r, live, i, event)
  BY DEF Does
<1> HIDE DEF Can
<1>13. ~Fires(r, event) => \A i \in 1..n : Can(i) => Does(i)
  BY <1>6, <1>7, <1>12
<1>14. \A i \in 1..n : Carried(r, event, live[i], adv[i])
  <2>1. ASSUME NEW i \in 1..n
        PROVE  Carried(r, event, live[i], adv[i])
    <3>1. Can(i) <=> CanAdvance(r, live[i], event)
      BY DEF Can
    <3>2. CASE Does(i)
      BY <1>10, <1>12, <3>1, <3>2 DEF Carried
    <3>3. CASE ~Does(i)
      BY <1>10, <1>13, <3>1, <3>3 DEF Carried
    <3> QED BY <3>2, <3>3
  <2> QED BY <2>1
<1>15. \A i \in 1..n : adv[i].step \in 1..N
  <2>1. ASSUME NEW i \in 1..n
        PROVE  adv[i].step \in 1..N
    <3>1. live[i].step \in 1..(N - 1)
      BY <1>3
    <3>2. adv[i].step = live[i].step \/ adv[i].step = live[i].step + 1
      BY <1>10
    <3> QED BY <3>1, <3>2
  <2> QED BY <2>1
<1>16. ASSUME ~Fires(r, event), NEW i \in 1..n
       PROVE  adv[i].step < N
  <2>1. CASE Does(i)
    BY <1>3, <1>7, <1>10, <1>12, <1>16, <2>1
  <2>2. CASE ~Does(i)
    BY <1>3, <1>10, <2>2
  <2> QED BY <2>1, <2>2
<1>17. ASSUME Fires(r, event)
       PROVE  \E i \in 1..n : adv[i].step = N
  <2> DEFINE T == {i \in 1..n : Can(i) /\ live[i].step = N - 1}
  <2>1. T \subseteq 1..n /\ T # {}
    BY <1>7, <1>17
  <2>2. PICK m \in T : \A i \in T : i <= m
    BY <2>1, GreatestNumber
  <2>3. \A j \in 1..n : j > m => j \notin T
    <3>1. \A j \in 1..n : j > m => ~(j <= m)
      BY <2>1
    <3> QED BY <2>2, <3>1
  <2>4. Does(m)
    BY <1>6, <1>12, <2>3
  <2>5. m \in 1..n /\ live[m].step = N - 1
    OBVIOUS
  <2> QED BY <1>2, <1>10, <2>4, <2>5
<1>18. ASSUME NEW i \in 1..n, NEW j \in 1..n, i < j, adv[i].step < N, adv[j].step < N
       PROVE  adv[i].step >= adv[j].step
  <2>1. PICK a \in 1..(N - 1) : a = live[i].step
    BY <1>3
  <2>2. PICK b \in 1..(N - 1) : b = live[j].step
    BY <1>3
  <2>3. a >= b
    BY <1>3, <1>18, <2>1, <2>2
  <2>4. /\ adv[i].step = a \/ adv[i].step = a + 1
        /\ adv[j].step = b \/ adv[j].step = b + 1
    BY <1>10, <2>1, <2>2
  <2>5. CASE ~Does(j)
    <3>1. adv[j].step = b
      BY <1>10, <2>2, <2>5
    <3> QED BY <2>3, <2>4, <3>1
  <2>6. CASE a > b
    BY <2>4, <2>6
  <2>7. CASE Does(j) /\ a = b
    <3>1. adv[j].step = b + 1
      BY <1>10, <2>2, <2>7
    <3>2. a < N - 1
      BY <1>2, <1>18, <2>7, <3>1
    <3>3. Can(i)
      BY <1>4, <1>12, <2>1, <2>2, <2>7 DEF Can
    <3>4. Visited(r, live, i, event)
      <4>1. ASSUME NEW k \in 1..n, k > i
            PROVE  live[k].step # N - 1
        <5>1. live[i].step >= live[k].step /\ live[k].step \in 1..(N - 1)
          BY <1>3, <4>1
        <5> QED BY <1>2, <2>1, <3>2, <5>1
      <4> QED BY <1>6, <4>1
    <3>5. adv[i].step = a + 1
      BY <1>10, <1>12, <2>1, <3>3, <3>4
    <3> QED BY <2>7, <3>1, <3>5
  <2> QED BY <2>3, <2>5, <2>6, <2>7
<1> QED BY <1>1, <1>2, <1>8, <1>11, <1>14, <1>15, <1>16, <1>17, <1>18

\* The partial matches that stay.
Staying(r, event) == Dropped(r, Advanced(r, Live(r, event), event), event)

\* f takes the positions of the matches that stay to those they had in list.
StaysFrom(r, event, list, stay, f) ==
  /\ f \in [1..Len(stay) -> 1..Len(list)]
  /\ \A i, j \in 1..Len(stay) : i < j => f[i] < f[j]
  /\ \A i \in 1..Len(stay) : /\ Carried(r, event, list[f[i]], stay[i])
                             /\ now - stay[i].started_at <= Window[r]
  /\ ~Fires(r, event) =>
       \A j \in 1..Len(list) :
         now - list[j].started_at <= Window[r] => \E i \in 1..Len(stay) : f[i] = j

\* Without a match that completes all of the unexpired list stays.
LEMMA AllStay ==
  ASSUME CepInv, NEW r \in Rules, NEW event, NEW list, list = Partials(r, event.src_ip),
         ~Fires(r, event)
  PROVE  \E stay, f : /\ stay = Staying(r, event) /\ InProgress(r, stay)
                      /\ StaysFrom(r, event, list, stay, f)
                      /\ Len(stay) <= Len(list)
<1>1. now \in Nat
  BY CepBoundAssumption DEF CepInv, CepShape
<1>0. PICK live, f : live = Live(r, event) /\ LiveFrom(r, list, live, f)
  BY LiveElements
<1>2. /\ live = Live(r, event) /\ InProgress(r, live)
      /\ f \in [1..Len(live) -> 1..Len(list)]
      /\ \A i, j \in 1..Len(live) : i < j => f[i] < f[j]
      /\ \A i \in 1..Len(live) : /\ live[i] = list[f[i]]
                                 /\ now - live[i].started_at <= Window[r]
      /\ \A j \in 1..Len(list) :
           now - list[j].started_at <= Window[r] => \E i \in 1..Len(live) : f[i] = j
  BY <1>0 DEF LiveFrom
<1>3. PICK adv :
        /\ adv = Advanced(r, live, event)
        /\ adv \in Seq(PartialMatches) /\ Len(adv) = Len(live)
        /\ \A i \in 1..Len(live) :
             /\ Carried(r, event, live[i], adv[i])
             /\ adv[i].step \in 1..Len(Steps[r])
             /\ ~Fires(r, event) => adv[i].step < Len(Steps[r])
        /\ \A i, j \in 1..Len(live) :
             i < j /\ adv[i].step < Len(Steps[r]) /\ adv[j].step < Len(Steps[r])
               => adv[i].step >= adv[j].step
  BY <1>1, <1>2, AdvancedElements
<1>4. adv = Staying(r, event)
  BY <1>2, <1>3 DEF Staying, Dropped
<1>5. \A i \in 1..Len(live) : adv[i].started_at = live[i].started_at
  BY <1>3 DEF Carried
<1>6. InProgress(r, adv)
  <2>1. \A i \in 1..Len(live) : /\ adv[i].step \in 1..(Len(Steps[r]) - 1)
                                /\ adv[i].step < Len(Steps[r])
    BY <1>3, RuleFacts
  <2>2. \A i \in 1..Len(live) : live[i].started_at <= now
    BY <1>2 DEF InProgress
  <2>3. \A i, j \in 1..Len(live) : i < j => live[i].started_at <= live[j].started_at
    BY <1>2 DEF InProgress
  <2> QED BY <1>3, <1>5, <2>1, <2>2, <2>3 DEF InProgress
<1>7. StaysFrom(r, event, list, adv, f)
  BY <1>2, <1>3, <1>5 DEF StaysFrom
<1>8. Len(adv) <= Len(list)
  BY <1>0, <1>3 DEF LiveFrom
<1> QED BY <1>4, <1>6, <1>7, <1>8

\* When one completes, those that have all their steps are dropped.
LEMMA SomeStay ==
  ASSUME CepInv, NEW r \in Rules, NEW event, NEW list, list = Partials(r, event.src_ip),
         Fires(r, event)
  PROVE  \E stay, f : /\ stay = Staying(r, event) /\ InProgress(r, stay)
                      /\ StaysFrom(r, event, list, stay, f)
                      /\ Len(stay) < Len(list)
<1>1. now \in Nat
  BY CepBoundAssumption DEF CepInv, CepShape
<1>0. PICK live, f : live = Live(r, event) /\ LiveFrom(r, list, live, f)
  BY LiveElements
<1>2. /\ live = Live(r, event) /\ InProgress(r, live)
      /\ Len(live) \in Nat /\ Len(list) \in Nat /\ Len(live) <= Len(list)
      /\ f \in [1..Len(live) -> 1..Len(list)]
      /\ \A i, j \in 1..Len(live) : i < j => f[i] < f[j]
      /\ \A i \in 1..Len(live) : /\ live[i] = list[f[i]]
                                 /\ now - live[i].started_at <= Window[r]
  BY <1>0 DEF LiveFrom
<1>3. PICK adv :
        /\ adv = Advanced(r, live, event)
        /\ adv \in Seq(PartialMatches) /\ Len(adv) = Len(live)
        /\ \A i \in 1..Len(live) :
             /\ Carried(r, event, live[i], adv[i])
             /\ adv[i].step \in 1..Len(Steps[r])
        /\ \E i \in 1..Len(live) : adv[i].step = Len(Steps[r])
        /\ \A i, j \in 1..Len(live) :
             i < j /\ adv[i].step < Len(Steps[r]) /\ adv[j].step < Len(Steps[r])
               => adv[i].step >= adv[j].step
  BY <1>1, <1>2, AdvancedElements
<1>4. PICK n \in Nat : n = Len(live) /\ DOMAIN adv = 1..n
  BY <1>2, <1>3, LenProperties
<1>5. PICK N \in Nat : N = Len(Steps[r])
  BY RuleFacts
<1>6. PICK I : I = {i \in DOMAIN adv : adv[i].step < Len(Steps[r])}
  OBVIOUS
<1>7. PICK stay : stay = Retained(adv, I)
  OBVIOUS
<1>8. stay = Staying(r, event)
  BY <1>2, <1>3, <1>6, <1>7 DEF Staying, Dropped
<1>9. /\ stay \in Seq(PartialMatches) /\ Len(stay) \in Nat
      /\ \A m \in 1..n : m \notin I => Len(stay) < n
      /\ \E g : Keeps(stay, adv, I, n, g)
  BY <1>3, <1>4, <1>7, RetainedElements
<1>10. PICK g : Keeps(stay, adv, I, n, g)
  BY <1>9
<1>11. I \subseteq 1..n /\ I \cap (1..n) = I /\ \A i \in I : adv[i].step < N
  BY <1>4, <1>5, <1>6
<1>12. /\ g \in [1..Len(stay) -> I]
       /\ \A i, j \in 1..Len(stay) : i < j => g[i] < g[j]
       /\ \A i \in 1..Len(stay) : stay[i] = adv[g[i]]
  BY <1>10, <1>11 DEF Keeps
<1>13. \A i \in 1..Len(stay) : g[i] \in I /\ g[i] \in 1..n
  BY <1>11, <1>12
<1>14. Len(stay) < Len(list)
  <2>1. PICK i \in 1..n : adv[i].step = N
    BY <1>3, <1>4, <1>5
  <2>2. i \notin I
    BY <1>5, <1>11, <2>1
  <2>3. Len(stay) < n
    BY <1>9, <2>2
  <2> QED BY <1>2, <1>4, <1>9, <2>3
<1>15. \A i \in 1..n : adv[i].started_at = live[i].started_at
  BY <1>3, <1>4 DEF Carried
<1>16. InProgress(r, stay)
  <2>1. \A i \in 1..n : live[i].started_at <= now
    BY <1>2, <1>4 DEF InProgress
  <2>2. \A i, j \in 1..n : i < j => live[i].started_at <= live[j].started_at
    BY <1>2, <1>4 DEF InProgress
  <2>3. \A i \in 1..Len(stay) : /\ stay[i].step \in 1..(N - 1)
                                /\ stay[i].started_at <= now
    <3>1. \A i \in I : adv[i].step \in 1..(N - 1)
      BY <1>3, <1>4, <1>5, <1>11
    <3> QED BY <1>12, <1>13, <1>15, <2>1, <3>1
  <2>4. ASSUME NEW i \in 1..Len(stay), NEW j \in 1..Len(stay), i < j
        PROVE  /\ stay[i].started_at <= stay[j].started_at
               /\ stay[i].step >= stay[j].step
    <3>1. PICK a \in 1..n : a = g[i] /\ a \in I
      BY <1>13
    <3>2. PICK b \in 1..n : b = g[j] /\ b \in I
      BY <1>13
    <3>3. a < b /\ stay[i] = adv[a] /\ stay[j] = adv[b]
      BY <1>12, <2>4, <3>1, <3>2
    <3>4. adv[a].step >= adv[b].step
      BY <1>3, <1>4, <1>5, <1>11, <3>1, <3>2, <3>3
    <3> QED BY <1>15, <2>2, <3>3, <3>4
  <2> QED BY <1>5, <1>9, <2>3, <2>4 DEF InProgress
<1> DEFINE h == [i \in 1..Len(stay) |-> f[g[i]]]
<1>17. StaysFrom(r, event, list, stay, h)
  <2>1. ASSUME NEW i \in 1..Len(stay)
        PROVE  /\ h[i] = f[g[i]] /\ h[i] \in 1..Len(list)
               /\ stay[i] = adv[g[i]] /\ list[h[i]] = live[g[i]]
    <3>1. g[i] \in 1..Len(live)
      BY <1>4, <1>13
    <3> QED BY <1>2, <1>12, <3>1
  <2>2. h \in [1..Len(stay) -> 1..Len(list)]
    BY <2>1
  <2> HIDE DEF h
  <2>3. \A i, j \in 1..Len(stay) : i < j => h[i] < h[j]
    BY <1>2, <1>4, <1>12, <1>13, <2>1
  <2>4. \A i \in 1..Len(stay) : Carried(r, event, list[h[i]], stay[i])
    BY <1>3, <1>4, <1>13, <2>1
  <2>5. \A i \in 1..Len(stay) : now - stay[i].started_at <= Window[r]
    <3>1. \A i \in 1..n : now - live[i].started_at <= Window[r]
      BY <1>2, <1>4
    <3>2. \A i \in 1..Len(stay) : stay[i].started_at = live[g[i]].started_at
      BY <1>12, <1>13, <1>15
    <3> QED BY <1>13, <3>1, <3>2
  <2> QED BY <2>2, <2>3, <2>4, <2>5 DEF StaysFrom
<1> QED BY <1>8, <1>14, <1>16, <1>17

\* One or the other.
LEMMA StayElements ==
  ASSUME CepInv, NEW r \in Rules, NEW event, NEW list, list = Partials(r, event.src_ip)
  PROVE  \E stay, f : /\ stay = Staying(r, event) /\ InProgress(r, stay)
                      /\ StaysFrom(r, event, list, stay, f)
                      /\ Len(stay) <= Len(list)
                      /\ Fires(r, event) => Len(stay) < Len(list)
<1>1. CASE Fires(r, event)
  <2>1. PICK stay, f : /\ stay = Staying(r, event) /\ InProgress(r, stay)
                       /\ StaysFrom(r, event, list, stay, f)
                       /\ Len(stay) < Len(list)
    BY <1>1, SomeStay
  <2>2. list \in Seq(PartialMatches)
    BY ListsInProgress DEF InProgress
  <2>3. Len(stay) \in Nat /\ Len(list) \in Nat
    BY <2>1, <2>2, LenProperties DEF InProgress
  <2> QED BY <2>1, <2>3
<1>2. CASE ~Fires(r, event)
  <2>1. PICK stay, f : /\ stay = Staying(r, event) /\ InProgress(r, stay)
                       /\ StaysFrom(r, event, list, stay, f)
                       /\ Len(stay) <= Len(list)
    BY <1>2, AllStay
  <2> QED BY <1>2, <2>1
<1> QED BY <1>1, <1>2

\* A rule fires on an unexpired match that lacks its last step, and on no other.
LEMMA FiresOn ==
  ASSUME CepInv, NEW r \in Rules, NEW event, NEW list, list = Partials(r, event.src_ip)
  PROVE  Fires(r, event) <=>
           \E j \in 1..Len(list) : /\ list[j].step = Len(Steps[r]) - 1
                                   /\ matches(Steps[r][Len(Steps[r])], event)
                                   /\ now - list[j].started_at <= Window[r]
<1>1. PICK live, f : live = Live(r, event) /\ LiveFrom(r, list, live, f)
  BY LiveElements
<1>2. PICK N \in Nat : N = Len(Steps[r]) /\ N >= 2
  BY RuleFacts
<1>3. /\ DOMAIN live = 1..Len(live)
      /\ \A i \in 1..Len(live) : live[i].step \in 1..(N - 1)
  BY <1>1, <1>2, LenProperties DEF LiveFrom, InProgress
<1>4. \A i \in 1..Len(live) :
        Completes(r, live[i], event) <=> live[i].step = N - 1 /\ matches(Steps[r][N], event)
  <2>1. ASSUME NEW i \in 1..Len(live)
        PROVE  Completes(r, live[i], event)
                 <=> live[i].step = N - 1 /\ matches(Steps[r][N], event)
    <3>1. PICK s \in 1..(N - 1) : s = live[i].step
      BY <1>3
    <3>2. s < N /\ (s + 1 = N <=> s = N - 1)
      BY <1>2
    <3>3. Completes(r, live[i], event) <=> matches(Steps[r][s + 1], event) /\ s + 1 = N
      BY <1>2, <3>1, <3>2 DEF Completes, CanAdvance
    <3>4. CASE s + 1 = N
      BY <3>1, <3>2, <3>3, <3>4
    <3>5. CASE s + 1 # N
      BY <3>1, <3>2, <3>3, <3>5
    <3> QED BY <3>4, <3>5
  <2> QED BY <2>1
<1>5. Fires(r, event) <=>
        \E i \in 1..Len(live) : live[i].step = N - 1 /\ matches(Steps[r][N], event)
  BY <1>1, <1>3, <1>4 DEF Fires, Live
<1>6. /\ \A i \in 1..Len(live) : /\ f[i] \in 1..Len(list) /\ live[i] = list[f[i]]
                                 /\ now - live[i].started_at <= Window[r]
      /\ \A j \in 1..Len(list) :
           now - list[j].started_at <= Window[r] => \E i \in 1..Len(live) : f[i] = j
  BY <1>1 DEF LiveFrom
<1> DEFINE On(j) == /\ list[j].step = N - 1
                    /\ matches(Steps[r][N], event)
                    /\ now - list[j].started_at <= Window[r]
<1>7. ASSUME Fires(r, event)
      PROVE  \E j \in 1..Len(list) : On(j)
  <2>1. PICK i \in 1..Len(live) : live[i].step = N - 1 /\ matches(Steps[r][N], event)
    BY <1>5, <1>7
  <2>2. On(f[i]) /\ f[i] \in 1..Len(list)
    BY <1>6, <2>1
  <2> QED BY <2>2
<1>8. ASSUME NEW j \in 1..Len(list), On(j)
      PROVE  Fires(r, event)
  <2>1. PICK i \in 1..Len(live) : f[i] = j
    BY <1>6, <1>8
  <2>2. live[i].step = N - 1 /\ matches(Steps[r][N], event)
    BY <1>6, <1>8, <2>1
  <2> QED BY <1>5, <2>2
<1>9. Fires(r, event) <=> \E j \in 1..Len(list) : On(j)
  BY <1>7, <1>8
<1> QED BY <1>2, <1>9

\* The matches that stay, and the one that the event may begin.
LEMMA ProcessedElements ==
  ASSUME CepInv, NEW r \in Rules, NEW event, NEW stay, stay = Staying(r, event),
         InProgress(r, stay)
  PROVE  /\ InProgress(r, Processed(r, event))
         /\ \A i \in 1..Len(stay) : Processed(r, event)[i] = stay[i]
         /\ ~matches(Steps[r][1], event) => Processed(r, event) = stay
         /\ matches(Steps[r][1], event) =>
              /\ Len(Processed(r, event)) = Len(stay) + 1
              /\ Processed(r, event)[Len(stay) + 1] = [step |-> 1, started_at |-> now]
<1>1. Processed(r, event) = Started(r, stay, event)
  BY DEF Processed, Staying, Live
<1>2. CASE ~matches(Steps[r][1], event)
  <2>1. Processed(r, event) = stay
    BY <1>1, <1>2 DEF Started
  <2> QED BY <1>2, <2>1
<1>3. CASE matches(Steps[r][1], event)
  <2>1. PICK p : p = [step |-> 1, started_at |-> now]
    OBVIOUS
  <2>2. p \in PartialMatches /\ p.step = 1 /\ p.started_at = now /\ now \in Nat
    BY <2>1, CepBoundAssumption DEF PartialMatches, CepInv, CepShape
  <2>3. PICK list : list = Processed(r, event) /\ list = Append(stay, p)
    BY <1>1, <1>3, <2>1 DEF Started
  <2>4. PICK k \in Nat : k = Len(stay)
    BY LenProperties DEF InProgress
  <2>5. /\ list \in Seq(PartialMatches) /\ Len(list) = k + 1 /\ list[k + 1] = p
        /\ \A i \in 1..k : list[i] = stay[i]
    BY <2>2, <2>3, <2>4, AppendElements DEF InProgress
  <2>6. PICK N \in Nat : N = Len(Steps[r]) /\ N >= 2
    BY RuleFacts
  <2>7. /\ \A i \in 1..k : /\ stay[i].step \in 1..(N - 1) /\ stay[i].started_at <= now
        /\ \A i, j \in 1..k : i < j => /\ stay[i].started_at <= stay[j].started_at
                                       /\ stay[i].step >= stay[j].step
    BY <2>4, <2>6 DEF InProgress
  <2>8. \A i \in 1..(k + 1) : i \in 1..k \/ i = k + 1
    OBVIOUS
  <2>9. ASSUME NEW i \in 1..(k + 1)
        PROVE  list[i].step \in 1..(N - 1) /\ list[i].started_at <= now
    <3>1. CASE i = k + 1
      BY <2>2, <2>5, <2>6, <3>1
    <3>2. CASE i \in 1..k
      BY <2>5, <2>7, <3>2
    <3> QED BY <2>8, <3>1, <3>2
  <2>10. ASSUME NEW i \in 1..(k + 1), NEW j \in 1..(k + 1), i < j
         PROVE  /\ list[i].started_at <= list[j].started_at
                /\ list[i].step >= list[j].step
    <3>1. i \in 1..k /\ list[i] = stay[i]
      BY <2>5, <2>10
    <3>2. CASE j = k + 1
      <4>1. list[j].started_at = now /\ list[j].step = 1
        BY <2>2, <2>5, <3>2
      <4>2. stay[i].step \in 1..(N - 1) /\ stay[i].started_at <= now
        BY <2>7, <3>1
      <4> QED BY <3>1, <4>1, <4>2
    <3>3. CASE j \in 1..k
      BY <2>5, <2>7, <2>10, <3>1, <3>3
    <3> QED BY <2>8, <3>2, <3>3
  <2>11. InProgress(r, list)
    BY <2>5, <2>6, <2>9, <2>10 DEF InProgress
  <2> QED BY <1>3, <2>1, <2>3, <2>4, <2>5, <2>11
<1> QED BY <1>2, <1>3

-----------------------------------------------------------------------------
(* The engine's invariant. *)

\* The lists after an event: its source's are processed, the others' left alone.
LEMMA ListsAfter ==
  ASSUME CepInv, NEW event \in Events, process(event), NEW r \in Rules, NEW key
  PROVE  Partials(r, key)' = IF key = event.src_ip THEN Processed(r, event)
                             ELSE Partials(r, key)
<1>1. active' = ActiveAfter(event)
  BY DEF process
<1>2. DOMAIN active'[r] = DOMAIN active[r] \cup {event.src_ip}
  BY <1>1 DEF ActiveAfter
<1>3. \A k \in DOMAIN active'[r] :
        active'[r][k] = IF k = event.src_ip THEN Processed(r, event) ELSE active[r][k]
  BY <1>1 DEF ActiveAfter
<1>4. CASE key = event.src_ip
  <2>1. key \in DOMAIN active'[r] /\ active'[r][key] = Processed(r, event)
    BY <1>2, <1>3, <1>4
  <2> QED BY <1>4, <2>1 DEF Partials
<1>5. CASE key # event.src_ip
  <2>1. /\ key \in DOMAIN active'[r] <=> key \in DOMAIN active[r]
        /\ key \in DOMAIN active[r] => active'[r][key] = active[r][key]
    BY <1>2, <1>3, <1>5
  <2> QED BY <1>5, <2>1 DEF Partials
<1> QED BY <1>4, <1>5

\* The invariant, list by list.
ListsInv ==
  /\ now \in 0..MaxTime /\ DOMAIN active = Rules
  /\ \A r \in Rules :
       DOMAIN active[r] \subseteq Sources /\ \A key \in Sources : InProgress(r, Partials(r, key))

LEMMA ListsSuffice == ListsInv => CepInv
<1> SUFFICES ASSUME ListsInv PROVE CepInv
  OBVIOUS
<1>1. now \in 0..MaxTime /\ now \in Nat /\ DOMAIN active = Rules
  BY CepBoundAssumption DEF ListsInv
<1>2. ASSUME NEW r \in Rules
      PROVE  /\ DOMAIN active[r] \subseteq Sources
             /\ \A key \in DOMAIN active[r] : active[r][key] \in Seq(PartialMatches)
             /\ \A key \in DOMAIN active[r] : \A i \in DOMAIN active[r][key] :
                  /\ active[r][key][i].step \in 1..(Len(Steps[r]) - 1)
                  /\ active[r][key][i].started_at \in 0..now
             /\ \A key \in DOMAIN active[r] : \A i, j \in DOMAIN active[r][key] :
                  i < j => /\ active[r][key][i].started_at <= active[r][key][j].started_at
                           /\ active[r][key][i].step >= active[r][key][j].step
  <2>1. DOMAIN active[r] \subseteq Sources
    BY DEF ListsInv
  <2>2. ASSUME NEW key \in DOMAIN active[r]
        PROVE  /\ active[r][key] \in Seq(PartialMatches)
               /\ \A i \in DOMAIN active[r][key] :
                    /\ active[r][key][i].step \in 1..(Len(Steps[r]) - 1)
                    /\ active[r][key][i].started_at \in 0..now
               /\ \A i, j \in DOMAIN active[r][key] :
                    i < j => /\ active[r][key][i].started_at <= active[r][key][j].started_at
                             /\ active[r][key][i].step >= active[r][key][j].step
    <3>1. PICK list : list = active[r][key] /\ InProgress(r, list)
      BY <2>1, <2>2 DEF ListsInv, Partials
    <3>2. /\ list \in Seq(PartialMatches) /\ DOMAIN list = 1..Len(list)
          /\ \A i \in 1..Len(list) : list[i] \in PartialMatches
      BY <3>1, LenProperties, ElementOfSeq DEF InProgress
    <3>3. \A i \in 1..Len(list) : list[i].started_at \in Nat
      BY <3>2 DEF PartialMatches
    <3> QED BY <1>1, <3>1, <3>2, <3>3 DEF InProgress
  <2> QED BY <2>1, <2>2
<1> QED BY <1>1, <1>2 DEF CepInv, CepShape, CepTypeOK, PartialsOrdered

LEMMA InitCep ==
  ASSUME CepInit
  PROVE  CepInv
<1>1. DOMAIN active = Rules /\ \A r \in Rules : DOMAIN active[r] = {}
  BY DEF CepInit
<1>2. now \in 0..MaxTime
  BY CepBoundAssumption DEF CepInit
<1> QED BY <1>1, <1>2 DEF CepInv, CepShape, CepTypeOK, PartialsOrdered

\* While time passes the matches only grow older.
LEMMA TickCep ==
  ASSUME CepInv, Tick
  PROVE  CepInv'
<1>1. now \in Nat /\ now' = now + 1 /\ now' \in 0..MaxTime /\ UNCHANGED active
  BY CepBoundAssumption DEF Tick, CepInv, CepShape
<1>2. \A x \in 0..now : x \in 0..now'
  BY <1>1
<1> QED BY <1>1, <1>2 DEF CepInv, CepShape, CepTypeOK, PartialsOrdered

LEMMA ProcessCep ==
  ASSUME CepInv, NEW event \in Events, process(event)
  PROVE  CepInv'
<1>1. now' = now /\ active' = ActiveAfter(event)
  BY DEF process
<1>2. event.src_ip \in Sources
  BY DEF Events
<1>3. now' \in 0..MaxTime /\ DOMAIN active' = Rules
  BY <1>1 DEF ActiveAfter, CepInv, CepShape
<1>4. ASSUME NEW r \in Rules
      PROVE  DOMAIN active'[r] \subseteq Sources
  BY <1>1, <1>2 DEF ActiveAfter, CepInv, CepShape
<1>5. ASSUME NEW r \in Rules, NEW key \in Sources
      PROVE  InProgress(r, Partials(r, key))'
  <2>1. CASE key = event.src_ip
    <3>1. PICK stay : stay = Staying(r, event) /\ InProgress(r, stay)
      BY StayElements
    <3>2. PICK list : list = Processed(r, event) /\ InProgress(r, list)
      BY <3>1, ProcessedElements
    <3>3. Partials(r, key)' = list
      BY <2>1, <3>2, ListsAfter
    <3> QED BY <1>1, <3>2, <3>3 DEF InProgress
  <2>2. CASE key # event.src_ip
    <3>1. PICK list : list = Partials(r, key) /\ InProgress(r, list)
      BY ListsInProgress
    <3>2. Partials(r, key)' = list
      BY <2>2, <3>1, ListsAfter
    <3> QED BY <1>1, <3>1, <3>2 DEF InProgress
  <2> QED BY <2>1, <2>2
<1>6. ListsInv'
  BY <1>3, <1>4, <1>5 DEF ListsInv
<1> QED BY <1>6, ListsSuffice, PTL

LEMMA NextCep ==
  ASSUME CepInv, [CepNext]_cepVars
  PROVE  CepInv'
<1>1. CASE UNCHANGED cepVars
  BY <1>1 DEF cepVars, CepInv, CepShape, CepTypeOK, PartialsOrdered
<1> QED BY <1>1, TickCep, ProcessCep DEF CepNext

\* The lists of partial matches are always as CepInv says.
THEOREM CepInvariant ==
  CepSpec => []CepInv
<1> QED BY InitCep, NextCep, PTL DEF CepSpec

\* A match with all its steps never stays, and none begins in the future.
THEOREM CepTypeCorrect ==
  CepSpec => []CepTypeOK
<1>1. CepInv => CepTypeOK
  BY DEF CepInv
<1> QED BY <1>1, CepInvariant, PTL

\* The reversed loop of process meets the match furthest along last.
THEOREM OlderIsFurther ==
  CepSpec => []PartialsOrdered
<1>1. CepInv => PartialsOrdered
  BY DEF CepInv
<1> QED BY <1>1, CepInvariant, PTL

-----------------------------------------------------------------------------
(* The events a source has sent. *)

HistEntries == [event : Events, at : Nat, stamp : Nat]

\* Types; nothing is recorded of the future, and a rule fires at recorded events.
HistShape ==
  /\ seen \in [Sources -> Seq(HistEntries)]
  /\ fired \in [Rules -> [Sources -> SUBSET Nat]]
  /\ \A key \in Sources : \A n \in 1..Len(seen[key]) : seen[key][n].at <= now
  /\ \A r \in Rules : \A key \in Sources : fired[r][key] \subseteq 1..Len(seen[key])

\* The events of the list past at the positions f[1] < f[2] < ... f[k] satisfy
\* the first k conditions of r in order.
Prefix(r, past, k, f) ==
  /\ f \in [1..k -> 1..Len(past)]
  /\ \A i, j \in 1..k : i < j => f[i] < f[j]
  /\ \A i \in 1..k : matches(Steps[r][i], past[f[i]].event)

\* Such events remain while others follow.
LEMMA PrefixStays ==
  ASSUME NEW past \in Seq(HistEntries), NEW e \in HistEntries, NEW r, NEW k \in Nat, NEW f,
         Prefix(r, past, k, f)
  PROVE  Prefix(r, Append(past, e), k, f)
<1>1. PICK n \in Nat : n = Len(past)
  BY LenProperties
<1>2. PICK longer : longer = Append(past, e)
  OBVIOUS
<1>3. Len(longer) = n + 1 /\ \A i \in 1..n : longer[i] = past[i]
  BY <1>1, <1>2, AppendElements
<1>4. /\ f \in [1..k -> 1..n]
      /\ \A i, j \in 1..k : i < j => f[i] < f[j]
      /\ \A i \in 1..k : matches(Steps[r][i], past[f[i]].event)
  BY <1>1 DEF Prefix
<1>5. \A i \in 1..k : f[i] \in 1..n /\ longer[f[i]] = past[f[i]]
  BY <1>3, <1>4
<1>6. \A i \in 1..k : f[i] \in 1..(n + 1)
  BY <1>5
<1>7. f \in [1..k -> 1..(n + 1)]
  BY <1>4, <1>6
<1>8. Prefix(r, longer, k, f)
  BY <1>3, <1>4, <1>5, <1>7 DEF Prefix
<1> QED BY <1>2, <1>8

\* They go on to the event that comes next.
Extended(r, past, e, k, f) ==
  \E g : /\ Prefix(r, Append(past, e), k + 1, g) /\ g[k + 1] = Len(past) + 1
         /\ \A i \in 1..k : g[i] = f[i]

\* An event that satisfies the next condition extends them.
LEMMA PrefixExtends ==
  ASSUME NEW past \in Seq(HistEntries), NEW e \in HistEntries, NEW r, NEW k \in Nat, NEW f,
         Prefix(r, past, k, f), matches(Steps[r][k + 1], e.event)
  PROVE  Extended(r, past, e, k, f)
<1>1. PICK n \in Nat : n = Len(past)
  BY LenProperties
<1>2. PICK longer : longer = Append(past, e)
  OBVIOUS
<1>3. Len(longer) = n + 1 /\ longer[n + 1] = e /\ \A i \in 1..n : longer[i] = past[i]
  BY <1>1, <1>2, AppendElements
<1>4. /\ f \in [1..k -> 1..n]
      /\ \A i, j \in 1..k : i < j => f[i] < f[j]
      /\ \A i \in 1..k : matches(Steps[r][i], past[f[i]].event)
  BY <1>1 DEF Prefix
<1> DEFINE g == [i \in 1..(k + 1) |-> IF i = k + 1 THEN n + 1 ELSE f[i]]
<1>5. g[k + 1] = n + 1
  OBVIOUS
<1>6. \A i \in 1..k : g[i] = f[i]
  <2>1. \A i \in 1..k : i \in 1..(k + 1) /\ i # k + 1
    OBVIOUS
  <2> QED BY <2>1
<1>7. PICK h : h = g /\ h = [i \in 1..(k + 1) |-> h[i]]
  OBVIOUS
<1> HIDE DEF g
<1>8. \A i \in 1..(k + 1) : i \in 1..k \/ i = k + 1
  OBVIOUS
<1>9. \A i \in 1..k : h[i] = f[i] /\ f[i] \in 1..n /\ longer[f[i]] = past[f[i]]
  BY <1>3, <1>4, <1>6, <1>7
<1>10. h[k + 1] = n + 1
  BY <1>5, <1>7
<1>11. h \in [1..(k + 1) -> 1..(n + 1)]
  <2>1. \A i \in 1..k : h[i] \in 1..(n + 1)
    BY <1>9
  <2>2. \A i \in 1..(k + 1) : h[i] \in 1..(n + 1)
    BY <1>8, <1>10, <2>1
  <2> QED BY <1>7, <2>2
<1>12. ASSUME NEW i \in 1..(k + 1), NEW j \in 1..(k + 1), i < j
       PROVE  h[i] < h[j]
  <2>1. i \in 1..k
    BY <1>12
  <2>2. CASE j = k + 1
    BY <1>9, <1>10, <2>1, <2>2
  <2>3. CASE j \in 1..k
    BY <1>4, <1>9, <1>12, <2>1, <2>3
  <2> QED BY <1>8, <2>2, <2>3
<1>13. \A i \in 1..(k + 1) : matches(Steps[r][i], longer[h[i]].event)
  <2>1. \A i \in 1..k : matches(Steps[r][i], longer[h[i]].event)
    BY <1>4, <1>9
  <2>2. matches(Steps[r][k + 1], longer[h[k + 1]].event)
    BY <1>3, <1>10
  <2> QED BY <1>8, <2>1, <2>2
<1>14. Prefix(r, longer, k + 1, h)
  BY <1>3, <1>11, <1>12, <1>13 DEF Prefix
<1> QED BY <1>1, <1>2, <1>9, <1>10, <1>14 DEF Extended

\* What an event adds to the history.
LEMMA ObservedHistory ==
  ASSUME CepInv, HistShape, NEW event \in Events, NEW stamp \in Stamps(event.src_ip),
         Observed(event, stamp), NEW key \in Sources
  PROVE  /\ now' = now /\ now \in Nat /\ process(event) /\ event.src_ip \in Sources
         /\ key # event.src_ip => UNCHANGED seen[key]
         /\ key = event.src_ip =>
              /\ seen'[key] = Append(seen[key], [event |-> event, at |-> now, stamp |-> stamp])
              /\ [event |-> event, at |-> now, stamp |-> stamp] \in HistEntries
         /\ \A r \in Rules :
              fired'[r][key] = IF key = event.src_ip /\ Fires(r, event)
                               THEN fired[r][key] \cup {Len(seen[key]) + 1}
                               ELSE fired[r][key]
<1>1. /\ process(event)
      /\ seen' = [seen EXCEPT ![event.src_ip] =
                    Append(@, [event |-> event, at |-> now, stamp |-> stamp])]
      /\ fired' = [r \in Rules |->
                     IF Fires(r, event)
                     THEN [fired[r] EXCEPT ![event.src_ip] =
                             @ \cup {Len(seen[event.src_ip]) + 1}]
                     ELSE fired[r]]
  BY DEF Observed
<1>2. now' = now /\ event.src_ip \in Sources
  BY <1>1 DEF process, Events
<1>3. now \in Nat /\ stamp \in Nat
  BY CepBoundAssumption DEF CepInv, CepShape, Stamps
<1>4. [event |-> event, at |-> now, stamp |-> stamp] \in HistEntries
  BY <1>3 DEF HistEntries
<1>5. DOMAIN seen = Sources
  BY DEF HistShape
<1>6. \A r \in Rules : DOMAIN fired[r] = Sources
  BY DEF HistShape
<1>7. ASSUME NEW r \in Rules
      PROVE  fired'[r][key] = IF key = event.src_ip /\ Fires(r, event)
                              THEN fired[r][key] \cup {Len(seen[key]) + 1}
                              ELSE fired[r][key]
  <2>1. fired'[r] = IF Fires(r, event)
                    THEN [fired[r] EXCEPT ![event.src_ip] = @ \cup {Len(seen[event.src_ip]) + 1}]
                    ELSE fired[r]
    BY <1>1
  <2> QED BY <1>2, <1>6, <2>1
<1> QED BY <1>1, <1>2, <1>3, <1>4, <1>5, <1>7

LEMMA ObservedShape ==
  ASSUME CepInv, HistShape, NEW event \in Events, NEW stamp \in Stamps(event.src_ip),
         Observed(event, stamp)
  PROVE  HistShape'
<1>1. PICK e : e = [event |-> event, at |-> now, stamp |-> stamp]
  OBVIOUS
<1>2. ASSUME NEW key \in Sources
      PROVE  /\ seen'[key] \in Seq(HistEntries)
             /\ \A n \in 1..Len(seen'[key]) : seen'[key][n].at <= now'
             /\ \A r \in Rules : fired'[r][key] \subseteq 1..Len(seen'[key])
  <2>1. PICK past \in Seq(HistEntries) : past = seen[key]
    BY DEF HistShape
  <2>2. PICK n \in Nat : n = Len(past)
    BY LenProperties
  <2>3. /\ \A i \in 1..n : past[i].at <= now
        /\ \A r \in Rules : fired[r][key] \subseteq 1..n
    BY <2>1, <2>2 DEF HistShape
  <2>4. CASE key # event.src_ip
    <3>1. seen'[key] = past /\ now' = now /\ \A r \in Rules : fired'[r][key] = fired[r][key]
      BY <2>1, <2>4, ObservedHistory
    <3> QED BY <2>2, <2>3, <3>1
  <2>5. CASE key = event.src_ip
    <3>1. seen'[key] = Append(past, e) /\ e \in HistEntries /\ now' = now /\ now \in Nat
      BY <1>1, <2>1, <2>5, ObservedHistory
    <3>2. PICK longer : longer = Append(past, e)
      OBVIOUS
    <3>3. /\ longer \in Seq(HistEntries) /\ Len(longer) = n + 1 /\ longer[n + 1] = e
          /\ \A i \in 1..n : longer[i] = past[i]
      BY <2>2, <3>1, <3>2, AppendElements
    <3>4. \A i \in 1..(n + 1) : longer[i].at <= now
      <4>1. \A i \in 1..(n + 1) : i \in 1..n \/ i = n + 1
        OBVIOUS
      <4>2. e.at = now
        BY <1>1
      <4> QED BY <2>3, <3>1, <3>3, <4>1, <4>2
    <3>5. ASSUME NEW r \in Rules
          PROVE  fired'[r][key] \subseteq 1..(n + 1)
      <4>1. \/ fired'[r][key] = fired[r][key]
            \/ fired'[r][key] = fired[r][key] \cup {n + 1}
        BY <2>1, <2>2, ObservedHistory
      <4>2. fired[r][key] \subseteq 1..(n + 1) /\ n + 1 \in 1..(n + 1)
        BY <2>3
      <4> QED BY <4>1, <4>2
    <3> QED BY <3>1, <3>2, <3>3, <3>4, <3>5
  <2> QED BY <2>4, <2>5
<1>3. seen' \in [Sources -> Seq(HistEntries)]
  <2>1. DOMAIN seen' = Sources /\ seen' = [key \in Sources |-> seen'[key]]
    BY DEF Observed, HistShape
  <2> QED BY <1>2, <2>1
<1>4. fired' \in [Rules -> [Sources -> SUBSET Nat]]
  <2>1. ASSUME NEW r \in Rules
        PROVE  fired'[r] \in [Sources -> SUBSET Nat]
    <3>1. fired[r] \in [Sources -> SUBSET Nat]
      BY DEF HistShape
    <3>2. fired'[r] = IF Fires(r, event)
                      THEN [fired[r] EXCEPT ![event.src_ip] =
                              @ \cup {Len(seen[event.src_ip]) + 1}]
                      ELSE fired[r]
      BY DEF Observed
    <3>3. Len(seen[event.src_ip]) \in Nat
      BY LenProperties DEF HistShape, Events
    <3>4. PICK F : F = fired[r]
      OBVIOUS
    <3>5. PICK x \in SUBSET Nat : x = F[event.src_ip] \cup {Len(seen[event.src_ip]) + 1}
      <4>1. event.src_ip \in Sources
        BY DEF Events
      <4>2. F[event.src_ip] \in SUBSET Nat /\ Len(seen[event.src_ip]) + 1 \in Nat
        BY <3>1, <3>3, <3>4, <4>1
      <4> QED BY <4>2
    <3>6. [F EXCEPT ![event.src_ip] = x] \in [Sources -> SUBSET Nat]
      BY <3>1, <3>4
    <3>7. fired'[r] = [F EXCEPT ![event.src_ip] = x] \/ fired'[r] = F
      BY <3>2, <3>4, <3>5
    <3> QED BY <3>1, <3>4, <3>6, <3>7
  <2>2. fired' = [r \in Rules |-> fired'[r]]
    BY DEF Observed
  <2> QED BY <2>1, <2>2
<1> QED BY <1>2, <1>3, <1>4 DEF HistShape

\* What is known of a list does not change while time passes.
LEMMA TickHistory ==
  ASSUME CepInv, HistShape, Tick, UNCHANGED <<seen, fired>>
  PROVE  HistShape' /\ \A r \in Rules : \A key : UNCHANGED Partials(r, key)
<1>1. now \in Nat /\ now' = now + 1 /\ UNCHANGED active
  BY CepBoundAssumption DEF Tick, CepInv, CepShape
<1>2. ASSUME NEW key \in Sources, NEW n \in 1..Len(seen[key])
      PROVE  seen[key][n].at <= now'
  <2>1. seen[key][n] \in HistEntries
    BY <1>2, ElementOfSeq DEF HistShape
  <2>2. seen[key][n].at \in Nat /\ seen[key][n].at <= now
    BY <1>2, <2>1 DEF HistShape, HistEntries
  <2> QED BY <1>1, <2>2
<1> QED BY <1>1, <1>2 DEF HistShape, Partials

-----------------------------------------------------------------------------
(* No false alarm. *)

\* There are events in past for the steps a partial match has made, the first
\* of them when it began.
WitnessedBy(r, past, p) ==
  \E f : Prefix(r, past, p.step, f) /\ past[f[1]].at = p.started_at

\* The whole sequence of r ends at the n-th event of past, its first step at
\* most a window before.
JustifiedBy(r, past, n) ==
  \E f : /\ Prefix(r, past, Len(Steps[r]), f) /\ f[Len(Steps[r])] = n
         /\ past[n].at - past[f[1]].at <= Window[r]

Witnessed ==
  \A r \in Rules : \A key \in Sources :
    /\ \A i \in 1..Len(Partials(r, key)) : WitnessedBy(r, seen[key], Partials(r, key)[i])
    /\ \A n \in fired[r][key] : JustifiedBy(r, seen[key], n)

\* Both stay as they are while events are added to the past.
LEMMA WitnessStays ==
  ASSUME NEW past \in Seq(HistEntries), NEW e \in HistEntries, NEW r \in Rules
  PROVE  /\ \A p : p.step \in Nat \ {0} /\ WitnessedBy(r, past, p)
                     => WitnessedBy(r, Append(past, e), p)
         /\ \A n : JustifiedBy(r, past, n) => JustifiedBy(r, Append(past, e), n)
<1>1. PICK longer : longer = Append(past, e)
  OBVIOUS
<1>2. \A i \in 1..Len(past) : longer[i] = past[i]
  BY <1>1, AppendElements
<1>3. ASSUME NEW p, p.step \in Nat \ {0}, WitnessedBy(r, past, p)
      PROVE  WitnessedBy(r, longer, p)
  <2>1. PICK f : Prefix(r, past, p.step, f) /\ past[f[1]].at = p.started_at
    BY <1>3 DEF WitnessedBy
  <2>2. PICK k \in Nat : k = p.step /\ 1 \in 1..k
    BY <1>3
  <2>3. Prefix(r, longer, k, f)
    BY <1>1, <2>1, <2>2, PrefixStays
  <2>4. f[1] \in 1..Len(past)
    BY <2>1, <2>2 DEF Prefix
  <2> QED BY <1>2, <2>1, <2>2, <2>3, <2>4 DEF WitnessedBy
<1>4. ASSUME NEW n, JustifiedBy(r, past, n)
      PROVE  JustifiedBy(r, longer, n)
  <2>1. PICK N \in Nat : N = Len(Steps[r]) /\ N >= 2
    BY RuleFacts
  <2>2. PICK f : /\ Prefix(r, past, N, f) /\ f[N] = n
                 /\ past[n].at - past[f[1]].at <= Window[r]
    BY <1>4, <2>1 DEF JustifiedBy
  <2>3. Prefix(r, longer, N, f)
    BY <1>1, <2>1, <2>2, PrefixStays
  <2>4. 1 \in 1..N /\ N \in 1..N
    BY <2>1
  <2>5. f[1] \in 1..Len(past) /\ n \in 1..Len(past)
    BY <2>2, <2>4 DEF Prefix
  <2> QED BY <1>2, <2>1, <2>2, <2>3, <2>5 DEF JustifiedBy
<1> QED BY <1>1, <1>3, <1>4

\* A match that is carried on has its witness, with the new event if it has
\* made a step on it.
LEMMA CarriedWitness ==
  ASSUME NEW r \in Rules, NEW past \in Seq(HistEntries), NEW e \in HistEntries,
         NEW event, event = e.event, NEW p, NEW q, p.step \in Nat \ {0},
         WitnessedBy(r, past, p), Carried(r, event, p, q)
  PROVE  WitnessedBy(r, Append(past, e), q)
<1>1. q.started_at = p.started_at
  BY DEF Carried
<1>2. CASE q.step = p.step
  <2>1. WitnessedBy(r, Append(past, e), p)
    BY WitnessStays
  <2> QED BY <1>1, <1>2, <2>1 DEF WitnessedBy
<1>3. CASE q.step = p.step + 1 /\ CanAdvance(r, p, event)
  <2>1. PICK k \in Nat : k = p.step /\ 1 \in 1..k
    OBVIOUS
  <2>2. PICK f : Prefix(r, past, k, f) /\ past[f[1]].at = p.started_at
    BY <2>1 DEF WitnessedBy
  <2>3. matches(Steps[r][k + 1], e.event)
    BY <1>3, <2>1 DEF CanAdvance
  <2>4. PICK g : Prefix(r, Append(past, e), k + 1, g) /\ \A i \in 1..k : g[i] = f[i]
    <3>1. Extended(r, past, e, k, f)
      BY <2>2, <2>3, PrefixExtends
    <3> QED BY <3>1 DEF Extended
  <2>5. g[1] = f[1] /\ f[1] \in 1..Len(past)
    BY <2>1, <2>2, <2>4 DEF Prefix
  <2>6. Append(past, e)[g[1]].at = p.started_at
    BY <2>2, <2>5, AppendElements
  <2> QED BY <1>1, <1>3, <2>1, <2>4, <2>6 DEF WitnessedBy
<1> QED BY <1>2, <1>3 DEF Carried

\* The match that the event begins has the event itself.
LEMMA BegunWitness ==
  ASSUME NEW r \in Rules, NEW past \in Seq(HistEntries), NEW e \in HistEntries,
         matches(Steps[r][1], e.event),
         NEW p, p.step = 1, p.started_at = e.at
  PROVE  WitnessedBy(r, Append(past, e), p)
<1>1. PICK k \in Nat : k = 0 /\ k + 1 = 1
  OBVIOUS
<1>2. PICK f : f = [i \in 1..0 |-> 1]
  OBVIOUS
<1>3. Prefix(r, past, k, f) /\ matches(Steps[r][k + 1], e.event)
  BY <1>1, <1>2 DEF Prefix
<1>4. PICK g : /\ Prefix(r, Append(past, e), k + 1, g) /\ g[k + 1] = Len(past) + 1
               /\ \A i \in 1..k : g[i] = f[i]
  <2>1. Extended(r, past, e, k, f)
    BY <1>3, PrefixExtends
  <2> QED BY <2>1 DEF Extended
<1>5. Append(past, e)[Len(past) + 1] = e
  BY AppendElements
<1> QED BY <1>1, <1>4, <1>5 DEF WitnessedBy

\* A match on which the rule fires is the sequence up to its last step.
LEMMA FiredJustified ==
  ASSUME NEW r \in Rules, NEW past \in Seq(HistEntries), NEW e \in HistEntries,
         NEW p, p.step = Len(Steps[r]) - 1, matches(Steps[r][Len(Steps[r])], e.event),
         e.at - p.started_at <= Window[r], WitnessedBy(r, past, p)
  PROVE  JustifiedBy(r, Append(past, e), Len(past) + 1)
<1>1. PICK N \in Nat : N = Len(Steps[r]) /\ N >= 2
  BY RuleFacts
<1>2. PICK k \in Nat : k = N - 1 /\ 1 \in 1..k /\ k + 1 = N
  BY <1>1
<1>3. PICK f : Prefix(r, past, k, f) /\ past[f[1]].at = p.started_at
  BY <1>1, <1>2 DEF WitnessedBy
<1>4. PICK g : /\ Prefix(r, Append(past, e), k + 1, g) /\ g[k + 1] = Len(past) + 1
               /\ \A i \in 1..k : g[i] = f[i]
  <2>1. matches(Steps[r][k + 1], e.event)
    BY <1>1, <1>2
  <2>2. Prefix(r, past, k, f)
    BY <1>3
  <2>3. Extended(r, past, e, k, f)
    BY <2>1, <2>2, PrefixExtends
  <2> QED BY <2>3 DEF Extended
<1>5. g[1] = f[1] /\ f[1] \in 1..Len(past)
  BY <1>2, <1>3, <1>4 DEF Prefix
<1>6. Append(past, e)[g[1]].at = p.started_at /\ Append(past, e)[Len(past) + 1] = e
  BY <1>3, <1>5, AppendElements
<1> QED BY <1>1, <1>2, <1>4, <1>6 DEF JustifiedBy

\* After an event every match and every alert still has its witness.
LEMMA ObservedWitnessed ==
  ASSUME CepInv, HistShape, Witnessed, NEW event \in Events,
         NEW stamp \in Stamps(event.src_ip), Observed(event, stamp),
         NEW r \in Rules, NEW key \in Sources
  PROVE  /\ \A i \in 1..Len(Partials(r, key)') :
              WitnessedBy(r, seen'[key], Partials(r, key)'[i])
         /\ \A n \in fired'[r][key] : JustifiedBy(r, seen'[key], n)
<1>1. process(event)
  BY DEF Observed
<1>2. PICK past \in Seq(HistEntries) : past = seen[key]
  BY DEF HistShape
<1>3. PICK list : list = Partials(r, key) /\ InProgress(r, list)
  BY ListsInProgress
<1>4. /\ \A i \in 1..Len(list) : WitnessedBy(r, past, list[i])
      /\ \A n \in fired[r][key] : JustifiedBy(r, past, n)
  BY <1>2, <1>3 DEF Witnessed
<1>5. CASE key # event.src_ip
  <2>1. Partials(r, key)' = list /\ seen'[key] = past /\ fired'[r][key] = fired[r][key]
    BY <1>1, <1>2, <1>3, <1>5, ListsAfter, ObservedHistory
  <2> QED BY <1>4, <2>1
<1>6. CASE key = event.src_ip
  <2>1. PICK e \in HistEntries : e = [event |-> event, at |-> now, stamp |-> stamp]
    BY <1>6, ObservedHistory
  <2>2. e.event = event /\ e.at = now
    BY <2>1
  <2>3. seen'[key] = Append(past, e)
    BY <1>2, <1>6, <2>1, ObservedHistory
  <2>4. PICK stay, f : /\ stay = Staying(r, event) /\ InProgress(r, stay)
                       /\ StaysFrom(r, event, list, stay, f)
    BY <1>3, <1>6, StayElements
  <2>5. PICK after : after = Processed(r, event)
    OBVIOUS
  <2>6. Partials(r, key)' = after
    BY <1>1, <1>6, <2>5, ListsAfter
  <2>7. /\ \A i \in 1..Len(stay) : after[i] = stay[i]
        /\ ~matches(Steps[r][1], event) => after = stay
        /\ matches(Steps[r][1], event) =>
             /\ Len(after) = Len(stay) + 1
             /\ after[Len(stay) + 1] = [step |-> 1, started_at |-> now]
    BY <2>4, <2>5, ProcessedElements
  <2>8. PICK k \in Nat : k = Len(stay)
    BY <2>4, LenProperties DEF InProgress
  <2>9. ASSUME NEW i \in 1..k
        PROVE  WitnessedBy(r, Append(past, e), stay[i])
    <3>1. f[i] \in 1..Len(list) /\ Carried(r, event, list[f[i]], stay[i])
      BY <2>4, <2>8 DEF StaysFrom
    <3>2. PICK p : p = list[f[i]]
      OBVIOUS
    <3>3. p.step \in Nat \ {0} /\ WitnessedBy(r, past, p)
      BY <1>3, <1>4, <3>1, <3>2, RuleFacts DEF InProgress
    <3> QED BY <2>2, <3>1, <3>2, <3>3, CarriedWitness
  <2>10. \A i \in 1..Len(after) : WitnessedBy(r, Append(past, e), after[i])
    <3>1. CASE ~matches(Steps[r][1], event)
      BY <2>7, <2>8, <2>9, <3>1
    <3>2. CASE matches(Steps[r][1], event)
      <4>0. PICK q : q = [step |-> 1, started_at |-> now]
        OBVIOUS
      <4>1. q.step = 1 /\ q.started_at = now
        BY <4>0
      <4>2. WitnessedBy(r, Append(past, e), q)
        BY <2>2, <3>2, <4>1, BegunWitness
      <4>3. Len(after) = k + 1 /\ after[k + 1] = q
        BY <2>7, <2>8, <3>2, <4>0
      <4>4. \A i \in 1..(k + 1) : i \in 1..k \/ i = k + 1
        OBVIOUS
      <4>5. \A i \in 1..k : WitnessedBy(r, Append(past, e), after[i])
        BY <2>7, <2>8, <2>9
      <4> QED BY <4>2, <4>3, <4>4, <4>5
    <3> QED BY <3>1, <3>2
  <2>11. \A n \in fired[r][key] : JustifiedBy(r, Append(past, e), n)
    BY <1>4, WitnessStays
  <2>12. CASE ~Fires(r, event)
    <3>1. fired'[r][key] = fired[r][key]
      BY <2>12, ObservedHistory
    <3> QED BY <2>3, <2>6, <2>10, <2>11, <3>1
  <2>13. CASE Fires(r, event)
    <3>1. fired'[r][key] = fired[r][key] \cup {Len(past) + 1}
      BY <1>2, <1>6, <2>13, ObservedHistory
    <3>2. PICK j \in 1..Len(list) : /\ list[j].step = Len(Steps[r]) - 1
                                    /\ matches(Steps[r][Len(Steps[r])], event)
                                    /\ now - list[j].started_at <= Window[r]
      BY <1>3, <1>6, <2>13, FiresOn
    <3>3. PICK p : p = list[j]
      OBVIOUS
    <3>4. WitnessedBy(r, past, p)
      BY <1>4, <3>3
    <3>5. JustifiedBy(r, Append(past, e), Len(past) + 1)
      BY <2>2, <3>2, <3>3, <3>4, FiredJustified
    <3> QED BY <2>3, <2>6, <2>10, <2>11, <3>1, <3>5
  <2> QED BY <2>12, <2>13
<1> QED BY <1>5, <1>6

\* The history and the lists, together.
HistInv == CepInv /\ HistShape /\ Witnessed

LEMMA InitHist ==
  ASSUME HistInit
  PROVE  HistInv
<1>1. CepInv
  BY InitCep DEF HistInit
<1>2. /\ seen = [key \in Sources |-> <<>>] /\ Len(<<>>) = 0 /\ <<>> \in Seq(HistEntries)
      /\ fired = [r \in Rules |-> [key \in Sources |-> {}]]
      /\ \A i : i \notin 1..0
  BY EmptySeq DEF HistInit
<1>3. HistShape
  BY <1>2 DEF HistShape
<1>4. \A r \in Rules : \A key : Partials(r, key) = <<>>
  BY DEF HistInit, CepInit, Partials
<1>5. Witnessed
  BY <1>2, <1>4 DEF Witnessed
<1> QED BY <1>1, <1>3, <1>5 DEF HistInv

LEMMA NextHist ==
  ASSUME HistInv, [HistNext]_histVars
  PROVE  HistInv'
<1>0. CepInv /\ HistShape /\ Witnessed
  BY DEF HistInv
<1>1. CASE UNCHANGED histVars
  <2>1. UNCHANGED cepVars
    BY <1>1 DEF histVars, cepVars
  <2>2. CepInv'
    BY <1>0, <2>1, NextCep
  <2>3. HistShape' /\ Witnessed'
    BY <1>0, <1>1 DEF histVars, HistShape, Witnessed, Partials
  <2> QED BY <2>2, <2>3 DEF HistInv
<1>2. CASE Tick /\ UNCHANGED <<seen, fired>>
  <2>1. CepInv'
    BY <1>0, <1>2, TickCep
  <2>2. HistShape'
    BY <1>0, <1>2, TickHistory
  <2>3. UNCHANGED active
    BY <1>2 DEF Tick
  <2>4. Witnessed'
    BY <1>0, <1>2, <2>3 DEF Witnessed, Partials
  <2> QED BY <2>1, <2>2, <2>4 DEF HistInv
<1>3. ASSUME NEW event \in Events, NEW stamp \in Stamps(event.src_ip), Observed(event, stamp)
      PROVE  HistInv'
  <2>1. CepInv'
    BY <1>0, <1>3, ProcessCep DEF Observed
  <2>2. HistShape'
    BY <1>0, <1>3, ObservedShape
  <2>3. Witnessed'
    BY <1>0, <1>3, ObservedWitnessed DEF Witnessed
  <2> QED BY <2>1, <2>2, <2>3 DEF HistInv
<1> QED BY <1>1, <1>2, <1>3 DEF HistNext

\* Every partial match and every alert always has its events.
THEOREM HistInvariant ==
  HistSpec => []HistInv
<1> QED BY InitHist, NextHist, PTL DEF HistSpec

\* A witness is a matching in the sense of CepHistory.
LEMMA JustifiedMatching ==
  ASSUME HistShape, NEW r \in Rules, NEW key \in Sources, NEW n,
         JustifiedBy(r, seen[key], n)
  PROVE  \E f \in Matchings(r, key, 1, n) : InWindow(r, key, f)
<1>1. PICK past \in Seq(HistEntries) : past = seen[key]
  BY DEF HistShape
<1>2. PICK N \in Nat : N = Len(Steps[r]) /\ N >= 2 /\ DOMAIN Steps[r] = 1..N
  BY RuleFacts
<1>3. PICK f : Prefix(r, past, N, f) /\ f[N] = n /\ past[n].at - past[f[1]].at <= Window[r]
  BY <1>1, <1>2 DEF JustifiedBy
<1>4. /\ f \in [1..N -> 1..Len(past)]
      /\ \A i, j \in 1..N : i < j => f[i] < f[j]
      /\ \A i \in 1..N : matches(Steps[r][i], past[f[i]].event)
  BY <1>3 DEF Prefix
<1>5. \A i \in 1..N : f[i] \in 1..n
  <2>1. ASSUME NEW i \in 1..N
        PROVE  f[i] \in 1..n
    <3>0. N \in 1..N /\ Len(past) \in Nat
      BY <1>2, LenProperties
    <3>1. f[i] \in 1..Len(past) /\ f[N] \in 1..Len(past) /\ n \in 1..Len(past)
      BY <1>3, <1>4, <3>0
    <3>2. CASE i = N
      BY <1>3, <3>0, <3>1, <3>2
    <3>3. CASE i < N
      BY <1>3, <1>4, <3>0, <3>1, <3>3
    <3> QED BY <3>2, <3>3
  <2> QED BY <2>1
<1>6. f \in [1..N -> 1..n]
  BY <1>4, <1>5
<1>7. f \in Matchings(r, key, 1, n)
  <2>1. DOMAIN f = 1..N
    BY <1>6
  <2> QED BY <1>1, <1>2, <1>3, <1>4, <1>6, <2>1 DEF Matchings
<1>8. InWindow(r, key, f)
  BY <1>1, <1>2, <1>3 DEF InWindow
<1> QED BY <1>7, <1>8

\* Where process fires, the source's own events contain the whole sequence of
\* the rule, in order, within the window.
THEOREM NoFalseAlarm ==
  HistSpec => []AlertJustified
<1>1. HistInv => AlertJustified
  BY JustifiedMatching DEF HistInv, Witnessed, AlertJustified
<1> QED BY <1>1, HistInvariant, PTL

-----------------------------------------------------------------------------
(* Nothing is missed. *)

\* The partial match p of the event at g is as far along as any matching that
\* begins there.
TrackedBy(r, past, g, p) ==
  /\ p.started_at = past[g].at
  /\ \A k \in 1..Len(Steps[r]) : \A f : Prefix(r, past, k, f) /\ f[1] = g => k <= p.step

\* A matching of the whole of r that ends at n, within the window, began before
\* another alert at one of the indices in alarms.
CutShort(r, past, alarms, n) ==
  \A f : /\ Prefix(r, past, Len(Steps[r]), f) /\ f[Len(Steps[r])] = n
         /\ past[n].at - past[f[1]].at <= Window[r]
         => \E m \in alarms : f[1] < m /\ m < n

\* A first step within the window that no alert has come after is tracked.
Open(r, key, g) ==
  /\ matches(Steps[r][1], seen[key][g].event)
  /\ \A m \in fired[r][key] : m <= g
  /\ now - seen[key][g].at <= Window[r]

Tracked ==
  \A r \in Rules : \A key \in Sources :
    /\ \A g \in 1..Len(seen[key]) :
         Open(r, key, g) =>
           \E i \in 1..Len(Partials(r, key)) : TrackedBy(r, seen[key], g, Partials(r, key)[i])
    /\ \A n \in 1..Len(seen[key]) :
         n \notin fired[r][key] => CutShort(r, seen[key], fired[r][key], n)

\* The first l positions of f are a matching.
PartMatches(r, past, l, f) == \E g : Prefix(r, past, l, g) /\ \A i \in 1..l : g[i] = f[i]

\* The part of a matching that lies in the past is one of the past.
LEMMA PrefixOfPast ==
  ASSUME NEW past \in Seq(HistEntries), NEW e \in HistEntries, NEW r, NEW k \in Nat, NEW f,
         Prefix(r, Append(past, e), k, f), NEW l \in 1..k, f[l] <= Len(past)
  PROVE  PartMatches(r, past, l, f)
<1>1. PICK n \in Nat : n = Len(past)
  BY LenProperties
<1>2. PICK longer : longer = Append(past, e)
  OBVIOUS
<1>3. Len(longer) = n + 1 /\ \A i \in 1..n : longer[i] = past[i]
  BY <1>1, <1>2, AppendElements
<1>4. /\ f \in [1..k -> 1..(n + 1)]
      /\ \A i, j \in 1..k : i < j => f[i] < f[j]
      /\ \A i \in 1..k : matches(Steps[r][i], longer[f[i]].event)
  BY <1>2, <1>3 DEF Prefix
<1> DEFINE g == [i \in 1..l |-> f[i]]
<1>5. \A i \in 1..l : i \in 1..k /\ g[i] = f[i]
  OBVIOUS
<1>6. \A i \in 1..l : f[i] \in 1..n
  <2>1. ASSUME NEW i \in 1..l
        PROVE  f[i] \in 1..n
    <3>1. f[i] \in 1..(n + 1) /\ f[l] \in 1..(n + 1) /\ f[l] <= n
      BY <1>1, <1>4, <1>5
    <3>2. i = l \/ f[i] < f[l]
      BY <1>4, <1>5
    <3> QED BY <3>1, <3>2
  <2> QED BY <2>1
<1>7. g \in [1..l -> 1..n]
  BY <1>6
<1> HIDE DEF g
<1>8. \A i, j \in 1..l : i < j => g[i] < g[j]
  BY <1>4, <1>5
<1>9. \A i \in 1..l : matches(Steps[r][i], past[g[i]].event)
  BY <1>3, <1>4, <1>5, <1>6
<1>10. Prefix(r, past, l, g)
  BY <1>1, <1>7, <1>8, <1>9 DEF Prefix
<1> QED BY <1>5, <1>10 DEF PartMatches

\* Where the positions of a matching lie.
LEMMA PrefixPositions ==
  ASSUME NEW past \in Seq(HistEntries), NEW e \in HistEntries, NEW r, NEW k \in Nat \ {0},
         NEW f, Prefix(r, Append(past, e), k, f)
  PROVE  /\ \A i \in 1..k : f[i] \in 1..(Len(past) + 1)
         /\ f[k] = Len(past) + 1 => /\ matches(Steps[r][k], e.event)
                                    /\ k > 1 => f[k - 1] <= Len(past)
         /\ f[k] # Len(past) + 1 => f[k] <= Len(past)
         /\ f[1] <= f[k] /\ (k > 1 => f[1] < f[k])
<1>1. PICK n \in Nat : n = Len(past)
  BY LenProperties
<1>2. PICK longer : longer = Append(past, e)
  OBVIOUS
<1>3. Len(longer) = n + 1 /\ longer[n + 1] = e
  BY <1>1, <1>2, AppendElements
<1>4. /\ f \in [1..k -> 1..(n + 1)]
      /\ \A i, j \in 1..k : i < j => f[i] < f[j]
      /\ \A i \in 1..k : matches(Steps[r][i], longer[f[i]].event)
  BY <1>2, <1>3 DEF Prefix
<1>5. k \in 1..k /\ 1 \in 1..k /\ (k > 1 => k - 1 \in 1..k /\ k - 1 < k)
  OBVIOUS
<1>6. \A i \in 1..k : f[i] \in 1..(n + 1)
  BY <1>4
<1>7. f[k] \in 1..(n + 1) /\ f[1] \in 1..(n + 1) /\ (k > 1 => f[k - 1] \in 1..(n + 1))
  BY <1>5, <1>6
<1>8. k > 1 => f[k - 1] < f[k] /\ f[1] < f[k]
  BY <1>4, <1>5
<1>9. f[k] = n + 1 => matches(Steps[r][k], e.event)
  BY <1>3, <1>4, <1>5
<1>10. f[k] # n + 1 => f[k] <= n
  BY <1>7
<1>11. k > 1 /\ f[k] = n + 1 => f[k - 1] <= n
  BY <1>7, <1>8
<1>12. f[1] <= f[k]
  <2>1. CASE k = 1
    BY <1>7, <2>1
  <2>2. CASE k > 1
    BY <1>7, <1>8, <2>2
  <2> QED BY <2>1, <2>2
<1> QED BY <1>1, <1>6, <1>8, <1>9, <1>10, <1>11, <1>12

\* A match that is carried on without an alert keeps up with the event.
LEMMA CarriedTracked ==
  ASSUME NEW r \in Rules, NEW past \in Seq(HistEntries), NEW e \in HistEntries,
         NEW event, event = e.event, ~Fires(r, event),
         NEW g \in 1..Len(past), NEW p, NEW q, p.step \in 1..(Len(Steps[r]) - 1),
         TrackedBy(r, past, g, p), Carried(r, event, p, q)
  PROVE  TrackedBy(r, Append(past, e), g, q)
<1>1. PICK N \in Nat : N = Len(Steps[r]) /\ N >= 2
  BY RuleFacts
<1>2. PICK s \in 1..(N - 1) : s = p.step
  BY <1>1
<1>3. /\ q.started_at = p.started_at /\ (q.step = s \/ q.step = s + 1)
      /\ CanAdvance(r, p, event) => q.step = s + 1
  BY <1>2 DEF Carried
<1>4. Append(past, e)[g] = past[g]
  BY AppendElements
<1>5. \A k \in 1..N : \A f : Prefix(r, past, k, f) /\ f[1] = g => k <= s
  BY <1>1, <1>2 DEF TrackedBy
<1>6. ASSUME NEW k \in 1..N, NEW f, Prefix(r, Append(past, e), k, f), f[1] = g
      PROVE  k <= q.step
  <2>0. k \in Nat \ {0} /\ Len(past) \in Nat
    BY LenProperties
  <2>1. CASE f[k] # Len(past) + 1
    <3>1. f[k] <= Len(past) /\ k \in 1..k
      BY <1>6, <2>0, <2>1, PrefixPositions
    <3>2. PICK h : Prefix(r, past, k, h) /\ \A i \in 1..k : h[i] = f[i]
      <4>1. PartMatches(r, past, k, f)
        BY <1>6, <2>0, <3>1, PrefixOfPast
      <4> QED BY <4>1 DEF PartMatches
    <3>3. h[1] = g
      BY <1>6, <2>0, <3>2
    <3>4. k <= s
      BY <1>5, <3>2, <3>3
    <3> QED BY <1>3, <3>4
  <2>2. CASE f[k] = Len(past) + 1
    <3>1. k > 1
      BY <1>6, <2>0, <2>2
    <3>2. f[k - 1] <= Len(past) /\ matches(Steps[r][k], event)
      BY <1>6, <2>0, <2>2, <3>1, PrefixPositions
    <3>3. PICK l \in 1..k : l = k - 1 /\ l \in 1..N /\ 1 \in 1..l
      BY <1>1, <2>0, <3>1
    <3>4. PICK h : Prefix(r, past, l, h) /\ \A i \in 1..l : h[i] = f[i]
      <4>1. k \in Nat /\ l \in 1..k /\ f[l] <= Len(past)
        BY <2>0, <3>2, <3>3
      <4>2. PartMatches(r, past, l, f)
        BY <1>6, <4>1, PrefixOfPast
      <4> QED BY <4>2 DEF PartMatches
    <3>5. h[1] = g
      BY <1>6, <3>3, <3>4
    <3>6. l <= s
      BY <1>5, <3>3, <3>4, <3>5
    <3>7. CASE l < s
      BY <1>3, <3>3, <3>7
    <3>8. CASE l = s
      <4>1. k = s + 1 /\ s < N
        BY <3>3, <3>8
      <4>2. CanAdvance(r, p, event)
        BY <1>1, <1>2, <3>2, <4>1 DEF CanAdvance
      <4> QED BY <1>3, <4>1, <4>2
    <3> QED BY <3>3, <3>6, <3>7, <3>8
  <2> QED BY <2>1, <2>2
<1>7. q.started_at = Append(past, e)[g].at
  BY <1>3, <1>4 DEF TrackedBy
<1> QED BY <1>1, <1>6, <1>7 DEF TrackedBy

\* The match that an event begins is tracked from the event.
LEMMA BegunTracked ==
  ASSUME NEW r \in Rules, NEW past \in Seq(HistEntries), NEW e \in HistEntries,
         NEW p, p.step = 1, p.started_at = e.at
  PROVE  TrackedBy(r, Append(past, e), Len(past) + 1, p)
<1>1. Append(past, e)[Len(past) + 1] = e /\ Len(past) \in Nat
  BY AppendElements
<1>2. ASSUME NEW k \in 1..Len(Steps[r]), NEW f, Prefix(r, Append(past, e), k, f),
             f[1] = Len(past) + 1
      PROVE  k <= 1
  <2>1. k \in Nat \ {0}
    BY RuleFacts
  <2>2. k > 1 => f[1] < f[k] /\ f[k] \in 1..(Len(past) + 1)
    BY <1>2, <2>1, PrefixPositions
  <2> QED BY <1>1, <1>2, <2>1, <2>2
<1> QED BY <1>1, <1>2 DEF TrackedBy

\* Where no rule fires no matching is missed: the partial match of its first
\* event would have completed.
LEMMA NothingMissed ==
  ASSUME CepInv, NEW r \in Rules, NEW past \in Seq(HistEntries), NEW e \in HistEntries,
         NEW event, event = e.event, e.at = now, ~Fires(r, event),
         NEW list, list = Partials(r, event.src_ip), NEW alarms, alarms \subseteq 1..Len(past),
         \A g \in 1..Len(past) :
           /\ matches(Steps[r][1], past[g].event)
           /\ \A m \in alarms : m <= g
           /\ now - past[g].at <= Window[r]
           => \E i \in 1..Len(list) : TrackedBy(r, past, g, list[i])
  PROVE  CutShort(r, Append(past, e), alarms, Len(past) + 1)
<1>1. PICK N \in Nat : N = Len(Steps[r]) /\ N >= 2
  BY RuleFacts
<1>2. PICK n \in Nat : n = Len(past)
  BY LenProperties
<1>3. PICK longer : longer = Append(past, e)
  OBVIOUS
<1>4. longer[n + 1] = e /\ \A i \in 1..n : longer[i] = past[i]
  BY <1>2, <1>3, AppendElements
<1>5. SUFFICES ASSUME NEW f, Prefix(r, longer, N, f), f[N] = n + 1,
                      longer[n + 1].at - longer[f[1]].at <= Window[r],
                      \A m \in alarms : ~(f[1] < m /\ m < n + 1)
               PROVE  FALSE
  BY <1>1, <1>2, <1>3 DEF CutShort
<1>6. N \in Nat \ {0} /\ N > 1
  BY <1>1
<1>7. /\ f[1] \in 1..(n + 1) /\ f[1] < f[N] /\ f[N - 1] <= n
      /\ matches(Steps[r][N], event)
  <2>1. 1 \in 1..N
    BY <1>6
  <2> QED BY <1>2, <1>3, <1>5, <1>6, <2>1, PrefixPositions
<1>8. PICK g \in 1..n : g = f[1]
  BY <1>5, <1>7
<1>9. PICK l \in Nat : l = N - 1 /\ l \in 1..N /\ 1 \in 1..l
  BY <1>6
<1>10. PartMatches(r, past, l, f)
  BY <1>2, <1>3, <1>5, <1>6, <1>7, <1>9, PrefixOfPast
<1>11. PICK h : Prefix(r, past, l, h) /\ h[1] = g
  BY <1>8, <1>9, <1>10 DEF PartMatches
<1>12. matches(Steps[r][1], past[g].event)
  BY <1>9, <1>11 DEF Prefix
<1>13. \A m \in alarms : m <= g
  <2>1. \A m \in alarms : m \in 1..n
    BY <1>2
  <2>2. \A m \in alarms : ~(g < m /\ m < n + 1)
    BY <1>5, <1>8
  <2> QED BY <2>1, <2>2
<1>14. now - past[g].at <= Window[r]
  BY <1>4, <1>5, <1>8
<1>15. PICK i \in 1..Len(list) : TrackedBy(r, past, g, list[i])
  BY <1>2, <1>12, <1>13, <1>14
<1>16. PICK p : p = list[i]
  OBVIOUS
<1>17. l <= p.step /\ p.started_at = past[g].at
  BY <1>1, <1>9, <1>11, <1>15, <1>16 DEF TrackedBy
<1>18. p.step \in 1..(N - 1)
  BY <1>1, <1>16, ListsInProgress DEF InProgress
<1>19. p.step = N - 1
  BY <1>9, <1>17, <1>18
<1>20. /\ list[i].step = Len(Steps[r]) - 1
       /\ matches(Steps[r][Len(Steps[r])], event)
       /\ now - list[i].started_at <= Window[r]
  BY <1>1, <1>7, <1>14, <1>16, <1>17, <1>19
<1> QED BY <1>20, FiresOn

\* An old index stays as it was.
LEMMA CutShortStays ==
  ASSUME NEW r \in Rules, NEW past \in Seq(HistEntries), NEW e \in HistEntries,
         NEW alarms, NEW more, alarms \subseteq more, NEW n \in 1..Len(past),
         CutShort(r, past, alarms, n)
  PROVE  CutShort(r, Append(past, e), more, n)
<1>1. PICK N \in Nat : N = Len(Steps[r]) /\ N >= 2 /\ N \in 1..N /\ 1 \in 1..N
  BY RuleFacts
<1>2. PICK longer : longer = Append(past, e)
  OBVIOUS
<1>3. \A i \in 1..Len(past) : longer[i] = past[i]
  BY <1>2, AppendElements
<1>4. SUFFICES ASSUME NEW f, Prefix(r, longer, N, f), f[N] = n,
                      longer[n].at - longer[f[1]].at <= Window[r]
               PROVE  \E m \in more : f[1] < m /\ m < n
  BY <1>1, <1>2 DEF CutShort
<1>5. f[N] <= Len(past)
  BY <1>4, LenProperties
<1>6. PartMatches(r, past, N, f)
  BY <1>1, <1>2, <1>4, <1>5, PrefixOfPast
<1>7. PICK h : Prefix(r, past, N, h) /\ \A i \in 1..N : h[i] = f[i]
  BY <1>6 DEF PartMatches
<1>8. h[N] = n /\ h[1] = f[1] /\ h[1] \in 1..Len(past)
  BY <1>1, <1>4, <1>7 DEF Prefix
<1>9. past[n].at - past[h[1]].at <= Window[r]
  BY <1>3, <1>4, <1>8
<1>10. PICK m \in alarms : h[1] < m /\ m < n
  BY <1>1, <1>7, <1>8, <1>9 DEF CutShort
<1> QED BY <1>8, <1>10

LEMMA ObservedTracked ==
  ASSUME CepInv, HistShape, Tracked, NEW event \in Events,
         NEW stamp \in Stamps(event.src_ip), Observed(event, stamp),
         NEW r \in Rules, NEW key \in Sources
  PROVE  /\ \A g \in 1..Len(seen'[key]) :
              Open(r, key, g)' =>
                \E i \in 1..Len(Partials(r, key)') :
                  TrackedBy(r, seen'[key], g, Partials(r, key)'[i])
         /\ \A n \in 1..Len(seen'[key]) :
              n \notin fired'[r][key] => CutShort(r, seen'[key], fired'[r][key], n)
<1>1. process(event)
  BY DEF Observed
<1>2. PICK past \in Seq(HistEntries) : past = seen[key]
  BY DEF HistShape
<1>3. PICK list : list = Partials(r, key) /\ InProgress(r, list)
  BY ListsInProgress
<1>4. PICK alarms : alarms = fired[r][key] /\ alarms \subseteq 1..Len(past)
  BY <1>2 DEF HistShape
<1>5. /\ \A g \in 1..Len(past) :
           /\ matches(Steps[r][1], past[g].event)
           /\ \A m \in alarms : m <= g
           /\ now - past[g].at <= Window[r]
           => \E i \in 1..Len(list) : TrackedBy(r, past, g, list[i])
      /\ \A n \in 1..Len(past) : n \notin alarms => CutShort(r, past, alarms, n)
  BY <1>2, <1>3, <1>4 DEF Tracked, Open
<1>6. CASE key # event.src_ip
  <2>1. /\ Partials(r, key)' = list /\ seen'[key] = past /\ fired'[r][key] = alarms
        /\ now' = now
    BY <1>1, <1>2, <1>3, <1>4, <1>6, ListsAfter, ObservedHistory
  <2> QED BY <1>5, <2>1 DEF Open
<1>7. CASE key = event.src_ip
  <2>1. PICK e \in HistEntries : e = [event |-> event, at |-> now, stamp |-> stamp]
    BY <1>7, ObservedHistory
  <2>2. e.event = event /\ e.at = now /\ now' = now
    BY <2>1, ObservedHistory
  <2>3. PICK n \in Nat : n = Len(past)
    BY LenProperties
  <2>4. PICK longer : longer = Append(past, e)
    OBVIOUS
  <2>5. seen'[key] = longer
    BY <1>2, <1>7, <2>1, <2>4, ObservedHistory
  <2>6. Len(longer) = n + 1 /\ longer[n + 1] = e /\ \A i \in 1..n : longer[i] = past[i]
    BY <2>3, <2>4, AppendElements
  <2>7. PICK stay, f : /\ stay = Staying(r, event) /\ InProgress(r, stay)
                       /\ StaysFrom(r, event, list, stay, f)
    BY <1>3, <1>7, StayElements
  <2>8. PICK after : after = Processed(r, event)
    OBVIOUS
  <2>9. Partials(r, key)' = after
    BY <1>1, <1>7, <2>8, ListsAfter
  <2>10. /\ \A i \in 1..Len(stay) : after[i] = stay[i]
         /\ ~matches(Steps[r][1], event) => after = stay
         /\ matches(Steps[r][1], event) =>
              /\ Len(after) = Len(stay) + 1
              /\ after[Len(stay) + 1] = [step |-> 1, started_at |-> now]
    BY <2>7, <2>8, ProcessedElements
  <2>11. PICK k \in Nat : k = Len(stay)
    BY <2>7, LenProperties DEF InProgress
  <2>12. 1..k \subseteq 1..Len(after)
    BY <2>10, <2>11
  <2>13. PICK alarmsAfter : alarmsAfter = fired'[r][key]
    OBVIOUS
  <2>14. alarmsAfter = IF Fires(r, event) THEN alarms \cup {n + 1} ELSE alarms
    BY <1>2, <1>4, <1>7, <2>3, <2>13, ObservedHistory
  <2>15. \A g \in 1..(n + 1) : g \in 1..n \/ g = n + 1
    OBVIOUS
  <2>16. ASSUME NEW g \in 1..n, matches(Steps[r][1], longer[g].event),
                \A m \in alarmsAfter : m <= g, now - longer[g].at <= Window[r]
         PROVE  \E i \in 1..Len(after) : TrackedBy(r, longer, g, after[i])
    <3>1. ~Fires(r, event)
      <4>1. ~(n + 1 <= g)
        OBVIOUS
      <4> QED BY <2>14, <2>16, <4>1
    <3>2. PICK j \in 1..Len(list) : TrackedBy(r, past, g, list[j])
      BY <1>5, <2>3, <2>6, <2>14, <2>16, <3>1
    <3>3. PICK p : p = list[j]
      OBVIOUS
    <3>4. p.step \in 1..(Len(Steps[r]) - 1) /\ p.started_at = past[g].at
      BY <1>3, <3>2, <3>3 DEF InProgress, TrackedBy
    <3>5. now - p.started_at <= Window[r]
      BY <2>6, <2>16, <3>4
    <3>6. PICK i \in 1..k : f[i] = j
      BY <2>7, <2>11, <3>1, <3>3, <3>5 DEF StaysFrom
    <3>7. Carried(r, event, p, stay[i])
      BY <2>7, <2>11, <3>3, <3>6 DEF StaysFrom
    <3>8. TrackedBy(r, longer, g, stay[i])
      BY <2>2, <2>3, <2>4, <3>1, <3>2, <3>3, <3>4, <3>7, CarriedTracked
    <3> QED BY <2>10, <2>11, <2>12, <3>6, <3>8
  <2>17. ASSUME matches(Steps[r][1], longer[n + 1].event)
         PROVE  \E i \in 1..Len(after) : TrackedBy(r, longer, n + 1, after[i])
    <3>1. PICK q : q = [step |-> 1, started_at |-> now]
      OBVIOUS
    <3>2. q.step = 1 /\ q.started_at = now
      BY <3>1
    <3>3. after[k + 1] = q /\ Len(after) = k + 1
      BY <2>2, <2>6, <2>10, <2>11, <2>17, <3>1
    <3>4. TrackedBy(r, longer, n + 1, q)
      BY <2>2, <2>3, <2>4, <3>2, BegunTracked
    <3> QED BY <3>3, <3>4
  <2>18. ASSUME NEW m \in 1..(n + 1), m \notin alarmsAfter
         PROVE  CutShort(r, longer, alarmsAfter, m)
    <3>1. alarms \subseteq alarmsAfter
      BY <2>14
    <3>2. CASE m \in 1..n
      <4>1. CutShort(r, past, alarms, m)
        BY <1>5, <2>3, <2>18, <3>1, <3>2
      <4> QED BY <2>3, <2>4, <3>1, <3>2, <4>1, CutShortStays
    <3>3. CASE m = n + 1
      <4>1. ~Fires(r, event) /\ alarmsAfter = alarms
        BY <2>14, <2>18, <3>3
      <4>2. CutShort(r, Append(past, e), alarms, Len(past) + 1)
        BY <1>3, <1>4, <1>5, <1>7, <2>2, <4>1, NothingMissed
      <4> QED BY <2>3, <2>4, <3>3, <4>1, <4>2
    <3> QED BY <2>15, <3>2, <3>3
  <2>19. \A g \in 1..(n + 1) :
           /\ matches(Steps[r][1], longer[g].event)
           /\ \A m \in alarmsAfter : m <= g
           /\ now - longer[g].at <= Window[r]
           => \E i \in 1..Len(after) : TrackedBy(r, longer, g, after[i])
    BY <2>15, <2>16, <2>17
  <2> QED BY <2>2, <2>5, <2>6, <2>9, <2>13, <2>18, <2>19 DEF Open
<1> QED BY <1>6, <1>7

LEMMA InitTracked ==
  ASSUME HistInit
  PROVE  Tracked
<1>1. \A key \in Sources : seen[key] = <<>>
  BY DEF HistInit
<1>2. Len(<<>>) = 0 /\ \A i : i \notin 1..0
  OBVIOUS
<1> QED BY <1>1, <1>2 DEF Tracked

\* Time only closes the window of an event.
LEMMA TickTracked ==
  ASSUME CepInv, HistShape, Tracked, Tick, UNCHANGED <<seen, fired>>
  PROVE  Tracked'
<1>1. now \in Nat /\ now' = now + 1
  BY CepBoundAssumption DEF Tick, CepInv, CepShape
<1>2. ASSUME NEW r \in Rules, NEW key \in Sources, NEW g \in 1..Len(seen[key]),
             Open(r, key, g)'
      PROVE  Open(r, key, g)
  <2>1. seen[key][g] \in HistEntries
    BY ElementOfSeq DEF HistShape
  <2>2. seen[key][g].at \in Nat /\ Window[r] \in Nat
    BY <2>1, RuleFacts DEF HistEntries
  <2>3. /\ matches(Steps[r][1], seen[key][g].event)
        /\ \A m \in fired[r][key] : m <= g
        /\ now' - seen[key][g].at <= Window[r]
    BY <1>2 DEF Open
  <2>4. now - seen[key][g].at <= Window[r]
    BY <1>1, <2>2, <2>3
  <2> QED BY <2>3, <2>4 DEF Open
<1>3. \A r \in Rules : \A key : UNCHANGED Partials(r, key)
  BY TickHistory
<1>4. UNCHANGED <<seen, fired>>
  OBVIOUS
<1>5. ASSUME NEW r \in Rules, NEW key \in Sources
      PROVE  /\ \A g \in 1..Len(seen[key]) :
                  Open(r, key, g)' =>
                    \E i \in 1..Len(Partials(r, key)') :
                      TrackedBy(r, seen[key], g, Partials(r, key)'[i])
             /\ \A n \in 1..Len(seen[key]) :
                  n \notin fired[r][key] => CutShort(r, seen[key], fired[r][key], n)
  BY <1>2, <1>3 DEF Tracked
<1> QED BY <1>4, <1>5 DEF Tracked

LEMMA NextTracked ==
  ASSUME HistInv, Tracked, [HistNext]_histVars
  PROVE  Tracked'
<1>0. CepInv /\ HistShape
  BY DEF HistInv
<1>1. CASE UNCHANGED histVars
  BY <1>1 DEF histVars, Tracked, Partials, Open
<1>2. CASE Tick /\ UNCHANGED <<seen, fired>>
  BY <1>0, <1>2, TickTracked
<1>3. ASSUME NEW event \in Events, NEW stamp \in Stamps(event.src_ip), Observed(event, stamp)
      PROVE  Tracked'
  BY <1>0, <1>3, ObservedTracked DEF Tracked
<1> QED BY <1>1, <1>2, <1>3 DEF HistNext

\* A matching in the sense of CepHistory that no alert cuts short does not exist.
LEMMA TrackedDetected ==
  ASSUME HistShape, Tracked
  PROVE  SequenceDetected
<1>1. SUFFICES ASSUME NEW r \in Rules, NEW key \in Sources,
                      NEW n \in DOMAIN seen[key] \ fired[r][key], NEW from \in 1..n,
                      \A m \in fired[r][key] : m < n => m <= from,
                      NEW f \in Matchings(r, key, from, n), InWindow(r, key, f)
               PROVE  FALSE
  BY DEF SequenceDetected
<1>2. PICK past \in Seq(HistEntries) : past = seen[key]
  BY DEF HistShape
<1>3. PICK N \in Nat : N = Len(Steps[r]) /\ N >= 2 /\ DOMAIN Steps[r] = 1..N
  BY RuleFacts
<1>4. DOMAIN past = 1..Len(past) /\ Len(past) \in Nat /\ n \in 1..Len(past)
  BY <1>2, LenProperties
<1>5. /\ f \in [1..N -> from..n] /\ f[N] = n
      /\ \A i \in 1..N : matches(Steps[r][i], past[f[i]].event)
  BY <1>2, <1>3 DEF Matchings
<1>6. \A i, j \in 1..N : i < j => f[i] < f[j]
  <2>1. DOMAIN f = 1..N
    BY <1>5
  <2> QED BY <2>1 DEF Matchings
<1>7. from..n \subseteq 1..Len(past)
  BY <1>4
<1>8. f \in [1..N -> 1..Len(past)]
  BY <1>5, <1>7
<1>9. Prefix(r, past, N, f)
  BY <1>5, <1>6, <1>8 DEF Prefix
<1>10. past[n].at - past[f[1]].at <= Window[r]
  BY <1>1, <1>2, <1>3, <1>5 DEF InWindow
<1>11. CutShort(r, past, fired[r][key], n)
  BY <1>2, <1>4 DEF Tracked
<1>12. PICK m \in fired[r][key] : f[1] < m /\ m < n
  BY <1>3, <1>5, <1>9, <1>10, <1>11 DEF CutShort
<1>13. m <= from /\ f[1] \in from..n /\ m \in 1..Len(past)
  <2>1. 1 \in 1..N
    BY <1>3
  <2>2. m \in 1..Len(past)
    BY <1>2 DEF HistShape
  <2> QED BY <1>1, <1>5, <1>12, <2>1, <2>2
<1> QED BY <1>4, <1>12, <1>13

\* Where process does not fire, no sequence of the rule that begins at or after
\* the source's previous alert lies within the window.
THEOREM NoSequenceMissed ==
  HistSpec => []SequenceDetected
<1>1. HistInv /\ Tracked => SequenceDetected
  BY TrackedDetected DEF HistInv
<1>2. HistInit => Tracked
  BY InitTracked
<1>3. HistInv /\ Tracked /\ [HistNext]_histVars => Tracked'
  BY NextTracked
<1> QED BY <1>1, <1>2, <1>3, HistInvariant, PTL DEF HistSpec

-----------------------------------------------------------------------------
(* No more alerts than first steps. *)

\* The events of past, up to the n-th, that begin a partial match of r.
Starts(r, past, n) == {m \in 1..n : matches(Steps[r][1], past[m].event)}

UpTo(alarms, n) == {m \in alarms : m <= n}

\* A partial match or an alert for every first step, at most.
Counted ==
  \A r \in Rules : \A key \in Sources :
    /\ Len(Partials(r, key)) + Cardinality(fired[r][key])
         <= Cardinality(Starts(r, seen[key], Len(seen[key])))
    /\ \A n \in 1..Len(seen[key]) :
         Cardinality(UpTo(fired[r][key], n)) <= Cardinality(Starts(r, seen[key], n - 1))

LEMMA StartsCount ==
  ASSUME NEW r, NEW past, NEW n \in Nat
  PROVE  IsFiniteSet(Starts(r, past, n)) /\ Cardinality(Starts(r, past, n)) \in Nat
<1>1. IsFiniteSet(1..n)
  BY FS_Interval
<1> QED BY <1>1, FS_Subset, FS_CardinalityType DEF Starts

\* An event is one more start, or none.
LEMMA StartsGrow ==
  ASSUME NEW past \in Seq(HistEntries), NEW e \in HistEntries, NEW r
  PROVE  /\ \A n \in 0..Len(past) : Starts(r, Append(past, e), n) = Starts(r, past, n)
         /\ Cardinality(Starts(r, Append(past, e), Len(past) + 1)) =
              Cardinality(Starts(r, past, Len(past)))
                + (IF matches(Steps[r][1], e.event) THEN 1 ELSE 0)
<1>1. PICK n \in Nat : n = Len(past)
  BY LenProperties
<1>2. PICK longer : longer = Append(past, e)
  OBVIOUS
<1>3. longer[n + 1] = e /\ \A i \in 1..n : longer[i] = past[i]
  BY <1>1, <1>2, AppendElements
<1>4. \A k \in 0..n : Starts(r, longer, k) = Starts(r, past, k)
  <2>1. ASSUME NEW k \in 0..n
        PROVE  Starts(r, longer, k) = Starts(r, past, k)
    <3>1. \A m \in 1..k : longer[m] = past[m]
      BY <1>3
    <3> QED BY <3>1 DEF Starts
  <2> QED BY <2>1
<1>5. PICK before : before = Starts(r, past, n)
  OBVIOUS
<1>6. IsFiniteSet(before) /\ Cardinality(before) \in Nat /\ n + 1 \notin before
  <2>1. n + 1 \notin before
    BY <1>5 DEF Starts
  <2> QED BY <1>5, <2>1, StartsCount
<1>7. Starts(r, longer, n) = before
  BY <1>1, <1>4, <1>5
<1>8. 1..(n + 1) = (1..n) \cup {n + 1}
  BY <1>1
<1>9. CASE matches(Steps[r][1], e.event)
  <2>1. Starts(r, longer, n + 1) = before \cup {n + 1}
    BY <1>3, <1>7, <1>8, <1>9 DEF Starts
  <2>2. Cardinality(before \cup {n + 1}) = Cardinality(before) + 1
    BY <1>6, FS_AddElement
  <2> QED BY <1>1, <1>2, <1>4, <1>5, <1>9, <2>1, <2>2
<1>10. CASE ~matches(Steps[r][1], e.event)
  <2>1. Starts(r, longer, n + 1) = before
    BY <1>3, <1>7, <1>8, <1>10 DEF Starts
  <2> QED BY <1>1, <1>2, <1>4, <1>5, <1>6, <1>10, <2>1
<1> QED BY <1>9, <1>10

LEMMA ObservedCounted ==
  ASSUME CepInv, HistShape, Counted, NEW event \in Events,
         NEW stamp \in Stamps(event.src_ip), Observed(event, stamp),
         NEW r \in Rules, NEW key \in Sources
  PROVE  /\ Len(Partials(r, key)') + Cardinality(fired'[r][key])
              <= Cardinality(Starts(r, seen'[key], Len(seen'[key])))
         /\ \A n \in 1..Len(seen'[key]) :
              Cardinality(UpTo(fired'[r][key], n)) <= Cardinality(Starts(r, seen'[key], n - 1))
<1>1. process(event)
  BY DEF Observed
<1>2. PICK past \in Seq(HistEntries) : past = seen[key]
  BY DEF HistShape
<1>3. PICK list : list = Partials(r, key) /\ InProgress(r, list)
  BY ListsInProgress
<1>4. PICK alarms : alarms = fired[r][key] /\ alarms \subseteq 1..Len(past)
  BY <1>2 DEF HistShape
<1>5. PICK n \in Nat : n = Len(past)
  BY LenProperties
<1>6. /\ Len(list) + Cardinality(alarms) <= Cardinality(Starts(r, past, n))
      /\ \A m \in 1..n : Cardinality(UpTo(alarms, m)) <= Cardinality(Starts(r, past, m - 1))
  BY <1>2, <1>3, <1>4, <1>5 DEF Counted
<1>7. CASE key # event.src_ip
  <2>1. Partials(r, key)' = list /\ seen'[key] = past /\ fired'[r][key] = alarms
    BY <1>1, <1>2, <1>3, <1>4, <1>7, ListsAfter, ObservedHistory
  <2> QED BY <1>5, <1>6, <2>1
<1>8. CASE key = event.src_ip
  <2>1. PICK e \in HistEntries : e = [event |-> event, at |-> now, stamp |-> stamp]
    BY <1>8, ObservedHistory
  <2>2. e.event = event
    BY <2>1
  <2>3. PICK longer : longer = Append(past, e)
    OBVIOUS
  <2>4. seen'[key] = longer /\ Len(longer) = n + 1
    BY <1>2, <1>5, <1>8, <2>1, <2>3, ObservedHistory, AppendElements
  <2>5. PICK stay, f : /\ stay = Staying(r, event) /\ InProgress(r, stay)
                       /\ Len(stay) <= Len(list)
                       /\ Fires(r, event) => Len(stay) < Len(list)
    BY <1>3, <1>8, StayElements
  <2>6. PICK after : after = Processed(r, event)
    OBVIOUS
  <2>7. Partials(r, key)' = after
    BY <1>1, <1>8, <2>6, ListsAfter
  <2>8. PICK k \in Nat, l \in Nat : k = Len(stay) /\ l = Len(list)
    BY <1>3, <2>5, LenProperties DEF InProgress
  <2>9. Len(after) = k + (IF matches(Steps[r][1], event) THEN 1 ELSE 0)
    BY <2>5, <2>6, <2>8, ProcessedElements
  <2>10. PICK alarmsAfter : alarmsAfter = fired'[r][key]
    OBVIOUS
  <2>11. alarmsAfter = IF Fires(r, event) THEN alarms \cup {n + 1} ELSE alarms
    BY <1>2, <1>4, <1>5, <1>8, <2>10, ObservedHistory
  <2>12. /\ IsFiniteSet(alarms) /\ Cardinality(alarms) \in Nat
         /\ Cardinality(alarms \cup {n + 1}) = Cardinality(alarms) + 1
    <3>1. IsFiniteSet(1..n)
      BY FS_Interval
    <3>2. IsFiniteSet(alarms) /\ n + 1 \notin alarms
      BY <1>4, <1>5, <3>1, FS_Subset
    <3> QED BY <3>2, FS_AddElement, FS_CardinalityType
  <2>13. PICK starts \in Nat : starts = Cardinality(Starts(r, past, n))
    BY StartsCount
  <2>14. /\ \A m \in 0..n : Starts(r, longer, m) = Starts(r, past, m)
         /\ Cardinality(Starts(r, longer, n + 1)) =
              starts + (IF matches(Steps[r][1], event) THEN 1 ELSE 0)
    BY <1>5, <2>2, <2>3, <2>13, StartsGrow
  <2>15. k + Cardinality(alarmsAfter) <= starts
    <3>1. CASE Fires(r, event)
      BY <1>6, <2>5, <2>8, <2>11, <2>12, <2>13, <3>1
    <3>2. CASE ~Fires(r, event)
      BY <1>6, <2>5, <2>8, <2>11, <2>12, <2>13, <3>2
    <3> QED BY <3>1, <3>2
  <2>16. Cardinality(alarmsAfter) \in Nat
    BY <2>11, <2>12
  <2>17. Len(after) + Cardinality(alarmsAfter) <= Cardinality(Starts(r, longer, n + 1))
    BY <2>8, <2>9, <2>13, <2>14, <2>15, <2>16
  <2>18. ASSUME NEW m \in 1..(n + 1)
         PROVE  Cardinality(UpTo(alarmsAfter, m)) <= Cardinality(Starts(r, longer, m - 1))
    <3>1. CASE m \in 1..n
      <4>1. UpTo(alarmsAfter, m) = UpTo(alarms, m)
        BY <2>11, <3>1 DEF UpTo
      <4>2. m - 1 \in 0..n
        BY <3>1
      <4> QED BY <1>6, <2>14, <3>1, <4>1, <4>2
    <3>2. CASE m = n + 1
      <4>1. UpTo(alarmsAfter, m) = alarmsAfter
        BY <1>4, <1>5, <2>11, <3>2 DEF UpTo
      <4>2. m - 1 = n /\ n \in 0..n
        BY <3>2
      <4>3. Cardinality(alarmsAfter) <= starts
        BY <2>8, <2>13, <2>15, <2>16
      <4> QED BY <2>13, <2>14, <4>1, <4>2, <4>3
    <3> QED BY <3>1, <3>2
  <2> QED BY <2>4, <2>7, <2>10, <2>17, <2>18
<1> QED BY <1>7, <1>8

LEMMA InitCounted ==
  ASSUME HistInit
  PROVE  Counted
<1>1. /\ \A key \in Sources : seen[key] = <<>>
      /\ \A r \in Rules : \A key \in Sources : fired[r][key] = {}
      /\ \A r \in Rules : \A key : Partials(r, key) = <<>>
  BY DEF HistInit, CepInit, Partials
<1>2. /\ Len(<<>>) = 0 /\ (\A i : i \notin 1..0) /\ Cardinality({}) = 0
      /\ \A r : Starts(r, <<>>, 0) = {}
  BY FS_EmptySet DEF Starts
<1>3. ASSUME NEW r \in Rules, NEW key \in Sources
      PROVE  /\ Len(Partials(r, key)) + Cardinality(fired[r][key])
                  <= Cardinality(Starts(r, seen[key], Len(seen[key])))
             /\ \A n : n \notin 1..Len(seen[key])
  <2>1. /\ Len(Partials(r, key)) = 0 /\ Cardinality(fired[r][key]) = 0
        /\ Len(seen[key]) = 0
    BY <1>1, <1>2
  <2>2. Cardinality(Starts(r, seen[key], Len(seen[key]))) = 0
    BY <1>1, <1>2
  <2> QED BY <1>2, <2>1, <2>2
<1> QED BY <1>3 DEF Counted

LEMMA NextCounted ==
  ASSUME HistInv, Counted, [HistNext]_histVars
  PROVE  Counted'
<1>0. CepInv /\ HistShape
  BY DEF HistInv
<1>1. CASE UNCHANGED histVars
  BY <1>1 DEF histVars, Counted, Partials
<1>2. CASE Tick /\ UNCHANGED <<seen, fired>>
  BY <1>2 DEF Tick, Counted, Partials
<1>3. ASSUME NEW event \in Events, NEW stamp \in Stamps(event.src_ip), Observed(event, stamp)
      PROVE  Counted'
  BY <1>0, <1>3, ObservedCounted DEF Counted
<1> QED BY <1>1, <1>2, <1>3 DEF HistNext

\* A completed match is dropped: a source has never more alerts of a rule than
\* first steps before them.
THEOREM NoAlertTwice ==
  HistSpec => []FiresOncePerStart
<1>1. ASSUME HistShape, Counted
      PROVE  FiresOncePerStart
  <2>1. \A key \in Sources : DOMAIN seen[key] = 1..Len(seen[key])
    BY <1>1, LenProperties DEF HistShape
  <2> QED BY <1>1, <2>1 DEF Counted, FiresOncePerStart, UpTo, Starts
<1>2. HistInv /\ Counted => FiresOncePerStart
  BY <1>1 DEF HistInv
<1>3. HistInit => Counted
  BY InitCounted
<1>4. HistInv /\ Counted /\ [HistNext]_histVars => Counted'
  BY NextCounted
<1> QED BY <1>2, <1>3, <1>4, HistInvariant, PTL DEF HistSpec
=============================================================================
