---------------------------- MODULE SessionProofs ----------------------------
(***************************************************************************)
(* Proofs about the sessions of dashboard/index.html for any number of      *)
(* engines, tokens, clicks and restarts.                                    *)
(***************************************************************************)
EXTENDS Session, SequenceTheorems, TLAPS

-----------------------------------------------------------------------------
(* The inductive invariant. *)

LoginStates == {"sent", "accepted", "refused", "done"}
LoginRecords == [base : Engines, token : Tokens, state : LoginStates, during : SUBSET Nat]

\* Types; the app is shown exactly when a polling loop has been started.
SessionShape ==
  /\ API_TOKEN \in [Engines -> Tokens \cup {Unset}]
  /\ API_BASE \in Engines
  /\ logins \in Seq(LoginRecords)
  /\ loops \in Nat
  /\ screen \in {"login", "app"}
  /\ screen = "login" <=> loops = 0
  /\ loops = 0 => polled = "none"

\* A login that is not done was under way when any later one was sent, and
\* API_BASE is where the last one went.
LoginsOverlap ==
  /\ \A i, j \in 1..Len(logins) :
       logins[i].state # "done" /\ i < j => i \in logins[j].during
  /\ Len(logins) > 0 => API_BASE = logins[Len(logins)].base

\* Without overlap the token of a login that was accepted is that of its engine
\* unless that has been restarted since, also while the handler has not run ...
AcceptedInTime ==
  ~Overlapped =>
    \A i \in 1..Len(logins) :
      logins[i].state = "accepted" =>
        logins[i].base \in restarted \/ logins[i].token = expected_token(logins[i].base)

\* ... and when it has: it has started the only polling loop, and no other login
\* is under way any more.
LoggedInOnce ==
  loops > 0 /\ ~Overlapped =>
    /\ loops = 1
    /\ \A i \in 1..Len(logins) : logins[i].state = "done"
    /\ API_BASE \in restarted \/ TOKEN = expected_token(API_BASE)

\* The inductive invariant of a session.
SessionInv ==
  SessionShape /\ LoginsOverlap /\ AcceptedInTime /\ LoggedInOnce /\ RefusedForAReason

-----------------------------------------------------------------------------
(* The history of logins. *)

LEMMA OpenLogins ==
  ASSUME SessionShape
  PROVE  /\ DOMAIN logins = 1..Len(logins) /\ Len(logins) \in Nat
         /\ \A i \in 1..Len(logins) : logins[i] \in LoginRecords
         /\ Open = {i \in 1..Len(logins) : logins[i].state # "done"}
         /\ Overlapped <=> \E i \in 1..Len(logins) : logins[i].during # {}
<1>1. logins \in Seq(LoginRecords)
  BY DEF SessionShape
<1>2. /\ DOMAIN logins = 1..Len(logins) /\ Len(logins) \in Nat
      /\ \A i \in 1..Len(logins) : logins[i] \in LoginRecords
  BY <1>1, LenProperties, ElementOfSeq
<1> QED BY <1>2 DEF Open, Overlapped

LEMMA InitSession ==
  ASSUME SessionInit
  PROVE  SessionInv
<1>1. /\ logins = <<>> /\ logins \in Seq(LoginRecords) /\ Len(logins) = 0
      /\ \A i : i \notin 1..0
  BY EmptySeq DEF SessionInit
<1>2. SessionShape
  BY <1>1 DEF SessionInit, SessionShape
<1>3. LoginsOverlap /\ AcceptedInTime /\ LoggedInOnce /\ RefusedForAReason
  BY <1>1 DEF SessionInit, LoginsOverlap, AcceptedInTime, LoggedInOnce, RefusedForAReason
<1> QED BY <1>2, <1>3 DEF SessionInv

\* A click while an answer is outstanding is an overlap.
LEMMA ClickSession ==
  ASSUME SessionInv, NEW e \in Engines, NEW token \in Tokens, Click(e, token)
  PROVE  SessionInv'
<1> USE DEF SessionInv
<1> DEFINE x == [base |-> e, token |-> token, state |-> "sent", during |-> Open]
           n == Len(logins)
<1>1. /\ logins \in Seq(LoginRecords) /\ n \in Nat
      /\ loops = 0 /\ polled = "none"
      /\ logins' = Append(logins, x) /\ API_BASE' = e
      /\ UNCHANGED <<API_TOKEN, TOKEN, screen, loops, polled, restarts, restarted>>
  BY LenProperties DEF Click, Sent, SessionShape
<1>2. Open \subseteq Nat /\ Open = {i \in 1..n : logins[i].state # "done"}
  BY OpenLogins
<1>3. x \in LoginRecords
  BY <1>2 DEF LoginRecords, LoginStates
<1>4. /\ logins' \in Seq(LoginRecords) /\ Len(logins') = n + 1 /\ logins'[n + 1] = x
      /\ \A i \in 1..n : logins'[i] = logins[i]
  <2> HIDE DEF x
  <2> QED BY <1>1, <1>3, AppendProperties
<1>5. x.base = e /\ x.during = Open /\ x.state = "sent"
  OBVIOUS
<1> HIDE DEF x, n
<1>6. SessionShape'
  BY <1>1, <1>4 DEF SessionShape
<1>7. LoginsOverlap'
  <2>1. ASSUME NEW i \in 1..(n + 1), NEW j \in 1..(n + 1), logins'[i].state # "done", i < j
        PROVE  i \in logins'[j].during
    <3>1. i \in 1..n /\ logins'[i] = logins[i] /\ logins[i].state # "done"
      BY <1>1, <1>4, <2>1
    <3>2. CASE j = n + 1
      BY <1>2, <1>4, <1>5, <3>1, <3>2
    <3>3. CASE j # n + 1
      <4>1. j \in 1..n /\ logins'[j] = logins[j]
        BY <1>1, <1>4, <3>3
      <4> QED BY <2>1, <3>1, <4>1 DEF LoginsOverlap, n
    <3> QED BY <3>2, <3>3
  <2>2. API_BASE' = logins'[n + 1].base
    BY <1>1, <1>4, <1>5
  <2> QED BY <1>4, <2>1, <2>2 DEF LoginsOverlap
<1>8. AcceptedInTime'
  <2>1. Overlapped => Overlapped'
    <3>1. DOMAIN logins' = 1..(n + 1)
      BY <1>4, LenProperties
    <3> QED BY <1>4, <3>1, OpenLogins DEF Overlapped, n
  <2>2. \A i \in 1..(n + 1) : logins'[i].state = "accepted" =>
          i \in 1..n /\ logins'[i] = logins[i]
    BY <1>1, <1>4, <1>5
  <2>3. \A b : expected_token(b)' = expected_token(b)
    BY <1>1 DEF expected_token
  <2> QED BY <1>1, <1>4, <2>1, <2>2, <2>3 DEF AcceptedInTime, n
<1>9. LoggedInOnce' /\ RefusedForAReason'
  BY <1>1 DEF LoggedInOnce, RefusedForAReason
<1> QED BY <1>6, <1>7, <1>8, <1>9

\* What a login's next state leaves of the logins: none is begun, and none that
\* was done is under way again.
LEMMA MovedLogins ==
  ASSUME SessionShape, NEW i \in Open, NEW state \in LoginStates, logins' = Moved(i, state)
  PROVE  /\ i \in 1..Len(logins) /\ Len(logins) \in Nat
         /\ logins' \in Seq(LoginRecords) /\ Len(logins') = Len(logins)
         /\ logins'[i].state = state
         /\ \A j \in 1..Len(logins) :
              /\ logins'[j].base = logins[j].base
              /\ logins'[j].token = logins[j].token
              /\ logins'[j].during = logins[j].during
              /\ logins'[j].state # "done" => logins[j].state # "done"
              /\ j # i => logins'[j] = logins[j]
<1>1. /\ i \in 1..Len(logins) /\ logins[i].state # "done" /\ Len(logins) \in Nat
      /\ DOMAIN logins = 1..Len(logins)
      /\ \A j \in 1..Len(logins) : logins[j] \in LoginRecords
  BY OpenLogins
<1>2. PICK n \in Nat : n = Len(logins)
  BY <1>1
<1>3. PICK y : y = [logins[i] EXCEPT !.state = state]
  OBVIOUS
<1>4. /\ y \in LoginRecords /\ y.base = logins[i].base /\ y.token = logins[i].token
      /\ y.during = logins[i].during /\ y.state = state
  <2>1. logins[i] \in [base : Engines, token : Tokens, state : LoginStates,
                       during : SUBSET Nat]
    BY <1>1 DEF LoginRecords
  <2> QED BY <1>3, <2>1 DEF LoginRecords
<1>5. logins \in [1..n -> LoginRecords]
  <2>1. logins \in Seq(LoginRecords)
    BY DEF SessionShape
  <2> QED BY <1>2, <2>1, LenProperties
<1>6. logins' = [logins EXCEPT ![i] = y]
  BY <1>3 DEF Moved
<1>7. /\ logins' \in [1..n -> LoginRecords]
      /\ logins'[i] = y
      /\ \A j \in 1..n : j # i => logins'[j] = logins[j]
  BY <1>1, <1>2, <1>4, <1>5, <1>6
<1>8. logins' \in Seq(LoginRecords) /\ Len(logins') = n
  <2>1. logins' \in Seq(LoginRecords)
    BY <1>7, SeqDef
  <2> QED BY <1>7, <2>1, LenProperties
<1>9. ASSUME NEW j \in 1..n
      PROVE  /\ logins'[j].base = logins[j].base
             /\ logins'[j].token = logins[j].token
             /\ logins'[j].during = logins[j].during
             /\ logins'[j].state # "done" => logins[j].state # "done"
             /\ j # i => logins'[j] = logins[j]
  <2>1. CASE j = i
    BY <1>1, <1>4, <1>7, <2>1
  <2>2. CASE j # i
    BY <1>7, <2>2
  <2> QED BY <2>1, <2>2
<1> QED BY <1>1, <1>2, <1>4, <1>7, <1>8, <1>9

\* What is left of SessionShape and LoginsOverlap when only the login and the
\* screen move.
LEMMA MovedSession ==
  ASSUME SessionInv, NEW i \in Open, NEW state \in LoginStates, logins' = Moved(i, state),
         UNCHANGED <<API_TOKEN, API_BASE, polled>>,
         UNCHANGED <<screen, loops>> \/ (loops' = loops + 1 /\ screen' = "app")
  PROVE  SessionShape' /\ LoginsOverlap' /\ (Overlapped' <=> Overlapped)
<1> USE DEF SessionInv
<1>1. /\ Len(logins) \in Nat
      /\ logins' \in Seq(LoginRecords) /\ Len(logins') = Len(logins)
      /\ \A j \in 1..Len(logins) :
           /\ logins'[j].base = logins[j].base
           /\ logins'[j].during = logins[j].during
           /\ logins'[j].state # "done" => logins[j].state # "done"
  BY MovedLogins
<1>2. SessionShape'
  <2>1. CASE UNCHANGED <<screen, loops>>
    BY <1>1, <2>1 DEF SessionShape
  <2>2. CASE loops' = loops + 1 /\ screen' = "app"
    <3>1. loops \in Nat
      BY DEF SessionShape
    <3>2. loops' \in Nat /\ loops' # 0
      BY <2>2, <3>1
    <3> QED BY <1>1, <2>2, <3>2 DEF SessionShape
  <2> QED BY <2>1, <2>2
<1>3. LoginsOverlap'
  <2>1. ASSUME NEW j \in 1..Len(logins'), NEW k \in 1..Len(logins'),
               logins'[j].state # "done", j < k
        PROVE  j \in logins'[k].during
    BY <1>1, <2>1 DEF LoginsOverlap
  <2>2. ASSUME Len(logins') > 0
        PROVE  API_BASE' = logins'[Len(logins')].base
    <3>1. Len(logins) \in 1..Len(logins)
      BY <1>1, <2>2
    <3> QED BY <1>1, <2>2, <3>1 DEF LoginsOverlap
  <2> QED BY <2>1, <2>2 DEF LoginsOverlap
<1>4. Overlapped' <=> Overlapped
  <2>1. Overlapped <=> \E j \in 1..Len(logins) : logins[j].during # {}
    BY OpenLogins
  <2>2. DOMAIN logins' = 1..Len(logins')
    BY <1>1, LenProperties
  <2>3. Overlapped' <=> \E j \in 1..Len(logins') : logins'[j].during # {}
    BY <2>2 DEF Overlapped
  <2> QED BY <1>1, <2>1, <2>3
<1> QED BY <1>2, <1>3, <1>4

\* Without overlap there is one login under way at most, the last one sent, and
\* no polling loop yet.
LEMMA OnlyLogin ==
  ASSUME SessionInv, NEW i \in Open, ~Overlapped
  PROVE  /\ i \in 1..Len(logins) /\ loops = 0 /\ polled = "none"
         /\ API_BASE = logins[i].base
         /\ \A j \in 1..Len(logins) : j # i => logins[j].state = "done"
<1> USE DEF SessionInv
<1>1. i \in 1..Len(logins) /\ logins[i].state # "done" /\ Len(logins) \in Nat
  BY OpenLogins
<1>2. loops = 0 /\ polled = "none"
  <2>1. loops \in Nat
    BY DEF SessionShape
  <2>2. ~(loops > 0)
    BY <1>1 DEF LoggedInOnce
  <2> QED BY <2>1, <2>2 DEF SessionShape
<1>3. ASSUME NEW j \in 1..Len(logins), NEW k \in 1..Len(logins),
             j < k, logins[j].state # "done"
      PROVE  FALSE
  <2>1. j \in logins[k].during
    BY <1>3 DEF LoginsOverlap
  <2> QED BY <2>1, OpenLogins
<1>4. i = Len(logins)
  <2>1. CASE i < Len(logins)
    <3>1. Len(logins) \in 1..Len(logins)
      BY <1>1
    <3> QED BY <1>1, <1>3, <2>1, <3>1
  <2> QED BY <1>1, <2>1
<1>5. API_BASE = logins[i].base
  BY <1>1, <1>4 DEF LoginsOverlap
<1>6. ASSUME NEW j \in 1..Len(logins), j # i
      PROVE  logins[j].state = "done"
  <2>1. j < i
    BY <1>1, <1>4, <1>6
  <2> QED BY <1>1, <1>3, <2>1
<1> QED BY <1>1, <1>2, <1>5, <1>6

\* The engine's answer: it accepts its own token, and without overlap no other
\* login's check is the last one that counts.
LEMMA CheckSession ==
  ASSUME SessionInv, NEW i \in Open, CheckLogin(i)
  PROVE  SessionInv'
<1> USE DEF SessionInv
<1>1. PICK state : state = IF login(logins[i].base, logins[i].token)
                           THEN "accepted" ELSE "refused"
  OBVIOUS
<1>2. /\ state \in LoginStates
      /\ logins' = Moved(i, state)
      /\ UNCHANGED <<API_TOKEN, API_BASE, TOKEN, screen, loops, polled, restarts>>
  BY <1>1 DEF CheckLogin, LoginStates
<1>3. SessionShape' /\ LoginsOverlap' /\ (Overlapped' <=> Overlapped)
  <2>1. UNCHANGED <<API_TOKEN, API_BASE, polled>> /\ UNCHANGED <<screen, loops>>
    BY <1>2
  <2> QED BY <1>2, <2>1, MovedSession
<1>4. ASSUME Overlapped
      PROVE  AcceptedInTime' /\ LoggedInOnce' /\ RefusedForAReason'
  BY <1>3, <1>4 DEF AcceptedInTime, LoggedInOnce, RefusedForAReason
<1>5. ASSUME ~Overlapped
      PROVE  AcceptedInTime' /\ LoggedInOnce' /\ RefusedForAReason'
  <2>1. /\ i \in 1..Len(logins) /\ loops = 0 /\ polled = "none"
        /\ \A j \in 1..Len(logins) : j # i => logins[j].state = "done"
    BY <1>5, OnlyLogin
  <2>2. LoggedInOnce' /\ RefusedForAReason'
    BY <1>2, <2>1 DEF LoggedInOnce, RefusedForAReason
  <2>3. /\ Len(logins') = Len(logins) /\ logins'[i].state = state
        /\ \A j \in 1..Len(logins) :
             /\ logins'[j].base = logins[j].base
             /\ logins'[j].token = logins[j].token
             /\ j # i => logins'[j] = logins[j]
    BY <1>2, MovedLogins
  <2>4. ASSUME NEW j \in 1..Len(logins'), logins'[j].state = "accepted"
        PROVE  logins'[j].token = expected_token(logins'[j].base)
    <3>1. j = i
      BY <2>1, <2>3, <2>4
    <3>2. logins[i].token = expected_token(logins[i].base)
      BY <1>1, <2>3, <2>4, <3>1 DEF login
    <3> QED BY <2>1, <2>3, <3>1, <3>2
  <2>5. AcceptedInTime'
    BY <1>2, <2>4 DEF AcceptedInTime, expected_token
  <2> QED BY <2>2, <2>5
<1> QED BY <1>3, <1>4, <1>5

\* A handler ends a login and begins no overlap.
LEMMA AnswerSession ==
  ASSUME SessionInv, NEW i \in Open,
         LoginOk(i) \/ LoginRefused(i) \/ LoginFails(i)
  PROVE  SessionInv'
<1> USE DEF SessionInv
<1>1. /\ "done" \in LoginStates
      /\ logins' = Moved(i, "done")
      /\ UNCHANGED <<API_TOKEN, API_BASE, polled, restarts, restarted>>
      /\ UNCHANGED <<screen, loops>> \/ (loops' = loops + 1 /\ screen' = "app")
  BY DEF LoginOk, LoginRefused, LoginFails, LoginStates
<1>2. /\ i \in 1..Len(logins) /\ Len(logins) \in Nat
      /\ Len(logins') = Len(logins) /\ logins'[i].state = "done"
      /\ \A j \in 1..Len(logins) :
           /\ logins'[j].state # "done" => logins[j].state # "done"
           /\ j # i => logins'[j] = logins[j]
  BY <1>1, MovedLogins
<1>3. SessionShape' /\ LoginsOverlap' /\ (Overlapped' <=> Overlapped)
  BY <1>1, MovedSession
<1>4. \A b : expected_token(b)' = expected_token(b)
  BY <1>1 DEF expected_token
<1>5. AcceptedInTime'
  <2>1. ASSUME NEW j \in 1..Len(logins'), logins'[j].state = "accepted"
        PROVE  j \in 1..Len(logins) /\ logins'[j] = logins[j]
    BY <1>2, <2>1
  <2> QED BY <1>1, <1>3, <1>4, <2>1 DEF AcceptedInTime
<1>6. CASE LoginRefused(i) \/ LoginFails(i)
  <2>1. UNCHANGED <<API_BASE, TOKEN, loops, polled, restarted>>
    BY <1>6 DEF LoginRefused, LoginFails
  <2>2. LoggedInOnce'
    BY <1>2, <1>3, <1>4, <2>1 DEF LoggedInOnce
  <2>3. RefusedForAReason'
    BY <1>3, <2>1 DEF RefusedForAReason
  <2> QED BY <1>3, <1>5, <2>2, <2>3
<1>7. CASE LoginOk(i) /\ Overlapped
  BY <1>3, <1>5, <1>7 DEF LoggedInOnce, RefusedForAReason
<1>8. CASE LoginOk(i) /\ ~Overlapped
  <2>1. /\ loops = 0 /\ polled = "none" /\ API_BASE = logins[i].base
        /\ \A j \in 1..Len(logins) : j # i => logins[j].state = "done"
    BY <1>8, OnlyLogin
  <2>2. logins[i].state = "accepted" /\ TOKEN' = logins[i].token /\ loops' = 1
    BY <1>8, <2>1 DEF LoginOk
  <2>3. API_BASE \in restarted \/ logins[i].token = expected_token(API_BASE)
    BY <1>2, <1>8, <2>1, <2>2 DEF AcceptedInTime
  <2>4. \A j \in 1..Len(logins) : logins'[j].state = "done"
    BY <1>2, <2>1
  <2>5. LoggedInOnce'
    BY <1>1, <1>2, <1>4, <2>2, <2>3, <2>4 DEF LoggedInOnce
  <2>6. RefusedForAReason'
    BY <1>1, <2>1 DEF RefusedForAReason
  <2> QED BY <1>3, <1>5, <2>5, <2>6
<1> QED BY <1>6, <1>7, <1>8

\* A poll without overlap has the engine's token, unless that was restarted, and
\* is admitted when the header brings it there as it is.
LEMMA PollSession ==
  ASSUME SessionInv, Poll
  PROVE  SessionInv'
<1> USE DEF SessionInv
<1>1. loops > 0 /\ UNCHANGED <<API_TOKEN, formVars, restarts, restarted>>
  BY DEF Poll
<1>2. UNCHANGED <<API_TOKEN, API_BASE, TOKEN, screen, logins, loops, restarted>>
  BY <1>1 DEF formVars
<1>3. SessionShape' /\ LoginsOverlap'
  BY <1>1, <1>2 DEF SessionShape, LoginsOverlap
<1>4. Overlapped' <=> Overlapped
  BY <1>2 DEF Overlapped
<1>5. AcceptedInTime' /\ LoggedInOnce'
  BY <1>2, <1>4 DEF AcceptedInTime, LoggedInOnce, expected_token
<1>6. RefusedForAReason'
  <2>1. SUFFICES ASSUME polled' = "refused", ~Overlapped, API_BASE \notin restarted,
                        SentIntact(TOKEN)
                 PROVE  FALSE
    BY <1>2, <1>4 DEF RefusedForAReason
  <2>2. TOKEN = expected_token(API_BASE)
    BY <1>1, <2>1 DEF LoggedInOnce
  <2>3. TOKEN # Empty /\ {Carried[TOKEN]} = {TOKEN}
    BY <2>1 DEF SentIntact
  <2>4. \A route \in {"/stats", "/alerts"} : Admits(API_BASE, route, {Carried[TOKEN]})
    BY <2>2, <2>3 DEF Admits
  <2> QED BY <2>1, <2>3, <2>4 DEF Poll
<1> QED BY <1>3, <1>5, <1>6

LEMMA RestartSession ==
  ASSUME SessionInv, NEW e \in Engines, Restart(e)
  PROVE  SessionInv'
<1> USE DEF SessionInv
<1>1. PICK value \in Tokens \cup {Unset} : API_TOKEN' = [API_TOKEN EXCEPT ![e] = value]
  BY DEF Restart
<1>2. /\ restarted' = restarted \cup {e}
      /\ UNCHANGED <<API_BASE, TOKEN, screen, logins, loops, polled>>
  BY DEF Restart, formVars
<1>3. SessionShape' /\ LoginsOverlap'
  BY <1>1, <1>2 DEF SessionShape, LoginsOverlap
<1>4. Overlapped' <=> Overlapped
  BY <1>2 DEF Overlapped
<1>5. \A b \in Engines : b # e => expected_token(b)' = expected_token(b)
  BY <1>1 DEF expected_token, SessionShape
<1>6. LoggedInOnce' /\ AcceptedInTime'
  <2>1. API_BASE \in Engines /\ \A i \in 1..Len(logins) : logins[i].base \in Engines
    BY OpenLogins DEF SessionShape, LoginRecords
  <2>2. LoggedInOnce'
    BY <1>2, <1>4, <1>5, <2>1 DEF LoggedInOnce
  <2>3. AcceptedInTime'
    BY <1>2, <1>4, <1>5, <2>1 DEF AcceptedInTime
  <2> QED BY <2>2, <2>3
<1>7. RefusedForAReason'
  BY <1>2, <1>4 DEF RefusedForAReason
<1> QED BY <1>3, <1>6, <1>7

LEMMA NextSession ==
  ASSUME SessionInv, [SessionNext]_sessionVars
  PROVE  SessionInv'
<1>1. CASE UNCHANGED sessionVars
  BY <1>1 DEF SessionInv, SessionShape, LoginsOverlap, AcceptedInTime, LoggedInOnce,
              RefusedForAReason, Overlapped, expected_token, sessionVars, formVars
<1>2. \A i : CheckLogin(i) \/ LoginOk(i) \/ LoginRefused(i) \/ LoginFails(i) => i \in Open
  BY DEF CheckLogin, LoginOk, LoginRefused, LoginFails
<1> QED BY <1>1, <1>2, ClickSession, CheckSession, AnswerSession, PollSession, RestartSession
        DEF SessionNext

-----------------------------------------------------------------------------
(* The theorems. *)

\* SessionInv holds in every state of every run.
THEOREM SessionInvariant ==
  SessionSpec => []SessionInv
BY InitSession, NextSession, PTL DEF SessionSpec

\* RefusedForAReason: whose login was checked and accepted is refused later only
\* after overlapping logins, after a restart of the engine since that check, or
\* with a token that the header of a poll does not bring to the engine as it is.
THEOREM NoSilentRefusal ==
  SessionSpec => []RefusedForAReason
<1>1. SessionInv => RefusedForAReason
  BY DEF SessionInv
<1> QED BY <1>1, SessionInvariant, PTL

\* OneLoop: a second polling loop takes two logins under way at the same time.
THEOREM OnePollingLoop ==
  SessionSpec => []OneLoop
<1>1. SessionInv => OneLoop
  BY DEF SessionInv, SessionShape, LoggedInOnce, OneLoop
<1> QED BY <1>1, SessionInvariant, PTL
=============================================================================
