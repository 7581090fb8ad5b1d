-------------------------------- MODULE Session --------------------------------
(***************************************************************************)
(* A session of dashboard/index.html: the login form and the polling it     *)
(* starts, with the token check of engine/src/api.rs on the other side.     *)
(* The form names an engine and a token; a click while the answer to an     *)
(* earlier one is outstanding sends a second request, and the handlers of   *)
(* both share the globals API_BASE and TOKEN.  The token goes to /login as  *)
(* JSON and with every poll in a header, which cannot carry every token.    *)
(* An engine may be restarted with another API_TOKEN at any time, also      *)
(* between its answer and the page's handler, and any request may fail.     *)
(***************************************************************************)
EXTENDS Integers, Sequences

CONSTANTS
  Engines,       \* base URLs
  Tokens,        \* what may be typed as a token, or set as API_TOKEN
  Unset,         \* API_TOKEN is not set, or not Unicode
  Carried,       \* Carried[t]: what to_str() reads behind "Bearer " in the header
                 \* that fetch sends for t: t without white space at its end, or
  Unreadable,    \* no token: nothing is left of t, or it is Latin-1 and not all
                 \* visible ASCII, so that to_str() fails; or
  Unsendable,    \* nothing: t is not Latin-1 and fetch throws
  MaxClicks,     \* bound on clicks
  MaxRestarts    \* bound on restarts

Dev == "dev-token-change-me"
Empty == ""

ASSUME SessionAssumption ==
  /\ {Dev, Empty} \subseteq Tokens
  /\ {Unset, Unreadable, Unsendable} \cap Tokens = {} /\ Unreadable # Unsendable
  /\ DOMAIN Carried = Tokens /\ Carried[Dev] = Dev
  /\ {MaxClicks, MaxRestarts} \subseteq Nat

VARIABLES
  API_TOKEN,     \* API_TOKEN[e]: in the environment of engine e
  API_BASE, TOKEN,
  screen,        \* "login", or "app" once a login has succeeded
  logins,        \* the clicks: where and with what, and how far they have got
  loops,         \* how often startPolling was called
  polled,        \* the outcome of the last poll
  restarts,      \* history: how often an engine was restarted
  restarted      \* history: engines restarted since the last login was checked

formVars == <<API_BASE, TOKEN, screen, logins, loops>>
sessionVars == <<API_TOKEN, formVars, polled, restarts, restarted>>

-----------------------------------------------------------------------------
(* The API *)

expected_token(e) == IF API_TOKEN[e] = Unset THEN Dev ELSE API_TOKEN[e]

\* Mutant: the token of the request is not looked at.
login_any(e, token) == TRUE

\* login answers 200.
login(e, token) == token = expected_token(e)

\* build_router: require_auth is a layer of these routes only.
Protected == {"/stats", "/alerts", "/rules"}

\* require_auth lets the request through; headers is the set of what its
\* Authorization headers carry, at most one.  Unreadable is no token.
Admits(e, route, headers) == route \in Protected => headers = {expected_token(e)}

-----------------------------------------------------------------------------
(* The dashboard *)

SessionInit ==
  /\ API_TOKEN \in [Engines -> Tokens \cup {Unset}]
  /\ API_BASE \in Engines /\ TOKEN = Empty
  /\ screen = "login"
  /\ logins = <<>> /\ loops = 0
  /\ polled = "none"
  /\ restarts = 0 /\ restarted = {}

\* A login is "sent", checked by the engine ("accepted" or "refused"), and "done"
\* when the handler has run.
Open == {i \in DOMAIN logins : logins[i].state # "done"}
Sent(e, token) ==
  Append(logins, [base |-> e, token |-> token, state |-> "sent", during |-> Open])
Moved(i, state) == [logins EXCEPT ![i].state = state]

\* Mutant: the login screen stays after a login.
ClickAnyScreen(e, token) ==
  /\ Len(logins) < MaxClicks
  /\ API_BASE' = e
  /\ logins' = Sent(e, token)
  /\ UNCHANGED <<API_TOKEN, TOKEN, screen, loops, polled, restarts, restarted>>

\* A click on the login button: API_BASE is set, and the request goes out.
Click(e, token) ==
  /\ screen = "login" /\ Len(logins) < MaxClicks
  /\ API_BASE' = e
  /\ logins' = Sent(e, token)
  /\ UNCHANGED <<API_TOKEN, TOKEN, screen, loops, polled, restarts, restarted>>

\* The engine answers the request.
CheckLogin(i) ==
  /\ i \in Open /\ logins[i].state = "sent"
  /\ LET ok == login(logins[i].base, logins[i].token)
     IN logins' = Moved(i, IF ok THEN "accepted" ELSE "refused")
  /\ restarted' = {}
  /\ UNCHANGED <<API_TOKEN, API_BASE, TOKEN, screen, loops, polled, restarts>>

\* The answer 200 is handled, two awaits later: startPolling, with the token of
\* this click and whatever API_BASE is now.
LoginOk(i) ==
  /\ i \in Open /\ logins[i].state = "accepted"
  /\ TOKEN' = logins[i].token
  /\ screen' = "app" /\ loops' = loops + 1
  /\ logins' = Moved(i, "done")
  /\ UNCHANGED <<API_TOKEN, API_BASE, polled, restarts, restarted>>

\* The answer 401 is handled.  What the login screen then says is left out.
LoginRefused(i) ==
  /\ i \in Open /\ logins[i].state = "refused"
  /\ logins' = Moved(i, "done")
  /\ UNCHANGED <<API_TOKEN, API_BASE, TOKEN, screen, loops, polled, restarts, restarted>>

\* The request or its answer is lost.
LoginFails(i) ==
  /\ i \in Open
  /\ logins' = Moved(i, "done")
  /\ UNCHANGED <<API_TOKEN, API_BASE, TOKEN, screen, loops, polled, restarts, restarted>>

\* A poll whose two requests are answered at once, or fail.  An empty TOKEN is
\* falsy: api() then sends no Authorization header.
Poll ==
  /\ loops > 0
  /\ LET headers == IF TOKEN = Empty THEN {} ELSE {Carried[TOKEN]}
         admitted == \A route \in {"/stats", "/alerts"} : Admits(API_BASE, route, headers)
     IN \/ polled' = "failed"
        \/ /\ Unsendable \notin headers
           /\ polled' = IF admitted THEN "ok" ELSE "refused"
  /\ UNCHANGED <<API_TOKEN, formVars, restarts, restarted>>

\* The engine is started again, with some API_TOKEN.
Restart(e) ==
  /\ restarts < MaxRestarts
  /\ restarts' = restarts + 1 /\ restarted' = restarted \cup {e}
  /\ \E value \in Tokens \cup {Unset} : API_TOKEN' = [API_TOKEN EXCEPT ![e] = value]
  /\ UNCHANGED <<formVars, polled>>

SessionNext ==
  \/ \E e \in Engines : Restart(e) \/ \E token \in Tokens : Click(e, token)
  \/ \E i \in DOMAIN logins :
       CheckLogin(i) \/ LoginOk(i) \/ LoginRefused(i) \/ LoginFails(i)
  \/ Poll

SessionSpec == SessionInit /\ [][SessionNext]_sessionVars

-----------------------------------------------------------------------------
(* Properties *)

\* Two logins were under way at the same time.
Overlapped == \E i \in DOMAIN logins : logins[i].during # {}

\* The header brings the token to the engine as it is: it is not empty, ends in
\* no white space and is all visible ASCII.
SentIntact(token) == token # Empty /\ Carried[token] = token

\* "so the UI can show a clear "wrong token" error instead of silently failing
\* on the first real request": after a login the polls are refused only if
\* another login was under way, if the engine has been restarted since it
\* checked the login, or if the token is one that JSON brings to /login and the
\* header of a poll does not.
RefusedForAReason ==
  polled = "refused" => Overlapped \/ API_BASE \in restarted \/ ~SentIntact(TOKEN)

\* Only logins under way at the same time start more than one polling loop,
\* whose polls then overlap however quickly they are answered.
OneLoop == loops > 1 => Overlapped
=============================================================================
