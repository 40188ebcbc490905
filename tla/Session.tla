------------------------------ MODULE Session ------------------------------
(***************************************************************************)
(* The session token: core/api/http.py, tgc/tokens.py and tgc/security.py  *)
(* on the server, core/ui/js/token.js in the page.                         *)
(*                                                                         *)
(* Two tokens guard a request: session_guard compares the cookie with      *)
(* SESSION_TOKEN, and the routes compare it with the token of the          *)
(* TokenManager.  They differ until the first GET /session/token copies    *)
(* the second into the first.  The page asks for the token once, keeps it, *)
(* and asks again when a request comes back with 401.                      *)
(***************************************************************************)
EXTENDS Naturals

CONSTANTS Calls,     \* calls of request() that a page may have under way
          NoCall,    \* nobody
          MaxRuns   \* bound on starts of the server

ASSUME SessionAssumption == NoCall \notin Calls /\ MaxRuns \in Nat

VARIABLES
  up,           \* the server runs
  boots,        \* its starts so far; the token of the TokenManager of the
                \* n-th start is 2 * n, the one build_app makes is 2 * n - 1
  sessionToken, \* SESSION_TOKEN
  cookie,       \* bus_session in the browser
  cache,        \* _tokenCache
  promise,      \* _tokenPromise: the call whose fetch it is, or NoCall
  broken,       \* that promise is rejected
  call,         \* per call: where request() stands
  awaits,       \* per call: the call whose fetch it waits for
  retried,      \* per call: this is the second attempt
  arriving,     \* per call: the token in the answer that is on its way
  disturbed     \* history, per call: since it began the server started, or a
                \* token of an earlier start arrived

server  == <<up, boots, sessionToken>>
tokens  == <<cookie, cache, promise, broken>>
calls   == <<call, awaits, retried, arriving>>
sessionVars == <<server, tokens, calls, disturbed>>

Tokens     == 0 .. 2 * MaxRuns
Manager(n) == 2 * n
Built(n)   == 2 * n - 1
Ended      == {"idle", "ok", "refused", "failed"}

\* What session_guard and the dependency of the route compare the cookie with.
Authorised == cookie = sessionToken /\ cookie = Manager(boots)

GoOn(c, s) ==
  /\ call' = [call EXCEPT ![c] = s]
  /\ UNCHANGED <<awaits, retried, arriving>>
-----------------------------------------------------------------------------
(* The server *)

\* The process starts: a TokenManager, then build_app with a token of its own.
Start ==
  /\ ~up /\ boots < MaxRuns
  /\ up' = TRUE
  /\ boots' = boots + 1
  /\ sessionToken' = Built(boots + 1)
  /\ disturbed' = [c \in Calls |-> TRUE]
  /\ UNCHANGED <<tokens, calls>>

\* POST /server/restart, Quit, or a crash.
Exit ==
  /\ up
  /\ up' = FALSE
  /\ UNCHANGED <<boots, sessionToken, tokens, calls, disturbed>>

\* Mutant: SESSION_TOKEN stays what build_app has made it.
ServeTokenOnly(c) ==
  /\ call[c] = "fetching" /\ up
  /\ call' = [call EXCEPT ![c] = "arriving"]
  /\ arriving' = [arriving EXCEPT ![c] = Manager(boots)]
  /\ UNCHANGED <<server, tokens, awaits, retried, disturbed>>
\* GET /session/token: the guards of later requests expect the token it sends.
ServeToken(c) ==
  /\ call[c] = "fetching" /\ up
  /\ call' = [call EXCEPT ![c] = "arriving"]
  /\ arriving' = [arriving EXCEPT ![c] = Manager(boots)]
  /\ sessionToken' = Manager(boots)
  /\ UNCHANGED <<up, boots, tokens, awaits, retried, disturbed>>
-----------------------------------------------------------------------------
(* The page *)

Begin(c) ==
  /\ call[c] \in Ended
  /\ call' = [call EXCEPT ![c] = "ensure"]
  /\ retried' = [retried EXCEPT ![c] = FALSE]
  /\ disturbed' = [disturbed EXCEPT ![c] = FALSE]
  /\ UNCHANGED <<server, tokens, awaits, arriving>>

\* ensureToken: the token kept, the fetch under way, or a fetch of its own.
\* A promise that was rejected stays in _tokenPromise.
Ensure(c) ==
  /\ call[c] = "ensure"
  /\ \/ /\ cache # 0
        /\ GoOn(c, "send") /\ UNCHANGED promise
     \/ /\ cache = 0 /\ promise = NoCall
        /\ promise' = c
        /\ GoOn(c, "fetching")
     \/ /\ cache = 0 /\ promise # NoCall /\ ~broken
        /\ call' = [call EXCEPT ![c] = "waiting"]
        /\ awaits' = [awaits EXCEPT ![c] = promise]
        /\ UNCHANGED <<promise, retried, arriving>>
     \/ /\ cache = 0 /\ promise # NoCall /\ broken
        /\ GoOn(c, "failed") /\ UNCHANGED promise
  /\ UNCHANGED <<server, cookie, cache, broken, disturbed>>

\* The calls that hold the promise of c's fetch, c included.
Holding(c) == {d \in Calls : d = c \/ (call[d] = "waiting" /\ awaits[d] = c)}

Settle(c, s) ==
  /\ call' = [d \in Calls |-> IF d \in Holding(c) THEN s ELSE call[d]]
  /\ awaits' = [d \in Calls |-> IF d \in Holding(c) THEN NoCall
                                ELSE awaits[d]]
  /\ arriving' = [arriving EXCEPT ![c] = 0]
  /\ UNCHANGED retried

\* The answer plants the cookie, and the fetch resolves; it resets the promise
\* kept, also when that is by now another fetch.
TokenArrives(c) ==
  /\ call[c] = "arriving"
  /\ cookie' = arriving[c]
  /\ cache' = arriving[c]
  /\ promise' = NoCall
  /\ broken' = FALSE
  /\ Settle(c, "ensure")
  /\ disturbed' = [d \in Calls |-> \/ disturbed[d]
                                   \/ arriving[c] # Manager(boots)]
  /\ UNCHANGED server

\* No answer, or one that is not ok: whoever holds the promise fails with it.
FetchFails(c) ==
  /\ call[c] = "arriving" \/ (call[c] = "fetching" /\ ~up)
  /\ broken' = (broken \/ promise = c)
  /\ Settle(c, "failed")
  /\ UNCHANGED <<server, cookie, cache, promise, disturbed>>

\* fetch(url): the cookie of this moment is sent, and the server decides.
Send(c) ==
  /\ call[c] = "send"
  /\ GoOn(c, IF ~up THEN "failed"
             ELSE IF Authorised THEN "granted" ELSE "denied")
  /\ UNCHANGED <<server, tokens, disturbed>>

\* 401: clearToken and one more attempt, or the answer is the caller's.
Denied(c) ==
  /\ call[c] = "denied"
  /\ IF retried[c]
     THEN GoOn(c, "refused") /\ UNCHANGED tokens
     ELSE /\ retried' = [retried EXCEPT ![c] = TRUE]
          /\ call' = [call EXCEPT ![c] = "ensure"]
          /\ cache' = 0 /\ promise' = NoCall /\ broken' = FALSE
          /\ UNCHANGED <<cookie, awaits, arriving>>
  /\ UNCHANGED <<server, disturbed>>

Granted(c) ==
  /\ call[c] = "granted"
  /\ GoOn(c, "ok")
  /\ UNCHANGED <<server, tokens, disturbed>>

\* The answer is lost: the server has gone.
AnswerLost(c) ==
  /\ call[c] \in {"granted", "denied"} /\ ~up
  /\ GoOn(c, "failed")
  /\ UNCHANGED <<server, tokens, disturbed>>

\* The page is loaded anew; the browser keeps the cookie.
Reload ==
  /\ cache' = 0 /\ promise' = NoCall /\ broken' = FALSE
  /\ call' = [c \in Calls |-> "idle"]
  /\ awaits' = [c \in Calls |-> NoCall]
  /\ retried' = [c \in Calls |-> FALSE]
  /\ arriving' = [c \in Calls |-> 0]
  /\ disturbed' = [c \in Calls |-> FALSE]
  /\ UNCHANGED <<server, cookie>>
-----------------------------------------------------------------------------
SessionInit ==
  /\ up = FALSE /\ boots = 0 /\ sessionToken = 0
  /\ cookie = 0 /\ cache = 0 /\ promise = NoCall /\ broken = FALSE
  /\ call = [c \in Calls |-> "idle"]
  /\ awaits = [c \in Calls |-> NoCall]
  /\ retried = [c \in Calls |-> FALSE]
  /\ arriving = [c \in Calls |-> 0]
  /\ disturbed = [c \in Calls |-> FALSE]

\* What the event loop of the page and the network do with call c.
Proceed(c) ==
  \/ Ensure(c) \/ ServeToken(c) \/ TokenArrives(c) \/ FetchFails(c)
  \/ Send(c) \/ Denied(c) \/ Granted(c) \/ AnswerLost(c)

SessionNext ==
  \/ Start \/ Exit \/ Reload
  \/ \E c \in Calls : Begin(c) \/ Proceed(c)

SessionSpec == SessionInit /\ [][SessionNext]_sessionVars
-----------------------------------------------------------------------------
(* Properties *)

\* Type invariant of the server's tokens and of the page.
SessionTypeOK ==
  /\ up \in BOOLEAN /\ boots \in 0 .. MaxRuns
  /\ {sessionToken, cookie, cache} \subseteq Tokens
  /\ promise \in Calls \cup {NoCall} /\ broken \in BOOLEAN
  /\ call \in [Calls -> {"ensure", "fetching", "arriving", "waiting", "send",
                         "granted", "denied"} \cup Ended]
  /\ awaits \in [Calls -> Calls \cup {NoCall}]
  /\ retried \in [Calls -> BOOLEAN]
  /\ arriving \in [Calls -> Tokens]
  /\ disturbed \in [Calls -> BOOLEAN]

\* A request is refused for good only if the server started anew after it had
\* begun, or an answer of an earlier start came in late: the retry gets over
\* every other mismatch of the two tokens, the cookie and the token kept.
RefusedOnlyIfDisturbed ==
  \A c \in Calls : call[c] = "refused" => disturbed[c]
=============================================================================
