--------------------------- MODULE GoogleAccount ---------------------------
(***************************************************************************)
(* The Google Drive account: the OAuth routes and /settings/google of      *)
(* core/api/http.py, over the secret store of core/secrets/manager.py.     *)
(*                                                                         *)
(* A secret is kept in the keyring of the operating system, or, when that  *)
(* is missing or raises, in an encrypted file that is read, changed and    *)
(* replaced as a whole with no lock, by way of a temporary file whose name *)
(* all requests share.  The handlers run in a thread pool.                 *)
(***************************************************************************)
EXTENDS Naturals, Sequences

CONSTANTS Handlers,   \* requests that may be under way
          Flows,      \* OAuth flows; a flow stands for its state parameter
          MaxRefresh, \* bound on refresh tokens that Google hands out
          MaxStarts   \* bound on starts of a process

ASSUME GoogleAssumption ==
  MaxRefresh \in Nat \ {0} /\ MaxStarts \in Nat \ {0}

\* client_id and client_secret are set and deleted one after the other; as one
\* secret they are there or not.
Secrets == {"client", "oauth_refresh"}
Values  == 0 .. MaxRefresh       \* 0: no secret; a client is 1

VARIABLES
  available, \* KEYRING_AVAILABLE
  keyring, store,  \* the two places of a secret
  temp,      \* secrets.json.tmp, or <<>>; an empty file holds no secrets
  tokenFile,       \* session_token.txt, by the number of its writing
  flows,     \* _OAUTH_STATES and what became of a state: "none", "pending",
             \* "gone"
  signed,    \* per flow: the session token its state is signed with
  refreshes, \* refresh tokens handed out
  doing,     \* per handler: "idle", "exchange", "revoke" or "store"
  ops,       \* per handler: store operations it has still to do
  read,      \* per handler: the file as an operation has read it, or <<>>
  seen,      \* per handler: the refresh token in its hands
  writing,   \* per handler: "none"; the temporary file is open, and it is
             \* still "temp", has meanwhile become "store", or is "gone"; or
             \* it is "written" and closed, to be put in place
  posted,    \* history, per flow: codes sent to Google
  removed,   \* history: tokens a revoke has read, posted and deleted
  latest,    \* history: the token stored last that no request asked to remove
  excused    \* history: the keyring or the file failed, the file was written
             \* over a change made since it was read, two requests used the
             \* temporary file at once, or a token was stored while another
             \* request was about to delete it

secretVars  == <<available, keyring, store, temp>>
flowVars    == <<tokenFile, flows, signed, refreshes>>
handlerVars == <<doing, ops, read, seen, writing>>
history     == <<posted, removed, latest, excused>>
googleVars  == <<secretVars, flowVars, handlerVars, history>>

NoSecrets == [s \in Secrets |-> 0]

\* Secrets.get; a keyring that raises leaves the file to answer.
Visible(s) == IF available /\ keyring[s] # 0 THEN keyring[s] ELSE store[s]
HasClient == Visible("client") # 0

Set(s, v) == [op |-> "set", secret |-> s, value |-> v]
Delete(s) == [op |-> "delete", secret |-> s, value |-> 0]

\* Another handler is about to delete the refresh token.
Deleting(h) ==
  \E g \in Handlers \ {h} :
    \/ doing[g] = "revoke"
    \/ \E i \in DOMAIN ops[g] : ops[g][i] = Delete("oauth_refresh")

\* Handler h goes on to do these store operations, or is done.
Continue(h, rest) ==
  /\ ops' = [ops EXCEPT ![h] = rest]
  /\ doing' = [doing EXCEPT ![h] = IF rest = <<>> THEN "idle" ELSE "store"]
  /\ read' = [read EXCEPT ![h] = <<>>]
-----------------------------------------------------------------------------
(* The flow *)

\* POST /oauth/google/start.
Launch(f) ==
  /\ flows[f] = "none" /\ HasClient
  /\ flows' = [flows EXCEPT ![f] = "pending"]
  /\ signed' = [signed EXCEPT ![f] = tokenFile]
  /\ UNCHANGED <<secretVars, tokenFile, refreshes, handlerVars, history>>

\* _prune_oauth_states, ten minutes later.
Expire(f) ==
  /\ flows[f] = "pending"
  /\ flows' = [flows EXCEPT ![f] = "gone"]
  /\ UNCHANGED <<secretVars, tokenFile, signed, refreshes, handlerVars,
                 history>>

PopState(f) == flows' = [flows EXCEPT ![f] = "gone"]

\* _check_state goes by the session token of the file, and the state must be
\* one that was handed out and not used.
StateHolds(f) == flows[f] = "pending" /\ signed[f] = tokenFile

\* GET /oauth/google/callback, however often the browser sends it.
Callback(h, f) ==
  /\ doing[h] = "idle"
  /\ StateHolds(f)
  /\ PopState(f)
  /\ IF HasClient
     THEN /\ doing' = [doing EXCEPT ![h] = "exchange"]
          /\ posted' = [posted EXCEPT ![f] = @ + 1]
     ELSE UNCHANGED <<doing, posted>>
  /\ UNCHANGED <<secretVars, tokenFile, signed, refreshes, ops, read, seen,
                 writing, removed, latest, excused>>

\* The answer of Google: a refresh token, none, an error or a timeout.
Exchanged(h) ==
  /\ doing[h] = "exchange"
  /\ \/ /\ refreshes < MaxRefresh
        /\ refreshes' = refreshes + 1
        /\ Continue(h, <<Set("oauth_refresh", refreshes + 1)>>)
     \/ Continue(h, <<>>) /\ UNCHANGED refreshes
  /\ UNCHANGED <<secretVars, tokenFile, flows, signed, seen, writing, history>>

\* POST /oauth/google/revoke reads the token.
RevokeRead(h) ==
  /\ doing[h] = "idle" /\ Visible("oauth_refresh") # 0
  /\ doing' = [doing EXCEPT ![h] = "revoke"]
  /\ seen' = [seen EXCEPT ![h] = Visible("oauth_refresh")]
  /\ latest' = 0
  /\ UNCHANGED <<secretVars, flowVars, ops, read, writing, posted, removed,
                 excused>>

\* Google has been told, or could not be, and the token is deleted.
RevokePosted(h) ==
  /\ doing[h] = "revoke"
  /\ Continue(h, <<Delete("oauth_refresh")>>)
  /\ UNCHANGED <<secretVars, flowVars, seen, writing, history>>

\* POST /settings/google
PostSettings(h) ==
  /\ doing[h] = "idle"
  /\ Continue(h, <<Set("client", 1)>>)
  /\ UNCHANGED <<secretVars, flowVars, seen, writing, history>>

\* DELETE /settings/google; Google is not told.
ClearSettings(h) ==
  /\ doing[h] = "idle"
  /\ Continue(h, <<Delete("client"), Delete("oauth_refresh")>>)
  /\ latest' = 0
  /\ UNCHANGED <<secretVars, flowVars, seen, writing, posted, removed,
                 excused>>
-----------------------------------------------------------------------------
(* The store *)

\* History of an operation that is done; it has lost a change if so.
Note(h, o, lost) ==
  /\ latest' = IF o.op = "set" /\ o.secret = "oauth_refresh" THEN o.value
               ELSE latest
  /\ removed' = IF o.op = "delete" /\ o.secret = "oauth_refresh"
                THEN (removed \cup {seen[h]}) \ {0} ELSE removed
  /\ seen' = [seen EXCEPT ![h] = IF o.op = "delete" THEN 0 ELSE @]
  /\ excused' = \/ excused \/ lost
                \/ o.op = "set" /\ o.secret = "oauth_refresh" /\ Deleting(h)

\* Secrets.set when the keyring works: the file is not touched.
SetKeyring(h) ==
  LET o == Head(ops[h])
  IN  /\ doing[h] = "store" /\ read[h] = <<>>
      /\ available /\ o.op = "set"
      /\ keyring' = [keyring EXCEPT ![o.secret] = o.value]
      /\ Continue(h, Tail(ops[h]))
      /\ Note(h, o, FALSE)
      /\ UNCHANGED <<available, store, temp, flowVars, writing, posted>>

\* Otherwise, and in every delete, the file is read.  A delete takes the
\* secret out of a keyring that works first.
ReadStore(h) ==
  LET o == Head(ops[h])
  IN  /\ doing[h] = "store" /\ read[h] = <<>>
      /\ read' = [read EXCEPT ![h] = store]
      /\ \/ /\ available /\ o.op = "delete"
            /\ keyring' = [keyring EXCEPT ![o.secret] = 0]
            /\ UNCHANGED excused
         \/ UNCHANGED keyring /\ excused' = (excused \/ available)
      /\ UNCHANGED <<available, store, temp, flowVars, doing, ops, seen,
                     writing, posted, removed, latest>>

\* Mutant: the file keeps the last secret only.
FileAnew(f, o) == [NoSecrets EXCEPT ![o.secret] = o.value]
FileWith(f, o) == [f EXCEPT ![o.secret] = o.value]

\* The secret to delete is not in the file.
NothingToSave(h) ==
  Head(ops[h]).op = "delete" /\ read[h][Head(ops[h]).secret] = 0

SkipStore(h) ==
  /\ doing[h] = "store" /\ read[h] # <<>> /\ NothingToSave(h)
  /\ Continue(h, Tail(ops[h]))
  /\ Note(h, Head(ops[h]), FALSE)
  /\ UNCHANGED <<secretVars, flowVars, writing, posted>>

\* _save_store_bytes: tmp.write_bytes opens the temporary file and empties it,
\* also when another request has it open or is about to put it in place ...
OpenTemp(h) ==
  /\ doing[h] = "store" /\ read[h] # <<>> /\ ~NothingToSave(h)
  /\ writing[h] = "none"
  /\ temp' = NoSecrets
  /\ writing' = [writing EXCEPT ![h] = "temp"]
  /\ excused' = (excused \/ \E g \in Handlers \ {h} : writing[g] # "none")
  /\ UNCHANGED <<available, keyring, store, flowVars, doing, ops, read, seen,
                 posted, removed, latest>>

\* ... and writes what was read, with the change, to the file that it opened,
\* which another request may have put in place since.
FillTemp(h) ==
  LET f == FileWith(read[h], Head(ops[h]))
  IN  /\ writing[h] \in {"temp", "store", "gone"}
      /\ temp' = IF writing[h] = "temp" THEN f ELSE temp
      /\ store' = IF writing[h] = "store" THEN f ELSE store
      /\ writing' = [writing EXCEPT ![h] = "written"]
      /\ UNCHANGED <<available, keyring, flowVars, doing, ops, read, seen,
                     history>>

\* tmp.replace puts in place whatever the temporary file holds now.
ReplaceStore(h) ==
  /\ writing[h] = "written" /\ temp # <<>>
  /\ store' = temp
  /\ temp' = <<>>
  /\ writing' = [g \in Handlers |->
                   IF g = h THEN "none"
                   ELSE CASE writing[g] = "temp"  -> "store"
                          [] writing[g] = "store" -> "gone"
                          [] OTHER                -> writing[g]]
  /\ Continue(h, Tail(ops[h]))
  /\ Note(h, Head(ops[h]), temp # store /\ read[h] # store)
  /\ UNCHANGED <<available, keyring, flowVars, posted>>

\* The file cannot be read, decrypted, written or replaced (another request
\* has put the temporary file in place, or has it open): a set answers with
\* an error, a delete is passed over.
StoreFails(h) ==
  LET o == Head(ops[h])
  IN  /\ doing[h] = "store" /\ read[h] # <<>>
      /\ excused' = TRUE
      /\ Continue(h, IF o.op = "set" THEN <<>> ELSE Tail(ops[h]))
      /\ writing' = [writing EXCEPT ![h] = "none"]
      /\ UNCHANGED <<secretVars, flowVars, seen, posted, removed, latest>>
-----------------------------------------------------------------------------
(* Processes *)

\* A process starts and writes a new session token, once more also when the
\* launcher is started twice; states and requests go with the old process.
StartProcess(other) ==
  /\ tokenFile < MaxStarts
  /\ tokenFile' = tokenFile + 1
  /\ IF other THEN UNCHANGED <<flows, handlerVars>>
     ELSE /\ flows' = [f \in Flows |-> IF flows[f] = "pending" THEN "gone"
                                       ELSE flows[f]]
          /\ doing' = [h \in Handlers |-> "idle"]
          /\ ops' = [h \in Handlers |-> <<>>]
          /\ read' = [h \in Handlers |-> <<>>]
          /\ seen' = [h \in Handlers |-> 0]
          /\ writing' = [h \in Handlers |-> "none"]
  /\ UNCHANGED <<secretVars, signed, refreshes, history>>

GoogleInit ==
  /\ available \in BOOLEAN
  /\ keyring = NoSecrets /\ store = NoSecrets /\ temp = <<>>
  /\ tokenFile = 1
  /\ flows = [f \in Flows |-> "none"] /\ signed = [f \in Flows |-> 0]
  /\ refreshes = 0
  /\ doing = [h \in Handlers |-> "idle"] /\ ops = [h \in Handlers |-> <<>>]
  /\ read = [h \in Handlers |-> <<>>] /\ seen = [h \in Handlers |-> 0]
  /\ writing = [h \in Handlers |-> "none"]
  /\ posted = [f \in Flows |-> 0] /\ removed = {} /\ latest = 0
  /\ excused = FALSE

HandleGoogle(h) ==
  \/ Exchanged(h) \/ RevokeRead(h) \/ RevokePosted(h)
  \/ PostSettings(h) \/ ClearSettings(h)
  \/ SetKeyring(h) \/ ReadStore(h) \/ SkipStore(h)
  \/ OpenTemp(h) \/ FillTemp(h) \/ ReplaceStore(h) \/ StoreFails(h)

GoogleNext ==
  \/ \E f \in Flows : Launch(f) \/ Expire(f)
                      \/ \E h \in Handlers : Callback(h, f)
  \/ \E h \in Handlers : HandleGoogle(h)
  \/ \E other \in BOOLEAN : StartProcess(other)

GoogleSpec == GoogleInit /\ [][GoogleNext]_googleVars
-----------------------------------------------------------------------------
(* Properties *)

\* Type invariant of the secrets, the flows and the handlers.
GoogleTypeOK ==
  /\ available \in BOOLEAN
  /\ {keyring, store} \subseteq [Secrets -> Values]
  /\ tokenFile \in 1 .. MaxStarts
  /\ flows \in [Flows -> {"none", "pending", "gone"}]
  /\ signed \in [Flows -> 0 .. MaxStarts]
  /\ refreshes \in Values
  /\ doing \in [Handlers -> {"idle", "exchange", "revoke", "store"}]
  /\ read \in [Handlers -> [Secrets -> Values] \cup {<<>>}]
  /\ seen \in [Handlers -> Values]
  /\ temp \in [Secrets -> Values] \cup {<<>>}
  /\ writing \in [Handlers -> {"none", "temp", "store", "gone", "written"}]
  /\ posted \in [Flows -> Nat] /\ excused \in BOOLEAN
  /\ removed \subseteq Values \ {0} /\ latest \in Values

\* However often the browser comes back with a state, its code is sent to
\* Google at most once.
CodeExchangedOnce == \A f \in Flows : posted[f] <= 1

\* A token that a revoke has removed is not used again, unless the keyring or
\* the file failed, a concurrent change of the file was written over, or two
\* requests used the temporary file at once.
RevokedStaysGone ==
  Visible("oauth_refresh") \in removed => excused

\* The token stored last is the one in use until somebody asks to remove it,
\* with the same exceptions, or it was stored while a revoke that had read
\* the one before was about to delete: a change of other secrets keeps it.
TokenKept ==
  latest # 0 => Visible("oauth_refresh") = latest \/ excused

\* The token in use follows the requests: each code is exchanged once, what
\* came back from Google last is kept, and what was revoked is gone, whichever
\* handlers overlap, with the exceptions above.
TokenFollowsRequests == CodeExchangedOnce /\ RevokedStaysGone /\ TokenKept
=============================================================================
