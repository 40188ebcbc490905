----------------------------- MODULE DriveToken -----------------------------
(***************************************************************************)
(* The access token of the Drive provider (core/adapters/drive/            *)
(* provider.py).  Every call to Drive first gets one: the cached token, if *)
(* it was got for the refresh token that is in the secrets now and has not *)
(* expired, or else a new one from Google.  One provider serves all        *)
(* threads; its cache is three attributes, read and written one after the  *)
(* other with no lock.                                                     *)
(*                                                                         *)
(* An access token is known by the refresh token it was got for, and that  *)
(* by the number of the connection that stored it.  Nothing registers the  *)
(* provider at this commit: it is modelled as it is written to be called.  *)
(***************************************************************************)
EXTENDS Naturals

CONSTANTS Users,    \* threads that call the provider or revoke
          MaxLinks  \* bound on connections of an account

ASSUME TokenAssumption == MaxLinks \in Nat

LinkOrNo == 0 .. MaxLinks   \* 0: None

VARIABLES
  linked,        \* the refresh token in the secrets
  nLinks,
  cachedToken,   \* _cached_token
  cachedRefresh, \* _cached_refresh
  unexpired,     \* _expires_at is more than a minute away
  user,          \* per thread: where it is, the refresh token it has read,
                 \* the access token it has got, and how many it has still to
                 \* get after this one
  mixed          \* history: two calls under way had read different refresh
                 \* tokens

tokenCache == <<cachedToken, cachedRefresh, unexpired>>
tokenVars  == <<linked, nLinks, tokenCache, user, mixed>>

AtRest == [at |-> "idle", rt |-> 0, tok |-> 0, more |-> 0]

GoesTo(u, place) == user' = [user EXCEPT ![u].at = place]

\* A new account, or the same one connected again.
Link ==
  /\ nLinks < MaxLinks
  /\ nLinks' = nLinks + 1 /\ linked' = nLinks + 1
  /\ UNCHANGED <<tokenCache, user, mixed>>

\* DELETE /settings/google leaves the cache as it is.
Unlink ==
  /\ linked' = 0
  /\ UNCHANGED <<nLinks, tokenCache, user, mixed>>

\* POST /oauth/google/revoke deletes the refresh token and clears the cache.
RevokeLink(u) ==
  /\ user[u].at = "idle"
  /\ linked' = 0
  /\ GoesTo(u, "forget")
  /\ UNCHANGED <<nLinks, tokenCache, mixed>>

\* _access_token reads the secrets; with none to go by it clears the cache.
ReadSecrets(u, more) ==
  /\ user' = [user EXCEPT ![u] =
       IF linked = 0 THEN [AtRest EXCEPT !.at = "forget"]
       ELSE [at |-> "look", rt |-> linked, tok |-> 0, more |-> more]]
  /\ mixed' = \/ mixed
              \/ linked # 0 /\ \E v \in Users \ {u} :
                                 user[v].rt \notin {0, linked}
  /\ UNCHANGED <<linked, nLinks, tokenCache>>

\* list_drives, list_children and status get one token; get_start_page_token
\* asks for the status first, and then gets another.
CallDrive(u) ==
  /\ user[u].at = "idle"
  /\ \E more \in {0, 1} : ReadSecrets(u, more)

\* Mutant: a token is as good as another.
HitsAnyway(u) == cachedToken # 0 /\ unexpired
\* The cached token is there, for this refresh token and still good.
Hits(u) == cachedToken # 0 /\ cachedRefresh = user[u].rt /\ unexpired

LookInCache(u) ==
  /\ user[u].at = "look"
  /\ GoesTo(u, IF Hits(u) THEN "hit" ELSE "post")
  /\ UNCHANGED <<linked, nLinks, tokenCache, mixed>>

\* The token is in hand, or None, which ends the call.
Has(u, t) ==
  user' = [user EXCEPT ![u] = IF t = 0 THEN AtRest
                              ELSE [@ EXCEPT !.at = "has", !.tok = t]]

\* The attribute is read once more to be returned.
TakeCached(u) ==
  /\ user[u].at = "hit"
  /\ Has(u, cachedToken)
  /\ UNCHANGED <<linked, nLinks, tokenCache, mixed>>

\* Google hands out a token for the refresh token, or none.
TokenGranted(u) ==
  /\ user[u].at = "post"
  /\ \/ GoesTo(u, "store_token")
     \/ user' = [user EXCEPT ![u] = AtRest]
  /\ UNCHANGED <<linked, nLinks, tokenCache, mixed>>

StoreToken(u) ==
  /\ user[u].at = "store_token"
  /\ cachedToken' = user[u].rt
  /\ GoesTo(u, "store_refresh")
  /\ UNCHANGED <<linked, nLinks, cachedRefresh, unexpired, mixed>>

StoreRefresh(u) ==
  /\ user[u].at = "store_refresh"
  /\ cachedRefresh' = user[u].rt
  /\ GoesTo(u, "store_expiry")
  /\ UNCHANGED <<linked, nLinks, cachedToken, unexpired, mixed>>

StoreExpiry(u) ==
  /\ user[u].at = "store_expiry"
  /\ unexpired' = TRUE
  /\ Has(u, user[u].rt)
  /\ UNCHANGED <<linked, nLinks, cachedToken, cachedRefresh, mixed>>

\* Drive is asked with the token, or the next token is got.
UseToken(u) ==
  /\ user[u].at = "has"
  /\ IF user[u].more = 0
     THEN /\ user' = [user EXCEPT ![u] = AtRest]
          /\ UNCHANGED <<linked, nLinks, tokenCache, mixed>>
     ELSE ReadSecrets(u, user[u].more - 1)

\* clear_cache
ForgetToken(u) ==
  /\ user[u].at = "forget"
  /\ cachedToken' = 0
  /\ GoesTo(u, "forget_refresh")
  /\ UNCHANGED <<linked, nLinks, cachedRefresh, unexpired, mixed>>

ForgetRefresh(u) ==
  /\ user[u].at = "forget_refresh"
  /\ cachedRefresh' = 0
  /\ GoesTo(u, "forget_expiry")
  /\ UNCHANGED <<linked, nLinks, cachedToken, unexpired, mixed>>

ForgetExpiry(u) ==
  /\ user[u].at = "forget_expiry"
  /\ unexpired' = FALSE
  /\ user' = [user EXCEPT ![u] = AtRest]
  /\ UNCHANGED <<linked, nLinks, cachedToken, cachedRefresh, mixed>>

\* Time passes.
TokenExpires ==
  /\ unexpired /\ unexpired' = FALSE
  /\ UNCHANGED <<linked, nLinks, cachedToken, cachedRefresh, user, mixed>>
-----------------------------------------------------------------------------
TokenInit ==
  /\ linked = 0 /\ nLinks = 0
  /\ cachedToken = 0 /\ cachedRefresh = 0 /\ unexpired = FALSE
  /\ user = [u \in Users |-> AtRest]
  /\ mixed = FALSE

TokenNext ==
  \/ Link \/ Unlink \/ TokenExpires
  \/ \E u \in Users :
       \/ RevokeLink(u) \/ CallDrive(u) \/ LookInCache(u) \/ TakeCached(u)
       \/ TokenGranted(u) \/ StoreToken(u) \/ StoreRefresh(u)
       \/ StoreExpiry(u) \/ UseToken(u)
       \/ ForgetToken(u) \/ ForgetRefresh(u) \/ ForgetExpiry(u)

TokenSpec == TokenInit /\ [][TokenNext]_tokenVars
-----------------------------------------------------------------------------
(* Properties *)

UserPlaces == {"idle", "look", "hit", "post", "store_token",
               "store_refresh", "store_expiry", "has",
               "forget", "forget_refresh", "forget_expiry"}

\* Type invariant of the secret, the cache and the calls.
TokenTypeOK ==
  /\ {linked, nLinks, cachedToken, cachedRefresh} \subseteq LinkOrNo
  /\ unexpired \in BOOLEAN /\ mixed \in BOOLEAN
  /\ user \in [Users -> [at : UserPlaces, rt : LinkOrNo, tok : LinkOrNo,
                         more : {0, 1}]]

\* Drive is asked with a token of the account that was connected when the
\* call read the secrets, however the account is revoked and connected again,
\* tokens expire and the writes to the cache are cut into: unless two calls
\* that had read different refresh tokens were under way at once.
AsksForTheAccount ==
  ~mixed => \A u \in Users : user[u].at = "has" => user[u].tok = user[u].rt
=============================================================================
