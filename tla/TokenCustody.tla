---------------------------- MODULE TokenCustody ----------------------------
(***************************************************************************)
(* The refresh authority with its two kinds of caller: agent jobs, whose   *)
(* TokenProvider caches what the shell serves and whose ShopifyAdminClient *)
(* asks once more after a 401 (services/token_provider.py,                 *)
(* services/shopify_admin.py), and webhooks, which are refreshed first and *)
(* then authenticated by a library that would refresh outside the lock     *)
(* (lib/webhook-auth.server.ts and the webhook routes).                    *)
(***************************************************************************)
EXTENDS RefreshAuthority

CONSTANTS
  Uninstalls,    \* the hooks that deliver app/uninstalled; the others, products/update
  Margin,        \* SAFETY_MARGIN_SECONDS, in ticks
  MaxAttempts    \* MAX_THROTTLE_RETRIES

ASSUME CustodyAssumption ==
  /\ Uninstalls \subseteq Hooks
  /\ Margin \in Nat
  /\ MaxAttempts \in Nat \ {0}

\* What the code's comments say of its windows: no delay between our check and the
\* library's can close the gap, and a new token outlives every request that saw the old.
ASSUME WindowAssumption ==
  /\ HookWindow >= LibWindow + Patience
  /\ LibWindow >= Patience /\ Margin >= Patience
  /\ Life > LibWindow + Patience + CallTimeout

VARIABLES
  cache,      \* Redis: the cached admin token of the shop
  forced,     \* jobs that met a 401 in this attempt
  attempt     \* throttled attempts of each job so far

vars == <<authorityVars, cache, forced, attempt>>

TypeOK ==
  /\ AuthorityTypeOK
  /\ cache \in Tokens \union {NoToken}
  /\ forced \subseteq Jobs
  /\ attempt \in [Jobs -> 0..MaxAttempts]

Init ==
  /\ AuthorityInit
  /\ cache = NoToken
  /\ forced = {}
  /\ attempt = [j \in Jobs |-> 0]

agentVars == <<cache, forced, attempt>>
stillVars == <<now, shopifyVars, lock, conns, faults, lost>>

Finish(c, result) ==
  /\ pc' = [pc EXCEPT ![c] = "done"]
  /\ outcome' = [outcome EXCEPT ![c] = result]

\* A request begins; a tick later it must be over.
Start(c) ==
  /\ pc[c] = "idle"
  /\ c \in Uninstalls => ~installed
  /\ Goto(c, IF c \in Jobs THEN "read" ELSE "load")
  /\ began' = [began EXCEPT ![c] = now]
  /\ UNCHANGED <<stillVars, session, tok, outcome, agentVars>>

-----------------------------------------------------------------------------
(* The agent. *)

CacheLiveMutNoMargin == cache # NoToken /\ ~Due(cache, 0)

\* _ttl_for: Redis has dropped an entry this close to the end of its token.
CacheLive == cache # NoToken /\ ~Due(cache, Margin)

\* get_token, cache first.
ReadCache(j) ==
  /\ pc[j] = "read"
  /\ \/ CacheLive /\ tok' = [tok EXCEPT ![j] = cache] /\ Goto(j, "post")
     \/ ~CacheLive /\ Goto(j, "load") /\ UNCHANGED tok
  /\ UNCHANGED <<stillVars, session, began, outcome, agentVars>>

\* A token arrived: cache it unless it is too close to its end, then use it.
CacheToken(j) ==
  /\ pc[j] = "served" /\ outcome[j] = "none"
  /\ cache' = IF Due(tok[j], Margin) THEN cache ELSE tok[j]
  /\ Goto(j, "post")
  /\ UNCHANGED <<stillVars, session, tok, began, outcome, forced, attempt>>

FetchOutcomeMutUnknown(j) == IF pc[j] = "transient" THEN "unavailable" ELSE "reauth"

FetchOutcome(j) == pc[j]

\* 404 is TokenUnavailableError, anything else that is not 200 is TokenFetchError.
FetchFails(j) ==
  /\ pc[j] \in {"reauth", "transient"} /\ outcome[j] = "none"
  /\ Finish(j, FetchOutcome(j))
  /\ UNCHANGED <<stillVars, session, tok, began, agentVars>>

\* The 10 s HTTP timeout of the agent; the shell's request goes on without it.
GiveUp(j) ==
  /\ pc[j] \in {"load", "begin", "lock", "reread", "call", "store"}
  /\ outcome[j] = "none" /\ Fault("give up")
  /\ outcome' = [outcome EXCEPT ![j] = "transient"]
  /\ UNCHANGED <<now, shopifyVars, session, lock, conns, pc, tok, began, lost, agentVars>>

\* What the shell answers to a job that gave up is read by nobody.
AnswerUnread(j) ==
  /\ pc[j] \in {"served", "reauth", "transient"} /\ outcome[j] # "none"
  /\ Goto(j, "done")
  /\ UNCHANGED <<stillVars, session, tok, began, outcome, agentVars>>

Accepts(t) == installed /\ t = gen /\ now < expires[t]

\* ShopifyAdminClient.execute: one 401 is answered with a fresh token, two are fatal.
Post(j) ==
  /\ pc[j] = "post"
  /\ \/ Accepts(tok[j]) /\ Finish(j, "ok") /\ UNCHANGED forced
     \/ /\ ~Accepts(tok[j]) /\ j \notin forced
        /\ forced' = forced \union {j}
        /\ Goto(j, "load")
        /\ UNCHANGED outcome
     \/ ~Accepts(tok[j]) /\ j \in forced /\ Finish(j, "rejected") /\ UNCHANGED forced
  /\ UNCHANGED <<stillVars, session, tok, began, cache, attempt>>

\* 429 or THROTTLED: back off and begin again with the cache.
Throttled(j) ==
  /\ pc[j] = "post" /\ Accepts(tok[j]) /\ Fault("throttle")
  /\ attempt' = [attempt EXCEPT ![j] = @ + 1]
  /\ \/ /\ attempt[j] + 1 < MaxAttempts
        /\ Goto(j, "read")
        /\ began' = [began EXCEPT ![j] = now]
        /\ UNCHANGED outcome
     \/ /\ attempt[j] + 1 = MaxAttempts
        /\ Finish(j, "throttled")
        /\ UNCHANGED began
  /\ forced' = forced \ {j}
  /\ UNCHANGED <<now, shopifyVars, session, lock, conns, tok, lost, cache>>

-----------------------------------------------------------------------------
(* Webhooks.  A redelivery is another hook. *)

\* 503 on a transient failure: the library must not see the session.
HookUnavailable(h) ==
  /\ pc[h] = "transient"
  /\ Finish(h, "error")
  /\ UNCHANGED <<stillVars, session, tok, began, agentVars>>

\* authenticate.webhook: the library loads the session through the global client and
\* refreshes it, outside the lock, when it is within its own window of expiry.
Authenticate(h) ==
  /\ pc[h] \in {"served", "reauth"}
  /\ \/ /\ ~Due(session, LibWindow)
        /\ tok' = [tok EXCEPT ![h] = session]
        /\ UNCHANGED <<gen, expires, session>>
     \/ /\ Due(session, LibWindow) /\ Spendable(session)
        /\ Issue
        /\ session' = gen + 1
        /\ tok' = [tok EXCEPT ![h] = gen + 1]
  /\ IF h \in Uninstalls THEN Goto(h, "forward") /\ UNCHANGED outcome
                         ELSE Finish(h, "ok")
  /\ UNCHANGED <<now, installed, lock, conns, faults, lost, began, agentVars>>

\* The library flattens every refresh failure into a 500.
AuthenticateFails(h) ==
  /\ pc[h] \in {"served", "reauth"}
  /\ Due(session, LibWindow) /\ ~Spendable(session)
  /\ Finish(h, "error")
  /\ UNCHANGED <<stillVars, session, tok, began, agentVars>>

\* The agent drops its cached token; a shell that cannot reach it answers 500.
Forward(h) ==
  /\ pc[h] = "forward"
  /\ cache' = NoToken
  /\ Goto(h, "erase")
  /\ UNCHANGED <<stillVars, session, tok, began, outcome, forced, attempt>>

ForwardFails(h) ==
  /\ pc[h] = "forward" /\ Fault("agent")
  /\ Finish(h, "error")
  /\ UNCHANGED <<now, shopifyVars, session, lock, conns, tok, began, lost, agentVars>>

\* deleteMany, only if authentication saw a session.
Erase(h) ==
  /\ pc[h] = "erase"
  /\ session' = IF tok[h] # NoToken THEN NoToken ELSE session
  /\ Finish(h, "ok")
  /\ UNCHANGED <<stillVars, tok, began, agentVars>>

-----------------------------------------------------------------------------
(* Time and the merchant. *)

Active(c) == pc[c] \notin {"idle", "done"}

\* The latest a request can be under way: its timeouts, and those of the HTTP client for
\* a refresh that lost its transaction.
Deadline(c) == began[c] + Patience + (IF Orphan(c) THEN CallTimeout ELSE 0)

Tick ==
  /\ now < MaxTime
  /\ \A c \in Callers : Active(c) => now < Deadline(c)
  /\ now' = now + 1
  /\ UNCHANGED <<shopifyVars, session, lock, conns, pc, tok, began, outcome, faults, lost,
                 agentVars>>

\* Shopify retires every token the moment the merchant uninstalls.
Uninstall ==
  /\ Uninstalls # {} /\ installed
  /\ installed' = FALSE
  /\ UNCHANGED <<now, gen, expires, session, lock, conns, pc, tok, began, outcome, faults,
                 lost, agentVars>>

JobStep(j) == ReadCache(j) \/ CacheToken(j) \/ FetchFails(j) \/ AnswerUnread(j) \/ Post(j)

HookStep(h) ==
  HookUnavailable(h) \/ Authenticate(h) \/ AuthenticateFails(h) \/ Forward(h) \/ Erase(h)

CallerStep(c) ==
  \/ AuthorityStep(c) /\ UNCHANGED agentVars
  \/ c \in Jobs /\ JobStep(c)
  \/ c \in Hooks /\ HookStep(c)

Next ==
  \/ \E c \in Callers : Start(c) \/ CallerStep(c)
  \/ \E c \in Callers : AuthorityFault(c) /\ UNCHANGED agentVars
  \/ \E j \in Jobs : GiveUp(j) \/ Throttled(j)
  \/ \E h \in Hooks : ForwardFails(h)
  \/ Tick \/ Uninstall

Spec == Init /\ [][Next]_vars

\* A request's own steps run when they can.
FairSpec == Spec /\ \A c \in Callers : WF_vars(CallerStep(c))

-----------------------------------------------------------------------------
(* Properties. *)

\* A transaction that will store what Shopify has just issued.
Storing(c) == pc[c] = "store" /\ c \in conns

Pending == \E c \in Callers : Storing(c)

\* The refresh chain is never broken while the shop is installed: the stored session is
\* the token Shopify would accept, unless a request is about to store that one or it
\* was lost on the way (shop-lock.server.ts serialises for this).
ChainKept ==
  installed =>
    \/ session = gen
    \/ \E c \in Callers : Storing(c) /\ tok[c] = gen
    \/ gen \in lost

\* A job reports that the shop must re-authenticate only when it is uninstalled or a
\* rotation was lost: contention alone never flags a healthy shop.
HealthyShopNeverFlagged ==
  (\E j \in Jobs : outcome[j] = "reauth") => (~installed \/ lost # {})

\* Only getAdminToken and ensureFreshOfflineSession rotate: webhook authentication,
\* which runs outside the lock, always finds a session it need not refresh.
LibraryNeverRotates ==
  [][gen' # gen => \E c \in Callers : pc[c] = "call" /\ pc'[c] # "call"]_vars

\* Concurrent callers collapse into one refresh: a token is rotated only within the
\* widest window of its end, however many callers found it due.
RotatedOnlyWhenDue == [][gen' # gen => Due(gen, HookWindow)]_vars

\* The agent never presents a token that has expired of age: the shell's window, the
\* cache's margin and the request timeouts together cover its life.
NeverPresentsExpired ==
  \A j \in Jobs : pc[j] = "post" => now < expires[tok[j]]

\* The shell implements TokenChain: seen from the session row and from Shopify, a rotation starts
\* from the newest token with no other under way, and ends stored or lost.
Chain == INSTANCE TokenChain WITH newest <- gen, held <- session, pending <- Pending

ImplementsChain == Chain!Spec

\* A caller that can only wait: for a connection of the pool, for the lock, or for a
\* connection beside its own.
Waits(c) ==
  \/ pc[c] = "begin" /\ Cardinality(conns) >= Pool
  \/ pc[c] = "lock" /\ lock # Nobody
  \/ pc[c] = "reread" /\ ~InnerConnection(c)

\* When a caller waits, one of those that hold a connection can go on: the holders of the
\* pool and of the lock never wait for each other (the deadlock shop-lock.server.ts avoids).
NobodyWaitsInACircle ==
  (\E c \in Callers : Waits(c)) => \E d \in conns : ~Waits(d)

\* A caller inside the authority gets an answer: neither the pool nor the lock can be
\* held by requests that wait for each other.
EveryCallerAnswered ==
  \A c \in Callers : pc[c] = "load" ~> pc[c] \in {"idle", "done"}

=============================================================================
