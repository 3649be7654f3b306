-------------------------- MODULE RefreshAuthority --------------------------
(***************************************************************************)
(* The app shell as the single refresh authority for a shop's offline      *)
(* token: lib/admin-token.server.ts and lib/shop-lock.server.ts, and what  *)
(* Shopify and Prisma do for them.                                         *)
(*                                                                         *)
(* Tokens are numbered in the order Shopify issues them; an access token   *)
(* and its refresh token share a number.  Issuing token n+1 retires both   *)
(* halves of token n at once, so only token `gen' is worth anything.  The  *)
(* stored session is the number of the token it holds.  Time is a clock    *)
(* whose ticks are coarser than any one request.                           *)
(***************************************************************************)
EXTENDS Naturals, FiniteSets

CONSTANTS
  Jobs,         \* agent jobs asking for a token, each through one shell request
  Hooks,        \* webhook deliveries being authenticated
  Nobody,       \* holder of a free advisory lock
  Pool,         \* connections of the shell's Prisma pool
  Life,         \* ticks a token lives after it is issued
  FirstExpiry,  \* when the token stored at the start expires
  LibWindow,    \* the library's refresh window, which getAdminToken mirrors
  HookWindow,   \* WEBHOOK_REFRESH_WINDOW_MS
  Patience,     \* ticks a request may last (lock maxWait + timeout, HTTP timeouts)
  CallTimeout,  \* ticks a refresh may outlast the transaction that issued it
  Faults,       \* which failures the environment may inject
  MaxFaults,    \* bound on injected failures
  MaxTime,      \* bound on the clock
  MaxTokens     \* bound on the tokens issued

Callers == Jobs \union Hooks
Tokens == 1..MaxTokens
NoToken == 0

ASSUME AuthorityAssumption ==
  /\ Jobs \intersect Hooks = {}
  /\ Nobody \notin Callers
  /\ Pool \in Nat \ {0}
  /\ Life \in Nat \ {0}
  /\ FirstExpiry \in Nat
  /\ LibWindow \in Nat
  /\ HookWindow \in Nat
  /\ Patience \in Nat
  /\ CallTimeout \in Nat
  /\ MaxFaults \in Nat
  /\ MaxTime \in Nat
  /\ MaxTokens \in Nat \ {0}
  /\ Faults \subseteq {"agent", "crash", "give up", "lost reply", "max wait", "refuse",
                       "store", "throttle", "timeout"}

VARIABLES
  now,         \* the clock
  installed,   \* Shopify: the app is installed
  gen,         \* Shopify: the newest token it issued
  expires,     \* Shopify: when each token expires
  session,     \* the shell's Session row: the token it holds
  lock,        \* who holds pg_advisory_xact_lock for the shop
  conns,       \* callers with an interactive transaction open
  pc,          \* where each caller is
  tok,         \* the token each caller last read or was given
  began,       \* when each caller's request began
  outcome,     \* how each caller's request ended
  faults,      \* failures injected so far
  lost         \* history: tokens issued to a request that could not store them

authorityVars == <<now, installed, gen, expires, session, lock, conns, pc, tok,
                   began, outcome, faults, lost>>

\* "load" to "store" are inside getAdminToken or ensureFreshOfflineSession; "served",
\* "reauth" and "transient" are the three ways out; the rest belong to the callers.
Pc == {"idle", "read", "load", "begin", "lock", "reread", "call", "store", "served",
       "reauth", "transient", "post", "forward", "erase", "done"}

Outcome == {"none", "ok", "reauth", "transient", "rejected", "throttled", "error"}

AuthorityTypeOK ==
  /\ now \in 0..MaxTime
  /\ installed \in BOOLEAN
  /\ gen \in Tokens
  /\ expires \in [Tokens -> Nat]
  /\ session \in Tokens \union {NoToken}
  /\ lock \in Callers \union {Nobody}
  /\ conns \subseteq Callers
  /\ pc \in [Callers -> Pc]
  /\ tok \in [Callers -> Tokens \union {NoToken}]
  /\ began \in [Callers -> 0..MaxTime]
  /\ outcome \in [Callers -> Outcome]
  /\ faults \in 0..MaxFaults
  /\ lost \subseteq Tokens

AuthorityInit ==
  /\ now = 0 /\ installed = TRUE
  /\ gen = 1 /\ expires = [t \in Tokens |-> IF t = 1 THEN FirstExpiry ELSE 0]
  /\ session = 1
  /\ lock = Nobody /\ conns = {}
  /\ pc = [c \in Callers |-> "idle"]
  /\ tok = [c \in Callers |-> NoToken]
  /\ began = [c \in Callers |-> 0]
  /\ outcome = [c \in Callers |-> "none"]
  /\ faults = 0 /\ lost = {}

-----------------------------------------------------------------------------

\* session.isExpired(within), of a session that is there
Due(t, window) == t # NoToken /\ expires[t] <= now + window

WindowMutOneForAll(c) == LibWindow

\* The window is threaded through, so that the check after the lock is the caller's own.
Window(c) == IF c \in Hooks THEN HookWindow ELSE LibWindow

\* A refresh token works once, while its installation lasts.
Spendable(t) == installed /\ t = gen

Issue ==
  /\ gen < MaxTokens
  /\ gen' = gen + 1
  /\ expires' = [expires EXCEPT ![gen + 1] = now + Life]

Goto(c, label) == pc' = [pc EXCEPT ![c] = label]

Fault(kind) == kind \in Faults /\ faults < MaxFaults /\ faults' = faults + 1

\* End of the interactive transaction: the connection goes back, the lock is released.
EndTx(c) ==
  /\ conns' = conns \ {c}
  /\ lock' = IF lock = c THEN Nobody ELSE lock

\* Its transaction is gone but its callback still runs.
Orphan(c) == pc[c] \in {"call", "store"} /\ c \notin conns

shopifyVars == <<installed, gen, expires>>

\* The first read, outside any transaction.  getAdminToken treats a missing session as
\* permanent; ensureFreshOfflineSession returns.
Load(c) ==
  /\ pc[c] = "load"
  /\ tok' = [tok EXCEPT ![c] = session]
  /\ Goto(c, IF session = NoToken THEN (IF c \in Hooks THEN "served" ELSE "reauth")
             ELSE IF ~Due(session, Window(c)) THEN "served"
             ELSE "begin")
  /\ UNCHANGED <<now, shopifyVars, session, lock, conns, began, outcome, faults, lost>>

\* prisma.$transaction takes a connection from the pool...
Begin(c) ==
  /\ pc[c] = "begin" /\ Cardinality(conns) < Pool
  /\ conns' = conns \union {c}
  /\ Goto(c, "lock")
  /\ UNCHANGED <<now, shopifyVars, session, lock, tok, began, outcome, faults, lost>>

\* ...and blocks on the advisory lock while holding it.
TakeLock(c) ==
  /\ pc[c] = "lock" /\ lock = Nobody
  /\ lock' = c
  /\ Goto(c, "reread")
  /\ UNCHANGED <<now, shopifyVars, session, conns, tok, began, outcome, faults, lost>>

StillDueMutNoSecondLook(c) == session # NoToken

StillDue(c) == Due(session, Window(c))

InnerConnectionMutBorrowsAnother(c) == Cardinality(conns) < Pool

\* Inner reads and writes go through the lock's own connection.
InnerConnection(c) == c \in conns

\* refreshUnderLock reads the session again.
Reread(c) ==
  /\ pc[c] = "reread" /\ InnerConnection(c)
  /\ tok' = [tok EXCEPT ![c] = session]
  /\ \/ /\ StillDue(c)
        /\ Goto(c, "call")
        /\ UNCHANGED <<conns, lock>>
     \/ /\ session # NoToken /\ ~StillDue(c)
        /\ Goto(c, "served")
        /\ EndTx(c)
     \/ /\ session = NoToken
        /\ Goto(c, "reauth")
        /\ EndTx(c)
  /\ UNCHANGED <<now, shopifyVars, session, began, outcome, faults, lost>>

\* api.auth.refreshToken: Shopify spends the refresh token and answers with its
\* successor, or refuses a token that is spent or uninstalled (a permanent grant error).
\* A successor given to an orphan can no longer be stored.
Spend(c) ==
  /\ pc[c] = "call"
  /\ \/ /\ Spendable(tok[c])
        /\ Issue
        /\ tok' = [tok EXCEPT ![c] = gen + 1]
        /\ lost' = IF Orphan(c) THEN lost \union {gen + 1} ELSE lost
        /\ Goto(c, "store")
        /\ UNCHANGED <<conns, lock>>
     \/ /\ ~Spendable(tok[c])
        /\ Goto(c, "reauth")
        /\ EndTx(c)
        /\ UNCHANGED <<gen, expires, tok, lost>>
  /\ UNCHANGED <<now, installed, session, began, outcome, faults>>

\* A 5xx or a network error before Shopify acted.
SpendRefused(c) ==
  /\ pc[c] = "call" /\ Fault("refuse")
  /\ Goto(c, "transient") /\ EndTx(c)
  /\ UNCHANGED <<now, shopifyVars, session, tok, began, outcome, lost>>

\* Shopify rotated and the answer was lost; the handler cannot tell it from the above.
SpendReplyLost(c) ==
  /\ pc[c] = "call" /\ Spendable(tok[c]) /\ Fault("lost reply")
  /\ Issue
  /\ lost' = lost \union {gen + 1}
  /\ Goto(c, "transient") /\ EndTx(c)
  /\ UNCHANGED <<now, installed, session, tok, began, outcome>>

StoredMutNotPersisted(c) == session

Stored(c) == tok[c]

\* storeSession and the commit.  An orphan's transaction refuses the write.
Store(c) ==
  /\ pc[c] = "store"
  /\ \/ /\ c \in conns
        /\ session' = Stored(c)
        /\ Goto(c, "served")
     \/ /\ c \notin conns
        /\ Goto(c, "transient")
        /\ UNCHANGED session
  /\ EndTx(c)
  /\ UNCHANGED <<now, shopifyVars, tok, began, outcome, faults, lost>>

StoreFails(c) ==
  /\ pc[c] = "store" /\ c \in conns /\ Fault("store")
  /\ lost' = lost \union {tok[c]}
  /\ Goto(c, "transient") /\ EndTx(c)
  /\ UNCHANGED <<now, shopifyVars, session, tok, began, outcome>>

\* LOCK_MAX_WAIT_MS: no connection came free.
MaxWait(c) ==
  /\ pc[c] = "begin" /\ Fault("max wait")
  /\ Goto(c, "transient")
  /\ UNCHANGED <<now, shopifyVars, session, lock, conns, tok, began, outcome, lost>>

AgentGoneMutWaitsLonger(c) == FALSE

\* The agent's HTTP timeout is half of LOCK_TIMEOUT_MS.
AgentGone(c) == c \in Jobs

\* LOCK_TIMEOUT_MS: Prisma rolls the transaction back and the lock is released, but a
\* refresh in flight is not cancelled.
TxTimeout(c) ==
  /\ c \in conns /\ Fault("timeout")
  /\ EndTx(c)
  /\ pc' = [pc EXCEPT ![c] = IF @ \in {"call", "store"} THEN @ ELSE "transient"]
  /\ lost' = IF pc[c] = "store" THEN lost \union {tok[c]} ELSE lost
  /\ outcome' = [outcome EXCEPT ![c] = IF AgentGone(c) THEN "transient" ELSE @]
  /\ UNCHANGED <<now, shopifyVars, session, tok, began>>

\* The shell process dies; Postgres rolls back and releases the lock with its connection.
ShellCrash(c) ==
  /\ pc[c] \in {"load", "begin", "lock", "reread", "call", "store"} /\ Fault("crash")
  /\ EndTx(c)
  /\ Goto(c, "transient")
  /\ lost' = IF pc[c] = "store" THEN lost \union {tok[c]} ELSE lost
  /\ UNCHANGED <<now, shopifyVars, session, tok, began, outcome>>

AuthorityStep(c) ==
  Load(c) \/ Begin(c) \/ TakeLock(c) \/ Reread(c) \/ Spend(c) \/ Store(c)

AuthorityFault(c) ==
  \/ SpendRefused(c) \/ SpendReplyLost(c) \/ StoreFails(c) \/ MaxWait(c)
  \/ TxTimeout(c) \/ ShellCrash(c)

=============================================================================
