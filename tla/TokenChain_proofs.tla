-------------------------- MODULE TokenChain_proofs --------------------------
(***************************************************************************)
(* TokenCustody implements TokenChain, its callers never wait in a circle, *)
(* and without the failures that lose an answer no token is lost: for any  *)
(* number of jobs and webhooks and any pool.                               *)
(***************************************************************************)
EXTENDS TokenCustody_proofs, FiniteSetTheorems

-----------------------------------------------------------------------------
(* A refresh that lost its transaction still starts from what is stored. *)

\* Whoever would be given the next token, the one it spends is the one the shell holds.
SpendsWhatIsHeld ==
  \A c \in Callers : installed /\ pc[c] = "call" /\ tok[c] = gen => session = gen

ChainInv == IInv /\ SpendsWhatIsHeld

\* A step that neither issues a token nor changes what is stored.
LEMMA HeldStays ==
  ASSUME ChainInv, UNCHANGED <<gen, session>>, installed' => installed,
         \A d \in Callers : pc'[d] = "call" => \/ tok'[d] = session
                                               \/ pc[d] = "call" /\ tok'[d] = tok[d]
  PROVE  SpendsWhatIsHeld'
BY DEF ChainInv, SpendsWhatIsHeld

\* A step that issues one: nobody can have it yet but the one it was issued to.
LEMMA HeldIssued ==
  ASSUME ChainInv, gen' = gen + 1,
         \A d \in Callers : pc'[d] = "call" => tok'[d] = tok[d]
  PROVE  SpendsWhatIsHeld'
<1>1. gen \in Nat /\ \A d \in Callers : tok[d] \in Nat /\ tok[d] <= gen
  BY Numbers DEF ChainInv, IInv, IssuedOK
<1> QED
  BY <1>1 DEF SpendsWhatIsHeld

LEMMA HeldStep ==
  ASSUME ChainInv, [Next]_vars
  PROVE  SpendsWhatIsHeld'
<1>1. TypeOK /\ pc \in [Callers -> Pc] /\ tok \in [Callers -> Tokens \union {NoToken}]
  BY DEF ChainInv, IInv, TypeOK, AuthorityTypeOK
<1>2. ASSUME NEW c \in Callers,
             Start(c) \/ Load(c) \/ Begin(c) \/ TakeLock(c) \/ SpendRefused(c) \/ MaxWait(c)
             \/ StoreFails(c) \/ TxTimeout(c) \/ ShellCrash(c)
      PROVE  SpendsWhatIsHeld'
  <2>1. UNCHANGED <<gen, session, installed>>
    BY <1>2 DEF Start, Load, Begin, TakeLock, SpendRefused, MaxWait, StoreFails, TxTimeout,
                ShellCrash, stillVars, shopifyVars
  <2>2. \A d \in Callers : pc'[d] = "call" => pc[d] = "call" /\ tok'[d] = tok[d]
    BY <1>1, <1>2 DEF Start, Load, Begin, TakeLock, SpendRefused, MaxWait, StoreFails, TxTimeout,
                      ShellCrash, Goto, stillVars, shopifyVars
  <2> QED
    BY <2>1, <2>2, HeldStays
<1>3. ASSUME NEW c \in Callers, Reread(c)
      PROVE  SpendsWhatIsHeld'
  <2>1. UNCHANGED <<gen, session, installed>>
    BY <1>3 DEF Reread, shopifyVars
  <2>2. \A d \in Callers : pc'[d] = "call" => \/ tok'[d] = session
                                              \/ pc[d] = "call" /\ tok'[d] = tok[d]
    BY <1>1, <1>3 DEF Reread, Goto
  <2> QED
    BY <2>1, <2>2, HeldStays
<1>4. ASSUME NEW c \in Callers, Spend(c) \/ SpendReplyLost(c)
      PROVE  SpendsWhatIsHeld'
  <2>1. \A d \in Callers : pc'[d] = "call" => pc[d] = "call" /\ tok'[d] = tok[d]
    BY <1>1, <1>4 DEF Spend, SpendReplyLost, Goto
  <2>2. CASE gen' = gen + 1
    BY <2>1, <2>2, HeldIssued
  <2>3. CASE gen' = gen
    <3>1. session' = session /\ installed' = installed
      BY <1>4 DEF Spend, SpendReplyLost, shopifyVars
    <3> QED
      BY <2>1, <2>3, <3>1, HeldStays
  <2> QED
    BY <1>4, <2>2, <2>3 DEF Spend, SpendReplyLost, Issue
<1>5. ASSUME NEW c \in Callers, Store(c)
      PROVE  SpendsWhatIsHeld'
  <2>1. UNCHANGED <<gen, installed>>
        /\ \A d \in Callers : pc'[d] = "call" => pc[d] = "call" /\ tok'[d] = tok[d]
    BY <1>1, <1>5 DEF Store, Goto, shopifyVars
  <2>2. CASE c \notin conns
    <3>1. session' = session
      BY <1>5, <2>2 DEF Store
    <3> QED
      BY <2>1, <3>1, HeldStays
  <2>3. CASE c \in conns
    <3>1. \A d \in Callers : pc[d] = "call" => tok[d] # gen
      BY <1>5, <2>3 DEF ChainInv, IInv, CallerInv, CallOK, Storing, Store
    <3> QED
      BY <2>1, <3>1 DEF SpendsWhatIsHeld
  <2> QED
    BY <2>2, <2>3
<1>6. ASSUME NEW j \in Jobs, JobStep(j) \/ GiveUp(j) \/ Throttled(j)
      PROVE  SpendsWhatIsHeld'
  <2>1. UNCHANGED <<gen, session, installed>>
    BY <1>6 DEF JobStep, ReadCache, CacheToken, FetchFails, AnswerUnread, Post, GiveUp, Throttled,
                stillVars, shopifyVars
  <2>2. \A d \in Callers : pc'[d] = "call" => pc[d] = "call" /\ tok'[d] = tok[d]
    BY <1>1, <1>6 DEF JobStep, ReadCache, CacheToken, FetchFails, AnswerUnread, Post, GiveUp,
                      Throttled, Goto, Finish, stillVars, shopifyVars
  <2> QED
    BY <2>1, <2>2, HeldStays
<1>7. ASSUME NEW h \in Hooks, HookStep(h) \/ ForwardFails(h)
      PROVE  SpendsWhatIsHeld'
  <2>1. h \in Callers
    BY DEF Callers
  <2>2. UNCHANGED <<gen, installed>>
    <3>1. ~Authenticate(h) \/ (UNCHANGED <<gen, installed>>)
      BY LibraryIdle DEF Authenticate, ChainInv
    <3> QED
      BY <1>7, <3>1 DEF HookStep, HookUnavailable, AuthenticateFails, Forward, ForwardFails, Erase,
                        stillVars, shopifyVars
  <2>3. \A d \in Callers : pc'[d] = "call" => pc[d] = "call" /\ tok'[d] = tok[d]
    BY <1>1, <1>7 DEF HookStep, HookUnavailable, Authenticate, AuthenticateFails, Forward,
                      ForwardFails, Erase, Goto, Finish, stillVars, shopifyVars
  <2>4. session' = session \/ ~installed
    <3>1. ~Authenticate(h) \/ session' = session
      BY LibraryIdle DEF Authenticate, ChainInv
    <3>2. Erase(h) => ~installed
      BY <2>1 DEF Erase, ChainInv, IInv, CallerInv, HookOK
    <3> QED
      BY <1>7, <3>1, <3>2 DEF HookStep, HookUnavailable, AuthenticateFails, Forward, ForwardFails,
                              stillVars
  <2>5. CASE ~installed
    BY <2>2, <2>5 DEF SpendsWhatIsHeld
  <2> QED
    BY <2>2, <2>3, <2>4, <2>5, HeldStays
<1>8. CASE Tick \/ Uninstall \/ UNCHANGED vars
  <2>1. UNCHANGED <<gen, session, pc, tok>> /\ (installed' => installed)
    BY <1>8 DEF Tick, Uninstall, vars, authorityVars, shopifyVars
  <2> QED
    BY <2>1, HeldStays
<1> QED
  BY <1>2, <1>3, <1>4, <1>5, <1>6, <1>7, <1>8
  DEF Next, CallerStep, AuthorityStep, AuthorityFault

(* The invariant of the refinement: nobody is about to be given the next token for one that is *)
(* not stored, a refresh that lost its transaction included.                                   *)
THEOREM ChainInvariant == Spec => []ChainInv
<1>1. Init => ChainInv
  <2>1. Init => SpendsWhatIsHeld
    BY DEF Init, AuthorityInit, SpendsWhatIsHeld
  <2> QED
    BY <2>1, InvInit DEF ChainInv
<1>2. ChainInv /\ [Next]_vars => ChainInv'
  BY HeldStep, InvStep DEF ChainInv
<1> QED
  BY <1>1, <1>2, PTL DEF Spec

-----------------------------------------------------------------------------
(* The refinement, one kind of step after the other. *)

LEMMA OneStores ==
  ASSUME IInv, NEW c \in Callers, Storing(c)
  PROVE  \A d \in Callers \ {c} : ~Storing(d)
BY OneHolder DEF Storing

\* Two callers cannot both be given the successor of the same token.
LEMMA NoneStores ==
  ASSUME IInv, NEW c \in Callers, pc[c] = "call", tok[c] = gen
  PROVE  ~Pending
BY DEF IInv, CallerInv, CallOK, Pending

\* Seen from the session row and from Shopify, nothing happened.
Unseen ==
  /\ UNCHANGED <<gen, session, installed>>
  /\ \A d \in Callers : Storing(d)' <=> Storing(d)

LEMMA UnseenStutters ==
  ASSUME Unseen
  PROVE  UNCHANGED Chain!vars
BY DEF Unseen, Chain!vars, Pending

LEMMA AuthorityRefines ==
  ASSUME ChainInv, NEW c \in Callers, AuthorityStep(c)
  PROVE  [Chain!Next]_(Chain!vars)
<1>1. TypeOK /\ pc \in [Callers -> Pc] /\ conns \subseteq Callers /\ gen \in Nat
  BY Numbers DEF ChainInv, IInv, TypeOK, AuthorityTypeOK
<1>2. CASE Load(c) \/ Begin(c) \/ TakeLock(c) \/ Reread(c)
  <2>1. UNCHANGED <<gen, session, installed>>
    BY <1>2 DEF Load, Begin, TakeLock, Reread, shopifyVars
  <2>2. \A d \in Callers : Storing(d)' <=> Storing(d)
    BY <1>1, <1>2 DEF Load, Begin, TakeLock, Reread, Goto, EndTx, Storing
  <2> QED
    BY <2>1, <2>2, UnseenStutters DEF Unseen
<1>3. CASE Spend(c) /\ Spendable(tok[c])
  <2>1. pc[c] = "call" /\ tok[c] = gen /\ installed /\ gen' = gen + 1
        /\ UNCHANGED <<session, installed, conns>> /\ Goto(c, "store")
    BY <1>3 DEF Spend, Spendable, Issue
  <2>2. session = gen /\ ~Pending
    BY <2>1, NoneStores DEF ChainInv, SpendsWhatIsHeld
  <2>3. Chain!Issue
    BY <2>1, <2>2 DEF Chain!Issue
  <2>4. CASE c \in conns
    <3>1. Storing(c)'
      BY <1>1, <2>1, <2>4 DEF Storing, Goto
    <3>2. Pending' = TRUE
      BY <3>1 DEF Pending
    <3> QED
      BY <2>3, <3>2 DEF Chain!Next, Chain!Rotate
  <2>5. CASE c \notin conns
    <3>1. \A d \in Callers : Storing(d)' <=> Storing(d)
      BY <1>1, <2>1, <2>5 DEF Storing, Goto
    <3>2. UNCHANGED Pending
      BY <3>1 DEF Pending
    <3> QED
      BY <2>3, <3>2 DEF Chain!Next, Chain!RotateInVain
  <2> QED
    BY <2>4, <2>5
<1>4. CASE Spend(c) /\ ~Spendable(tok[c])
  <2>1. UNCHANGED <<gen, session, installed>>
    BY <1>4 DEF Spend
  <2>2. \A d \in Callers : Storing(d)' <=> Storing(d)
    BY <1>1, <1>4 DEF Spend, Goto, EndTx, Storing
  <2> QED
    BY <2>1, <2>2, UnseenStutters DEF Unseen
<1>5. CASE Store(c) /\ c \in conns
  <2>1. Storing(c) /\ tok[c] = gen
    BY <1>5 DEF Store, Storing, ChainInv, IInv, CallerInv, CallOK
  <2>2. \A d \in Callers : ~Storing(d)'
    BY <1>1, <1>5, <2>1, OneStores DEF ChainInv, Store, Goto, EndTx, Storing
  <2>3. session' = gen /\ UNCHANGED <<gen, installed>>
    BY <1>5, <2>1 DEF Store, Stored, shopifyVars
  <2>4. Pending /\ Pending' = FALSE
    BY <2>1, <2>2 DEF Pending
  <2> QED
    BY <2>3, <2>4 DEF Chain!Next, Chain!Settle
<1>6. CASE Store(c) /\ c \notin conns
  <2>1. UNCHANGED <<gen, session, installed>>
    BY <1>6 DEF Store, shopifyVars
  <2>2. \A d \in Callers : Storing(d)' <=> Storing(d)
    BY <1>1, <1>6 DEF Store, Goto, EndTx, Storing
  <2> QED
    BY <2>1, <2>2, UnseenStutters DEF Unseen
<1> QED
  BY <1>2, <1>3, <1>4, <1>5, <1>6 DEF AuthorityStep

LEMMA FaultRefines ==
  ASSUME ChainInv, NEW c \in Callers, AuthorityFault(c)
  PROVE  [Chain!Next]_(Chain!vars)
<1>1. TypeOK /\ pc \in [Callers -> Pc] /\ conns \subseteq Callers /\ gen \in Nat
  BY Numbers DEF ChainInv, IInv, TypeOK, AuthorityTypeOK
<1>2. CASE SpendReplyLost(c)
  <2>1. pc[c] = "call" /\ tok[c] = gen /\ installed /\ gen' = gen + 1
        /\ UNCHANGED <<session, installed>> /\ Goto(c, "transient") /\ EndTx(c)
    BY <1>2 DEF SpendReplyLost, Spendable, Issue
  <2>2. session = gen /\ ~Pending
    BY <2>1, NoneStores DEF ChainInv, SpendsWhatIsHeld
  <2>3. \A d \in Callers : Storing(d)' <=> Storing(d)
    BY <1>1, <2>1 DEF Storing, Goto, EndTx
  <2>4. UNCHANGED Pending
    BY <2>3 DEF Pending
  <2> QED
    BY <2>1, <2>2, <2>4 DEF Chain!Next, Chain!RotateInVain, Chain!Issue
<1>3. CASE ~SpendReplyLost(c)
  <2>1. UNCHANGED <<gen, session, installed>>
    BY <1>3 DEF AuthorityFault, SpendRefused, StoreFails, MaxWait, TxTimeout, ShellCrash,
                shopifyVars
  <2>2. \A d \in Callers \ {c} : Storing(d)' <=> Storing(d)
    BY <1>1, <1>3 DEF AuthorityFault, SpendRefused, StoreFails, MaxWait, TxTimeout, ShellCrash,
                      Goto, EndTx, Storing
  <2>3. ~Storing(c)'
    <3>1. CASE MaxWait(c) \/ SpendRefused(c) \/ StoreFails(c) \/ ShellCrash(c)
      BY <1>1, <3>1 DEF MaxWait, SpendRefused, StoreFails, ShellCrash, Goto, Storing
    <3>2. CASE TxTimeout(c)
      BY <3>2 DEF TxTimeout, EndTx, Storing
    <3> QED
      BY <1>3, <3>1, <3>2 DEF AuthorityFault
  <2>4. CASE Storing(c)
    <3>1. Pending /\ Pending' = FALSE
      BY <2>2, <2>3, <2>4, OneStores DEF Pending, ChainInv
    <3> QED
      BY <2>1, <3>1 DEF Chain!Next, Chain!Lose
  <2>5. CASE ~Storing(c)
    BY <2>1, <2>2, <2>3, <2>5, UnseenStutters DEF Unseen
  <2> QED
    BY <2>4, <2>5
<1> QED
  BY <1>2, <1>3

LEMMA CallerRefines ==
  ASSUME ChainInv,
         \/ \E c \in Callers : Start(c)
         \/ \E j \in Jobs : JobStep(j) \/ GiveUp(j) \/ Throttled(j)
         \/ \E h \in Hooks : HookStep(h) \/ ForwardFails(h)
  PROVE  [Chain!Next]_(Chain!vars)
<1>1. TypeOK /\ pc \in [Callers -> Pc] /\ conns \subseteq Callers
  BY DEF ChainInv, IInv, TypeOK, AuthorityTypeOK
<1>2. ASSUME NEW c \in Callers, Start(c)
      PROVE  Unseen
  BY <1>1, <1>2 DEF Start, Goto, Unseen, Storing, stillVars, shopifyVars
<1>3. ASSUME NEW j \in Jobs, JobStep(j) \/ GiveUp(j) \/ Throttled(j)
      PROVE  Unseen
  <2>1. UNCHANGED <<gen, session, installed, conns>>
    BY <1>3 DEF JobStep, ReadCache, CacheToken, FetchFails, AnswerUnread, Post, GiveUp, Throttled,
                stillVars, shopifyVars
  <2>2. \A d \in Callers : pc'[d] = "store" <=> pc[d] = "store"
    BY <1>1, <1>3 DEF JobStep, ReadCache, CacheToken, FetchFails, AnswerUnread, Post, GiveUp,
                      Throttled, Goto, Finish
  <2> QED
    BY <2>1, <2>2 DEF Unseen, Storing
<1>4. ASSUME NEW h \in Hooks, HookStep(h) \/ ForwardFails(h)
      PROVE  [Chain!Next]_(Chain!vars)
  <2>1. h \in Callers
    BY DEF Callers
  <2>2. UNCHANGED <<installed, conns>>
    BY <1>4 DEF HookStep, HookUnavailable, Authenticate, AuthenticateFails, Forward, ForwardFails,
                Erase, stillVars, shopifyVars
  <2>3. \A d \in Callers : pc'[d] = "store" <=> pc[d] = "store"
    BY <1>1, <1>4 DEF HookStep, HookUnavailable, Authenticate, AuthenticateFails, Forward,
                      ForwardFails, Erase, Goto, Finish
  <2>4. UNCHANGED Pending
    BY <2>2, <2>3 DEF Pending, Storing
  <2>5. ~Authenticate(h) \/ UNCHANGED <<gen, session>>
    BY LibraryIdle DEF Authenticate, ChainInv
  <2>6. CASE Erase(h)
    <3>1. ~installed /\ UNCHANGED gen
      BY <2>1, <2>6 DEF Erase, ChainInv, IInv, CallerInv, HookOK, stillVars, shopifyVars
    <3>2. session' = NoToken \/ session' = session
      BY <2>6 DEF Erase
    <3> QED
      BY <2>2, <2>4, <3>1, <3>2 DEF Chain!Next, Chain!Erase, Chain!vars
  <2>7. CASE ~Erase(h)
    <3>1. UNCHANGED <<gen, session>>
      BY <1>4, <2>5, <2>7 DEF HookStep, HookUnavailable, AuthenticateFails, Forward, ForwardFails,
                              stillVars, shopifyVars
    <3> QED
      BY <2>2, <2>4, <3>1 DEF Chain!vars
  <2> QED
    BY <2>6, <2>7
<1> QED
  BY <1>2, <1>3, <1>4, UnseenStutters

LEMMA ChainStep ==
  ASSUME ChainInv, [Next]_vars
  PROVE  [Chain!Next]_(Chain!vars)
<1>1. CASE Uninstall
  <2>1. UNCHANGED Pending
    BY <1>1 DEF Uninstall, Pending, Storing
  <2> QED
    BY <1>1, <2>1 DEF Uninstall, Chain!Next, Chain!Uninstall
<1>2. CASE Tick \/ UNCHANGED vars
  <2>1. Unseen
    BY <1>2 DEF Tick, vars, authorityVars, shopifyVars, Unseen, Storing
  <2> QED
    BY <2>1, UnseenStutters
<1> QED
  BY <1>1, <1>2, AuthorityRefines, FaultRefines, CallerRefines DEF Next, CallerStep

(* The shell implements the abstract chain, whichever requests overlap, wait, time out or      *)
(* crash: every rotation starts from the newest token, which is the one stored, with no other  *)
(* under way, and ends stored or lost (refreshUnderLock, withShopRefreshLock).                 *)
THEOREM ChainRefinement == Spec => ImplementsChain
<1>1. Init => Chain!Init
  <2>1. Init => ~Pending
    BY DEF Init, AuthorityInit, Pending, Storing
  <2> QED
    BY <2>1 DEF Init, AuthorityInit, Chain!Init
<1>2. ChainInv /\ [Next]_vars => [Chain!Next]_(Chain!vars)
  BY ChainStep
<1> QED
  BY <1>1, <1>2, ChainInvariant, PTL DEF Spec, ImplementsChain, Chain!Spec

-----------------------------------------------------------------------------
(* Who waits for whom. *)

(* Neither the pool, of whatever size, nor the lock is ever held only by callers that wait: the *)
(* holder of the lock has its connection and needs no other (withShopRefreshLock, txStorage).   *)
THEOREM NoCircleTheorem == Spec => []NobodyWaitsInACircle
<1>1. ASSUME IInv, NEW c \in Callers, Waits(c)
      PROVE  \E d \in conns : ~Waits(d)
  <2>1. conns \subseteq Callers /\ lock \in Callers \union {Nobody} /\ LockOK
    BY <1>1 DEF IInv, TypeOK, AuthorityTypeOK
  <2>2. conns # {}
    <3>1. CASE pc[c] = "begin" /\ Cardinality(conns) >= Pool
      <4>1. Pool \in Nat \ {0} /\ Cardinality({}) = 0
        BY AuthorityAssumption, FS_EmptySet
      <4> QED
        BY <3>1, <4>1
    <3>2. CASE pc[c] \in {"lock", "reread"}
      BY <2>1, <3>2 DEF LockOK
    <3> QED
      BY <1>1, <3>1, <3>2 DEF Waits
  <2>3. CASE lock = Nobody
    <3>1. PICK d \in conns : TRUE
      BY <2>2
    <3>2. pc[d] = "lock"
      BY <2>1, <2>3, AuthorityAssumption DEF LockOK
    <3> QED
      BY <2>3, <3>2 DEF Waits
  <2>4. CASE lock # Nobody
    <3>1. lock \in conns /\ pc[lock] \in {"reread", "call", "store"}
      BY <2>1, <2>4 DEF LockOK
    <3> QED
      BY <3>1 DEF Waits, InnerConnection
  <2> QED
    BY <2>3, <2>4
<1>2. IInv => NobodyWaitsInACircle
  BY <1>1 DEF NobodyWaitsInACircle
<1> QED
  BY <1>2, CustodyInvariant, PTL

-----------------------------------------------------------------------------
(* What contention alone can do. *)

\* The failures that come between Shopify's rotation and the commit of what it answered.
LosesAnAnswer == {"lost reply", "timeout", "crash", "store"}

NothingLost == lost = {} /\ \A c \in Callers : ~Orphan(c)

\* The shop always holds its newest token or is about to, and no job is told otherwise.
NoHarmDone ==
  /\ installed => session = gen \/ Pending
  /\ \A j \in Jobs : outcome[j] = "reauth" => ~installed

LEMMA NothingLostStep ==
  ASSUME Faults \intersect LosesAnAnswer = {}, IInv, NothingLost, [Next]_vars
  PROVE  NothingLost'
<1>1. TypeOK /\ pc \in [Callers -> Pc] /\ conns \subseteq Callers /\ LockOK
  BY DEF IInv, TypeOK, AuthorityTypeOK
<1>2. \A c \in Callers : ~SpendReplyLost(c) /\ ~StoreFails(c) /\ ~TxTimeout(c) /\ ~ShellCrash(c)
  BY DEF LosesAnAnswer, SpendReplyLost, StoreFails, TxTimeout, ShellCrash, Fault
<1>3. ASSUME NEW c \in Callers,
             AuthorityStep(c) \/ SpendRefused(c) \/ MaxWait(c)
      PROVE  NothingLost'
  <2>1. lost' = lost
    BY <1>3 DEF AuthorityStep, Load, Begin, TakeLock, Reread, Spend, Store, SpendRefused, MaxWait,
                NothingLost
  <2>2. \A d \in Callers \ {c} : ~Orphan(d)'
    BY <1>1, <1>3 DEF AuthorityStep, Load, Begin, TakeLock, Reread, Spend, Store, SpendRefused,
                      MaxWait, Goto, EndTx, NothingLost, Orphan
  <2>3. ~Orphan(c)'
    <3>1. CASE Load(c) \/ Begin(c) \/ TakeLock(c) \/ Store(c) \/ SpendRefused(c) \/ MaxWait(c)
      BY <1>1, <3>1 DEF Load, Begin, TakeLock, Store, SpendRefused, MaxWait, Goto, Orphan
    <3>2. CASE Reread(c) \/ Spend(c)
      BY <1>1, <3>2 DEF Reread, Spend, Goto, EndTx, Orphan, NothingLost, LockOK
    <3> QED
      BY <1>3, <3>1, <3>2 DEF AuthorityStep
  <2> QED
    BY <2>1, <2>2, <2>3 DEF NothingLost
<1>4. ASSUME NEW c \in Callers, Start(c)
      PROVE  NothingLost'
  BY <1>1, <1>4 DEF Start, Goto, stillVars, NothingLost, Orphan
<1>5. ASSUME NEW j \in Jobs, JobStep(j) \/ GiveUp(j) \/ Throttled(j)
      PROVE  NothingLost'
  <2>1. UNCHANGED <<lost, conns>>
    BY <1>5 DEF JobStep, ReadCache, CacheToken, FetchFails, AnswerUnread, Post, GiveUp, Throttled,
                stillVars
  <2>2. \A d \in Callers : pc'[d] \in {"call", "store"} => pc'[d] = pc[d]
    BY <1>1, <1>5 DEF JobStep, ReadCache, CacheToken, FetchFails, AnswerUnread, Post, GiveUp,
                      Throttled, Goto, Finish
  <2> QED
    BY <2>1, <2>2 DEF NothingLost, Orphan
<1>6. ASSUME NEW h \in Hooks, HookStep(h) \/ ForwardFails(h)
      PROVE  NothingLost'
  <2>1. UNCHANGED <<lost, conns>>
    BY <1>6 DEF HookStep, HookUnavailable, Authenticate, AuthenticateFails, Forward, ForwardFails,
                Erase, stillVars
  <2>2. \A d \in Callers : pc'[d] \in {"call", "store"} => pc'[d] = pc[d]
    BY <1>1, <1>6 DEF HookStep, HookUnavailable, Authenticate, AuthenticateFails, Forward,
                      ForwardFails, Erase, Goto, Finish
  <2> QED
    BY <2>1, <2>2 DEF NothingLost, Orphan
<1>7. CASE Tick \/ Uninstall \/ UNCHANGED vars
  BY <1>7 DEF Tick, Uninstall, vars, authorityVars, NothingLost, Orphan
<1> QED
  BY <1>2, <1>3, <1>4, <1>5, <1>6, <1>7 DEF Next, CallerStep, AuthorityFault

(* Contention alone does no harm.  While no failure comes between Shopify's rotation and its   *)
(* commit, an installed shop always holds its newest token or is about to, and no job, however *)
(* many compete or give up, is told that it must re-authenticate (getAdminToken).              *)
THEOREM ContentionTheorem ==
  ASSUME Faults \intersect LosesAnAnswer = {}
  PROVE  Spec => []NoHarmDone
<1>1. Init => NothingLost
  BY DEF Init, AuthorityInit, NothingLost, Orphan
<1>2. IInv /\ NothingLost /\ [Next]_vars => NothingLost'
  BY NothingLostStep
<1>3. IInv /\ NothingLost => NoHarmDone
  <2>1. ASSUME IInv, NothingLost, NEW j \in Jobs, outcome[j] = "reauth"
        PROVE  ~installed
    BY <2>1 DEF IInv, CallerInv, JobOK, Callers, NothingLost
  <2>2. ASSUME IInv, NothingLost, installed
        PROVE  session = gen \/ Pending
    BY <2>2 DEF IInv, ChainKept, NothingLost, Pending
  <2> QED
    BY <2>1, <2>2 DEF NoHarmDone
<1> QED
  BY <1>1, <1>2, <1>3, CustodyInvariant, PTL DEF Spec

=============================================================================
