------------------------- MODULE TokenCustody_proofs -------------------------
(***************************************************************************)
(* What holds of a shop's tokens for any number of jobs and webhooks, any  *)
(* pool, windows, lifetimes and failures that satisfy the named            *)
(* assumptions.                                                            *)
(***************************************************************************)
EXTENDS TokenCustody, TLAPS

-----------------------------------------------------------------------------
(* The inductive invariant. *)

\* The newest token is neither stored nor about to be: no token the shell has is worth anything.
Broken == session # gen /\ \A c \in Callers : ~Storing(c)

\* The newest token outlives a request by this much.
Outlives(c, margin) == installed => Broken \/ expires[gen] > began[c] + margin

\* Transactions and the lock.
LockOK ==
  \A c \in Callers :
    /\ c \in conns => pc[c] \in {"lock", "reread", "call", "store"}
    /\ pc[c] \in {"lock", "reread"} => c \in conns
    /\ lock = c <=> c \in conns /\ pc[c] \in {"reread", "call", "store"}

\* Nobody knows a token that was not issued; a session is missing only after an uninstall.
IssuedOK ==
  /\ session <= gen /\ cache <= gen
  /\ \A c \in Callers : tok[c] <= gen
  /\ installed => session # NoToken

\* How long a request may have lasted, a refresh that lost its transaction longer.
TimeOK(c) ==
  Active(c) =>
    /\ began[c] <= now
    /\ now <= began[c] + Patience + CallTimeout
    /\ (c \in conns \/ pc[c] \in {"read", "load", "begin", "lock", "reread", "served", "post"})
         => now <= began[c] + Patience

\* A refresh acts on a session that is due, and is the only one that will succeed.
CallOK(c) ==
  /\ pc[c] = "call" =>
       /\ tok[c] # NoToken /\ expires[tok[c]] <= now + HookWindow
       /\ installed /\ c \in conns => tok[c] = session
       /\ tok[c] # gen => Outlives(c, Patience + CallTimeout + LibWindow)
  /\ pc[c] = "store" => tok[c] # NoToken
  /\ Storing(c) =>
       /\ tok[c] = gen /\ session # gen
       /\ expires[gen] >= began[c] + Life
       /\ installed => expires[session] <= now + HookWindow
       /\ \A d \in Callers : pc[d] = "call" => tok[d] # gen

\* A job is told the truth about the shop and given a token that outlives its request.
JobOK(c) ==
  c \in Jobs =>
    /\ Orphan(c) => outcome[c] # "none"
    /\ pc[c] = "reauth" /\ outcome[c] = "none" => ~installed \/ lost # {}
    /\ outcome[c] = "reauth" => ~installed \/ lost # {}
    /\ pc[c] \in {"served", "post"} => tok[c] # NoToken /\ expires[tok[c]] > began[c] + Patience

\* A hook that the authority has let go finds a session the library need not refresh.
HookOK(c) ==
  /\ pc[c] \in {"forward", "erase"} => c \in Uninstalls
  /\ c \in Uninstalls /\ pc[c] # "idle" => ~installed
  /\ c \in Hooks /\ pc[c] = "served" => Outlives(c, Patience + LibWindow)
  /\ c \in Hooks /\ pc[c] = "reauth" => Outlives(c, Patience + CallTimeout + LibWindow)

CallerInv(c) == TimeOK(c) /\ CallOK(c) /\ JobOK(c) /\ HookOK(c)

IInv ==
  /\ TypeOK /\ LockOK /\ IssuedOK /\ ChainKept
  /\ \A c \in Callers : CallerInv(c)

-----------------------------------------------------------------------------
(* What a step leaves alone. *)

LEMMA Bounds ==
  /\ MaxTime \in Nat /\ MaxFaults \in Nat /\ MaxAttempts \in Nat /\ FirstExpiry \in Nat
  /\ Life \in Nat /\ MaxTokens \in Nat \ {0}
BY AuthorityAssumption, CustodyAssumption

LEMMA Numbers ==
  ASSUME TypeOK
  PROVE  /\ now \in Nat /\ gen \in Nat /\ gen \in Tokens /\ gen # NoToken
         /\ session \in Nat /\ cache \in Nat
         /\ \A t \in Tokens : t \in Nat /\ t # NoToken /\ expires[t] \in Nat
         /\ \A c \in Callers : began[c] \in Nat /\ tok[c] \in Nat
                               /\ (tok[c] # NoToken => tok[c] \in Tokens)
         /\ session # NoToken => session \in Tokens
         /\ cache # NoToken => cache \in Tokens
BY Bounds DEF TypeOK, AuthorityTypeOK, Tokens, NoToken

LEMMA NumbersNext ==
  ASSUME TypeOK'
  PROVE  now' \in Nat /\ gen' \in Nat /\ gen' \in Tokens
BY Bounds DEF TypeOK, AuthorityTypeOK, Tokens

LEMMA Windows ==
  /\ LibWindow \in Nat /\ HookWindow \in Nat /\ Patience \in Nat /\ CallTimeout \in Nat
  /\ Life \in Nat /\ Margin \in Nat
  /\ HookWindow >= LibWindow + Patience /\ LibWindow >= Patience /\ Margin >= Patience
  /\ Life > LibWindow + Patience + CallTimeout
BY AuthorityAssumption, CustodyAssumption, WindowAssumption

\* Nothing of the caller d changes.
Alike(d) ==
  /\ pc'[d] = pc[d] /\ tok'[d] = tok[d] /\ began'[d] = began[d] /\ outcome'[d] = outcome[d]
  /\ d \in conns' <=> d \in conns

\* Time goes on, Shopify only issues, what is lost or broken stays so.
Onward ==
  /\ now <= now' /\ (installed' => installed) /\ lost \subseteq lost'
  /\ \A t \in Tokens : t <= gen => expires'[t] = expires[t]
  /\ \/ gen' = gen
     \/ gen' = gen + 1 /\ expires'[gen'] = now + Life
  /\ installed' /\ Broken => Broken'

LEMMA OutlivesKept ==
  ASSUME IInv, TypeOK', Onward, NEW c \in Callers, Active(c), began'[c] = began[c],
         NEW margin \in Nat, margin < Life, Outlives(c, margin)
  PROVE  Outlives(c, margin)'
<1>1. TypeOK /\ TimeOK(c)
  BY DEF IInv, CallerInv
<1>2. began[c] \in Nat /\ now \in Nat /\ began[c] <= now /\ gen \in Tokens /\ gen \in Nat
  BY <1>1, Numbers DEF TimeOK
<1> SUFFICES ASSUME installed', ~Broken'
             PROVE  expires'[gen'] > began[c] + margin
  BY DEF Outlives
<1>3. installed /\ ~Broken
  BY DEF Onward
<1>4. expires[gen] > began[c] + margin
  BY <1>3 DEF Outlives
<1>5. CASE gen' = gen
  BY <1>2, <1>4, <1>5 DEF Onward
<1>6. CASE gen' = gen + 1 /\ expires'[gen'] = now + Life
  BY <1>2, <1>6, Windows
<1> QED
  BY <1>5, <1>6 DEF Onward

\* A caller that does nothing keeps its invariant, if no other disturbs its refresh.
LEMMA Frame ==
  ASSUME IInv, TypeOK', Onward, NEW c \in Callers, Alike(c),
         now' = now \/ TimeOK(c)',
         c \in conns /\ pc[c] \in {"call", "store"} /\ installed' => session' = session,
         Storing(c) => /\ gen' = gen /\ session' # gen
                       /\ \A d \in Callers : pc'[d] = "call" => tok'[d] # gen
  PROVE  CallerInv(c)'
<1>1. TypeOK /\ TimeOK(c) /\ CallOK(c) /\ JobOK(c) /\ HookOK(c) /\ tok[c] <= gen /\ session <= gen
      /\ (installed => session # NoToken)
  BY DEF IInv, CallerInv, IssuedOK
<1>2. /\ pc'[c] = pc[c] /\ tok'[c] = tok[c] /\ began'[c] = began[c] /\ outcome'[c] = outcome[c]
      /\ c \in conns' <=> c \in conns
  BY DEF Alike
<1>3. /\ now \in Nat /\ now' \in Nat /\ now <= now' /\ (installed' => installed)
      /\ lost \subseteq lost' /\ gen \in Nat /\ gen \in Tokens /\ tok[c] \in Nat /\ began[c] \in Nat
  BY <1>1, Numbers, NumbersNext DEF Onward
<1>4. \A t \in Tokens : t <= gen => expires'[t] = expires[t] /\ expires[t] \in Nat
  BY <1>1, Numbers DEF Onward
<1>5. TimeOK(c)'
  BY <1>1, <1>2 DEF TimeOK, Active
<1>6. pc[c] = "call" /\ tok[c] # gen' => Outlives(c, Patience + CallTimeout + LibWindow)'
  <2> SUFFICES ASSUME pc[c] = "call", tok[c] # gen'
               PROVE  Outlives(c, Patience + CallTimeout + LibWindow)'
    OBVIOUS
  <2>1. Active(c) /\ began[c] <= now
    BY <1>1 DEF Active, TimeOK
  <2>2. Patience + CallTimeout + LibWindow \in Nat /\ Patience + CallTimeout + LibWindow < Life
    BY Windows
  <2>3. CASE gen' = gen
    <3>1. Outlives(c, Patience + CallTimeout + LibWindow)
      BY <1>1, <2>3 DEF CallOK
    <3> QED
      BY <1>2, <2>1, <2>2, <3>1, OutlivesKept
  <2>4. CASE gen' = gen + 1 /\ expires'[gen'] = now + Life
    BY <1>2, <1>3, <2>1, <2>2, <2>4, Windows DEF Outlives
  <2> QED
    BY <2>3, <2>4 DEF Onward
<1>7. CallOK(c)'
  <2>1. pc'[c] = "call" =>
          /\ tok'[c] # NoToken /\ expires'[tok'[c]] <= now' + HookWindow
          /\ installed' /\ c \in conns' => tok'[c] = session'
    <3> SUFFICES ASSUME pc[c] = "call"
                 PROVE  /\ tok[c] # NoToken /\ expires'[tok[c]] <= now' + HookWindow
                        /\ installed' /\ c \in conns => tok[c] = session'
      BY <1>2
    <3>1. tok[c] # NoToken /\ expires[tok[c]] <= now + HookWindow
          /\ (installed /\ c \in conns => tok[c] = session)
      BY <1>1 DEF CallOK
    <3>2. tok[c] \in Tokens /\ expires'[tok[c]] = expires[tok[c]] /\ expires[tok[c]] \in Nat
      BY <1>1, <1>4, <3>1, Numbers
    <3>3. expires'[tok[c]] <= now' + HookWindow
      BY <1>3, <3>1, <3>2, Windows
    <3> QED
      BY <1>3, <3>1, <3>3
  <2>2. Storing(c)' =>
          /\ tok'[c] = gen' /\ session' # gen'
          /\ expires'[gen'] >= began'[c] + Life
          /\ installed' => expires'[session'] <= now' + HookWindow
          /\ \A d \in Callers : pc'[d] = "call" => tok'[d] # gen'
    <3> SUFFICES ASSUME Storing(c)
                 PROVE  /\ tok[c] = gen' /\ session' # gen'
                        /\ expires'[gen'] >= began[c] + Life
                        /\ installed' => expires'[session'] <= now' + HookWindow
                        /\ \A d \in Callers : pc'[d] = "call" => tok'[d] # gen'
      BY <1>2 DEF Storing
    <3>1. /\ tok[c] = gen /\ expires[gen] >= began[c] + Life
          /\ installed => expires[session] <= now + HookWindow
      BY <1>1 DEF CallOK
    <3>2. gen' = gen /\ expires'[gen] = expires[gen]
      BY <1>3, <1>4
    <3>3. installed' => expires'[session'] <= now' + HookWindow
      <4> SUFFICES ASSUME installed'
                   PROVE  expires'[session'] <= now' + HookWindow
        OBVIOUS
      <4>1. session' = session /\ installed
        BY <1>3 DEF Storing
      <4>2. session \in Tokens /\ expires'[session] = expires[session] /\ expires[session] \in Nat
        BY <1>1, <1>4, <4>1, Numbers
      <4> QED
        BY <1>3, <3>1, <4>1, <4>2, Windows
    <3> QED
      BY <3>1, <3>2, <3>3
  <2>3. pc'[c] = "store" => tok'[c] # NoToken
    BY <1>1, <1>2 DEF CallOK
  <2> QED
    BY <1>2, <1>6, <2>1, <2>2, <2>3 DEF CallOK
<1>8. JobOK(c)'
  <2>1. Orphan(c)' = Orphan(c)
    BY <1>2 DEF Orphan
  <2>2. c \in Jobs /\ pc[c] \in {"served", "post"} =>
          tok[c] # NoToken /\ expires'[tok[c]] > began[c] + Patience
    <3>1. tok[c] # NoToken => tok[c] \in Tokens
      BY <1>1, Numbers
    <3> QED
      BY <1>1, <1>4, <3>1 DEF JobOK
  <2>3. lost # {} => lost' # {}
    BY <1>3
  <2> QED
    BY <1>1, <1>2, <1>3, <2>1, <2>2, <2>3 DEF JobOK
<1>9. HookOK(c)'
  <2>1. ASSUME c \in Hooks, pc[c] = "served"
        PROVE  Outlives(c, Patience + LibWindow)'
    <3>1. Active(c) /\ Outlives(c, Patience + LibWindow)
      BY <1>1, <2>1 DEF HookOK, Active
    <3>2. Patience + LibWindow \in Nat /\ Patience + LibWindow < Life
      BY Windows
    <3> QED
      BY <1>2, <3>1, <3>2, OutlivesKept
  <2>2. ASSUME c \in Hooks, pc[c] = "reauth"
        PROVE  Outlives(c, Patience + CallTimeout + LibWindow)'
    <3>1. Active(c) /\ Outlives(c, Patience + CallTimeout + LibWindow)
      BY <1>1, <2>2 DEF HookOK, Active
    <3>2. Patience + CallTimeout + LibWindow \in Nat /\ Patience + CallTimeout + LibWindow < Life
      BY Windows
    <3> QED
      BY <1>2, <3>1, <3>2, OutlivesKept
  <2> QED
    BY <1>1, <1>2, <1>3, <2>1, <2>2 DEF HookOK
<1> QED
  BY <1>5, <1>7, <1>8, <1>9 DEF CallerInv

LEMMA InvInit == Init => IInv
<1> SUFFICES ASSUME Init
             PROVE  IInv
  OBVIOUS
<1> USE DEF Init, AuthorityInit
<1>1. TypeOK
  <2>1. gen \in Tokens /\ session \in Tokens
    BY Bounds DEF Tokens
  <2>2. expires \in [Tokens -> Nat]
    BY Bounds
  <2>3. pc \in [Callers -> Pc] /\ outcome \in [Callers -> Outcome]
    BY DEF Pc, Outcome
  <2>4. now \in 0..MaxTime /\ faults \in 0..MaxFaults /\ began \in [Callers -> 0..MaxTime]
        /\ attempt \in [Jobs -> 0..MaxAttempts]
    BY Bounds
  <2> QED
    BY <2>1, <2>2, <2>3, <2>4 DEF TypeOK, AuthorityTypeOK
<1>2. LockOK
  BY AuthorityAssumption DEF LockOK
<1>3. IssuedOK /\ ChainKept
  BY DEF IssuedOK, ChainKept, NoToken
<1>4. ASSUME NEW c \in Callers
      PROVE  CallerInv(c)
  <2>1. pc[c] = "idle" /\ outcome[c] = "none"
    OBVIOUS
  <2> QED
    BY <2>1 DEF CallerInv, TimeOK, Active, CallOK, Storing, JobOK, Orphan, HookOK
<1> QED
  BY <1>1, <1>2, <1>3, <1>4 DEF IInv

-----------------------------------------------------------------------------
(* The kinds of step one caller takes. *)

\* Only c moves.
Moved(c, label) ==
  pc' \in [Callers -> Pc] /\ pc'[c] = label /\ \A d \in Callers \ {c} : pc'[d] = pc[d]

LEMMA Goes ==
  ASSUME TypeOK, NEW c \in Callers, NEW label \in Pc, Goto(c, label)
  PROVE  Moved(c, label)
BY DEF TypeOK, AuthorityTypeOK, Goto, Moved

LEMMA Ended ==
  ASSUME TypeOK, NEW c \in Callers, EndTx(c)
  PROVE  /\ conns' \subseteq Callers /\ lock' \in Callers \union {Nobody}
         /\ c \notin conns' /\ \A d \in Callers \ {c} : d \in conns' <=> d \in conns
BY DEF TypeOK, AuthorityTypeOK, EndTx

LEMMA FaultCounted ==
  ASSUME TypeOK, NEW kind, Fault(kind)
  PROVE  faults' \in 0..MaxFaults
BY Bounds DEF TypeOK, AuthorityTypeOK, Fault

\* Two transactions do not hold the lock at once.
LEMMA OneHolder ==
  ASSUME IInv, NEW c \in Callers, NEW d \in Callers, c \in conns, d \in conns,
         pc[c] \in {"reread", "call", "store"}, pc[d] \in {"reread", "call", "store"}
  PROVE  c = d
BY DEF IInv, LockOK

\* A step that neither issues nor stores.
LEMMA Quiet ==
  ASSUME IInv, NEW c \in Callers, TypeOK', LockOK', ChainKept', CallerInv(c)',
         UNCHANGED <<now, installed, gen, expires, session>>, cache' <= gen, tok'[c] <= gen,
         lost \subseteq lost', \A d \in Callers \ {c} : Alike(d), Storing(c)' => Storing(c),
         pc'[c] = "call" => \/ pc[c] = "call" /\ tok'[c] = tok[c]
                            \/ \A d \in Callers \ {c} : ~Storing(d)
  PROVE  IInv'
<1>1. TypeOK /\ IssuedOK
  BY DEF IInv
<1>2. Onward
  <2>1. now <= now'
    BY <1>1, Numbers
  <2>2. \A d \in Callers \ {c} : Storing(d)' => Storing(d)
    BY DEF Storing, Alike
  <2>3. Broken => Broken'
    BY <2>2 DEF Broken
  <2> QED
    BY <2>1, <2>3 DEF Onward
<1>3. IssuedOK'
  BY <1>1 DEF IssuedOK, Alike
<1>4. ASSUME NEW d \in Callers \ {c}
      PROVE  CallerInv(d)'
  <2>1. Storing(d) => /\ session # gen
                      /\ \A e \in Callers : pc[e] = "call" => tok[e] # gen
    BY DEF IInv, CallerInv, CallOK
  <2>2. Storing(d) => \A e \in Callers : pc'[e] = "call" => tok'[e] # gen
    BY <2>1 DEF Alike
  <2> QED
    BY <1>2, <2>1, <2>2, Frame
<1> QED
  BY <1>3, <1>4 DEF IInv

\* A caller outside any transaction stays outside.
LEMMA Outside ==
  ASSUME IInv, NEW c \in Callers, TypeOK', CallerInv(c)', c \notin conns,
         pc'[c] \notin {"lock", "reread", "call"},
         UNCHANGED <<now, installed, gen, expires, session, conns, lock, lost>>,
         cache' <= gen, tok'[c] <= gen, \A d \in Callers \ {c} : Alike(d)
  PROVE  IInv'
<1>1. LockOK'
  <2>1. LockOK
    BY DEF IInv
  <2>2. \A d \in Callers \ {c} : pc'[d] = pc[d]
    BY DEF Alike
  <2> QED
    BY <2>1, <2>2 DEF LockOK
<1>2. \A d \in Callers : Storing(d)' <=> Storing(d)
  BY DEF Storing, Alike
<1>3. ChainKept'
  <2>1. ChainKept
    BY DEF IInv
  <2>2. \A d \in Callers \ {c} : pc'[d] = pc[d] /\ tok'[d] = tok[d]
    BY DEF Alike
  <2> QED
    BY <2>1, <2>2 DEF ChainKept, Storing
<1> QED
  BY <1>1, <1>2, <1>3, Quiet

\* The lock of a transaction that ends is free, and nobody else's.
LEMMA LockReleased ==
  ASSUME IInv, NEW c \in Callers, EndTx(c), pc'[c] \notin {"lock", "reread"},
         \A d \in Callers \ {c} : pc'[d] = pc[d]
  PROVE  LockOK'
<1>1. TypeOK /\ LockOK
  BY DEF IInv
<1>2. c \notin conns' /\ \A d \in Callers \ {c} : d \in conns' <=> d \in conns
  BY <1>1, Ended
<1>3. lock' = IF lock = c THEN Nobody ELSE lock
  BY DEF EndTx
<1>4. Nobody \notin Callers
  BY AuthorityAssumption
<1> QED
  BY <1>1, <1>2, <1>3, <1>4 DEF LockOK

\* A chain is not mended by a transaction that ends without a store.
LEMMA StaysBroken ==
  ASSUME TypeOK, NEW c \in Callers, EndTx(c), session' # gen',
         \A d \in Callers \ {c} : pc'[d] = pc[d], Broken
  PROVE  Broken'
<1>1. c \notin conns' /\ \A d \in Callers \ {c} : d \in conns' <=> d \in conns
  BY Ended
<1> QED
  BY <1>1 DEF Broken, Storing

\* The transaction of c is over, if it had one; a token it was to store is lost.
LEMMA Ends ==
  ASSUME IInv, NEW c \in Callers, TypeOK', CallerInv(c)', EndTx(c),
         pc'[c] \notin {"lock", "reread"}, pc'[c] = "call" => pc[c] = "call",
         UNCHANGED <<now, installed, gen, expires, session, cache>>,
         tok'[c] = tok[c] \/ (tok'[c] = session /\ pc'[c] # "call"),
         lost \subseteq lost', Storing(c) => tok[c] \in lost',
         \A d \in Callers \ {c} : pc'[d] = pc[d] /\ tok'[d] = tok[d] /\ began'[d] = began[d]
                                  /\ outcome'[d] = outcome[d]
  PROVE  IInv'
<1>1. TypeOK /\ LockOK /\ ChainKept /\ IssuedOK
  BY DEF IInv
<1>2. c \notin conns' /\ \A d \in Callers \ {c} : d \in conns' <=> d \in conns
  BY <1>1, Ended
<1>3. \A d \in Callers \ {c} : Alike(d)
  BY <1>2 DEF Alike
<1>4. LockOK'
  BY LockReleased
<1>5. ChainKept'
  <2>1. Storing(c) /\ tok[c] = gen => gen \in lost'
    OBVIOUS
  <2> QED
    BY <1>1, <1>2, <2>1 DEF ChainKept, Storing
<1>6. ~Storing(c)'
  BY <1>2 DEF Storing
<1>7. tok'[c] <= gen /\ cache' <= gen
  BY <1>1 DEF IssuedOK
<1>8. pc'[c] = "call" => pc[c] = "call" /\ tok'[c] = tok[c]
  OBVIOUS
<1> QED
  BY <1>3, <1>4, <1>5, <1>6, <1>7, <1>8, Quiet

\* What a caller outside a transaction has to show.
LEMMA CallerSimple ==
  ASSUME NEW c \in Callers, TimeOK(c), JobOK(c), HookOK(c), pc[c] \notin {"call", "store"}
  PROVE  CallerInv(c)
BY DEF CallerInv, CallOK, Storing

-----------------------------------------------------------------------------
(* Outside the authority's transaction. *)

\* Only c's entry of a table changes.
Only(c, old, new, S) == new \in [Callers -> S] /\ \A d \in Callers \ {c} : new[d] = old[d]

LEMMA OutsideStep ==
  ASSUME IInv, NEW c \in Callers, NEW label \in Pc \ {"lock", "reread", "call", "store"},
         pc[c] \notin {"lock", "reread", "call", "store"}, Moved(c, label),
         Only(c, tok, tok', Tokens \union {NoToken}), tok'[c] <= gen,
         Only(c, outcome, outcome', Outcome), Only(c, began, began', 0..MaxTime),
         cache' \in Tokens \union {NoToken}, cache' <= gen, forced' \subseteq Jobs,
         attempt' \in [Jobs -> 0..MaxAttempts], faults' \in 0..MaxFaults,
         UNCHANGED <<now, installed, gen, expires, session, conns, lock, lost>>,
         TimeOK(c)', JobOK(c)', HookOK(c)'
  PROVE  IInv'
<1>1. TypeOK /\ LockOK
  BY DEF IInv
<1>2. TypeOK'
  BY <1>1 DEF TypeOK, AuthorityTypeOK, Moved, Only
<1>3. c \notin conns
  BY <1>1 DEF LockOK
<1>4. pc'[c] = label
  BY DEF Moved
<1>5. CallerInv(c)'
  BY <1>4 DEF CallerInv, CallOK, Storing
<1>6. \A d \in Callers \ {c} : Alike(d)
  BY DEF Alike, Moved, Only
<1> QED
  BY <1>2, <1>3, <1>4, <1>5, <1>6, Outside

\* The tables a step leaves alone.
LEMMA Untouched ==
  ASSUME TypeOK, NEW c \in Callers
  PROVE  /\ tok' = tok => Only(c, tok, tok', Tokens \union {NoToken})
         /\ outcome' = outcome => Only(c, outcome, outcome', Outcome)
         /\ began' = began => Only(c, began, began', 0..MaxTime)
         /\ cache' = cache => cache' \in Tokens \union {NoToken}
         /\ forced' = forced => forced' \subseteq Jobs
         /\ attempt' = attempt => attempt' \in [Jobs -> 0..MaxAttempts]
         /\ faults' = faults => faults' \in 0..MaxFaults
BY DEF TypeOK, AuthorityTypeOK, Only

LEMMA Finished ==
  ASSUME TypeOK, NEW c \in Callers, NEW result \in Outcome, Finish(c, result)
  PROVE  Moved(c, "done") /\ Only(c, outcome, outcome', Outcome) /\ outcome'[c] = result
BY DEF TypeOK, AuthorityTypeOK, Finish, Moved, Only, Pc

LEMMA Kinds ==
  ASSUME NEW c \in Callers
  PROVE  /\ c \in Jobs => c \notin Hooks /\ c \notin Uninstalls
         /\ c \in Uninstalls => c \in Hooks
         /\ c \in Jobs \/ c \in Hooks
BY AuthorityAssumption, CustodyAssumption DEF Callers

LEMMA StepStart ==
  ASSUME IInv, NEW c \in Callers, Start(c)
  PROVE  IInv'
<1> USE DEF Start, stillVars, shopifyVars, agentVars
<1> DEFINE label == IF c \in Jobs THEN "read" ELSE "load"
<1>1. TypeOK /\ JobOK(c) /\ HookOK(c) /\ tok[c] <= gen /\ cache <= gen /\ pc[c] = "idle"
  BY DEF IInv, CallerInv, IssuedOK
<1>2. Moved(c, label) /\ label \in Pc \ {"lock", "reread", "call", "store"}
  BY <1>1, Goes DEF Pc
<1>3. Only(c, began, began', 0..MaxTime) /\ began'[c] = now
  BY <1>1 DEF TypeOK, AuthorityTypeOK, Only
<1>4. pc'[c] = label
  BY <1>2 DEF Moved
<1>5. TimeOK(c)'
  BY <1>1, <1>3, Numbers, Windows DEF TimeOK
<1>6. JobOK(c)'
  BY <1>1, <1>4 DEF JobOK, Orphan
<1>7. HookOK(c)'
  BY <1>1, <1>4 DEF HookOK
<1> QED
  BY <1>1, <1>2, <1>3, <1>5, <1>6, <1>7, Untouched, OutsideStep

LEMMA StepLoad ==
  ASSUME IInv, NEW c \in Callers, Load(c), UNCHANGED agentVars
  PROVE  IInv'
<1> USE DEF Load, shopifyVars, agentVars
<1> DEFINE label == IF session = NoToken THEN (IF c \in Hooks THEN "served" ELSE "reauth")
                    ELSE IF ~Due(session, Window(c)) THEN "served" ELSE "begin"
<1>1. /\ TypeOK /\ LockOK /\ IssuedOK /\ CallerInv(c) /\ TimeOK(c) /\ JobOK(c) /\ HookOK(c)
      /\ pc[c] = "load"
  BY DEF IInv, CallerInv
<1>2. Moved(c, label) /\ label \in Pc \ {"lock", "reread", "call", "store"}
  BY <1>1, Goes DEF Pc
<1>3. Only(c, tok, tok', Tokens \union {NoToken}) /\ tok'[c] = session
  BY <1>1 DEF TypeOK, AuthorityTypeOK, Only
<1>4. pc'[c] = label
  BY <1>2 DEF Moved
<1>5. began[c] <= now /\ now <= began[c] + Patience /\ began[c] \in Nat /\ now \in Nat
  BY <1>1, Numbers DEF TimeOK, Active
<1>6. TimeOK(c)'
  BY <1>1, <1>4, <1>5 DEF TimeOK, Active
<1>7. c \notin conns
  BY <1>1 DEF LockOK
<1>8. session # NoToken /\ ~Due(session, Window(c)) =>
        session \in Tokens /\ expires[session] \in Nat /\ expires[session] > now + Window(c)
  BY <1>1, Numbers, Windows DEF Due, Window
<1>9. JobOK(c)'
  <2>1. c \in Jobs /\ label = "served" =>
          session # NoToken /\ expires[session] > began[c] + Patience
    BY <1>5, <1>8, Kinds, Windows DEF Window
  <2>2. label = "reauth" => ~installed
    BY <1>1 DEF IssuedOK
  <2> QED
    BY <1>1, <1>3, <1>4, <2>1, <2>2 DEF JobOK, Orphan
<1>10. HookOK(c)'
  <2>1. ASSUME c \in Hooks, label = "served", installed, ~Broken
        PROVE  expires[gen] > began[c] + (Patience + LibWindow)
    <3>1. session # NoToken
      BY <1>1, <2>1 DEF IssuedOK
    <3>2. session \in Tokens /\ expires[session] \in Nat /\ expires[session] > now + HookWindow
      BY <1>8, <2>1, <3>1 DEF Window
    <3>3. ASSUME NEW d \in Callers, Storing(d)
          PROVE  FALSE
      <4>1. expires[session] <= now + HookWindow
        BY <2>1, <3>3 DEF IInv, CallerInv, CallOK
      <4> QED
        BY <1>5, <3>2, <4>1, Windows
    <3>4. session = gen
      BY <2>1, <3>3 DEF Broken
    <3> QED
      BY <1>5, <3>2, <3>4, Windows
  <2>2. c \in Hooks /\ label = "served" => Outlives(c, Patience + LibWindow)'
    <3>1. \A d \in Callers : Storing(d)' <=> Storing(d)
      BY <1>4, <1>7 DEF Storing, Moved, Goto
    <3>2. Broken => Broken'
      BY <3>1 DEF Broken
    <3> QED
      BY <2>1, <3>2 DEF Outlives
  <2>3. ~(c \in Hooks /\ label = "reauth")
    OBVIOUS
  <2> QED
    BY <1>1, <1>4, <2>2, <2>3 DEF HookOK
<1>11. tok'[c] <= gen /\ cache' <= gen
  BY <1>1, <1>3 DEF IssuedOK
<1> QED
  BY <1>1, <1>2, <1>3, <1>6, <1>9, <1>10, <1>11, Untouched, OutsideStep

LEMMA FinishStep ==
  ASSUME IInv, NEW c \in Callers, NEW result \in Outcome, Finish(c, result),
         pc[c] \notin {"idle", "lock", "reread", "call", "store"},
         result = "reauth" => ~installed \/ lost # {},
         Only(c, tok, tok', Tokens \union {NoToken}), tok'[c] <= gen,
         Only(c, began, began', 0..MaxTime),
         cache' \in Tokens \union {NoToken}, cache' <= gen, forced' \subseteq Jobs,
         attempt' \in [Jobs -> 0..MaxAttempts], faults' \in 0..MaxFaults,
         UNCHANGED <<now, installed, gen, expires, session, conns, lock, lost>>
  PROVE  IInv'
<1>1. TypeOK /\ HookOK(c)
  BY DEF IInv, CallerInv
<1>2. Moved(c, "done") /\ Only(c, outcome, outcome', Outcome) /\ outcome'[c] = result
  BY <1>1, Finished
<1>3. pc'[c] = "done"
  BY <1>2 DEF Moved
<1>4. TimeOK(c)' /\ JobOK(c)' /\ HookOK(c)'
  BY <1>1, <1>2, <1>3 DEF TimeOK, Active, JobOK, Orphan, HookOK
<1>5. "done" \in Pc \ {"lock", "reread", "call", "store"}
  BY DEF Pc
<1> QED
  BY <1>2, <1>4, <1>5, OutsideStep

LEMMA StepMaxWait ==
  ASSUME IInv, NEW c \in Callers, MaxWait(c), UNCHANGED agentVars
  PROVE  IInv'
<1> USE DEF MaxWait, shopifyVars, agentVars
<1>1. TypeOK /\ IssuedOK /\ TimeOK(c) /\ JobOK(c) /\ HookOK(c) /\ pc[c] = "begin"
  BY DEF IInv, CallerInv
<1>2. Moved(c, "transient") /\ "transient" \in Pc \ {"lock", "reread", "call", "store"}
  BY <1>1, Goes DEF Pc
<1>3. pc'[c] = "transient"
  BY <1>2 DEF Moved
<1>4. c \notin conns
  BY <1>1 DEF IInv, LockOK
<1>5. TimeOK(c)' /\ JobOK(c)' /\ HookOK(c)'
  BY <1>1, <1>3, <1>4 DEF TimeOK, Active, JobOK, Orphan, HookOK
<1>6. tok'[c] <= gen /\ cache' <= gen /\ faults' \in 0..MaxFaults
  BY <1>1, FaultCounted DEF IssuedOK
<1> QED
  BY <1>1, <1>2, <1>5, <1>6, Untouched, OutsideStep

LEMMA StepReadCache ==
  ASSUME IInv, NEW j \in Jobs, ReadCache(j)
  PROVE  IInv'
<1> USE DEF ReadCache, stillVars, shopifyVars, agentVars
<1>1. j \in Callers /\ j \notin Hooks /\ j \notin Uninstalls
  BY Kinds DEF Callers
<1>2. TypeOK /\ IssuedOK /\ TimeOK(j) /\ JobOK(j) /\ pc[j] = "read"
  BY <1>1 DEF IInv, CallerInv
<1>3. began[j] <= now /\ now <= began[j] + Patience /\ began[j] \in Nat /\ now \in Nat
  BY <1>1, <1>2, Numbers DEF TimeOK, Active
<1>4. PICK label \in {"post", "load"} : Goto(j, label)
  OBVIOUS
<1>5. Moved(j, label) /\ label \in Pc \ {"lock", "reread", "call", "store"}
  BY <1>1, <1>2, <1>4, Goes DEF Pc
<1>6. pc'[j] = label
  BY <1>5 DEF Moved
<1>7. Only(j, tok, tok', Tokens \union {NoToken}) /\ tok'[j] <= gen
  BY <1>1, <1>2 DEF TypeOK, AuthorityTypeOK, Only, IssuedOK
<1>8. TimeOK(j)'
  BY <1>3, <1>6, Windows DEF TimeOK
<1>9. label = "post" => tok'[j] # NoToken /\ expires[tok'[j]] > began[j] + Patience
  <2> SUFFICES ASSUME label = "post"
               PROVE  tok'[j] # NoToken /\ expires[tok'[j]] > began[j] + Patience
    OBVIOUS
  <2>1. CacheLive /\ tok'[j] = cache
    BY <1>1, <1>2, <1>6 DEF TypeOK, AuthorityTypeOK, Goto
  <2>2. cache \in Tokens /\ expires[cache] \in Nat /\ cache # NoToken
    BY <1>2, <2>1, Numbers DEF CacheLive
  <2>3. expires[cache] > now + Margin
    BY <1>3, <2>1, <2>2, Windows DEF CacheLive, Due
  <2> QED
    BY <1>3, <2>1, <2>2, <2>3, Windows
<1>10. JobOK(j)' /\ HookOK(j)'
  BY <1>1, <1>2, <1>6, <1>9 DEF JobOK, Orphan, HookOK
<1>11. cache' <= gen
  BY <1>2 DEF IssuedOK
<1> QED
  BY <1>1, <1>2, <1>5, <1>7, <1>8, <1>10, <1>11, Untouched, OutsideStep

LEMMA StepCacheToken ==
  ASSUME IInv, NEW j \in Jobs, CacheToken(j)
  PROVE  IInv'
<1> USE DEF CacheToken, stillVars, shopifyVars, agentVars
<1>1. j \in Callers /\ j \notin Hooks /\ j \notin Uninstalls
  BY Kinds DEF Callers
<1>2. TypeOK /\ IssuedOK /\ TimeOK(j) /\ JobOK(j) /\ pc[j] = "served"
  BY <1>1 DEF IInv, CallerInv
<1>3. Moved(j, "post") /\ "post" \in Pc \ {"lock", "reread", "call", "store"}
  BY <1>1, <1>2, Goes DEF Pc
<1>4. pc'[j] = "post"
  BY <1>3 DEF Moved
<1>5. cache' \in Tokens \union {NoToken} /\ cache' <= gen /\ tok'[j] <= gen
  BY <1>1, <1>2 DEF TypeOK, AuthorityTypeOK, IssuedOK
<1>6. TimeOK(j)'
  BY <1>2, <1>4 DEF TimeOK, Active
<1>7. JobOK(j)' /\ HookOK(j)'
  BY <1>1, <1>2, <1>4 DEF JobOK, Orphan, HookOK
<1> QED
  BY <1>1, <1>2, <1>3, <1>5, <1>6, <1>7, Untouched, OutsideStep

LEMMA StepFetchFails ==
  ASSUME IInv, NEW j \in Jobs, FetchFails(j)
  PROVE  IInv'
<1> USE DEF FetchFails, stillVars, shopifyVars, agentVars
<1>1. j \in Callers
  BY DEF Callers
<1>2. TypeOK /\ IssuedOK /\ JobOK(j) /\ pc[j] \in {"reauth", "transient"}
  BY <1>1 DEF IInv, CallerInv
<1>3. FetchOutcome(j) \in Outcome /\ (FetchOutcome(j) = "reauth" => ~installed \/ lost # {})
  BY <1>2 DEF FetchOutcome, Outcome, JobOK
<1>4. tok'[j] <= gen /\ cache' <= gen
  BY <1>1, <1>2 DEF IssuedOK
<1> QED
  BY <1>1, <1>2, <1>3, <1>4, Untouched, FinishStep

LEMMA StepAnswerUnread ==
  ASSUME IInv, NEW j \in Jobs, AnswerUnread(j)
  PROVE  IInv'
<1> USE DEF AnswerUnread, stillVars, shopifyVars, agentVars
<1>1. j \in Callers /\ j \notin Hooks /\ j \notin Uninstalls
  BY Kinds DEF Callers
<1>2. TypeOK /\ IssuedOK /\ JobOK(j) /\ pc[j] \in {"served", "reauth", "transient"}
  BY <1>1 DEF IInv, CallerInv
<1>3. Moved(j, "done") /\ "done" \in Pc \ {"lock", "reread", "call", "store"}
  BY <1>1, <1>2, Goes DEF Pc
<1>4. pc'[j] = "done"
  BY <1>3 DEF Moved
<1>5. TimeOK(j)' /\ JobOK(j)' /\ HookOK(j)'
  BY <1>1, <1>2, <1>4 DEF TimeOK, Active, JobOK, Orphan, HookOK
<1>6. tok'[j] <= gen /\ cache' <= gen
  BY <1>1, <1>2 DEF IssuedOK
<1> QED
  BY <1>1, <1>2, <1>3, <1>5, <1>6, Untouched, OutsideStep

LEMMA StepPost ==
  ASSUME IInv, NEW j \in Jobs, Post(j)
  PROVE  IInv'
<1> USE DEF Post, stillVars, shopifyVars, agentVars
<1>1. j \in Callers /\ j \notin Hooks /\ j \notin Uninstalls
  BY Kinds DEF Callers
<1>2. TypeOK /\ IssuedOK /\ TimeOK(j) /\ JobOK(j) /\ pc[j] = "post"
  BY <1>1 DEF IInv, CallerInv
<1>3. tok'[j] <= gen /\ cache' <= gen /\ forced' \subseteq Jobs
  BY <1>1, <1>2 DEF IssuedOK, TypeOK
<1>4. CASE Goto(j, "load") /\ UNCHANGED outcome
  <2>1. Moved(j, "load") /\ "load" \in Pc \ {"lock", "reread", "call", "store"}
    BY <1>1, <1>2, <1>4, Goes DEF Pc
  <2>2. pc'[j] = "load"
    BY <2>1 DEF Moved
  <2>3. TimeOK(j)' /\ JobOK(j)' /\ HookOK(j)'
    BY <1>1, <1>2, <1>4, <2>2 DEF TimeOK, Active, JobOK, Orphan, HookOK
  <2> QED
    BY <1>1, <1>2, <1>3, <1>4, <2>1, <2>3, Untouched, OutsideStep
<1>5. CASE Finish(j, "ok") \/ Finish(j, "rejected")
  <2>1. PICK result \in {"ok", "rejected"} : Finish(j, result)
    BY <1>5
  <2>2. result \in Outcome /\ result # "reauth"
    BY DEF Outcome
  <2> QED
    BY <1>1, <1>2, <1>3, <2>1, <2>2, Untouched, FinishStep
<1> QED
  BY <1>4, <1>5

LEMMA StepThrottled ==
  ASSUME IInv, NEW j \in Jobs, Throttled(j)
  PROVE  IInv'
<1> USE DEF Throttled, stillVars, shopifyVars, agentVars
<1>1. j \in Callers /\ j \notin Hooks /\ j \notin Uninstalls
  BY Kinds DEF Callers
<1>2. TypeOK /\ IssuedOK /\ TimeOK(j) /\ JobOK(j) /\ pc[j] = "post"
  BY <1>1 DEF IInv, CallerInv
<1>3. tok'[j] <= gen /\ cache' <= gen /\ forced' \subseteq Jobs /\ faults' \in 0..MaxFaults
  BY <1>1, <1>2, FaultCounted DEF IssuedOK, TypeOK
<1>4. attempt' \in [Jobs -> 0..MaxAttempts]
  <2>1. attempt[j] \in 0..MaxAttempts /\ attempt \in [Jobs -> 0..MaxAttempts]
    BY <1>2 DEF TypeOK
  <2>2. attempt[j] + 1 \in 0..MaxAttempts
    BY <2>1, Bounds
  <2> QED
    BY <2>1, <2>2
<1>5. CASE Goto(j, "read") /\ began' = [began EXCEPT ![j] = now] /\ UNCHANGED outcome
  <2>1. Moved(j, "read") /\ "read" \in Pc \ {"lock", "reread", "call", "store"}
    BY <1>1, <1>2, <1>5, Goes DEF Pc
  <2>2. pc'[j] = "read"
    BY <2>1 DEF Moved
  <2>3. Only(j, began, began', 0..MaxTime) /\ began'[j] = now
    BY <1>1, <1>2, <1>5 DEF TypeOK, AuthorityTypeOK, Only
  <2>4. TimeOK(j)'
    BY <1>2, <2>3, Numbers, Windows DEF TimeOK
  <2>5. JobOK(j)' /\ HookOK(j)'
    BY <1>1, <1>2, <1>5, <2>2 DEF JobOK, Orphan, HookOK
  <2> QED
    BY <1>1, <1>2, <1>3, <1>4, <1>5, <2>1, <2>3, <2>4, <2>5, Untouched, OutsideStep
<1>6. CASE Finish(j, "throttled") /\ UNCHANGED began
  <2>1. "throttled" \in Outcome
    BY DEF Outcome
  <2> QED
    BY <1>1, <1>2, <1>3, <1>4, <1>6, <2>1, Untouched, FinishStep
<1> QED
  BY <1>5, <1>6

\* A hook's error, or a success without a further step.
LEMMA StepHookEnds ==
  ASSUME IInv, NEW h \in Hooks, NEW result \in {"ok", "error"}, Finish(h, result),
         pc[h] \in {"served", "reauth", "transient", "forward"},
         Only(h, tok, tok', Tokens \union {NoToken}), tok'[h] <= gen, faults' \in 0..MaxFaults,
         UNCHANGED <<now, installed, gen, expires, session, lock, conns, began, lost, agentVars>>
  PROVE  IInv'
<1>1. h \in Callers /\ TypeOK /\ IssuedOK
  BY DEF Callers, IInv
<1>2. result \in Outcome /\ result # "reauth" /\ cache' <= gen
  BY <1>1 DEF Outcome, IssuedOK, agentVars
<1> QED
  BY <1>1, <1>2, Untouched, FinishStep DEF agentVars

LEMMA StepHookUnavailable ==
  ASSUME IInv, NEW h \in Hooks, HookUnavailable(h) \/ AuthenticateFails(h) \/ ForwardFails(h)
  PROVE  IInv'
<1> USE DEF HookUnavailable, AuthenticateFails, ForwardFails, stillVars, shopifyVars
<1>1. h \in Callers /\ TypeOK /\ IssuedOK
  BY DEF Callers, IInv
<1>2. tok'[h] <= gen
  BY <1>1 DEF IssuedOK
<1>3. faults' \in 0..MaxFaults
  BY <1>1, FaultCounted, Untouched
<1> QED
  BY <1>1, <1>2, <1>3, Untouched, StepHookEnds

\* The library has nothing to refresh: its window is open on no session that a hook brings it.
LEMMA LibraryIdle ==
  ASSUME IInv, NEW h \in Hooks, pc[h] \in {"served", "reauth"},
         Due(session, LibWindow), Spendable(session)
  PROVE  FALSE
<1>1. h \in Callers /\ TypeOK
  BY DEF Callers, IInv
<1>2. TimeOK(h) /\ HookOK(h)
  BY <1>1 DEF IInv, CallerInv
<1>3. installed /\ session = gen /\ expires[gen] <= now + LibWindow /\ ~Broken
  BY DEF Due, Spendable, Broken
<1>4. began[h] \in Nat /\ now \in Nat /\ expires[gen] \in Nat
  BY <1>1, Numbers
<1>5. CASE pc[h] = "served"
  BY <1>2, <1>3, <1>4, <1>5, Windows DEF TimeOK, Active, HookOK, Outlives
<1>6. CASE pc[h] = "reauth"
  BY <1>2, <1>3, <1>4, <1>6, Windows DEF TimeOK, Active, HookOK, Outlives
<1> QED
  BY <1>5, <1>6

LEMMA StepAuthenticate ==
  ASSUME IInv, NEW h \in Hooks, Authenticate(h)
  PROVE  IInv'
<1> USE DEF Authenticate
<1>1. h \in Callers /\ h \notin Jobs
  BY Kinds DEF Callers
<1>2. TypeOK /\ IssuedOK /\ TimeOK(h) /\ HookOK(h) /\ pc[h] \in {"served", "reauth"}
  BY <1>1 DEF IInv, CallerInv
<1>3. tok' = [tok EXCEPT ![h] = session] /\ UNCHANGED <<gen, expires, session>>
  BY LibraryIdle
<1>4. Only(h, tok, tok', Tokens \union {NoToken}) /\ tok'[h] <= gen /\ cache' <= gen
  BY <1>1, <1>2, <1>3 DEF TypeOK, AuthorityTypeOK, Only, IssuedOK, agentVars
<1>5. CASE h \in Uninstalls
  <2>1. Moved(h, "forward") /\ "forward" \in Pc \ {"lock", "reread", "call", "store"}
    BY <1>1, <1>2, <1>5, Goes DEF Pc
  <2>2. pc'[h] = "forward"
    BY <2>1 DEF Moved
  <2>3. h \notin conns
    BY <1>1, <1>2 DEF IInv, LockOK
  <2>4. TimeOK(h)' /\ JobOK(h)' /\ HookOK(h)'
    BY <1>1, <1>2, <1>5, <2>2, <2>3 DEF TimeOK, Active, JobOK, HookOK
  <2> QED
    BY <1>1, <1>2, <1>3, <1>4, <1>5, <2>1, <2>4, Untouched, OutsideStep DEF agentVars
<1>6. CASE h \notin Uninstalls
  BY <1>1, <1>2, <1>3, <1>4, <1>6, Untouched, StepHookEnds
<1> QED
  BY <1>5, <1>6

LEMMA StepForward ==
  ASSUME IInv, NEW h \in Hooks, Forward(h)
  PROVE  IInv'
<1> USE DEF Forward, stillVars, shopifyVars
<1>1. h \in Callers /\ h \notin Jobs
  BY Kinds DEF Callers
<1>2. TypeOK /\ LockOK /\ IssuedOK /\ TimeOK(h) /\ HookOK(h) /\ pc[h] = "forward"
  BY <1>1 DEF IInv, CallerInv
<1>3. Moved(h, "erase") /\ "erase" \in Pc \ {"lock", "reread", "call", "store"}
  BY <1>1, <1>2, Goes DEF Pc
<1>4. pc'[h] = "erase" /\ h \notin conns
  BY <1>1, <1>2, <1>3 DEF Moved, LockOK
<1>5. TimeOK(h)' /\ JobOK(h)' /\ HookOK(h)'
  BY <1>1, <1>2, <1>4 DEF TimeOK, Active, JobOK, HookOK
<1>6. tok'[h] <= gen /\ cache' <= gen /\ cache' \in Tokens \union {NoToken}
  BY <1>1, <1>2, Numbers DEF IssuedOK, NoToken
<1> QED
  BY <1>1, <1>2, <1>3, <1>5, <1>6, Untouched, OutsideStep


-----------------------------------------------------------------------------
(* Inside the authority. *)

\* A caller is told to try again; a token it was to store is lost.
LEMMA Transient ==
  ASSUME IInv, NEW c \in Callers, pc[c] \notin {"idle", "done"}, EndTx(c), Moved(c, "transient"),
         Only(c, outcome, outcome', Outcome), outcome'[c] \in {outcome[c], "transient"},
         faults' \in 0..MaxFaults, lost \subseteq lost', lost' \subseteq Tokens,
         Storing(c) => tok[c] \in lost',
         UNCHANGED <<now, installed, gen, expires, session, tok, began, cache, forced, attempt>>
  PROVE  IInv'
<1>1. TypeOK /\ TimeOK(c) /\ JobOK(c) /\ HookOK(c)
  BY DEF IInv, CallerInv
<1>2. /\ conns' \subseteq Callers /\ lock' \in Callers \union {Nobody} /\ c \notin conns'
      /\ pc' \in [Callers -> Pc] /\ pc'[c] = "transient"
      /\ \A d \in Callers \ {c} : pc'[d] = pc[d]
      /\ \A d \in Callers \ {c} : outcome'[d] = outcome[d]
  BY <1>1, Ended DEF Moved, Only
<1>3. TypeOK'
  BY <1>1, <1>2 DEF TypeOK, AuthorityTypeOK, Only
<1>4. TimeOK(c)'
  BY <1>1, <1>2 DEF TimeOK, Active
<1>5. JobOK(c)' /\ HookOK(c)'
  BY <1>1, <1>2 DEF JobOK, Orphan, HookOK
<1>6. CallerInv(c)'
  BY <1>2, <1>4, <1>5 DEF CallerInv, CallOK, Storing
<1> QED
  BY <1>2, <1>3, <1>6, Ends

LEMMA StepGiveUp ==
  ASSUME IInv, NEW j \in Jobs, GiveUp(j)
  PROVE  IInv'
<1> USE DEF GiveUp, shopifyVars, agentVars
<1>1. j \in Callers /\ j \notin Hooks /\ j \notin Uninstalls
  BY Kinds DEF Callers
<1>2. /\ TypeOK /\ LockOK /\ IssuedOK /\ ChainKept /\ TimeOK(j) /\ CallOK(j)
      /\ pc[j] \in {"load", "begin", "lock", "reread", "call", "store"}
  BY <1>1 DEF IInv, CallerInv
<1>3. /\ outcome' \in [Callers -> Outcome] /\ outcome'[j] = "transient"
      /\ \A d \in Callers \ {j} : outcome'[d] = outcome[d]
      /\ faults' \in 0..MaxFaults
  BY <1>1, <1>2, FaultCounted DEF TypeOK, AuthorityTypeOK, Outcome
<1>4. TypeOK'
  BY <1>2, <1>3 DEF TypeOK, AuthorityTypeOK
<1>5. LockOK' /\ ChainKept'
  BY <1>2 DEF LockOK, ChainKept, Storing
<1>6. \A d \in Callers : Storing(d)' <=> Storing(d)
  BY DEF Storing
<1>7. Broken' <=> Broken
  BY <1>6 DEF Broken
<1>8. TimeOK(j)' /\ CallOK(j)'
  <2>1. Outlives(j, Patience + CallTimeout + LibWindow)' <=>
          Outlives(j, Patience + CallTimeout + LibWindow)
    BY <1>7 DEF Outlives
  <2>2. TimeOK(j)'
    BY <1>2 DEF TimeOK, Active
  <2>3. UNCHANGED <<now, installed, gen, expires, session, conns, pc, tok, began>>
    OBVIOUS
  <2>4. Storing(j)' => Storing(j)
    BY <1>1, <1>6
  <2>5. CallOK(j) /\ UNCHANGED <<now, installed, gen, expires, session, conns, pc, tok, began>>
        => CallOK(j)'
    <3> HIDE DEF GiveUp, shopifyVars, agentVars
    <3> QED
      BY <2>1, <2>4 DEF CallOK
  <2> QED
    BY <1>2, <2>2, <2>3, <2>5
<1>9. JobOK(j)' /\ HookOK(j)'
  BY <1>1, <1>2, <1>3 DEF JobOK, Orphan, HookOK
<1>10. CallerInv(j)' /\ tok'[j] <= gen /\ cache' <= gen /\ \A d \in Callers \ {j} : Alike(d)
  BY <1>1, <1>2, <1>3, <1>8, <1>9 DEF CallerInv, IssuedOK, Alike
<1> QED
  BY <1>1, <1>4, <1>5, <1>6, <1>10, Quiet

LEMMA StepBegin ==
  ASSUME IInv, NEW c \in Callers, Begin(c), UNCHANGED agentVars
  PROVE  IInv'
<1> USE DEF Begin, shopifyVars, agentVars
<1>1. /\ TypeOK /\ LockOK /\ IssuedOK /\ ChainKept /\ TimeOK(c) /\ JobOK(c) /\ HookOK(c)
      /\ pc[c] = "begin"
  BY DEF IInv, CallerInv
<1>2. /\ pc' \in [Callers -> Pc] /\ pc'[c] = "lock" /\ \A d \in Callers \ {c} : pc'[d] = pc[d]
      /\ c \in conns' /\ \A d \in Callers \ {c} : d \in conns' <=> d \in conns
  BY <1>1 DEF TypeOK, AuthorityTypeOK, Goto, Pc
<1>3. TypeOK'
  BY <1>1, <1>2 DEF TypeOK, AuthorityTypeOK
<1>4. LockOK' /\ ChainKept'
  BY <1>1, <1>2 DEF LockOK, ChainKept, Storing
<1>5. TimeOK(c)'
  BY <1>1, <1>2 DEF TimeOK, Active
<1>6. JobOK(c)' /\ HookOK(c)'
  BY <1>1, <1>2 DEF JobOK, Orphan, HookOK
<1>7. CallerInv(c)' /\ ~Storing(c)'
  BY <1>2, <1>5, <1>6 DEF CallerInv, CallOK, Storing
<1>8. tok'[c] <= gen /\ cache' <= gen /\ \A d \in Callers \ {c} : Alike(d)
  BY <1>1, <1>2 DEF IssuedOK, Alike
<1> QED
  BY <1>2, <1>3, <1>4, <1>7, <1>8, Quiet

LEMMA StepTakeLock ==
  ASSUME IInv, NEW c \in Callers, TakeLock(c), UNCHANGED agentVars
  PROVE  IInv'
<1> USE DEF TakeLock, shopifyVars, agentVars
<1>1. /\ TypeOK /\ LockOK /\ IssuedOK /\ ChainKept /\ TimeOK(c) /\ JobOK(c) /\ HookOK(c)
      /\ pc[c] = "lock" /\ c \in conns /\ Nobody \notin Callers
  BY AuthorityAssumption DEF IInv, CallerInv, LockOK
<1>2. pc' \in [Callers -> Pc] /\ pc'[c] = "reread" /\ \A d \in Callers \ {c} : pc'[d] = pc[d]
  BY <1>1 DEF TypeOK, AuthorityTypeOK, Goto, Pc
<1>3. TypeOK'
  BY <1>1, <1>2 DEF TypeOK, AuthorityTypeOK
<1>4. LockOK' /\ ChainKept'
  BY <1>1, <1>2 DEF LockOK, ChainKept, Storing
<1>5. TimeOK(c)'
  BY <1>1, <1>2 DEF TimeOK, Active
<1>6. JobOK(c)' /\ HookOK(c)'
  BY <1>1, <1>2 DEF JobOK, Orphan, HookOK
<1>7. CallerInv(c)' /\ ~Storing(c)'
  BY <1>2, <1>5, <1>6 DEF CallerInv, CallOK, Storing
<1>8. tok'[c] <= gen /\ cache' <= gen /\ \A d \in Callers \ {c} : Alike(d)
  BY <1>1, <1>2 DEF IssuedOK, Alike
<1> QED
  BY <1>2, <1>3, <1>4, <1>7, <1>8, Quiet

LEMMA StepReread ==
  ASSUME IInv, NEW c \in Callers, Reread(c), UNCHANGED agentVars
  PROVE  IInv'
<1> USE DEF Reread, shopifyVars, agentVars
<1>1. /\ TypeOK /\ LockOK /\ IssuedOK /\ ChainKept /\ TimeOK(c) /\ JobOK(c) /\ HookOK(c)
      /\ pc[c] = "reread" /\ c \in conns /\ lock = c
  BY DEF IInv, CallerInv, LockOK
<1>2. \A d \in Callers : ~Storing(d)
  BY <1>1, OneHolder DEF Storing
<1>3. /\ began[c] <= now /\ now <= began[c] + Patience /\ began[c] \in Nat /\ now \in Nat
      /\ gen \in Nat
      /\ session # NoToken => session \in Tokens /\ expires[session] \in Nat
  BY <1>1, Numbers DEF TimeOK, Active
<1>4. Window(c) \in {LibWindow, HookWindow} /\ (c \in Hooks => Window(c) = HookWindow)
  BY DEF Window
<1>5. /\ tok' \in [Callers -> Tokens \union {NoToken}] /\ tok'[c] = session
      /\ \A d \in Callers \ {c} : tok'[d] = tok[d]
      /\ tok'[c] <= gen /\ cache' <= gen
  BY <1>1 DEF TypeOK, AuthorityTypeOK, IssuedOK
<1>6. CASE StillDue(c) /\ Goto(c, "call") /\ UNCHANGED <<conns, lock>>
  <2>1. /\ pc' \in [Callers -> Pc] /\ pc'[c] = "call" /\ \A d \in Callers \ {c} : pc'[d] = pc[d]
        /\ conns' = conns /\ lock' = lock
    BY <1>1, <1>6 DEF TypeOK, AuthorityTypeOK, Goto, Pc
  <2>2. TypeOK'
    BY <1>1, <1>5, <2>1 DEF TypeOK, AuthorityTypeOK
  <2>3. LockOK' /\ ChainKept'
    BY <1>1, <1>2, <2>1 DEF LockOK, ChainKept, Storing
  <2>4. \A d \in Callers : ~Storing(d)'
    BY <1>2, <2>1 DEF Storing
  <2>5. session # NoToken /\ expires[session] <= now + HookWindow
    BY <1>3, <1>4, <1>6, Windows DEF StillDue, Due
  <2>6. session # gen => Outlives(c, Patience + CallTimeout + LibWindow)'
    BY <2>4 DEF Outlives, Broken
  <2>7. TimeOK(c)'
    BY <1>1, <2>1 DEF TimeOK, Active
  <2>8. CallOK(c)'
    BY <1>5, <2>4, <2>5, <2>6 DEF CallOK
  <2>9. JobOK(c)' /\ HookOK(c)'
    BY <1>1, <2>1 DEF JobOK, Orphan, HookOK
  <2>10. CallerInv(c)' /\ \A d \in Callers \ {c} : Alike(d)
    BY <1>5, <2>1, <2>7, <2>8, <2>9 DEF CallerInv, Alike
  <2> QED
    BY <1>2, <1>5, <2>2, <2>3, <2>4, <2>10, Quiet
<1>7. ASSUME NEW label \in {"served", "reauth"}, Goto(c, label), EndTx(c),
             label = "served" => session # NoToken /\ ~StillDue(c),
             label = "reauth" => session = NoToken
      PROVE  IInv'
  <2>1. /\ pc' \in [Callers -> Pc] /\ pc'[c] = label /\ \A d \in Callers \ {c} : pc'[d] = pc[d]
        /\ conns' \subseteq Callers /\ lock' \in Callers \union {Nobody} /\ c \notin conns'
    BY <1>1, <1>7, Ended DEF TypeOK, AuthorityTypeOK, Goto, Pc
  <2>2. TypeOK'
    BY <1>1, <1>5, <2>1 DEF TypeOK, AuthorityTypeOK
  <2>3. TimeOK(c)'
    BY <1>1, <2>1 DEF TimeOK, Active
  <2>4. label = "served" => expires[session] > now + Window(c)
    BY <1>3, <1>4, <1>7, Windows DEF StillDue, Due
  <2>5. JobOK(c)'
    <3>1. label = "served" => session # NoToken /\ expires[session] > began[c] + Patience
      BY <1>3, <1>4, <1>7, <2>4, Windows
    <3>2. label = "reauth" => ~installed
      BY <1>1, <1>7 DEF IssuedOK
    <3> QED
      BY <1>1, <1>5, <2>1, <3>1, <3>2 DEF JobOK, Orphan
  <2>6. HookOK(c)'
    <3>1. ASSUME c \in Hooks, label = "served"
          PROVE  Outlives(c, Patience + LibWindow)'
      <4>1. CASE session = gen
        BY <1>3, <1>4, <1>7, <2>4, <3>1, <4>1, Windows DEF Outlives
      <4>2. CASE session # gen
        BY <1>1, <1>2, <1>7, <2>1, <4>2, StaysBroken DEF Outlives, Broken
      <4> QED
        BY <4>1, <4>2
    <3>2. label = "reauth" => Outlives(c, Patience + CallTimeout + LibWindow)'
      BY <1>1, <1>7 DEF IssuedOK, Outlives
    <3> QED
      BY <1>1, <2>1, <3>1, <3>2 DEF HookOK
  <2>7. CallerInv(c)'
    BY <2>1, <2>3, <2>5, <2>6 DEF CallerInv, CallOK, Storing
  <2> QED
    BY <1>1, <1>2, <1>5, <1>7, <2>1, <2>2, <2>7, Ends
<1> QED
  BY <1>6, <1>7

\* What a step that issues a token has in common: nobody else was about to store one.
LEMMA Issued ==
  ASSUME IInv, NEW c \in Callers, pc[c] = "call", Spendable(tok[c]), Issue,
         session' = session, now' = now, installed' = installed, lost \subseteq lost',
         \A d \in Callers \ {c} : Alike(d)
  PROVE  /\ gen' = gen + 1 /\ gen' \in Tokens /\ gen' \notin {NoToken, gen, session}
         /\ expires' \in [Tokens -> Nat] /\ expires'[gen'] = now + Life
         /\ \A t \in Tokens : t # gen' => expires'[t] = expires[t]
         /\ TypeOK' /\ ~Storing(c)' => Onward
         /\ TypeOK' /\ Storing(c)' /\ session = gen => Onward
         /\ TypeOK' /\ (Storing(c)' => session = gen) => \A d \in Callers \ {c} : CallerInv(d)'
<1>1. TypeOK /\ tok[c] = gen /\ session <= gen /\ CallOK(c)
  BY DEF IInv, CallerInv, IssuedOK, Spendable
<1>2. gen \in Tokens /\ gen \in Nat /\ session \in Nat /\ now \in Nat /\ gen' = gen + 1
      /\ gen < MaxTokens
  BY <1>1, Numbers, Bounds DEF Issue, Tokens
<1>3. gen' \in Tokens /\ gen' \notin {NoToken, gen, session}
  BY <1>1, <1>2, Bounds DEF Tokens, NoToken
<1>4. now + Life \in Nat
  BY <1>2, Bounds
<1>5. /\ expires' \in [Tokens -> Nat] /\ expires'[gen'] = now + Life
      /\ \A t \in Tokens : t # gen' => expires'[t] = expires[t]
  BY <1>1, <1>2, <1>3, <1>4 DEF Issue, TypeOK, AuthorityTypeOK
<1>6. \A d \in Callers \ {c} : ~Storing(d) /\ ~Storing(d)'
  <2>1. \A d \in Callers : ~Storing(d)
    BY <1>1 DEF IInv, CallerInv, CallOK
  <2> QED
    BY <2>1 DEF Alike, Storing
<1>7. ~Storing(c)' => (Broken => Broken')
  BY <1>3, <1>6 DEF Broken
<1>8. session = gen => ~Broken
  BY DEF Broken
<1>9. \A t \in Tokens : t <= gen => expires'[t] = expires[t]
  BY <1>2, <1>5
<1>10. ~Storing(c)' \/ session = gen => Onward
  BY <1>2, <1>5, <1>7, <1>8, <1>9 DEF Onward
<1>11. ASSUME TypeOK', Storing(c)' => session = gen, NEW d \in Callers \ {c}
       PROVE  CallerInv(d)'
  BY <1>6, <1>10, <1>11, Frame
<1> QED
  BY <1>2, <1>3, <1>5, <1>10, <1>11

LEMMA StepSpend ==
  ASSUME IInv, NEW c \in Callers, Spend(c), UNCHANGED agentVars
  PROVE  IInv'
<1> USE DEF Spend, agentVars
<1>1. /\ TypeOK /\ LockOK /\ IssuedOK /\ ChainKept /\ TimeOK(c) /\ CallOK(c) /\ JobOK(c)
      /\ HookOK(c) /\ pc[c] = "call"
  BY DEF IInv, CallerInv
<1>2. /\ began[c] <= now /\ began[c] \in Nat /\ now \in Nat /\ gen \in Nat /\ gen \in Tokens
      /\ session \in Nat /\ cache \in Nat /\ \A d \in Callers : tok[d] \in Nat
  BY <1>1, Numbers DEF TimeOK, Active
<1>3. ASSUME Spendable(tok[c]), Issue, tok' = [tok EXCEPT ![c] = gen + 1], Goto(c, "store"),
             lost' = IF Orphan(c) THEN lost \union {gen + 1} ELSE lost,
             UNCHANGED <<conns, lock>>
      PROVE  IInv'
  <2>1. /\ pc' \in [Callers -> Pc] /\ pc'[c] = "store" /\ \A d \in Callers \ {c} : pc'[d] = pc[d]
        /\ tok'[c] = gen + 1 /\ \A d \in Callers \ {c} : tok'[d] = tok[d]
        /\ conns' = conns /\ lock' = lock
    BY <1>1, <1>3 DEF TypeOK, AuthorityTypeOK, Goto, Pc
  <2>2. \A d \in Callers \ {c} : Alike(d)
    BY <2>1 DEF Alike
  <2>3. installed /\ tok[c] = gen
    BY <1>3 DEF Spendable
  <2>4. /\ gen' = gen + 1 /\ gen' \in Tokens /\ gen' \notin {NoToken, gen, session}
        /\ expires' \in [Tokens -> Nat] /\ expires'[gen'] = now + Life
        /\ \A t \in Tokens : t # gen' => expires'[t] = expires[t]
    BY <1>1, <1>3, <2>2, Issued
  <2>5. lost' \subseteq Tokens /\ tok' \in [Callers -> Tokens \union {NoToken}]
    BY <1>1, <1>3, <2>4 DEF TypeOK, AuthorityTypeOK
  <2>6. TypeOK'
    BY <1>1, <2>1, <2>4, <2>5 DEF TypeOK, AuthorityTypeOK
  <2>7. c \in conns => session = gen
    BY <1>1, <2>3 DEF CallOK
  <2>8. Storing(c)' <=> c \in conns
    BY <2>1 DEF Storing
  <2>9. \A d \in Callers \ {c} : CallerInv(d)'
    BY <1>1, <1>3, <2>2, <2>6, <2>7, <2>8, Issued
  <2>10. LockOK'
    BY <1>1, <2>1 DEF LockOK
  <2>11. IssuedOK'
    BY <1>1, <1>2, <2>1, <2>4 DEF IssuedOK
  <2>12. ChainKept'
    <3>1. c \notin conns => gen' \in lost'
      BY <1>1, <1>3, <2>4 DEF Orphan
    <3> QED
      BY <2>1, <2>4, <3>1 DEF ChainKept, Storing
  <2>13. TimeOK(c)'
    BY <1>1, <2>1 DEF TimeOK, Active
  <2>14. CallOK(c)'
    <3>1. expires'[gen'] >= began'[c] + Life
      BY <1>2, <2>4, Windows
    <3>2. c \in conns => expires'[session] <= now + HookWindow
      BY <1>1, <1>2, <2>3, <2>4, <2>7 DEF CallOK
    <3>3. \A d \in Callers : pc'[d] = "call" => tok'[d] # gen'
      BY <1>1, <1>2, <2>1, <2>4 DEF IssuedOK
    <3> QED
      BY <2>1, <2>4, <2>8, <3>1, <3>2, <3>3 DEF CallOK, NoToken
  <2>15. JobOK(c)' /\ HookOK(c)'
    BY <1>1, <2>1 DEF JobOK, Orphan, HookOK
  <2> QED
    BY <2>6, <2>9, <2>10, <2>11, <2>12, <2>13, <2>14, <2>15 DEF IInv, CallerInv
<1>4. ASSUME ~Spendable(tok[c]), Goto(c, "reauth"), EndTx(c), UNCHANGED <<gen, expires, tok, lost>>
      PROVE  IInv'
  <2>1. /\ pc' \in [Callers -> Pc] /\ pc'[c] = "reauth" /\ \A d \in Callers \ {c} : pc'[d] = pc[d]
        /\ conns' \subseteq Callers /\ lock' \in Callers \union {Nobody} /\ c \notin conns'
    BY <1>1, <1>4, Ended DEF TypeOK, AuthorityTypeOK, Goto, Pc
  <2>2. TypeOK'
    BY <1>1, <1>4, <2>1 DEF TypeOK, AuthorityTypeOK
  <2>3. installed => tok[c] # gen
    BY <1>4 DEF Spendable
  <2>4. TimeOK(c)'
    BY <1>1, <2>1 DEF TimeOK, Active
  <2>5. ASSUME c \in Jobs, outcome[c] = "none", installed
        PROVE  lost # {}
    <3>1. c \in conns
      BY <1>1, <2>5 DEF JobOK, Orphan
    <3>2. session # gen
      BY <1>1, <2>3, <2>5, <3>1 DEF CallOK
    <3>3. \A d \in Callers : ~Storing(d)
      BY <1>1, <3>1, OneHolder DEF Storing
    <3> QED
      BY <1>1, <2>5, <3>2, <3>3 DEF ChainKept, Storing
  <2>6. JobOK(c)'
    BY <1>1, <1>4, <2>1, <2>5 DEF JobOK, Orphan
  <2>7. Outlives(c, Patience + CallTimeout + LibWindow)'
    <3> SUFFICES ASSUME installed, ~Broken'
                 PROVE  expires'[gen'] > began'[c] + (Patience + CallTimeout + LibWindow)
      BY DEF Outlives
    <3>1. ~Broken
      <4>1. Broken => session' # gen'
        BY <1>4 DEF Broken
      <4> QED
        BY <1>1, <1>4, <2>1, <4>1, StaysBroken
    <3> QED
      BY <1>1, <1>4, <2>3, <3>1 DEF CallOK, Outlives
  <2>8. HookOK(c)'
    BY <1>1, <2>1, <2>7 DEF HookOK
  <2>9. CallerInv(c)' /\ ~Storing(c)
    BY <1>1, <2>1, <2>4, <2>6, <2>8 DEF CallerInv, CallOK, Storing
  <2> QED
    BY <1>4, <2>1, <2>2, <2>9, Ends
<1> QED
  BY <1>3, <1>4

LEMMA IssuedKept ==
  ASSUME TypeOK, IssuedOK, gen' = gen + 1, UNCHANGED <<installed, session, cache, tok>>
  PROVE  IssuedOK'
<1>1. gen \in Nat /\ session \in Nat /\ cache \in Nat /\ \A c \in Callers : tok[c] \in Nat
  BY Numbers
<1> QED
  BY <1>1 DEF IssuedOK

LEMMA StepSpendReplyLost ==
  ASSUME IInv, NEW c \in Callers, SpendReplyLost(c), UNCHANGED agentVars
  PROVE  IInv'
<1> USE DEF SpendReplyLost, agentVars
<1>1. /\ TypeOK /\ LockOK /\ IssuedOK /\ ChainKept /\ TimeOK(c) /\ JobOK(c)
      /\ HookOK(c) /\ pc[c] = "call"
  BY DEF IInv, CallerInv
<1>2. gen \in Nat /\ session \in Nat /\ cache \in Nat /\ \A d \in Callers : tok[d] \in Nat
  BY <1>1, Numbers
<1>3. /\ pc' \in [Callers -> Pc] /\ pc'[c] = "transient"
      /\ \A d \in Callers \ {c} : pc'[d] = pc[d]
      /\ conns' \subseteq Callers /\ lock' \in Callers \union {Nobody}
      /\ c \notin conns' /\ \A d \in Callers \ {c} : d \in conns' <=> d \in conns
  BY <1>1, Ended DEF TypeOK, AuthorityTypeOK, Goto, Pc
<1>4. \A d \in Callers \ {c} : Alike(d)
  BY <1>3 DEF Alike
<1>5. /\ gen' = gen + 1 /\ gen' \in Tokens /\ gen' \notin {NoToken, gen, session}
      /\ expires' \in [Tokens -> Nat]
      /\ \A t \in Tokens : t # gen' => expires'[t] = expires[t]
  BY <1>1, <1>4, Issued
<1>6. TypeOK'
  <2>1. faults' \in 0..MaxFaults /\ lost' \subseteq Tokens
    BY <1>1, <1>5, FaultCounted DEF TypeOK, AuthorityTypeOK
  <2> QED
    BY <1>1, <1>3, <1>5, <2>1 DEF TypeOK, AuthorityTypeOK
<1>7. ~Storing(c)'
  BY <1>3 DEF Storing
<1>8. \A d \in Callers \ {c} : CallerInv(d)'
  BY <1>1, <1>4, <1>6, <1>7, Issued
<1>9. LockOK'
  BY <1>3, LockReleased
<1>10. IssuedOK' /\ ChainKept'
  <2>1. IssuedOK'
    BY <1>1, <1>5, IssuedKept
  <2>2. gen' \in lost'
    BY <1>5
  <2> QED
    BY <2>1, <2>2 DEF ChainKept, Storing
<1>11. TimeOK(c)'
  BY <1>1, <1>3 DEF TimeOK, Active
<1>12. JobOK(c)' /\ HookOK(c)'
  BY <1>1, <1>3 DEF JobOK, Orphan, HookOK
<1>13. CallerInv(c)'
  BY <1>3, <1>11, <1>12 DEF CallerInv, CallOK, Storing
<1> QED
  BY <1>6, <1>8, <1>9, <1>10, <1>13 DEF IInv

LEMMA StepSpendRefused ==
  ASSUME IInv, NEW c \in Callers, SpendRefused(c), UNCHANGED agentVars
  PROVE  IInv'
<1> USE DEF SpendRefused, shopifyVars, agentVars
<1>1. TypeOK
  BY DEF IInv
<1>2. Moved(c, "transient") /\ ~Storing(c) /\ faults' \in 0..MaxFaults
  BY <1>1, Goes, FaultCounted DEF Pc, Storing
<1>3. Only(c, outcome, outcome', Outcome) /\ lost' \subseteq Tokens
  BY <1>1, Untouched DEF TypeOK, AuthorityTypeOK
<1> QED
  BY <1>2, <1>3, Transient

LEMMA StepStore ==
  ASSUME IInv, NEW c \in Callers, Store(c), UNCHANGED agentVars
  PROVE  IInv'
<1> USE DEF Store, shopifyVars, agentVars
<1>1. /\ TypeOK /\ LockOK /\ IssuedOK /\ TimeOK(c) /\ CallOK(c) /\ JobOK(c) /\ HookOK(c)
      /\ pc[c] = "store"
  BY DEF IInv, CallerInv
<1>2. CASE c \notin conns /\ Goto(c, "transient") /\ session' = session
  <2>1. Moved(c, "transient") /\ ~Storing(c)
    BY <1>1, <1>2, Goes DEF Pc, Storing
  <2>2. Only(c, outcome, outcome', Outcome) /\ lost' \subseteq Tokens /\ faults' \in 0..MaxFaults
    BY <1>1, Untouched DEF TypeOK, AuthorityTypeOK
  <2> QED
    BY <1>1, <1>2, <2>1, <2>2, Transient
<1>3. CASE c \in conns /\ session' = Stored(c) /\ Goto(c, "served")
  <2>1. /\ pc' \in [Callers -> Pc] /\ pc'[c] = "served"
        /\ \A d \in Callers \ {c} : pc'[d] = pc[d]
        /\ conns' \subseteq Callers /\ lock' \in Callers \union {Nobody}
        /\ c \notin conns' /\ \A d \in Callers \ {c} : d \in conns' <=> d \in conns
    BY <1>1, <1>3, Ended DEF TypeOK, AuthorityTypeOK, Goto, Pc
  <2>2. Storing(c) /\ tok[c] = gen /\ session' = gen /\ expires[gen] >= began[c] + Life
    BY <1>1, <1>3 DEF Storing, CallOK, Stored
  <2>3. /\ gen \in Tokens /\ gen # NoToken /\ gen \in Nat /\ cache \in Nat
        /\ expires[gen] \in Nat /\ began[c] \in Nat /\ now \in Nat
    BY <1>1, Numbers
  <2>4. TypeOK'
    BY <1>1, <2>1, <2>2, <2>3 DEF TypeOK, AuthorityTypeOK
  <2>5. LockOK'
    BY <2>1, LockReleased
  <2>6. IssuedOK' /\ ChainKept'
    BY <1>1, <2>2, <2>3 DEF IssuedOK, ChainKept
  <2>7. Onward
    <3>1. ~Broken
      BY <2>2 DEF Broken
    <3> QED
      BY <2>3, <3>1 DEF Onward
  <2>8. ASSUME NEW d \in Callers \ {c}
        PROVE  CallerInv(d)'
    <3>1. ~(d \in conns /\ pc[d] \in {"call", "store"})
      BY <1>1, <1>3, OneHolder
    <3>2. Alike(d) /\ ~Storing(d)
      BY <2>1, <3>1 DEF Alike, Storing
    <3> QED
      BY <2>4, <2>7, <3>1, <3>2, Frame
  <2>9. TimeOK(c)'
    BY <1>1, <1>3, <2>1 DEF TimeOK, Active
  <2>10. JobOK(c)'
    <3>1. expires[gen] > began[c] + Patience
      BY <2>2, <2>3, Windows
    <3> QED
      BY <1>1, <2>1, <2>2, <2>3, <3>1 DEF JobOK, Orphan
  <2>11. HookOK(c)'
    <3>1. Outlives(c, Patience + LibWindow)'
      BY <2>2, <2>3, Windows DEF Outlives
    <3> QED
      BY <1>1, <2>1, <3>1 DEF HookOK
  <2>12. CallerInv(c)'
    BY <2>1, <2>9, <2>10, <2>11 DEF CallerInv, CallOK, Storing
  <2> QED
    BY <2>4, <2>5, <2>6, <2>8, <2>12 DEF IInv
<1> QED
  BY <1>2, <1>3

LEMMA StepStoreFails ==
  ASSUME IInv, NEW c \in Callers, StoreFails(c), UNCHANGED agentVars
  PROVE  IInv'
<1> USE DEF StoreFails, shopifyVars, agentVars
<1>1. TypeOK /\ CallOK(c) /\ Storing(c)
  BY DEF IInv, CallerInv, Storing
<1>2. Moved(c, "transient") /\ faults' \in 0..MaxFaults
  BY <1>1, Goes, FaultCounted DEF Pc
<1>3. tok[c] \in Tokens
  BY <1>1, Numbers DEF CallOK
<1>4. Only(c, outcome, outcome', Outcome) /\ lost' \subseteq Tokens
  BY <1>1, <1>3, Untouched DEF TypeOK, AuthorityTypeOK
<1> QED
  BY <1>1, <1>2, <1>4, Transient

\* What a transaction that is rolled back was to store is lost.
LEMMA RolledBack ==
  ASSUME IInv, NEW c \in Callers,
         lost' = IF pc[c] = "store" THEN lost \union {tok[c]} ELSE lost
  PROVE  (Storing(c) => tok[c] \in lost') /\ lost' \subseteq Tokens /\ lost \subseteq lost'
<1>1. TypeOK /\ CallOK(c)
  BY DEF IInv, CallerInv
<1>2. pc[c] = "store" => tok[c] \in Tokens
  BY <1>1, Numbers DEF CallOK
<1> QED
  BY <1>1, <1>2 DEF Storing, TypeOK, AuthorityTypeOK

LEMMA StepShellCrash ==
  ASSUME IInv, NEW c \in Callers, ShellCrash(c), UNCHANGED agentVars
  PROVE  IInv'
<1> USE DEF ShellCrash, shopifyVars, agentVars
<1>1. TypeOK
  BY DEF IInv
<1>2. Moved(c, "transient") /\ faults' \in 0..MaxFaults
  BY <1>1, Goes, FaultCounted DEF Pc
<1>3. Only(c, outcome, outcome', Outcome)
  BY <1>1, Untouched
<1> QED
  BY <1>2, <1>3, RolledBack, Transient

LEMMA StepTxTimeout ==
  ASSUME IInv, NEW c \in Callers, TxTimeout(c), UNCHANGED agentVars
  PROVE  IInv'
<1> USE DEF TxTimeout, shopifyVars, agentVars
<1> DEFINE label == IF pc[c] \in {"call", "store"} THEN pc[c] ELSE "transient"
<1>1. /\ TypeOK /\ TimeOK(c) /\ CallOK(c) /\ JobOK(c) /\ HookOK(c)
      /\ c \in conns /\ pc[c] \in {"lock", "reread", "call", "store"}
  BY DEF IInv, CallerInv, LockOK
<1>2. /\ pc' \in [Callers -> Pc] /\ pc'[c] = label /\ \A d \in Callers \ {c} : pc'[d] = pc[d]
      /\ conns' \subseteq Callers /\ lock' \in Callers \union {Nobody} /\ c \notin conns'
  BY <1>1, Ended DEF TypeOK, AuthorityTypeOK, Pc
<1>3. /\ Only(c, outcome, outcome', Outcome)
      /\ outcome'[c] = IF AgentGone(c) THEN "transient" ELSE outcome[c]
  BY <1>1 DEF TypeOK, AuthorityTypeOK, Only, Outcome
<1>4. faults' \in 0..MaxFaults
  BY <1>1, FaultCounted
<1>5. CASE pc[c] \in {"lock", "reread"}
  <2>1. Moved(c, "transient")
    BY <1>2, <1>5 DEF Moved
  <2> QED
    BY <1>1, <1>3, <1>4, <2>1, RolledBack, Transient
<1>6. CASE pc[c] \in {"call", "store"}
  <2>1. pc'[c] = pc[c]
    BY <1>2, <1>6
  <2>2. TypeOK'
    BY <1>1, <1>2, <1>3, <1>4, RolledBack DEF TypeOK, AuthorityTypeOK, Only
  <2>3. TimeOK(c)'
    BY <1>1, <1>2, <2>1 DEF TimeOK, Active
  <2>4. Outlives(c, Patience + CallTimeout + LibWindow) =>
          Outlives(c, Patience + CallTimeout + LibWindow)'
    <3>1. Broken => Broken'
      <4>1. Broken => session' # gen'
        BY DEF Broken
      <4> QED
        BY <1>1, <1>2, <4>1, StaysBroken
    <3> QED
      BY <3>1 DEF Outlives
  <2>5. CallOK(c)'
    BY <1>1, <1>2, <2>1, <2>4 DEF CallOK, Storing
  <2>6. JobOK(c)' /\ HookOK(c)'
    <3>1. c \in Jobs => outcome'[c] = "transient"
      BY <1>3 DEF AgentGone
    <3> QED
      BY <1>1, <1>6, <2>1, <3>1 DEF JobOK, Orphan, HookOK
  <2>7. CallerInv(c)'
    BY <2>3, <2>5, <2>6 DEF CallerInv
  <2>8. lost \subseteq lost' /\ (Storing(c) => tok[c] \in lost')
    BY RolledBack
  <2>9. EndTx(c) /\ tok' = tok /\ began' = began
    OBVIOUS
  <2>10. UNCHANGED <<now, installed, gen, expires, session, cache>>
    OBVIOUS
  <2>11. /\ pc'[c] \notin {"lock", "reread"} /\ (pc'[c] = "call" => pc[c] = "call")
         /\ tok'[c] = tok[c]
         /\ \A d \in Callers \ {c} : pc'[d] = pc[d] /\ tok'[d] = tok[d] /\ began'[d] = began[d]
                                    /\ outcome'[d] = outcome[d]
    BY <1>2, <1>3, <1>6, <2>1, <2>9 DEF Only
  <2> QED
    BY <2>2, <2>7, <2>8, <2>9, <2>10, <2>11, Ends
<1> QED
  BY <1>1, <1>5, <1>6

-----------------------------------------------------------------------------
(* The session's end, time and the merchant. *)

LEMMA StepErase ==
  ASSUME IInv, NEW h \in Hooks, Erase(h)
  PROVE  IInv'
<1> USE DEF Erase, stillVars, shopifyVars, agentVars
<1>1. h \in Callers /\ h \notin Jobs
  BY Kinds DEF Callers
<1>2. /\ TypeOK /\ LockOK /\ IssuedOK /\ HookOK(h) /\ pc[h] = "erase" /\ ~installed
      /\ h \notin conns
  BY <1>1 DEF IInv, CallerInv, HookOK, LockOK
<1>3. /\ Moved(h, "done") /\ outcome' \in [Callers -> Outcome]
      /\ \A d \in Callers \ {h} : outcome'[d] = outcome[d]
  BY <1>1, <1>2, Finished DEF Only, Outcome
<1>4. session' \in {session, NoToken} /\ gen # NoToken /\ gen \in Nat
  BY <1>2, Numbers
<1>5. TypeOK'
  BY <1>2, <1>3, <1>4 DEF TypeOK, AuthorityTypeOK, Moved
<1>6. LockOK'
  BY <1>1, <1>2, <1>3 DEF LockOK, Moved
<1>7. IssuedOK'
  BY <1>2, <1>4 DEF IssuedOK, NoToken
<1>8. ChainKept'
  BY <1>2 DEF ChainKept
<1>9. Onward
  BY <1>2, Numbers DEF Onward
<1>10. ASSUME NEW d \in Callers \ {h}
       PROVE  CallerInv(d)'
  <2>1. Alike(d)
    BY <1>3 DEF Alike, Moved
  <2>2. Storing(d) => session # gen /\ \A e \in Callers : pc[e] = "call" => tok[e] # gen
    BY DEF IInv, CallerInv, CallOK
  <2>3. \A e \in Callers : pc'[e] = "call" => pc[e] = "call"
    BY <1>3 DEF Moved
  <2> QED
    BY <1>2, <1>4, <1>5, <1>9, <2>1, <2>2, <2>3, Frame
<1>11. CallerInv(h)'
  <2>1. pc'[h] = "done"
    BY <1>3 DEF Moved
  <2> QED
    BY <1>1, <1>2, <2>1 DEF CallerInv, TimeOK, Active, CallOK, Storing, JobOK, HookOK
<1> QED
  BY <1>5, <1>6, <1>7, <1>8, <1>10, <1>11 DEF IInv

\* The callers stand still while time goes on or the merchant leaves.
LEMMA Still ==
  ASSUME IInv, TypeOK', now <= now', installed' => installed,
         UNCHANGED <<gen, expires, session, lock, conns, pc, tok, began, outcome, lost, cache>>,
         now' = now \/ \A c \in Callers : TimeOK(c)'
  PROVE  IInv'
<1>1. \A c \in Callers : Storing(c)' <=> Storing(c)
  BY DEF Storing
<1>2. Onward
  BY <1>1 DEF Onward, Broken
<1>3. LockOK' /\ IssuedOK' /\ ChainKept'
  BY DEF IInv, LockOK, IssuedOK, ChainKept, Storing
<1>4. ASSUME NEW c \in Callers
      PROVE  CallerInv(c)'
  <2>1. Storing(c) => session # gen /\ \A d \in Callers : pc[d] = "call" => tok[d] # gen
    BY DEF IInv, CallerInv, CallOK
  <2>2. Alike(c)
    BY DEF Alike
  <2> QED
    BY <1>2, <2>1, <2>2, Frame
<1> QED
  BY <1>3, <1>4 DEF IInv

LEMMA StepTick ==
  ASSUME IInv, Tick
  PROVE  IInv'
<1> USE DEF Tick, shopifyVars, agentVars
<1>1. TypeOK /\ now \in Nat /\ now' = now + 1
  BY Numbers DEF IInv
<1>2. TypeOK'
  <2>1. now' \in 0..MaxTime
    BY <1>1, Bounds
  <2> QED
    BY <1>1, <2>1 DEF TypeOK, AuthorityTypeOK
<1>3. ASSUME NEW c \in Callers
      PROVE  TimeOK(c)'
  <2> SUFFICES ASSUME Active(c)
               PROVE  TimeOK(c)'
    BY DEF TimeOK, Active
  <2>1. began[c] \in Nat /\ began[c] <= now /\ now < Deadline(c)
    BY <1>1, Numbers DEF IInv, CallerInv, TimeOK
  <2>2. now' <= began[c] + Patience + CallTimeout
    BY <1>1, <2>1, Windows DEF Deadline
  <2>3. ~Orphan(c) => now' <= began[c] + Patience
    BY <1>1, <2>1, Windows DEF Deadline
  <2> QED
    BY <1>1, <2>1, <2>2, <2>3 DEF TimeOK, Orphan
<1> QED
  BY <1>1, <1>2, <1>3, Still

LEMMA StepUninstall ==
  ASSUME IInv, Uninstall \/ UNCHANGED vars
  PROVE  IInv'
<1> USE DEF Uninstall, vars, authorityVars, agentVars
<1>1. TypeOK /\ now <= now' /\ (installed' => installed)
  BY Numbers DEF IInv
<1>2. TypeOK'
  BY <1>1 DEF TypeOK, AuthorityTypeOK
<1> QED
  BY <1>1, <1>2, Still

LEMMA InvStep == IInv /\ [Next]_vars => IInv'
<1> SUFFICES ASSUME IInv, [Next]_vars
             PROVE  IInv'
  OBVIOUS
<1>1. ASSUME NEW c \in Callers, Start(c) \/ (AuthorityStep(c) /\ UNCHANGED agentVars)
      PROVE  IInv'
  BY <1>1, StepStart, StepLoad, StepBegin, StepTakeLock, StepReread, StepSpend, StepStore
     DEF AuthorityStep
<1>2. ASSUME NEW c \in Callers, AuthorityFault(c), UNCHANGED agentVars
      PROVE  IInv'
  BY <1>2, StepSpendRefused, StepSpendReplyLost, StepStoreFails, StepMaxWait, StepTxTimeout,
     StepShellCrash DEF AuthorityFault
<1>3. ASSUME NEW j \in Jobs, JobStep(j) \/ GiveUp(j) \/ Throttled(j)
      PROVE  IInv'
  BY <1>3, StepReadCache, StepCacheToken, StepFetchFails, StepAnswerUnread, StepPost, StepGiveUp,
     StepThrottled DEF JobStep
<1>4. ASSUME NEW h \in Hooks, HookStep(h) \/ ForwardFails(h)
      PROVE  IInv'
  BY <1>4, StepHookUnavailable, StepAuthenticate, StepForward, StepErase DEF HookStep
<1>5. CASE Tick \/ Uninstall \/ UNCHANGED vars
  BY <1>5, StepTick, StepUninstall
<1> QED
  BY <1>1, <1>2, <1>3, <1>4, <1>5 DEF Next, CallerStep

-----------------------------------------------------------------------------
(* A token is issued only by a request whose own refresh it was, and that found it due. *)

LEMMA Rotation ==
  ASSUME IInv, [Next]_vars, gen' # gen
  PROVE  \E c \in Callers : /\ pc[c] = "call" /\ pc'[c] # "call"
                            /\ tok[c] = gen /\ Due(gen, HookWindow)
<1>1. TypeOK
  BY DEF IInv
<1>2. \E c \in Callers : Spend(c) \/ SpendReplyLost(c)
  <2>1. ASSUME NEW c \in Callers, Start(c) \/ AuthorityStep(c) \/ AuthorityFault(c)
        PROVE  Spend(c) \/ SpendReplyLost(c)
    BY <2>1 DEF Start, AuthorityStep, AuthorityFault, Load, Begin, TakeLock, Reread, Store,
                SpendRefused, StoreFails, MaxWait, TxTimeout, ShellCrash, stillVars, shopifyVars
  <2>2. ASSUME NEW j \in Jobs, JobStep(j) \/ GiveUp(j) \/ Throttled(j)
        PROVE  FALSE
    BY <2>2 DEF JobStep, ReadCache, CacheToken, FetchFails, AnswerUnread, Post, GiveUp, Throttled,
                stillVars, shopifyVars
  <2>3. ASSUME NEW h \in Hooks, HookStep(h) \/ ForwardFails(h)
        PROVE  FALSE
    <3>1. ~Authenticate(h)
      BY LibraryIdle DEF Authenticate
    <3> QED
      BY <2>3, <3>1 DEF HookStep, HookUnavailable, AuthenticateFails, Forward, ForwardFails, Erase,
                        stillVars, shopifyVars
  <2>4. ~Tick /\ ~Uninstall /\ ~(UNCHANGED vars)
    BY DEF Tick, Uninstall, vars, authorityVars, shopifyVars
  <2> QED
    BY <2>1, <2>2, <2>3, <2>4 DEF Next, CallerStep
<1>3. PICK c \in Callers : Spend(c) \/ SpendReplyLost(c)
  BY <1>2
<1>4. pc[c] = "call" /\ Spendable(tok[c])
  BY <1>3 DEF Spend, SpendReplyLost
<1>5. pc'[c] # "call"
  BY <1>1, <1>3 DEF Spend, SpendReplyLost, Goto, TypeOK, AuthorityTypeOK
<1>6. tok[c] = gen /\ tok[c] # NoToken /\ expires[tok[c]] <= now + HookWindow
  BY <1>4 DEF IInv, CallerInv, CallOK, Spendable
<1> QED
  BY <1>4, <1>5, <1>6 DEF Due

-----------------------------------------------------------------------------
(* The inductive invariant holds in every reachable state, whichever requests overlap, wait,   *)
(* time out, crash or are given up, and whenever the merchant leaves.                          *)
THEOREM CustodyInvariant == Spec => []IInv
BY InvInit, InvStep, PTL DEF Spec

(* Tokens, transactions, callers and the clock keep their types.                               *)
THEOREM TypeCorrect == Spec => []TypeOK
<1>1. IInv => TypeOK
  BY DEF IInv
<1> QED
  BY <1>1, CustodyInvariant, PTL

(* While the shop is installed the stored session is the token Shopify would accept, unless a  *)
(* transaction is about to store that one or it was lost on the way (withShopLock).            *)
THEOREM ChainTheorem == Spec => []ChainKept
<1>1. IInv => ChainKept
  BY DEF IInv
<1> QED
  BY <1>1, CustodyInvariant, PTL

(* A job that reports re-authentication tells the truth: contention, timeouts and crashes      *)
(* elsewhere never make a healthy shop look dead (getAdminToken, TokenProvider).               *)
THEOREM HealthyTheorem == Spec => []HealthyShopNeverFlagged
<1>1. IInv => HealthyShopNeverFlagged
  <2>1. ASSUME IInv, NEW j \in Jobs, outcome[j] = "reauth"
        PROVE  ~installed \/ lost # {}
    BY <2>1 DEF IInv, CallerInv, JobOK, Callers
  <2> QED
    BY <2>1 DEF HealthyShopNeverFlagged
<1> QED
  BY <1>1, CustodyInvariant, PTL

(* The agent never presents a token that is past its end: the shell's window, the cache's      *)
(* margin and the requests' timeouts cover what is left of its life.                           *)
THEOREM ExpiryTheorem == Spec => []NeverPresentsExpired
<1>1. ASSUME IInv, NEW j \in Jobs, pc[j] = "post"
      PROVE  now < expires[tok[j]]
  <2> j \in Callers
    BY DEF Callers
  <2>1. TypeOK /\ TimeOK(j) /\ JobOK(j)
    BY <1>1 DEF IInv, CallerInv
  <2>2. tok[j] # NoToken /\ expires[tok[j]] > began[j] + Patience
    BY <1>1, <2>1 DEF JobOK
  <2>3. expires[tok[j]] \in Nat /\ began[j] \in Nat /\ now \in Nat
    BY <2>1, <2>2, Numbers
  <2> QED
    BY <1>1, <2>1, <2>2, <2>3, Windows DEF TimeOK, Active
<1>2. IInv => NeverPresentsExpired
  BY <1>1 DEF NeverPresentsExpired
<1> QED
  BY <1>2, CustodyInvariant, PTL

(* The library, which works outside the lock, never has to rotate: every token is issued to    *)
(* a refresh of getAdminToken or ensureFreshOfflineSession.                                    *)
THEOREM LibraryTheorem == Spec => LibraryNeverRotates
<1>1. IInv /\ [Next]_vars =>
        [gen' # gen => \E c \in Callers : pc[c] = "call" /\ pc'[c] # "call"]_vars
  BY Rotation
<1> QED
  BY <1>1, CustodyInvariant, PTL DEF Spec, LibraryNeverRotates

(* A token is rotated only near its end, however many requests found it due at once: the       *)
(* second look under the lock collapses them into one.                                         *)
THEOREM DueTheorem == Spec => RotatedOnlyWhenDue
<1>1. IInv /\ [Next]_vars => [gen' # gen => Due(gen, HookWindow)]_vars
  BY Rotation
<1> QED
  BY <1>1, CustodyInvariant, PTL DEF Spec, RotatedOnlyWhenDue

=============================================================================
