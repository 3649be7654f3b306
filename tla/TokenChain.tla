----------------------------- MODULE TokenChain -----------------------------
(***************************************************************************)
(* What the app shell promises about a shop's offline token, with no lock, *)
(* pool, transaction or caller in sight.  Shopify issues tokens one after  *)
(* the other, each for the one before it, and the shell holds one of them. *)
(* A rotation starts from the newest token, which the shell holds, while   *)
(* no other is under way; it ends when the shell holds the successor, or   *)
(* it is lost, and then the shell holds a token that nobody will take      *)
(* again.                                                                  *)
(***************************************************************************)
EXTENDS Naturals

CONSTANT NoToken

VARIABLES
  newest,      \* the last token Shopify issued
  held,        \* the token the shell holds
  pending,     \* the newest token was issued to a rotation that may still store it
  installed    \* the shop has the app

vars == <<newest, held, pending, installed>>

Init == newest = 1 /\ held = 1 /\ pending = FALSE /\ installed = TRUE

\* Shopify issues the successor of the newest token to whoever spends that one.
Issue ==
  /\ installed /\ ~pending /\ held = newest
  /\ newest' = newest + 1
  /\ UNCHANGED <<held, installed>>

Rotate == Issue /\ pending' = TRUE

\* The answer reaches nobody who could store it.
RotateInVain == Issue /\ UNCHANGED pending

Settle == pending /\ pending' = FALSE /\ held' = newest /\ UNCHANGED <<newest, installed>>

Lose == pending /\ pending' = FALSE /\ UNCHANGED <<newest, held, installed>>

Uninstall == installed /\ installed' = FALSE /\ UNCHANGED <<newest, held, pending>>

\* app/uninstalled: the session is erased; a rotation that was under way may still settle.
Erase == ~installed /\ held' = NoToken /\ UNCHANGED <<newest, pending, installed>>

Next == Rotate \/ RotateInVain \/ Settle \/ Lose \/ Uninstall \/ Erase

Spec == Init /\ [][Next]_vars

=============================================================================
