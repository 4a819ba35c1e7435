--------------------------- MODULE ProviderSession ---------------------------
(***************************************************************************)
(* What the polling pipeline promises about one provider, as its user sees *)
(* it: whose account the provider stands for, whose usage is on display,   *)
(* and whether credentials are being read or usage is being fetched.       *)
(* Workers, tickets, generations, queues and files do not appear here.     *)
(***************************************************************************)

CONSTANTS Account, None

VARIABLES
  owner,     \* the account the provider is bound to, or None
  shown,     \* the account whose usage is on display, or None
  activity   \* what is under way

vars == <<owner, shown, activity>>

Init == owner = None /\ shown = None /\ activity = "idle"

\* Somebody asks for fresh values.
Ask == activity = "idle" /\ activity' = "preparing" /\ UNCHANGED <<owner, shown>>

\* The credentials were read: they decide the owner.  Saved usage may appear,
\* and a request may start, for that account only.
Adopt ==
  /\ activity = "preparing"
  /\ \E account \in Account :
       /\ owner' = account
       /\ shown' \in {None, account}
  /\ activity' \in {"idle", "fetching"}

\* The credentials could not be read just now.
GiveUp == activity = "preparing" /\ activity' = "idle" /\ UNCHANGED <<owner, shown>>

\* The request for the owner ended; it alone brings usage of the owner.
Answer ==
  /\ activity = "fetching"
  /\ activity' = "idle"
  /\ shown' \in {shown, owner}
  /\ UNCHANGED owner

\* The account is gone: signed out, rejected, switched off or replaced.  The
\* replacement may be asked for in the same breath.
Leave ==
  /\ owner' = None
  /\ shown' = None
  /\ activity' \in {"idle", "preparing"}

Next == Ask \/ Adopt \/ GiveUp \/ Answer \/ Leave

Spec == Init /\ [][Next]_vars
=============================================================================
