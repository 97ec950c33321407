------------------------- MODULE NotificationPromise -------------------------
(***************************************************************************)
(* What the transactional outbox promises to the rest of the back end,     *)
(* without saying how: a notice that commits with its domain change is     *)
(* owed, an owed notice may be handed to the provider, and the platform    *)
(* may forget a notice (drop its row) only after it was handed over.       *)
(***************************************************************************)
CONSTANT Event                \* the ids of the notices

VARIABLES owed,               \* notices whose domain change has committed
          handed,             \* notices the provider has accepted
          forgotten           \* notices of which no row is left

vars == <<owed, handed, forgotten>>

Init ==
  /\ owed = {}
  /\ handed = {}
  /\ forgotten = {}

Owe(e) ==
  /\ e \notin owed
  /\ owed' = owed \cup {e}
  /\ UNCHANGED <<handed, forgotten>>

Hand(e) ==
  /\ e \in owed
  /\ handed' = handed \cup {e}
  /\ UNCHANGED <<owed, forgotten>>

Forget(E) ==
  /\ E \subseteq handed
  /\ forgotten' = forgotten \cup E
  /\ UNCHANGED <<owed, handed>>

Next ==
  \/ \E e \in Event : Owe(e) \/ Hand(e)
  \/ \E E \in SUBSET Event : Forget(E)

Spec == Init /\ [][Next]_vars
=============================================================================
