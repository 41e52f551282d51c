---------------------------- MODULE SerialStore ----------------------------
(***************************************************************************)
(* What toolip promises of its local state (HISTORY.md:15, VAULT.md:15-17, *)
(* ENGINEERING.md:60): the mutations of all processes happen one after     *)
(* another, each on the state the previous one left.  A call takes effect  *)
(* at most once, between its start and its end; a call that returns has    *)
(* taken effect, one that times out has not, one that fails or dies may    *)
(* have.                                                                   *)
(***************************************************************************)
CONSTANTS
  Call,          \* the calls
  Initial,       \* the state before any of them
  Allowed(_, _), \* Allowed(c, s): c can be applied to s (else it must fail)
  Effect(_, _)   \* Effect(c, s): the state that applying c to s leaves

VARIABLES
  state,    \* the stored value
  applied,  \* per call: it has taken effect
  phase     \* per call: "open", "dead", or how it ended

serialVars == <<state, applied, phase>>

Ends == {"ok", "failed", "timeout", "dead"}

SerialInit ==
  /\ state = Initial
  /\ applied = [c \in Call |-> FALSE]
  /\ phase = [c \in Call |-> "open"]

Apply(c) ==
  /\ phase[c] = "open" /\ ~applied[c] /\ Allowed(c, state)
  /\ state' = Effect(c, state)
  /\ applied' = [applied EXCEPT ![c] = TRUE]
  /\ UNCHANGED phase

End(c, how) ==
  /\ phase[c] = "open"
  /\ how = "ok" => applied[c]
  /\ how = "timeout" => ~applied[c]
  /\ phase' = [phase EXCEPT ![c] = how]
  /\ UNCHANGED <<state, applied>>

SerialNext == \E c \in Call : Apply(c) \/ \E how \in Ends : End(c, how)

SerialSpec == SerialInit /\ [][SerialNext]_serialVars
=============================================================================
