----------------------------- MODULE SessionGate -----------------------------
(***************************************************************************)
(* What processor/auth promises to the rest of the gateway about the       *)
(* session, with no snapshot, generation counter, registry or listener:    *)
(*                                                                         *)
(*   - an authentication operation may commit its result only while no     *)
(*     session transition has happened since it began, so of several       *)
(*     operations that began together at most one commits;                 *)
(*   - a proxy flow is admitted only while the session is active, and the  *)
(*     transition that ends the active session revokes every admitted flow *)
(*     in the same step;                                                   *)
(*   - a revoked flow is cut off eventually.                               *)
(*                                                                         *)
(* SessionAuthority implements this specification.                         *)
(***************************************************************************)
CONSTANTS Ops,      \* authentication operations: logins, refreshes, restores
          Flows     \* proxy flows

VARIABLES state,    \* the session state
          valid,    \* operations whose result may still be committed
          admitted, \* flows admitted and not revoked
          revoked   \* flows whose admission was revoked, still to be cut off

gateVars == <<state, valid, admitted, revoked>>

States == {"restoring", "unauthenticated", "active", "soft_expired", "hard_invalid"}

GateTypeOK ==
  /\ state \in States
  /\ valid \subseteq Ops
  /\ admitted \subseteq Flows
  /\ revoked \subseteq Flows

GateInit ==
  /\ state = "restoring"
  /\ valid = {}
  /\ admitted = {}
  /\ revoked = {}

\* Every transition ends all the operations in progress; the one that leaves
\* the active session revokes the flows it admitted.
Move(to) ==
  /\ state' = to
  /\ valid' = {}
  /\ IF state = "active" /\ to # "active"
       THEN /\ admitted' = {}
            /\ revoked' = revoked \cup admitted
       ELSE UNCHANGED <<admitted, revoked>>

Start(o) ==
  /\ valid' = valid \cup {o}
  /\ UNCHANGED <<state, admitted, revoked>>

Abandon(o) ==
  /\ valid' = valid \ {o}
  /\ UNCHANGED <<state, admitted, revoked>>

\* An operation never returns the session to "restoring" and never declares
\* it permanently invalid: that is for a forced transition.
Commit(o, to) ==
  /\ o \in valid
  /\ to \in {"active", "soft_expired", "unauthenticated"}
  /\ Move(to)

\* A rejected credential pauses only an active session; a wipe, a logout or
\* an externally completed login takes effect in any state.
Force(to) ==
  /\ \/ to = "soft_expired" /\ state = "active"
     \/ to \in {"active", "hard_invalid", "unauthenticated"}
  /\ Move(to)

Admit(f) ==
  /\ state = "active"
  /\ f \notin admitted \cup revoked
  /\ admitted' = admitted \cup {f}
  /\ UNCHANGED <<state, valid, revoked>>

Finish(f) ==
  /\ admitted' = admitted \ {f}
  /\ UNCHANGED <<state, valid, revoked>>

CutOff(f) ==
  /\ f \in revoked
  /\ revoked' = revoked \ {f}
  /\ UNCHANGED <<state, valid, admitted>>

GateNext ==
  \/ \E o \in Ops : Start(o) \/ Abandon(o)
  \/ \E o \in Ops, to \in States : Commit(o, to)
  \/ \E to \in States : Force(to)
  \/ \E f \in Flows : Admit(f) \/ Finish(f) \/ CutOff(f)

\* Revoked flows are always cut off; nothing else is promised to happen.
GateFairness == \A f \in Flows : WF_gateVars(CutOff(f))

GateSafety == GateInit /\ [][GateNext]_gateVars

GateSpec == GateSafety /\ GateFairness
===============================================================================
