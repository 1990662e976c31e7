---------------------------- MODULE AgentPromise ----------------------------
(***************************************************************************)
(* What the engine promises about the life of an agent, without saying how *)
(* processes are started, found and killed.  An agent comes up once for    *)
(* each generation, and a new generation begins only at rest.  A first     *)
(* generation that never came up does not come to rest: it ends.  An       *)
(* agent that ended, or whose process could not be confirmed dead, never   *)
(* runs again.  AgentLifecycle implements this.                            *)
(***************************************************************************)
EXTENDS Naturals

CONSTANT Agents

VARIABLES
    fate,  \* absent, coming, up, resting, ended or orphaned
    gen    \* generations begun

promiseVars == <<fate, gen>>

PromiseInit ==
    /\ fate = [a \in Agents |-> "absent"]
    /\ gen = [a \in Agents |-> 0]

\* Agent a goes from one of `from` to one of `to`, in its generation.
Goes(a, from, to) == fate[a] \in from /\ fate'[a] \in to /\ gen'[a] = gen[a]

Created(a) == fate[a] = "absent" /\ fate'[a] = "coming" /\ gen'[a] = 1
Resumed(a) == fate[a] = "resting" /\ fate'[a] = "resting" /\ gen'[a] = gen[a] + 1
CameUp(a)  == Goes(a, {"resting"}, {"coming"}) \/ Goes(a, {"coming"}, {"up"})
Rested(a)  == Goes(a, {"up"}, {"resting"}) \/ (gen[a] > 1 /\ Goes(a, {"coming"}, {"resting"}))
Over(a)    == \/ Goes(a, {"coming", "up", "resting"}, {"ended", "orphaned"})
              \/ Goes(a, {"ended"}, {"orphaned"})
              \/ Goes(a, {"orphaned"}, {"ended"})
Same(a)    == fate'[a] = fate[a] /\ gen'[a] = gen[a]

PromiseNext ==
    \A a \in Agents :
        Same(a) \/ Created(a) \/ Resumed(a) \/ CameUp(a) \/ Rested(a) \/ Over(a)

PromiseSpec == PromiseInit /\ [][PromiseNext]_promiseVars
=============================================================================
