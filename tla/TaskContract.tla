---------------------------- MODULE TaskContract ----------------------------
(***************************************************************************)
(* What the task queue promises to the clients that enqueue work and to    *)
(* the workers that hold it, with no clock, no keys and no dependencies:   *)
(*   - a task is held by at most one grant at a time, and every grant      *)
(*     carries a new fencing number;                                       *)
(*   - one call hands out at most one task;                                *)
(*   - a task is granted at most limit times, the limit fixed when it was  *)
(*     accepted;                                                           *)
(*   - a task whose outcome is unknown is granted to nobody until it has   *)
(*     been resolved;                                                      *)
(*   - a void task stays void, a done one can only become void.            *)
(***************************************************************************)
EXTENDS Naturals

CONSTANTS Tasks, MaxLimit

VARIABLES phase,    \* absent, pending, held, unknown, done or void
          grants,   \* how often the task was granted; the fencing number
          limit     \* how often it may be granted

cvars == <<phase, grants, limit>>

CInit ==
    /\ phase = [t \in Tasks |-> "absent"]
    /\ grants = [t \in Tasks |-> 0]
    /\ limit = [t \in Tasks |-> 0]

Same(t) == /\ phase'[t] = phase[t]
           /\ grants'[t] = grants[t]
           /\ limit'[t] = limit[t]

(* Task t moves to phase p and keeps its grants and its limit. *)
Becomes(t, p) == /\ phase'[t] = p
                 /\ grants'[t] = grants[t]
                 /\ limit'[t] = limit[t]

AcceptStep(t) ==
    /\ phase[t] = "absent"
    /\ phase'[t] = "pending"
    /\ grants'[t] = 0
    /\ limit'[t] \in 1..MaxLimit

GrantStep(t) ==
    /\ phase[t] \in {"pending", "held"}
    /\ grants[t] < limit[t]
    /\ phase'[t] = "held"
    /\ grants'[t] = grants[t] + 1
    /\ limit'[t] = limit[t]

ReleaseStep(t) ==
    /\ phase[t] \in {"held", "unknown"}
    /\ grants[t] < limit[t]
    /\ Becomes(t, "pending")

DoneStep(t) == phase[t] \in {"held", "unknown"} /\ Becomes(t, "done")

UnknownStep(t) == phase[t] \in {"pending", "held"} /\ Becomes(t, "unknown")

VoidStep(t) == phase[t] \notin {"absent", "void"} /\ Becomes(t, "void")

(* Only a sweep may move many tasks at once, and it grants none. *)
Sweep(U) == \A u \in U : Same(u) \/ ReleaseStep(u) \/ VoidStep(u)

CNext ==
    \/ \E t \in Tasks :
          /\ AcceptStep(t) \/ DoneStep(t) \/ UnknownStep(t)
          /\ \A u \in Tasks \ {t} : Same(u)
    \/ \E t \in Tasks : GrantStep(t) /\ Sweep(Tasks \ {t})
    \/ Sweep(Tasks)

CSpec == CInit /\ [][CNext]_cvars
============================================================================
