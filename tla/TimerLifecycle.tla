--------------------------- MODULE TimerLifecycle ---------------------------
(***************************************************************************)
(* What the record timer promises of each timer and of the recording       *)
(* service (the tuner) it holds, with no lists, clock, call stack or file: *)
(* a service is taken when a waiting timer is prepared, kept until the     *)
(* timer has run, and given back in the step that ends it; a timer that    *)
(* holds one is never forgotten.                                           *)
(***************************************************************************)
EXTENDS Integers

CONSTANT Timers

VARIABLES
    phase,   \* phase[t]: where t is in its life
    held     \* held[t]: how many recording services t holds

Phases == {"absent", "waiting", "prepared", "running", "ended"}

Init ==
    /\ phase = [t \in Timers |-> "absent"]
    /\ held = [t \in Timers |-> 0]

Move(t, from, to) ==
    /\ phase[t] \in from
    /\ \E p \in to : phase' = [phase EXCEPT ![t] = p]

\* A timer entered when it is past, or disabled, is done at once.
Add(t) == Move(t, {"absent"}, {"waiting", "ended"}) /\ UNCHANGED held

\* Past before it was prepared, or disabled.
Expire(t) == Move(t, {"waiting"}, {"ended"}) /\ UNCHANGED held

\* A recording takes a service, a zap does not.
Prepare(t) ==
    /\ Move(t, {"waiting"}, {"prepared"})
    /\ \E n \in {0, 1} : held' = [held EXCEPT ![t] = n]

Begin(t) == Move(t, {"prepared"}, {"running"}) /\ UNCHANGED held

\* A repeated timer waits for its next day.
Finish(t) ==
    /\ Move(t, {"running"}, {"ended", "waiting"})
    /\ held' = [held EXCEPT ![t] = 0]

\* The times of a timer that is done changed, or the clock was set back.
Revive(t) == Move(t, {"ended"}, {"waiting"}) /\ UNCHANGED held

Forget(S) ==
    /\ \A t \in S : phase[t] = "ended"
    /\ phase' = [t \in Timers |-> IF t \in S THEN "absent" ELSE phase[t]]
    /\ UNCHANGED held

PowerOff ==
    /\ phase' = [t \in Timers |-> "absent"]
    /\ held' = [t \in Timers |-> 0]

Next ==
    \/ \E t \in Timers :
         \/ Add(t) \/ Expire(t) \/ Prepare(t) \/ Begin(t) \/ Finish(t)
         \/ Revive(t)
    \/ \E S \in SUBSET Timers : Forget(S)
    \/ PowerOff

Spec == Init /\ [][Next]_<<phase, held>>

=============================================================================
