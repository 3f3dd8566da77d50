----------------------------- MODULE EPGListing -----------------------------
(***************************************************************************)
(* What the EPG cache promises about one service: a set of events with at  *)
(* most one event per id and per start.  A new event takes the place of    *)
(* those it conflicts with and of nothing else; an old event goes when it  *)
(* is over; a portal adds and withdraws its own (private) events only.     *)
(***************************************************************************)
EXTENDS Integers

CONSTANTS
    Event,   \* the records [id, time, dur, type]
    PRIVATE, \* the type of a portal's events
    Slack    \* an overlap up to this long is kept (300 s)

VARIABLES events, now

listingVars == <<events, now>>

Init == events = {} /\ now \in Nat

Over(x) == x.time + x.dur < now

\* y starts while x has more than Slack to run.
CutsShort(x, y) == x.time < y.time /\ y.time < x.time + x.dur - Slack

Overlaps(x, y) == CutsShort(x, y) \/ CutsShort(y, x)

Announce(e) ==
    /\ e.type # PRIVATE
    /\ \A x \in events : x.id = e.id => e.type <= x.type
    /\ \E gone \in SUBSET {x \in events : x.type # PRIVATE /\ Overlaps(x, e)} :
           events' = {x \in events \ gone : x.id # e.id /\ x.time # e.time}
                     \cup {e}
    /\ UNCHANGED now

Expire ==
    /\ events' = {x \in events : ~Over(x)}
    /\ UNCHANGED now

Offer(e) ==
    /\ e.type = PRIVATE
    /\ \A x \in events : x.id # e.id /\ x.time # e.time
    /\ events' = events \cup {e}
    /\ UNCHANGED now

Withdraw ==
    /\ \E gone \in SUBSET {x \in events : x.type = PRIVATE} :
           events' = events \ gone
    /\ UNCHANGED now

Tick == now' = now + 1 /\ UNCHANGED events

Next ==
    \/ \E e \in Event : Announce(e) \/ Offer(e)
    \/ Expire \/ Withdraw \/ Tick

Spec == Init /\ [][Next]_listingVars
=============================================================================
