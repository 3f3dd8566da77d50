------------------------------ MODULE Channels ------------------------------
(***************************************************************************)
(* eDVBResourceManager and eDVBChannel (dvb.cpp): tuners, the channels     *)
(* they carry, the use count of a channel, and the last channel that was   *)
(* tuned, which stays cached for three seconds after its last user left.   *)
(*                                                                         *)
(* A channel is named by its tuner.  A service that is tuned holds two     *)
(* references to it, one of its service handler and one of its eDVBScan;   *)
(* both come and go in one call, tuneExt or free.                          *)
(***************************************************************************)
EXTENDS Integers, FiniteSets

CONSTANTS
    Tuners,
    Ids,       \* what can be tuned to (eDVBChannelID)
    Raw,       \* the id of a raw channel, for scans
    None

Channel == [id : Ids \cup {Raw}, use : Nat \ {0}, locked : BOOLEAN,
            state : {"tuning", "ok", "last_instance"}]

ASSUME ChannelAssumption ==
    None \notin Tuners \cup Ids \cup Channel /\ Raw \notin Ids

VARIABLES
    channel,  \* the channel on a tuner, or None
    cached,   \* m_cached_channel
    timer,    \* m_releaseCachedChannelTimer runs
    heard     \* the channels connected to the manager's DVBChannelStateChanged

channelVars == <<channel, cached, timer, heard>>

New(i) == [id |-> i, use |-> 0, state |-> "tuning", locked |-> FALSE]

ChannelInit ==
    /\ channel = [t \in Tuners |-> None]
    /\ cached = None /\ timer = FALSE /\ heard = {}

Busy == {t \in Tuners : channel[t] # None}

(***************************************************************************)
(* References.                                                             *)
(***************************************************************************)
AddUse(c) ==
    [c EXCEPT !.use = @ + 1,
              !.state = IF @ = "last_instance" THEN "ok" ELSE @]

ReleaseUse(c) ==
    IF c.use = 1
    THEN None
    ELSE [c EXCEPT !.use = @ - 1,
                   !.state = IF c.use = 2 THEN "last_instance" ELSE @]

Tuned(c) == AddUse(AddUse(c))

Freed(c) == ReleaseUse(ReleaseUse(c))

\* Mutant: the reference of the cache is not given back.
EvictedLeaks == channel

\* The channels when m_cached_channel is set to 0.
Evicted ==
    [t \in Tuners |-> IF t = cached THEN ReleaseUse(channel[t]) ELSE channel[t]]

Evict(channels) ==
    /\ channel' = channels
    /\ heard' = heard \ {cached}
    /\ cached' = None
    /\ timer' = (timer /\ cached = None)

(***************************************************************************)
(* allocateChannel: the cached channel if it has the id; else the cached   *)
(* one is given up, whatever follows, and an active channel with the id is *)
(* shared or a free tuner is taken.                                        *)
(***************************************************************************)
CachedIs(i) == cached # None /\ channel[cached].id = i

UseCached(i, t) ==
    /\ CachedIs(i) /\ t = cached
    /\ channel' = [channel EXCEPT ![t] = Tuned(@)]
    /\ timer' = (timer /\ channel[t].state # "last_instance")
    /\ UNCHANGED <<cached, heard>>

Share(i, t) ==
    /\ ~CachedIs(i)
    /\ t \in Busy \ {cached} /\ channel[t].id = i
    /\ Evict([Evicted EXCEPT ![t] = Tuned(@)])

Carried(i) == \E t \in Busy : channel[t].id = i

TakeTuner(i, t) ==
    /\ ~Carried(i)
    /\ Evicted[t] = None
    /\ channel' = [Evicted EXCEPT ![t] = AddUse(Tuned(New(i)))]
    /\ cached' = t
    /\ heard' = (heard \ {cached}) \cup {t}
    /\ timer' = (timer /\ cached = None)

AllocateChannel(i, t) == UseCached(i, t) \/ Share(i, t) \/ TakeTuner(i, t)

\* No tuner is left (the id may also be in no list, or tune() may fail).
AllocateFails(i) ==
    /\ ~Carried(i)
    /\ Evict(Evicted)

AllBusy == \A t \in Tuners : Evicted[t] # None

\* A handler that has the channel tunes again: its first reference stays, its
\* scan is replaced, and the channel may be down to one reference meanwhile.
Retune(t) ==
    IF cached = t
    THEN UNCHANGED channelVars
    ELSE LET alone == channel[t].use = 2
         IN  /\ channel' = [Evicted EXCEPT ![t].state = IF alone THEN "ok" ELSE @]
             /\ heard' = heard \ {cached}
             /\ cached' = None
             /\ timer' = (timer /\ cached = None /\ ~(alone /\ t \in heard))

\* free() of a service handler.
FreeChannel(t) ==
    LET left == Freed(channel[t])
    IN  /\ channel' = [channel EXCEPT ![t] = left]
        /\ timer' = IF t \notin heard THEN timer
                    ELSE IF left = None THEN FALSE
                    ELSE timer \/ left.state = "last_instance"
        /\ heard' = IF left = None THEN heard \ {t} ELSE heard
        /\ UNCHANGED cached

(***************************************************************************)
(* What happens without a service.                                         *)
(***************************************************************************)
\* The timer; the connection to the channel stays.
ReleaseCachedChannel ==
    /\ timer
    /\ timer' = FALSE
    /\ channel' = Evicted
    /\ heard' = IF cached # None /\ Evicted[cached] = None THEN heard \ {cached}
                                                           ELSE heard
    /\ cached' = None

AllocateRawChannel(t) ==
    \/ /\ Evicted[t] = None
       /\ Evict([Evicted EXCEPT ![t] = [New(Raw) EXCEPT !.use = 1]])
    \/ /\ Evicted[t] # None /\ cached # None
       /\ Evict(Evicted)

ReleaseRawChannel(t) ==
    /\ t \in Busy /\ channel[t].id = Raw
    /\ channel' = [channel EXCEPT ![t] = None]
    /\ UNCHANGED <<cached, timer, heard>>

\* A file is played: a cached channel that nobody uses is given up.
AllocatePVRChannel ==
    /\ cached # None /\ timer
    /\ Evict(Evicted)

\* frontendStateChanged.
FrontendLocks(t) ==
    /\ t \in Busy /\ channel[t].id # Raw /\ ~channel[t].locked
    /\ channel' = [channel EXCEPT ![t].locked = TRUE, ![t].state = "ok"]
    /\ timer' = (timer /\ ~(t \in heard /\ channel[t].state # "ok"))
    /\ UNCHANGED <<cached, heard>>

\* The lock is lost, or tuning has failed: the tuner tries again.
FrontendRetunes(t) ==
    /\ t \in Busy /\ channel[t].id # Raw
    /\ channel[t].locked \/ channel[t].state # "tuning"
    /\ channel' = [channel EXCEPT ![t].locked = FALSE, ![t].state = "tuning"]
    /\ UNCHANGED <<cached, timer, heard>>

=============================================================================
