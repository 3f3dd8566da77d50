-------------------------------- MODULE FCC --------------------------------
(***************************************************************************)
(* The manager of the fast channel change (fcc.cpp).  A service in         *)
(* m_FCCServices is tuned while another one is watched, so that a zap to   *)
(* it takes no time.  The manager also counts the prepared services of     *)
(* each channel, for canAllocateChannel to know which tuners it may count  *)
(* as free (dvb.cpp).                                                      *)
(*                                                                         *)
(* The state of the manager is a record m of two functions:                *)
(*   services  service -> its FCCServiceElem, for those in the map         *)
(*   chids     channel -> m_fcc_chids, 0 when it has no entry              *)
(* A call of the manager is an operator that returns the new record.       *)
(* Whether a service decodes follows from its state here: tryFCCService    *)
(* and playService call its start() whenever that changes.                 *)
(***************************************************************************)
EXTENDS Naturals, FiniteSets, Functions

CONSTANTS
    Services,   \* service references
    Plain,      \* those the decoder cannot prepare: radio, files, streams
    Usb,        \* those on a tuner from which nothing can be prepared
    Channels,
    ChannelID,  \* [Services -> Channels]
    Names       \* what the user may call a service: a reference as a string

ASSUME ServiceAssumption ==
    /\ IsFiniteSet(Services)
    /\ Plain \subseteq Services /\ Usb \subseteq Services
    /\ ChannelID \in [Services -> Channels]

\* An element, with what its service has met since it was started.
Elems == [name : Names, connected : BOOLEAN,
          state : {"preparing", "decoding", "failed"}, normal : BOOLEAN,
          locked : BOOLEAN, failed : {"no", "tune", "fcc"}]

NoServices == [services |-> << >>, chids |-> [c \in Channels |-> 0]]

InMap(m) == DOMAIN m.services

In(m, state) == {s \in InMap(m) : m.services[s].state = state}

(***************************************************************************)
(* m_fccServiceChannels                                                    *)
(***************************************************************************)
AddFCCService(m, s) == [m EXCEPT !.chids[ChannelID[s]] = @ + 1]

RemoveFCCService(m, s) ==
    [m EXCEPT !.chids[ChannelID[s]] = IF @ = 0 THEN 0 ELSE @ - 1]

(***************************************************************************)
(* FCCEvent, which hears a service only while it is connected: the failure *)
(* of a service, and the evStopped of those that are stopped and taken     *)
(* from the map.                                                           *)
(***************************************************************************)
Fails(m, s, failed) ==
    [m EXCEPT !.services[s] =
        [@ EXCEPT !.failed = failed,
                  !.state = IF m.services[s].connected THEN "failed"
                            ELSE m.services[s].state]]

Heard(m, S, c) ==
    Cardinality({s \in S \cap InMap(m) :
                    m.services[s].connected /\ ChannelID[s] = c})

Stopped(m, S) ==
    [services |-> Restrict(m.services, InMap(m) \ S),
     chids |-> [c \in Channels |->
                   IF Heard(m, S, c) > m.chids[c] THEN 0
                   ELSE m.chids[c] - Heard(m, S, c)]]

StopFailed(m) == Stopped(m, In(m, "failed"))

Cleanup(m) == Stopped(m, InMap(m))

(***************************************************************************)
(* playFCCService: a service is put into the map and started; o is the     *)
(* outcome of the start, if the tuner knows it at once.                    *)
(***************************************************************************)
Put(m, s, e) ==
    [m EXCEPT !.services = [x \in DOMAIN @ \cup {s} |->
                               IF x = s THEN e ELSE @[x]]]

StateFor(failed) == IF failed = "no" THEN "preparing" ELSE "failed"

Prepared(m, s, name, o) ==
    AddFCCService(
        Put(m, s, [name |-> name, connected |-> TRUE, normal |-> FALSE,
                   state |-> StateFor(o.failed),
                   locked |-> o.locked, failed |-> o.failed]), s)

(***************************************************************************)
(* tryFCCService: what was decoded becomes a prepared service again, or a  *)
(* failed one, and what is in the map is taken into use.                   *)
(***************************************************************************)
Reconnected(m, d) ==
    [m EXCEPT !.services[d] =
        [@ EXCEPT !.connected = TRUE, !.state = StateFor(m.services[d].failed)]]

\* Mutant: the service that was watched is not counted.
LeaveUncounted(m, d) ==
    IF m.services[d].normal THEN Stopped(m, {d}) ELSE Reconnected(m, d)

Leave(m, d) ==
    IF m.services[d].normal THEN Stopped(m, {d})
    ELSE AddFCCService(Reconnected(m, d), d)

Use(m, s) ==
    RemoveFCCService(
        [m EXCEPT !.services[s] =
            [@ EXCEPT !.connected = FALSE, !.state = "decoding"]], s)

\* Nobody hears the evStart of a service that is watched at once.
PutWatched(m, s, name, o) ==
    Put(m, s, [name |-> name, connected |-> FALSE, normal |-> o.normal,
               state |-> "decoding", locked |-> o.locked, failed |-> o.failed])
=============================================================================
