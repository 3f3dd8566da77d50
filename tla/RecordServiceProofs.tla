------------------------ MODULE RecordServiceProofs ------------------------
(***************************************************************************)
(* For any tuners, transponders and services: the use count of a channel   *)
(* is what refers to it, no two channels carry the same transponder, and   *)
(* every service has been told, holds and runs what it should.             *)
(*                                                                         *)
(* UsesCounted is nearly inductive: what a service holds is read from on,  *)
(* so beside it only the ranges of channel, cached and on are needed       *)
(* (Inv).  What the services know (Strong) rests on the order in which a   *)
(* handler sets its flags, on the calls that are still to come, and on     *)
(* last_instance being the state of a channel that only the cache holds.   *)
(***************************************************************************)
EXTENDS RecordService, FiniteSetTheorems, TLAPS

Typed ==
    /\ channel \in [Tuners -> Channel \cup {None}]
    /\ cached \in Tuners \cup {None}
    /\ on \in [Services -> Tuners \cup {None}]

Inv == Typed /\ UsesCounted /\ OneTunerPerId

UsersOf(f, t) == {s \in Services : f[s] = t}

\* The references to the channel on t.
Refs(f, c, t) == 2 * Cardinality(UsersOf(f, t)) + (IF c = t THEN 1 ELSE 0)

-----------------------------------------------------------------------------
(***************************************************************************)
(* References of one channel.                                              *)
(***************************************************************************)
LEMMA NoneApart == None \notin Tuners /\ None \notin Channel /\ Raw \notin Ids
BY ChannelAssumption

\* A channel, or one that nobody refers to yet.
Begun == [id : Ids \cup {Raw}, use : Nat, locked : BOOLEAN,
          state : {"tuning", "ok", "last_instance"}]

LEMMA AddUseCounts ==
    ASSUME NEW c \in Begun
    PROVE  /\ AddUse(c) \in Channel /\ AddUse(c).id = c.id
           /\ AddUse(c).use = c.use + 1
<1>1. c.use \in Nat /\ c.use + 1 \in Nat \ {0} /\ c.state \in {"tuning", "ok", "last_instance"}
  BY DEF Begun
<1> DEFINE st == IF c.state = "last_instance" THEN "ok" ELSE c.state
<1>2. st \in {"tuning", "ok", "last_instance"}
  BY <1>1
<1>3. AddUse(c) = [c EXCEPT !.use = c.use + 1, !.state = st]
  BY DEF AddUse
<1> HIDE DEF st
<1> QED
  BY <1>1, <1>2, <1>3 DEF Channel, Begun

LEMMA ChannelBegun == Channel \subseteq Begun
BY DEF Channel, Begun

LEMMA TunedCounts ==
    ASSUME NEW c \in Channel
    PROVE  /\ Tuned(c) \in Channel /\ Tuned(c).id = c.id
           /\ Tuned(c).use = c.use + 2
<1>1. c.use \in Nat
  BY DEF Channel
<1>2. /\ AddUse(c) \in Channel /\ AddUse(c).id = c.id
      /\ AddUse(c).use = c.use + 1
  BY ChannelBegun, AddUseCounts
<1>3. /\ AddUse(AddUse(c)) \in Channel /\ AddUse(AddUse(c)).id = AddUse(c).id
      /\ AddUse(AddUse(c)).use = AddUse(c).use + 1
  BY <1>2, ChannelBegun, AddUseCounts
<1> QED
  BY <1>1, <1>2, <1>3 DEF Tuned

LEMMA ReleaseUseCounts ==
    ASSUME NEW c \in Channel
    PROVE  /\ c.use = 1 => ReleaseUse(c) = None
           /\ c.use # 1 => /\ ReleaseUse(c) \in Channel /\ ReleaseUse(c).id = c.id
                           /\ ReleaseUse(c).use = c.use - 1
<1>1. CASE c.use = 1
  BY <1>1 DEF ReleaseUse
<1>2. CASE c.use # 1
  <2>1. c.use \in Nat \ {0} /\ c.use - 1 \in Nat \ {0} /\ c.state \in {"tuning", "ok", "last_instance"}
    BY <1>2 DEF Channel
  <2>2. ReleaseUse(c) = [id |-> c.id, use |-> c.use - 1, locked |-> c.locked,
                         state |-> IF c.use = 2 THEN "last_instance" ELSE c.state]
    BY <1>2 DEF ReleaseUse, Channel
  <2> QED
    BY <1>2, <2>1, <2>2 DEF Channel
<1> QED
  BY <1>1, <1>2

(***************************************************************************)
(* Counts under references that come and go.                               *)
(***************************************************************************)
LEMMA CountsTuned ==
    ASSUME NEW c \in Channel, NEW n \in Nat, c.id # Raw, Counts(c, n)
    PROVE  Tuned(c) \in Channel /\ Tuned(c).id = c.id /\ Counts(Tuned(c), n + 2)
<1>1. c.use = n /\ c # None
  BY NoneApart DEF Counts
<1>2. Tuned(c) \in Channel /\ Tuned(c).id = c.id /\ Tuned(c).use = n + 2
  BY <1>1, TunedCounts
<1> QED
  BY <1>2, NoneApart DEF Counts

LEMMA CountsReleased ==
    ASSUME NEW c \in Channel, NEW n \in Nat, Counts(c, n), n # 0
    PROVE  /\ ReleaseUse(c) \in Channel \cup {None}
           /\ ReleaseUse(c) # None => ReleaseUse(c).id = c.id
           /\ Counts(ReleaseUse(c), n - 1)
<1>1. c.use = n /\ c # None /\ c.id # Raw
  BY NoneApart DEF Counts
<1>2. CASE n = 1
  BY <1>1, <1>2, ReleaseUseCounts DEF Counts
<1>3. CASE n # 1
  <2>1. ReleaseUse(c) \in Channel /\ ReleaseUse(c).id = c.id /\ ReleaseUse(c).use = n - 1
    BY <1>1, <1>3, ReleaseUseCounts
  <2> QED
    BY <1>1, <2>1, NoneApart DEF Counts
<1> QED
  BY <1>2, <1>3

LEMMA CountsFreed ==
    ASSUME NEW c \in Channel, NEW n \in Nat, Counts(c, n + 2)
    PROVE  /\ Freed(c) \in Channel \cup {None}
           /\ Freed(c) # None => Freed(c).id = c.id
           /\ Counts(Freed(c), n)
<1>1. /\ n + 2 \in Nat /\ n + 2 # 0 /\ (n + 2) - 1 = n + 1
      /\ n + 1 \in Nat /\ n + 1 # 0 /\ (n + 1) - 1 = n
  OBVIOUS
<1>2. /\ ReleaseUse(c) \in Channel \cup {None}
      /\ ReleaseUse(c) # None => ReleaseUse(c).id = c.id
      /\ Counts(ReleaseUse(c), n + 1)
  BY <1>1, CountsReleased
<1>3. ReleaseUse(c) \in Channel /\ ReleaseUse(c).id = c.id
  BY <1>1, <1>2 DEF Counts
<1>4. /\ ReleaseUse(ReleaseUse(c)) \in Channel \cup {None}
      /\ ReleaseUse(ReleaseUse(c)) # None => ReleaseUse(ReleaseUse(c)).id = ReleaseUse(c).id
      /\ Counts(ReleaseUse(ReleaseUse(c)), n)
  BY <1>1, <1>2, <1>3, CountsReleased
<1> QED
  BY <1>3, <1>4 DEF Freed

-----------------------------------------------------------------------------
(***************************************************************************)
(* The services on a tuner.                                                *)
(***************************************************************************)
LEMMA UsersFinite ==
    ASSUME NEW f, NEW t
    PROVE  IsFiniteSet(UsersOf(f, t)) /\ Cardinality(UsersOf(f, t)) \in Nat
<1>1. IsFiniteSet(UsersOf(f, t))
  BY ServiceAssumption, FS_Subset DEF UsersOf
<1> QED
  BY <1>1, FS_CardinalityType

LEMMA UserAdded ==
    ASSUME NEW f, NEW g, NEW s \in Services, NEW t \in Tuners,
           f[s] = None, g[s] = t, \A x \in Services : x # s => f[x] = g[x]
    PROVE  /\ Cardinality(UsersOf(g, t)) = Cardinality(UsersOf(f, t)) + 1
           /\ \A x \in Tuners : x # t => UsersOf(g, x) = UsersOf(f, x)
<1>1. UsersOf(g, t) = UsersOf(f, t) \cup {s} /\ s \notin UsersOf(f, t)
  BY NoneApart DEF UsersOf
<1>2. \A x \in Tuners : x # t => UsersOf(g, x) = UsersOf(f, x)
  BY NoneApart DEF UsersOf
<1>3. Cardinality(UsersOf(f, t) \cup {s}) = Cardinality(UsersOf(f, t)) + 1
  BY <1>1, UsersFinite, FS_AddElement
<1> QED
  BY <1>1, <1>2, <1>3

LEMMA UserThere ==
    ASSUME NEW f, NEW s \in Services, NEW t, f[s] = t
    PROVE  Cardinality(UsersOf(f, t)) # 0
<1>1. UsersOf(f, t) # {}
  BY DEF UsersOf
<1> QED
  BY <1>1, UsersFinite, FS_EmptySet

LEMMA RefsNat ==
    ASSUME NEW f, NEW c, NEW t
    PROVE  /\ Refs(f, c, t) \in Nat
           /\ c = t => Refs(f, c, t) = 2 * Cardinality(UsersOf(f, t)) + 1
           /\ c # t => Refs(f, c, t) = 2 * Cardinality(UsersOf(f, t))
BY UsersFinite DEF Refs

-----------------------------------------------------------------------------
(***************************************************************************)
(* Parts of a step.                                                        *)
(***************************************************************************)
LEMMA CountsNow ==
    ASSUME Inv, NEW t \in Tuners
    PROVE  /\ channel[t] \in Channel \cup {None}
           /\ Counts(channel[t], Refs(on, cached, t))
BY DEF Inv, Typed, UsesCounted, Refs, Users, UsersOf

LEMMA EvictedCounts ==
    ASSUME Inv, NEW t \in Tuners
    PROVE  /\ Evicted[t] \in Channel \cup {None}
           /\ Evicted[t] # None => channel[t] # None /\ Evicted[t].id = channel[t].id
           /\ Counts(Evicted[t], Refs(on, None, t))
<1>1. /\ channel[t] \in Channel \cup {None}
      /\ Counts(channel[t], Refs(on, cached, t))
  BY CountsNow
<1>2. None # t
  BY NoneApart
<1>3. CASE t = cached
  <2>1. /\ Refs(on, cached, t) \in Nat /\ Refs(on, cached, t) # 0
        /\ Refs(on, cached, t) - 1 = Refs(on, None, t)
    BY <1>2, <1>3, UsersFinite, RefsNat
  <2>2. channel[t] \in Channel
    BY <1>1, <2>1 DEF Counts
  <2>3. Evicted[t] = ReleaseUse(channel[t])
    BY <1>3 DEF Evicted
  <2>4. /\ ReleaseUse(channel[t]) \in Channel \cup {None}
        /\ ReleaseUse(channel[t]) # None => ReleaseUse(channel[t]).id = channel[t].id
        /\ Counts(ReleaseUse(channel[t]), Refs(on, cached, t) - 1)
    BY <1>1, <2>1, <2>2, CountsReleased
  <2> QED
    BY <2>1, <2>2, <2>3, <2>4, NoneApart
<1>4. CASE t # cached
  <2>1. Evicted[t] = channel[t]
    BY <1>4 DEF Evicted
  <2>2. Refs(on, cached, t) = Refs(on, None, t)
    BY <1>2, <1>4, RefsNat
  <2> QED
    BY <1>1, <2>1, <2>2
<1> QED
  BY <1>3, <1>4

\* The invariant after a step, tuner by tuner.
LEMMA Assembled ==
    ASSUME DOMAIN channel' = Tuners, channel' = [t \in Tuners |-> channel'[t]],
           cached' \in Tuners \cup {None},
           on' \in [Services -> Tuners \cup {None}],
           \A t \in Tuners : /\ channel'[t] \in Channel \cup {None}
                             /\ Counts(channel'[t], Refs(on', cached', t)),
           OneTunerPerId'
    PROVE  Inv'
<1>1. Typed'
  BY DEF Typed
<1>2. UsesCounted'
  BY DEF UsesCounted, Refs, Users, UsersOf
<1> QED
  BY <1>1, <1>2 DEF Inv

\* Channels that stay keep what they are tuned to.
LEMMA IdsKept ==
    ASSUME Inv,
           \A t \in Tuners : channel'[t] # None =>
               channel[t] # None /\ channel'[t].id = channel[t].id
    PROVE  OneTunerPerId'
BY DEF Inv, OneTunerPerId, Busy

\* on after s has come to t, or left it.
Comes(s, t) ==
    /\ on' \in [Services -> Tuners \cup {None}]
    /\ on[s] = None /\ on'[s] = t
    /\ \A x \in Services : x # s => on[x] = on'[x]

Goes(s, t) ==
    /\ on' \in [Services -> Tuners \cup {None}]
    /\ on[s] = t /\ on'[s] = None
    /\ \A x \in Services : x # s => on'[x] = on[x]

LEMMA Joins ==
    ASSUME NEW s \in Services, NEW t \in Tuners, Comes(s, t)
    PROVE  /\ \A c : Refs(on', c, t) = Refs(on, c, t) + 2
           /\ \A c : \A x \in Tuners : x # t => Refs(on', c, x) = Refs(on, c, x)
<1>1. /\ Cardinality(UsersOf(on', t)) = Cardinality(UsersOf(on, t)) + 1
      /\ \A x \in Tuners : x # t => UsersOf(on', x) = UsersOf(on, x)
  BY UserAdded DEF Comes
<1>2. \A c : Refs(on', c, t) = Refs(on, c, t) + 2
  BY <1>1, UsersFinite DEF Refs
<1>3. \A c : \A x \in Tuners : x # t => Refs(on', c, x) = Refs(on, c, x)
  BY <1>1 DEF Refs
<1> QED
  BY <1>2, <1>3

LEMMA Leaves ==
    ASSUME NEW s \in Services, NEW t \in Tuners, Goes(s, t)
    PROVE  /\ \A c : Refs(on, c, t) = Refs(on', c, t) + 2
           /\ \A c : \A x \in Tuners : x # t => Refs(on', c, x) = Refs(on, c, x)
<1>1. /\ Cardinality(UsersOf(on, t)) = Cardinality(UsersOf(on', t)) + 1
      /\ \A x \in Tuners : x # t => UsersOf(on, x) = UsersOf(on', x)
  BY UserAdded DEF Goes
<1>2. \A c : Refs(on, c, t) = Refs(on', c, t) + 2
  BY <1>1, UsersFinite DEF Refs
<1>3. \A c : \A x \in Tuners : x # t => Refs(on', c, x) = Refs(on, c, x)
  BY <1>1 DEF Refs
<1> QED
  BY <1>2, <1>3

-----------------------------------------------------------------------------
(***************************************************************************)
(* The allocations.                                                        *)
(***************************************************************************)
LEMMA TunedCached ==
    ASSUME Inv, NEW s \in Services, NEW i \in Ids, NEW t \in Tuners,
           Comes(s, t), UseCached(i, t)
    PROVE  Inv'
<1>1. /\ cached = t /\ cached' = t /\ channel[t].id = i
      /\ channel' = [channel EXCEPT ![t] = Tuned(channel[t])]
  BY DEF UseCached, CachedIs
<1>2. channel \in [Tuners -> Channel \cup {None}]
  BY DEF Inv, Typed
<1>3. Refs(on, t, t) \in Nat /\ Refs(on, t, t) # 0
  BY UsersFinite, RefsNat
<1>4. channel[t] \in Channel /\ channel[t].id # Raw /\ Counts(channel[t], Refs(on, t, t))
  BY <1>1, <1>3, CountsNow, NoneApart DEF Counts
<1>5. /\ Tuned(channel[t]) \in Channel /\ Tuned(channel[t]).id = channel[t].id
      /\ Counts(Tuned(channel[t]), Refs(on, t, t) + 2)
  BY <1>3, <1>4, CountsTuned
<1>6. /\ on' \in [Services -> Tuners \cup {None}]
      /\ \A c : Refs(on', c, t) = Refs(on, c, t) + 2
      /\ \A c : \A x \in Tuners : x # t => Refs(on', c, x) = Refs(on, c, x)
  BY Joins DEF Comes
<1>7. ASSUME NEW x \in Tuners
      PROVE  /\ channel'[x] \in Channel \cup {None}
             /\ Counts(channel'[x], Refs(on', cached', x))
             /\ channel'[x] # None => channel[x] # None /\ channel'[x].id = channel[x].id
  <2>1. CASE x = t
    BY <1>1, <1>2, <1>4, <1>5, <1>6, <2>1, NoneApart
  <2>2. CASE x # t
    BY <1>1, <1>2, <1>6, <2>2, CountsNow
  <2> QED
    BY <2>1, <2>2
<1>8. OneTunerPerId'
  BY <1>7, IdsKept
<1>9. DOMAIN channel' = Tuners /\ channel' = [x \in Tuners |-> channel'[x]]
  BY <1>1, <1>2
<1> QED
  BY <1>1, <1>6, <1>7, <1>8, <1>9, Assembled

LEMMA TunedShared ==
    ASSUME Inv, NEW s \in Services, NEW i \in Ids, NEW t \in Tuners,
           Comes(s, t), Share(i, t)
    PROVE  Inv'
<1>1. /\ t # cached /\ cached' = None /\ channel[t] # None /\ channel[t].id = i
      /\ channel' = [Evicted EXCEPT ![t] = Tuned(Evicted[t])]
  BY DEF Share, Evict, Busy
<1>2. DOMAIN Evicted = Tuners /\ Evicted[t] = channel[t]
  BY <1>1 DEF Evicted
<1>3. Refs(on, None, t) \in Nat
  BY RefsNat
<1>4. Evicted[t] \in Channel /\ Evicted[t].id # Raw /\ Counts(Evicted[t], Refs(on, None, t))
  BY <1>1, <1>2, EvictedCounts, NoneApart
<1>5. /\ Tuned(Evicted[t]) \in Channel /\ Tuned(Evicted[t]).id = Evicted[t].id
      /\ Counts(Tuned(Evicted[t]), Refs(on, None, t) + 2)
  BY <1>3, <1>4, CountsTuned
<1>6. /\ on' \in [Services -> Tuners \cup {None}]
      /\ \A c : Refs(on', c, t) = Refs(on, c, t) + 2
      /\ \A c : \A x \in Tuners : x # t => Refs(on', c, x) = Refs(on, c, x)
  BY Joins DEF Comes
<1>7. ASSUME NEW x \in Tuners
      PROVE  /\ channel'[x] \in Channel \cup {None}
             /\ Counts(channel'[x], Refs(on', cached', x))
             /\ channel'[x] # None => channel[x] # None /\ channel'[x].id = channel[x].id
  <2>1. CASE x = t
    BY <1>1, <1>2, <1>5, <1>6, <2>1
  <2>2. CASE x # t
    <3>1. channel'[x] = Evicted[x]
      BY <1>1, <1>2, <2>2
    <3> QED
      BY <1>1, <1>6, <2>2, <3>1, EvictedCounts
  <2> QED
    BY <2>1, <2>2
<1>8. OneTunerPerId'
  BY <1>7, IdsKept
<1>9. DOMAIN channel' = Tuners /\ channel' = [x \in Tuners |-> channel'[x]]
  BY <1>1, <1>2 DEF Evicted
<1> QED
  BY <1>1, <1>6, <1>7, <1>8, <1>9, Assembled

LEMMA NewCounts ==
    ASSUME NEW i \in Ids
    PROVE  /\ AddUse(Tuned(New(i))) \in Channel
           /\ AddUse(Tuned(New(i))).id = i
           /\ AddUse(Tuned(New(i))).use = 3
<1>1. New(i) \in Begun /\ New(i).id = i /\ New(i).use = 0
  BY DEF New, Begun
<1> DEFINE one == AddUse(New(i))
<1>2. one \in Channel /\ one.id = i /\ one.use = 1
  BY <1>1, AddUseCounts
<1> HIDE DEF one
<1>3. AddUse(one) \in Channel /\ AddUse(one).id = i /\ AddUse(one).use = 2
  BY <1>2, ChannelBegun, AddUseCounts
<1>4. /\ AddUse(AddUse(one)) \in Channel /\ AddUse(AddUse(one)).id = i
      /\ AddUse(AddUse(one)).use = 3
  BY <1>3, ChannelBegun, AddUseCounts
<1> QED
  BY <1>4 DEF Tuned, one

LEMMA TunedNew ==
    ASSUME Inv, NEW s \in Services, NEW i \in Ids, NEW t \in Tuners,
           Comes(s, t), TakeTuner(i, t)
    PROVE  Inv'
<1> DEFINE new == AddUse(Tuned(New(i)))
<1>1. /\ Evicted[t] = None /\ cached' = t /\ ~Carried(i)
      /\ channel' = [Evicted EXCEPT ![t] = new]
  BY DEF TakeTuner
<1>2. DOMAIN Evicted = Tuners
  BY DEF Evicted
<1>3. new \in Channel /\ new.id = i /\ new.use = 3
  BY NewCounts
<1> HIDE DEF new
<1>4. Refs(on, None, t) = 0
  BY <1>1, EvictedCounts DEF Counts
<1>5. /\ on' \in [Services -> Tuners \cup {None}]
      /\ \A c : Refs(on', c, t) = Refs(on, c, t) + 2
      /\ \A c : \A x \in Tuners : x # t => Refs(on', c, x) = Refs(on, c, x)
  BY Joins DEF Comes
<1>6. Refs(on', t, t) = 3
  <2>1. Refs(on, t, t) = Refs(on, None, t) + 1
    BY UsersFinite, RefsNat, NoneApart
  <2>2. Refs(on', t, t) = Refs(on, t, t) + 2
    BY <1>5
  <2> QED
    BY <1>4, <2>1, <2>2
<1>7. Counts(new, 3)
  BY <1>3, NoneApart DEF Counts
<1>8. ASSUME NEW x \in Tuners, x # t
      PROVE  /\ channel'[x] \in Channel \cup {None}
             /\ Counts(channel'[x], Refs(on', cached', x))
             /\ channel'[x] # None => channel[x] # None /\ channel'[x].id = channel[x].id
  <2>1. channel'[x] = Evicted[x]
    BY <1>1, <1>2, <1>8
  <2>2. Refs(on', t, x) = Refs(on, t, x) /\ Refs(on, t, x) = Refs(on, None, x)
    <3>1. Refs(on, t, x) = Refs(on, None, x)
      BY <1>8, RefsNat, NoneApart
    <3> QED
      BY <1>5, <1>8, <3>1
  <2> QED
    BY <1>1, <2>1, <2>2, EvictedCounts
<1>9. channel'[t] = new
  BY <1>1, <1>2
<1>10. OneTunerPerId'
  <2> SUFFICES ASSUME NEW x \in Tuners, NEW y \in Tuners, channel'[x] # None, channel'[y] # None,
                      channel'[x].id = channel'[y].id, channel'[x].id # Raw
               PROVE  x = y
    BY DEF OneTunerPerId, Busy
  <2>1. CASE x # t /\ y # t
    BY <1>8, <2>1 DEF Inv, OneTunerPerId, Busy
  <2>2. CASE x = t /\ y # t
    BY <1>1, <1>3, <1>8, <1>9, <2>2 DEF Carried, Busy
  <2>3. CASE x # t /\ y = t
    BY <1>1, <1>3, <1>8, <1>9, <2>3 DEF Carried, Busy
  <2> QED
    BY <2>1, <2>2, <2>3
<1>11. DOMAIN channel' = Tuners /\ channel' = [x \in Tuners |-> channel'[x]]
  BY <1>1, <1>2 DEF Evicted
<1>12. ASSUME NEW x \in Tuners
       PROVE  channel'[x] \in Channel \cup {None} /\ Counts(channel'[x], Refs(on', cached', x))
  BY <1>1, <1>3, <1>6, <1>7, <1>8, <1>9
<1> QED
  BY <1>1, <1>5, <1>10, <1>11, <1>12, Assembled

LEMMA TuneStep ==
    ASSUME Inv, NEW s \in Services, NEW i \in Ids, NEW t \in Tuners, Tune(s, i, t)
    PROVE  Inv'
<1>1. on' = [on EXCEPT ![s] = t] /\ on[s] = None
  BY DEF Tune
<1>2. Comes(s, t)
  BY <1>1 DEF Comes, Inv, Typed
<1>3. UseCached(i, t) \/ Share(i, t) \/ TakeTuner(i, t)
  BY DEF Tune, AllocateChannel
<1> QED
  BY <1>2, <1>3, TunedCached, TunedShared, TunedNew

-----------------------------------------------------------------------------
(***************************************************************************)
(* The other steps that reach a channel.                                   *)
(***************************************************************************)
LEMMA FreeStep ==
    ASSUME Inv, NEW s \in Services, Free(s)
    PROVE  Inv'
<1>1. PICK t \in Tuners : on[s] = t
  BY DEF Free, Inv, Typed
<1>2. /\ channel' = [channel EXCEPT ![t] = Freed(channel[t])] /\ cached' = cached
      /\ on' = [on EXCEPT ![s] = None]
  BY <1>1 DEF Free, FreeChannel
<1>3. Goes(s, t)
  BY <1>1, <1>2 DEF Goes, Inv, Typed
<1>4. channel \in [Tuners -> Channel \cup {None}] /\ cached \in Tuners \cup {None}
  BY DEF Inv, Typed
<1>5. /\ Refs(on, cached, t) = Refs(on', cached, t) + 2
      /\ \A x \in Tuners : x # t => Refs(on', cached, x) = Refs(on, cached, x)
  BY <1>3, Leaves
<1>6. Refs(on', cached, t) \in Nat /\ Counts(channel[t], Refs(on', cached, t) + 2)
  BY <1>5, RefsNat, CountsNow
<1>7. channel[t] \in Channel
  BY <1>4, <1>6 DEF Counts
<1>8. /\ Freed(channel[t]) \in Channel \cup {None}
      /\ Freed(channel[t]) # None => Freed(channel[t]).id = channel[t].id
      /\ Counts(Freed(channel[t]), Refs(on', cached, t))
  BY <1>6, <1>7, CountsFreed
<1>9. ASSUME NEW x \in Tuners
      PROVE  /\ channel'[x] \in Channel \cup {None}
             /\ Counts(channel'[x], Refs(on', cached', x))
             /\ channel'[x] # None => channel[x] # None /\ channel'[x].id = channel[x].id
  <2>1. CASE x = t
    BY <1>2, <1>4, <1>7, <1>8, <2>1, NoneApart
  <2>2. CASE x # t
    BY <1>2, <1>4, <1>5, <2>2, CountsNow
  <2> QED
    BY <2>1, <2>2
<1>10. OneTunerPerId'
  BY <1>9, IdsKept
<1>11. DOMAIN channel' = Tuners /\ channel' = [x \in Tuners |-> channel'[x]]
  BY <1>2, <1>4
<1> QED
  BY <1>2, <1>3, <1>4, <1>9, <1>10, <1>11, Assembled DEF Goes

\* Nothing but the reference of the cache is given up.
LEMMA EvictStep ==
    ASSUME Inv, on' = on, channel' = Evicted, cached' = None
    PROVE  Inv'
<1>1. ASSUME NEW x \in Tuners
      PROVE  /\ channel'[x] \in Channel \cup {None}
             /\ Counts(channel'[x], Refs(on', cached', x))
             /\ channel'[x] # None => channel[x] # None /\ channel'[x].id = channel[x].id
  BY EvictedCounts
<1>2. OneTunerPerId'
  BY <1>1, IdsKept
<1>3. DOMAIN channel' = Tuners /\ channel' = [x \in Tuners |-> channel'[x]]
  BY DEF Evicted
<1> QED
  BY <1>1, <1>2, <1>3, Assembled DEF Inv, Typed

\* The channel on t changes in anything but its references and its id.
LEMMA ChangeStep ==
    ASSUME Inv, on' = on, NEW t \in Tuners, NEW c \in Channel, channel[t] # None,
           c.id = channel[t].id, c.use = channel[t].use,
           \/ channel' = [channel EXCEPT ![t] = c] /\ cached' = cached
           \/ t # cached /\ channel' = [Evicted EXCEPT ![t] = c] /\ cached' = None
    PROVE  Inv'
<1>1. channel \in [Tuners -> Channel \cup {None}] /\ cached \in Tuners \cup {None}
      /\ on \in [Services -> Tuners \cup {None}]
  BY DEF Inv, Typed
<1>2. \A n : Counts(channel[t], n) => Counts(c, n)
  BY NoneApart DEF Counts
<1>3. CASE channel' = [channel EXCEPT ![t] = c] /\ cached' = cached
  <2>1. ASSUME NEW x \in Tuners
        PROVE  /\ channel'[x] \in Channel \cup {None}
               /\ Counts(channel'[x], Refs(on', cached', x))
               /\ channel'[x] # None => channel[x] # None /\ channel'[x].id = channel[x].id
    <3>1. CASE x = t
      BY <1>1, <1>2, <1>3, <3>1, CountsNow
    <3>2. CASE x # t
      BY <1>1, <1>3, <3>2, CountsNow
    <3> QED
      BY <3>1, <3>2
  <2>2. OneTunerPerId'
    BY <2>1, IdsKept
  <2>3. DOMAIN channel' = Tuners /\ channel' = [x \in Tuners |-> channel'[x]]
    BY <1>1, <1>3
  <2> QED
    BY <1>1, <1>3, <2>1, <2>2, <2>3, Assembled
<1>4. CASE t # cached /\ channel' = [Evicted EXCEPT ![t] = c] /\ cached' = None
  <2>1. DOMAIN Evicted = Tuners /\ Evicted[t] = channel[t]
    BY <1>4 DEF Evicted
  <2>2. ASSUME NEW x \in Tuners
        PROVE  /\ channel'[x] \in Channel \cup {None}
               /\ Counts(channel'[x], Refs(on', cached', x))
               /\ channel'[x] # None => channel[x] # None /\ channel'[x].id = channel[x].id
    <3>1. CASE x = t
      BY <1>2, <1>4, <2>1, <3>1, EvictedCounts
    <3>2. CASE x # t
      <4>1. channel'[x] = Evicted[x]
        BY <1>4, <2>1, <3>2
      <4> QED
        BY <1>4, <4>1, EvictedCounts
    <3> QED
      BY <3>1, <3>2
  <2>3. OneTunerPerId'
    BY <2>2, IdsKept
  <2>4. DOMAIN channel' = Tuners /\ channel' = [x \in Tuners |-> channel'[x]]
    BY <1>4, <2>1 DEF Evicted
  <2> QED
    BY <1>1, <1>4, <2>2, <2>3, <2>4, Assembled
<1> QED
  BY <1>3, <1>4

LEMMA RawStep ==
    ASSUME Inv, on' = on, NEW t \in Tuners, AllocateRawChannel(t) \/ ReleaseRawChannel(t)
    PROVE  Inv'
<1>1. CASE AllocateRawChannel(t)
  <2> DEFINE raw == [New(Raw) EXCEPT !.use = 1]
  <2>1. raw \in Channel /\ raw.id = Raw /\ raw.use = 1
    <3>1. New(Raw) \in Begun /\ New(Raw).id = Raw
      BY DEF New, Begun
    <3> QED
      BY <3>1 DEF Channel, Begun
  <2> HIDE DEF raw
  <2>2. CASE Evicted[t] = None /\ Evict([Evicted EXCEPT ![t] = raw])
    <3>1. channel' = [Evicted EXCEPT ![t] = raw] /\ cached' = None
      BY <2>2 DEF Evict
    <3>2. DOMAIN Evicted = Tuners
      BY DEF Evicted
    <3>3. Refs(on, None, t) = 0
      BY <2>2, EvictedCounts DEF Counts
    <3>4. channel'[t] = raw /\ Counts(raw, 0)
      BY <2>1, <3>1, <3>2, NoneApart DEF Counts
    <3>5. ASSUME NEW x \in Tuners, x # t
          PROVE  /\ channel'[x] \in Channel \cup {None}
                 /\ Counts(channel'[x], Refs(on', cached', x))
                 /\ channel'[x] # None => channel[x] # None /\ channel'[x].id = channel[x].id
      <4>1. channel'[x] = Evicted[x]
        BY <3>1, <3>2, <3>5
      <4> QED
        BY <3>1, <4>1, EvictedCounts
    <3>6. OneTunerPerId'
      <4> SUFFICES ASSUME NEW x \in Tuners, NEW y \in Tuners, channel'[x] # None, channel'[y] # None,
                          channel'[x].id = channel'[y].id, channel'[x].id # Raw
                   PROVE  x = y
        BY DEF OneTunerPerId, Busy
      <4>1. x # t /\ y # t
        BY <2>1, <3>4
      <4> QED
        BY <3>5, <4>1 DEF Inv, OneTunerPerId, Busy
    <3>7. DOMAIN channel' = Tuners /\ channel' = [x \in Tuners |-> channel'[x]]
      BY <3>1, <3>2 DEF Evicted
    <3>8. ASSUME NEW x \in Tuners
          PROVE  channel'[x] \in Channel \cup {None} /\ Counts(channel'[x], Refs(on', cached', x))
      BY <2>1, <3>1, <3>3, <3>4, <3>5
    <3> QED
      BY <3>1, <3>6, <3>7, <3>8, Assembled DEF Inv, Typed
  <2>3. CASE Evict(Evicted)
    BY <2>3, EvictStep DEF Evict
  <2> QED
    BY <1>1, <2>2, <2>3 DEF AllocateRawChannel, raw
<1>2. CASE ReleaseRawChannel(t)
  <2>1. /\ channel[t] # None /\ channel[t].id = Raw /\ cached' = cached
        /\ channel' = [channel EXCEPT ![t] = None]
    BY <1>2 DEF ReleaseRawChannel, Busy
  <2>2. channel \in [Tuners -> Channel \cup {None}]
    BY DEF Inv, Typed
  <2>3. Refs(on, cached, t) = 0
    BY <2>1, CountsNow DEF Counts
  <2>4. ASSUME NEW x \in Tuners
        PROVE  /\ channel'[x] \in Channel \cup {None}
               /\ Counts(channel'[x], Refs(on', cached', x))
               /\ channel'[x] # None => channel[x] # None /\ channel'[x].id = channel[x].id
    <3>1. CASE x = t
      BY <2>1, <2>2, <2>3, <3>1 DEF Counts
    <3>2. CASE x # t
      BY <2>1, <2>2, <3>2, CountsNow
    <3> QED
      BY <3>1, <3>2
  <2>5. OneTunerPerId'
    BY <2>4, IdsKept
  <2>6. DOMAIN channel' = Tuners /\ channel' = [x \in Tuners |-> channel'[x]]
    BY <2>1, <2>2
  <2> QED
    BY <2>1, <2>4, <2>5, <2>6, Assembled DEF Inv, Typed
<1> QED
  BY <1>1, <1>2

LEMMA FrontendStep ==
    ASSUME Inv, on' = on, NEW t \in Tuners, FrontendLocks(t) \/ FrontendRetunes(t)
    PROVE  Inv'
<1>1. channel[t] \in Channel /\ channel[t] # None /\ cached' = cached
      /\ channel \in [Tuners -> Channel \cup {None}]
  BY DEF FrontendLocks, FrontendRetunes, Busy, Inv, Typed
<1> DEFINE ok == [channel[t] EXCEPT !.locked = TRUE, !.state = "ok"]
           tuning == [channel[t] EXCEPT !.locked = FALSE, !.state = "tuning"]
<1>2. /\ ok \in Channel /\ ok.id = channel[t].id /\ ok.use = channel[t].use
      /\ tuning \in Channel /\ tuning.id = channel[t].id /\ tuning.use = channel[t].use
  BY <1>1 DEF Channel
<1>3. \/ channel' = [channel EXCEPT ![t] = ok]
      \/ channel' = [channel EXCEPT ![t] = tuning]
  BY <1>1 DEF FrontendLocks, FrontendRetunes
<1> HIDE DEF ok, tuning
<1> QED
  BY <1>1, <1>2, <1>3, ChangeStep

LEMMA RetuneStep ==
    ASSUME Inv, on' = on, NEW s \in Services, Retune(on[s])
    PROVE  Inv'
<1>1. CASE cached = on[s]
  BY <1>1 DEF Retune, channelVars, Inv, Typed, UsesCounted, OneTunerPerId, Users, Busy
<1>2. CASE cached # on[s] /\ on[s] = None
  <2>1. channel' = [Evicted EXCEPT ![None].state =
                        IF channel[None].use = 2 THEN "ok" ELSE @] /\ cached' = None
    BY <1>2 DEF Retune
  <2>2. channel' = Evicted
    BY <2>1, NoneApart DEF Evicted
  <2> QED
    BY <2>1, <2>2, EvictStep
<1>3. CASE cached # on[s] /\ on[s] # None
  <2>1. PICK t \in Tuners : on[s] = t
    BY <1>3 DEF Inv, Typed
  <2>2. Evicted[t] = channel[t] /\ DOMAIN Evicted = Tuners
    BY <1>3, <2>1 DEF Evicted
  <2>3. channel[t] \in Channel /\ channel[t] # None
    <3>1. Refs(on, cached, t) # 0
      BY <2>1, UserThere, UsersFinite, RefsNat
    <3> QED
      BY <3>1, CountsNow, NoneApart DEF Counts
  <2> DEFINE st == IF channel[t].use = 2 THEN "ok" ELSE channel[t].state
             c == [channel[t] EXCEPT !.state = st]
  <2>4. st \in {"tuning", "ok", "last_instance"}
    BY <2>3 DEF Channel
  <2>5. channel' = [Evicted EXCEPT ![t] = c] /\ cached' = None
    BY <1>3, <2>1, <2>2 DEF Retune
  <2> HIDE DEF st
  <2>6. c \in Channel /\ c.id = channel[t].id /\ c.use = channel[t].use
    BY <2>3, <2>4 DEF Channel
  <2> HIDE DEF c
  <2> QED
    BY <1>3, <2>1, <2>3, <2>5, <2>6, ChangeStep
<1> QED
  BY <1>1, <1>2, <1>3

LEMMA Unchanged ==
    ASSUME Inv, UNCHANGED <<channelVars, on>>
    PROVE  Inv'
BY DEF channelVars, Inv, Typed, UsesCounted, OneTunerPerId, Users, Busy

-----------------------------------------------------------------------------
LEMMA InitInv == Init => Inv
<1> SUFFICES ASSUME Init PROVE Inv
  OBVIOUS
<1>1. /\ channel = [t \in Tuners |-> None] /\ cached = None
      /\ on = [s \in Services |-> None]
  BY DEF Init, ChannelInit
<1>2. Typed
  BY <1>1 DEF Typed
<1>3. UsesCounted
  <2>1. \A t \in Tuners : Users(t) = {} /\ cached # t
    BY <1>1, NoneApart DEF Users
  <2> QED
    BY <1>1, <2>1, FS_EmptySet DEF UsesCounted, Counts
<1>4. OneTunerPerId
  BY <1>1 DEF OneTunerPerId, Busy
<1> QED
  BY <1>2, <1>3, <1>4 DEF Inv

LEMMA NextInv == Inv /\ [Next]_vars => Inv'
<1> SUFFICES ASSUME Inv, [Next]_vars PROVE Inv'
  OBVIOUS
<1>1. ASSUME NEW s \in Services, NEW i \in Ids, Play(s, i) PROVE Inv'
  BY <1>1, TuneStep DEF Play
<1>2. ASSUME NEW s \in Services, StopService(s) PROVE Inv'
  BY <1>2, FreeStep DEF StopService
<1>3. ASSUME NEW i \in Ids, Refuse(i) PROVE Inv'
  BY <1>3, EvictStep DEF Refuse, AllocateFails, Evict, handlerVars
<1>4. ASSUME NEW r \in Recordings, NEW i \in Ids, Record(r, i) PROVE Inv'
  BY <1>4, TuneStep, ServiceAssumption DEF Record
<1>5. ASSUME NEW r \in Recordings, Start(r) PROVE Inv'
  BY <1>5, Unchanged DEF Start, handlerVars
<1>6. ASSUME NEW r \in Recordings, StopRecord(r) PROVE Inv'
  BY <1>6, FreeStep, ServiceAssumption DEF StopRecord
<1>7. ASSUME NEW r \in Recordings, WriteData(r) \/ WriteError(r) PROVE Inv'
  BY <1>7, Unchanged DEF WriteData, WriteError, handlerVars
<1>8. ASSUME NEW s \in Services, EventTuned(s) \/ PMTready(s) PROVE Inv'
  BY <1>8, Unchanged DEF EventTuned, PMTready
<1>9. ASSUME NEW s \in Services, EventNewProgramInfo(s) PROVE Inv'
  <2>1. on' = on
    BY <1>9 DEF EventNewProgramInfo, handlerVars
  <2>2. Retune(on[s]) \/ UNCHANGED channelVars
    BY <1>9 DEF EventNewProgramInfo, Prepares, GoesOn
  <2> QED
    BY <2>1, <2>2, RetuneStep, Unchanged
<1>10. ASSUME NEW t \in Tuners, Lock(t) PROVE Inv'
  BY <1>10, FrontendStep DEF Lock, handlerVars
<1>11. ASSUME Alone PROVE Inv'
  <2>1. on' = on
    BY <1>11 DEF Alone, handlerVars
  <2>2. CASE ReleaseCachedChannel \/ AllocatePVRChannel
    BY <2>1, <2>2, EvictStep DEF ReleaseCachedChannel, AllocatePVRChannel, Evict
  <2>3. CASE \E t \in Tuners : AllocateRawChannel(t) \/ ReleaseRawChannel(t)
    BY <2>1, <2>3, RawStep
  <2>4. CASE \E t \in Tuners : FrontendRetunes(t)
    BY <2>1, <2>4, FrontendStep
  <2> QED
    BY <1>11, <2>2, <2>3, <2>4 DEF Alone
<1>12. CASE UNCHANGED vars
  BY <1>12, Unchanged DEF vars, handlerVars
<1>13. CASE Next
  BY <1>1, <1>2, <1>3, <1>4, <1>5, <1>6, <1>7, <1>8, <1>9, <1>10, <1>11, <1>13, Zenon DEF Next
<1> QED
  BY <1>12, <1>13

\* The use count of every channel is two for each service on it and one for the
\* cache, through every allocation, tuning, release, time-out and failure.
THEOREM UsesAlwaysCounted == Spec => []UsesCounted
<1>1. Inv => UsesCounted
  BY DEF Inv
<1> QED
  BY <1>1, InitInv, NextInv, PTL DEF Spec

\* No two tuners are ever spent on the same transponder.
THEOREM NoTunerWasted == Spec => []OneTunerPerId
<1>1. Inv => OneTunerPerId
  BY DEF Inv
<1> QED
  BY <1>1, InitInv, NextInv, PTL DEF Spec

-----------------------------------------------------------------------------
(***************************************************************************)
(* What the services know.  A handler acts in the order of its flags, a    *)
(* call that is to come stands for what its service does not know yet, and *)
(* without a failure no recording falls back to idle.                      *)
(***************************************************************************)
HandlersAgree ==
    \A s \in Services :
        /\ info[s] => demux[s]
        /\ demux[s] => m_tuned[s]
        /\ m_tuned[s] => on[s] # None
        /\ <<"tuned", s>> \in todo => on[s] # None
        /\ <<"info", s>> \in todo => info[s]

LastAlone(c) == c # None /\ c.state = "last_instance" => c.use = 1

LastIsCached == \A t \in Tuners : LastAlone(channel[t])

Told(s) ==
    on[s] # None /\ channel[on[s]].state = "ok" => m_tuned[s] \/ <<"tuned", s>> \in todo

ToldOrCalled == \A s \in Services : Told(s)

\* One recording: HoldsWhatItNeeds, and its recorder has a file.
Holds(r) ==
    /\ m_state[r] = "none" <=> on[r] = None
    /\ m_record[r] => /\ m_state[r] # "none" /\ demux[r] /\ m_target_fd[r]
                      /\ file[r] # "none"
    /\ m_state[r] = "recording" /\ r \notin Streams => m_record[r] /\ file[r] # "none"

RecordsHold == \A r \in Recordings : Holds(r)

\* One recording, as long as nothing has failed.
Runs(r) ==
    /\ started[r] => m_want_record[r]
    /\ faults = 0 =>
         /\ m_state[r] # "idle"
         /\ started[r] /\ info[r] => m_state[r] = "recording" \/ <<"info", r>> \in todo

RunsOrCalled == \A r \in Recordings : Runs(r)

-----------------------------------------------------------------------------
(***************************************************************************)
(* The other variables keep their ranges.                                  *)
(***************************************************************************)
States == {"none", "idle", "prepared", "recording"}
Files == {"none", "empty", "data"}

HandlerTypes ==
    /\ demux \in [Services -> BOOLEAN] /\ info \in [Services -> BOOLEAN]
    /\ m_tuned \in [Services -> BOOLEAN]
    /\ todo \subseteq {"tuned", "info"} \X Services

RecordTypes ==
    /\ m_state \in [Recordings -> States]
    /\ m_want_record \in [Recordings -> BOOLEAN] /\ started \in [Recordings -> BOOLEAN]
    /\ m_record \in [Recordings -> BOOLEAN] /\ m_target_fd \in [Recordings -> BOOLEAN]
    /\ file \in [Recordings -> Files]
    /\ faults \in 0 .. MaxFaults

LEMMA TypeParts ==
    TypeOK <=> /\ Typed /\ timer \in BOOLEAN /\ heard \subseteq Tuners
               /\ HandlerTypes /\ RecordTypes
BY DEF TypeOK, Typed, HandlerTypes, RecordTypes, States, Files

LEMMA InitTypes == Init => TypeOK
<1> SUFFICES ASSUME Init PROVE TypeOK
  OBVIOUS
<1>1. Typed
  BY InitInv DEF Inv
<1>2. timer \in BOOLEAN /\ heard \subseteq Tuners
  BY DEF Init, ChannelInit
<1>3. HandlerTypes
  BY DEF Init, HandlerTypes
<1>4. RecordTypes
  BY ServiceAssumption DEF Init, RecordTypes, States, Files
<1> QED
  BY <1>1, <1>2, <1>3, <1>4, TypeParts

LEMMA ChannelTypes ==
    ASSUME TypeOK, NEW t \in Tuners \cup {None}, NEW i,
           \/ AllocateChannel(i, t) /\ t # None
           \/ AllocateFails(i) \/ Retune(t) \/ FreeChannel(t)
           \/ ReleaseCachedChannel \/ AllocatePVRChannel
           \/ t # None /\ (AllocateRawChannel(t) \/ ReleaseRawChannel(t))
           \/ FrontendLocks(t) \/ FrontendRetunes(t) \/ UNCHANGED channelVars
    PROVE  timer' \in BOOLEAN /\ heard' \subseteq Tuners
<1>1. timer \in BOOLEAN /\ heard \subseteq Tuners
  BY DEF TypeOK
<1>2. heard' \subseteq Tuners
  BY <1>1 DEF AllocateChannel, UseCached, Share, TakeTuner, AllocateFails, Evict, Retune,
              FreeChannel, ReleaseCachedChannel, AllocatePVRChannel, AllocateRawChannel,
              ReleaseRawChannel, FrontendLocks, FrontendRetunes, channelVars
<1>3. timer' \in BOOLEAN
  BY <1>1 DEF AllocateChannel, UseCached, Share, TakeTuner, AllocateFails, Evict, Retune,
              FreeChannel, ReleaseCachedChannel, AllocatePVRChannel, AllocateRawChannel,
              ReleaseRawChannel, FrontendLocks, FrontendRetunes, channelVars
<1> QED
  BY <1>2, <1>3

LEMMA RecordedTypes ==
    ASSUME TypeOK, NEW r \in Recordings, Recorded(r) \/ Refused(r)
    PROVE  /\ m_state' \in [Recordings -> States]
           /\ m_record' \in [Recordings -> BOOLEAN] /\ m_target_fd' \in [Recordings -> BOOLEAN]
           /\ file' \in [Recordings -> Files] /\ faults' \in 0 .. MaxFaults
<1>1. /\ m_state \in [Recordings -> States]
      /\ m_record \in [Recordings -> BOOLEAN] /\ m_target_fd \in [Recordings -> BOOLEAN]
      /\ file \in [Recordings -> Files] /\ faults \in 0 .. MaxFaults
  BY DEF TypeOK, States, Files
<1>2. faults' = faults \/ Fault
  BY DEF Recorded, Refused
<1>3. faults' \in 0 .. MaxFaults
  BY <1>1, <1>2, ServiceAssumption DEF Fault
<1>4. m_state' = m_state \/ m_state' = [m_state EXCEPT ![r] = "recording"]
  BY DEF Recorded, Refused, Begins
<1>5. m_state' \in [Recordings -> States]
  BY <1>1, <1>4 DEF States
<1>6. m_record' \in [Recordings -> BOOLEAN] /\ m_target_fd' \in [Recordings -> BOOLEAN]
  BY <1>1 DEF Recorded, Refused
<1>7. file' = file \/ \E left \in Files : file' = [file EXCEPT ![r] = left]
  BY DEF Recorded, Refused, Files
<1>8. file' \in [Recordings -> Files]
  BY <1>1, <1>7
<1> QED
  BY <1>3, <1>5, <1>6, <1>8

\* What the steps make of the flags of the handlers and the calls to come.
LEMMA HandlerTypesStep ==
    ASSUME HandlerTypes, [Next]_vars
    PROVE  HandlerTypes'
<1>1. ASSUME NEW s \in Services, NEW i, NEW t, Tune(s, i, t), UNCHANGED <<demux, info, m_tuned>>
      PROVE  HandlerTypes'
  BY <1>1 DEF HandlerTypes, Tune
<1>2. ASSUME NEW s \in Services, Free(s), UNCHANGED todo
      PROVE  HandlerTypes'
  BY <1>2 DEF HandlerTypes, Free
<1>3. ASSUME UNCHANGED <<demux, info, m_tuned, todo>>
      PROVE  HandlerTypes'
  BY <1>3 DEF HandlerTypes
<1>4. ASSUME NEW s \in Services \ Recordings, \E i \in Ids : Play(s, i)
      PROVE  HandlerTypes'
  BY <1>1, <1>4 DEF Play
<1>5. ASSUME NEW s \in Services \ Recordings, StopService(s)
      PROVE  HandlerTypes'
  BY <1>2, <1>5 DEF StopService
<1>6. ASSUME NEW r \in Recordings, \E i \in Ids : Record(r, i)
      PROVE  HandlerTypes'
  BY <1>1, <1>6, ServiceAssumption DEF Record
<1>7. ASSUME NEW r \in Recordings, StopRecord(r)
      PROVE  HandlerTypes'
  BY <1>2, <1>7, ServiceAssumption DEF StopRecord
<1>8. ASSUME NEW s \in Services, EventTuned(s)
      PROVE  HandlerTypes'
  <2>1. /\ demux' = demux \/ demux' = [demux EXCEPT ![s] = TRUE]
        /\ info' = info \/ \E cache \in BOOLEAN : info' = [info EXCEPT ![s] = cache]
        /\ m_tuned' = m_tuned \/ m_tuned' = [m_tuned EXCEPT ![s] = TRUE]
    BY <1>8 DEF EventTuned
  <2>2. todo' \subseteq todo \cup {<<"info", s>>}
    BY <1>8 DEF EventTuned
  <2>3. \A f \in [Services -> BOOLEAN], b \in BOOLEAN : [f EXCEPT ![s] = b] \in [Services -> BOOLEAN]
    OBVIOUS
  <2>4. demux' \in [Services -> BOOLEAN] /\ m_tuned' \in [Services -> BOOLEAN]
    BY <2>1, <2>3 DEF HandlerTypes
  <2>5. info' \in [Services -> BOOLEAN]
    BY <2>1, <2>3 DEF HandlerTypes
  <2>6. todo' \subseteq {"tuned", "info"} \X Services
    BY <2>2 DEF HandlerTypes
  <2> QED
    BY <2>4, <2>5, <2>6 DEF HandlerTypes
<1>9. ASSUME NEW s \in Services, PMTready(s)
      PROVE  HandlerTypes'
  BY <1>9 DEF HandlerTypes, PMTready
<1>10. ASSUME NEW s \in Services, EventNewProgramInfo(s)
       PROVE  HandlerTypes'
  BY <1>10 DEF HandlerTypes, EventNewProgramInfo, handlerVars
<1>11. ASSUME NEW t \in Tuners, Lock(t)
       PROVE  HandlerTypes'
  BY <1>11 DEF HandlerTypes, Lock, handlerVars
<1>12. ASSUME NEW i \in Ids, Refuse(i)
       PROVE  HandlerTypes'
  BY <1>3, <1>12 DEF Refuse, handlerVars
<1>13. ASSUME NEW r \in Recordings, Start(r) \/ WriteData(r) \/ WriteError(r)
       PROVE  HandlerTypes'
  BY <1>3, <1>13 DEF Start, WriteData, WriteError, handlerVars
<1>14. CASE Alone \/ UNCHANGED vars
  BY <1>3, <1>14 DEF Alone, vars, handlerVars
<1> QED
  BY <1>4, <1>5, <1>6, <1>7, <1>8, <1>9, <1>10, <1>11, <1>12, <1>13, <1>14, Zenon DEF Next

LEMMA RecordTypesStep ==
    ASSUME TypeOK, [Next]_vars
    PROVE  RecordTypes'
<1>1. RecordTypes
  BY TypeParts
<1>2. ASSUME UNCHANGED recordVars, faults' = faults \/ Fault
      PROVE  RecordTypes'
  <2>1. faults' \in 0 .. MaxFaults
    BY <1>1, <1>2, ServiceAssumption DEF Fault, RecordTypes
  <2> QED
    BY <1>1, <1>2, <2>1 DEF recordVars, RecordTypes
<1>3. ASSUME NEW s, NEW i, Play(s, i) \/ StopService(s) \/ Refuse(i)
      PROVE  RecordTypes'
  BY <1>2, <1>3 DEF Play, StopService, Refuse
<1>4. ASSUME NEW r \in Recordings, NEW i, Record(r, i) \/ StopRecord(r) \/ WriteData(r)
      PROVE  RecordTypes'
  BY <1>1, <1>4 DEF Record, StopRecord, WriteData, RecordTypes, States, Files
<1>5. ASSUME NEW r \in Recordings, WriteError(r)
      PROVE  RecordTypes'
  <2>1. faults' \in 0 .. MaxFaults
    BY <1>1, <1>5, ServiceAssumption DEF WriteError, Fault, RecordTypes
  <2> QED
    BY <1>1, <1>5, <2>1 DEF WriteError, Stop, RecordTypes, States
<1>6. ASSUME NEW r \in Recordings, Start(r)
      PROVE  RecordTypes'
  <2>1. /\ m_want_record' = [m_want_record EXCEPT ![r] = TRUE]
        /\ started' = started \/ started' = [started EXCEPT ![r] = TRUE]
        /\ Recorded(r) \/ Refused(r)
    BY <1>6 DEF Start
  <2>2. m_want_record' \in [Recordings -> BOOLEAN] /\ started' \in [Recordings -> BOOLEAN]
    BY <1>1, <2>1 DEF RecordTypes
  <2> QED
    BY <2>1, <2>2, RecordedTypes DEF RecordTypes
<1>7. ASSUME NEW s \in Services, EventTuned(s) \/ PMTready(s)
      PROVE  RecordTypes'
  BY <1>2, <1>7 DEF EventTuned, PMTready
<1>8. ASSUME NEW s \in Services, EventNewProgramInfo(s)
      PROVE  RecordTypes'
  <2>1. UNCHANGED <<m_want_record, started>>
    BY <1>8 DEF EventNewProgramInfo
  <2>2. CASE s \notin Recordings \/ UNCHANGED <<m_state, m_record, m_target_fd, file, faults>>
    BY <1>1, <1>8, <2>1, <2>2 DEF EventNewProgramInfo, RecordTypes
  <2>3. CASE s \in Recordings /\ Prepares(s)
    BY <1>1, <2>1, <2>3 DEF Prepares, RecordTypes, States
  <2>4. CASE s \in Recordings /\ (Recorded(s) \/ Refused(s))
    BY <1>1, <2>1, <2>4, RecordedTypes DEF RecordTypes
  <2> QED
    BY <1>8, <2>2, <2>3, <2>4 DEF EventNewProgramInfo, GoesOn
<1>9. ASSUME NEW t \in Tuners, Lock(t)
      PROVE  RecordTypes'
  BY <1>2, <1>9 DEF Lock
<1>10. CASE Alone \/ UNCHANGED vars
  BY <1>2, <1>10 DEF Alone, vars
<1> QED
  BY <1>3, <1>4, <1>5, <1>6, <1>7, <1>8, <1>9, <1>10, Zenon DEF Next

LEMMA TypesNext == Inv /\ TypeOK /\ [Next]_vars => TypeOK'
<1> SUFFICES ASSUME Inv, TypeOK, [Next]_vars PROVE TypeOK'
  OBVIOUS
<1>1. Typed'
  BY NextInv DEF Inv
<1>2. HandlerTypes' /\ RecordTypes'
  BY TypeParts, HandlerTypesStep, RecordTypesStep
<1>3. on \in [Services -> Tuners \cup {None}]
  BY DEF Inv, Typed
<1>4. \/ \E t \in Tuners : \E i : AllocateChannel(i, t)
      \/ \E i : AllocateFails(i)
      \/ \E t \in Tuners \cup {None} : Retune(t) \/ FreeChannel(t)
      \/ ReleaseCachedChannel \/ AllocatePVRChannel
      \/ \E t \in Tuners : AllocateRawChannel(t) \/ ReleaseRawChannel(t)
      \/ \E t \in Tuners : FrontendLocks(t) \/ FrontendRetunes(t)
      \/ UNCHANGED channelVars
  <2>1. ASSUME NEW s \in Services, NEW i \in Ids, Play(s, i)
        PROVE  \E t \in Tuners : \E j : AllocateChannel(j, t)
    BY <2>1 DEF Play, Tune
  <2>2. ASSUME NEW s \in Services, StopService(s)
        PROVE  \E t \in Tuners \cup {None} : FreeChannel(t)
    BY <1>3, <2>2 DEF StopService, Free
  <2>3. ASSUME NEW r \in Recordings, NEW i \in Ids, Record(r, i)
        PROVE  \E t \in Tuners : \E j : AllocateChannel(j, t)
    BY <2>3 DEF Record, Tune
  <2>4. ASSUME NEW r \in Recordings, StopRecord(r)
        PROVE  \E t \in Tuners \cup {None} : FreeChannel(t)
    BY <1>3, <2>4, ServiceAssumption DEF StopRecord, Free
  <2>5. ASSUME NEW s \in Services, EventNewProgramInfo(s)
        PROVE  UNCHANGED channelVars \/ \E t \in Tuners \cup {None} : Retune(t)
    BY <1>3, <2>5 DEF EventNewProgramInfo, Prepares, GoesOn
  <2>6. ASSUME NEW i \in Ids, Refuse(i)
        PROVE  AllocateFails(i)
    BY <2>6 DEF Refuse
  <2>7. ASSUME NEW r \in Recordings, Start(r) \/ WriteData(r) \/ WriteError(r)
        PROVE  UNCHANGED channelVars
    BY <2>7 DEF Start, WriteData, WriteError
  <2>8. ASSUME NEW s \in Services, EventTuned(s) \/ PMTready(s)
        PROVE  UNCHANGED channelVars
    BY <2>8 DEF EventTuned, PMTready
  <2>9. ASSUME NEW t \in Tuners, Lock(t)
        PROVE  FrontendLocks(t)
    BY <2>9 DEF Lock
  <2>10. CASE Alone
    BY <2>10 DEF Alone
  <2>11. CASE UNCHANGED vars
    BY <2>11 DEF vars
  <2> QED
    BY <2>1, <2>2, <2>3, <2>4, <2>5, <2>6, <2>7, <2>8, <2>9, <2>10, <2>11, Zenon DEF Next
<1>5. timer' \in BOOLEAN /\ heard' \subseteq Tuners
  BY <1>4, ChannelTypes, NoneApart
<1> QED
  BY <1>1, <1>2, <1>5 DEF TypeOK, Typed, HandlerTypes, RecordTypes, States, Files

-----------------------------------------------------------------------------
(***************************************************************************)
(* The handlers.                                                           *)
(***************************************************************************)
LEMMA HandlersStep ==
    ASSUME TypeOK, HandlersAgree, [Next]_vars
    PROVE  HandlersAgree'
<1>0. /\ on \in [Services -> Tuners \cup {None}] /\ demux \in [Services -> BOOLEAN]
      /\ info \in [Services -> BOOLEAN] /\ m_tuned \in [Services -> BOOLEAN]
  BY DEF TypeOK
<1>1. ASSUME NEW s \in Services, NEW i, NEW t \in Tuners, Tune(s, i, t),
             UNCHANGED <<demux, info, m_tuned>>
      PROVE  HandlersAgree'
  BY <1>0, <1>1, NoneApart DEF HandlersAgree, Tune
<1>2. ASSUME NEW s \in Services, Free(s), Idle, UNCHANGED todo
      PROVE  HandlersAgree'
  BY <1>0, <1>2 DEF HandlersAgree, Free, Idle
<1>3. ASSUME UNCHANGED handlerVars, todo' \subseteq todo
      PROVE  HandlersAgree'
  BY <1>3 DEF HandlersAgree, handlerVars
<1>4. ASSUME NEW s \in Services, NEW i \in Ids, Play(s, i)
      PROVE  HandlersAgree'
  BY <1>1, <1>4 DEF Play
<1>5. ASSUME NEW s \in Services, StopService(s)
      PROVE  HandlersAgree'
  BY <1>2, <1>5 DEF StopService
<1>6. ASSUME NEW r \in Recordings, NEW i \in Ids, Record(r, i)
      PROVE  HandlersAgree'
  BY <1>1, <1>6, ServiceAssumption DEF Record
<1>7. ASSUME NEW r \in Recordings, StopRecord(r)
      PROVE  HandlersAgree'
  BY <1>2, <1>7, ServiceAssumption DEF StopRecord
<1>8. ASSUME NEW s \in Services, EventTuned(s)
      PROVE  HandlersAgree'
  <2>1. on' = on /\ on[s] # None
    BY <1>8 DEF EventTuned, HandlersAgree
  <2>2. ASSUME NEW x \in Services, x # s
        PROVE  /\ demux'[x] = demux[x] /\ info'[x] = info[x] /\ m_tuned'[x] = m_tuned[x]
               /\ \A k : <<k, x>> \in todo' => <<k, x>> \in todo
    BY <1>0, <1>8, <2>2 DEF EventTuned
  <2>3. /\ info'[s] => demux'[s]
        /\ demux'[s] => m_tuned'[s]
        /\ <<"info", s>> \in todo' => info'[s]
    <3>1. CASE demux[s]
      BY <1>8, <3>1 DEF EventTuned, HandlersAgree
    <3>2. CASE ~demux[s] /\ UNCHANGED <<demux, info>>
      BY <1>0, <1>8, <3>2 DEF EventTuned, HandlersAgree
    <3>3. ASSUME ~demux[s], m_tuned' = [m_tuned EXCEPT ![s] = TRUE],
                 demux' = [demux EXCEPT ![s] = TRUE],
                 NEW cache \in BOOLEAN, info' = [info EXCEPT ![s] = cache],
                 todo' = (todo \ {<<"tuned", s>>})
                             \cup (IF cache THEN {<<"info", s>>} ELSE {})
          PROVE  /\ info'[s] => demux'[s]
                 /\ demux'[s] => m_tuned'[s]
                 /\ <<"info", s>> \in todo' => info'[s]
      <4>1. ~info[s] /\ <<"info", s>> \notin todo
        BY <3>3 DEF HandlersAgree
      <4> QED
        BY <1>0, <3>3, <4>1
    <3> QED
      BY <1>8, <3>1, <3>2, <3>3 DEF EventTuned
  <2> QED
    BY <2>1, <2>2, <2>3 DEF HandlersAgree
<1>9. ASSUME NEW s \in Services, PMTready(s)
      PROVE  HandlersAgree'
  BY <1>0, <1>9 DEF HandlersAgree, PMTready
<1>10. ASSUME NEW s \in Services, EventNewProgramInfo(s)
       PROVE  HandlersAgree'
  BY <1>3, <1>10 DEF EventNewProgramInfo
<1>11. ASSUME NEW t \in Tuners, Lock(t)
       PROVE  HandlersAgree'
  <2>1. UNCHANGED handlerVars /\ todo = {}
    BY <1>11 DEF Lock, Idle
  <2>2. ASSUME NEW x \in Services, NEW k, <<k, x>> \in todo'
        PROVE  k = "tuned" /\ on[x] = t
    BY <1>11, <2>2 DEF Lock
  <2>3. "info" # "tuned"
    OBVIOUS
  <2> QED
    BY <2>1, <2>2, <2>3, NoneApart DEF HandlersAgree, handlerVars
<1>12. ASSUME NEW i \in Ids, Refuse(i)
       PROVE  HandlersAgree'
  BY <1>3, <1>12 DEF Refuse
<1>13. ASSUME NEW r \in Recordings, Start(r) \/ WriteData(r) \/ WriteError(r)
       PROVE  HandlersAgree'
  BY <1>3, <1>13 DEF Start, WriteData, WriteError
<1>14. CASE Alone \/ UNCHANGED vars
  BY <1>3, <1>14 DEF Alone, vars
<1> QED
  BY <1>4, <1>5, <1>6, <1>7, <1>8, <1>9, <1>10, <1>11, <1>12, <1>13, <1>14, Zenon DEF Next

-----------------------------------------------------------------------------
(***************************************************************************)
(* The recordings.                                                         *)
(***************************************************************************)
LEMMA RecordedHolds ==
    ASSUME TypeOK, HandlersAgree, NEW r \in Recordings, RecordsHold,
           Recorded(r) \/ Refused(r), m_state[r] # "none", UNCHANGED handlerVars
    PROVE  RecordsHold'
<1>0. /\ m_state \in [Recordings -> States] /\ m_record \in [Recordings -> BOOLEAN]
      /\ m_target_fd \in [Recordings -> BOOLEAN] /\ file \in [Recordings -> Files]
  BY DEF TypeOK, States, Files
<1>1. \A x \in Recordings : Holds(x)
  BY DEF RecordsHold
<1>2. on' = on /\ demux' = demux /\ on[r] # None
  BY <1>1 DEF handlerVars, Holds
<1>3. ASSUME NEW x \in Recordings, x # r
      PROVE  Holds(x)'
  <2>1. /\ m_state'[x] = m_state[x] /\ m_record'[x] = m_record[x]
        /\ m_target_fd'[x] = m_target_fd[x] /\ file'[x] = file[x]
    BY <1>0, <1>3 DEF Recorded, Refused, Begins
  <2> QED
    BY <1>1, <1>2, <2>1 DEF Holds
<1>4. Holds(r)'
  <2>1. CASE UNCHANGED <<m_state, m_record, m_target_fd, file>>
    BY <1>1, <1>2, <2>1 DEF Holds
  <2>2. CASE (m_record[r] \/ r \in Streams) /\ Begins(r) /\ UNCHANGED <<m_record, m_target_fd, file>>
    <3>1. m_state'[r] # "none"
      BY <1>0, <2>2 DEF Begins
    <3> QED
      BY <1>1, <1>2, <2>2, <3>1 DEF Holds
  <2>3. CASE /\ demux[r] /\ Begins(r)
             /\ file' = [file EXCEPT ![r] = "empty"]
             /\ m_record' = [m_record EXCEPT ![r] = TRUE]
             /\ m_target_fd' = [m_target_fd EXCEPT ![r] = TRUE]
    <3>1. m_state'[r] # "none"
      BY <1>0, <2>3 DEF Begins
    <3> QED
      BY <1>0, <1>1, <1>2, <2>3, <3>1 DEF Holds
  <2>4. CASE Refused(r)
    <3>1. ~m_record[r] /\ r \notin Streams /\ UNCHANGED <<m_state, m_record>>
      BY <2>4 DEF Refused
    <3>2. m_state[r] # "recording"
      BY <1>1, <3>1 DEF Holds
    <3> QED
      BY <1>1, <1>2, <3>1, <3>2 DEF Holds
  <2> QED
    BY <2>1, <2>2, <2>3, <2>4 DEF Recorded
<1> QED
  BY <1>3, <1>4 DEF RecordsHold, Holds

\* Nothing changes for the recordings but the service s, which is none.
LEMMA HoldsBeside ==
    ASSUME RecordsHold, UNCHANGED <<m_state, m_record, m_target_fd, file>>,
           \A r \in Recordings : (on'[r] = None <=> on[r] = None) /\ (demux[r] => demux'[r])
    PROVE  RecordsHold'
BY DEF RecordsHold, Holds

LEMMA RecordsStep ==
    ASSUME TypeOK, HandlersAgree, RecordsHold, [Next]_vars
    PROVE  RecordsHold'
<1>0. /\ m_state \in [Recordings -> States] /\ m_record \in [Recordings -> BOOLEAN]
      /\ m_target_fd \in [Recordings -> BOOLEAN] /\ file \in [Recordings -> Files]
      /\ on \in [Services -> Tuners \cup {None}] /\ demux \in [Services -> BOOLEAN]
  BY DEF TypeOK, States, Files
<1>1. \A r \in Recordings : Holds(r) /\ r \in Services
  BY ServiceAssumption DEF RecordsHold
<1>2. ASSUME NEW s \in Services \ Recordings, NEW i \in Ids, Play(s, i)
      PROVE  RecordsHold'
  <2>1. UNCHANGED <<m_state, m_record, m_target_fd, file, demux>>
    BY <1>2 DEF Play, recordVars
  <2>2. \A r \in Recordings : on'[r] = on[r]
    BY <1>0, <1>1, <1>2 DEF Play, Tune
  <2> QED
    BY <2>1, <2>2, HoldsBeside
<1>3. ASSUME NEW s \in Services \ Recordings, StopService(s)
      PROVE  RecordsHold'
  <2>1. UNCHANGED <<m_state, m_record, m_target_fd, file>>
    BY <1>3 DEF StopService, recordVars
  <2>2. \A r \in Recordings : on'[r] = on[r] /\ demux'[r] = demux[r]
    BY <1>0, <1>1, <1>3 DEF StopService, Free
  <2> QED
    BY <2>1, <2>2, HoldsBeside
<1>4. ASSUME NEW r \in Recordings, NEW i \in Ids, Record(r, i)
      PROVE  RecordsHold'
  <2>1. /\ m_state[r] = "none" /\ m_state' = [m_state EXCEPT ![r] = "prepared"]
        /\ file' = [file EXCEPT ![r] = "none"]
        /\ UNCHANGED <<demux, m_record, m_target_fd>>
        /\ \E t \in Tuners : on' = [on EXCEPT ![r] = t]
    BY <1>4 DEF Record, Tune
  <2>2. ~m_record[r] /\ on'[r] # None
    BY <1>0, <1>1, <2>1, NoneApart DEF Holds
  <2>3. ASSUME NEW x \in Recordings PROVE Holds(x)'
    <3>1. CASE x = r
      BY <1>0, <2>1, <2>2, <3>1 DEF Holds
    <3>2. CASE x # r
      <4>1. m_state'[x] = m_state[x] /\ file'[x] = file[x] /\ on'[x] = on[x]
        BY <1>0, <1>1, <2>1, <3>2
      <4> QED
        BY <1>1, <2>1, <4>1 DEF Holds
    <3> QED
      BY <3>1, <3>2
  <2> QED
    BY <2>3 DEF RecordsHold, Holds
<1>5. ASSUME NEW r \in Recordings, StopRecord(r)
      PROVE  RecordsHold'
  <2>1. /\ m_state' = [m_state EXCEPT ![r] = "none"] /\ on' = [on EXCEPT ![r] = None]
        /\ m_record' = [m_record EXCEPT ![r] = FALSE]
        /\ m_target_fd' = [m_target_fd EXCEPT ![r] = FALSE]
        /\ demux' = [demux EXCEPT ![r] = FALSE] /\ file' = file
    BY <1>5 DEF StopRecord, Free
  <2>2. ASSUME NEW x \in Recordings PROVE Holds(x)'
    <3>1. CASE x = r
      BY <1>0, <1>1, <2>1, <3>1 DEF Holds
    <3>2. CASE x # r
      <4>1. /\ m_state'[x] = m_state[x] /\ m_record'[x] = m_record[x] /\ on'[x] = on[x]
            /\ m_target_fd'[x] = m_target_fd[x] /\ demux'[x] = demux[x]
        BY <1>0, <1>1, <2>1, <3>2
      <4> QED
        BY <1>1, <2>1, <4>1 DEF Holds
    <3> QED
      BY <3>1, <3>2
  <2> QED
    BY <2>2 DEF RecordsHold, Holds
<1>6. ASSUME NEW r \in Recordings, Start(r)
      PROVE  RecordsHold'
  BY <1>6, RecordedHolds DEF Start
<1>7. ASSUME NEW r \in Recordings, WriteData(r) \/ WriteError(r)
      PROVE  RecordsHold'
  <2>1. on' = on /\ demux' = demux
    BY <1>7 DEF WriteData, WriteError, handlerVars
  <2>2. \A x \in Recordings : x # r =>
            /\ m_state'[x] = m_state[x] /\ m_record'[x] = m_record[x]
            /\ m_target_fd'[x] = m_target_fd[x] /\ file'[x] = file[x]
    BY <1>0, <1>7 DEF WriteData, WriteError, Stop
  <2>3. Holds(r)'
    BY <1>0, <1>1, <1>7, <2>1 DEF Holds, WriteData, WriteError, Stop
  <2> QED
    BY <1>1, <2>1, <2>2, <2>3 DEF RecordsHold, Holds
<1>8. ASSUME NEW s \in Services, EventTuned(s) \/ PMTready(s)
      PROVE  RecordsHold'
  <2>1. on' = on /\ UNCHANGED <<m_state, m_record, m_target_fd, file>>
    BY <1>8 DEF EventTuned, PMTready, recordVars
  <2>2. demux' = demux \/ demux' = [demux EXCEPT ![s] = TRUE]
    BY <1>8 DEF EventTuned, PMTready
  <2>3. \A r \in Recordings : demux[r] => demux'[r]
    BY <1>0, <1>1, <2>2
  <2> QED
    BY <2>1, <2>3, HoldsBeside
<1>9. ASSUME NEW s \in Services, EventNewProgramInfo(s)
      PROVE  RecordsHold'
  <2>1. UNCHANGED handlerVars
    BY <1>9 DEF EventNewProgramInfo
  <2>2. CASE UNCHANGED <<m_state, m_record, m_target_fd, file>>
    BY <2>1, <2>2, HoldsBeside DEF handlerVars
  <2>3. CASE s \in Recordings /\ Prepares(s)
    BY <1>0, <1>1, <2>1, <2>3 DEF Prepares, handlerVars, RecordsHold, Holds
  <2>4. CASE s \in Recordings /\ (Recorded(s) \/ Refused(s))
    <3>1. on[s] # None
      BY <1>9 DEF EventNewProgramInfo, HandlersAgree
    <3> QED
      BY <1>1, <2>1, <2>4, <3>1, RecordedHolds DEF Holds
  <2> QED
    BY <1>9, <2>2, <2>3, <2>4 DEF EventNewProgramInfo, GoesOn
<1>10. CASE \/ \E i \in Ids : Refuse(i)
            \/ \E t \in Tuners : Lock(t)
            \/ Alone \/ UNCHANGED vars
  <2>1. UNCHANGED <<m_state, m_record, m_target_fd, file, on, demux>>
    BY <1>10 DEF Refuse, Lock, Alone, vars, recordVars, handlerVars
  <2> QED
    BY <2>1, HoldsBeside
<1> QED
  BY <1>2, <1>3, <1>4, <1>5, <1>6, <1>7, <1>8, <1>9, <1>10, Zenon DEF Next

\* What is left alone, or fails, asks for nothing more.
LEMMA RunsBeside ==
    ASSUME NEW r \in Recordings, Runs(r), started'[r] = started[r],
           m_want_record'[r] = m_want_record[r],
           \/ faults' # 0
           \/ /\ faults' = faults /\ m_state'[r] = m_state[r]
              /\ info'[r] => info[r] \/ <<"info", r>> \in todo'
              /\ <<"info", r>> \in todo => <<"info", r>> \in todo'
    PROVE  Runs(r)'
BY DEF Runs

LEMMA FaultCounts ==
    ASSUME TypeOK, Fault
    PROVE  faults' # 0
BY DEF TypeOK, Fault

LEMMA RunsStep ==
    ASSUME TypeOK, HandlersAgree, RunsOrCalled, [Next]_vars
    PROVE  RunsOrCalled'
<1>0. /\ m_state \in [Recordings -> States] /\ m_want_record \in [Recordings -> BOOLEAN]
      /\ started \in [Recordings -> BOOLEAN] /\ info \in [Services -> BOOLEAN]
      /\ faults \in 0 .. MaxFaults
      /\ \A r \in Recordings : r \in Services
  BY ServiceAssumption DEF TypeOK, States
<1>1. \A r \in Recordings : Runs(r)
  BY DEF RunsOrCalled, Runs
<1>2. SUFFICES ASSUME NEW r \in Recordings
               PROVE  Runs(r)'
  BY DEF RunsOrCalled, Runs
<1>3. ASSUME UNCHANGED <<recordVars, faults>>, todo = {},
             info'[r] => info[r] \/ <<"info", r>> \in todo'
      PROVE  Runs(r)'
  BY <1>1, <1>3, RunsBeside DEF recordVars
<1>4. ASSUME NEW s \in Services, NEW i \in Ids, Play(s, i)
      PROVE  Runs(r)'
  BY <1>3, <1>4 DEF Play, Idle
<1>5. ASSUME NEW s \in Services, StopService(s)
      PROVE  Runs(r)'
  <2>1. info'[r] => info[r]
    BY <1>0, <1>5 DEF StopService, Free
  <2> QED
    BY <1>3, <1>5, <2>1 DEF StopService, Idle
<1>6. ASSUME NEW i \in Ids, Refuse(i)
      PROVE  Runs(r)'
  <2>1. UNCHANGED <<handlerVars, recordVars, todo>> /\ (faults' = faults \/ Fault)
    BY <1>6 DEF Refuse
  <2> QED
    BY <1>1, <2>1, RunsBeside, FaultCounts DEF handlerVars, recordVars
<1>7. ASSUME NEW x \in Recordings, NEW i \in Ids, Record(x, i)
      PROVE  Runs(r)'
  <2>1. /\ UNCHANGED <<info, m_want_record, started, faults>> /\ todo = {}
        /\ m_state[x] = "none" /\ m_state' = [m_state EXCEPT ![x] = "prepared"]
    BY <1>7 DEF Record, Idle
  <2>2. CASE r = x
    BY <1>0, <1>1, <2>1, <2>2 DEF Runs
  <2>3. CASE r # x
    BY <1>0, <1>1, <2>1, <2>3, RunsBeside
  <2> QED
    BY <2>2, <2>3
<1>8. ASSUME NEW x \in Recordings, Recorded(x) \/ Refused(x), m_state[x] # "idle",
             m_want_record' = [m_want_record EXCEPT ![x] = TRUE] \/ m_want_record' = m_want_record,
             UNCHANGED handlerVars, <<"info", x>> \notin todo', todo' = todo \ {<<"info", x>>},
             \/ started' = [started EXCEPT ![x] = TRUE] /\ Recorded(x)
                  /\ m_want_record' = [m_want_record EXCEPT ![x] = TRUE]
             \/ started' = started
      PROVE  Runs(r)'
  <2>1. info' = info
    BY <1>8 DEF handlerVars
  <2>2. CASE r = x
    <3>1. started'[r] => m_want_record'[r]
      BY <1>0, <1>1, <1>8, <2>2 DEF Runs
    <3>2. CASE Refused(x)
      <4>1. Fault \/ ~demux[x]
        BY <3>2 DEF Refused
      <4>2. ~demux[x] => ~info[x]
        BY <1>0 DEF HandlersAgree
      <4>3. m_state' = m_state
        BY <3>2 DEF Refused
      <4> QED
        BY <1>1, <1>8, <2>1, <2>2, <3>1, <4>1, <4>2, <4>3, FaultCounts DEF Runs
    <3>3. CASE Recorded(x)
      <4>1. m_state' = m_state \/ m_state' = [m_state EXCEPT ![x] = "recording"]
        BY <3>3 DEF Recorded, Begins
      <4>2. info[x] => m_tuned[x]
        BY <1>0 DEF HandlersAgree
      <4>3. info[x] => m_state'[x] = "recording"
        BY <1>0, <3>3, <4>2 DEF Recorded, Begins
      <4>4. faults' = faults
        BY <3>3 DEF Recorded
      <4> QED
        BY <1>0, <1>1, <1>8, <2>1, <2>2, <3>1, <4>1, <4>3, <4>4 DEF Runs
    <3> QED
      BY <1>8, <3>2, <3>3
  <2>3. CASE r # x
    <3>1. m_state'[r] = m_state[r] /\ (faults' = faults \/ Fault)
      BY <1>0, <1>8, <2>3 DEF Recorded, Refused, Begins
    <3>2. started'[r] = started[r] /\ m_want_record'[r] = m_want_record[r]
      BY <1>0, <1>8, <2>3
    <3> QED
      BY <1>1, <1>8, <2>1, <2>3, <3>1, <3>2, FaultCounts, RunsBeside
  <2> QED
    BY <2>2, <2>3
<1>9. ASSUME NEW x \in Recordings, Start(x)
      PROVE  Runs(r)'
  BY <1>8, <1>9 DEF Start, Idle
<1>10. ASSUME NEW x \in Recordings, StopRecord(x)
       PROVE  Runs(r)'
  <2>1. /\ m_state' = [m_state EXCEPT ![x] = "none"]
        /\ m_want_record' = [m_want_record EXCEPT ![x] = FALSE]
        /\ started' = [started EXCEPT ![x] = FALSE]
        /\ info' = [info EXCEPT ![x] = FALSE]
        /\ UNCHANGED <<todo, faults>>
    BY <1>10 DEF StopRecord, Free
  <2>2. CASE r = x
    BY <1>0, <2>1, <2>2 DEF Runs
  <2>3. CASE r # x
    BY <1>0, <1>1, <2>1, <2>3, RunsBeside
  <2> QED
    BY <2>2, <2>3
<1>11. ASSUME NEW x \in Recordings, WriteData(x)
       PROVE  Runs(r)'
  BY <1>1, <1>11, RunsBeside DEF WriteData, handlerVars
<1>12. ASSUME NEW x \in Recordings, WriteError(x)
       PROVE  Runs(r)'
  BY <1>1, <1>12, RunsBeside, FaultCounts DEF WriteError
<1>13. ASSUME NEW s \in Services, EventTuned(s)
       PROVE  Runs(r)'
  <2>1. UNCHANGED recordVars /\ (faults' = faults \/ Fault)
    BY <1>13 DEF EventTuned
  <2>2. <<"info", r>> \in todo => <<"info", r>> \in todo'
    <3>1. "info" # "tuned"
      OBVIOUS
    <3> QED
      BY <1>13, <3>1 DEF EventTuned
  <2>3. info'[r] => info[r] \/ <<"info", r>> \in todo'
    BY <1>0, <1>13 DEF EventTuned
  <2> QED
    BY <1>1, <2>1, <2>2, <2>3, RunsBeside, FaultCounts DEF recordVars
<1>14. ASSUME NEW s \in Services, PMTready(s)
       PROVE  Runs(r)'
  <2>1. info'[r] => info[r] \/ <<"info", r>> \in todo'
    BY <1>0, <1>14 DEF PMTready
  <2> QED
    BY <1>3, <1>14, <2>1 DEF PMTready, Idle
<1>15. ASSUME NEW s \in Services, EventNewProgramInfo(s)
       PROVE  Runs(r)'
  <2>1. /\ UNCHANGED <<handlerVars, m_want_record, started>>
        /\ todo' = todo \ {<<"info", s>>}
    BY <1>15 DEF EventNewProgramInfo
  <2>2. CASE s \in Recordings /\ (Recorded(s) \/ Refused(s)) /\ m_state[s] # "idle"
    BY <1>8, <2>1, <2>2
  <2>3. CASE s \in Recordings /\ Prepares(s)
    <3>1. m_state[s] = "idle" /\ UNCHANGED faults
      BY <2>3 DEF Prepares
    <3>2. faults # 0
      BY <1>1, <2>3, <3>1 DEF Runs
    <3> QED
      BY <1>1, <2>1, <3>1, <3>2, RunsBeside
  <2>4. CASE s \in Recordings /\ ~m_want_record[s] /\ UNCHANGED <<m_state, faults>>
    <3>1. r = s => ~started[r]
      BY <1>1, <2>4 DEF Runs
    <3> QED
      BY <1>1, <2>1, <2>4, <3>1 DEF Runs, handlerVars
  <2>5. CASE s \notin Recordings
    <3>1. UNCHANGED <<m_state, faults>>
      BY <1>15, <2>5 DEF EventNewProgramInfo
    <3> QED
      BY <1>1, <2>1, <2>5, <3>1, RunsBeside DEF handlerVars
  <2> QED
    BY <1>15, <2>2, <2>3, <2>4, <2>5 DEF EventNewProgramInfo, GoesOn
<1>16. ASSUME NEW t \in Tuners, Lock(t)
       PROVE  Runs(r)'
  BY <1>3, <1>16 DEF Lock, Idle, handlerVars
<1>17. CASE Alone \/ UNCHANGED vars
  BY <1>1, <1>17, RunsBeside DEF Alone, vars, handlerVars, recordVars
<1> QED
  BY <1>4, <1>5, <1>6, <1>7, <1>9, <1>10, <1>11, <1>12, <1>13, <1>14, <1>15, <1>16, <1>17, Zenon
     DEF Next

-----------------------------------------------------------------------------
(***************************************************************************)
(* States of channels.                                                     *)
(***************************************************************************)
LEMMA AddUseState ==
    ASSUME NEW c \in Begun
    PROVE  AddUse(c).state = IF c.state = "last_instance" THEN "ok" ELSE c.state
<1> DEFINE st == IF c.state = "last_instance" THEN "ok" ELSE c.state
<1>1. AddUse(c) = [c EXCEPT !.use = c.use + 1, !.state = st]
  BY DEF AddUse
<1> HIDE DEF st
<1>2. AddUse(c).state = st
  BY <1>1 DEF Begun
<1> QED
  BY <1>2 DEF st

LEMMA TunedState ==
    ASSUME NEW c \in Channel
    PROVE  Tuned(c).state = IF c.state = "last_instance" THEN "ok" ELSE c.state
<1>1. AddUse(c) \in Channel
  BY ChannelBegun, AddUseCounts
<1>2. /\ AddUse(c).state = IF c.state = "last_instance" THEN "ok" ELSE c.state
      /\ AddUse(AddUse(c)).state =
             IF AddUse(c).state = "last_instance" THEN "ok" ELSE AddUse(c).state
  BY <1>1, ChannelBegun, AddUseState
<1> QED
  BY <1>2 DEF Tuned

\* A channel that loses a reference does not become ok.
NotNewlyOk(c, d) == LastAlone(d) /\ (d # None /\ d.state = "ok" => c # None /\ c.state = "ok")

LEMMA ReleaseUseState ==
    ASSUME NEW c \in Channel, LastAlone(c)
    PROVE  NotNewlyOk(c, ReleaseUse(c))
<1>1. c # None
  BY NoneApart
<1>2. CASE c.use = 1
  BY <1>2, ReleaseUseCounts DEF NotNewlyOk, LastAlone
<1>3. CASE c.use # 1
  <2>1. ReleaseUse(c).use = c.use - 1 /\ c.use \in Nat
    BY <1>3, ReleaseUseCounts DEF Channel
  <2>2. ReleaseUse(c).state = IF c.use = 2 THEN "last_instance" ELSE c.state
    BY <1>3 DEF ReleaseUse, Channel
  <2> QED
    BY <1>1, <1>3, <2>1, <2>2 DEF NotNewlyOk, LastAlone
<1> QED
  BY <1>2, <1>3

LEMMA EvictedState ==
    ASSUME Inv, LastIsCached, NEW t \in Tuners
    PROVE  NotNewlyOk(channel[t], Evicted[t])
<1>1. CASE t = cached
  <2>1. Refs(on, cached, t) # 0
    BY <1>1, UsersFinite, RefsNat
  <2>2. channel[t] \in Channel
    BY <2>1, CountsNow DEF Counts
  <2> QED
    BY <1>1, <2>2, ReleaseUseState DEF LastIsCached, Evicted
<1>2. CASE t # cached
  BY <1>2 DEF LastIsCached, Evicted, NotNewlyOk
<1> QED
  BY <1>1, <1>2

\* A channel with a service on it is more than the cached one.
LEMMA UsedState ==
    ASSUME Inv, LastIsCached, NEW s \in Services, on[s] # None
    PROVE  /\ on[s] \in Tuners /\ channel[on[s]] \in Channel
           /\ channel[on[s]].use >= 2 /\ channel[on[s]].state # "last_instance"
<1>1. on[s] \in Tuners
  BY DEF Inv, Typed
<1>2. /\ Refs(on, cached, on[s]) \in Nat /\ Refs(on, cached, on[s]) >= 2
  BY <1>1, UserThere, UsersFinite, RefsNat
<1>3. channel[on[s]] \in Channel /\ channel[on[s]].use = Refs(on, cached, on[s])
  BY <1>1, <1>2, CountsNow, NoneApart DEF Counts
<1> QED
  BY <1>1, <1>2, <1>3, NoneApart DEF LastIsCached, LastAlone

\* The services that are there are not told anew.
ToldAsBefore(s) ==
    on'[s] # None /\ channel'[on'[s]].state = "ok" =>
        on[s] # None /\ channel[on[s]].state = "ok"

\* The channel of a service is there after a step, too.
LEMMA StillThere ==
    ASSUME Inv', NEW s \in Services, on'[s] # None
    PROVE  on'[s] \in Tuners /\ channel'[on'[s]] # None
<1>1. on'[s] \in Tuners
  BY DEF Inv, Typed
<1>2. Refs(on', cached', on'[s]) # 0
  BY UserThere, UsersFinite, RefsNat
<1>3. Counts(channel'[on'[s]], Refs(on', cached', on'[s]))
  BY <1>1 DEF Inv, UsesCounted, Refs, Users, UsersOf
<1> QED
  BY <1>1, <1>2, <1>3 DEF Counts

\* A step may make the channel on t ok, not others.
LEMMA OthersAsBefore ==
    ASSUME Inv', NEW t, \A x \in Tuners : x # t => NotNewlyOk(channel[x], channel'[x]),
           NEW s \in Services, on'[s] = on[s] \/ on'[s] = None, on[s] # t
    PROVE  ToldAsBefore(s)
BY StillThere DEF ToldAsBefore, NotNewlyOk

LEMMA NewState ==
    ASSUME NEW i \in Ids
    PROVE  AddUse(Tuned(New(i))).state = "tuning"
<1>1. New(i) \in Begun /\ New(i).state = "tuning"
  BY DEF New, Begun
<1>2. AddUse(New(i)) \in Begun /\ AddUse(New(i)).state = "tuning"
  BY <1>1, AddUseCounts, AddUseState, ChannelBegun
<1>3. AddUse(AddUse(New(i))) \in Begun /\ AddUse(AddUse(New(i))).state = "tuning"
  BY <1>2, AddUseCounts, AddUseState, ChannelBegun
<1> QED
  BY <1>3, AddUseState DEF Tuned

LEMMA TuneStates ==
    ASSUME Inv, LastIsCached, NEW s \in Services, NEW i \in Ids, NEW t \in Tuners,
           Tune(s, i, t)
    PROVE  /\ LastIsCached'
           /\ \A x \in Services : x # s => ToldAsBefore(x)
<1>0. /\ channel \in [Tuners -> Channel \cup {None}] /\ on \in [Services -> Tuners \cup {None}]
      /\ on' = [on EXCEPT ![s] = t] /\ on[s] = None
  BY DEF Inv, Typed, Tune
<1>1. SUFFICES /\ LastAlone(channel'[t])
               /\ \A x \in Tuners : x # t => NotNewlyOk(channel[x], channel'[x])
               /\ \A x \in Services : on[x] = t /\ channel'[t].state = "ok" =>
                                          channel[t].state = "ok"
  <2>1. LastIsCached'
    BY <1>1 DEF LastIsCached, NotNewlyOk
  <2>2. ASSUME NEW x \in Services, x # s PROVE ToldAsBefore(x)
    <3>1. on'[x] = on[x]
      BY <1>0, <2>2
    <3>2. CASE on[x] = t
      BY <1>1, <3>1, <3>2, NoneApart DEF ToldAsBefore
    <3>3. CASE on[x] \in Tuners /\ on[x] # t
      BY <1>1, <3>1, <3>3, TuneStep, OthersAsBefore, NoneApart
    <3>4. CASE on[x] = None
      BY <3>1, <3>4 DEF ToldAsBefore
    <3> QED
      BY <1>0, <3>2, <3>3, <3>4
  <2> QED
    BY <2>1, <2>2
<1>2. CASE UseCached(i, t)
  <2>1. cached = t /\ channel' = [channel EXCEPT ![t] = Tuned(channel[t])]
    BY <1>2 DEF UseCached
  <2>2. channel[t] \in Channel
    <3>1. Refs(on, cached, t) # 0
      BY <2>1, UsersFinite, RefsNat
    <3> QED
      BY <3>1, CountsNow DEF Counts
  <2>3. channel'[t] = Tuned(channel[t])
    BY <1>0, <2>1
  <2>4. \A x \in Tuners : x # t => NotNewlyOk(channel[x], channel'[x])
    BY <1>0, <2>1 DEF LastIsCached, NotNewlyOk
  <2>5. LastAlone(channel'[t])
    BY <2>2, <2>3, TunedState DEF LastAlone
  <2>6. ASSUME NEW x \in Services, on[x] = t, channel'[t].state = "ok"
        PROVE  channel[t].state = "ok"
    BY <2>2, <2>3, <2>6, TunedState, UsedState, NoneApart
  <2> QED
    BY <2>4, <2>5, <2>6
<1>3. CASE Share(i, t)
  <2>1. /\ t # cached /\ channel[t] # None
        /\ channel' = [Evicted EXCEPT ![t] = Tuned(Evicted[t])]
    BY <1>3 DEF Share, Evict, Busy
  <2>2. DOMAIN Evicted = Tuners /\ Evicted[t] = channel[t] /\ channel[t] \in Channel
    BY <1>0, <2>1 DEF Evicted
  <2>3. channel'[t] = Tuned(channel[t]) /\ \A x \in Tuners : x # t => channel'[x] = Evicted[x]
    BY <2>1, <2>2
  <2>4. \A x \in Tuners : x # t => NotNewlyOk(channel[x], channel'[x])
    BY <2>3, EvictedState
  <2>5. LastAlone(channel'[t])
    BY <2>2, <2>3, TunedState DEF LastAlone
  <2>6. ASSUME NEW x \in Services, on[x] = t, channel'[t].state = "ok"
        PROVE  channel[t].state = "ok"
    BY <2>2, <2>3, <2>6, TunedState, UsedState, NoneApart
  <2> QED
    BY <2>4, <2>5, <2>6
<1>4. CASE TakeTuner(i, t)
  <2>1. channel' = [Evicted EXCEPT ![t] = AddUse(Tuned(New(i)))]
    BY <1>4 DEF TakeTuner
  <2>2. DOMAIN Evicted = Tuners
    BY DEF Evicted
  <2>3. /\ channel'[t].state = "tuning"
        /\ \A x \in Tuners : x # t => channel'[x] = Evicted[x]
    BY <2>1, <2>2, NewState
  <2>4. \A x \in Tuners : x # t => NotNewlyOk(channel[x], channel'[x])
    BY <2>3, EvictedState
  <2> QED
    BY <2>3, <2>4 DEF LastAlone
<1> QED
  BY <1>2, <1>3, <1>4 DEF Tune, AllocateChannel

LEMMA FreeState ==
    ASSUME Inv, LastIsCached, NEW s \in Services, Free(s)
    PROVE  \A x \in Tuners : NotNewlyOk(channel[x], channel'[x])
<1>1. /\ on[s] # None /\ channel' = [channel EXCEPT ![on[s]] = Freed(channel[on[s]])]
      /\ channel \in [Tuners -> Channel \cup {None}]
  BY DEF Free, FreeChannel, Inv, Typed
<1> DEFINE c == channel[on[s]]
<1>2. on[s] \in Tuners /\ c \in Channel /\ c.use >= 2 /\ LastAlone(c) /\ c.use \in Nat
  BY <1>1, UsedState DEF LastIsCached, Channel
<1>3. NotNewlyOk(c, ReleaseUse(c)) /\ ReleaseUse(c) \in Channel
  BY <1>2, ReleaseUseState, ReleaseUseCounts
<1>4. NotNewlyOk(ReleaseUse(c), ReleaseUse(ReleaseUse(c)))
  BY <1>3, ReleaseUseState DEF NotNewlyOk
<1>5. NotNewlyOk(c, Freed(c))
  BY <1>3, <1>4 DEF NotNewlyOk, Freed
<1> QED
  BY <1>1, <1>2, <1>5 DEF NotNewlyOk, LastIsCached

LEMMA RawState ==
    ASSUME Inv, LastIsCached, NEW t \in Tuners,
           AllocateRawChannel(t) \/ ReleaseRawChannel(t)
    PROVE  \A x \in Tuners : NotNewlyOk(channel[x], channel'[x])
<1>1. DOMAIN Evicted = Tuners /\ \A x \in Tuners : NotNewlyOk(channel[x], Evicted[x])
  BY EvictedState DEF Evicted
<1>2. CASE AllocateRawChannel(t)
  <2> DEFINE raw == [New(Raw) EXCEPT !.use = 1]
  <2>1. raw.state = "tuning"
    BY DEF New
  <2> HIDE DEF raw
  <2>2. channel' = Evicted \/ channel' = [Evicted EXCEPT ![t] = raw]
    BY <1>2 DEF AllocateRawChannel, Evict, raw
  <2>3. NotNewlyOk(channel[t], raw)
    BY <2>1 DEF NotNewlyOk, LastAlone
  <2> QED
    BY <1>1, <2>2, <2>3
<1>3. CASE ReleaseRawChannel(t)
  BY <1>3 DEF ReleaseRawChannel, Inv, Typed, NotNewlyOk, LastIsCached, LastAlone
<1> QED
  BY <1>2, <1>3

LEMMA FrontendState ==
    ASSUME Inv, LastIsCached, NEW t \in Tuners,
           FrontendLocks(t) \/ FrontendRetunes(t)
    PROVE  /\ \A x \in Tuners : x # t => NotNewlyOk(channel[x], channel'[x])
           /\ LastAlone(channel'[t])
           /\ FrontendRetunes(t) => NotNewlyOk(channel[t], channel'[t])
           /\ UNCHANGED on => \A s \in Services : on[s] = t => channel'[t] # None
<1>1. channel[t] \in Channel /\ channel[t] # None
      /\ channel \in [Tuners -> Channel \cup {None}]
  BY DEF FrontendLocks, FrontendRetunes, Busy, Inv, Typed
<1> DEFINE ok == [channel[t] EXCEPT !.locked = TRUE, !.state = "ok"]
           tuning == [channel[t] EXCEPT !.locked = FALSE, !.state = "tuning"]
<1>2. ok \in Channel /\ tuning \in Channel /\ ok.state = "ok" /\ tuning.state = "tuning"
  BY <1>1 DEF Channel
<1>3. /\ FrontendLocks(t) => channel' = [channel EXCEPT ![t] = ok]
      /\ FrontendRetunes(t) => channel' = [channel EXCEPT ![t] = tuning]
  BY <1>1 DEF FrontendLocks, FrontendRetunes
<1> HIDE DEF ok, tuning
<1> QED
  BY <1>1, <1>2, <1>3, NoneApart DEF NotNewlyOk, LastAlone, LastIsCached

LEMMA AloneState ==
    ASSUME Inv, LastIsCached, Alone
    PROVE  \A x \in Tuners : NotNewlyOk(channel[x], channel'[x])
<1>1. CASE ReleaseCachedChannel \/ AllocatePVRChannel
  BY <1>1, EvictedState DEF ReleaseCachedChannel, AllocatePVRChannel, Evict
<1>2. ASSUME NEW t \in Tuners, AllocateRawChannel(t) \/ ReleaseRawChannel(t)
      PROVE  \A x \in Tuners : NotNewlyOk(channel[x], channel'[x])
  BY <1>2, RawState
<1>3. ASSUME NEW t \in Tuners, FrontendRetunes(t)
      PROVE  \A x \in Tuners : NotNewlyOk(channel[x], channel'[x])
  BY <1>3, FrontendState
<1> QED
  BY <1>1, <1>2, <1>3 DEF Alone

\* A handler that tunes again is the only one there if it makes the channel ok.
LEMMA RetuneState ==
    ASSUME Inv, LastIsCached, NEW s \in Services, on[s] # None, Retune(on[s])
    PROVE  /\ \A x \in Tuners : x # on[s] => NotNewlyOk(channel[x], channel'[x])
           /\ LastAlone(channel'[on[s]])
           /\ \A x \in Services :
                 x # s /\ on[x] = on[s] /\ channel'[on[s]].state = "ok" =>
                     channel[on[s]].state = "ok"
<1> DEFINE t == on[s]
<1>1. t \in Tuners /\ channel[t] \in Channel /\ channel[t].use >= 2
      /\ channel[t].state # "last_instance"
  BY UsedState
<1>2. CASE cached = t
  <2>1. channel' = channel
    BY <1>2 DEF Retune, channelVars
  <2>2. \A x \in Tuners : NotNewlyOk(channel[x], channel'[x]) /\ LastAlone(channel'[x])
    BY <2>1 DEF LastIsCached, NotNewlyOk
  <2> QED
    BY <1>1, <2>1, <2>2
<1>3. CASE cached # t
  <2>1. Evicted[t] = channel[t] /\ DOMAIN Evicted = Tuners
    BY <1>1, <1>3 DEF Evicted
  <2> DEFINE st == IF channel[t].use = 2 THEN "ok" ELSE channel[t].state
             c == [channel[t] EXCEPT !.state = st]
  <2>2. channel' = [Evicted EXCEPT ![t] = c]
    BY <1>3, <2>1 DEF Retune
  <2>3. st # "last_instance"
    BY <1>1
  <2> HIDE DEF st
  <2>4. c.state = st
    BY <1>1 DEF Channel
  <2> HIDE DEF c
  <2>5. channel'[t] = c /\ \A x \in Tuners : x # t => channel'[x] = Evicted[x]
    BY <1>1, <2>1, <2>2
  <2>6. \A x \in Tuners : x # t => NotNewlyOk(channel[x], channel'[x])
    BY <2>5, EvictedState
  <2>7. LastAlone(channel'[t])
    BY <2>3, <2>4, <2>5 DEF LastAlone
  <2>8. ASSUME NEW x \in Services, x # s, on[x] = t
        PROVE  channel[t].use # 2
    <3>1. Refs(on, cached, t) = 2 * Cardinality(UsersOf(on, t))
      BY <1>3, RefsNat
    <3>2. Cardinality(UsersOf(on, t)) # 1
      <4>1. s \in UsersOf(on, t) /\ x \in UsersOf(on, t)
        BY <2>8 DEF UsersOf
      <4>2. IsFiniteSet(UsersOf(on, t))
        BY UsersFinite
      <4> QED
        BY <2>8, <4>1, <4>2, FS_Singleton
    <3>3. Counts(channel[t], Refs(on, cached, t)) /\ Refs(on, cached, t) \in Nat
      BY <1>1, CountsNow, RefsNat
    <3>4. Cardinality(UsersOf(on, t)) \in Nat
      BY UsersFinite
    <3>5. channel[t].use = Refs(on, cached, t)
      BY <1>1, <3>1, <3>2, <3>3, <3>4, NoneApart DEF Counts
    <3> QED
      BY <3>1, <3>2, <3>4, <3>5
  <2>9. ASSUME NEW x \in Services, x # s, on[x] = t, channel'[t].state = "ok"
        PROVE  channel[t].state = "ok"
    <3>1. channel'[t].state = channel[t].state
      BY <2>4, <2>5, <2>8, <2>9 DEF st
    <3> QED
      BY <2>9, <3>1
  <2> QED
    BY <2>6, <2>7, <2>9
<1> QED
  BY <1>2, <1>3

-----------------------------------------------------------------------------
(***************************************************************************)
(* Services that are told.                                                 *)
(***************************************************************************)
\* What was told, or will be, stays so.
KeepsTold(s) ==
    /\ m_tuned[s] => m_tuned'[s]
    /\ <<"tuned", s>> \in todo => m_tuned'[s] \/ <<"tuned", s>> \in todo'

LEMMA ToldKept ==
    ASSUME NEW s \in Services, Told(s), ToldAsBefore(s),
           on'[s] # None => on[s] = on'[s] /\ KeepsTold(s)
    PROVE  Told(s)'
BY DEF Told, ToldAsBefore, KeepsTold

LEMMA ToldStep ==
    ASSUME Inv, Inv', TypeOK, HandlersAgree, LastIsCached, ToldOrCalled, [Next]_vars
    PROVE  LastIsCached' /\ ToldOrCalled'
<1>0. /\ on \in [Services -> Tuners \cup {None}] /\ demux \in [Services -> BOOLEAN]
      /\ m_tuned \in [Services -> BOOLEAN]
  BY DEF TypeOK
<1>1. \A s \in Services : Told(s)
  BY DEF ToldOrCalled, Told
<1>2. ASSUME \A x \in Tuners : NotNewlyOk(channel[x], channel'[x]),
             NEW s, \A x \in Services : x # s => on'[x] = on[x] /\ KeepsTold(x),
             s \in Services => (on'[s] = on[s] /\ KeepsTold(s)) \/ on'[s] = None
      PROVE  LastIsCached' /\ ToldOrCalled'
  <2>1. LastIsCached'
    BY <1>2 DEF LastIsCached, NotNewlyOk
  <2>2. ASSUME NEW x \in Services PROVE Told(x)'
    <3>1. (on'[x] = on[x] /\ KeepsTold(x)) \/ on'[x] = None
      BY <1>2
    <3>2. ToldAsBefore(x)
      BY <1>2, <3>1, StillThere DEF ToldAsBefore, NotNewlyOk
    <3> QED
      BY <1>1, <3>1, <3>2, ToldKept
  <2> QED
    BY <2>1, <2>2 DEF ToldOrCalled, Told
<1>3. ASSUME UNCHANGED <<channel, handlerVars>>, todo \subseteq todo'
      PROVE  LastIsCached' /\ ToldOrCalled'
  BY <1>3 DEF handlerVars, LastIsCached, ToldOrCalled, Told
<1>4. ASSUME NEW s \in Services, NEW i \in Ids, NEW t \in Tuners, Tune(s, i, t),
             m_tuned' = m_tuned, todo = {}
      PROVE  LastIsCached' /\ ToldOrCalled'
  <2>1. on' = [on EXCEPT ![s] = t] /\ (channel'[t].state = "ok" => <<"tuned", s>> \in todo')
    BY <1>4 DEF Tune
  <2>2. LastIsCached' /\ \A x \in Services : x # s => ToldAsBefore(x)
    BY <1>4, TuneStates
  <2>3. ASSUME NEW x \in Services, x # s PROVE Told(x)'
    <3>1. on'[x] = on[x] /\ KeepsTold(x)
      BY <1>0, <1>4, <2>1, <2>3 DEF KeepsTold
    <3> QED
      BY <1>1, <2>2, <2>3, <3>1, ToldKept
  <2>4. Told(s)'
    BY <1>0, <2>1 DEF Told
  <2> QED
    BY <2>2, <2>3, <2>4 DEF ToldOrCalled, Told
<1>5. ASSUME NEW s \in Services, NEW i \in Ids, Play(s, i)
      PROVE  LastIsCached' /\ ToldOrCalled'
  BY <1>4, <1>5 DEF Play, Idle
<1>6. ASSUME NEW r \in Recordings, NEW i \in Ids, Record(r, i)
      PROVE  LastIsCached' /\ ToldOrCalled'
  BY <1>4, <1>6, ServiceAssumption DEF Record, Idle
<1>7. ASSUME NEW s \in Services, Free(s), todo' = todo
      PROVE  LastIsCached' /\ ToldOrCalled'
  <2>1. \A x \in Tuners : NotNewlyOk(channel[x], channel'[x])
    BY <1>7, FreeState
  <2>2. on'[s] = None /\ \A x \in Services : x # s => on'[x] = on[x] /\ KeepsTold(x)
    BY <1>0, <1>7 DEF Free, KeepsTold
  <2> QED
    BY <1>2, <2>1, <2>2
<1>8. ASSUME NEW s \in Services, StopService(s)
      PROVE  LastIsCached' /\ ToldOrCalled'
  BY <1>7, <1>8 DEF StopService
<1>9. ASSUME NEW r \in Recordings, StopRecord(r)
      PROVE  LastIsCached' /\ ToldOrCalled'
  BY <1>7, <1>9, ServiceAssumption DEF StopRecord
<1>10. ASSUME NEW i \in Ids, Refuse(i)
       PROVE  LastIsCached' /\ ToldOrCalled'
  <2>1. \A x \in Tuners : NotNewlyOk(channel[x], channel'[x])
    BY <1>10, EvictedState DEF Refuse, AllocateFails, Evict
  <2>2. \A x \in Services : on'[x] = on[x] /\ KeepsTold(x)
    BY <1>10 DEF Refuse, handlerVars, KeepsTold
  <2> QED
    BY <1>2, <2>1, <2>2
<1>11. CASE Alone
  <2>1. \A x \in Tuners : NotNewlyOk(channel[x], channel'[x])
    BY <1>11, AloneState
  <2>2. \A x \in Services : on'[x] = on[x] /\ KeepsTold(x)
    BY <1>11 DEF Alone, handlerVars, KeepsTold
  <2> QED
    BY <1>2, <2>1, <2>2
<1>12. ASSUME NEW r \in Recordings, Start(r) \/ WriteData(r) \/ WriteError(r)
       PROVE  LastIsCached' /\ ToldOrCalled'
  BY <1>3, <1>12 DEF Start, WriteData, WriteError, channelVars
<1>13. ASSUME NEW s \in Services, EventTuned(s)
       PROVE  LastIsCached' /\ ToldOrCalled'
  <2>1. on' = on /\ channel' = channel
    BY <1>13 DEF EventTuned, channelVars
  <2>2. \A x \in Services : x # s => KeepsTold(x)
    BY <1>0, <1>13 DEF EventTuned, KeepsTold
  <2>3. KeepsTold(s)
    <3>1. CASE demux[s]
      BY <1>13, <3>1 DEF EventTuned, HandlersAgree, KeepsTold
    <3>2. CASE ~demux[s]
      BY <1>0, <1>13, <3>2 DEF EventTuned, KeepsTold
    <3> QED
      BY <3>1, <3>2
  <2>4. \A x \in Tuners : NotNewlyOk(channel[x], channel'[x])
    BY <2>1 DEF LastIsCached, NotNewlyOk
  <2> QED
    BY <1>2, <2>1, <2>2, <2>3, <2>4
<1>14. ASSUME NEW s \in Services, PMTready(s)
       PROVE  LastIsCached' /\ ToldOrCalled'
  BY <1>14 DEF PMTready, Idle, channelVars, LastIsCached, ToldOrCalled, Told
<1>15. ASSUME NEW s \in Services, EventNewProgramInfo(s)
       PROVE  LastIsCached' /\ ToldOrCalled'
  <2>1. /\ UNCHANGED handlerVars /\ on[s] # None /\ m_tuned[s]
        /\ \A x \in Services : <<"tuned", x>> \in todo => <<"tuned", x>> \in todo'
    <3>1. "info" # "tuned"
      OBVIOUS
    <3> QED
      BY <1>15, <3>1 DEF EventNewProgramInfo, HandlersAgree
  <2>2. CASE channel' = channel
    BY <2>1, <2>2 DEF handlerVars, LastIsCached, ToldOrCalled, Told
  <2>3. CASE Retune(on[s])
    <3>1. /\ \A x \in Tuners : x # on[s] => NotNewlyOk(channel[x], channel'[x])
          /\ LastAlone(channel'[on[s]])
          /\ \A x \in Services :
                x # s /\ on[x] = on[s] /\ channel'[on[s]].state = "ok" =>
                    channel[on[s]].state = "ok"
      BY <2>1, <2>3, RetuneState
    <3>2. LastIsCached'
      BY <3>1 DEF LastIsCached, NotNewlyOk
    <3>3. Told(s)'
      BY <2>1 DEF Told, handlerVars
    <3>4. ASSUME NEW x \in Services, x # s PROVE Told(x)'
      <4>1. on'[x] = on[x] /\ KeepsTold(x)
        BY <2>1 DEF handlerVars, KeepsTold
      <4>2. CASE on[x] = on[s]
        BY <1>1, <2>1, <3>1, <3>4, <4>1, <4>2, ToldKept DEF ToldAsBefore
      <4>3. CASE on[x] # on[s]
        BY <1>1, <3>1, <4>1, <4>3, OthersAsBefore, ToldKept
      <4> QED
        BY <4>2, <4>3
    <3> QED
      BY <3>2, <3>3, <3>4 DEF ToldOrCalled, Told
  <2> QED
    BY <1>15, <2>2, <2>3 DEF EventNewProgramInfo, Prepares, GoesOn, channelVars
<1>16. ASSUME NEW t \in Tuners, Lock(t)
       PROVE  LastIsCached' /\ ToldOrCalled'
  <2>1. /\ UNCHANGED handlerVars /\ todo = {}
        /\ todo' = IF channel[t].state = "ok"
                   THEN {} ELSE {<<"tuned", s>> : s \in {x \in Services : on[x] = t}}
    BY <1>16 DEF Lock, Idle
  <2>2. /\ \A x \in Tuners : x # t => NotNewlyOk(channel[x], channel'[x])
        /\ LastAlone(channel'[t])
    BY <1>16, FrontendState DEF Lock
  <2>3. LastIsCached'
    BY <2>2 DEF LastIsCached, NotNewlyOk
  <2>4. ASSUME NEW x \in Services PROVE Told(x)'
    <3>1. on'[x] = on[x] /\ KeepsTold(x)
      BY <2>1 DEF handlerVars, KeepsTold
    <3>2. CASE on[x] # t
      BY <1>1, <2>2, <3>1, <3>2, OthersAsBefore, ToldKept
    <3>3. CASE on[x] = t /\ channel[t].state = "ok"
      BY <1>1, <3>1, <3>3, ToldKept DEF ToldAsBefore
    <3>4. CASE on[x] = t /\ channel[t].state # "ok"
      BY <2>1, <3>4 DEF Told
    <3> QED
      BY <3>2, <3>3, <3>4
  <2> QED
    BY <2>3, <2>4 DEF ToldOrCalled, Told
<1>17. CASE UNCHANGED vars
  BY <1>3, <1>17 DEF vars, channelVars
<1> QED
  BY <1>5, <1>6, <1>8, <1>9, <1>10, <1>11, <1>12, <1>13, <1>14, <1>15, <1>16, <1>17, Zenon DEF Next

-----------------------------------------------------------------------------
Strong ==
    /\ Inv /\ TypeOK
    /\ HandlersAgree /\ LastIsCached /\ ToldOrCalled /\ RecordsHold /\ RunsOrCalled

LEMMA InitStrong == Init => Strong
<1> SUFFICES ASSUME Init PROVE Strong
  OBVIOUS
<1>1. Inv /\ TypeOK
  BY InitInv, InitTypes
<1>2. HandlersAgree
  BY DEF Init, HandlersAgree
<1>3. LastIsCached /\ ToldOrCalled
  BY DEF Init, ChannelInit, LastIsCached, LastAlone, ToldOrCalled, Told
<1>4. RecordsHold
  BY ServiceAssumption DEF Init, RecordsHold, Holds
<1>5. RunsOrCalled
  BY DEF Init, RunsOrCalled, Runs
<1> QED
  BY <1>1, <1>2, <1>3, <1>4, <1>5 DEF Strong

LEMMA NextStrong == Strong /\ [Next]_vars => Strong'
<1> SUFFICES ASSUME Strong, [Next]_vars PROVE Strong'
  OBVIOUS
<1>1. Inv'
  BY NextInv DEF Strong
<1>2. TypeOK'
  BY TypesNext DEF Strong
<1>3. HandlersAgree'
  BY HandlersStep DEF Strong
<1>4. LastIsCached' /\ ToldOrCalled'
  BY <1>1, ToldStep DEF Strong
<1>5. RecordsHold'
  BY RecordsStep DEF Strong
<1>6. RunsOrCalled'
  BY RunsStep DEF Strong
<1> QED
  BY <1>1, <1>2, <1>3, <1>4, <1>5, <1>6 DEF Strong

\* Every variable of the services and of the tuners stays in its range.
THEOREM ServicesTyped == Spec => []TypeOK
<1>1. Strong => TypeOK
  BY DEF Strong
<1> QED
  BY <1>1, InitStrong, NextStrong, PTL DEF Spec

\* A recording that runs has its channel, its demux, its recorder and its file
\* still, whatever was refused, stopped or tuned anew; one that is gone holds no
\* tuner.
THEOREM RecordingHoldsWhatItNeeds == Spec => []HoldsWhatItNeeds
<1>1. Strong => HoldsWhatItNeeds
  BY DEF Strong, RecordsHold, Holds, HoldsWhatItNeeds
<1> QED
  BY <1>1, InitStrong, NextStrong, PTL DEF Spec

\* No service misses that its channel is tuned: with no call left to be made
\* every service on a channel in state_ok has sent eventTuned.
THEOREM ServicesAreTold == Spec => []TunedWhenOk
<1>1. Strong => TunedWhenOk
  BY DEF Strong, ToldOrCalled, Told, TunedWhenOk, Idle
<1> QED
  BY <1>1, InitStrong, NextStrong, PTL DEF Spec

\* The start, the tuning and the program information of a recording may come in
\* any order: without a failure it runs when it has all three.
THEOREM RecordingRunsInAnyOrder == Spec => []RunsInAnyOrder
<1>1. Strong => RunsInAnyOrder
  BY DEF Strong, RunsOrCalled, Runs, RunsInAnyOrder, Idle
<1> QED
  BY <1>1, InitStrong, NextStrong, PTL DEF Spec
=============================================================================
