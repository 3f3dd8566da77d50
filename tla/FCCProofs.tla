----------------------------- MODULE FCCProofs -----------------------------
(***************************************************************************)
(* For any services, channels and lists: the prepared services of each     *)
(* channel are counted right, only the service that is watched decodes,    *)
(* none is kept from a recording, there are never more than the setting    *)
(* allows, the preparations do not come to a halt, and what is in the map  *)
(* is not prepared again where every service has one name.                 *)
(***************************************************************************)
EXTENDS FCCSupport, FiniteSetTheorems, FunctionTheorems, SequenceTheorems,
        TLAPS, WellFoundedInduction

(***************************************************************************)
(* The manager.  A service is connected until it decodes; what is not      *)
(* needed here, its name and what has failed, may be anything.             *)
(***************************************************************************)
Element(e) ==
    /\ e = [name |-> e.name, connected |-> e.connected, state |-> e.state,
            normal |-> e.normal, locked |-> e.locked, failed |-> e.failed]
    /\ e.connected = (e.state # "decoding")

Decoding(m) == In(m, "decoding")

OnChannel(m, c) == {s \in InMap(m) \ Decoding(m) : ChannelID[s] = c}

Counted(m) == \A c \in Channels : m.chids[c] = Cardinality(OnChannel(m, c))

Shape(m) ==
    /\ m = [services |-> m.services, chids |-> m.chids]
    /\ m.services = [s \in InMap(m) |-> m.services[s]]
    /\ InMap(m) \subseteq Services
    /\ \A s \in InMap(m) : Element(m.services[s])
    /\ m.chids \in [Channels -> Nat]

Manager(m) == Shape(m) /\ Counted(m)

\* The map holds the services in S, those in D decode.
Holds(m, S, D) == Manager(m) /\ InMap(m) = S /\ Decoding(m) = D

LEMMA OnChannelFinite ==
    ASSUME NEW m, InMap(m) \subseteq Services, NEW c
    PROVE  /\ IsFiniteSet(OnChannel(m, c))
           /\ Cardinality(OnChannel(m, c)) \in Nat
<1>1. OnChannel(m, c) \subseteq Services
  BY DEF OnChannel
<1> QED
  BY <1>1, ServiceAssumption, FS_Subset, FS_CardinalityType

\* What is stopped is no longer counted, if it was.
LEMMA StoppedHolds ==
    ASSUME NEW m, Manager(m), NEW S
    PROVE  Holds(Stopped(m, S), InMap(m) \ S, Decoding(m) \ S)
<1> DEFINE n == Stopped(m, S)
<1>1. n = [services |-> n.services, chids |-> n.chids]
  BY DEF Stopped
<1>2. n.services = [s \in InMap(m) \ S |-> m.services[s]]
  BY DEF Stopped, Restrict
<1>3. InMap(n) = InMap(m) \ S
  BY <1>2 DEF InMap
<1>4. \A s \in InMap(n) : n.services[s] = m.services[s]
  BY <1>2, <1>3
<1>5. Decoding(n) = Decoding(m) \ S
  BY <1>3, <1>4 DEF Decoding, In
<1>6. ASSUME NEW c \in Channels
      PROVE  n.chids[c] = Cardinality(OnChannel(n, c)) /\ n.chids[c] \in Nat
  <2> DEFINE H == {s \in S \cap InMap(m) :
                      m.services[s].connected /\ ChannelID[s] = c}
  <2>1. H = OnChannel(m, c) \cap S
    BY DEF OnChannel, Decoding, In, Manager, Shape, Element
  <2>2. OnChannel(n, c) = OnChannel(m, c) \ S
    BY <1>3, <1>5 DEF OnChannel
  <2>3. IsFiniteSet(OnChannel(m, c)) /\ Cardinality(OnChannel(m, c)) \in Nat
    BY OnChannelFinite DEF Manager, Shape
  <2>4. /\ Cardinality(OnChannel(n, c)) = Cardinality(OnChannel(m, c)) - Cardinality(H)
        /\ Cardinality(H) \in Nat
        /\ Cardinality(OnChannel(n, c)) \in Nat
    <3>1. H \subseteq OnChannel(m, c) /\ OnChannel(n, c) \subseteq OnChannel(m, c)
      BY <2>1, <2>2
    <3>2. IsFiniteSet(H) /\ IsFiniteSet(OnChannel(n, c))
      BY <3>1, <2>3, FS_Subset
    <3>3. Cardinality(OnChannel(n, c)) = Cardinality(OnChannel(m, c)) - Cardinality(H)
      <4> DEFINE on == OnChannel(m, c)
      <4> HIDE DEF H, n
      <4>1. IsFiniteSet(on) /\ H = on \cap S /\ OnChannel(n, c) = on \ S
        BY <2>1, <2>2, <2>3
      <4> HIDE DEF on
      <4>2. Cardinality(on \ S) = Cardinality(on) - Cardinality(on \cap S)
        BY <4>1, FS_Difference, Zenon
      <4> QED
        BY <4>1, <4>2, Zenon DEF on
    <3> QED
      BY <3>2, <3>3, FS_CardinalityType
  <2>5. Heard(m, S, c) = Cardinality(H)
    BY DEF Heard
  <2>6. m.chids[c] = Cardinality(OnChannel(m, c))
    BY DEF Manager, Counted
  <2>7. n.chids[c] = IF Heard(m, S, c) > m.chids[c] THEN 0
                     ELSE m.chids[c] - Heard(m, S, c)
    BY DEF Stopped
  <2> HIDE DEF H, n
  <2> QED
    BY <2>3, <2>4, <2>5, <2>6, <2>7
<1>7. n.chids = [c \in Channels |-> n.chids[c]]
  BY DEF Stopped
<1>8. n.chids \in [Channels -> Nat]
  <2> HIDE DEF n
  <2> QED  BY <1>6, <1>7
<1>9. Manager(n)
  <2> HIDE DEF n
  <2>1. InMap(n) \subseteq Services /\ \A s \in InMap(n) : Element(n.services[s])
    BY <1>3, <1>4 DEF Manager, Shape
  <2>2. n.services = [s \in InMap(n) |-> n.services[s]]
    BY <1>2, <1>3
  <2> QED
    BY <1>1, <2>1, <2>2, <1>6, <1>8 DEF Manager, Shape, Counted
<1> QED
  BY <1>3, <1>5, <1>9 DEF Holds

LEMMA StopFailedHolds ==
    ASSUME NEW m, Manager(m)
    PROVE  Holds(StopFailed(m), InMap(m) \ In(m, "failed"), Decoding(m))
<1>1. Decoding(m) \ In(m, "failed") = Decoding(m)
  BY DEF Decoding, In
<1> QED
  BY <1>1, StoppedHolds DEF StopFailed

LEMMA CleanupHolds ==
    ASSUME NEW m, Manager(m)
    PROVE  Holds(Cleanup(m), {}, {})
<1>1. Decoding(m) \ InMap(m) = {} /\ InMap(m) \ InMap(m) = {}
  BY DEF Decoding, In
<1> QED
  BY <1>1, StoppedHolds DEF Cleanup

\* One service more, or less, of those that are prepared.
LEMMA AddCounts ==
    ASSUME NEW m, Manager(m), NEW n, Shape(n), n.chids = m.chids,
           NEW s \in Services, s \notin InMap(m) \ Decoding(m),
           InMap(n) \ Decoding(n) = (InMap(m) \ Decoding(m)) \cup {s}
    PROVE  Holds(AddFCCService(n, s), InMap(n), Decoding(n))
<1> DEFINE a == AddFCCService(n, s)
<1>1. ChannelID[s] \in Channels
  BY ServiceAssumption
<1>2. /\ a = [services |-> n.services, chids |-> a.chids]
      /\ a.chids = [n.chids EXCEPT ![ChannelID[s]] = n.chids[ChannelID[s]] + 1]
  BY DEF AddFCCService, Shape
<1>3. InMap(a) = InMap(n) /\ Decoding(a) = Decoding(n)
  BY <1>2 DEF InMap, Decoding, In
<1>4. Shape(a)
  <2>1. a.chids \in [Channels -> Nat]
    BY <1>1, <1>2 DEF Shape
  <2> QED
    BY <1>2, <1>3, <2>1 DEF Shape
<1>5. ASSUME NEW c \in Channels
      PROVE  a.chids[c] = Cardinality(OnChannel(a, c))
  <2>1. OnChannel(a, c) = IF c = ChannelID[s] THEN OnChannel(m, c) \cup {s}
                          ELSE OnChannel(m, c)
    <3> HIDE DEF a
    <3> QED  BY <1>3 DEF OnChannel
  <2>2. IsFiniteSet(OnChannel(m, c)) /\ s \notin OnChannel(m, c)
    <3>1. InMap(m) \subseteq Services
      BY DEF Manager, Shape
    <3>2. s \notin OnChannel(m, c)
      BY DEF OnChannel
    <3> QED
      BY <3>1, <3>2, OnChannelFinite, Zenon
  <2>3. Cardinality(OnChannel(m, c) \cup {s}) = Cardinality(OnChannel(m, c)) + 1
    BY <2>2, FS_AddElement
  <2>4. m.chids[c] = Cardinality(OnChannel(m, c)) /\ m.chids \in [Channels -> Nat]
    BY DEF Manager, Shape, Counted
  <2> HIDE DEF a
  <2> QED
    BY <1>1, <1>2, <2>1, <2>3, <2>4
<1> HIDE DEF a
<1>6. Holds(a, InMap(n), Decoding(n))
  BY <1>3, <1>4, <1>5 DEF Holds, Manager, Counted
<1> QED
  BY <1>6 DEF a

LEMMA RemoveCounts ==
    ASSUME NEW m, Manager(m), NEW n, Shape(n), n.chids = m.chids,
           NEW s \in InMap(m) \ Decoding(m),
           InMap(n) \ Decoding(n) = (InMap(m) \ Decoding(m)) \ {s}
    PROVE  Holds(RemoveFCCService(n, s), InMap(n), Decoding(n))
<1> DEFINE a == RemoveFCCService(n, s)
           k == ChannelID[s]
<1>1. s \in Services /\ k \in Channels
  BY ServiceAssumption DEF Manager, Shape
<1>2. /\ a = [services |-> n.services, chids |-> a.chids]
      /\ a.chids = [n.chids EXCEPT ![k] = IF n.chids[k] = 0 THEN 0
                                          ELSE n.chids[k] - 1]
  BY DEF RemoveFCCService, Shape
<1>3. InMap(a) = InMap(n) /\ Decoding(a) = Decoding(n)
  BY <1>2 DEF InMap, Decoding, In
<1>4. Shape(a)
  <2>1. n.chids \in [Channels -> Nat] /\ n.chids[k] \in Nat
    BY <1>1 DEF Shape
  <2>2. a.chids \in [Channels -> Nat]
    <3> HIDE DEF a, k
    <3> QED  BY <1>1, <1>2, <2>1
  <2> QED
    BY <1>2, <1>3, <2>2 DEF Shape
<1>5. ASSUME NEW c \in Channels
      PROVE  a.chids[c] = Cardinality(OnChannel(a, c))
  <2>1. OnChannel(a, c) = IF c = k THEN OnChannel(m, c) \ {s} ELSE OnChannel(m, c)
    <3> HIDE DEF a
    <3> QED  BY <1>3 DEF OnChannel
  <2>2. IsFiniteSet(OnChannel(m, c)) /\ Cardinality(OnChannel(m, c)) \in Nat
    BY OnChannelFinite DEF Manager, Shape
  <2>3. m.chids[c] = Cardinality(OnChannel(m, c)) /\ m.chids \in [Channels -> Nat]
    BY DEF Manager, Shape, Counted
  <2>4. CASE c = k
    <3>1. s \in OnChannel(m, c)
      BY <2>4 DEF OnChannel
    <3>2. /\ Cardinality(OnChannel(m, c) \ {s}) = Cardinality(OnChannel(m, c)) - 1
          /\ Cardinality(OnChannel(m, c)) # 0
      BY <3>1, <2>2, FS_RemoveElement, FS_EmptySet
    <3> HIDE DEF a, k
    <3> QED
      BY <1>1, <1>2, <2>1, <2>2, <2>3, <2>4, <3>2
  <2>5. CASE c # k
    <3> HIDE DEF a, k
    <3> QED  BY <1>1, <1>2, <2>1, <2>3, <2>5
  <2> QED
    BY <2>4, <2>5
<1> HIDE DEF a
<1>6. Holds(a, InMap(n), Decoding(n))
  BY <1>3, <1>4, <1>5 DEF Holds, Manager, Counted
<1> QED
  BY <1>6 DEF a

\* A service whose element is replaced, or that comes into the map.
LEMMA PutShape ==
    ASSUME NEW m, Shape(m), NEW s \in Services, NEW e, Element(e)
    PROVE  /\ Shape(Put(m, s, e)) /\ Put(m, s, e).chids = m.chids
           /\ InMap(Put(m, s, e)) = InMap(m) \cup {s}
           /\ Decoding(Put(m, s, e)) = IF e.state = "decoding"
                                      THEN Decoding(m) \cup {s} ELSE Decoding(m) \ {s}
<1> DEFINE n == Put(m, s, e)
           f == [x \in InMap(m) \cup {s} |-> IF x = s THEN e ELSE m.services[x]]
<1>1. n = [services |-> f, chids |-> m.chids]
  BY DEF Put, Shape, InMap
<1>2. InMap(n) = InMap(m) \cup {s}
  BY <1>1 DEF InMap
<1>3. \A x \in InMap(n) : n.services[x] = IF x = s THEN e ELSE m.services[x]
  BY <1>1, <1>2
<1>4. Shape(n)
  <2>1. n = [services |-> n.services, chids |-> n.chids] /\ n.chids = m.chids
    BY <1>1
  <2>2. n.services = [x \in InMap(n) |-> n.services[x]]
    BY <1>1, <1>2
  <2> HIDE DEF n
  <2> QED
    BY <1>2, <1>3, <2>1, <2>2 DEF Shape
<1>5. Decoding(n) = IF e.state = "decoding" THEN Decoding(m) \cup {s}
                    ELSE Decoding(m) \ {s}
  <2> HIDE DEF n
  <2> QED  BY <1>2, <1>3 DEF Decoding, In
<1> QED
  BY <1>1, <1>2, <1>4, <1>5

LEMMA PutSame ==
    ASSUME NEW m, Manager(m), NEW s \in InMap(m), NEW e, Element(e),
           (e.state = "decoding") <=> (m.services[s].state = "decoding")
    PROVE  Holds(Put(m, s, e), InMap(m), Decoding(m))
<1> DEFINE n == Put(m, s, e)
<1>1. s \in Services
  BY DEF Manager, Shape
<1>2. /\ Shape(n) /\ n.chids = m.chids /\ InMap(n) = InMap(m) \cup {s}
      /\ Decoding(n) = IF e.state = "decoding"
                       THEN Decoding(m) \cup {s} ELSE Decoding(m) \ {s}
  BY <1>1, PutShape DEF Manager
<1> HIDE DEF n
<1>3. InMap(n) = InMap(m) /\ Decoding(n) = Decoding(m)
  BY <1>2 DEF Decoding, In
<1>4. \A c \in Channels : n.chids[c] = Cardinality(OnChannel(n, c))
  <2>1. \A c \in Channels : OnChannel(n, c) = OnChannel(m, c)
    BY <1>3 DEF OnChannel
  <2> QED
    BY <1>2, <2>1 DEF Manager, Counted
<1>5. Holds(n, InMap(m), Decoding(m))
  BY <1>2, <1>3, <1>4 DEF Holds, Manager, Counted
<1> QED
  BY <1>5 DEF n

\* The handlers change the fields of an element in place.
LEMMA InPlace ==
    ASSUME NEW m, Shape(m), NEW s \in InMap(m), NEW e
    PROVE  [m EXCEPT !.services[s] = e] = Put(m, s, e)
<1> DEFINE f == m.services
           g == [x \in InMap(m) \cup {s} |-> IF x = s THEN e ELSE f[x]]
<1>1. g = [f EXCEPT ![s] = e]
  BY DEF Shape, InMap
<1>2. Put(m, s, e) = [m EXCEPT !.services = g]
  BY DEF Put, InMap
<1> QED
  BY <1>1, <1>2

WithLocked(e, x) == [e EXCEPT !.locked = x]
WithFailed(e, x, y) == [e EXCEPT !.failed = x, !.state = y]
WithConnected(e, x, y) == [e EXCEPT !.connected = x, !.state = y]

LEMMA ElementExcept ==
    ASSUME NEW e, Element(e), NEW x, NEW y
    PROVE  /\ Element(WithLocked(e, x)) /\ WithLocked(e, x).state = e.state
           /\ (e.connected = (y # "decoding")) =>
                 Element(WithFailed(e, x, y)) /\ WithFailed(e, x, y).state = y
<1> DEFINE a == e.name
           b == e.connected
           c == e.state
           d == e.normal
           l == e.locked
           f == e.failed
           e1 == [e EXCEPT !.failed = x]
           e3 == [e EXCEPT !.locked = x]
           e4 == [e1 EXCEPT !.state = y]
<1>1. e = [name |-> a, connected |-> b, state |-> c,
           normal |-> d, locked |-> l, failed |-> f] /\ b = (c # "decoding")
  BY DEF Element
<1> HIDE DEF a, b, c, d, l, f
<1>2. e1 = [name |-> a, connected |-> b, state |-> c,
            normal |-> d, locked |-> l, failed |-> x]
  BY <1>1
<1>4. e3 = [name |-> a, connected |-> b, state |-> c,
            normal |-> d, locked |-> x, failed |-> f]
  BY <1>1
<1> HIDE DEF e1, e3
<1>5. e4 = [name |-> a, connected |-> b, state |-> y,
            normal |-> d, locked |-> l, failed |-> x]
  BY <1>2
<1>11. e3 = WithLocked(e, x) /\ e4 = WithFailed(e, x, y)
  BY DEF e1, e3, WithLocked, WithFailed
<1> HIDE DEF e4
<1>7. e1.state = c /\ e3.state = c /\ e4.state = y
  BY <1>2, <1>4, <1>5
<1>8. Element(e3)
  BY <1>1, <1>4 DEF Element
<1>9. b = (y # "decoding") => Element(e4)
  BY <1>5 DEF Element
<1> QED
  BY <1>7, <1>8, <1>9, <1>11 DEF b, c

LEMMA WithConnectedFields ==
    ASSUME NEW e, Element(e), NEW x, NEW y
    PROVE  WithConnected(e, x, y) =
              [name |-> e.name, connected |-> x, state |-> y,
               normal |-> e.normal, locked |-> e.locked, failed |-> e.failed]
<1> DEFINE a == e.name
           b == e.connected
           c == e.state
           d == e.normal
           l == e.locked
           f == e.failed
           e1 == [e EXCEPT !.connected = x]
<1>1. e = [name |-> a, connected |-> b, state |-> c,
           normal |-> d, locked |-> l, failed |-> f]
  BY DEF Element
<1> HIDE DEF a, b, c, d, l, f
<1>2. e1 = [name |-> a, connected |-> x, state |-> c,
            normal |-> d, locked |-> l, failed |-> f]
  BY <1>1
<1>3. WithConnected(e, x, y) = [e1 EXCEPT !.state = y]
  BY DEF WithConnected
<1> HIDE DEF e1
<1> QED
  BY <1>2, <1>3 DEF a, d, l, f

LEMMA ConnectedExcept ==
    ASSUME NEW e, Element(e), NEW y, y # "decoding"
    PROVE  /\ Element(WithConnected(e, TRUE, y)) /\ WithConnected(e, TRUE, y).state # "decoding"
           /\ Element(WithConnected(e, FALSE, "decoding"))
           /\ WithConnected(e, FALSE, "decoding").state = "decoding"
<1> DEFINE e1 == WithConnected(e, TRUE, y)
           e2 == WithConnected(e, FALSE, "decoding")
<1>1. e1 = [name |-> e.name, connected |-> TRUE, state |-> y,
            normal |-> e.normal, locked |-> e.locked, failed |-> e.failed]
  BY WithConnectedFields, Zenon
<1>2. e2 = [name |-> e.name, connected |-> FALSE, state |-> "decoding",
            normal |-> e.normal, locked |-> e.locked, failed |-> e.failed]
  BY WithConnectedFields, Zenon
<1> HIDE DEF e1, e2
<1>3. Element(e1) /\ e1.state # "decoding"
  BY <1>1 DEF Element
<1>4. Element(e2) /\ e2.state = "decoding"
  BY <1>2 DEF Element
<1> QED
  BY <1>3, <1>4 DEF e1, e2

LEMMA LockedHolds ==
    ASSUME NEW m, Manager(m), NEW s \in InMap(m)
    PROVE  Holds([m EXCEPT !.services[s].locked = TRUE], InMap(m), Decoding(m))
<1> DEFINE d == WithLocked(m.services[s], TRUE)
<1>1. Element(m.services[s]) /\ Shape(m)
  BY DEF Manager, Shape
<1>2. Element(d) /\ d.state = m.services[s].state
  BY <1>1, ElementExcept
<1>3. [m EXCEPT !.services[s].locked = TRUE] = Put(m, s, d)
  <2>1. [m EXCEPT !.services[s].locked = TRUE] = [m EXCEPT !.services[s] = d]
    BY DEF WithLocked
  <2> HIDE DEF d
  <2> QED
    BY <1>1, <2>1, InPlace
<1> HIDE DEF d
<1>4. Holds(Put(m, s, d), InMap(m), Decoding(m))
  BY <1>2, PutSame
<1> QED
  BY <1>3, <1>4

LEMMA FailsHolds ==
    ASSUME NEW m, Manager(m), NEW s \in InMap(m), NEW failed
    PROVE  Holds(Fails(m, s, failed), InMap(m), Decoding(m))
<1> DEFINE e == m.services[s]
           y == IF e.connected THEN "failed" ELSE e.state
           d == WithFailed(e, failed, y)
<1>1. Element(e) /\ Shape(m)
  BY DEF Manager, Shape
<1>2. (e.connected = (y # "decoding")) /\ (y = "decoding" <=> e.state = "decoding")
  BY <1>1 DEF Element
<1>3. Element(d) /\ (d.state = "decoding" <=> e.state = "decoding")
  <2>1. Element(d) /\ d.state = y
    <3> HIDE DEF e, y
    <3> QED  BY <1>1, <1>2, ElementExcept
  <2> QED
    BY <1>2, <2>1
<1>4. Fails(m, s, failed) = Put(m, s, d)
  <2>2. Fails(m, s, failed) = [m EXCEPT !.services[s] = d]
    BY DEF Fails, WithFailed
  <2> HIDE DEF d
  <2> QED  BY <1>1, <2>2, InPlace
<1> HIDE DEF d
<1>5. Holds(Put(m, s, d), InMap(m), Decoding(m))
  BY <1>3, PutSame
<1> QED
  BY <1>4, <1>5

(***************************************************************************)
(* Services that begin and cease to decode.                                *)
(***************************************************************************)
LEMMA LeaveHolds ==
    ASSUME NEW m, Manager(m), NEW d \in Decoding(m)
    PROVE  \E S \in SUBSET InMap(m) : Holds(Leave(m, d), S, Decoding(m) \ {d})
<1>1. Shape(m) /\ d \in InMap(m) /\ d \in Services /\ Element(m.services[d])
  BY DEF Manager, Shape, Decoding, In
<1>2. CASE m.services[d].normal
  BY <1>2, StoppedHolds DEF Leave
<1>3. CASE ~m.services[d].normal
  <2> DEFINE y == StateFor(m.services[d].failed)
             e == WithConnected(m.services[d], TRUE, y)
             n == Put(m, d, e)
  <2>1. y # "decoding"
    BY DEF StateFor
  <2>2. Element(e) /\ e.state # "decoding"
    <3> HIDE DEF y
    <3> QED  BY <1>1, <2>1, ConnectedExcept
  <2>3. Reconnected(m, d) = n
    <3>1. Reconnected(m, d) = [m EXCEPT !.services[d] = e]
      BY DEF Reconnected, WithConnected
    <3> HIDE DEF e
    <3> QED  BY <1>1, <3>1, InPlace
  <2> HIDE DEF e
  <2>4. /\ Shape(n) /\ n.chids = m.chids /\ InMap(n) = InMap(m) \cup {d}
        /\ Decoding(n) = Decoding(m) \ {d}
    BY <1>1, <2>2, PutShape
  <2> HIDE DEF n
  <2>5. InMap(n) \ Decoding(n) = (InMap(m) \ Decoding(m)) \cup {d}
    BY <1>1, <2>4
  <2>6. Holds(AddFCCService(n, d), InMap(n), Decoding(n))
    BY <1>1, <2>4, <2>5, AddCounts
  <2>7. InMap(n) \in SUBSET InMap(m)
    BY <1>1, <2>4
  <2> QED
    BY <1>3, <2>3, <2>4, <2>6, <2>7 DEF Leave
<1> QED
  BY <1>2, <1>3

LEMMA UseHolds ==
    ASSUME NEW m, Manager(m), NEW s \in InMap(m) \ Decoding(m)
    PROVE  Holds(Use(m, s), InMap(m), Decoding(m) \cup {s})
<1>1. Shape(m) /\ s \in Services /\ Element(m.services[s])
  BY DEF Manager, Shape
<1> DEFINE e == WithConnected(m.services[s], FALSE, "decoding")
           n == Put(m, s, e)
<1>2. Element(e) /\ e.state = "decoding"
  <2>1. "failed" # "decoding"
    OBVIOUS
  <2> QED
    BY <1>1, <2>1, ConnectedExcept
<1>3. Use(m, s) = RemoveFCCService(n, s)
  <2>1. [m EXCEPT !.services[s] = e] = n
    <3> HIDE DEF e
    <3> QED  BY <1>1, InPlace
  <2> QED
    BY <2>1 DEF Use, WithConnected
<1> HIDE DEF e
<1>4. /\ Shape(n) /\ n.chids = m.chids /\ InMap(n) = InMap(m)
      /\ Decoding(n) = Decoding(m) \cup {s}
  <2>1. InMap(m) \cup {s} = InMap(m)
    OBVIOUS
  <2> QED
    BY <1>1, <1>2, <2>1, PutShape
<1> HIDE DEF n
<1>5. InMap(n) \ Decoding(n) = (InMap(m) \ Decoding(m)) \ {s}
  BY <1>4
<1>6. Holds(RemoveFCCService(n, s), InMap(n), Decoding(n))
  BY <1>4, <1>5, RemoveCounts
<1> QED
  BY <1>3, <1>4, <1>6

LEMMA PutWatchedHolds ==
    ASSUME NEW m, Manager(m), InMap(m) = {}, NEW s \in Services, NEW name, NEW o
    PROVE  Holds(PutWatched(m, s, name, o), {s}, {s})
<1> DEFINE e == [name |-> name, connected |-> FALSE, normal |-> o.normal,
                 state |-> "decoding", locked |-> o.locked, failed |-> o.failed]
           n == Put(m, s, e)
<1>1. Element(e) /\ e.state = "decoding"
  BY DEF Element
<1>2. PutWatched(m, s, name, o) = n
  BY DEF PutWatched
<1> HIDE DEF e
<1>3. /\ Shape(n) /\ n.chids = m.chids /\ InMap(n) = {s} /\ Decoding(n) = {s}
  <2>1. Decoding(m) = {}
    BY DEF Decoding, In
  <2>2. /\ Shape(n) /\ n.chids = m.chids /\ InMap(n) = InMap(m) \cup {s}
        /\ Decoding(n) = Decoding(m) \cup {s}
    BY <1>1, PutShape DEF Manager
  <2> QED
    BY <2>1, <2>2
<1> HIDE DEF n
<1>4. \A c \in Channels : OnChannel(n, c) = OnChannel(m, c)
  BY <1>3 DEF OnChannel
<1> QED
  BY <1>2, <1>3, <1>4 DEF Holds, Manager, Counted

LEMMA PreparedHolds ==
    ASSUME NEW m, Manager(m), NEW s \in Services, s \notin InMap(m),
           NEW name, NEW o
    PROVE  Holds(Prepared(m, s, name, o), InMap(m) \cup {s}, Decoding(m))
<1> DEFINE y == StateFor(o.failed)
           e == [name |-> name, connected |-> TRUE, normal |-> FALSE,
                 state |-> y, locked |-> o.locked, failed |-> o.failed]
           n == Put(m, s, e)
<1>1. y # "decoding"
  BY DEF StateFor
<1>2. Element(e) /\ e.state # "decoding"
  <2> HIDE DEF y
  <2> QED  BY <1>1 DEF Element
<1>3. Prepared(m, s, name, o) = AddFCCService(n, s)
  BY DEF Prepared
<1> HIDE DEF e
<1>4. s \notin Decoding(m)
  BY DEF Decoding, In
<1>5. /\ Shape(n) /\ n.chids = m.chids /\ InMap(n) = InMap(m) \cup {s}
      /\ Decoding(n) = Decoding(m)
  <2>1. Decoding(m) \ {s} = Decoding(m)
    BY <1>4
  <2>2. /\ Shape(n) /\ n.chids = m.chids /\ InMap(n) = InMap(m) \cup {s}
        /\ Decoding(n) = Decoding(m) \ {s}
    BY <1>2, PutShape DEF Manager
  <2> QED
    BY <2>1, <2>2
<1> HIDE DEF n
<1>6. InMap(n) \ Decoding(n) = (InMap(m) \ Decoding(m)) \cup {s}
  BY <1>4, <1>5
<1>7. Holds(AddFCCService(n, s), InMap(n), Decoding(n))
  BY <1>5, <1>6, AddCounts
<1> QED
  BY <1>3, <1>5, <1>7

-----------------------------------------------------------------------------
(***************************************************************************)
(* The plugin.  Only its tracker, its queue of timers, activating and      *)
(* applying matter here.                                                   *)
(***************************************************************************)
TimerNames == {"createList", "getSref", "fccEvent"}

Queue(q) == q \in Seq(TimerNames) /\ IsInjective(q)

LEMMA AppendQueue ==
    ASSUME NEW q, Queue(q), NEW timer \in TimerNames, timer \notin ToSet(q)
    PROVE  Queue(Append(q, timer)) /\ ToSet(Append(q, timer)) = ToSet(q) \cup {timer}
<1> DEFINE n == Append(q, timer)
<1>1. /\ n \in Seq(TimerNames) /\ Len(n) = Len(q) + 1
      /\ \A i \in 1..Len(q) : n[i] = q[i]
      /\ n[Len(q) + 1] = timer
  BY AppendProperties DEF Queue
<1>2. DOMAIN q = 1..Len(q) /\ DOMAIN n = 1..Len(n) /\ Len(q) \in Nat
  BY <1>1, LenProperties DEF Queue
<1> HIDE DEF n
<1>3. \A i \in DOMAIN q : q[i] # timer
  BY DEF ToSet
<1>4. IsInjective(n)
  BY <1>1, <1>2, <1>3 DEF Queue, IsInjective
<1>5. ToSet(n) = ToSet(q) \cup {timer}
  <2>1. \A i \in DOMAIN n : n[i] \in ToSet(q) \cup {timer}
    BY <1>1, <1>2 DEF ToSet
  <2>2. \A i \in DOMAIN q : i \in DOMAIN n /\ n[i] = q[i]
    BY <1>1, <1>2
  <2>3. Len(q) + 1 \in DOMAIN n
    BY <1>1, <1>2
  <2> QED
    BY <1>1, <2>1, <2>2, <2>3 DEF ToSet
<1> QED
  BY <1>1, <1>4, <1>5 DEF Queue, n

LEMMA WithoutQueue ==
    ASSUME NEW q, Queue(q), NEW timer
    PROVE  Queue(Without(q, timer)) /\ ToSet(Without(q, timer)) = ToSet(q) \ {timer}
<1>1. CASE timer \notin ToSet(q)
  BY <1>1 DEF Without
<1>2. CASE timer \in ToSet(q)
  <2> DEFINE k == CHOOSE i \in 1..Len(q) : q[i] = timer
             l == SubSeq(q, 1, k - 1)
             r == SubSeq(q, k + 1, Len(q))
             n == l \o r
  <2>1. DOMAIN q = 1..Len(q) /\ Len(q) \in Nat /\ q \in Seq(TimerNames)
    BY LenProperties DEF Queue
  <2>2. k \in 1..Len(q) /\ q[k] = timer
    <3>1. \E i \in 1..Len(q) : q[i] = timer
      BY <1>2, <2>1 DEF ToSet
    <3> QED
      BY <3>1
  <2>3. \A i \in 1..Len(q) : q[i] = timer => i = k
    BY <2>1, <2>2 DEF Queue, IsInjective
  <2>4. Without(q, timer) = n
    BY <1>2 DEF Without, RemoveAt
  <2> HIDE DEF k
  <2>5. /\ l \in Seq(TimerNames) /\ Len(l) = k - 1
        /\ \A i \in 1..(k - 1) : l[i] = q[i]
    BY <2>1, <2>2, SubSeqProperties
  <2>6. /\ r \in Seq(TimerNames) /\ Len(r) = Len(q) - k
        /\ \A i \in 1..(Len(q) - k) : r[i] = q[i + k]
    <3>1. /\ k + 1 \in Int /\ Len(q) \in Int /\ \A i \in k + 1 .. Len(q) : q[i] \in TimerNames
          /\ Len(q) - (k + 1) + 1 = Len(q) - k
      BY <2>1, <2>2, ElementOfSeq
    <3>2. /\ r \in Seq(TimerNames)
          /\ Len(r) = IF k + 1 <= Len(q) THEN Len(q) - (k + 1) + 1 ELSE 0
          /\ \A i \in 1 .. Len(q) - (k + 1) + 1 : r[i] = q[k + 1 + i - 1]
      BY <3>1, SubSeqProperties
    <3> HIDE DEF r
    <3>3. ASSUME NEW i \in 1..(Len(q) - k)
          PROVE  r[i] = q[i + k]
      <4>1. k + 1 + i - 1 = i + k /\ i \in 1 .. Len(q) - (k + 1) + 1
        BY <2>1, <2>2
      <4>2. r[i] = q[k + 1 + i - 1]
        BY <4>1, <3>2
      <4> QED
        BY <4>1, <4>2
    <3>4. Len(r) = Len(q) - k
      <4>1. Len(r) = IF k + 1 <= Len(q) THEN Len(q) - (k + 1) + 1 ELSE 0
        BY <3>2
      <4>2. k \in Int /\ Len(q) \in Int /\ k <= Len(q)
        BY <2>1, <2>2
      <4>3. (k + 1 <= Len(q) /\ Len(q) - (k + 1) + 1 = Len(q) - k) \/ (~(k + 1 <= Len(q)) /\ Len(q) - k = 0)
        BY <4>2
      <4> QED
        BY <4>1, <4>3
    <3> QED
      BY <3>2, <3>3, <3>4
  <2> HIDE DEF l, r
  <2>7. /\ n \in Seq(TimerNames) /\ Len(n) = Len(q) - 1
        /\ \A i \in 1..(Len(q) - 1) : n[i] = IF i < k THEN q[i] ELSE q[i + 1]
    <3>1. /\ n \in Seq(TimerNames) /\ Len(n) = Len(l) + Len(r)
          /\ \A i \in 1..(Len(l) + Len(r)) :
                 n[i] = IF i <= Len(l) THEN l[i] ELSE r[i - Len(l)]
      BY <2>5, <2>6, ConcatProperties
    <3>2. Len(l) + Len(r) = Len(q) - 1
      BY <2>1, <2>2, <2>5, <2>6
    <3> HIDE DEF n
    <3>3. ASSUME NEW i \in 1..(Len(q) - 1)
          PROVE  n[i] = IF i < k THEN q[i] ELSE q[i + 1]
      <4>1. CASE i < k
        BY <4>1, <2>1, <2>2, <2>5, <3>1, <3>2
      <4>2. CASE ~(i < k)
        <5>1. i - (k - 1) \in 1..(Len(q) - k) /\ i - (k - 1) + k = i + 1
          BY <4>2, <2>1, <2>2
        <5>2. r[i - (k - 1)] = q[i + 1]
          BY <5>1, <2>6
        <5> QED
          BY <4>2, <5>2, <2>1, <2>2, <2>5, <3>1, <3>2
      <4> QED
        BY <4>1, <4>2
    <3> QED
      BY <3>1, <3>2, <3>3
  <2>8. DOMAIN n = 1..(Len(q) - 1)
    BY <2>7, LenProperties
  <2> HIDE DEF n
  <2>9. IsInjective(n)
    <3> DEFINE at(i) == IF i < k THEN i ELSE i + 1
    <3>1. \A i \in DOMAIN n : at(i) \in DOMAIN q /\ n[i] = q[at(i)]
      BY <2>1, <2>2, <2>7, <2>8
    <3>2. \A i, j \in DOMAIN n : at(i) = at(j) => i = j
      BY <2>1, <2>2, <2>8
    <3>3. \A i, j \in DOMAIN q : q[i] = q[j] => i = j
      BY DEF Queue, IsInjective
    <3> HIDE DEF at
    <3> QED
      BY <3>1, <3>2, <3>3 DEF IsInjective
  <2>10. ToSet(n) = ToSet(q) \ {timer}
    <3>1. \A i \in DOMAIN n : \E j \in DOMAIN q : n[i] = q[j] /\ j # k
      <4> TAKE i \in DOMAIN n
      <4>1. CASE i < k
        BY <4>1, <2>1, <2>2, <2>7, <2>8
      <4>2. CASE ~(i < k)
        <5>1. i + 1 \in DOMAIN q /\ n[i] = q[i + 1] /\ i + 1 # k
          BY <4>2, <2>1, <2>2, <2>7, <2>8
        <5> QED  BY <5>1
      <4> QED
        BY <4>1, <4>2
    <3>2. \A j \in DOMAIN q : j # k => \E i \in DOMAIN n : n[i] = q[j]
      <4> TAKE j \in DOMAIN q
      <4>1. CASE j < k
        BY <4>1, <2>1, <2>2, <2>7, <2>8
      <4>2. CASE j > k
        <5>1. j - 1 \in DOMAIN n /\ n[j - 1] = q[j]
          BY <4>2, <2>1, <2>2, <2>7, <2>8
        <5> QED  BY <5>1
      <4> QED
        BY <4>1, <4>2, <2>1, <2>2
    <3> QED
      BY <3>1, <3>2, <2>1, <2>2, <2>3 DEF ToSet
  <2> QED
    BY <2>4, <2>7, <2>9, <2>10 DEF Queue
<1> QED
  BY <1>1, <1>2

Fields == {"tracker", "recordings", "list", "disableforrec", "queue", "events",
           "activating", "applying", "wait", "timeout", "forceStart", "reset"}

Plugin(p) ==
    /\ p = [x \in Fields |-> p[x]]
    /\ Queue(p.queue)
    /\ p.tracker \in BOOLEAN /\ p.activating \in BOOLEAN /\ p.applying \in BOOLEAN

Waits(p, timer) == timer \in ToSet(p.queue)

\* Without the tracker nothing is prepared, nor will be.
Good(p) ==
    /\ Plugin(p)
    /\ ~p.tracker => ~p.activating /\ ~Waits(p, "getSref")

\* What most operators leave alone.
Like(p, n) ==
    Good(n) /\ n.tracker = p.tracker /\ n.activating = p.activating /\ n.applying = p.applying

LEMMA FieldSet ==
    ASSUME NEW p, p = [x \in Fields |-> p[x]], NEW f \in Fields, NEW v
    PROVE  /\ [p EXCEPT ![f] = v] = [x \in Fields |-> [p EXCEPT ![f] = v][x]]
           /\ \A x \in Fields : [p EXCEPT ![f] = v][x] = IF x = f THEN v ELSE p[x]
OBVIOUS

Minor == Fields \ {"tracker", "queue", "activating", "applying"}

LEMMA MinorLike ==
    ASSUME NEW p, Good(p), NEW f \in Minor, NEW v
    PROVE  Like(p, [p EXCEPT ![f] = v])
<1> DEFINE n == [p EXCEPT ![f] = v]
<1>1. p = [x \in Fields |-> p[x]] /\ f \in Fields
  BY DEF Good, Plugin, Minor
<1>2. n = [x \in Fields |-> n[x]] /\ \A x \in Fields : n[x] = IF x = f THEN v ELSE p[x]
  BY <1>1, FieldSet
<1> HIDE DEF n
<1>3. /\ n.queue = p.queue /\ n.tracker = p.tracker
      /\ n.activating = p.activating /\ n.applying = p.applying
  BY <1>2 DEF Fields, Minor
<1>4. Like(p, n)
  BY <1>2, <1>3 DEF Like, Good, Plugin, Waits
<1> QED
  BY <1>4 DEF n

LEMMA QueueSet ==
    ASSUME NEW p, Plugin(p), NEW q, Queue(q)
    PROVE  LET n == [p EXCEPT !.queue = q]
           IN /\ Plugin(n) /\ n.queue = q
              /\ n.tracker = p.tracker /\ n.activating = p.activating
              /\ n.applying = p.applying
<1> DEFINE n == [p EXCEPT !["queue"] = q]
<1>1. n = [x \in Fields |-> n[x]] /\ \A x \in Fields : n[x] = IF x = "queue" THEN q ELSE p[x]
  <2>1. p = [x \in Fields |-> p[x]] /\ "queue" \in Fields
    BY DEF Plugin, Fields
  <2> QED
    BY <2>1, FieldSet
<1>2. n = [p EXCEPT !.queue = q]
  OBVIOUS
<1> HIDE DEF n
<1>3. /\ n.queue = q /\ n.tracker = p.tracker
      /\ n.activating = p.activating /\ n.applying = p.applying
  BY <1>1 DEF Fields
<1>4. Plugin(n)
  BY <1>1, <1>3 DEF Plugin
<1> QED
  BY <1>2, <1>3, <1>4

LEMMA StopPlugin ==
    ASSUME NEW p, Plugin(p), NEW timer
    PROVE  LET n == Stop(p, timer)
           IN /\ Plugin(n) /\ ToSet(n.queue) = ToSet(p.queue) \ {timer}
              /\ n.tracker = p.tracker /\ n.activating = p.activating
              /\ n.applying = p.applying
<1>1. Queue(Without(p.queue, timer)) /\ ToSet(Without(p.queue, timer)) = ToSet(p.queue) \ {timer}
  BY WithoutQueue DEF Plugin
<1> QED
  BY <1>1, QueueSet DEF Stop

LEMMA StopLike ==
    ASSUME NEW p, Good(p), NEW timer
    PROVE  Like(p, Stop(p, timer))
<1> DEFINE n == Stop(p, timer)
<1>1. /\ Plugin(n) /\ ToSet(n.queue) = ToSet(p.queue) \ {timer}
      /\ n.tracker = p.tracker /\ n.activating = p.activating
      /\ n.applying = p.applying
  BY StopPlugin DEF Good
<1> HIDE DEF n
<1>2. Like(p, n)
  BY <1>1 DEF Like, Good, Waits
<1> QED
  BY <1>2 DEF n

LEMMA StartLike ==
    ASSUME NEW p, Good(p), NEW timer \in TimerNames, timer = "getSref" => p.tracker
    PROVE  Like(p, Start(p, timer))
<1> DEFINE q == Append(Without(p.queue, timer), timer)
           n == Start(p, timer)
<1>1. Queue(q) /\ ToSet(q) \subseteq ToSet(p.queue) \cup {timer}
  <2>1. Queue(Without(p.queue, timer)) /\ ToSet(Without(p.queue, timer)) = ToSet(p.queue) \ {timer}
    BY WithoutQueue DEF Good, Plugin
  <2> QED
    BY <2>1, AppendQueue
<1>2. n = [p EXCEPT !.queue = q]
  BY DEF Start
<1> HIDE DEF q
<1>3. /\ Plugin(n) /\ n.queue = q /\ n.tracker = p.tracker
      /\ n.activating = p.activating /\ n.applying = p.applying
  BY <1>1, <1>2, QueueSet DEF Good
<1> HIDE DEF n
<1>4. Like(p, n)
  BY <1>1, <1>3 DEF Like, Good, Waits
<1> QED
  BY <1>4 DEF n

LEMMA LikeLike ==
    ASSUME NEW p, NEW n, NEW o, Like(p, n), Like(n, o)
    PROVE  Like(p, o)
BY DEF Like

LEMMA GoodLike ==
    ASSUME NEW p, Good(p)
    PROVE  Like(p, p)
BY DEF Like

LEMMA GetEventLike ==
    ASSUME NEW p, Good(p), NEW event
    PROVE  Like(p, GetEvent(p, event))
<1>1. CASE p.activating
  <2> DEFINE n == [p EXCEPT !["events"] = Append(p.events, event)]
  <2>1. Like(p, n)
    BY MinorLike DEF Minor, Fields
  <2>2. GetEvent(p, event) = Start(n, "fccEvent")
    BY <1>1 DEF GetEvent
  <2> HIDE DEF n
  <2>3. Like(n, Start(n, "fccEvent"))
    BY <2>1, StartLike DEF Like, TimerNames
  <2> QED
    BY <2>1, <2>2, <2>3, LikeLike
<1>2. CASE ~p.activating
  BY <1>2, GoodLike DEF GetEvent
<1> QED
  BY <1>1, <1>2 DEF Good, Plugin

LEMMA TimeoutLike ==
    ASSUME NEW p, Good(p), NEW s
    PROVE  Like(p, TimeoutStop(p)) /\ Like(p, TimeoutStart(p, s))
<1>1. ASSUME NEW x, NEW y
      PROVE  Like(p, [p EXCEPT !.wait = x, !.timeout = y])
  <2> DEFINE n == [p EXCEPT !["wait"] = x]
             o == [n EXCEPT !["timeout"] = y]
  <2>1. Like(p, n)
    BY MinorLike DEF Minor, Fields
  <2>2. Like(n, o)
    <3> HIDE DEF n
    <3> QED  BY <2>1, MinorLike DEF Like, Minor, Fields
  <2>3. o = [p EXCEPT !.wait = x, !.timeout = y]
    OBVIOUS
  <2> HIDE DEF n, o
  <2> QED
    BY <2>1, <2>2, <2>3, LikeLike
<1> QED
  BY <1>1 DEF TimeoutStop, TimeoutStart

\* The same for a plugin amid a change of its tracker.
LEMMA FieldPlugin ==
    ASSUME NEW p, Plugin(p), NEW f \in Fields \ {"queue"}, NEW v,
           f \in {"tracker", "activating", "applying"} => v \in BOOLEAN
    PROVE  LET n == [p EXCEPT ![f] = v]
           IN /\ Plugin(n) /\ n[f] = v
              /\ \A x \in Fields \ {f} : n[x] = p[x]
<1> DEFINE n == [p EXCEPT ![f] = v]
<1>1. n = [x \in Fields |-> n[x]] /\ \A x \in Fields : n[x] = IF x = f THEN v ELSE p[x]
  BY FieldSet DEF Plugin
<1> HIDE DEF n
<1>2. n["queue"] = p.queue
  BY <1>1 DEF Fields
<1>3. /\ n["tracker"] \in BOOLEAN /\ n["activating"] \in BOOLEAN
      /\ n["applying"] \in BOOLEAN
  BY <1>1 DEF Plugin, Fields
<1>4. Plugin(n) /\ n[f] = v /\ \A x \in Fields \ {f} : n[x] = p[x]
  BY <1>1, <1>2, <1>3 DEF Plugin
<1> QED
  BY <1>4 DEF n

LEMMA DisabledGood ==
    ASSUME NEW p, Plugin(p)
    PROVE  LET n == Disabled(p)
           IN /\ Good(n) /\ n.tracker = p.tracker /\ n.applying = p.applying
              /\ n.activating = FALSE
<1> DEFINE a == [p EXCEPT !["wait"] = None]
           b == [a EXCEPT !["timeout"] = FALSE]
           c == Stop(b, "getSref")
           d == Stop(c, "fccEvent")
           e == [d EXCEPT !["activating"] = FALSE]
           f == [e EXCEPT !["list"] = << >>]
           g == [f EXCEPT !["events"] = << >>]
<1>1. Disabled(p) = g
  BY DEF Disabled, TimeoutStop
<1>2. Plugin(a) /\ a.tracker = p.tracker /\ a.applying = p.applying
  BY FieldPlugin DEF Fields
<1> HIDE DEF a
<1>3. Plugin(b) /\ b.tracker = p.tracker /\ b.applying = p.applying
  BY <1>2, FieldPlugin DEF Fields
<1> HIDE DEF b
<1>4. /\ Plugin(c) /\ c.tracker = p.tracker /\ c.applying = p.applying
      /\ ~Waits(c, "getSref")
  BY <1>3, StopPlugin DEF Waits
<1> HIDE DEF c
<1>5. /\ Plugin(d) /\ d.tracker = p.tracker /\ d.applying = p.applying
      /\ ~Waits(d, "getSref")
  BY <1>4, StopPlugin DEF Waits
<1> HIDE DEF d
<1>6. /\ Plugin(e) /\ e.tracker = p.tracker /\ e.applying = p.applying
      /\ e.queue = d.queue /\ e.activating = FALSE
  <2>1. \A v \in BOOLEAN :
           LET n == [d EXCEPT !["activating"] = v]
           IN /\ Plugin(n) /\ n.tracker = p.tracker /\ n.applying = p.applying
              /\ n.queue = d.queue /\ n.activating = v
    BY <1>5, FieldPlugin DEF Fields
  <2>2. FALSE \in BOOLEAN
    OBVIOUS
  <2> QED
    BY <2>1, <2>2, Zenon
<1> HIDE DEF e
<1>7. /\ Plugin(f) /\ f.tracker = p.tracker /\ f.applying = p.applying
      /\ f.queue = d.queue /\ f.activating = FALSE
  BY <1>6, FieldPlugin DEF Fields
<1> HIDE DEF f
<1>8. /\ Plugin(g) /\ g.tracker = p.tracker /\ g.applying = p.applying
      /\ g.queue = d.queue /\ g.activating = FALSE
  BY <1>7, FieldPlugin DEF Fields
<1> HIDE DEF g
<1>9. Good(g)
  BY <1>5, <1>8 DEF Good, Waits
<1> QED
  BY <1>1, <1>8, <1>9

LEMMA OnTuneLike ==
    ASSUME NEW p, Good(p)
    PROVE  Like(p, OnStart(p)) /\ Like(p, OnTune(p))
<1>1. CASE p.tracker
  BY <1>1, StartLike DEF OnStart, OnTune, TimerNames
<1>2. CASE ~p.tracker
  BY <1>2, GoodLike DEF OnStart, OnTune
<1> QED
  BY <1>1, <1>2 DEF Good, Plugin

LEMMA AnnouncedLike ==
    ASSUME NEW p, Good(p), NEW e
    PROVE  Like(p, Announced(p, e))
<1>1. Like(p, OnStart(p))
  BY OnTuneLike
<1>2. Like(OnStart(p), OnTune(OnStart(p)))
  BY <1>1, OnTuneLike DEF Like
<1>3. Like(p, OnTune(OnStart(p)))
  BY <1>1, <1>2, LikeLike
<1> QED
  BY <1>1, <1>3 DEF Announced

\* After evEnd the plugin does nothing by itself.
LEMMA EndQuiet ==
    ASSUME NEW m, Manager(m), NEW p, Good(p)
    PROVE  /\ \E S \in SUBSET InMap(m) : Holds(End(m, p).m, S, Decoding(m))
           /\ Good(End(m, p).p) /\ ~End(m, p).p.activating
           /\ End(m, p).p.applying = p.applying
<1>1. CASE p.tracker
  <2>1. End(m, p).m = StopFailed(m) /\ End(m, p).p = Disabled(p)
    BY <1>1 DEF End
  <2>2. Holds(StopFailed(m), InMap(m) \ In(m, "failed"), Decoding(m))
    BY StopFailedHolds
  <2>3. /\ Good(Disabled(p)) /\ Disabled(p).applying = p.applying
        /\ Disabled(p).activating = FALSE
    BY DisabledGood DEF Good
  <2> QED
    BY <2>1, <2>2, <2>3
<1>2. CASE ~p.tracker
  <2>1. End(m, p).m = m /\ End(m, p).p = p
    BY <1>2 DEF End
  <2>2. Holds(m, InMap(m), Decoding(m))
    BY DEF Holds
  <2> QED
    BY <1>2, <2>1, <2>2 DEF Good
<1> QED
  BY <1>1, <1>2 DEF Good, Plugin
-----------------------------------------------------------------------------
(***************************************************************************)
(* The invariant.  A service is prepared only for one that is watched and  *)
(* in the map; that the plugin knows, since it begins to prepare when such *)
(* a one has been tuned, and stops before it is left.                      *)
(***************************************************************************)
Fits(m, r, e, p) ==
    /\ Manager(m) /\ r \in Names \cup {None} /\ e \in BOOLEAN
    /\ InMap(m) # {} => r # None /\ Decoding(m) = {Ref[r]}
    /\ Good(p)
    /\ p.activating => InMap(m) # {}
    /\ p.applying => p.activating
    /\ e /\ r # None /\ Playable(Ref[r]) => InMap(m) # {}

Inv == Fits(manager, running, enabled, support)

LEMMA InvProperties == Inv => ChannelsCounted /\ OneIsWatched
BY DEF Inv, Fits, Manager, Counted, OnChannel, Decoding, ChannelsCounted, OneIsWatched

\* While the same service is watched.
LEMMA StillFits ==
    ASSUME NEW m, NEW r, NEW e, NEW p, Fits(m, r, e, p),
           NEW n, NEW S, Holds(n, S, Decoding(m)), S # {} => InMap(m) # {},
           NEW o, Good(o), o.activating => InMap(m) # {},
           o.applying => o.activating
    PROVE  Fits(n, r, e, o)
<1>1. Manager(n) /\ InMap(n) = S /\ Decoding(n) = Decoding(m) /\ Decoding(n) \subseteq InMap(n)
  BY DEF Holds, Decoding, In
<1>2. InMap(n) # {} <=> InMap(m) # {}
  BY <1>1 DEF Fits
<1> QED
  BY <1>1, <1>2 DEF Fits

(***************************************************************************)
(* Steps of several parts.                                                 *)
(***************************************************************************)
Pair(w) == w = [m |-> w.m, p |-> w.p]

LEMMA PairSet ==
    ASSUME NEW w, Pair(w), NEW x
    PROVE  /\ [w EXCEPT !.p = x] = [m |-> w.m, p |-> x]
           /\ [w EXCEPT !.m = x] = [m |-> x, p |-> w.p]
           /\ Pair([w EXCEPT !.p = x])
BY DEF Pair

LEMMA PairFields ==
    ASSUME NEW v
    PROVE  /\ [State EXCEPT !.p.recordings = v] = [m |-> manager, p |-> [support EXCEPT !.recordings = v]]
           /\ [State EXCEPT !.p.reset = v] = [m |-> manager, p |-> [support EXCEPT !.reset = v]]
           /\ [State EXCEPT !.p.forceStart = v] = [m |-> manager, p |-> [support EXCEPT !.forceStart = v]]
BY DEF State

LEMMA PairFlags ==
    /\ [State EXCEPT !.p.recordings = TRUE] = [m |-> manager, p |-> [support EXCEPT !.recordings = TRUE]]
    /\ [State EXCEPT !.p.recordings = FALSE] = [m |-> manager, p |-> [support EXCEPT !.recordings = FALSE]]
    /\ [State EXCEPT !.p.reset = FALSE] = [m |-> manager, p |-> [support EXCEPT !.reset = FALSE]]
    /\ [State EXCEPT !.p.forceStart = FALSE] = [m |-> manager, p |-> [support EXCEPT !.forceStart = FALSE]]
BY PairFields, Zenon

LEMMA FlagSet ==
    ASSUME NEW p, Good(p), NEW f \in Minor
    PROVE  /\ Like(p, [p EXCEPT ![f] = TRUE])
           /\ Like(p, [p EXCEPT ![f] = FALSE])
<1>1. \A v : Like(p, [p EXCEPT ![f] = v])
  BY MinorLike
<1> QED
  BY <1>1, Zenon

LEMMA MinorFlags ==
    ASSUME NEW p, Good(p)
    PROVE  /\ Like(p, [p EXCEPT !.recordings = TRUE])
           /\ Like(p, [p EXCEPT !.recordings = FALSE])
           /\ Like(p, [p EXCEPT !.reset = TRUE])
           /\ Like(p, [p EXCEPT !.reset = FALSE])
           /\ Like(p, [p EXCEPT !.forceStart = TRUE])
           /\ Like(p, [p EXCEPT !.forceStart = FALSE])
           /\ Like(p, [p EXCEPT !.timeout = FALSE])
<1>1. {"recordings", "reset", "forceStart", "timeout"} \subseteq Minor
  BY DEF Minor, Fields
<1>2. "recordings" \in Minor /\ "reset" \in Minor /\ "forceStart" \in Minor /\ "timeout" \in Minor
  BY <1>1
<1>3. Like(p, [p EXCEPT !["recordings"] = TRUE]) /\ Like(p, [p EXCEPT !["recordings"] = FALSE])
  BY <1>2, FlagSet, Zenon
<1>4. Like(p, [p EXCEPT !["reset"] = TRUE]) /\ Like(p, [p EXCEPT !["reset"] = FALSE])
  BY <1>2, FlagSet, Zenon
<1>5. Like(p, [p EXCEPT !["forceStart"] = TRUE]) /\ Like(p, [p EXCEPT !["forceStart"] = FALSE])
  BY <1>2, FlagSet, Zenon
<1>6. Like(p, [p EXCEPT !["timeout"] = FALSE])
  BY <1>2, FlagSet, Zenon
<1> QED
  BY <1>3, <1>4, <1>5, <1>6

LEMMA TrackerSet ==
    ASSUME NEW p, Plugin(p), NEW v \in BOOLEAN
    PROVE  LET n == [p EXCEPT !.tracker = v]
           IN /\ Plugin(n) /\ n.tracker = v /\ n.queue = p.queue
              /\ n.activating = p.activating /\ n.applying = p.applying
<1> DEFINE n == [p EXCEPT !["tracker"] = v]
<1>1. Plugin(n) /\ n["tracker"] = v /\ \A x \in Fields \ {"tracker"} : n[x] = p[x]
  BY FieldPlugin DEF Fields
<1>2. n = [p EXCEPT !.tracker = v]
  OBVIOUS
<1> HIDE DEF n
<1>3. n.queue = p.queue /\ n.activating = p.activating /\ n.applying = p.applying
  BY <1>1 DEF Fields
<1> QED
  BY <1>1, <1>2, <1>3

LEMMA ActivatingSet ==
    ASSUME NEW p, Good(p), p.tracker
    PROVE  LET n == [p EXCEPT !.activating = TRUE]
           IN Good(n) /\ n.tracker = p.tracker /\ n.applying = p.applying
<1>1. ASSUME NEW v \in BOOLEAN
      PROVE  LET n == [p EXCEPT !.activating = v]
             IN Good(n) /\ n.tracker = p.tracker /\ n.applying = p.applying
  <2> DEFINE n == [p EXCEPT !["activating"] = v]
  <2>1. Plugin(n) /\ \A x \in Fields \ {"activating"} : n[x] = p[x]
    BY FieldPlugin DEF Fields, Good
  <2>2. n = [p EXCEPT !.activating = v]
    OBVIOUS
  <2> HIDE DEF n
  <2>3. n.queue = p.queue /\ n.applying = p.applying /\ n.tracker = p.tracker
    BY <2>1 DEF Fields
  <2>4. Good(n)
    BY <2>1, <2>3 DEF Good, Waits
  <2> QED
    BY <2>2, <2>3, <2>4
<1>2. TRUE \in BOOLEAN
  OBVIOUS
<1> QED
  BY <1>1, <1>2, Zenon

LEMMA ApplyingSet ==
    ASSUME NEW p, Good(p), NEW v \in BOOLEAN
    PROVE  LET n == [p EXCEPT !.applying = v]
           IN Good(n) /\ n.tracker = p.tracker /\ n.activating = p.activating /\ n.applying = v
<1> DEFINE n == [p EXCEPT !["applying"] = v]
<1>1. Plugin(n) /\ n["applying"] = v /\ \A x \in Fields \ {"applying"} : n[x] = p[x]
  BY FieldPlugin DEF Fields, Good
<1>2. n = [p EXCEPT !.applying = v]
  OBVIOUS
<1> HIDE DEF n
<1>3. n.queue = p.queue /\ n.activating = p.activating /\ n.tracker = p.tracker
  BY <1>1 DEF Fields
<1>4. Good(n)
  BY <1>1, <1>3 DEF Good, Waits
<1> QED
  BY <1>1, <1>2, <1>3, <1>4

LEMMA ForceStopHolds ==
    ASSUME NEW w, Manager(w.m), Plugin(w.p)
    PROVE  LET n == ForceStop(w)
           IN /\ Holds(n.m, Decoding(w.m), Decoding(w.m))
              /\ Good(n.p) /\ ~n.p.activating /\ n.p.applying = w.p.applying
<1> DEFINE S == InMap(w.m) \ Decoding(w.m)
           o == [w.p EXCEPT !.tracker = FALSE]
<1>1. InMap(w.m) \ S = Decoding(w.m) /\ Decoding(w.m) \ S = Decoding(w.m)
  BY DEF Decoding, In
<1>2. Holds(Stopped(w.m, S), Decoding(w.m), Decoding(w.m))
  <2> HIDE DEF S
  <2> QED  BY <1>1, StoppedHolds
<1>3. Plugin(o) /\ o.applying = w.p.applying
  <2>1. \A v \in BOOLEAN : LET n == [w.p EXCEPT !.tracker = v]
                           IN Plugin(n) /\ n.applying = w.p.applying
    BY TrackerSet
  <2>2. FALSE \in BOOLEAN
    OBVIOUS
  <2> QED
    BY <2>1, <2>2, Zenon
<1>4. ForceStop(w).m = Stopped(w.m, S) /\ ForceStop(w).p = Disabled(o)
  BY DEF ForceStop, Decoding
<1> HIDE DEF o
<1>5. Good(Disabled(o)) /\ Disabled(o).applying = o.applying /\ Disabled(o).activating = FALSE
  BY <1>3, DisabledGood
<1> QED
  BY <1>2, <1>3, <1>4, <1>5

LEMMA ForceStartGood ==
    ASSUME NEW w, Pair(w), Good(w.p)
    PROVE  LET n == ForceStart(w)
           IN /\ n.m = w.m /\ Good(n.p)
              /\ n.p.activating = w.p.activating /\ n.p.applying = w.p.applying
<1> DEFINE a == [w.p EXCEPT !.tracker = TRUE]
           b == Start(a, "createList")
           c == Start(b, "getSref")
<1>1. ForceStart(w).m = w.m /\ ForceStart(w).p = c
  BY DEF ForceStart, Pair
<1>2. Good(a) /\ a.tracker /\ a.activating = w.p.activating /\ a.applying = w.p.applying
  <2>1. \A v \in BOOLEAN : LET n == [w.p EXCEPT !.tracker = v]
                           IN /\ Plugin(n) /\ n.tracker = v
                              /\ n.activating = w.p.activating /\ n.applying = w.p.applying
    BY TrackerSet DEF Good
  <2>2. TRUE \in BOOLEAN
    OBVIOUS
  <2>3. Plugin(a) /\ a.tracker = TRUE
        /\ a.activating = w.p.activating /\ a.applying = w.p.applying
    BY <2>1, <2>2, Zenon
  <2> HIDE DEF a
  <2> QED
    BY <2>3 DEF Good
<1> HIDE DEF a
<1>3. Like(a, b) /\ Good(b) /\ b.tracker
  BY <1>2, StartLike DEF Like, TimerNames
<1> HIDE DEF b
<1>4. Like(b, c)
  BY <1>3, StartLike DEF TimerNames
<1> HIDE DEF c
<1> QED
  BY <1>1, <1>2, <1>3, <1>4 DEF Like

LEMMA CreateListStill ==
    ASSUME NEW w, Pair(w), Manager(w.m), Good(w.p), NEW c
    PROVE  LET n == CreateList(w, c)
           IN /\ \E S \in SUBSET InMap(w.m) : Holds(n.m, S, Decoding(w.m))
              /\ Like(w.p, n.p)
<1> DEFINE U == Unwanted(w.m, Wanted(c))
           v == Missing(w.m, Wanted(c))
           n == CreateList(w, c)
<1>1. CASE ~enabled \/ Suspended(w.p)
  <2>1. n = w
    BY <1>1 DEF CreateList
  <2>2. Holds(w.m, InMap(w.m), Decoding(w.m)) /\ Like(w.p, w.p)
    BY GoodLike DEF Holds
  <2> HIDE DEF n
  <2> QED
    BY <2>1, <2>2 DEF n
<1>2. CASE ~(~enabled \/ Suspended(w.p))
  <2>1. n.m = Stopped(w.m, U) /\ n.p = [w.p EXCEPT !["list"] = v]
    BY <1>2 DEF CreateList
  <2>2. Decoding(w.m) \ U = Decoding(w.m)
    BY DEF Unwanted, Decoding, In
  <2> HIDE DEF U, v, n
  <2>3. Holds(n.m, InMap(w.m) \ U, Decoding(w.m))
    BY <2>1, <2>2, StoppedHolds
  <2>4. Like(w.p, n.p)
    BY <2>1, MinorLike DEF Minor, Fields
  <2> QED
    BY <2>3, <2>4 DEF n
<1> QED
  BY <1>1, <1>2

-----------------------------------------------------------------------------
(***************************************************************************)
(* The steps of the services and of the plugin's timers.                   *)
(***************************************************************************)
LEMMA TellsLike ==
    ASSUME Good(support), NEW s, NEW event
    PROVE  Like(support, Tells(s, event))
<1> DEFINE p == IF manager.services[s].connected THEN GetEvent(support, event)
                ELSE support
<1>1. Like(support, p)
  BY GetEventLike, GoodLike
<1>2. Tells(s, event) = IF Watching(s) THEN OnTune(p) ELSE p
  BY DEF Tells
<1> HIDE DEF p
<1>3. Like(p, OnTune(p))
  BY <1>1, OnTuneLike DEF Like
<1>4. Like(support, OnTune(p))
  BY <1>1, <1>3, LikeLike
<1> QED
  BY <1>1, <1>2, <1>4

\* A step that leaves the plugin's flags alone.
LEMMA LikeFits ==
    ASSUME Inv, UNCHANGED <<running, enabled>>,
           \E S \in SUBSET InMap(manager) : Holds(manager', S, Decoding(manager)),
           Like(support, support')
    PROVE  Inv'
<1>1. PICK S \in SUBSET InMap(manager) : Holds(manager', S, Decoding(manager))
  OBVIOUS
<1>2. /\ Good(support') /\ (support'.activating => InMap(manager) # {})
      /\ (support'.applying => support'.activating)
  BY DEF Like, Inv, Fits
<1>3. S # {} => InMap(manager) # {}
  OBVIOUS
<1>4. Fits(manager, running, enabled, support)
  BY DEF Inv
<1>5. Fits(manager', running, enabled, support')
  BY <1>1, <1>2, <1>3, <1>4, StillFits
<1> QED
  BY <1>5 DEF Inv

\* A step after which the plugin does nothing more by itself, or what it did
\* before; nothing is in its loop.
LEMMA IdleFits ==
    ASSUME Inv, UNCHANGED <<running, enabled>>,
           \E S \in SUBSET InMap(manager) : Holds(manager', S, Decoding(manager)),
           Good(support'), ~support'.applying,
           support'.activating => support.activating \/ InMap(manager) # {}
    PROVE  Inv'
<1>1. PICK S \in SUBSET InMap(manager) : Holds(manager', S, Decoding(manager))
  OBVIOUS
<1>2. support'.activating => InMap(manager) # {}
  BY DEF Inv, Fits
<1>3. S # {} => InMap(manager) # {}
  OBVIOUS
<1>4. Fits(manager, running, enabled, support)
  BY DEF Inv
<1>5. Fits(manager', running, enabled, support')
  BY <1>1, <1>2, <1>3, <1>4, StillFits
<1> QED
  BY <1>5 DEF Inv

LEMMA Parts == Inv => Manager(manager) /\ Good(support) /\ Plugin(support) /\ Holds(manager, InMap(manager), Decoding(manager))
BY DEF Inv, Fits, Good, Holds

LEMMA TunedInStep ==
    ASSUME Inv, NEW s, TunedIn(s)
    PROVE  Inv'
<1>1. Holds(manager', InMap(manager), Decoding(manager))
  BY Parts, LockedHolds DEF TunedIn
<1>2. Like(support, support')
  BY Parts, TellsLike DEF TunedIn
<1> QED
  BY <1>1, <1>2, LikeFits DEF TunedIn, others

LEMMA TuneFailedStep ==
    ASSUME Inv, NEW s, TuneFailed(s)
    PROVE  Inv'
<1>1. Holds(manager', InMap(manager), Decoding(manager))
  BY Parts, FailsHolds DEF TuneFailed
<1>2. Like(support, support')
  BY Parts, TellsLike DEF TuneFailed
<1> QED
  BY <1>1, <1>2, LikeFits DEF TuneFailed, others

LEMMA FccFailedStep ==
    ASSUME Inv, NEW s, FccFailed(s)
    PROVE  Inv'
<1>1. Holds(manager', InMap(manager), Decoding(manager))
  BY Parts, FailsHolds DEF FccFailed
<1>2. Like(support, support')
  BY Parts, TellsLike, GoodLike DEF FccFailed
<1> QED
  BY <1>1, <1>2, LikeFits DEF FccFailed, others

LEMMA CreateListStep ==
    ASSUME Inv, CreateListTimer
    PROVE  Inv'
<1> DEFINE w == [m |-> manager, p |-> Stop(support, "createList")]
<1>1. PICK c : manager' = CreateList(w, c).m /\ support' = CreateList(w, c).p
  BY DEF CreateListTimer, Becomes, State
<1>2. Like(support, w.p) /\ Good(w.p) /\ w.m = manager /\ Pair(w)
  BY Parts, StopLike DEF Like, Pair
<1> HIDE DEF w
<1>3. /\ \E S \in SUBSET InMap(manager) : Holds(manager', S, Decoding(manager))
      /\ Like(w.p, support')
  BY <1>1, <1>2, Parts, CreateListStill
<1>4. Like(support, support')
  BY <1>2, <1>3, LikeLike
<1> QED
  BY <1>3, <1>4, LikeFits DEF CreateListTimer, others

\* The plugin begins to prepare: the service that is watched is in the map.
LEMMA GetSrefStep ==
    ASSUME Inv, GetSrefTimer
    PROVE  Inv'
<1> DEFINE w == [State EXCEPT !.p = Stop(@, "getSref")]
           v == [w EXCEPT !.p = Stop(@, "createList")]
           l(c) == IF "createList" \in ToSet(w.p.queue) THEN CreateList(v, c) ELSE w
           u(c) == [l(c).p EXCEPT !.activating = TRUE]
<1>1. support.tracker
  <2>1. support.queue # << >> /\ Head(support.queue) = "getSref"
    BY DEF GetSrefTimer, Due
  <2>2. support.queue \in Seq(TimerNames)
    BY Parts DEF Plugin, Queue
  <2>3. 1 \in DOMAIN support.queue /\ support.queue[1] = "getSref"
    BY <2>1, <2>2
  <2>4. Waits(support, "getSref")
    BY <2>3 DEF Waits, ToSet
  <2> QED
    BY <2>4, Parts DEF Good
<1>2. PICK c :
         Becomes(IF ~enabled \/ Suspended(w.p) THEN w
                 ELSE IF running = None \/ ~Playable(Ref[running]) THEN l(c)
                 ELSE [l(c) EXCEPT !.p = GetEvent([@ EXCEPT !.activating = TRUE], "tuned")])
  BY Zenon DEF GetSrefTimer
<1>3. Like(support, w.p) /\ Good(w.p) /\ w.m = manager /\ Pair(w)
  <2>1. w = [m |-> manager, p |-> Stop(support, "getSref")]
    BY DEF State
  <2> HIDE DEF w
  <2> QED  BY <2>1, Parts, StopLike DEF Like, Pair
<1>4. /\ \E S \in SUBSET InMap(manager) : Holds(l(c).m, S, Decoding(manager))
      /\ Like(support, l(c).p)
  <2> HIDE DEF w
  <2>1. Like(w.p, v.p) /\ Good(v.p) /\ v.m = manager /\ Pair(v)
    <3>1. v = [m |-> manager, p |-> Stop(w.p, "createList")]
      BY <1>3 DEF Pair
    <3> HIDE DEF v
    <3> QED  BY <1>3, <3>1, StopLike DEF Like, Pair
  <2> HIDE DEF v
  <2>2. /\ \E S \in SUBSET InMap(manager) : Holds(CreateList(v, c).m, S, Decoding(manager))
        /\ Like(v.p, CreateList(v, c).p)
    BY <2>1, Parts, CreateListStill
  <2>3. Like(support, CreateList(v, c).p)
    BY <1>3, <2>1, <2>2, LikeLike
  <2>4. CASE "createList" \in ToSet(w.p.queue)
    BY <2>2, <2>3, <2>4
  <2>5. CASE "createList" \notin ToSet(w.p.queue)
    BY <1>3, <2>5, Parts
  <2> QED
    BY <2>4, <2>5
<1>5. \E S \in SUBSET InMap(manager) : Holds(w.m, S, Decoding(manager))
  BY <1>3, Parts
<1>6. CASE ~enabled \/ Suspended(w.p)
  <2>1. manager' = w.m /\ support' = w.p
    BY <1>2, <1>6 DEF Becomes
  <2> HIDE DEF w
  <2> QED
    BY <1>3, <1>5, <2>1, LikeFits DEF GetSrefTimer, others
<1>7. CASE ~(~enabled \/ Suspended(w.p)) /\ (running = None \/ ~Playable(Ref[running]))
  <2>1. manager' = l(c).m /\ support' = l(c).p
    BY <1>2, <1>7 DEF Becomes
  <2> HIDE DEF w, l
  <2> QED
    BY <1>4, <2>1, LikeFits DEF GetSrefTimer, others
<1>8. CASE ~(~enabled \/ Suspended(w.p)) /\ ~(running = None \/ ~Playable(Ref[running]))
  <2>1. InMap(manager) # {}
    BY <1>8 DEF Inv, Fits
  <2>2. l(c) = [m |-> l(c).m, p |-> l(c).p]
    <3>1. Pair(v)
      <4> HIDE DEF w
      <4> QED  BY <1>3, PairSet
    <3> HIDE DEF v, w
    <3> QED  BY <1>3, <3>1 DEF CreateList, Pair
  <2>3. manager' = l(c).m /\ support' = GetEvent(u(c), "tuned")
    <3> HIDE DEF l, w
    <3> QED  BY <1>2, <1>8, <2>2 DEF Becomes
  <2> HIDE DEF l, w
  <2>4. Good(u(c)) /\ u(c).applying = support.applying
    BY <1>1, <1>4, ActivatingSet DEF Like
  <2> HIDE DEF u
  <2>5. Good(support') /\ support'.applying = support.applying
    BY <2>3, <2>4, GetEventLike DEF Like
  <2> QED
    BY <1>4, <2>1, <2>3, <2>5, IdleFits DEF GetSrefTimer, others, Idle
<1> QED
  BY <1>6, <1>7, <1>8

LEMMA FccEventStep ==
    ASSUME Inv, FccEventTimer
    PROVE  Inv'
<1> DEFINE p == Stop(support, "fccEvent")
           v == support.activating /\ support.events # << >>
           n == [p EXCEPT !.applying = v]
<1>1. Like(support, p) /\ v \in BOOLEAN /\ support' = n
  BY Parts, StopLike DEF FccEventTimer
<1> HIDE DEF p
<1>2. Good(n) /\ n.activating = p.activating /\ n.applying = v
  <2> HIDE DEF v
  <2> QED  BY <1>1, ApplyingSet DEF Like
<1>3. /\ Good(support') /\ support'.activating = support.activating
      /\ (support'.applying => support'.activating)
  <2> HIDE DEF n
  <2> QED  BY <1>1, <1>2 DEF Like
<1>4. Fits(manager, running, enabled, support)
  BY DEF Inv
<1>5. support'.activating => InMap(manager) # {}
  BY <1>3 DEF Inv, Fits
<1>6. Fits(manager, running, enabled, support')
  BY <1>3, <1>4, <1>5, Parts, StillFits
<1> QED
  BY <1>6 DEF FccEventTimer, Inv, others

LEMMA FCCTimeoutStep ==
    ASSUME Inv, FCCTimeout
    PROVE  Inv'
<1> DEFINE p == [support EXCEPT !.timeout = FALSE]
           s == support.wait
<1>1. Like(support, p) /\ Like(p, GivenUp(p)) /\ Like(support, GivenUp(p))
  <2>1. Like(support, p)
    BY Parts, MinorFlags
  <2> HIDE DEF p
  <2>2. Like(p, GivenUp(p))
    BY <2>1, GetEventLike DEF GivenUp, Like
  <2> QED
    BY <2>1, <2>2, LikeLike
<1>2. CASE Awaited(manager) = {s}
  <2>1. s \in InMap(manager) \ Decoding(manager)
    BY <1>2 DEF Awaited, NoLocked, Decoding
  <2>2. manager' = Stopped(manager, {s}) /\ support' = GivenUp(p)
    BY <1>2 DEF FCCTimeout
  <2> HIDE DEF p, s
  <2>3. Decoding(manager) \ {s} = Decoding(manager)
    BY <2>1
  <2>4. Holds(manager', InMap(manager) \ {s}, Decoding(manager))
    BY <2>2, <2>3, Parts, StoppedHolds
  <2> QED
    BY <1>1, <2>2, <2>4, LikeFits DEF FCCTimeout, others
<1>3. CASE Awaited(manager) # {s}
  <2>1. manager' = manager /\ support' = p
    BY <1>3 DEF FCCTimeout
  <2> HIDE DEF p
  <2> QED
    BY <1>1, <2>1, Parts, LikeFits DEF FCCTimeout, others
<1> QED
  BY <1>2, <1>3

\* One turn of the loop: what is prepared has not been in the map, and the
\* service that is watched is.
LEMMA ApplyEventStep ==
    ASSUME Inv, ApplyEvent
    PROVE  Inv'
<1> DEFINE e == [support EXCEPT !.events = Tail(@)]
           p == TimeoutStop(e)
           m == IF Head(support.events) = "failed" THEN StopFailed(manager)
                ELSE manager
           n == Head(p.list)
           rest == [p EXCEPT !.list = Tail(@)]
<1>1. /\ InMap(manager) # {} /\ support.applying /\ support.activating
      /\ UNCHANGED <<running, enabled>>
  BY DEF ApplyEvent, Inv, Fits, others
<1>2. PICK S \in SUBSET InMap(manager) : Holds(m, S, Decoding(manager))
  BY Parts, StopFailedHolds
<1>3. Like(support, p) /\ Like(support, rest)
  <2>1. Like(support, e)
    <3> DEFINE x == [support EXCEPT !["events"] = Tail(support.events)]
    <3>1. Like(support, x)
      BY Parts, MinorLike DEF Minor, Fields
    <3> QED
      BY <3>1
  <2> HIDE DEF e
  <2>2. Like(support, p)
    BY <2>1, TimeoutLike, LikeLike DEF Like
  <2> HIDE DEF p
  <2>3. Like(p, rest)
    <3> DEFINE x == [p EXCEPT !["list"] = Tail(p.list)]
    <3>1. Like(p, x)
      <4>1. "list" \in Minor /\ Good(p)
        BY <2>2 DEF Minor, Fields, Like
      <4> QED
        BY <4>1, MinorLike
    <3> QED
      BY <3>1
  <2> QED
    BY <2>2, <2>3, LikeLike
<1>4. ASSUME NEW q, Like(support, q)
      PROVE  /\ Good(LoopEnds(q)) /\ LoopEnds(q).activating
             /\ LoopEnds(q).applying \in BOOLEAN
  <2> DEFINE v == q.events # << >>
           o == [q EXCEPT !.applying = v]
  <2>1. v \in BOOLEAN /\ LoopEnds(q) = o
    BY DEF LoopEnds
  <2>2. Good(q) /\ q.activating
    BY <1>1, <1>4 DEF Like
  <2> HIDE DEF v
  <2>3. Good(o) /\ o.activating = q.activating /\ o.applying = v
    BY <2>1, <2>2, ApplyingSet, Zenon
  <2> HIDE DEF o
  <2> QED
    BY <2>1, <2>2, <2>3
<1>5. ASSUME NEW q, Good(q), q.activating, support' = q,
             NEW T, Holds(manager', T, Decoding(manager))
      PROVE  Inv'
  <2>1. Fits(manager, running, enabled, support)
    BY DEF Inv
  <2>2. Fits(manager', running, enabled, q)
    BY <1>1, <1>5, <2>1, StillFits
  <2> QED
    BY <1>1, <1>5, <2>2 DEF Inv
<1>6. CASE Awaited(m) # {}
  <2>1. PICK s : manager' = m /\ support' = LoopEnds(TimeoutStart(p, s))
    BY <1>6 DEF ApplyEvent
  <2> HIDE DEF p, m
  <2>2. Like(support, TimeoutStart(p, s))
    <3>1. Like(support, p) /\ Good(p)
      BY <1>3 DEF Like
    <3> QED
      BY <3>1, TimeoutLike, LikeLike, Zenon
  <2>3. Good(LoopEnds(TimeoutStart(p, s))) /\ LoopEnds(TimeoutStart(p, s)).activating
    BY <1>4, <2>2
  <2> QED
    BY <1>2, <1>5, <2>1, <2>3
<1>7. CASE Awaited(m) = {} /\ (p.list # << >> => ~Playable(Ref[n]))
  <2>1. manager' = m /\ support' = LoopEnds(IF p.list = << >> THEN p ELSE rest)
    BY <1>7 DEF ApplyEvent
  <2> DEFINE q == IF p.list = << >> THEN p ELSE rest
  <2>2. Like(support, q)
    BY <1>3
  <2> HIDE DEF p, m, rest, q
  <2>3. Good(LoopEnds(q)) /\ LoopEnds(q).activating /\ support' = LoopEnds(q)
    BY <1>4, <2>1, <2>2 DEF q
  <2> QED
    BY <1>2, <1>5, <2>1, <2>3
<1>8. CASE Awaited(m) = {} /\ p.list # << >> /\ Playable(Ref[n])
  <2>1. CASE Ref[n] \in InMap(m)
    <3>1. manager' = m /\ support' = rest
      BY <1>8, <2>1 DEF ApplyEvent
    <3> HIDE DEF m, rest
    <3>2. Good(rest) /\ rest.activating
      BY <1>1, <1>3 DEF Like
    <3> QED
      BY <1>2, <1>5, <3>1, <3>2
  <2>2. CASE Ref[n] \notin InMap(m)
    <3> DEFINE t(a) == IF a.locked THEN GetEvent(rest, "tuned") ELSE rest
               f(a) == IF a.failed = "no" THEN t(a) ELSE GetEvent(t(a), "failed")
    <3>1. PICK a : /\ manager' = Prepared(m, Ref[n], n, a)
                   /\ support' = LoopEnds(TimeoutStart(f(a), Ref[n]))
      BY <1>8, <2>2 DEF ApplyEvent
    <3>2. Ref[n] \in Services
      BY <1>8 DEF Playable
    <3> HIDE DEF m, rest, n
    <3>3. Like(support, t(a))
      BY <1>3, GetEventLike, LikeLike DEF Like
    <3> HIDE DEF t
    <3>4. Like(support, f(a))
      BY <3>3, GetEventLike, LikeLike DEF Like
    <3> HIDE DEF f
    <3>5. Like(support, TimeoutStart(f(a), Ref[n]))
      BY <3>4, TimeoutLike, LikeLike DEF Like
    <3>6. /\ Good(LoopEnds(TimeoutStart(f(a), Ref[n])))
          /\ LoopEnds(TimeoutStart(f(a), Ref[n])).activating
      BY <1>4, <3>5
    <3>7. Manager(m) /\ Decoding(m) = Decoding(manager)
      BY <1>2 DEF Holds
    <3>8. Holds(manager', InMap(m) \cup {Ref[n]}, Decoding(manager))
      BY <2>2, <3>1, <3>2, <3>7, PreparedHolds
    <3> QED
      BY <1>5, <3>1, <3>6, <3>8
  <2> QED
    BY <2>1, <2>2
<1> QED
  BY <1>6, <1>7, <1>8 DEF ApplyEvent

-----------------------------------------------------------------------------
(***************************************************************************)
(* Recordings, the second picture and the setup.                           *)
(***************************************************************************)
LEMMA DecodingSubset == \A m : Decoding(m) \subseteq InMap(m)
BY DEF Decoding, In

\* A stop of the preparations, whatever flag was set before.
LEMMA StopFits ==
    ASSUME Inv, UNCHANGED <<running, enabled>>, ~support.applying,
           NEW w, w.m = manager, Plugin(w.p), ~w.p.applying,
           manager' = ForceStop(w).m,
           \/ support' = ForceStop(w).p
           \/ support' = [ForceStop(w).p EXCEPT !.forceStart = TRUE]
    PROVE  Inv'
<1> DEFINE n == ForceStop(w)
<1>1. /\ Holds(n.m, Decoding(manager), Decoding(manager))
      /\ Good(n.p) /\ ~n.p.activating /\ n.p.applying = w.p.applying
  BY Parts, ForceStopHolds
<1> HIDE DEF n
<1>2. Like(n.p, n.p) /\ Like(n.p, [n.p EXCEPT !.forceStart = TRUE])
  BY <1>1, MinorFlags, GoodLike
<1>3. Good(support') /\ ~support'.activating /\ ~support'.applying
  BY <1>1, <1>2 DEF Like, n
<1>4. \E S \in SUBSET InMap(manager) : Holds(manager', S, Decoding(manager))
  BY <1>1, DecodingSubset DEF n
<1> QED
  BY <1>3, <1>4, IdleFits

LEMMA StopAndStartFits ==
    ASSUME Inv, UNCHANGED <<running, enabled>>, ~support.applying,
           manager' = ForceStopAndStart(State).m,
           support' = ForceStopAndStart(State).p
    PROVE  Inv'
<1> DEFINE w == [State EXCEPT !.p.reset = FALSE]
           n == ForceStop(w)
<1>1. w = [m |-> manager, p |-> [support EXCEPT !.reset = FALSE]]
  BY PairFlags
<1> HIDE DEF w
<1>2. Like(support, w.p) /\ w.m = manager
  BY <1>1, Parts, MinorFlags
<1>3. n = [m |-> n.m, p |-> n.p]
  BY DEF ForceStop
<1>4. ForceStopAndStart(State) = [n EXCEPT !.p.forceStart = TRUE]
  BY DEF ForceStopAndStart, w
<1> HIDE DEF n
<1>5. manager' = n.m /\ support' = [n.p EXCEPT !.forceStart = TRUE]
  BY <1>3, <1>4
<1>6. Plugin(w.p) /\ ~w.p.applying
  BY <1>2 DEF Like, Good
<1> QED
  BY <1>2, <1>5, <1>6, StopFits DEF n

LEMMA StartFits ==
    ASSUME Inv, UNCHANGED <<running, enabled>>, ~support.applying,
           NEW w, Pair(w), w.m = manager, Like(support, w.p),
           manager' = ForceStart(w).m, support' = ForceStart(w).p
    PROVE  Inv'
<1>1. /\ manager' = manager /\ Good(support')
      /\ support'.activating = support.activating /\ ~support'.applying
  BY ForceStartGood DEF Like
<1> QED
  BY <1>1, Parts, IdleFits

LEMMA ForceStartStep ==
    ASSUME Inv, ForceStartTimer
    PROVE  Inv'
<1> DEFINE w == [State EXCEPT !.p.forceStart = FALSE]
<1>1. w = [m |-> manager, p |-> [support EXCEPT !.forceStart = FALSE]]
  BY PairFlags
<1> HIDE DEF w
<1>2. Like(support, w.p) /\ w.m = manager /\ Pair(w)
  BY <1>1, Parts, MinorFlags DEF Pair
<1>3. manager' = ForceStart(w).m /\ support' = ForceStart(w).p
  BY DEF ForceStartTimer, Becomes, w
<1> QED
  BY <1>2, <1>3, StartFits DEF ForceStartTimer, Idle, others

LEMMA ResetStep ==
    ASSUME Inv, ResetTimer
    PROVE  Inv'
<1> DEFINE w == [State EXCEPT !.p.reset = FALSE]
           n == ForceStop(w)
<1>1. w = [m |-> manager, p |-> [support EXCEPT !.reset = FALSE]]
  BY PairFlags
<1>2. manager' = ForceStart(n).m /\ support' = ForceStart(n).p
  BY DEF ResetTimer, Becomes
<1> HIDE DEF w
<1>3. Like(support, w.p) /\ w.m = manager
  BY <1>1, Parts, MinorFlags
<1>4. /\ Holds(n.m, Decoding(manager), Decoding(manager)) /\ Good(n.p) /\ Pair(n)
      /\ ~n.p.activating /\ ~n.p.applying
  <2>1. Plugin(w.p) /\ ~w.p.applying
    BY <1>3 DEF Like, Good, ResetTimer, Idle
  <2>2. Pair(n)
    BY DEF ForceStop, Pair
  <2> QED
    BY <1>3, <2>1, <2>2, Parts, ForceStopHolds
<1> HIDE DEF n
<1>5. manager' = n.m /\ Good(support') /\ ~support'.activating /\ ~support'.applying
  BY <1>2, <1>4, ForceStartGood
<1> QED
  BY <1>4, <1>5, DecodingSubset, IdleFits DEF ResetTimer, others

LEMMA RecordTuneStartStep ==
    ASSUME Inv, RecordTuneStart
    PROVE  Inv'
<1>1. UNCHANGED <<running, enabled>> /\ ~support.applying
  BY DEF RecordTuneStart, Idle
<1>2. CASE ~enabled \/ Suspended(support)
  <2>1. UNCHANGED <<manager, support>>
    BY <1>2 DEF RecordTuneStart, Becomes, State
  <2> QED
    BY <1>1, <2>1 DEF Inv
<1>3. CASE ~(~enabled \/ Suspended(support)) /\ support.disableforrec
  <2> DEFINE w == [State EXCEPT !.p.recordings = TRUE]
  <2>1. w = [m |-> manager, p |-> [support EXCEPT !.recordings = TRUE]]
    BY PairFlags
  <2>2. manager' = ForceStop(w).m /\ support' = ForceStop(w).p
    BY <1>3 DEF RecordTuneStart, Becomes
  <2> HIDE DEF w
  <2>3. Like(support, w.p) /\ w.m = manager
    BY <2>1, Parts, MinorFlags
  <2>4. Plugin(w.p) /\ ~w.p.applying
    BY <1>1, <2>3 DEF Like, Good
  <2> QED
    BY <1>1, <2>2, <2>3, <2>4, StopFits
<1>4. CASE ~(~enabled \/ Suspended(support)) /\ ~support.disableforrec
  <2>1. manager' = ForceStopAndStart(State).m /\ support' = ForceStopAndStart(State).p
    BY <1>4 DEF RecordTuneStart, Becomes
  <2> QED
    BY <1>1, <2>1, StopAndStartFits
<1> QED
  BY <1>2, <1>3, <1>4

LEMMA RecordEndStep ==
    ASSUME Inv, RecordEnd
    PROVE  Inv'
<1>1. UNCHANGED <<running, enabled>> /\ ~support.applying
  BY DEF RecordEnd, Idle
<1>2. CASE ~enabled
  <2>1. UNCHANGED <<manager, support>>
    BY <1>2 DEF RecordEnd, Becomes, State
  <2> QED
    BY <1>1, <2>1 DEF Inv
<1>3. CASE enabled /\ ~support.disableforrec
  <2> DEFINE a == [support EXCEPT !.forceStart = FALSE]
             b == [a EXCEPT !.reset = TRUE]
  <2>1. manager' = manager /\ support' = [support EXCEPT !.forceStart = FALSE, !.reset = TRUE]
    BY <1>3 DEF RecordEnd, Becomes, State
  <2>2. support' = b
    BY <2>1
  <2>3. Like(support, a)
    BY Parts, MinorFlags
  <2> HIDE DEF a
  <2>4. Like(a, b)
    BY <2>3, MinorFlags DEF Like
  <2>5. Like(support, support')
    BY <2>2, <2>3, <2>4, LikeLike
  <2> QED
    BY <1>1, <2>1, <2>5, Parts, LikeFits
<1>4. CASE enabled /\ support.disableforrec /\ recs' > 0
  <2>1. manager' = manager /\ support' = [support EXCEPT !.recordings = TRUE]
    BY <1>4, PairFlags DEF RecordEnd, Becomes
  <2>2. Like(support, support')
    BY <2>1, Parts, MinorFlags
  <2> QED
    BY <1>1, <2>1, <2>2, Parts, LikeFits
<1>5. CASE enabled /\ support.disableforrec /\ ~(recs' > 0)
  <2> DEFINE w == [State EXCEPT !.p.recordings = FALSE]
  <2>1. w = [m |-> manager, p |-> [support EXCEPT !.recordings = FALSE]]
    BY PairFlags
  <2>2. manager' = ForceStart(w).m /\ support' = ForceStart(w).p
    BY <1>5 DEF RecordEnd, Becomes
  <2> HIDE DEF w
  <2>3. Like(support, w.p) /\ w.m = manager /\ Pair(w)
    BY <2>1, Parts, MinorFlags DEF Pair
  <2> QED
    BY <1>1, <2>2, <2>3, StartFits
<1> QED
  BY <1>2, <1>3, <1>4, <1>5 DEF Inv, Fits

LEMMA StartPipStep ==
    ASSUME Inv, StartPip
    PROVE  Inv'
<1>1. UNCHANGED <<running, enabled>> /\ ~support.applying
  BY DEF StartPip, Idle
<1>2. manager' = ForceStopAndStart(State).m /\ support' = ForceStopAndStart(State).p
  BY DEF StartPip, Becomes
<1> QED
  BY <1>1, <1>2, StopAndStartFits

-----------------------------------------------------------------------------
(***************************************************************************)
(* Another service is watched.                                             *)
(***************************************************************************)
LEMMA FreshFits ==
    ASSUME NEW w, Manager(w.m), InMap(w.m) = {}, Good(w.p), ~w.p.activating,
           ~w.p.applying, NEW n \in Names, enabled' \in BOOLEAN, PlayFresh(w, n)
    PROVE  Inv' /\ ~support'.activating
<1>1. running' = n /\ Ref[n] \in Services /\ n # None
  BY SupportAssumption DEF PlayFresh
<1>2. CASE enabled' /\ Playable(Ref[n])
  <2>1. PICK o : /\ manager' = PutWatched(w.m, Ref[n], n, o)
                 /\ support' = Announced(w.p, o)
    BY <1>2 DEF PlayFresh
  <2>2. Holds(manager', {Ref[n]}, {Ref[n]})
    BY <1>1, <2>1, PutWatchedHolds
  <2>3. Like(w.p, support')
    BY <2>1, AnnouncedLike
  <2> QED
    BY <1>1, <2>2, <2>3 DEF Inv, Fits, Holds, Like
<1>3. CASE ~(enabled' /\ Playable(Ref[n]))
  <2>1. manager' = w.m /\ support' = OnStart(w.p)
    BY <1>3 DEF PlayFresh
  <2>2. Like(w.p, support')
    BY <2>1, OnTuneLike
  <2> QED
    BY <1>1, <1>3, <2>1, <2>2 DEF Inv, Fits, Like
<1> QED
  BY <1>2, <1>3

\* After a stop nothing is prepared, and the plugin waits.
LEMMA StopRunningHolds ==
    ASSUME NEW m, NEW p, Fits(m, running, enabled, p)
    PROVE  LET w == StopRunning(m, p)
           IN /\ Holds(w.m, {}, {}) /\ Good(w.p) /\ ~w.p.activating
              /\ w.p.applying = p.applying
<1>1. Manager(m) /\ Good(p)
  BY DEF Fits
<1>2. CASE running = None
  <2>1. StopRunning(m, p).m = m /\ StopRunning(m, p).p = p
    BY <1>2 DEF StopRunning
  <2>2. InMap(m) = {} /\ ~p.activating
    BY <1>2 DEF Fits
  <2> QED
    BY <1>1, <2>1, <2>2, DecodingSubset DEF Holds
<1>3. CASE running # None
  <2>1. StopRunning(m, p).m = Cleanup(m) /\ StopRunning(m, p).p = End(m, p).p
    BY <1>3 DEF StopRunning
  <2> QED
    BY <1>1, <2>1, CleanupHolds, EndQuiet
<1> QED
  BY <1>2, <1>3

LEMMA PlayServiceFits ==
    ASSUME Inv, ~support.applying, UNCHANGED enabled, NEW n \in Names,
           ~Watching(Ref[n]), PlayService(n)
    PROVE  Inv' /\ ~support'.activating
<1> DEFINE D == In(manager, "decoding")
           d == CHOOSE x \in D : TRUE
           w == IF D = {} THEN [m |-> manager, p |-> support]
                ELSE LeaveDecoding(manager, support, d)
           v == IF enabled /\ D # {} THEN [w EXCEPT !.m = Cleanup(@)]
                ELSE StopRunning(manager, support)
<1>1. /\ Manager(manager) /\ Good(support) /\ Fits(manager, running, enabled, support)
      /\ enabled' \in BOOLEAN /\ D = Decoding(manager)
  BY DEF Inv, Fits, Decoding
<1>2. /\ Manager(w.m) /\ Decoding(w.m) = {} /\ Pair(w)
      /\ Good(w.p) /\ ~w.p.activating /\ ~w.p.applying
  <2>1. CASE D = {}
    <3>1. w = [m |-> manager, p |-> support]
      BY <2>1
    <3>2. ~support.activating
      BY <1>1, <2>1 DEF Fits
    <3> HIDE DEF w
    <3> QED
      BY <1>1, <2>1, <3>1, <3>2 DEF Pair
  <2>2. CASE D # {}
    <3> DEFINE e == End(manager, support)
               el == manager.services[d]
               o == IF el.failed # "no" /\ ~el.normal THEN GetEvent(e.p, "failed")
                    ELSE e.p
    <3>1. d \in Decoding(manager) /\ Decoding(manager) = {d}
      BY <1>1, <2>2 DEF Fits, Decoding, In
    <3>2. w = [m |-> Leave(e.m, d), p |-> o]
      BY <2>2 DEF LeaveDecoding
    <3>3. /\ \E S : Holds(e.m, S, Decoding(manager))
          /\ Good(e.p) /\ ~e.p.activating /\ ~e.p.applying
      BY <1>1, EndQuiet
    <3> HIDE DEF e
    <3>4. Like(e.p, o)
      BY <3>3, GetEventLike, GoodLike
    <3> HIDE DEF o, d, w
    <3>5. \E S : Holds(Leave(e.m, d), S, Decoding(e.m) \ {d})
      BY <3>1, <3>3, LeaveHolds DEF Holds
    <3>6. Manager(Leave(e.m, d)) /\ Decoding(Leave(e.m, d)) = {}
      BY <3>1, <3>3, <3>5 DEF Holds
    <3> QED
      BY <3>2, <3>3, <3>4, <3>6 DEF Pair, Like
  <2> QED
    BY <2>1, <2>2
<1>3. CASE enabled /\ Ref[n] \in InMap(w.m)
  <2>1. running' = n /\ manager' = Use(w.m, Ref[n]) /\ n # None
        /\ support' = Announced(w.p, w.m.services[Ref[n]])
    BY <1>3, SupportAssumption DEF PlayService
  <2> HIDE DEF w, D
  <2>2. Holds(manager', InMap(w.m), {Ref[n]})
    BY <1>2, <1>3, <2>1, UseHolds
  <2>3. Like(w.p, support')
    BY <1>2, <2>1, AnnouncedLike
  <2> QED
    BY <1>1, <1>2, <1>3, <2>1, <2>2, <2>3 DEF Inv, Fits, Holds, Like
<1>4. CASE ~(enabled /\ Ref[n] \in InMap(w.m))
  <2>1. PlayFresh(v, n)
    BY <1>4 DEF PlayService
  <2>2. /\ Manager(v.m) /\ InMap(v.m) = {} /\ Good(v.p) /\ ~v.p.activating
        /\ ~v.p.applying
    <3>1. CASE enabled /\ D # {}
      <4>1. v = [w EXCEPT !.m = Cleanup(w.m)]
        BY <3>1
      <4> HIDE DEF w, v, D
      <4>2. v = [m |-> Cleanup(w.m), p |-> w.p]
        BY <1>2, <4>1, PairSet
      <4> QED
        BY <1>2, <4>2, CleanupHolds DEF Holds
    <3>2. CASE ~(enabled /\ D # {})
      <4>1. v = StopRunning(manager, support)
        BY <3>2
      <4> HIDE DEF v
      <4> QED
        BY <1>1, <4>1, StopRunningHolds DEF Holds
    <3> QED
      BY <3>1, <3>2
  <2> HIDE DEF v
  <2> QED
    BY <1>1, <2>1, <2>2, FreshFits
<1> QED
  BY <1>3, <1>4

LEMMA ZapStep ==
    ASSUME Inv, NEW n \in Names, Zap(n)
    PROVE  Inv' /\ ~support'.activating
BY PlayServiceFits DEF Zap, Idle

LEMMA StopServiceStep ==
    ASSUME Inv, StopService
    PROVE  Inv' /\ ~support'.activating
<1> DEFINE w == StopRunning(manager, support)
<1>1. /\ manager' = w.m /\ support' = w.p /\ running' = None
      /\ UNCHANGED enabled /\ ~support.applying
  BY DEF StopService, Idle
<1>2. Holds(w.m, {}, {}) /\ Good(w.p) /\ ~w.p.activating /\ w.p.applying = support.applying
  BY StopRunningHolds DEF Inv
<1> HIDE DEF w
<1> QED
  BY <1>1, <1>2 DEF Inv, Fits, Holds

LEMMA SetupStep ==
    ASSUME Inv, NEW on \in BOOLEAN, NEW disable \in BOOLEAN, SetupChanged(on, disable)
    PROVE  Inv' /\ ~support'.activating
<1> DEFINE r == recs > 0
           a == [support EXCEPT !.recordings = r]
           known == [a EXCEPT !.disableforrec = disable]
           t == on /\ ~Suspended(known)
           p == [known EXCEPT !.tracker = t]
           w == IF p.tracker THEN [State EXCEPT !.p = p]
                ELSE [m |-> StopFailed(manager), p |-> Disabled(p)]
<1>1. /\ enabled' = on /\ ~support.applying
      /\ IF running = None THEN Becomes(w) /\ UNCHANGED running
         ELSE PlayFresh(StopRunning(w.m, w.p), running)
  BY DEF SetupChanged, Idle
<1>2. Like(support, known) /\ t \in BOOLEAN
  <2> DEFINE x == [support EXCEPT !["recordings"] = r]
             y == [a EXCEPT !["disableforrec"] = disable]
  <2>1. Like(support, x) /\ a = x
    <3> HIDE DEF r
    <3> QED  BY Parts, MinorLike DEF Minor, Fields
  <2> HIDE DEF a, x
  <2>2. Like(a, y) /\ known = y
    <3>1. "disableforrec" \in Minor /\ Good(a)
      BY <2>1 DEF Like, Minor, Fields
    <3> QED  BY <3>1, MinorLike
  <2>3. Like(support, known)
    BY <2>1, <2>2, LikeLike
  <2> QED
    BY <2>3
<1> HIDE DEF known, t
<1>3. /\ Plugin(p) /\ p.tracker = t /\ p.queue = known.queue
      /\ p.activating = support.activating /\ ~p.applying
  BY <1>1, <1>2, TrackerSet DEF Like, Good
<1> HIDE DEF p
<1>4. /\ \E S \in SUBSET InMap(manager) : Holds(w.m, S, Decoding(manager))
      /\ Good(w.p) /\ ~w.p.applying
      /\ w.p.activating => support.activating
  <2>1. CASE p.tracker
    <3>1. w.m = manager /\ w.p = p
      BY <2>1 DEF State
    <3>2. Good(p)
      BY <1>3, <2>1 DEF Good
    <3> HIDE DEF w
    <3> QED
      BY <1>3, <3>1, <3>2, Parts
  <2>2. CASE ~p.tracker
    <3>1. w.m = StopFailed(manager) /\ w.p = Disabled(p)
      BY <2>2
    <3>2. Holds(StopFailed(manager), InMap(manager) \ In(manager, "failed"), Decoding(manager))
      BY Parts, StopFailedHolds
    <3>3. /\ Good(Disabled(p)) /\ Disabled(p).applying = p.applying
          /\ Disabled(p).activating = FALSE
      BY <1>3, DisabledGood
    <3> HIDE DEF w
    <3> QED
      BY <1>3, <3>1, <3>2, <3>3
  <2> QED
    BY <2>1, <2>2
<1> HIDE DEF w
<1>5. Fits(w.m, running, enabled, w.p)
  <2>1. PICK S \in SUBSET InMap(manager) : Holds(w.m, S, Decoding(manager))
    BY <1>4
  <2>2. (S # {} => InMap(manager) # {}) /\ (w.p.activating => InMap(manager) # {})
    BY <1>4 DEF Inv, Fits
  <2>3. Fits(manager, running, enabled, support)
    BY DEF Inv
  <2> QED
    BY <1>4, <2>1, <2>2, <2>3, StillFits
<1>6. CASE running = None
  <2>1. manager' = w.m /\ support' = w.p /\ running' = None
    BY <1>1, <1>6 DEF Becomes
  <2>2. ~support'.activating
    BY <1>5, <1>6, <2>1 DEF Fits
  <2> QED
    BY <1>1, <1>5, <1>6, <2>1, <2>2 DEF Inv, Fits
<1>7. CASE running # None
  <2> DEFINE v == StopRunning(w.m, w.p)
  <2>1. Holds(v.m, {}, {}) /\ Good(v.p) /\ ~v.p.activating /\ ~v.p.applying
    BY <1>4, <1>5, StopRunningHolds
  <2>2. PlayFresh(v, running) /\ running \in Names
    BY <1>1, <1>7 DEF Inv, Fits
  <2> HIDE DEF v
  <2> QED
    BY <1>1, <2>1, <2>2, FreshFits DEF Holds
<1> QED
  BY <1>6, <1>7

-----------------------------------------------------------------------------
LEMMA InitInv == Init => Inv
<1> SUFFICES ASSUME Init PROVE Inv
  OBVIOUS
<1>1. Holds(NoServices, {}, {})
  <2>1. /\ NoServices.services = << >> /\ InMap(NoServices) = {}
        /\ NoServices.chids = [c \in Channels |-> 0]
    BY DEF NoServices, InMap
  <2>2. Decoding(NoServices) = {} /\ \A c : OnChannel(NoServices, c) = {}
    BY <2>1 DEF Decoding, In, OnChannel
  <2>3. NoServices.services = [s \in {} |-> NoServices.services[s]]
    BY <2>1
  <2>4. Shape(NoServices)
    BY <2>1, <2>3 DEF Shape, NoServices
  <2> QED
    BY <2>1, <2>2, <2>4, FS_EmptySet DEF Holds, Manager, Counted
<1>2. PICK d \in BOOLEAN : support = [Quiet EXCEPT !.disableforrec = d]
  BY DEF Init
<1>3. Good(Quiet) /\ Quiet.activating = FALSE /\ Quiet.applying = FALSE
  <2>1. Quiet = [x \in Fields |-> Quiet[x]]
    BY DEF Quiet, Fields
  <2>2. Quiet.queue = << >> /\ Quiet.tracker = TRUE /\ Quiet.activating = FALSE /\ Quiet.applying = FALSE
    BY DEF Quiet
  <2>3. Queue(<< >>)
    BY DEF Queue, IsInjective
  <2> QED
    BY <2>1, <2>2, <2>3 DEF Good, Plugin
<1>4. Like(Quiet, support)
  <2> DEFINE x == [Quiet EXCEPT !["disableforrec"] = d]
  <2>1. Like(Quiet, x)
    BY <1>3, MinorLike DEF Minor, Fields
  <2> QED
    BY <1>2, <2>1
<1> QED
  BY <1>1, <1>3, <1>4 DEF Init, Inv, Fits, Holds, Like

LEMMA NextInv == Inv /\ [Next]_vars => Inv'
<1> SUFFICES ASSUME Inv, [Next]_vars PROVE Inv'
  OBVIOUS
<1>1. ASSUME NEW n \in Names, Zap(n) PROVE Inv'
  BY <1>1, ZapStep
<1>2. CASE StopService
  BY <1>2, StopServiceStep
<1>3. ASSUME NEW s \in Services, TunedIn(s) \/ TuneFailed(s) \/ FccFailed(s) PROVE Inv'
  BY <1>3, TunedInStep, TuneFailedStep, FccFailedStep
<1>4. CASE Timers
  BY <1>4, CreateListStep, GetSrefStep, FccEventStep, ApplyEventStep DEF Timers
<1>5. CASE LongTimers
  BY <1>5, FCCTimeoutStep, ForceStartStep, ResetStep DEF LongTimers
<1>6. CASE RecordTuneStart \/ RecordEnd \/ StartPip
  BY <1>6, RecordTuneStartStep, RecordEndStep, StartPipStep
<1>7. ASSUME NEW on \in BOOLEAN, NEW disable \in BOOLEAN, SetupChanged(on, disable) PROVE Inv'
  BY <1>7, SetupStep
<1>8. CASE UNCHANGED vars
  BY <1>8 DEF vars, Inv
<1> QED
  BY <1>1, <1>2, <1>3, <1>4, <1>5, <1>6, <1>7, <1>8 DEF Next

LEMMA InvAlways == Spec => []Inv
<1>1. Init => Inv
  BY InitInv
<1>2. Inv /\ [Next]_vars => Inv'
  BY NextInv
<1> QED
  BY <1>1, <1>2, PTL DEF Spec

\* The prepared services of each channel are counted right, whatever services,
\* channels, lists and settings there are, and however often the user zaps:
\* what m_fcc_chids says to canAllocateChannel is what the manager holds.
THEOREM PreparedAreCounted == Spec => []ChannelsCounted
<1>1. Inv => ChannelsCounted
  BY InvProperties
<1> QED
  BY <1>1, InvAlways, PTL

\* One service decodes at most, the one that is watched, and nothing is
\* prepared without it: the assertion of tryFCCService never fails, and no zap
\* leaves a service behind.
THEOREM WatchedAlone == Spec => []OneIsWatched
<1>1. Inv => OneIsWatched
  BY InvProperties
<1> QED
  BY <1>1, InvAlways, PTL
-----------------------------------------------------------------------------
(***************************************************************************)
(* Nothing beside a recording.  What the plugin knows of the recordings    *)
(* and of the setting about them is changed where they change, and nowhere *)
(* else; while it waits for a recording to end it prepares nothing, and    *)
(* nothing is left of what it has prepared.                                *)
(***************************************************************************)
Shaped(p) == p = [x \in Fields |-> p[x]]

\* A step that has nothing to do with recordings.
Same(p, n) ==
    Shaped(n) /\ n.recordings = p.recordings /\ n.disableforrec = p.disableforrec

Other == Fields \ {"recordings", "disableforrec"}

LEMMA SetSame ==
    ASSUME NEW p, Shaped(p), NEW f \in Other, NEW v
    PROVE  Same(p, [p EXCEPT ![f] = v])
<1> DEFINE n == [p EXCEPT ![f] = v]
<1>1. n = [x \in Fields |-> n[x]] /\ \A x \in Fields : n[x] = IF x = f THEN v ELSE p[x]
  BY FieldSet DEF Shaped, Other
<1> HIDE DEF n
<1>2. n.recordings = p.recordings /\ n.disableforrec = p.disableforrec
  BY <1>1 DEF Fields, Other
<1>3. Same(p, n)
  BY <1>1, <1>2 DEF Same, Shaped
<1> QED
  BY <1>3 DEF n

LEMMA SameSame ==
    ASSUME NEW p, NEW n, NEW o, Same(p, n), Same(n, o)
    PROVE  Same(p, o)
BY DEF Same

LEMMA SameItself ==
    ASSUME NEW p, Shaped(p)
    PROVE  Same(p, p)
BY DEF Same

LEMMA FlagSame ==
    ASSUME NEW p, Shaped(p)
    PROVE  /\ Same(p, [p EXCEPT !.activating = FALSE]) /\ [p EXCEPT !.activating = FALSE].activating = FALSE
           /\ Same(p, [p EXCEPT !.activating = TRUE])
           /\ Same(p, [p EXCEPT !.forceStart = FALSE]) /\ Same(p, [p EXCEPT !.forceStart = TRUE])
           /\ Same(p, [p EXCEPT !.reset = FALSE]) /\ Same(p, [p EXCEPT !.reset = TRUE])
           /\ Same(p, [p EXCEPT !.tracker = FALSE]) /\ Same(p, [p EXCEPT !.tracker = TRUE])
           /\ Same(p, [p EXCEPT !.timeout = FALSE]) /\ Same(p, [p EXCEPT !.timeout = TRUE])
<1>1. \A v : /\ Same(p, [p EXCEPT !["activating"] = v]) /\ Same(p, [p EXCEPT !["forceStart"] = v])
             /\ Same(p, [p EXCEPT !["reset"] = v]) /\ Same(p, [p EXCEPT !["tracker"] = v])
             /\ Same(p, [p EXCEPT !["timeout"] = v])
  BY SetSame DEF Other, Fields
<1>2. \A v : [p EXCEPT !["activating"] = v].activating = v
  BY DEF Shaped, Fields
<1> QED
  BY <1>1, <1>2, Zenon

LEMMA StopSame ==
    ASSUME NEW p, Shaped(p), NEW timer
    PROVE  Same(p, Stop(p, timer)) /\ Stop(p, timer).activating = p.activating
<1> DEFINE q == Without(p.queue, timer)
<1> HIDE DEF q
<1>1. Same(p, [p EXCEPT !["queue"] = q])
  BY SetSame DEF Other, Fields
<1>2. [p EXCEPT !["queue"] = q].activating = p.activating
  BY DEF Shaped, Fields
<1> QED
  BY <1>1, <1>2 DEF Stop, q

LEMMA StartSame ==
    ASSUME NEW p, Shaped(p), NEW timer
    PROVE  Same(p, Start(p, timer))
<1> DEFINE q == Append(Without(p.queue, timer), timer)
<1> HIDE DEF q
<1>1. Same(p, [p EXCEPT !["queue"] = q])
  BY SetSame DEF Other, Fields
<1> QED
  BY <1>1 DEF Start, q

LEMMA GetEventSame ==
    ASSUME NEW p, Shaped(p), NEW event
    PROVE  Same(p, GetEvent(p, event))
<1> DEFINE v == Append(p.events, event)
           n == [p EXCEPT !["events"] = v]
<1>1. Same(p, n)
  <2> HIDE DEF v
  <2> QED  BY SetSame DEF Other, Fields
<1>2. GetEvent(p, event) = IF p.activating THEN Start(n, "fccEvent") ELSE p
  BY DEF GetEvent
<1> HIDE DEF n
<1>3. Same(n, Start(n, "fccEvent"))
  BY <1>1, StartSame DEF Same
<1>4. Same(p, Start(n, "fccEvent")) /\ Same(p, p)
  BY <1>1, <1>3, SameSame, SameItself
<1> QED
  BY <1>2, <1>4

LEMMA TimeoutSame ==
    ASSUME NEW p, Shaped(p), NEW s
    PROVE  Same(p, TimeoutStop(p)) /\ Same(p, TimeoutStart(p, s))
<1>1. ASSUME NEW x, NEW y
      PROVE  Same(p, [p EXCEPT !.wait = x, !.timeout = y])
  <2> DEFINE n == [p EXCEPT !["wait"] = x]
             o == [n EXCEPT !["timeout"] = y]
  <2>1. Same(p, n)
    BY SetSame DEF Other, Fields
  <2>2. Same(n, o)
    <3> HIDE DEF n
    <3> QED  BY <2>1, SetSame DEF Same, Other, Fields
  <2>3. o = [p EXCEPT !.wait = x, !.timeout = y]
    OBVIOUS
  <2> HIDE DEF n, o
  <2> QED
    BY <2>1, <2>2, <2>3, SameSame
<1> QED
  BY <1>1 DEF TimeoutStop, TimeoutStart

LEMMA DisabledSame ==
    ASSUME NEW p, Shaped(p)
    PROVE  Same(p, Disabled(p)) /\ ~Disabled(p).activating
<1> DEFINE b == TimeoutStop(p)
           c == Stop(b, "getSref")
           d == Stop(c, "fccEvent")
           e == [d EXCEPT !.activating = FALSE]
           f == [e EXCEPT !["list"] = << >>]
           g == [f EXCEPT !["events"] = << >>]
<1>1. Disabled(p) = g
  BY DEF Disabled
<1>2. Same(p, b)
  BY TimeoutSame
<1> HIDE DEF b
<1>3. Same(b, c)
  BY <1>2, StopSame DEF Same
<1> HIDE DEF c
<1>4. Same(c, d)
  BY <1>3, StopSame DEF Same
<1> HIDE DEF d
<1>5. Same(d, e) /\ e.activating = FALSE
  BY <1>4, FlagSame DEF Same
<1> HIDE DEF e
<1>6. Same(e, f) /\ f.activating = e.activating
  <2>1. Shaped(e)
    BY <1>5 DEF Same
  <2> QED
    BY <2>1, SetSame DEF Other, Fields, Shaped
<1> HIDE DEF f
<1>7. Same(f, g) /\ g.activating = f.activating
  <2>1. Shaped(f)
    BY <1>6 DEF Same
  <2> QED
    BY <2>1, SetSame DEF Other, Fields, Shaped
<1> HIDE DEF g
<1> QED
  BY <1>1, <1>2, <1>3, <1>4, <1>5, <1>6, <1>7 DEF Same

LEMMA AnnouncedSame ==
    ASSUME NEW p, Shaped(p)
    PROVE  /\ Same(p, OnStart(p)) /\ Same(p, OnTune(p))
           /\ \A e : Same(p, Announced(p, e))
<1>1. ASSUME NEW o, Shaped(o)
      PROVE  Same(o, OnStart(o)) /\ Same(o, OnTune(o))
  BY <1>1, StartSame, SameItself DEF OnStart, OnTune
<1>2. Same(p, OnStart(p)) /\ Same(OnStart(p), OnTune(OnStart(p)))
  BY <1>1 DEF Same
<1>3. Same(p, OnTune(OnStart(p)))
  BY <1>2, SameSame
<1> QED
  BY <1>1, <1>2, <1>3 DEF Announced

LEMMA EndSame ==
    ASSUME NEW m, NEW p, Shaped(p)
    PROVE  Same(p, End(m, p).p)
BY DisabledSame, SameItself DEF End

LEMMA TellsSame ==
    ASSUME Shaped(support), NEW s, NEW event
    PROVE  Same(support, Tells(s, event))
<1> DEFINE p == IF manager.services[s].connected THEN GetEvent(support, event)
                ELSE support
<1>1. Same(support, p)
  BY GetEventSame, SameItself
<1>2. Tells(s, event) = IF Watching(s) THEN OnTune(p) ELSE p
  BY DEF Tells
<1> HIDE DEF p
<1>3. Same(p, OnTune(p))
  BY <1>1, AnnouncedSame DEF Same
<1>4. Same(support, OnTune(p))
  BY <1>1, <1>3, SameSame
<1> QED
  BY <1>1, <1>2, <1>4

LEMMA CreateListSame ==
    ASSUME NEW w, Pair(w), Shaped(w.p), NEW c
    PROVE  Same(w.p, CreateList(w, c).p)
<1> DEFINE v == Missing(w.m, Wanted(c))
<1>1. Same(w.p, [w.p EXCEPT !["list"] = v])
  <2> HIDE DEF v
  <2> QED  BY SetSame DEF Other, Fields
<1>2. CreateList(w, c).p = w.p \/ CreateList(w, c).p = [w.p EXCEPT !["list"] = v]
  BY DEF CreateList
<1> HIDE DEF v
<1> QED
  BY <1>1, <1>2, SameItself

LEMMA ForceStopSame ==
    ASSUME NEW w, Shaped(w.p)
    PROVE  Same(w.p, ForceStop(w).p) /\ ~ForceStop(w).p.activating
<1> DEFINE o == [w.p EXCEPT !.tracker = FALSE]
<1>1. ForceStop(w).p = Disabled(o)
  BY DEF ForceStop
<1>2. Same(w.p, o)
  BY FlagSame
<1> HIDE DEF o
<1>3. Same(o, Disabled(o)) /\ ~Disabled(o).activating
  BY <1>2, DisabledSame DEF Same
<1> QED
  BY <1>1, <1>2, <1>3, SameSame

LEMMA ForceStartSame ==
    ASSUME NEW w, Pair(w), Shaped(w.p)
    PROVE  Same(w.p, ForceStart(w).p)
<1> DEFINE a == [w.p EXCEPT !.tracker = TRUE]
           b == Start(a, "createList")
           c == Start(b, "getSref")
<1>1. ForceStart(w).p = c
  BY DEF ForceStart, Pair
<1>2. Same(w.p, a)
  BY FlagSame
<1> HIDE DEF a
<1>3. Same(a, b)
  BY <1>2, StartSame DEF Same
<1> HIDE DEF b
<1>4. Same(b, c)
  BY <1>3, StartSame DEF Same
<1> HIDE DEF c
<1> QED
  BY <1>1, <1>2, <1>3, <1>4 DEF Same
Beside ==
    /\ support.recordings \in BOOLEAN /\ support.disableforrec \in BOOLEAN /\ recs \in Nat
    /\ enabled /\ support.disableforrec => (support.recordings <=> recs > 0)
    /\ enabled /\ Suspended(support) =>
          InMap(manager) = Decoding(manager) /\ ~support.activating

LEMMA ShapedSupport == Inv => Shaped(support)
BY Parts DEF Plugin, Shaped

\* A step that has nothing to do with recordings, and leaves the plugin waiting
\* if it waits for one.
LEMMA SameBeside ==
    ASSUME Beside, UNCHANGED <<enabled, recs>>, Same(support, support'),
           enabled /\ Suspended(support) =>
               InMap(manager)' = Decoding(manager)' /\ ~support'.activating
    PROVE  Beside'
<1>1. Suspended(support)' => Suspended(support)
  BY DEF Same, Suspended
<1> QED
  BY <1>1 DEF Beside, Same

\* One that takes prepared services away, if anything.
LEMMA LessBeside ==
    ASSUME Beside, UNCHANGED <<enabled, recs>>, Same(support, support'),
           \E S \in SUBSET InMap(manager) : Holds(manager', S, Decoding(manager)),
           support'.activating => support.activating
    PROVE  Beside'
<1>1. enabled /\ Suspended(support) => InMap(manager') = Decoding(manager') /\ ~support'.activating
  BY DecodingSubset DEF Beside, Holds
<1>2. InMap(manager)' = InMap(manager') /\ Decoding(manager)' = Decoding(manager')
  BY DEF InMap, Decoding, In
<1> QED
  BY <1>1, <1>2, SameBeside

LEMMA TunedInBeside ==
    ASSUME Inv, Beside, NEW s, TunedIn(s)
    PROVE  Beside'
<1>1. Holds(manager', InMap(manager), Decoding(manager))
  BY Parts, LockedHolds DEF TunedIn
<1>2. Like(support, support') /\ Same(support, support')
  BY Parts, ShapedSupport, TellsLike, TellsSame DEF TunedIn
<1> QED
  BY <1>1, <1>2, LessBeside DEF TunedIn, others, Like

LEMMA FailedBeside ==
    ASSUME Inv, Beside, NEW s, TuneFailed(s) \/ FccFailed(s)
    PROVE  Beside'
<1>1. Holds(manager', InMap(manager), Decoding(manager))
  BY Parts, FailsHolds DEF TuneFailed, FccFailed
<1>2. Like(support, support') /\ Same(support, support')
  BY Parts, ShapedSupport, TellsLike, TellsSame, GoodLike, SameItself DEF TuneFailed, FccFailed
<1> QED
  BY <1>1, <1>2, LessBeside DEF TuneFailed, FccFailed, others, Like

LEMMA CreateListBeside ==
    ASSUME Inv, Beside, CreateListTimer
    PROVE  Beside'
<1> DEFINE w == [m |-> manager, p |-> Stop(support, "createList")]
<1>1. PICK c : manager' = CreateList(w, c).m /\ support' = CreateList(w, c).p
  BY DEF CreateListTimer, Becomes, State
<1>2. /\ Like(support, w.p) /\ Good(w.p) /\ w.m = manager /\ Pair(w)
      /\ Same(support, w.p) /\ Shaped(w.p)
  BY Parts, ShapedSupport, StopLike, StopSame DEF Like, Pair, Same
<1> HIDE DEF w
<1>3. /\ \E S \in SUBSET InMap(manager) : Holds(manager', S, Decoding(manager))
      /\ Like(w.p, support') /\ Same(w.p, support')
  BY <1>1, <1>2, Parts, CreateListStill, CreateListSame
<1>4. Like(support, support') /\ Same(support, support')
  BY <1>2, <1>3, LikeLike, SameSame
<1> QED
  BY <1>3, <1>4, LessBeside DEF CreateListTimer, others, Like

\* The plugin that waits does not begin to prepare.
LEMMA GetSrefBeside ==
    ASSUME Inv, Beside, GetSrefTimer
    PROVE  Beside'
<1> DEFINE w == [State EXCEPT !.p = Stop(@, "getSref")]
           v == [w EXCEPT !.p = Stop(@, "createList")]
           l(c) == IF "createList" \in ToSet(w.p.queue) THEN CreateList(v, c) ELSE w
           u(c) == [l(c).p EXCEPT !.activating = TRUE]
<1>1. PICK c :
         Becomes(IF ~enabled \/ Suspended(w.p) THEN w
                 ELSE IF running = None \/ ~Playable(Ref[running]) THEN l(c)
                 ELSE [l(c) EXCEPT !.p = GetEvent([@ EXCEPT !.activating = TRUE], "tuned")])
  BY Zenon DEF GetSrefTimer
<1>2. Same(support, w.p) /\ w.m = manager /\ Pair(w) /\ w.p.activating = support.activating
  <2>1. w = [m |-> manager, p |-> Stop(support, "getSref")]
    BY DEF State
  <2> HIDE DEF w
  <2> QED  BY <2>1, ShapedSupport, StopSame DEF Pair
<1>3. /\ Same(support, l(c).p) /\ Pair(l(c))
  <2> HIDE DEF w
  <2>1. Same(w.p, v.p) /\ Pair(v) /\ Shaped(v.p)
    <3>1. v = [m |-> manager, p |-> Stop(w.p, "createList")]
      BY <1>2 DEF Pair
    <3> HIDE DEF v
    <3> QED  BY <1>2, <3>1, StopSame DEF Same, Pair
  <2> HIDE DEF v
  <2>2. Same(v.p, CreateList(v, c).p) /\ Pair(CreateList(v, c))
    BY <2>1, CreateListSame DEF CreateList, Pair
  <2>3. Same(support, CreateList(v, c).p)
    BY <1>2, <2>1, <2>2, SameSame
  <2> QED
    BY <1>2, <2>2, <2>3
<1>4. CASE ~enabled \/ Suspended(w.p)
  <2>1. manager' = w.m /\ support' = w.p
    BY <1>1, <1>4 DEF Becomes
  <2> HIDE DEF w
  <2> QED
    BY <1>2, <2>1, Parts, LessBeside DEF GetSrefTimer, others
<1>5. CASE ~(~enabled \/ Suspended(w.p))
  <2>1. ~Suspended(support)
    BY <1>2, <1>5 DEF Suspended, Same
  <2> HIDE DEF l
  <2>2. support' = l(c).p \/ support' = GetEvent(u(c), "tuned")
    <3> HIDE DEF w
    <3>1. [l(c) EXCEPT !.p = GetEvent(u(c), "tuned")].p = GetEvent(u(c), "tuned")
      BY <1>3 DEF Pair
    <3> QED
      BY <1>1, <1>5, <3>1 DEF Becomes
  <2>3. Same(l(c).p, u(c))
    BY <1>3, FlagSame DEF Same
  <2> HIDE DEF u
  <2>4. Same(u(c), GetEvent(u(c), "tuned"))
    BY <2>3, GetEventSame DEF Same
  <2>5. Same(support, support')
    BY <1>3, <2>2, <2>3, <2>4, SameSame
  <2> QED
    BY <2>1, <2>5, SameBeside DEF GetSrefTimer, others
<1> QED
  BY <1>4, <1>5

LEMMA FccEventBeside ==
    ASSUME Inv, Beside, FccEventTimer
    PROVE  Beside'
<1> DEFINE p == Stop(support, "fccEvent")
           v == support.activating /\ support.events # << >>
           n == [p EXCEPT !["applying"] = v]
<1>1. support' = n /\ manager' = manager
  BY DEF FccEventTimer
<1>2. Same(support, p) /\ p.activating = support.activating
  BY ShapedSupport, StopSame
<1> HIDE DEF p, v
<1>3. Same(p, n) /\ n.activating = p.activating
  <2>1. Shaped(p)
    BY <1>2 DEF Same
  <2> QED
    BY <2>1, SetSame DEF Other, Fields, Shaped
<1> HIDE DEF n
<1>4. Same(support, support') /\ support'.activating = support.activating
  BY <1>1, <1>2, <1>3, SameSame
<1>5. Holds(manager', InMap(manager), Decoding(manager)) /\ UNCHANGED <<enabled, recs>>
  BY <1>1, Parts DEF FccEventTimer, others
<1> QED
  BY <1>4, <1>5, LessBeside

LEMMA FCCTimeoutBeside ==
    ASSUME Inv, Beside, FCCTimeout
    PROVE  Beside'
<1> DEFINE p == [support EXCEPT !.timeout = FALSE]
           s == support.wait
<1>1. /\ Like(support, p) /\ Same(support, p)
      /\ Like(support, GivenUp(p)) /\ Same(support, GivenUp(p))
  <2>1. Like(support, p) /\ Same(support, p)
    BY Parts, ShapedSupport, MinorFlags, FlagSame
  <2> HIDE DEF p
  <2>2. Like(p, GivenUp(p)) /\ Same(p, GivenUp(p))
    BY <2>1, GetEventLike, GetEventSame DEF GivenUp, Like, Same
  <2> QED
    BY <2>1, <2>2, LikeLike, SameSame
<1>2. /\ support' = p \/ support' = GivenUp(p)
      /\ manager' = manager \/ (manager' = Stopped(manager, {s}) /\ Awaited(manager) = {s})
      /\ UNCHANGED <<enabled, recs>>
  BY DEF FCCTimeout, others
<1>3. \E S \in SUBSET InMap(manager) : Holds(manager', S, Decoding(manager))
  <2>1. Holds(manager, InMap(manager), Decoding(manager))
    BY Parts
  <2>2. Holds(Stopped(manager, {s}), InMap(manager) \ {s}, Decoding(manager) \ {s})
    BY Parts, StoppedHolds
  <2>3. Awaited(manager) = {s} => Decoding(manager) \ {s} = Decoding(manager)
    BY DEF Awaited, NoLocked, Decoding
  <2> QED
    BY <1>2, <2>1, <2>2, <2>3
<1> HIDE DEF p, s
<1> QED
  BY <1>1, <1>2, <1>3, LessBeside DEF Like

\* In the loop the plugin does not wait for a recording.
LEMMA ApplyEventBeside ==
    ASSUME Inv, Beside, ApplyEvent
    PROVE  Beside'
<1> DEFINE e == [support EXCEPT !["events"] = Tail(support.events)]
           p == TimeoutStop(e)
           rest == [p EXCEPT !["list"] = Tail(p.list)]
<1>1. support.activating /\ UNCHANGED <<enabled, recs>>
  BY DEF ApplyEvent, Inv, Fits, others
<1>2. Same(support, p) /\ Same(support, rest)
  <2>1. Same(support, e)
    BY ShapedSupport, SetSame DEF Other, Fields
  <2> HIDE DEF e
  <2>2. Same(e, p)
    BY <2>1, TimeoutSame DEF Same
  <2> HIDE DEF p
  <2>3. Same(p, rest)
    <3>1. Shaped(p) /\ "list" \in Other
      BY <2>2 DEF Same, Other, Fields
    <3> QED
      BY <3>1, SetSame
  <2> QED
    BY <2>1, <2>2, <2>3, SameSame
<1>3. ASSUME NEW q, Same(support, q)
      PROVE  Same(support, LoopEnds(q)) /\ \A s : Same(support, LoopEnds(TimeoutStart(q, s)))
  <2>1. ASSUME NEW o, Shaped(o)
        PROVE  Same(o, LoopEnds(o))
    <3> DEFINE x == o.events # << >>
    <3>1. LoopEnds(o) = [o EXCEPT !["applying"] = x]
      BY DEF LoopEnds
    <3>2. \A v : Same(o, [o EXCEPT !["applying"] = v])
      BY <2>1, SetSame DEF Other, Fields
    <3> HIDE DEF x
    <3> QED
      BY <3>1, <3>2, Zenon
  <2>2. ASSUME NEW s
        PROVE  Same(q, TimeoutStart(q, s)) /\ Same(TimeoutStart(q, s), LoopEnds(TimeoutStart(q, s)))
    BY <1>3, <2>1, TimeoutSame DEF Same
  <2> QED
    BY <1>3, <2>1, <2>2, SameSame DEF Same
<1>4. \E m, n, q :
         \/ \E s : support' = LoopEnds(TimeoutStart(p, s))
         \/ support' = LoopEnds(IF p.list = << >> THEN p ELSE rest)
         \/ support' = rest
         \/ \E a \in PreparedAs(n) :
               LET t == IF a.locked THEN GetEvent(rest, "tuned") ELSE rest
                   f == IF a.failed = "no" THEN t ELSE GetEvent(t, "failed")
               IN support' = LoopEnds(TimeoutStart(f, n))
  BY DEF ApplyEvent
<1>5. PICK n :
         \/ \E s : support' = LoopEnds(TimeoutStart(p, s))
         \/ support' = LoopEnds(IF p.list = << >> THEN p ELSE rest)
         \/ support' = rest
         \/ \E a \in PreparedAs(n) :
               LET t == IF a.locked THEN GetEvent(rest, "tuned") ELSE rest
                   f == IF a.failed = "no" THEN t ELSE GetEvent(t, "failed")
               IN support' = LoopEnds(TimeoutStart(f, n))
  BY <1>4
<1> HIDE DEF p, rest
<1>6. ASSUME NEW a \in PreparedAs(n)
      PROVE  LET t == IF a.locked THEN GetEvent(rest, "tuned") ELSE rest
                 f == IF a.failed = "no" THEN t ELSE GetEvent(t, "failed")
             IN Same(support, f)
  <2> DEFINE t == IF a.locked THEN GetEvent(rest, "tuned") ELSE rest
             f == IF a.failed = "no" THEN t ELSE GetEvent(t, "failed")
  <2>1. Same(support, t)
    BY <1>2, GetEventSame, SameSame DEF Same
  <2> HIDE DEF t
  <2>2. Same(support, f)
    BY <2>1, GetEventSame, SameSame DEF Same
  <2> QED
    BY <2>2 DEF t
<1>7. Same(support, support')
  BY <1>2, <1>3, <1>5, <1>6
<1>8. ~(enabled /\ Suspended(support))
  BY <1>1 DEF Beside
<1> QED
  BY <1>1, <1>7, <1>8, SameBeside
\* A stop of the preparations: nothing is left of them, and the plugin waits.
LEMMA StopBeside ==
    ASSUME Inv, NEW w, w.m = manager, Plugin(w.p)
    PROVE  LET n == ForceStop(w)
           IN /\ Holds(n.m, Decoding(n.m), Decoding(manager))
              /\ Same(w.p, n.p) /\ ~n.p.activating
<1>1. Holds(ForceStop(w).m, Decoding(w.m), Decoding(w.m))
  BY Parts, ForceStopHolds
<1>2. Same(w.p, ForceStop(w).p) /\ ~ForceStop(w).p.activating
  BY ForceStopSame DEF Plugin, Shaped
<1> QED
  BY <1>1, <1>2 DEF Holds

LEMMA ForceStartBeside ==
    ASSUME Inv, Beside, ForceStartTimer
    PROVE  Beside'
<1> DEFINE w == [State EXCEPT !.p.forceStart = FALSE]
<1>1. w = [m |-> manager, p |-> [support EXCEPT !.forceStart = FALSE]]
  BY PairFlags
<1> HIDE DEF w
<1>2. /\ Like(support, w.p) /\ Same(support, w.p) /\ Shaped(w.p)
      /\ w.m = manager /\ Pair(w)
  BY <1>1, Parts, ShapedSupport, MinorFlags, FlagSame DEF Pair, Same
<1>3. manager' = ForceStart(w).m /\ support' = ForceStart(w).p
  BY DEF ForceStartTimer, Becomes, w
<1>4. manager' = manager /\ support'.activating = support.activating
  BY <1>2, <1>3, ForceStartGood DEF Like
<1>5. Same(support, support')
  BY <1>2, <1>3, ForceStartSame, SameSame
<1> QED
  BY <1>4, <1>5, Parts, LessBeside DEF ForceStartTimer, others

LEMMA ResetBeside ==
    ASSUME Inv, Beside, ResetTimer
    PROVE  Beside'
<1> DEFINE w == [State EXCEPT !.p.reset = FALSE]
           n == ForceStop(w)
<1>1. w = [m |-> manager, p |-> [support EXCEPT !.reset = FALSE]]
  BY PairFlags
<1>2. manager' = ForceStart(n).m /\ support' = ForceStart(n).p
  BY DEF ResetTimer, Becomes
<1> HIDE DEF w
<1>3. Like(support, w.p) /\ Same(support, w.p) /\ w.m = manager /\ Plugin(w.p)
  BY <1>1, Parts, ShapedSupport, MinorFlags, FlagSame DEF Like, Good
<1>4. /\ Holds(n.m, Decoding(n.m), Decoding(manager)) /\ ~n.p.activating
      /\ Same(w.p, n.p) /\ Shaped(n.p) /\ Pair(n)
  <2>1. Pair(n)
    BY DEF ForceStop, Pair
  <2> QED
    BY <1>3, <2>1, StopBeside DEF Same
<1>5. Good(n.p)
  BY <1>3, Parts, ForceStopHolds
<1> HIDE DEF n
<1>6. manager' = n.m /\ ~support'.activating
  BY <1>2, <1>4, <1>5, ForceStartGood
<1>7. Same(support, support')
  BY <1>2, <1>3, <1>4, ForceStartSame, SameSame
<1>8. InMap(manager)' = Decoding(manager)'
  BY <1>4, <1>6 DEF Holds, InMap, Decoding, In
<1> QED
  BY <1>6, <1>7, <1>8, SameBeside DEF ResetTimer, others

\* A recording or the second picture begins, where the plugin need not wait.
LEMMA StopAndStartBeside ==
    ASSUME Inv, manager' = ForceStopAndStart(State).m, support' = ForceStopAndStart(State).p
    PROVE  /\ Same(support, support') /\ ~support'.activating
           /\ InMap(manager)' = Decoding(manager)'
<1> DEFINE w == [State EXCEPT !.p.reset = FALSE]
           n == ForceStop(w)
<1>1. w = [m |-> manager, p |-> [support EXCEPT !.reset = FALSE]]
  BY PairFlags
<1> HIDE DEF w
<1>2. Like(support, w.p) /\ Same(support, w.p) /\ w.m = manager /\ Plugin(w.p)
  BY <1>1, Parts, ShapedSupport, MinorFlags, FlagSame DEF Like, Good
<1>3. n = [m |-> n.m, p |-> n.p]
  BY DEF ForceStop
<1>4. ForceStopAndStart(State) = [n EXCEPT !.p.forceStart = TRUE]
  BY DEF ForceStopAndStart, w
<1>5. /\ Holds(n.m, Decoding(n.m), Decoding(manager)) /\ ~n.p.activating
      /\ Same(w.p, n.p) /\ Shaped(n.p)
  BY <1>2, StopBeside DEF Same
<1> HIDE DEF n
<1>6. manager' = n.m /\ support' = [n.p EXCEPT !.forceStart = TRUE]
  BY <1>3, <1>4
<1>7. Same(n.p, support') /\ support'.activating = n.p.activating
  <2>1. \A v : [n.p EXCEPT !["forceStart"] = v].activating = n.p.activating
    BY <1>5 DEF Shaped, Fields
  <2>2. support'.activating = n.p.activating
    BY <1>6, <2>1, Zenon
  <2> QED
    BY <1>5, <1>6, <2>2, FlagSame
<1>8. InMap(manager)' = Decoding(manager)'
  BY <1>5, <1>6 DEF Holds, InMap, Decoding, In
<1> QED
  BY <1>2, <1>5, <1>7, <1>8, SameSame

LEMMA StartPipBeside ==
    ASSUME Inv, Beside, StartPip
    PROVE  Beside'
<1>1. /\ manager' = ForceStopAndStart(State).m /\ support' = ForceStopAndStart(State).p
      /\ UNCHANGED <<enabled, recs>>
  BY DEF StartPip, Becomes
<1> QED
  BY <1>1, StopAndStartBeside, SameBeside

\* The first recording makes the plugin wait, if the setting says so.
LEMMA RecordTuneStartBeside ==
    ASSUME Inv, Beside, RecordTuneStart
    PROVE  Beside'
<1>1. UNCHANGED enabled /\ recs' = recs + 1 /\ recs' \in Nat /\ recs' > 0
  BY DEF RecordTuneStart, Beside
<1>2. CASE ~enabled \/ Suspended(support)
  <2>1. UNCHANGED <<manager, support>>
    BY <1>2 DEF RecordTuneStart, Becomes, State
  <2>2. InMap(manager)' = InMap(manager) /\ Decoding(manager)' = Decoding(manager)
    BY <2>1 DEF InMap, Decoding, In
  <2>3. Suspended(support)' = Suspended(support)
    BY <2>1 DEF Suspended
  <2>4. enabled /\ support.disableforrec => support.recordings
    BY <1>2 DEF Suspended
  <2> QED
    BY <1>1, <2>1, <2>2, <2>3, <2>4 DEF Beside
<1>3. CASE enabled /\ ~Suspended(support) /\ support.disableforrec
  <2> DEFINE w == [State EXCEPT !.p.recordings = TRUE]
             n == ForceStop(w)
  <2>1. w = [m |-> manager, p |-> [support EXCEPT !.recordings = TRUE]]
    BY PairFlags
  <2>2. manager' = n.m /\ support' = n.p
    BY <1>3 DEF RecordTuneStart, Becomes
  <2>3. Plugin(w.p) /\ w.m = manager /\ w.p.recordings = TRUE
        /\ w.p.disableforrec = support.disableforrec
    <3>1. \A v : /\ [support EXCEPT !["recordings"] = v].recordings = v
                 /\ [support EXCEPT !["recordings"] = v].disableforrec = support.disableforrec
      BY ShapedSupport DEF Shaped, Fields
    <3>2. /\ [support EXCEPT !.recordings = TRUE].recordings = TRUE
          /\ [support EXCEPT !.recordings = TRUE].disableforrec = support.disableforrec
      BY <3>1, Zenon
    <3> HIDE DEF w
    <3> QED
      BY <2>1, <3>2, Parts, MinorFlags DEF Like, Good
  <2> HIDE DEF w
  <2>4. /\ Holds(n.m, Decoding(n.m), Decoding(manager))
        /\ Same(w.p, n.p) /\ ~n.p.activating
    BY <2>3, StopBeside
  <2> HIDE DEF n
  <2>5. /\ support'.recordings = TRUE /\ support'.disableforrec = support.disableforrec
        /\ Shaped(support') /\ ~support'.activating
    BY <2>2, <2>3, <2>4 DEF Same
  <2>6. InMap(manager)' = Decoding(manager)'
    BY <2>2, <2>4 DEF Holds, InMap, Decoding, In
  <2> QED
    BY <1>1, <2>5, <2>6 DEF Beside
<1>4. CASE enabled /\ ~Suspended(support) /\ ~support.disableforrec
  <2>1. manager' = ForceStopAndStart(State).m /\ support' = ForceStopAndStart(State).p
    BY <1>4 DEF RecordTuneStart, Becomes
  <2>2. Same(support, support') /\ ~support'.activating /\ InMap(manager)' = Decoding(manager)'
    BY <2>1, StopAndStartBeside
  <2> QED
    BY <1>1, <1>4, <2>2 DEF Beside, Same
<1> QED
  BY <1>2, <1>3, <1>4

\* The last one lets it prepare again, from its timers.
LEMMA RecordEndBeside ==
    ASSUME Inv, Beside, RecordEnd
    PROVE  Beside'
<1>1. UNCHANGED enabled /\ recs > 0 /\ recs' = recs - 1 /\ recs' \in Nat
  BY DEF RecordEnd, Beside
<1>2. ASSUME UNCHANGED manager
      PROVE  InMap(manager)' = InMap(manager) /\ Decoding(manager)' = Decoding(manager)
  BY <1>2 DEF InMap, Decoding, In
<1>3. CASE ~enabled
  <2>1. UNCHANGED <<manager, support>>
    BY <1>3 DEF RecordEnd, Becomes, State
  <2> QED
    BY <1>1, <1>3, <2>1 DEF Beside
<1>4. CASE enabled /\ ~support.disableforrec
  <2> DEFINE a == [support EXCEPT !.forceStart = FALSE]
             b == [a EXCEPT !.reset = TRUE]
  <2>1. support' = b
    BY <1>4 DEF RecordEnd, Becomes, State
  <2>2. Same(support, a)
    BY ShapedSupport, FlagSame
  <2> HIDE DEF a
  <2>3. Same(a, b)
    BY <2>2, FlagSame DEF Same
  <2>4. Same(support, support')
    BY <2>1, <2>2, <2>3, SameSame
  <2> QED
    BY <1>1, <1>4, <2>4 DEF Beside, Same, Suspended
<1>5. ASSUME NEW v \in BOOLEAN, enabled, support.disableforrec, v <=> recs' > 0,
             UNCHANGED manager,
             \/ support' = [support EXCEPT !.recordings = v]
             \/ /\ ~v
                /\ support' = ForceStart([m |-> manager, p |-> [support EXCEPT !.recordings = v]]).p
      PROVE  Beside'
  <2> DEFINE p == [support EXCEPT !["recordings"] = v]
             w == [m |-> manager, p |-> p]
  <2>1. Shaped(p) /\ p.recordings = v /\ p.disableforrec = support.disableforrec
        /\ p.activating = support.activating
    BY ShapedSupport DEF Shaped, Fields
  <2>2. support' = p \/ (~v /\ support' = ForceStart(w).p)
    BY <1>5
  <2> HIDE DEF p
  <2>3. Pair(w) /\ w.p = p
    BY DEF Pair
  <2> HIDE DEF w
  <2>4. /\ support'.recordings = v /\ support'.disableforrec = support.disableforrec
        /\ (v => support'.activating = support.activating)
    BY <2>1, <2>2, <2>3, ForceStartSame DEF Same
  <2>5. ~support.activating /\ InMap(manager) = Decoding(manager)
    BY <1>1, <1>5 DEF Beside, Suspended
  <2> QED
    BY <1>1, <1>2, <1>5, <2>4, <2>5 DEF Beside, Suspended
<1>6. CASE enabled /\ support.disableforrec /\ recs' > 0
  <2>1. manager' = manager /\ support' = [support EXCEPT !.recordings = TRUE]
    BY <1>6, PairFlags DEF RecordEnd, Becomes
  <2>2. TRUE \in BOOLEAN /\ (TRUE <=> recs' > 0)
    BY <1>6
  <2> QED
    BY <1>5, <1>6, <2>1, <2>2, Zenon
<1>7. CASE enabled /\ support.disableforrec /\ ~(recs' > 0)
  <2>1. /\ support' = ForceStart([m |-> manager, p |-> [support EXCEPT !.recordings = FALSE]]).p
        /\ manager' = ForceStart([m |-> manager, p |-> [support EXCEPT !.recordings = FALSE]]).m
    BY <1>7, PairFlags DEF RecordEnd, Becomes
  <2>2. manager' = manager
    BY <2>1 DEF ForceStart
  <2>3. FALSE \in BOOLEAN /\ (FALSE <=> recs' > 0)
    BY <1>7
  <2> QED
    BY <1>5, <1>7, <2>1, <2>2, <2>3, Zenon
<1> QED
  BY <1>3, <1>4, <1>6, <1>7 DEF Beside
\* What is watched next is all that is in the map.
LEMMA FreshBeside ==
    ASSUME NEW w, Manager(w.m), InMap(w.m) = {}, Good(w.p), ~w.p.activating,
           NEW n \in Names, PlayFresh(w, n)
    PROVE  /\ InMap(manager)' = Decoding(manager)' /\ ~support'.activating
           /\ Same(w.p, support')
<1>1. Shaped(w.p)
  BY DEF Good, Plugin, Shaped
<1>2. CASE enabled' /\ Playable(Ref[n])
  <2>1. PICK o : /\ manager' = PutWatched(w.m, Ref[n], n, o)
                 /\ support' = Announced(w.p, o)
    BY <1>2 DEF PlayFresh
  <2>2. Holds(manager', {Ref[n]}, {Ref[n]})
    BY <2>1, SupportAssumption, PutWatchedHolds
  <2>3. Like(w.p, support') /\ Same(w.p, support')
    BY <1>1, <2>1, AnnouncedLike, AnnouncedSame
  <2> QED
    BY <2>2, <2>3 DEF Holds, Like, InMap, Decoding, In
<1>3. CASE ~(enabled' /\ Playable(Ref[n]))
  <2>1. manager' = w.m /\ support' = OnStart(w.p)
    BY <1>3 DEF PlayFresh
  <2>2. Like(w.p, support') /\ Same(w.p, support')
    BY <1>1, <2>1, OnTuneLike, AnnouncedSame
  <2>3. InMap(manager)' = {} /\ Decoding(manager)' = {}
    BY <2>1 DEF InMap, Decoding, In
  <2> QED
    BY <2>2, <2>3 DEF Like
<1> QED
  BY <1>2, <1>3

LEMMA StopRunningSame ==
    ASSUME NEW m, NEW p, Shaped(p)
    PROVE  Same(p, StopRunning(m, p).p)
BY EndSame, SameItself DEF StopRunning

\* A zap while the plugin waits finds one service in the map, and not the one
\* it is for.
LEMMA ZapBeside ==
    ASSUME Inv, Beside, NEW n \in Names, Zap(n)
    PROVE  Beside'
<1> DEFINE D == In(manager, "decoding")
           d == CHOOSE x \in D : TRUE
           w == IF D = {} THEN [m |-> manager, p |-> support]
                ELSE LeaveDecoding(manager, support, d)
           v == IF enabled /\ D # {} THEN [w EXCEPT !.m = Cleanup(@)]
                ELSE StopRunning(manager, support)
<1>1. /\ UNCHANGED <<enabled, recs>> /\ ~Watching(Ref[n]) /\ PlayService(n)
      /\ Manager(manager) /\ Good(support) /\ Shaped(support)
      /\ Fits(manager, running, enabled, support)
  BY ShapedSupport DEF Zap, Inv, Fits
<1>2. D = {} => InMap(manager) = {} /\ ~support.activating
  BY DEF Inv, Fits, Decoding
<1>3. /\ Manager(w.m) /\ Good(w.p) /\ ~w.p.activating /\ Pair(w)
      /\ Same(support, w.p)
      /\ D # {} => InMap(w.m) \subseteq InMap(manager)
  <2>1. CASE D = {}
    <3>1. w = [m |-> manager, p |-> support]
      BY <2>1
    <3> HIDE DEF w
    <3> QED
      BY <1>1, <1>2, <2>1, <3>1, SameItself DEF Pair
  <2>2. CASE D # {}
    <3> DEFINE e == End(manager, support)
               el == manager.services[d]
               o == IF el.failed # "no" /\ ~el.normal THEN GetEvent(e.p, "failed")
                    ELSE e.p
    <3>1. d \in Decoding(manager) /\ Decoding(manager) = {d}
      BY <1>1, <2>2 DEF Fits, Decoding, In
    <3>2. w = [m |-> Leave(e.m, d), p |-> o]
      BY <2>2 DEF LeaveDecoding
    <3>3. /\ \E S \in SUBSET InMap(manager) : Holds(e.m, S, Decoding(manager))
          /\ Good(e.p) /\ ~e.p.activating /\ Same(support, e.p)
      BY <1>1, EndQuiet, EndSame
    <3> HIDE DEF e
    <3>4. Like(e.p, o) /\ Same(e.p, o)
      BY <3>3, GetEventLike, GoodLike, GetEventSame, SameItself DEF Same
    <3>5. Same(support, o) /\ Good(o) /\ ~o.activating
      BY <3>3, <3>4, SameSame DEF Like
    <3> HIDE DEF o, d, w
    <3>6. \E S \in SUBSET InMap(e.m) : Holds(Leave(e.m, d), S, Decoding(e.m) \ {d})
      BY <3>1, <3>3, LeaveHolds DEF Holds
    <3>7. Manager(Leave(e.m, d)) /\ InMap(Leave(e.m, d)) \subseteq InMap(manager)
      BY <3>3, <3>6 DEF Holds
    <3> QED
      BY <3>2, <3>5, <3>7 DEF Pair
  <2> QED
    BY <2>1, <2>2
<1>4. CASE enabled /\ Ref[n] \in InMap(w.m)
  <2>1. support' = Announced(w.p, w.m.services[Ref[n]])
    BY <1>1, <1>4 DEF PlayService
  <2>2. Ref[n] \in InMap(manager) /\ D # {}
    <3>1. CASE D = {}
      <4>1. w.m = manager
        BY <3>1
      <4> HIDE DEF w
      <4> QED
        BY <1>2, <1>4, <3>1, <4>1
    <3>2. CASE D # {}
      BY <1>3, <1>4, <3>2
    <3> QED
      BY <3>1, <3>2
  <2> HIDE DEF w
  <2>3. InMap(manager) # Decoding(manager)
    BY <1>1, <2>2 DEF Fits, Watching
  <2>4. ~(enabled /\ Suspended(support))
    BY <2>3 DEF Beside
  <2>5. Same(support, support')
    BY <1>3, <2>1, AnnouncedSame, SameSame DEF Same
  <2> QED
    BY <1>1, <2>4, <2>5, SameBeside
<1>5. CASE ~(enabled /\ Ref[n] \in InMap(w.m))
  <2>1. PlayFresh(v, n)
    BY <1>1, <1>5 DEF PlayService
  <2>2. /\ Manager(v.m) /\ InMap(v.m) = {} /\ Good(v.p) /\ ~v.p.activating
        /\ Same(support, v.p)
    <3>1. CASE enabled /\ D # {}
      <4>1. v = [w EXCEPT !.m = Cleanup(w.m)]
        BY <3>1
      <4> HIDE DEF w, v, D
      <4>2. v = [m |-> Cleanup(w.m), p |-> w.p]
        BY <1>3, <4>1, PairSet
      <4> QED
        BY <1>3, <4>2, CleanupHolds DEF Holds
    <3>2. CASE ~(enabled /\ D # {})
      <4>1. v = StopRunning(manager, support)
        BY <3>2
      <4> HIDE DEF v
      <4> QED
        BY <1>1, <4>1, StopRunningHolds, StopRunningSame DEF Holds
    <3> QED
      BY <3>1, <3>2
  <2> HIDE DEF v
  <2>3. /\ InMap(manager)' = Decoding(manager)' /\ ~support'.activating
        /\ Same(v.p, support')
    BY <2>1, <2>2, FreshBeside
  <2> QED
    BY <1>1, <2>2, <2>3, SameSame, SameBeside
<1> QED
  BY <1>4, <1>5

LEMMA StopServiceBeside ==
    ASSUME Inv, Beside, StopService
    PROVE  Beside'
<1> DEFINE w == StopRunning(manager, support)
<1>1. manager' = w.m /\ support' = w.p /\ UNCHANGED <<enabled, recs>>
  BY DEF StopService
<1>2. Holds(w.m, {}, {}) /\ ~w.p.activating
  BY StopRunningHolds DEF Inv
<1>3. Same(support, w.p)
  BY ShapedSupport, StopRunningSame
<1> HIDE DEF w
<1>4. InMap(manager)' = Decoding(manager)'
  BY <1>1, <1>2 DEF Holds, InMap, Decoding, In
<1> QED
  BY <1>1, <1>2, <1>3, <1>4, SameBeside

\* The setting is changed: the plugin looks at the recordings anew.
LEMMA SetupBeside ==
    ASSUME Inv, Beside, NEW on \in BOOLEAN, NEW disable \in BOOLEAN, SetupChanged(on, disable)
    PROVE  Beside'
<1> DEFINE r == recs > 0
           a == [support EXCEPT !["recordings"] = r]
           known == [a EXCEPT !["disableforrec"] = disable]
           t == on /\ ~Suspended(known)
           p == [known EXCEPT !["tracker"] = t]
           w == IF p.tracker THEN [State EXCEPT !.p = p]
                ELSE [m |-> StopFailed(manager), p |-> Disabled(p)]
<1>1. /\ enabled' = on /\ UNCHANGED recs
      /\ IF running = None THEN Becomes(w) /\ UNCHANGED running
         ELSE PlayFresh(StopRunning(w.m, w.p), running)
  BY DEF SetupChanged
<1>2. /\ r \in BOOLEAN /\ t \in BOOLEAN /\ known.recordings = r /\ known.disableforrec = disable
      /\ known.activating = support.activating /\ Shaped(known) /\ Plugin(known)
  <2>1. Shaped(support) /\ Plugin(support)
    BY ShapedSupport, Parts
  <2>2. /\ Shaped(a) /\ a.recordings = r /\ a.disableforrec = support.disableforrec
        /\ a.activating = support.activating /\ Plugin(a)
    <3>1. r \in BOOLEAN
      OBVIOUS
    <3> HIDE DEF r
    <3>2. Plugin(a) /\ a["recordings"] = r /\ \A x \in Fields \ {"recordings"} : a[x] = support[x]
      BY <2>1, FieldPlugin DEF Fields
    <3> HIDE DEF a
    <3> QED
      BY <3>2 DEF Shaped, Plugin, Fields
  <2> HIDE DEF a
  <2>3. Plugin(known) /\ known["disableforrec"] = disable
        /\ \A x \in Fields \ {"disableforrec"} : known[x] = a[x]
    BY <2>2, FieldPlugin DEF Fields
  <2> HIDE DEF known
  <2>4. /\ Shaped(known) /\ known.recordings = a.recordings /\ known.disableforrec = disable
        /\ known.activating = a.activating
    BY <2>3 DEF Shaped, Plugin, Fields
  <2> QED
    BY <2>2, <2>3, <2>4
<1>3. Suspended(known) <=> (disable /\ r)
  <2> HIDE DEF known
  <2> QED  BY <1>2 DEF Suspended
<1> HIDE DEF r, known
<1>4. /\ Plugin(p) /\ p.tracker = t /\ p.activating = support.activating
      /\ p.recordings = r /\ p.disableforrec = disable /\ Shaped(p)
  <2> HIDE DEF t
  <2>1. Plugin(p) /\ p["tracker"] = t /\ \A x \in Fields \ {"tracker"} : p[x] = known[x]
    BY <1>2, FieldPlugin DEF Fields
  <2> HIDE DEF p
  <2> QED
    BY <1>2, <2>1 DEF Shaped, Plugin, Fields
<1> HIDE DEF p
<1>5. /\ \E S \in SUBSET InMap(manager) : Holds(w.m, S, Decoding(manager))
      /\ Same(p, w.p) /\ Good(w.p) /\ Manager(w.m)
      /\ w.p.activating => support.activating
      /\ (on /\ disable /\ r) => ~w.p.activating
  <2>1. CASE t
    <3>1. w.m = manager /\ w.p = p
      BY <1>4, <2>1 DEF State
    <3>2. Good(p)
      BY <1>4, <2>1 DEF Good
    <3> HIDE DEF w
    <3> QED
      BY <1>3, <1>4, <2>1, <3>1, <3>2, Parts, SameItself
  <2>2. CASE ~t
    <3>1. w.m = StopFailed(manager) /\ w.p = Disabled(p)
      BY <1>4, <2>2
    <3>2. Holds(StopFailed(manager), InMap(manager) \ In(manager, "failed"), Decoding(manager))
      BY Parts, StopFailedHolds
    <3>3. Good(Disabled(p)) /\ ~Disabled(p).activating /\ Same(p, Disabled(p))
      BY <1>4, DisabledGood, DisabledSame
    <3> HIDE DEF w
    <3> QED
      BY <3>1, <3>2, <3>3 DEF Holds
  <2> QED
    BY <2>1, <2>2
<1> HIDE DEF w, t
<1>6. /\ Same(p, support')
      /\ (on /\ disable /\ r) => InMap(manager)' = Decoding(manager)' /\ ~support'.activating
  <2>1. CASE running = None
    <3>1. manager' = w.m /\ support' = w.p
      BY <1>1, <2>1 DEF Becomes
    <3>2. InMap(manager) = {}
      BY <2>1 DEF Inv, Fits
    <3>3. InMap(w.m) = {} /\ Decoding(w.m) = {}
      BY <1>5, <3>2, DecodingSubset DEF Holds
    <3>4. InMap(manager)' = {} /\ Decoding(manager)' = {}
      BY <3>1, <3>3 DEF InMap, Decoding, In
    <3> QED
      BY <1>5, <3>1, <3>4
  <2>2. CASE running # None
    <3> DEFINE v == StopRunning(w.m, w.p)
    <3>1. v.m = Cleanup(w.m) /\ v.p = End(w.m, w.p).p
      BY <2>2 DEF StopRunning
    <3>2. Holds(v.m, {}, {}) /\ Good(v.p) /\ ~v.p.activating
      BY <1>5, <3>1, CleanupHolds, EndQuiet
    <3>3. Same(w.p, v.p)
      BY <1>5, StopRunningSame DEF Same
    <3>4. PlayFresh(v, running) /\ running \in Names
      BY <1>1, <2>2 DEF Inv, Fits
    <3> HIDE DEF v
    <3>5. /\ InMap(manager)' = Decoding(manager)' /\ ~support'.activating
          /\ Same(v.p, support')
      BY <3>2, <3>4, FreshBeside DEF Holds
    <3> QED
      BY <1>5, <3>3, <3>5, SameSame
  <2> QED
    BY <2>1, <2>2
<1>7. support'.recordings = r /\ support'.disableforrec = disable
  BY <1>4, <1>6 DEF Same
<1>8. r <=> recs > 0
  BY DEF r
<1> QED
  BY <1>1, <1>2, <1>6, <1>7, <1>8 DEF Beside, Suspended

LEMMA InitBeside == Init => Beside
<1> SUFFICES ASSUME Init PROVE Beside
  OBVIOUS
<1>1. PICK d \in BOOLEAN : support = [Quiet EXCEPT !.disableforrec = d]
  BY DEF Init
<1>2. /\ support.recordings = FALSE /\ support.disableforrec = d
  BY <1>1 DEF Quiet
<1>3. ~support.recordings /\ support.recordings \in BOOLEAN /\ ~Suspended(support)
  BY <1>2 DEF Suspended
<1>4. recs \in Nat /\ ~(recs > 0)
  BY DEF Init
<1> QED
  BY <1>2, <1>3, <1>4, Zenon DEF Beside

LEMMA NextBeside == Inv /\ Beside /\ [Next]_vars => Beside'
<1> SUFFICES ASSUME Inv, Beside, [Next]_vars PROVE Beside'
  OBVIOUS
<1>1. ASSUME NEW n \in Names, Zap(n) PROVE Beside'
  BY <1>1, ZapBeside
<1>2. CASE StopService
  BY <1>2, StopServiceBeside
<1>3. ASSUME NEW s \in Services, TunedIn(s) \/ TuneFailed(s) \/ FccFailed(s) PROVE Beside'
  BY <1>3, TunedInBeside, FailedBeside
<1>4. CASE Timers
  BY <1>4, CreateListBeside, GetSrefBeside, FccEventBeside, ApplyEventBeside DEF Timers
<1>5. CASE LongTimers
  BY <1>5, FCCTimeoutBeside, ForceStartBeside, ResetBeside DEF LongTimers
<1>6. CASE RecordTuneStart \/ RecordEnd \/ StartPip
  BY <1>6, RecordTuneStartBeside, RecordEndBeside, StartPipBeside
<1>7. ASSUME NEW on \in BOOLEAN, NEW disable \in BOOLEAN, SetupChanged(on, disable) PROVE Beside'
  BY <1>7, SetupBeside
<1>8. CASE UNCHANGED vars
  BY <1>8 DEF vars, Beside, Suspended, InMap, Decoding, In
<1> QED
  BY <1>1, <1>2, <1>3, <1>4, <1>5, <1>6, <1>7, <1>8 DEF Next

\* While a recording runs that stops the preparations, no tuner is kept for
\* them: whichever of the plugin's timers, events and failures were on their way
\* when it began, and whatever is zapped, tuned or set meanwhile.
THEOREM NothingIsKeptFromARecording == Spec => []NothingBesideRecording
<1>1. Init => Inv /\ Beside
  BY InitInv, InitBeside
<1>2. (Inv /\ Beside) /\ [Next]_vars => (Inv /\ Beside)'
  BY NextInv, NextBeside
<1>3. Inv /\ Beside => NothingBesideRecording
  BY DEF Beside, Suspended, NothingBesideRecording, Decoding
<1> QED
  BY <1>1, <1>2, <1>3, PTL DEF Spec

-----------------------------------------------------------------------------
(***************************************************************************)
(* The lists of the plugin.  A service can be prepared if the decoder can  *)
(* do it; only such ones come on a list.                                   *)
(***************************************************************************)
LEMMA Least ==
    ASSUME NEW S, S \subseteq Nat, S # {}
    PROVE  Min(S) \in S /\ \A x \in S : Min(S) <= x
<1>1. PICK m \in S : \A y \in S : ~ (<<y, m>> \in OpToRel(<, Nat))
  BY WFMin, NatLessThanWellFounded, Zenon
<1>2. \A y \in S : ~ (y < m)
  BY <1>1 DEF OpToRel
<1>3. \A y \in S : m <= y
  BY <1>2
<1> QED
  BY <1>3 DEF Min

LEMMA Positions ==
    ASSUME NEW n \in Nat, NEW P \in SUBSET (1..n)
    PROVE  IsFiniteSet(P) /\ Cardinality(P) \in Nat /\ Cardinality(P) <= n
<1> DEFINE N == 1..n
<1>1. IsFiniteSet(N) /\ Cardinality(N) = n
  <2>1. 1 \in Int /\ n \in Int /\ (1 > n => n = 0) /\ n - 1 + 1 = n
    OBVIOUS
  <2> QED
    BY <2>1, FS_Interval
<1>2. P \in SUBSET N
  OBVIOUS
<1> HIDE DEF N
<1> QED
  BY <1>1, <1>2, FS_Subset, FS_CardinalityType

\* A set of positions has one of each rank.
LEMMA Ranked ==
    ASSUME NEW n \in Nat, NEW P \in SUBSET (1..n), NEW k \in 1..Cardinality(P)
    PROVE  \E i \in P : Cardinality({j \in P : j <= i}) = k
<1> DEFINE c == Cardinality(P)
           up(i) == {j \in P : j <= i}
           f == [i \in P |-> Cardinality(up(i))]
<1>1. IsFiniteSet(P) /\ c \in Nat
  BY Positions
<1>2. \A i \in P : up(i) \in SUBSET P /\ i \in up(i)
  OBVIOUS
<1>3. ASSUME NEW i \in P
      PROVE  IsFiniteSet(up(i)) /\ Cardinality(up(i)) \in 1..c
  <2>1. IsFiniteSet(up(i)) /\ Cardinality(up(i)) <= c /\ Cardinality(up(i)) \in Nat
    BY <1>1, <1>2, FS_Subset, FS_CardinalityType
  <2>2. Cardinality(up(i)) # 0
    <3>1. up(i) # {}
      BY <1>2
    <3> HIDE DEF up
    <3> QED
      BY <2>1, <3>1, FS_EmptySet
  <2> HIDE DEF up, c
  <2> QED
    BY <1>1, <2>1, <2>2
<1>4. f \in [P -> 1..c]
  BY <1>3
<1>5. ASSUME NEW a \in P, NEW b \in P, a < b
      PROVE  f[a] # f[b]
  <2>1. up(a) \in SUBSET up(b) /\ b \notin up(a) /\ b \in up(b)
    <3>1. a \in Int /\ b \in Int /\ \A j \in P : j \in Int
      OBVIOUS
    <3>2. \A j \in P : j <= a => j <= b
      BY <1>5, <3>1
    <3>3. ~(b <= a) /\ b <= b
      BY <1>5, <3>1
    <3> QED
      BY <3>2, <3>3, Zenon
  <2>2. Cardinality(up(a)) # Cardinality(up(b))
    <3> HIDE DEF up
    <3> QED
      BY <1>3, <2>1, FS_Subset
  <2> QED
    BY <2>2
<1>6. \A a, b \in P : f[a] = f[b] => a = b
  <2> SUFFICES ASSUME NEW a \in P, NEW b \in P, a # b PROVE f[a] # f[b]
    OBVIOUS
  <2>1. a < b \/ b < a
    OBVIOUS
  <2> HIDE DEF f
  <2> QED
    BY <1>5, <2>1
<1>7. f \in Injection(P, 1..c)
  <2> HIDE DEF f
  <2> QED  BY <1>4, <1>6, Fun_IsInj
<1>8. IsFiniteSet(1..c) /\ Cardinality(1..c) = c
  BY <1>1, FS_Interval
<1>9. f \in Surjection(P, 1..c)
  <2> HIDE DEF f
  <2> QED  BY <1>7, <1>8, FS_Injection
<1>10. \E i \in P : f[i] = k
  <2> DEFINE T == 1..c
  <2>1. k \in T /\ f \in Surjection(P, T)
    BY <1>9
  <2> HIDE DEF f, T
  <2>2. \A t \in T : \E i \in P : f[i] = t
    BY <2>1, Zenon DEF Surjection
  <2> QED  BY <2>1, <2>2
<1> QED
  BY <1>10

\* What AtPositions takes from a sequence.
LEMMA AtPositionsType ==
    ASSUME NEW S, NEW q \in Seq(S), NEW P \in SUBSET (1..Len(q))
    PROVE  /\ IsFiniteSet(P) /\ Cardinality(P) \in Nat
           /\ AtPositions(q, P) \in Seq(S)
           /\ Len(AtPositions(q, P)) = Cardinality(P)
           /\ \A k \in 1..Cardinality(P) : \E i \in P : AtPositions(q, P)[k] = q[i]
<1> DEFINE c == Cardinality(P)
           at(k) == CHOOSE i \in P : Cardinality({j \in P : j <= i}) = k
           a == AtPositions(q, P)
<1>1. Len(q) \in Nat
  OBVIOUS
<1>2. IsFiniteSet(P) /\ c \in Nat
  BY <1>1, Positions
<1>3. a = [k \in 1..c |-> q[at(k)]]
  BY DEF AtPositions
<1>4. \A k \in 1..c : at(k) \in P
  BY <1>1, Ranked
<1> HIDE DEF at, a, c
<1>5. a \in [1..c -> S]
  BY <1>3, <1>4, ElementOfSeq
<1>6. a \in Seq(S) /\ Len(a) = c
  BY <1>2, <1>5
<1>7. \A k \in 1..c : a[k] = q[at(k)]
  BY <1>3
<1> QED
  BY <1>2, <1>4, <1>6, <1>7 DEF a, c

LEMMA FirstsType ==
    ASSUME NEW S, NEW q \in Seq(S)
    PROVE  /\ Firsts(q) \in SUBSET (1..Len(q))
           /\ \A x \in ToSet(q) : \E i \in Firsts(q) : q[i] = x
<1>1. ASSUME NEW x \in ToSet(q)
      PROVE  \E i \in Firsts(q) : q[i] = x
  <2> DEFINE T == {i \in 1..Len(q) : q[i] = x}
  <2>1. T # {} /\ T \subseteq Nat
    BY DEF ToSet
  <2>2. Min(T) \in T /\ \A y \in T : Min(T) <= y
    <3> HIDE DEF T
    <3> QED  BY <2>1, Least
  <2>3. \A j \in 1..(Min(T) - 1) : q[j] # x
    <3> SUFFICES ASSUME NEW j \in 1..(Min(T) - 1), q[j] = x PROVE FALSE
      OBVIOUS
    <3>1. Min(T) \in 1..Len(q)
      BY <2>2
    <3> DEFINE u == Min(T)
    <3> HIDE DEF u
    <3>2. j \in 1..Len(q) /\ j < u
      BY <3>1 DEF u
    <3>3. u <= j
      BY <2>2, <3>2 DEF u
    <3> QED
      BY <3>1, <3>2, <3>3 DEF u
  <2> QED
    BY <2>2, <2>3 DEF Firsts
<1> QED
  BY <1>1 DEF Firsts

\* The names of services that can be prepared.
Preparable == {n \in Names : Playable(Ref[n])}

\* A list the plugin may work off: it leaves a decoder for what is watched.
Listing(l) == l \in Seq(Preparable) /\ Len(l) <= MaxFCC - 1

LEMMA EmptyListing == Listing(<< >>)
BY SupportAssumption DEF Listing

LEMMA ListedType == Listed \in Seq(Preparable) /\ Len(Listed) \in Nat
<1> DEFINE P == {i \in 1..Len(Bouquet) : Playable(Ref[Bouquet[i]])}
           a == AtPositions(Bouquet, P)
<1>1. Bouquet \in Seq(Names) /\ P \in SUBSET (1..Len(Bouquet))
  BY SupportAssumption
<1>2. \A i \in P : Bouquet[i] \in Preparable
  BY <1>1, ElementOfSeq DEF Preparable
<1> HIDE DEF P
<1>3. /\ Cardinality(P) \in Nat /\ a \in Seq(Names) /\ Len(a) = Cardinality(P)
      /\ \A k \in 1..Cardinality(P) : \E i \in P : a[k] = Bouquet[i]
  <2>1. a = AtPositions(Bouquet, P)
    OBVIOUS
  <2> HIDE DEF a
  <2> QED
    BY <1>1, <2>1, AtPositionsType, Zenon
<1> HIDE DEF a
<1>4. \A k \in 1..Len(a) : a[k] \in Preparable
  BY <1>2, <1>3
<1>5. a \in Seq(Preparable) /\ Len(a) \in Nat
  <2>1. a \in [1..Len(a) -> Names] /\ Len(a) \in Nat
    BY <1>3, LenProperties
  <2>2. a \in [1..Len(a) -> Preparable]
    BY <1>4, <2>1
  <2> QED
    BY <2>1, <2>2, SeqDef
<1> QED
  BY <1>5 DEF Listed, a, P

LEMMA ZapUpDownListing ==
    ASSUME NEW c
    PROVE  Listing(ZapUpDown(c))
<1> DEFINE n == Len(Listed)
           I == {j \in 1..Len(Listed) : Listed[j] = c}
           i == (IF I # {} THEN Min(I) ELSE 0) - 1
           step(x) == IF x % 2 = 0 THEN x \div 2 + 1 ELSE -(x \div 2 + 1)
           count == IF n < MaxFCC THEN n - 1 ELSE MaxFCC - 1
           z == [x \in 1..count |-> Listed[((i + step(x - 1)) % n) + 1]]
<1>1. ZapUpDown(c) = IF i < 0 THEN << >> ELSE z
  BY DEF ZapUpDown, SelectInSeq
<1>2. CASE i < 0
  BY <1>1, <1>2, EmptyListing
<1>3. CASE ~(i < 0)
  <2>1. n \in Nat
    BY ListedType
  <2>2. I # {}
    <3>1. I = {} => i = 0 - 1
      OBVIOUS
    <3> HIDE DEF I, i
    <3> QED
      BY <1>3, <3>1
  <2>3. Min(I) \in I /\ I \subseteq 1..n
    <3>1. I \subseteq Nat /\ I \subseteq 1..n
      BY <2>1
    <3> HIDE DEF I
    <3> QED
      BY <2>2, <3>1, Least
  <2>4. i \in Int /\ n > 0
    <3>1. i = Min(I) - 1
      BY <2>2
    <3> DEFINE u == Min(I)
    <3>2. u \in 1..n
      BY <2>3
    <3> HIDE DEF I, i, n, u
    <3>3. u \in Nat /\ u <= n /\ 1 <= u
      BY <2>1, <3>2
    <3>4. i = u - 1
      BY <3>1 DEF u
    <3> QED
      BY <2>1, <3>3, <3>4
  <2>5. count \in Nat /\ count <= MaxFCC - 1
    <3> HIDE DEF n
    <3> QED
      BY <2>1, <2>4, SupportAssumption
  <2>6. ASSUME NEW x \in 1..count
        PROVE  Listed[((i + step(x - 1)) % n) + 1] \in Preparable
    <3>1. step(x - 1) \in Int
      <4> HIDE DEF count
      <4> DEFINE v == x - 1
      <4>1. v \in Int
        BY <2>5
      <4> HIDE DEF v
      <4>2. v \div 2 \in Int
        BY <4>1
      <4>3. v \div 2 + 1 \in Int /\ -(v \div 2 + 1) \in Int
        BY <4>2
      <4>4. step(v) \in Int
        BY <4>3, Zenon
      <4> QED
        BY <4>4 DEF v
    <3> DEFINE y == i + step(x - 1)
    <3>2. y \in Int
      <4> HIDE DEF i, step
      <4> QED
        BY <2>4, <3>1
    <3> HIDE DEF y, n
    <3>3. y % n \in 0..(n - 1)
      BY <2>1, <2>4, <3>2
    <3>4. (y % n) + 1 \in 1..n
      BY <2>1, <3>3
    <3> QED
      BY <3>4, ListedType, ElementOfSeq DEF y, n
  <2> HIDE DEF count, n, i, step
  <2>7. z \in [1..count -> Preparable]
    BY <2>6
  <2>8. z \in Seq(Preparable) /\ Len(z) = count
    BY <2>5, <2>7
  <2> HIDE DEF z
  <2> QED
    BY <1>1, <1>3, <2>5, <2>8 DEF Listing
<1> QED
  BY <1>2, <1>3

LEMMA HistoryListing ==
    ASSUME previous \in Names \cup {None}
    PROVE  HistoryPrev \in Seq(Preparable)
<1>1. CASE previous # None /\ Playable(Ref[previous])
  <2>1. previous \in Preparable
    BY <1>1 DEF Preparable
  <2>2. HistoryPrev = <<previous>>
    BY <1>1 DEF HistoryPrev
  <2> QED
    BY <2>1, <2>2
<1>2. CASE ~(previous # None /\ Playable(Ref[previous]))
  <2>1. HistoryPrev = << >>
    BY <1>2 DEF HistoryPrev
  <2> QED
    BY <2>1
<1> QED
  BY <1>1, <1>2

LEMMA AddFCCListing ==
    ASSUME NEW list \in Seq(Preparable), NEW new \in Seq(Preparable)
    PROVE  Listing(AddFCCList(list, new))
<1> DEFINE added == {i \in Firsts(new) : new[i] \notin ToSet(list)}
           at == AtPositions(new, added)
           all == list \o at
           k == IF Len(all) < MaxFCC - 1 THEN Len(all) ELSE MaxFCC - 1
<1>1. added \in SUBSET (1..Len(new))
  BY FirstsType
<1> HIDE DEF added
<1>2. at \in Seq(Preparable)
  BY <1>1, AtPositionsType
<1> HIDE DEF at
<1>3. all \in Seq(Preparable) /\ Len(all) \in Nat
  BY <1>2
<1> HIDE DEF all
<1>4. k \in Nat /\ k <= Len(all) /\ k <= MaxFCC - 1
  BY <1>3, SupportAssumption
<1> HIDE DEF k
<1>5. \A i \in 1..k : all[i] \in Preparable
  BY <1>3, <1>4, ElementOfSeq
<1>6. SubSeq(all, 1, k) \in Seq(Preparable) /\ Len(SubSeq(all, 1, k)) = k
  <2>1. 1 \in Int /\ k \in Int /\ (IF 1 <= k THEN k - 1 + 1 ELSE 0) = k
    BY <1>4
  <2> QED
    BY <1>5, <2>1, SubSeqProperties
<1>7. AddFCCList(list, new) = SubSeq(all, 1, k)
  BY DEF AddFCCList, all, k, at, added
<1> QED
  BY <1>4, <1>6, <1>7 DEF Listing

LEMMA WantedListing ==
    ASSUME previous \in Names \cup {None}, NEW c
    PROVE  Listing(Wanted(c))
<1> DEFINE near == ZapUpDown(c)
           k == IF Len(near) > 2 THEN 2 ELSE Len(near)
           first == SubSeq(near, 1, k)
           prev == IF History THEN HistoryPrev ELSE << >>
           l == AddFCCList(first, prev)
<1>1. near \in Seq(Preparable)
  BY ZapUpDownListing DEF Listing
<1> HIDE DEF near
<1>2. k \in Nat /\ k <= Len(near)
  BY <1>1
<1> HIDE DEF k
<1>3. \A i \in 1..k : near[i] \in Preparable
  BY <1>1, <1>2, ElementOfSeq
<1>4. first \in Seq(Preparable)
  <2>1. 1 \in Int /\ k \in Int
    BY <1>2
  <2> QED
    BY <1>3, <2>1, SubSeqProperties
<1>5. prev \in Seq(Preparable)
  BY HistoryListing
<1> HIDE DEF first, prev
<1>6. l \in Seq(Preparable)
  BY <1>4, <1>5, AddFCCListing DEF Listing
<1> HIDE DEF l
<1>7. Listing(AddFCCList(l, near))
  BY <1>1, <1>6, AddFCCListing
<1> QED
  BY <1>7 DEF Wanted, l, first, prev, k, near

-----------------------------------------------------------------------------
(***************************************************************************)
(* The names in the map: a service is known by a name that stands for it,  *)
(* and is prepared, decodes or has failed.                                 *)
(***************************************************************************)
Called(s, e) ==
    /\ Playable(s) /\ e.name \in Names /\ Ref[e.name] = s
    /\ e.state \in {"preparing", "decoding", "failed"}

Named(m) == \A s \in InMap(m) : Called(s, m.services[s])

LEMMA PutFields ==
    ASSUME NEW m, Shape(m), NEW s, NEW e
    PROVE  /\ InMap(Put(m, s, e)) = InMap(m) \cup {s}
           /\ \A x \in InMap(m) \cup {s} :
                 Put(m, s, e).services[x] = IF x = s THEN e ELSE m.services[x]
<1> DEFINE n == Put(m, s, e)
           f == [x \in InMap(m) \cup {s} |-> IF x = s THEN e ELSE m.services[x]]
<1>1. n = [services |-> f, chids |-> m.chids]
  BY DEF Put, Shape, InMap
<1> QED
  BY <1>1 DEF InMap

LEMMA PutNamed ==
    ASSUME NEW m, Shape(m), Named(m), NEW s, NEW e, Called(s, e)
    PROVE  Named(Put(m, s, e))
<1> DEFINE n == Put(m, s, e)
<1>1. /\ InMap(n) = InMap(m) \cup {s}
      /\ \A x \in InMap(m) \cup {s} : n.services[x] = IF x = s THEN e ELSE m.services[x]
  BY PutFields
<1> HIDE DEF n
<1>2. Named(n)
  BY <1>1 DEF Named
<1> QED
  BY <1>2 DEF n

LEMMA CountFields ==
    ASSUME NEW m, m = [services |-> m.services, chids |-> m.chids], NEW s
    PROVE  /\ AddFCCService(m, s).services = m.services
           /\ RemoveFCCService(m, s).services = m.services
BY DEF AddFCCService, RemoveFCCService

LEMMA SameNamed ==
    ASSUME NEW m, Named(m), NEW n, n.services = m.services
    PROVE  Named(n)
BY DEF Named, InMap

LEMMA StoppedFields ==
    ASSUME NEW m, NEW S
    PROVE  /\ InMap(Stopped(m, S)) = InMap(m) \ S
           /\ \A s \in InMap(m) \ S : Stopped(m, S).services[s] = m.services[s]
<1>1. Stopped(m, S).services = [s \in InMap(m) \ S |-> m.services[s]]
  BY DEF Stopped, Restrict
<1> QED
  BY <1>1 DEF InMap

LEMMA StoppedNamed ==
    ASSUME NEW m, Named(m), NEW S
    PROVE  Named(Stopped(m, S))
<1> DEFINE n == Stopped(m, S)
<1>1. /\ InMap(n) = InMap(m) \ S
      /\ \A s \in InMap(m) \ S : n.services[s] = m.services[s]
  BY StoppedFields
<1> HIDE DEF n
<1>2. Named(n)
  BY <1>1 DEF Named
<1> QED
  BY <1>2 DEF n

LEMMA StopsNamed ==
    ASSUME NEW m, Named(m)
    PROVE  Named(StopFailed(m)) /\ Named(Cleanup(m))
BY StoppedNamed DEF StopFailed, Cleanup

LEMMA CalledExcept ==
    ASSUME NEW s, NEW e, Element(e), Called(s, e), NEW x,
           NEW y \in {"preparing", "decoding", "failed"}
    PROVE  /\ Called(s, WithLocked(e, x))
           /\ Called(s, WithFailed(e, x, y))
           /\ Called(s, WithConnected(e, x, y))
<1> DEFINE a == e.name
           b == e.connected
           c == e.state
           d == e.normal
           l == e.locked
           f == e.failed
           e1 == [e EXCEPT !.failed = x]
           e2 == WithConnected(e, x, y)
           e3 == [e EXCEPT !.locked = x]
           e4 == [e1 EXCEPT !.state = y]
<1>1. e = [name |-> a, connected |-> b, state |-> c,
           normal |-> d, locked |-> l, failed |-> f]
  BY DEF Element
<1>2. e2 = [name |-> a, connected |-> x, state |-> y,
            normal |-> d, locked |-> l, failed |-> f]
  BY WithConnectedFields, Zenon
<1>3. /\ Playable(s) /\ a \in Names /\ Ref[a] = s
      /\ c \in {"preparing", "decoding", "failed"}
  BY DEF Called
<1> HIDE DEF a, b, c, d, l, f, e2
<1>4. e3 = [name |-> a, connected |-> b, state |-> c,
            normal |-> d, locked |-> x, failed |-> f]
  BY <1>1
<1>5. e1 = [name |-> a, connected |-> b, state |-> c,
            normal |-> d, locked |-> l, failed |-> x]
  BY <1>1
<1> HIDE DEF e1, e3
<1>6. e4 = [name |-> a, connected |-> b, state |-> y,
            normal |-> d, locked |-> l, failed |-> x]
  BY <1>5
<1>7. WithLocked(e, x) = e3
  BY DEF WithLocked, e3
<1>8. WithFailed(e, x, y) = e4
  BY DEF WithFailed, e1
<1> HIDE DEF e4
<1>9. Called(s, e2) /\ Called(s, e3) /\ Called(s, e4)
  BY <1>2, <1>3, <1>4, <1>6 DEF Called
<1> QED
  BY <1>7, <1>8, <1>9 DEF e2

LEMMA LockedFields ==
    ASSUME NEW m, Shape(m), NEW s \in InMap(m)
    PROVE  [m EXCEPT !.services[s].locked = TRUE] = Put(m, s, WithLocked(m.services[s], TRUE))
<1> DEFINE d == WithLocked(m.services[s], TRUE)
<1>1. [m EXCEPT !.services[s].locked = TRUE] = [m EXCEPT !.services[s] = d]
  BY DEF WithLocked
<1> HIDE DEF d
<1> QED
  BY <1>1, InPlace DEF d

LEMMA FailsFields ==
    ASSUME NEW m, Shape(m), NEW s \in InMap(m), NEW failed
    PROVE  LET e == m.services[s]
           IN Fails(m, s, failed) =
                 Put(m, s, WithFailed(e, failed, IF e.connected THEN "failed" ELSE e.state))
<1> DEFINE e == m.services[s]
           d == WithFailed(e, failed, IF e.connected THEN "failed" ELSE e.state)
<1>1. Fails(m, s, failed) = [m EXCEPT !.services[s] = d]
  BY DEF Fails, WithFailed
<1> HIDE DEF d
<1>2. Fails(m, s, failed) = Put(m, s, d)
  BY <1>1, InPlace
<1> QED
  BY <1>2 DEF d

LEMMA LockedNamed ==
    ASSUME NEW m, Shape(m), Named(m), NEW s \in InMap(m)
    PROVE  Named([m EXCEPT !.services[s].locked = TRUE])
<1> DEFINE e == m.services[s]
<1>1. Element(e) /\ Called(s, e)
  BY DEF Shape, Named
<1> DEFINE d == WithLocked(e, TRUE)
<1>2. Called(s, d)
  BY <1>1, CalledExcept
<1>3. [m EXCEPT !.services[s].locked = TRUE] = Put(m, s, d)
  BY LockedFields
<1> HIDE DEF d
<1>4. Named(Put(m, s, d))
  BY <1>2, PutNamed
<1> QED
  BY <1>3, <1>4

LEMMA FailsNamed ==
    ASSUME NEW m, Shape(m), Named(m), NEW s \in InMap(m), NEW failed
    PROVE  Named(Fails(m, s, failed))
<1> DEFINE e == m.services[s]
           y == IF e.connected THEN "failed" ELSE e.state
<1>1. Element(e) /\ Called(s, e)
  BY DEF Shape, Named
<1>2. y \in {"preparing", "decoding", "failed"}
  BY <1>1 DEF Called
<1>3. Fails(m, s, failed) = Put(m, s, WithFailed(e, failed, y))
  BY FailsFields
<1> HIDE DEF y, e
<1>4. Called(s, WithFailed(e, failed, y))
  BY <1>1, <1>2, CalledExcept
<1> QED
  BY <1>3, <1>4, PutNamed

LEMMA LeaveNamed ==
    ASSUME NEW m, Shape(m), Named(m), NEW d \in InMap(m)
    PROVE  Named(Leave(m, d))
<1> DEFINE y == StateFor(m.services[d].failed)
           e == WithConnected(m.services[d], TRUE, y)
           n == Put(m, d, e)
<1>1. CASE m.services[d].normal
  BY <1>1, StoppedNamed DEF Leave
<1>2. CASE ~m.services[d].normal
  <2>1. y \in {"preparing", "decoding", "failed"}
    BY DEF StateFor
  <2>2. Element(m.services[d]) /\ Called(d, m.services[d]) /\ d \in Services
    BY DEF Shape, Named
  <2>3. Called(d, e) /\ Element(e)
    <3>1. y # "decoding"
      BY DEF StateFor
    <3> HIDE DEF y
    <3> QED  BY <2>1, <2>2, <3>1, CalledExcept, ConnectedExcept
  <2>4. Reconnected(m, d) = n
    <3>1. Reconnected(m, d) = [m EXCEPT !.services[d] = e]
      BY DEF Reconnected, WithConnected
    <3> HIDE DEF e
    <3> QED  BY <3>1, InPlace
  <2> HIDE DEF e
  <2>5. Named(n) /\ Shape(n)
    BY <2>2, <2>3, PutNamed, PutShape
  <2> HIDE DEF n
  <2>6. AddFCCService(n, d).services = n.services
    BY <2>5, CountFields DEF Shape
  <2>7. Named(AddFCCService(n, d))
    BY <2>5, <2>6, SameNamed
  <2> QED
    BY <1>2, <2>4, <2>7 DEF Leave
<1> QED
  BY <1>1, <1>2

LEMMA UseNamed ==
    ASSUME NEW m, Shape(m), Named(m), NEW s \in InMap(m)
    PROVE  Named(Use(m, s))
<1> DEFINE e == WithConnected(m.services[s], FALSE, "decoding")
           n == Put(m, s, e)
<1>1. Element(m.services[s]) /\ Called(s, m.services[s]) /\ s \in Services
  BY DEF Shape, Named
<1>2. Called(s, e) /\ Element(e)
  <2>1. "failed" # "decoding" /\ "decoding" \in {"preparing", "decoding", "failed"}
    OBVIOUS
  <2> QED
    BY <1>1, <2>1, CalledExcept, ConnectedExcept
<1>3. Use(m, s) = RemoveFCCService(n, s)
  <2>1. [m EXCEPT !.services[s] = e] = n
    <3> HIDE DEF e
    <3> QED  BY InPlace
  <2> QED
    BY <2>1 DEF Use, WithConnected
<1> HIDE DEF e
<1>4. Named(n) /\ Shape(n)
  BY <1>1, <1>2, PutNamed, PutShape
<1> HIDE DEF n
<1>5. RemoveFCCService(n, s).services = n.services
  BY <1>4, CountFields DEF Shape
<1> QED
  BY <1>3, <1>4, <1>5, SameNamed

LEMMA PutWatchedNamed ==
    ASSUME NEW m, Shape(m), Named(m), NEW n \in Preparable, NEW o
    PROVE  Named(PutWatched(m, Ref[n], n, o))
<1> DEFINE e == [name |-> n, connected |-> FALSE, normal |-> o.normal,
                 state |-> "decoding", locked |-> o.locked, failed |-> o.failed]
<1>1. Called(Ref[n], e)
  BY DEF Called, Preparable
<1>2. PutWatched(m, Ref[n], n, o) = Put(m, Ref[n], e)
  BY DEF PutWatched
<1> HIDE DEF e
<1> QED
  BY <1>1, <1>2, PutNamed

LEMMA PutWhole ==
    ASSUME NEW m, Shape(m), NEW s, NEW e
    PROVE  Put(m, s, e) = [services |-> Put(m, s, e).services, chids |-> Put(m, s, e).chids]
<1>1. m = [services |-> m.services, chids |-> m.chids]
  BY DEF Shape
<1> DEFINE f == [x \in InMap(m) \cup {s} |-> IF x = s THEN e ELSE m.services[x]]
<1>2. Put(m, s, e) = [m EXCEPT !.services = f]
  BY DEF Put, InMap
<1> HIDE DEF f
<1>3. [m EXCEPT !.services = f] = [services |-> f, chids |-> m.chids]
  BY <1>1
<1> QED
  BY <1>2, <1>3

\* What a preparation adds to the map.
LEMMA PreparedFields ==
    ASSUME NEW m, Shape(m), NEW n \in Preparable, NEW o,
           NEW q, q = Prepared(m, Ref[n], n, o),
           NEW e, e = [name |-> n, connected |-> TRUE, normal |-> FALSE,
                       state |-> StateFor(o.failed), locked |-> o.locked, failed |-> o.failed]
    PROVE  /\ InMap(q) = InMap(m) \cup {Ref[n]}
           /\ \A x \in InMap(m) \cup {Ref[n]} :
                 q.services[x] = IF x = Ref[n] THEN e ELSE m.services[x]
           /\ q.services = Put(m, Ref[n], e).services
<1> DEFINE u == Put(m, Ref[n], e)
<1>1. q = AddFCCService(u, Ref[n])
  BY DEF Prepared
<1>2. u = [services |-> u.services, chids |-> u.chids]
  BY PutWhole
<1>3. /\ InMap(u) = InMap(m) \cup {Ref[n]}
      /\ \A x \in InMap(m) \cup {Ref[n]} :
            u.services[x] = IF x = Ref[n] THEN e ELSE m.services[x]
  BY PutFields
<1> HIDE DEF u
<1>4. q.services = u.services
  BY <1>1, <1>2, CountFields
<1>5. /\ InMap(q) = InMap(m) \cup {Ref[n]}
      /\ \A x \in InMap(m) \cup {Ref[n]} :
            q.services[x] = IF x = Ref[n] THEN e ELSE m.services[x]
  BY <1>3, <1>4 DEF InMap
<1> QED
  BY <1>4, <1>5 DEF u

LEMMA PreparedMap ==
    ASSUME NEW m, Shape(m), NEW n \in Preparable, NEW o
    PROVE  InMap(Prepared(m, Ref[n], n, o)) = InMap(m) \cup {Ref[n]}
<1> DEFINE e == [name |-> n, connected |-> TRUE, normal |-> FALSE,
                 state |-> StateFor(o.failed), locked |-> o.locked, failed |-> o.failed]
           q == Prepared(m, Ref[n], n, o)
<1>1. q = Prepared(m, Ref[n], n, o)
  OBVIOUS
<1>2. \E x : x = e
  OBVIOUS
<1> HIDE DEF q
<1>3. ASSUME NEW x, x = e PROVE InMap(q) = InMap(m) \cup {Ref[n]}
  BY <1>1, <1>3, PreparedFields
<1> QED
  BY <1>1, <1>2, <1>3

LEMMA PreparedNamed ==
    ASSUME NEW m, Shape(m), Named(m), NEW n \in Preparable, NEW o
    PROVE  Named(Prepared(m, Ref[n], n, o))
<1> DEFINE e == [name |-> n, connected |-> TRUE, normal |-> FALSE,
                 state |-> StateFor(o.failed), locked |-> o.locked, failed |-> o.failed]
<1>1. Called(Ref[n], e)
  BY DEF Called, Preparable, StateFor
<1>2. Prepared(m, Ref[n], n, o).services = Put(m, Ref[n], e).services
  BY PreparedFields
<1> HIDE DEF e
<1>3. Named(Put(m, Ref[n], e))
  BY <1>1, PutNamed
<1> QED
  BY <1>2, <1>3, SameNamed

-----------------------------------------------------------------------------
(***************************************************************************)
(* Room for what is on the list.                                           *)
(***************************************************************************)
Room(m, l) ==
    /\ InMap(m) \subseteq Services
    /\ Listing(l)
    /\ Cardinality(InMap(m)) + Len(l) <= MaxFCC

LEMMA MapFinite ==
    ASSUME NEW m, InMap(m) \subseteq Services
    PROVE  IsFiniteSet(InMap(m)) /\ Cardinality(InMap(m)) \in Nat
<1>1. InMap(m) \in SUBSET Services /\ IsFiniteSet(Services)
  BY ServiceAssumption
<1> QED
  BY <1>1, FS_Subset, FS_CardinalityType

LEMMA ListLength ==
    ASSUME NEW l, Listing(l)
    PROVE  Len(l) \in Nat /\ Len(l) <= MaxFCC - 1 /\ MaxFCC \in Nat
BY LenProperties, SupportAssumption DEF Listing

LEMMA RoomLess ==
    ASSUME NEW m, NEW l, Room(m, l), NEW n, InMap(n) \subseteq InMap(m)
    PROVE  Room(n, l)
<1>1. InMap(n) \in SUBSET InMap(m) /\ InMap(m) \subseteq Services /\ InMap(n) \subseteq Services
  BY DEF Room
<1>2. Cardinality(InMap(n)) <= Cardinality(InMap(m)) /\ Cardinality(InMap(n)) \in Nat
      /\ Cardinality(InMap(m)) \in Nat
  BY <1>1, MapFinite, FS_Subset
<1>3. Listing(l) /\ Cardinality(InMap(m)) + Len(l) <= MaxFCC
  BY DEF Room
<1>4. Len(l) \in Nat /\ MaxFCC \in Nat
  BY <1>3, ListLength
<1>5. Cardinality(InMap(n)) + Len(l) <= MaxFCC
  BY <1>2, <1>3, <1>4
<1> QED
  BY <1>1, <1>3, <1>5 DEF Room

LEMMA RoomForOne ==
    ASSUME NEW m, InMap(m) \subseteq Services, NEW s, InMap(m) \subseteq {s},
           NEW l, Listing(l)
    PROVE  Room(m, l)
<1>1. IsFiniteSet({s}) /\ Cardinality({s}) = 1
  BY FS_Singleton
<1>2. InMap(m) \in SUBSET {s}
  OBVIOUS
<1>3. Cardinality(InMap(m)) <= 1 /\ Cardinality(InMap(m)) \in Nat
  BY <1>1, <1>2, MapFinite, FS_Subset
<1>4. Len(l) \in Nat /\ Len(l) <= MaxFCC - 1 /\ MaxFCC \in Nat
  BY ListLength
<1>5. Cardinality(InMap(m)) + Len(l) <= MaxFCC
  BY <1>3, <1>4
<1> QED
  BY <1>5 DEF Room

LEMMA RoomNone ==
    ASSUME NEW m, NEW l, Room(m, l)
    PROVE  Room(m, << >>)
<1>1. Listing(l) /\ InMap(m) \subseteq Services /\ Cardinality(InMap(m)) + Len(l) <= MaxFCC
  BY DEF Room
<1>2. Len(l) \in Nat /\ MaxFCC \in Nat /\ Cardinality(InMap(m)) \in Nat
  BY <1>1, ListLength, MapFinite
<1>3. Cardinality(InMap(m)) + 0 <= MaxFCC /\ Len(<< >>) = 0
  BY <1>1, <1>2
<1> QED
  BY <1>1, <1>3, EmptyListing DEF Room

\* The first of the list leaves it, and may come into the map.
LEMMA RoomTail ==
    ASSUME NEW m, NEW l, Room(m, l), l # << >>
    PROVE  /\ Head(l) \in Preparable
           /\ Room(m, Tail(l))
           /\ \A n : InMap(n) = InMap(m) \cup {Ref[Head(l)]} => Room(n, Tail(l))
<1>1. Listing(l) /\ InMap(m) \subseteq Services /\ Cardinality(InMap(m)) + Len(l) <= MaxFCC
  BY DEF Room
<1>2. /\ Len(l) \in Nat /\ Len(l) <= MaxFCC - 1 /\ MaxFCC \in Nat
      /\ IsFiniteSet(InMap(m)) /\ Cardinality(InMap(m)) \in Nat
  BY <1>1, ListLength, MapFinite
<1>3. l \in Seq(Preparable)
  BY <1>1 DEF Listing
<1>4. Head(l) \in Preparable /\ Tail(l) \in Seq(Preparable) /\ Len(Tail(l)) = Len(l) - 1
  BY <1>3, HeadTailProperties
<1>5. Listing(Tail(l))
  BY <1>2, <1>4 DEF Listing
<1>6. Cardinality(InMap(m)) + Len(Tail(l)) <= MaxFCC
  BY <1>1, <1>2, <1>4
<1>7. ASSUME NEW n, InMap(n) = InMap(m) \cup {Ref[Head(l)]}
      PROVE  Room(n, Tail(l))
  <2>1. Ref[Head(l)] \in Services
    BY <1>4, SupportAssumption DEF Preparable
  <2>2. /\ Cardinality(InMap(n)) = Cardinality(InMap(m))
        \/ Cardinality(InMap(n)) = Cardinality(InMap(m)) + 1
    BY <1>2, <1>7, FS_AddElement
  <2>3. Cardinality(InMap(n)) + Len(Tail(l)) <= MaxFCC
    BY <1>1, <1>2, <1>4, <2>2
  <2> QED
    BY <1>1, <1>5, <1>7, <2>1, <2>3 DEF Room
<1> QED
  BY <1>1, <1>4, <1>5, <1>6, <1>7 DEF Room

\* Every service that is kept takes an entry of its own from the list.
LEMMA MissingListing ==
    ASSUME NEW m, Named(m), NEW l, Listing(l),
           NEW K \in SUBSET (InMap(m) \ In(m, "failed")),
           \A s \in K : m.services[s].name \in ToSet(l)
    PROVE  /\ Listing(Missing(m, l))
           /\ IsFiniteSet(K) /\ Cardinality(K) \in Nat
           /\ Cardinality(K) + Len(Missing(m, l)) <= Len(l)
<1> DEFINE known == {m.services[s].name : s \in InMap(m) \ In(m, "failed")}
           taken == {i \in Firsts(l) : l[i] \in known}
           N == 1..Len(l)
           P == N \ taken
           a == AtPositions(l, P)
           f == [s \in K |-> CHOOSE i \in Firsts(l) : l[i] = m.services[s].name]
<1>1. l \in Seq(Preparable) /\ Len(l) \in Nat /\ Len(l) <= MaxFCC - 1 /\ MaxFCC \in Nat
  BY ListLength DEF Listing
<1>2. ASSUME NEW s \in K
      PROVE  /\ f[s] \in taken /\ l[f[s]] = m.services[s].name
             /\ Ref[l[f[s]]] = s
  <2>1. \E i \in Firsts(l) : l[i] = m.services[s].name
    BY <1>1, FirstsType
  <2>2. f[s] \in Firsts(l) /\ l[f[s]] = m.services[s].name
    BY <2>1
  <2>3. m.services[s].name \in known /\ s \in InMap(m)
    OBVIOUS
  <2> HIDE DEF f, known
  <2> QED
    BY <2>2, <2>3 DEF Named, Called
<1>3. f \in Injection(K, taken)
  <2>1. f \in [K -> taken]
    <3>1. f = [s \in K |-> f[s]]
      OBVIOUS
    <3> HIDE DEF f, taken
    <3> QED  BY <1>2, <3>1
  <2>2. \A s, t \in K : f[s] = f[t] => s = t
    <3> HIDE DEF f, taken
    <3> QED  BY <1>2
  <2> HIDE DEF f, taken
  <2> QED
    BY <2>1, <2>2, Fun_IsInj
<1>4. taken \in SUBSET N
  BY <1>1, FirstsType
<1>5. P \in SUBSET N
  OBVIOUS
<1>6. IsFiniteSet(N) /\ Cardinality(N) = Len(l)
  <2>1. 1 \in Int /\ Len(l) \in Int /\ (1 > Len(l) => Len(l) = 0) /\ Len(l) - 1 + 1 = Len(l)
    BY <1>1
  <2> QED
    BY <2>1, FS_Interval
<1>7. IsFiniteSet(taken) /\ Cardinality(taken) \in Nat
  BY <1>1, <1>4, Positions
<1>8. IsFiniteSet(K) /\ Cardinality(K) <= Cardinality(taken) /\ Cardinality(K) \in Nat
  <2> HIDE DEF f, taken
  <2> QED
    BY <1>3, <1>7, FS_Injection, FS_CardinalityType
<1>9. Cardinality(P) = Len(l) - Cardinality(taken)
  <2>1. N \cap taken = taken
    BY <1>4
  <2> HIDE DEF N, taken
  <2>2. Cardinality(N \ taken) = Cardinality(N) - Cardinality(N \cap taken)
    BY <1>6, FS_Difference
  <2>3. Cardinality(N \cap taken) = Cardinality(taken)
    BY <2>1, Zenon
  <2> QED
    BY <1>6, <2>2, <2>3
<1>10. /\ a \in Seq(Preparable) /\ Len(a) = Cardinality(P)
  BY <1>1, <1>5, AtPositionsType
<1>11. Missing(m, l) = a
  BY DEF Missing
<1> HIDE DEF a, P, taken, N
<1>12. Listing(a) /\ Cardinality(K) + Len(a) <= Len(l)
  BY <1>1, <1>7, <1>8, <1>9, <1>10 DEF Listing
<1> QED
  BY <1>8, <1>11, <1>12

\* FCCCreateList: what stays in the map and what is still to come have room.
LEMMA CreateListRoom ==
    ASSUME NEW m, InMap(m) \subseteq Services, Named(m),
           NEW d, Decoding(m) \subseteq {d}, NEW l, Listing(l)
    PROVE  Room(Stopped(m, Unwanted(m, l)), Missing(m, l))
<1> DEFINE n == Stopped(m, Unwanted(m, l))
           K == {s \in In(m, "preparing") : m.services[s].name \in ToSet(l)}
           M == Missing(m, l)
<1>1. InMap(n) = InMap(m) \ Unwanted(m, l)
  BY StoppedFields
<1>2. K \in SUBSET (InMap(m) \ In(m, "failed")) /\ \A s \in K : m.services[s].name \in ToSet(l)
  BY DEF In
<1>3. InMap(n) \subseteq K \cup {d}
  <2>1. \A s \in InMap(m) : m.services[s].state \in {"preparing", "decoding", "failed"}
    BY DEF Named, Called
  <2> HIDE DEF n
  <2> QED
    BY <1>1, <2>1 DEF Unwanted, In, Decoding
<1> HIDE DEF K
<1>4. /\ Listing(M) /\ IsFiniteSet(K) /\ Cardinality(K) \in Nat
      /\ Cardinality(K) + Len(M) <= Len(l)
  BY <1>2, MissingListing
<1> HIDE DEF M, n
<1>5. IsFiniteSet(K \cup {d}) /\ Cardinality(K \cup {d}) <= Cardinality(K) + 1
      /\ Cardinality(K \cup {d}) \in Nat
  BY <1>4, FS_AddElement, FS_CardinalityType
<1>6. InMap(n) \subseteq Services /\ InMap(n) \in SUBSET (K \cup {d})
  BY <1>1, <1>3
<1>7. Cardinality(InMap(n)) <= Cardinality(K \cup {d}) /\ Cardinality(InMap(n)) \in Nat
  BY <1>5, <1>6, MapFinite, FS_Subset
<1>8. Len(l) \in Nat /\ Len(l) <= MaxFCC - 1 /\ MaxFCC \in Nat /\ Len(M) \in Nat
  BY <1>4, ListLength
<1>9. Cardinality(InMap(n)) + Len(M) <= MaxFCC
  BY <1>4, <1>5, <1>7, <1>8
<1>10. Room(n, M)
  BY <1>4, <1>6, <1>9 DEF Room
<1> QED
  BY <1>10 DEF n, M

-----------------------------------------------------------------------------
(***************************************************************************)
(* What the operators of the plugin do to its list and its events.         *)
(***************************************************************************)
EventNames == {"tuned", "failed", "timeout"}

\* A plugin that prepares no more than before.
Lighter(p, n) ==
    /\ Shaped(n)
    /\ n.list = p.list \/ n.list = << >>
    /\ p.events \in Seq(EventNames) => n.events \in Seq(EventNames)

\* One that has only set timers of 0 ms, its tracker and its flags.
Rest(p, n) ==
    /\ Shaped(n)
    /\ n.list = p.list /\ n.events = p.events
    /\ n.wait = p.wait /\ n.timeout = p.timeout
    /\ n.activating = p.activating /\ n.applying = p.applying
    /\ n.recordings = p.recordings /\ n.disableforrec = p.disableforrec

LEMMA RestLighter ==
    ASSUME NEW p, NEW n, Rest(p, n)
    PROVE  Lighter(p, n)
BY DEF Rest, Lighter

LEMMA LighterLighter ==
    ASSUME NEW p, NEW n, NEW o, Lighter(p, n), Lighter(n, o)
    PROVE  Lighter(p, o)
BY DEF Lighter

LEMMA RestRest ==
    ASSUME NEW p, NEW n, NEW o, Rest(p, n), Rest(n, o)
    PROVE  Rest(p, o)
BY DEF Rest

LEMMA RestItself ==
    ASSUME NEW p, Shaped(p)
    PROVE  Rest(p, p)
BY DEF Rest

LEMMA SetRest ==
    ASSUME NEW p, Shaped(p), NEW f \in {"queue", "tracker", "forceStart", "reset"}, NEW v
    PROVE  Rest(p, [p EXCEPT ![f] = v])
<1> DEFINE n == [p EXCEPT ![f] = v]
<1>1. n = [x \in Fields |-> n[x]] /\ \A x \in Fields : n[x] = IF x = f THEN v ELSE p[x]
  BY FieldSet DEF Shaped, Fields
<1> HIDE DEF n
<1>2. /\ n.list = p.list /\ n.events = p.events
      /\ n.wait = p.wait /\ n.timeout = p.timeout
      /\ n.activating = p.activating /\ n.applying = p.applying
      /\ n.recordings = p.recordings /\ n.disableforrec = p.disableforrec
  BY <1>1 DEF Fields
<1>3. Rest(p, n)
  BY <1>1, <1>2 DEF Rest, Shaped
<1> QED
  BY <1>3 DEF n

\* A field that has nothing to do with the list and the events.
LEMMA SetLighter ==
    ASSUME NEW p, Shaped(p), NEW f \in Fields \ {"list", "events"}, NEW v
    PROVE  Lighter(p, [p EXCEPT ![f] = v])
<1> DEFINE n == [p EXCEPT ![f] = v]
<1>1. n = [x \in Fields |-> n[x]] /\ \A x \in Fields : n[x] = IF x = f THEN v ELSE p[x]
  BY FieldSet DEF Shaped
<1> HIDE DEF n
<1>2. n.list = p.list /\ n.events = p.events
  BY <1>1 DEF Fields
<1>3. Lighter(p, n)
  BY <1>1, <1>2 DEF Lighter, Shaped
<1> QED
  BY <1>3 DEF n

LEMMA FlagRest ==
    ASSUME NEW p, Shaped(p)
    PROVE  /\ Rest(p, [p EXCEPT !.tracker = TRUE]) /\ Rest(p, [p EXCEPT !.tracker = FALSE])
           /\ Rest(p, [p EXCEPT !.forceStart = TRUE]) /\ Rest(p, [p EXCEPT !.forceStart = FALSE])
           /\ Rest(p, [p EXCEPT !.reset = TRUE]) /\ Rest(p, [p EXCEPT !.reset = FALSE])
           /\ Lighter(p, [p EXCEPT !.recordings = TRUE])
           /\ Lighter(p, [p EXCEPT !.recordings = FALSE])
           /\ Lighter(p, [p EXCEPT !.activating = FALSE])
<1>1. \A v : /\ Rest(p, [p EXCEPT !["tracker"] = v]) /\ Rest(p, [p EXCEPT !["forceStart"] = v])
             /\ Rest(p, [p EXCEPT !["reset"] = v])
  BY SetRest
<1>2. \A v : /\ Lighter(p, [p EXCEPT !["recordings"] = v])
             /\ Lighter(p, [p EXCEPT !["activating"] = v])
  BY SetLighter DEF Fields
<1> QED
  BY <1>1, <1>2, Zenon

LEMMA QueueRest ==
    ASSUME NEW p, Shaped(p), NEW timer
    PROVE  Rest(p, Stop(p, timer)) /\ Rest(p, Start(p, timer))
<1>1. ASSUME NEW q PROVE Rest(p, [p EXCEPT !.queue = q])
  <2>1. Rest(p, [p EXCEPT !["queue"] = q])
    BY SetRest
  <2> QED
    BY <2>1
<1> QED
  BY <1>1 DEF Stop, Start

LEMMA TuneRest ==
    ASSUME NEW p, Shaped(p)
    PROVE  /\ Rest(p, OnStart(p)) /\ Rest(p, OnTune(p))
           /\ \A e : Rest(p, Announced(p, e))
<1>1. ASSUME NEW o, Shaped(o)
      PROVE  Rest(o, OnStart(o)) /\ Rest(o, OnTune(o))
  BY <1>1, QueueRest, RestItself DEF OnStart, OnTune
<1>2. Rest(p, OnStart(p)) /\ Rest(OnStart(p), OnTune(OnStart(p)))
  BY <1>1 DEF Rest
<1>3. Rest(p, OnTune(OnStart(p)))
  BY <1>2, RestRest
<1> QED
  BY <1>1, <1>2, <1>3 DEF Announced

LEMMA DisabledLighter ==
    ASSUME NEW p, Shaped(p)
    PROVE  Lighter(p, Disabled(p)) /\ Disabled(p).list = << >>
<1> DEFINE a == [p EXCEPT !["wait"] = None]
           b == [a EXCEPT !["timeout"] = FALSE]
           c == Stop(b, "getSref")
           d == Stop(c, "fccEvent")
           e == [d EXCEPT !.activating = FALSE]
           f == [e EXCEPT !["list"] = << >>]
           g == [f EXCEPT !["events"] = << >>]
<1>1. Disabled(p) = g
  BY DEF Disabled, TimeoutStop
<1>2. Shaped(a)
  BY SetLighter DEF Lighter, Fields
<1> HIDE DEF a
<1>3. Shaped(b)
  BY <1>2, SetLighter DEF Lighter, Fields
<1> HIDE DEF b
<1>4. Shaped(c)
  BY <1>3, QueueRest DEF Rest
<1> HIDE DEF c
<1>5. Shaped(d)
  BY <1>4, QueueRest DEF Rest
<1> HIDE DEF d
<1>6. Shaped(e)
  BY <1>5, FlagRest DEF Lighter
<1> HIDE DEF e
<1>7. Shaped(f) /\ f.list = << >>
  BY <1>6, FieldSet DEF Shaped, Fields
<1> HIDE DEF f
<1>8. Shaped(g) /\ g.events = << >> /\ g.list = << >>
  BY <1>7, FieldSet DEF Shaped, Fields
<1> HIDE DEF g
<1>9. << >> \in Seq(EventNames)
  BY EmptySeq
<1> QED
  BY <1>1, <1>8, <1>9 DEF Lighter

LEMMA EndLighter ==
    ASSUME NEW m, NEW p, Shaped(p)
    PROVE  Lighter(p, End(m, p).p)
BY DisabledLighter, RestItself, RestLighter DEF End

LEMMA StopRunningLighter ==
    ASSUME NEW m, NEW p, Shaped(p)
    PROVE  Lighter(p, StopRunning(m, p).p)
BY EndLighter, RestItself, RestLighter DEF StopRunning

LEMMA EventSet ==
    ASSUME NEW p, Shaped(p), NEW v
    PROVE  LET n == [p EXCEPT !.events = v]
           IN Shaped(n) /\ n.events = v /\ \A x \in Fields \ {"events"} : n[x] = p[x]
<1> DEFINE n == [p EXCEPT !["events"] = v]
<1>1. n = [x \in Fields |-> n[x]] /\ \A x \in Fields : n[x] = IF x = "events" THEN v ELSE p[x]
  BY FieldSet DEF Shaped, Fields
<1> HIDE DEF n
<1>2. Shaped(n) /\ n.events = v /\ \A x \in Fields \ {"events"} : n[x] = p[x]
  BY <1>1 DEF Shaped, Fields
<1> QED
  BY <1>2 DEF n

LEMMA GetEventLighter ==
    ASSUME NEW p, Shaped(p), NEW event \in EventNames
    PROVE  Lighter(p, GetEvent(p, event))
<1> DEFINE v == Append(p.events, event)
           n == [p EXCEPT !.events = v]
<1>1. p.events \in Seq(EventNames) => v \in Seq(EventNames)
  BY AppendProperties
<1>2. GetEvent(p, event) = IF p.activating THEN Start(n, "fccEvent") ELSE p
  BY DEF GetEvent
<1> HIDE DEF v
<1>3. Shaped(n) /\ n.events = v /\ \A x \in Fields \ {"events"} : n[x] = p[x]
  BY EventSet
<1> HIDE DEF n
<1>4. Lighter(p, n)
  <2>1. n.list = p.list
    BY <1>3 DEF Fields
  <2> QED
    BY <1>1, <1>3, <2>1 DEF Lighter
<1>5. Lighter(n, Start(n, "fccEvent"))
  BY <1>3, QueueRest, RestLighter
<1> QED
  BY <1>2, <1>4, <1>5, LighterLighter, RestItself, RestLighter

LEMMA ForceStopLighter ==
    ASSUME NEW w, Shaped(w.p)
    PROVE  Lighter(w.p, ForceStop(w).p)
<1> DEFINE o == [w.p EXCEPT !.tracker = FALSE]
<1>1. ForceStop(w).p = Disabled(o)
  BY DEF ForceStop
<1>2. Lighter(w.p, o)
  BY FlagRest, RestLighter
<1> HIDE DEF o
<1>3. Lighter(o, Disabled(o))
  BY <1>2, DisabledLighter DEF Lighter
<1> QED
  BY <1>1, <1>2, <1>3, LighterLighter

LEMMA ForceStartRest ==
    ASSUME NEW w, Pair(w), Shaped(w.p)
    PROVE  Rest(w.p, ForceStart(w).p)
<1> DEFINE a == [w.p EXCEPT !.tracker = TRUE]
           b == Start(a, "createList")
           c == Start(b, "getSref")
<1>1. ForceStart(w).p = c
  BY DEF ForceStart, Pair
<1>2. Rest(w.p, a)
  BY FlagRest
<1> HIDE DEF a
<1>3. Rest(a, b)
  BY <1>2, QueueRest DEF Rest
<1> HIDE DEF b
<1>4. Rest(b, c)
  BY <1>3, QueueRest DEF Rest
<1> HIDE DEF c
<1> QED
  BY <1>1, <1>2, <1>3, <1>4, RestRest

-----------------------------------------------------------------------------
(***************************************************************************)
(* Never more services than decoders.                                      *)
(***************************************************************************)
Kept ==
    /\ Named(manager)
    /\ Room(manager, support.list)
    /\ support.events \in Seq(EventNames)
    /\ previous \in Names \cup {None}

LEMMA KeptWithinMax == Kept => WithinMax
<1> SUFFICES ASSUME Kept PROVE WithinMax
  OBVIOUS
<1>1. Listing(support.list) /\ InMap(manager) \subseteq Services
      /\ Cardinality(InMap(manager)) + Len(support.list) <= MaxFCC
  BY DEF Kept, Room
<1>2. Len(support.list) \in Nat /\ Cardinality(InMap(manager)) \in Nat /\ MaxFCC \in Nat
  BY <1>1, ListLength, MapFinite
<1> QED
  BY <1>1, <1>2 DEF WithinMax

LEMMA LighterRoom ==
    ASSUME NEW m, NEW p, Room(m, p.list), NEW o, InMap(o) \subseteq InMap(m),
           NEW n, Lighter(p, n)
    PROVE  Room(o, n.list)
<1>1. Room(o, p.list)
  BY RoomLess
<1>2. Room(o, << >>)
  BY <1>1, RoomNone
<1> QED
  BY <1>1, <1>2 DEF Lighter

\* A step after which the plugin has no more to prepare than before.
LEMMA LighterKept ==
    ASSUME Kept, Named(manager'), InMap(manager') \subseteq InMap(manager),
           Lighter(support, support'), previous' \in Names \cup {None}
    PROVE  Kept'
<1>1. Room(manager', support'.list)
  BY LighterRoom DEF Kept
<1>2. support'.events \in Seq(EventNames)
  BY DEF Kept, Lighter
<1> QED
  BY <1>1, <1>2 DEF Kept

LEMMA SupportParts == Inv => Shaped(support) /\ Shape(manager) /\ Manager(manager)
BY ShapedSupport, Parts DEF Manager

LEMMA TellsLighter ==
    ASSUME Shaped(support), NEW s, NEW event \in EventNames
    PROVE  Lighter(support, Tells(s, event))
<1> DEFINE p == IF manager.services[s].connected THEN GetEvent(support, event)
                ELSE support
<1>1. Lighter(support, p)
  BY GetEventLighter, RestItself, RestLighter
<1>2. Tells(s, event) = IF Watching(s) THEN OnTune(p) ELSE p
  BY DEF Tells
<1> HIDE DEF p
<1>3. Lighter(p, OnTune(p))
  BY <1>1, TuneRest, RestLighter DEF Lighter
<1> QED
  BY <1>1, <1>2, <1>3, LighterLighter

LEMMA TunedInKept ==
    ASSUME Inv, Kept, NEW s, TunedIn(s)
    PROVE  Kept'
<1>1. InMap(manager') = InMap(manager)
  BY Parts, LockedHolds DEF TunedIn, Holds
<1>2. Named(manager')
  BY SupportParts, LockedNamed DEF TunedIn, Kept
<1>3. Lighter(support, support')
  BY SupportParts, TellsLighter DEF TunedIn, EventNames
<1> QED
  BY <1>1, <1>2, <1>3, LighterKept DEF TunedIn, others, Kept

LEMMA FailedKept ==
    ASSUME Inv, Kept, NEW s, TuneFailed(s) \/ FccFailed(s)
    PROVE  Kept'
<1>1. InMap(manager') = InMap(manager)
  BY Parts, FailsHolds DEF TuneFailed, FccFailed, Holds
<1>2. Named(manager')
  BY SupportParts, FailsNamed DEF TuneFailed, FccFailed, Kept
<1>3. Lighter(support, support')
  BY SupportParts, TellsLighter, RestItself, RestLighter DEF TuneFailed, FccFailed, EventNames
<1> QED
  BY <1>1, <1>2, <1>3, LighterKept DEF TuneFailed, FccFailed, others, Kept

LEMMA DecodesOne == Inv => Decoding(manager) \subseteq {Ref[running]}
BY DEF Inv, Fits, Decoding, In

\* FCCCreateList: the list is made anew, and nothing else of the plugin.
LEMMA CreateListKeeps ==
    ASSUME previous \in Names \cup {None}, NEW w, Pair(w), Shaped(w.p), Named(w.m),
           NEW d, Decoding(w.m) \subseteq {d}, Room(w.m, w.p.list), NEW c
    PROVE  LET n == CreateList(w, c)
           IN /\ Pair(n) /\ Shaped(n.p) /\ Named(n.m) /\ Room(n.m, n.p.list)
              /\ \A x \in Fields \ {"list"} : n.p[x] = w.p[x]
<1> DEFINE l == Wanted(c)
           v == Missing(w.m, l)
           n == CreateList(w, c)
<1>1. CASE ~enabled \/ Suspended(w.p)
  <2>1. n = w
    BY <1>1 DEF CreateList
  <2> HIDE DEF n
  <2> QED
    BY <2>1 DEF n
<1>2. CASE ~(~enabled \/ Suspended(w.p))
  <2>1. n = [m |-> Stopped(w.m, Unwanted(w.m, l)), p |-> [w.p EXCEPT !["list"] = v]]
    BY <1>2 DEF CreateList
  <2>2. Listing(l) /\ InMap(w.m) \subseteq Services
    BY WantedListing DEF Room
  <2> HIDE DEF l
  <2>3. Room(Stopped(w.m, Unwanted(w.m, l)), v)
    BY <2>2, CreateListRoom
  <2>4. Named(Stopped(w.m, Unwanted(w.m, l)))
    BY StoppedNamed
  <2> DEFINE o == [w.p EXCEPT !["list"] = v]
  <2> HIDE DEF v, n
  <2>5. o = [x \in Fields |-> o[x]] /\ \A x \in Fields : o[x] = IF x = "list" THEN v ELSE w.p[x]
    BY FieldSet DEF Shaped, Fields
  <2>6. n.m = Stopped(w.m, Unwanted(w.m, l)) /\ n.p = o /\ Pair(n)
    BY <2>1 DEF Pair
  <2> HIDE DEF o
  <2>7. o.list = v
    BY <2>5 DEF Fields
  <2> QED
    BY <2>3, <2>4, <2>5, <2>6, <2>7 DEF n, Shaped
<1> QED
  BY <1>1, <1>2

LEMMA CreateListKept ==
    ASSUME Inv, Kept, CreateListTimer
    PROVE  Kept'
<1> DEFINE w == [m |-> manager, p |-> Stop(support, "createList")]
<1>1. PICK c : manager' = CreateList(w, c).m /\ support' = CreateList(w, c).p
  BY DEF CreateListTimer, Becomes, State
<1>2. Rest(support, w.p) /\ Shaped(w.p) /\ w.m = manager /\ Pair(w)
  BY SupportParts, QueueRest DEF Rest, Pair
<1> HIDE DEF w
<1>3. /\ Named(manager') /\ Room(manager', support'.list)
      /\ \A x \in Fields \ {"list"} : support'[x] = w.p[x]
  <2>1. Named(w.m) /\ Room(w.m, w.p.list) /\ previous \in Names \cup {None}
    BY <1>2 DEF Kept, Rest
  <2> QED
    BY <1>1, <1>2, <2>1, DecodesOne, CreateListKeeps
<1>4. support'.events = support.events
  BY <1>2, <1>3 DEF Rest, Fields
<1> QED
  BY <1>3, <1>4 DEF CreateListTimer, others, Kept

LEMMA GetSrefKept ==
    ASSUME Inv, Kept, GetSrefTimer
    PROVE  Kept'
<1> DEFINE w == [State EXCEPT !.p = Stop(@, "getSref")]
           v == [w EXCEPT !.p = Stop(@, "createList")]
           l(c) == IF "createList" \in ToSet(w.p.queue) THEN CreateList(v, c) ELSE w
           u(c) == [l(c).p EXCEPT !.activating = TRUE]
<1>1. PICK c :
         Becomes(IF ~enabled \/ Suspended(w.p) THEN w
                 ELSE IF running = None \/ ~Playable(Ref[running]) THEN l(c)
                 ELSE [l(c) EXCEPT !.p = GetEvent([@ EXCEPT !.activating = TRUE], "tuned")])
  BY Zenon DEF GetSrefTimer
<1>2. Rest(support, w.p) /\ w.m = manager /\ Pair(w)
  <2>1. w = [m |-> manager, p |-> Stop(support, "getSref")]
    BY DEF State
  <2> HIDE DEF w
  <2> QED  BY <2>1, SupportParts, QueueRest DEF Pair
<1>3. /\ Named(w.m) /\ Room(w.m, w.p.list) /\ w.p.events = support.events
      /\ previous \in Names \cup {None} /\ Shaped(w.p)
  BY <1>2 DEF Kept, Rest
<1>4. /\ Pair(l(c)) /\ Shaped(l(c).p) /\ Named(l(c).m) /\ Room(l(c).m, l(c).p.list)
      /\ l(c).p.events = support.events
  <2> HIDE DEF w
  <2>1. /\ Pair(v) /\ Shaped(v.p) /\ Named(v.m) /\ Room(v.m, v.p.list)
        /\ v.p.events = support.events /\ v.m = manager
    <3>1. v = [m |-> manager, p |-> Stop(w.p, "createList")]
      BY <1>2 DEF Pair
    <3>2. Rest(w.p, Stop(w.p, "createList"))
      BY <1>3, QueueRest
    <3> HIDE DEF v
    <3> QED  BY <1>2, <1>3, <3>1, <3>2 DEF Rest, Pair
  <2> HIDE DEF v
  <2>2. LET n == CreateList(v, c)
        IN /\ Pair(n) /\ Shaped(n.p) /\ Named(n.m) /\ Room(n.m, n.p.list)
           /\ \A x \in Fields \ {"list"} : n.p[x] = v.p[x]
    BY <1>3, <2>1, DecodesOne, CreateListKeeps
  <2>3. CreateList(v, c).p.events = support.events
    BY <2>1, <2>2 DEF Fields
  <2> QED
    BY <1>2, <1>3, <2>2, <2>3
<1>5. Lighter(l(c).p, GetEvent(u(c), "tuned"))
  <2> HIDE DEF l
  <2>1. \A x : Lighter(l(c).p, [l(c).p EXCEPT !["activating"] = x])
    BY <1>4, SetLighter DEF Fields
  <2>2. Lighter(l(c).p, u(c))
    BY <2>1, Zenon
  <2> HIDE DEF u
  <2>3. Lighter(u(c), GetEvent(u(c), "tuned"))
    BY <2>2, GetEventLighter DEF Lighter, EventNames
  <2> QED
    BY <2>2, <2>3, LighterLighter
<1> HIDE DEF l, w
<1>6. /\ manager' = w.m \/ manager' = l(c).m
      /\ \/ manager' = w.m /\ support' = w.p
         \/ manager' = l(c).m /\ support' = l(c).p
         \/ manager' = l(c).m /\ support' = GetEvent(u(c), "tuned")
  BY <1>1, <1>4, PairSet DEF Becomes
<1> HIDE DEF u
<1>7. Room(l(c).m, GetEvent(u(c), "tuned").list) /\ GetEvent(u(c), "tuned").events \in Seq(EventNames)
  BY <1>4, <1>5, LighterRoom DEF Lighter, Kept
<1>8. /\ Named(manager') /\ Room(manager', support'.list)
      /\ support'.events \in Seq(EventNames)
  BY <1>3, <1>4, <1>6, <1>7 DEF Kept
<1> QED
  BY <1>8 DEF GetSrefTimer, others, Kept

LEMMA FccEventKept ==
    ASSUME Inv, Kept, FccEventTimer
    PROVE  Kept'
<1> DEFINE p == Stop(support, "fccEvent")
           v == support.activating /\ support.events # << >>
           n == [p EXCEPT !["applying"] = v]
<1>1. support' = n /\ manager' = manager
  BY DEF FccEventTimer
<1>2. Lighter(support, p)
  BY SupportParts, QueueRest, RestLighter
<1> HIDE DEF p, v
<1>3. Lighter(p, n)
  BY <1>2, SetLighter DEF Fields, Lighter
<1> HIDE DEF n
<1> QED
  BY <1>1, <1>2, <1>3, LighterLighter, LighterKept DEF Kept, FccEventTimer, others

LEMMA FCCTimeoutKept ==
    ASSUME Inv, Kept, FCCTimeout
    PROVE  Kept'
<1> DEFINE p == [support EXCEPT !.timeout = FALSE]
<1>1. Lighter(support, p)
  <2>1. \A x : Lighter(support, [support EXCEPT !["timeout"] = x])
    BY SupportParts, SetLighter DEF Fields
  <2> QED
    BY <2>1, Zenon
<1>2. /\ support' = p \/ support' = GivenUp(p)
      /\ manager' = manager \/ manager' = Stopped(manager, {support.wait})
      /\ UNCHANGED previous
  BY DEF FCCTimeout, others
<1> HIDE DEF p
<1>3. Lighter(p, GivenUp(p))
  BY <1>1, GetEventLighter DEF GivenUp, Lighter, EventNames
<1>4. Named(manager') /\ InMap(manager') \subseteq InMap(manager)
  BY <1>2, StoppedFields, StoppedNamed DEF Kept
<1> QED
  BY <1>1, <1>2, <1>3, <1>4, LighterLighter, LighterKept DEF Kept

\* One turn of the loop: what is prepared leaves the list.
LEMMA LoopLighter ==
    ASSUME NEW p, Shaped(p)
    PROVE  Lighter(p, LoopEnds(p)) /\ \A s : Lighter(p, TimeoutStart(p, s))
<1>1. Lighter(p, LoopEnds(p))
  <2> DEFINE v == p.events # << >>
  <2>1. LoopEnds(p) = [p EXCEPT !["applying"] = v]
    BY DEF LoopEnds
  <2>2. \A x : Lighter(p, [p EXCEPT !["applying"] = x])
    BY SetLighter DEF Fields
  <2> HIDE DEF v
  <2> QED
    BY <2>1, <2>2, Zenon
<1>2. ASSUME NEW s
      PROVE  Lighter(p, TimeoutStart(p, s))
  <2> DEFINE a == [p EXCEPT !["wait"] = s]
             v == TRUE
             b == [a EXCEPT !["timeout"] = v]
  <2>1. TimeoutStart(p, s) = b
    BY DEF TimeoutStart
  <2>2. Lighter(p, a)
    BY SetLighter DEF Fields
  <2> HIDE DEF a, v
  <2>3. Lighter(a, b)
    BY <2>2, SetLighter DEF Lighter, Fields
  <2> HIDE DEF b
  <2> QED
    BY <2>1, <2>2, <2>3, LighterLighter
<1> QED
  BY <1>1, <1>2

LEMMA TailParts ==
    ASSUME Plugin(support)
    PROVE  LET p == TimeoutStop([support EXCEPT !.events = Tail(@)])
               rest == [p EXCEPT !.list = Tail(@)]
           IN /\ Plugin(p) /\ Plugin(rest)
              /\ p.events = Tail(support.events) /\ rest.events = p.events
              /\ p.list = support.list /\ rest.list = Tail(support.list)
              /\ p.activating = support.activating /\ rest.activating = support.activating
              /\ p.queue = support.queue /\ rest.queue = support.queue
<1> DEFINE v == Tail(support.events)
           e == [support EXCEPT !["events"] = v]
           a == [e EXCEPT !["wait"] = None]
           f == FALSE
           p == [a EXCEPT !["timeout"] = f]
           r == Tail(support.list)
           rest == [p EXCEPT !["list"] = r]
<1>1. e = [x \in Fields |-> e[x]] /\ \A x \in Fields : e[x] = IF x = "events" THEN v ELSE support[x]
  <2> HIDE DEF v
  <2> QED
    BY FieldSet DEF Plugin, Fields
<1> HIDE DEF e
<1>2. a = [x \in Fields |-> a[x]] /\ \A x \in Fields : a[x] = IF x = "wait" THEN None ELSE e[x]
  BY <1>1, FieldSet DEF Fields
<1> HIDE DEF a, f
<1>3. p = [x \in Fields |-> p[x]] /\ \A x \in Fields : p[x] = IF x = "timeout" THEN f ELSE a[x]
  BY <1>2, FieldSet DEF Fields
<1> HIDE DEF p, r
<1>4. rest = [x \in Fields |-> rest[x]] /\ \A x \in Fields : rest[x] = IF x = "list" THEN r ELSE p[x]
  BY <1>3, FieldSet DEF Fields
<1> HIDE DEF rest
<1>5. /\ p.events = v /\ p.list = support.list /\ p.activating = support.activating
      /\ p.queue = support.queue /\ p.tracker = support.tracker
      /\ p.applying = support.applying
  BY <1>1, <1>2, <1>3 DEF Fields
<1>6. /\ rest.events = v /\ rest.list = r /\ rest.activating = support.activating
      /\ rest.queue = support.queue /\ rest.tracker = support.tracker
      /\ rest.applying = support.applying
  BY <1>4, <1>5 DEF Fields
<1>7. TimeoutStop([support EXCEPT !.events = Tail(@)]) = p
  BY DEF TimeoutStop, e, a, p, f, v
<1>8. [p EXCEPT !.list = Tail(@)] = rest
  BY <1>5 DEF rest, r
<1>9. Plugin(p) /\ Plugin(rest)
  BY <1>3, <1>4, <1>5, <1>6 DEF Plugin
<1> QED
  BY <1>5, <1>6, <1>7, <1>8, <1>9 DEF v, r

LEMMA ApplyEventKept ==
    ASSUME Inv, Kept, support.events # << >>, ApplyEvent
    PROVE  Kept'
<1> DEFINE p == TimeoutStop([support EXCEPT !.events = Tail(@)])
           m == IF Head(support.events) = "failed" THEN StopFailed(manager)
                ELSE manager
           n == Head(p.list)
           rest == [p EXCEPT !.list = Tail(@)]
<1>1. /\ Shaped(p) /\ Shaped(rest)
      /\ p.events = Tail(support.events) /\ rest.events = p.events
      /\ p.list = support.list /\ rest.list = Tail(support.list)
  BY Parts, TailParts DEF Plugin, Shaped
<1>2. Tail(support.events) \in Seq(EventNames)
  <2>1. support.events \in Seq(EventNames)
    BY DEF Kept
  <2> QED
    BY <2>1, HeadTailProperties
<1>3. /\ Shape(m) /\ Named(m) /\ InMap(m) \subseteq InMap(manager)
  <2>1. Holds(StopFailed(manager), InMap(manager) \ In(manager, "failed"), Decoding(manager))
    BY Parts, StopFailedHolds
  <2>2. Named(StopFailed(manager)) /\ Named(manager)
    BY StopsNamed DEF Kept
  <2> QED
    BY <2>1, <2>2, SupportParts DEF Holds, Manager
<1> HIDE DEF m
<1>4. Room(m, p.list)
  BY <1>1, <1>3, RoomLess DEF Kept
<1>5. UNCHANGED previous
  BY DEF ApplyEvent, others
<1>6. ASSUME NEW q, Lighter(q, support'), q.events \in Seq(EventNames),
             Room(manager', q.list), Named(manager')
      PROVE  Kept'
  <2>1. Room(manager', support'.list) /\ support'.events \in Seq(EventNames)
    BY <1>6, LighterRoom DEF Lighter
  <2> QED
    BY <1>5, <1>6, <2>1 DEF Kept
<1>7. CASE Awaited(m) # {}
  <2>1. PICK s : manager' = m /\ support' = LoopEnds(TimeoutStart(p, s))
    BY <1>7 DEF ApplyEvent, m
  <2> HIDE DEF p
  <2>2. Lighter(p, TimeoutStart(p, s))
    BY <1>1, LoopLighter
  <2>3. Lighter(TimeoutStart(p, s), support')
    BY <2>1, <2>2, LoopLighter DEF Lighter
  <2>4. Lighter(p, support')
    BY <2>2, <2>3, LighterLighter
  <2> QED
    BY <1>1, <1>2, <1>3, <1>4, <1>6, <2>1, <2>4
<1>8. p.list # << >> => Head(p.list) \in Preparable /\ Room(m, Tail(p.list))
                        /\ \A o : InMap(o) = InMap(m) \cup {Ref[Head(p.list)]} => Room(o, Tail(p.list))
  <2> HIDE DEF p
  <2> QED
    BY <1>4, RoomTail
<1>9. CASE Awaited(m) = {} /\ (p.list # << >> => ~Playable(Ref[n]))
  <2>1. manager' = m /\ support' = LoopEnds(IF p.list = << >> THEN p ELSE rest)
    BY <1>9 DEF ApplyEvent, m
  <2>2. p.list = << >>
    BY <1>8, <1>9 DEF Preparable
  <2> HIDE DEF p, rest
  <2>3. Lighter(p, support')
    BY <1>1, <2>1, <2>2, LoopLighter
  <2> QED
    BY <1>1, <1>2, <1>3, <1>4, <1>6, <2>1, <2>3
<1>10. CASE Awaited(m) = {} /\ p.list # << >> /\ Playable(Ref[n])
  <2>1. rest.list = Tail(p.list) /\ rest.events \in Seq(EventNames) /\ n \in Preparable
    BY <1>1, <1>2, <1>8, <1>10
  <2>2. CASE Ref[n] \in InMap(m)
    <3>1. manager' = m /\ support' = rest
      BY <1>10, <2>2 DEF ApplyEvent, m
    <3> HIDE DEF p, rest, n
    <3>2. Lighter(rest, support')
      BY <1>1, <3>1, RestItself, RestLighter
    <3> QED
      BY <1>3, <1>6, <1>8, <1>10, <2>1, <3>1, <3>2
  <2>3. CASE Ref[n] \notin InMap(m)
    <3> DEFINE t(a) == IF a.locked THEN GetEvent(rest, "tuned") ELSE rest
               f(a) == IF a.failed = "no" THEN t(a) ELSE GetEvent(t(a), "failed")
               s == Ref[n]
    <3>1. PICK a : /\ manager' = Prepared(m, s, n, a)
                   /\ support' = LoopEnds(TimeoutStart(f(a), s))
      BY <1>10, <2>3 DEF ApplyEvent, m
    <3>2. Room(manager', Tail(p.list)) /\ Named(manager')
      <4>1. InMap(manager') = InMap(m) \cup {Ref[Head(p.list)]} /\ Named(manager')
        <5>1. n = Head(p.list) /\ s = Ref[n] /\ manager' = Prepared(m, Ref[n], n, a)
          BY <3>1
        <5> HIDE DEF p, rest, n, s
        <5>2. InMap(Prepared(m, Ref[n], n, a)) = InMap(m) \cup {Ref[n]}
          BY <1>3, <2>1, PreparedMap
        <5>3. Named(Prepared(m, Ref[n], n, a))
          BY <1>3, <2>1, PreparedNamed
        <5> QED
          BY <5>1, <5>2, <5>3
      <4> QED
        BY <1>8, <1>10, <4>1
    <3> HIDE DEF p, rest, n, s
    <3>3. "tuned" \in EventNames /\ "failed" \in EventNames
      BY DEF EventNames
    <3>4. Lighter(rest, t(a))
      BY <1>1, <3>3, GetEventLighter, RestItself, RestLighter
    <3> HIDE DEF t
    <3>5. Lighter(rest, f(a))
      BY <3>3, <3>4, GetEventLighter, LighterLighter DEF Lighter
    <3> HIDE DEF f
    <3>6. Lighter(f(a), TimeoutStart(f(a), s))
      BY <3>5, LoopLighter DEF Lighter
    <3>7. Lighter(TimeoutStart(f(a), s), support')
      BY <3>1, <3>6, LoopLighter DEF Lighter
    <3>8. Lighter(rest, support')
      BY <3>5, <3>6, <3>7, LighterLighter
    <3> QED
      BY <1>6, <2>1, <3>2, <3>8
  <2> QED
    BY <2>2, <2>3
<1> QED
  BY <1>7, <1>9, <1>10 DEF ApplyEvent, m

LEMMA ForceStartKept ==
    ASSUME Inv, Kept, ForceStartTimer
    PROVE  Kept'
<1> DEFINE w == [State EXCEPT !.p.forceStart = FALSE]
<1>1. w = [m |-> manager, p |-> [support EXCEPT !.forceStart = FALSE]]
  BY PairFlags
<1> HIDE DEF w
<1>2. Rest(support, w.p) /\ Good(w.p) /\ w.m = manager /\ Pair(w)
  BY <1>1, Parts, SupportParts, MinorFlags, FlagRest DEF Pair, Like
<1>3. manager' = ForceStart(w).m /\ support' = ForceStart(w).p
  BY DEF ForceStartTimer, Becomes, w
<1>4. manager' = manager
  BY <1>2, <1>3, ForceStartGood
<1>5. Rest(w.p, support')
  BY <1>2, <1>3, ForceStartRest DEF Rest
<1>6. Lighter(support, support')
  BY <1>2, <1>5, RestRest, RestLighter
<1> QED
  BY <1>4, <1>6, LighterKept DEF Kept, ForceStartTimer, others

\* What a stop of the preparations leaves.
LEMMA ForceStopKeeps ==
    ASSUME NEW w, Shaped(w.p), Named(w.m)
    PROVE  LET n == ForceStop(w)
           IN /\ Pair(n) /\ Named(n.m) /\ InMap(n.m) \subseteq InMap(w.m)
              /\ Lighter(w.p, n.p) /\ Shaped(n.p)
<1>1. ForceStop(w).m = Stopped(w.m, InMap(w.m) \ In(w.m, "decoding")) /\ Pair(ForceStop(w))
  BY DEF ForceStop, Pair
<1>2. Named(ForceStop(w).m) /\ InMap(ForceStop(w).m) \subseteq InMap(w.m)
  BY <1>1, StoppedNamed, StoppedFields
<1> QED
  BY <1>1, <1>2, ForceStopLighter DEF Lighter

LEMMA ResetKept ==
    ASSUME Inv, Kept, ResetTimer
    PROVE  Kept'
<1> DEFINE w == [State EXCEPT !.p.reset = FALSE]
           n == ForceStop(w)
<1>1. w = [m |-> manager, p |-> [support EXCEPT !.reset = FALSE]]
  BY PairFlags
<1>2. manager' = ForceStart(n).m /\ support' = ForceStart(n).p
  BY DEF ResetTimer, Becomes
<1> HIDE DEF w
<1>3. Lighter(support, w.p) /\ w.m = manager /\ Shaped(w.p)
  BY <1>1, SupportParts, FlagRest, RestLighter DEF Lighter
<1>4. /\ Pair(n) /\ Named(n.m) /\ InMap(n.m) \subseteq InMap(manager)
      /\ Lighter(w.p, n.p) /\ Shaped(n.p)
  BY <1>3, ForceStopKeeps DEF Kept
<1> HIDE DEF n
<1>5. manager' = n.m
  BY <1>2, <1>4 DEF ForceStart, Pair
<1>6. Lighter(n.p, support')
  BY <1>2, <1>4, ForceStartRest, RestLighter
<1>7. Lighter(support, support')
  BY <1>3, <1>4, <1>6, LighterLighter
<1> QED
  BY <1>4, <1>5, <1>7, LighterKept DEF ResetTimer, others, Kept

LEMMA StopAndStartKept ==
    ASSUME Inv, Kept, UNCHANGED previous,
           manager' = ForceStopAndStart(State).m, support' = ForceStopAndStart(State).p
    PROVE  Kept'
<1> DEFINE w == [State EXCEPT !.p.reset = FALSE]
           n == ForceStop(w)
<1>1. w = [m |-> manager, p |-> [support EXCEPT !.reset = FALSE]]
  BY PairFlags
<1> HIDE DEF w
<1>2. Lighter(support, w.p) /\ w.m = manager /\ Shaped(w.p)
  BY <1>1, SupportParts, FlagRest, RestLighter DEF Lighter
<1>3. ForceStopAndStart(State) = [n EXCEPT !.p.forceStart = TRUE]
  BY DEF ForceStopAndStart, w
<1>4. /\ Pair(n) /\ Named(n.m) /\ InMap(n.m) \subseteq InMap(manager)
      /\ Lighter(w.p, n.p) /\ Shaped(n.p)
  BY <1>2, ForceStopKeeps DEF Kept
<1> HIDE DEF n
<1>5. manager' = n.m /\ support' = [n.p EXCEPT !.forceStart = TRUE]
  BY <1>3, <1>4 DEF Pair
<1>6. Lighter(n.p, support')
  BY <1>4, <1>5, FlagRest, RestLighter
<1>7. Lighter(support, support')
  BY <1>2, <1>4, <1>6, LighterLighter
<1> QED
  BY <1>4, <1>5, <1>7, LighterKept DEF Kept

LEMMA StartPipKept ==
    ASSUME Inv, Kept, StartPip
    PROVE  Kept'
BY StopAndStartKept DEF StartPip, Becomes

LEMMA RecordTuneStartKept ==
    ASSUME Inv, Kept, RecordTuneStart
    PROVE  Kept'
<1>1. UNCHANGED previous
  BY DEF RecordTuneStart
<1>2. CASE ~enabled \/ Suspended(support)
  <2>1. UNCHANGED <<manager, support>>
    BY <1>2 DEF RecordTuneStart, Becomes, State
  <2> QED
    BY <1>1, <2>1, SupportParts, RestItself, RestLighter, LighterKept DEF Kept
<1>3. CASE enabled /\ ~Suspended(support) /\ support.disableforrec
  <2> DEFINE w == [State EXCEPT !.p.recordings = TRUE]
             n == ForceStop(w)
  <2>1. w = [m |-> manager, p |-> [support EXCEPT !.recordings = TRUE]]
    BY PairFlags
  <2>2. manager' = n.m /\ support' = n.p
    BY <1>3 DEF RecordTuneStart, Becomes
  <2> HIDE DEF w
  <2>3. Lighter(support, w.p) /\ w.m = manager /\ Shaped(w.p)
    BY <2>1, SupportParts, FlagRest DEF Lighter
  <2>4. Named(n.m) /\ InMap(n.m) \subseteq InMap(manager) /\ Lighter(w.p, n.p)
    BY <2>3, ForceStopKeeps DEF Kept
  <2> HIDE DEF n
  <2>5. Lighter(support, support')
    BY <2>2, <2>3, <2>4, LighterLighter
  <2> QED
    BY <1>1, <2>2, <2>4, <2>5, LighterKept DEF Kept
<1>4. CASE enabled /\ ~Suspended(support) /\ ~support.disableforrec
  <2>1. manager' = ForceStopAndStart(State).m /\ support' = ForceStopAndStart(State).p
    BY <1>4 DEF RecordTuneStart, Becomes
  <2> QED
    BY <1>1, <2>1, StopAndStartKept
<1> QED
  BY <1>2, <1>3, <1>4

\* What the end of a recording does to the plugin; the manager is left alone.
LEMMA RecordEndLighter ==
    ASSUME Inv, RecordEnd
    PROVE  manager' = manager /\ Lighter(support, support')
<1>1. CASE ~enabled
  <2>1. UNCHANGED <<manager, support>>
    BY <1>1 DEF RecordEnd, Becomes, State
  <2> QED
    BY <2>1, SupportParts, RestItself, RestLighter
<1>2. CASE enabled /\ ~support.disableforrec
  <2> DEFINE a == [support EXCEPT !.forceStart = FALSE]
             b == [a EXCEPT !.reset = TRUE]
  <2>1. support' = b /\ manager' = manager
    BY <1>2 DEF RecordEnd, Becomes, State
  <2>2. Lighter(support, a)
    BY SupportParts, FlagRest, RestLighter
  <2> HIDE DEF a
  <2>3. Lighter(a, b)
    BY <2>2, FlagRest, RestLighter DEF Lighter
  <2> QED
    BY <2>1, <2>2, <2>3, LighterLighter
<1>3. CASE enabled /\ support.disableforrec /\ recs' > 0
  <2>1. manager' = manager /\ support' = [support EXCEPT !.recordings = TRUE]
    BY <1>3, PairFlags DEF RecordEnd, Becomes
  <2> QED
    BY <2>1, SupportParts, FlagRest
<1>4. CASE enabled /\ support.disableforrec /\ ~(recs' > 0)
  <2> DEFINE w == [m |-> manager, p |-> [support EXCEPT !.recordings = FALSE]]
  <2>1. support' = ForceStart(w).p /\ manager' = ForceStart(w).m
    BY <1>4, PairFlags DEF RecordEnd, Becomes
  <2>2. Pair(w) /\ w.m = manager /\ Lighter(support, w.p)
    BY SupportParts, FlagRest DEF Pair
  <2> HIDE DEF w
  <2>3. manager' = manager
    BY <2>1, <2>2 DEF ForceStart, Pair
  <2>4. Lighter(w.p, support')
    BY <2>1, <2>2, ForceStartRest, RestLighter DEF Lighter
  <2> QED
    BY <2>2, <2>3, <2>4, LighterLighter
<1> QED
  BY <1>1, <1>2, <1>3, <1>4

LEMMA RecordEndKept ==
    ASSUME Inv, Kept, RecordEnd
    PROVE  Kept'
BY RecordEndLighter, LighterKept DEF RecordEnd, Kept

LEMMA LighterParts ==
    ASSUME NEW p, Listing(p.list), p.events \in Seq(EventNames), NEW n, Lighter(p, n)
    PROVE  Shaped(n) /\ Listing(n.list) /\ n.events \in Seq(EventNames)
BY EmptyListing DEF Lighter

\* What is watched next is all that is in the map.
LEMMA FreshKept ==
    ASSUME NEW w, Manager(w.m), InMap(w.m) = {}, Shaped(w.p), Listing(w.p.list),
           w.p.events \in Seq(EventNames), previous' \in Names \cup {None},
           NEW n \in Names, PlayFresh(w, n)
    PROVE  Kept'
<1>1. Named(w.m) /\ Shape(w.m) /\ Ref[n] \in Services
  BY SupportAssumption DEF Named, Manager
<1>2. CASE enabled' /\ Playable(Ref[n])
  <2>1. PICK o : /\ manager' = PutWatched(w.m, Ref[n], n, o)
                 /\ support' = Announced(w.p, o)
    BY <1>2 DEF PlayFresh
  <2>2. InMap(manager') = {Ref[n]}
    BY <1>1, <2>1, PutWatchedHolds DEF Holds
  <2>3. Named(manager')
    BY <1>1, <1>2, <2>1, PutWatchedNamed DEF Preparable
  <2>4. support'.list = w.p.list /\ support'.events = w.p.events
    <3>1. Rest(w.p, Announced(w.p, o))
      BY TuneRest, Zenon
    <3> QED
      BY <2>1, <3>1 DEF Rest
  <2>5. Room(manager', support'.list)
    BY <1>1, <2>2, <2>4, RoomForOne
  <2> QED
    BY <2>3, <2>4, <2>5 DEF Kept
<1>3. CASE ~(enabled' /\ Playable(Ref[n]))
  <2>1. manager' = w.m /\ support' = OnStart(w.p)
    BY <1>3 DEF PlayFresh
  <2>2. support'.list = w.p.list /\ support'.events = w.p.events
    BY <2>1, TuneRest DEF Rest
  <2>3. Room(manager', support'.list)
    BY <1>1, <2>1, <2>2, RoomForOne
  <2> QED
    BY <1>1, <2>1, <2>2, <2>3 DEF Kept
<1> QED
  BY <1>2, <1>3

LEMMA EndKeeps ==
    ASSUME NEW m, Named(m), NEW p
    PROVE  Named(End(m, p).m) /\ InMap(End(m, p).m) \subseteq InMap(m)
<1>1. Named(StopFailed(m)) /\ InMap(StopFailed(m)) \subseteq InMap(m)
  BY StopsNamed, StoppedFields DEF StopFailed
<1> QED
  BY <1>1 DEF End

LEMMA ZapKept ==
    ASSUME Inv, Kept, NEW n \in Names, Zap(n)
    PROVE  Kept'
<1> DEFINE D == In(manager, "decoding")
           d == CHOOSE x \in D : TRUE
           w == IF D = {} THEN [m |-> manager, p |-> support]
                ELSE LeaveDecoding(manager, support, d)
           v == IF enabled /\ D # {} THEN [w EXCEPT !.m = Cleanup(@)]
                ELSE StopRunning(manager, support)
<1>1. /\ PlayService(n) /\ Manager(manager) /\ Good(support) /\ Shaped(support)
      /\ Fits(manager, running, enabled, support)
      /\ previous' \in Names \cup {None} /\ enabled' = enabled
  <2>1. running \in Names \cup {None} /\ previous \in Names \cup {None}
    BY DEF Inv, Fits, Kept
  <2> QED
    BY <2>1, ShapedSupport DEF Zap, Inv, Fits
<1>2. /\ Listing(support.list) /\ support.events \in Seq(EventNames) /\ Named(manager)
  BY DEF Kept, Room
<1>3. /\ Manager(w.m) /\ Decoding(w.m) = {} /\ Pair(w) /\ Lighter(support, w.p)
      /\ Named(w.m) /\ InMap(w.m) \subseteq InMap(manager)
  <2>1. CASE D = {}
    <3>1. w = [m |-> manager, p |-> support]
      BY <2>1
    <3> HIDE DEF w
    <3> QED
      BY <1>1, <1>2, <2>1, <3>1, RestItself, RestLighter DEF Pair, Decoding
  <2>2. CASE D # {}
    <3> DEFINE e == End(manager, support)
               el == manager.services[d]
               o == IF el.failed # "no" /\ ~el.normal THEN GetEvent(e.p, "failed")
                    ELSE e.p
    <3>1. d \in Decoding(manager) /\ Decoding(manager) = {d}
      BY <1>1, <2>2 DEF Fits, Decoding, In
    <3>2. w = [m |-> Leave(e.m, d), p |-> o]
      BY <2>2 DEF LeaveDecoding
    <3>3. /\ \E S \in SUBSET InMap(manager) : Holds(e.m, S, Decoding(manager))
          /\ Lighter(support, e.p) /\ Named(e.m) /\ InMap(e.m) \subseteq InMap(manager)
      BY <1>1, <1>2, EndQuiet, EndLighter, EndKeeps
    <3>4. Manager(e.m) /\ Shape(e.m) /\ Decoding(e.m) = {d} /\ d \in InMap(e.m)
      BY <3>1, <3>3, DecodingSubset DEF Holds, Manager
    <3> HIDE DEF e
    <3>5. Lighter(e.p, o)
      BY <3>3, GetEventLighter, RestItself, RestLighter DEF Lighter, EventNames
    <3> HIDE DEF o, d, w
    <3>6. \E S \in SUBSET InMap(e.m) : Holds(Leave(e.m, d), S, Decoding(e.m) \ {d})
      BY <3>1, <3>4, LeaveHolds
    <3>7. /\ Manager(Leave(e.m, d)) /\ InMap(Leave(e.m, d)) \subseteq InMap(manager)
          /\ Decoding(Leave(e.m, d)) = {}
      BY <3>3, <3>4, <3>6 DEF Holds
    <3>8. Named(Leave(e.m, d))
      BY <3>3, <3>4, LeaveNamed
    <3> QED
      BY <3>2, <3>3, <3>5, <3>7, <3>8, LighterLighter DEF Pair
  <2> QED
    BY <2>1, <2>2
<1>4. CASE enabled /\ Ref[n] \in InMap(w.m)
  <2>1. /\ manager' = Use(w.m, Ref[n])
        /\ support' = Announced(w.p, w.m.services[Ref[n]])
    BY <1>1, <1>4 DEF PlayService
  <2> HIDE DEF w
  <2>2. InMap(manager') = InMap(w.m)
    BY <1>3, <1>4, <2>1, UseHolds DEF Holds
  <2>3. Named(manager')
    BY <1>3, <1>4, <2>1, UseNamed DEF Manager
  <2>4. Lighter(w.p, support')
    BY <1>3, <2>1, TuneRest, RestLighter DEF Lighter
  <2>5. Lighter(support, support')
    BY <1>3, <2>4, LighterLighter
  <2> QED
    BY <1>1, <1>3, <2>2, <2>3, <2>5, LighterKept
<1>5. CASE ~(enabled /\ Ref[n] \in InMap(w.m))
  <2>1. PlayFresh(v, n)
    BY <1>1, <1>5 DEF PlayService
  <2>2. Manager(v.m) /\ InMap(v.m) = {} /\ Lighter(support, v.p)
    <3>1. CASE enabled /\ D # {}
      <4>1. v = [w EXCEPT !.m = Cleanup(w.m)]
        BY <3>1
      <4> HIDE DEF w, v, D
      <4>2. v = [m |-> Cleanup(w.m), p |-> w.p]
        BY <1>3, <4>1, PairSet
      <4> QED
        BY <1>3, <4>2, CleanupHolds DEF Holds
    <3>2. CASE ~(enabled /\ D # {})
      <4>1. v = StopRunning(manager, support)
        BY <3>2
      <4> HIDE DEF v
      <4> QED
        BY <1>1, <4>1, StopRunningHolds, StopRunningLighter DEF Holds
    <3> QED
      BY <3>1, <3>2
  <2> HIDE DEF v
  <2>3. Shaped(v.p) /\ Listing(v.p.list) /\ v.p.events \in Seq(EventNames)
    BY <1>2, <2>2, LighterParts
  <2> QED
    BY <1>1, <2>1, <2>2, <2>3, FreshKept
<1> QED
  BY <1>4, <1>5

LEMMA StopServiceKept ==
    ASSUME Inv, Kept, StopService
    PROVE  Kept'
<1> DEFINE w == StopRunning(manager, support)
<1>1. manager' = w.m /\ support' = w.p
  BY DEF StopService
<1>2. InMap(w.m) = {}
  BY StopRunningHolds DEF Inv, Holds
<1>3. Lighter(support, w.p)
  BY ShapedSupport, StopRunningLighter
<1> HIDE DEF w
<1>4. Named(manager')
  BY <1>1, <1>2 DEF Named
<1>5. previous' \in Names \cup {None}
  <2>1. running \in Names \cup {None} /\ previous \in Names \cup {None}
    BY DEF Inv, Fits, Kept
  <2> QED
    BY <2>1 DEF StopService
<1> QED
  BY <1>1, <1>2, <1>3, <1>4, <1>5, LighterKept

LEMMA SetupKept ==
    ASSUME Inv, Kept, NEW on \in BOOLEAN, NEW disable \in BOOLEAN, SetupChanged(on, disable)
    PROVE  Kept'
<1> DEFINE r == recs > 0
           a == [support EXCEPT !["recordings"] = r]
           known == [a EXCEPT !["disableforrec"] = disable]
           t == on /\ ~Suspended(known)
           p == [known EXCEPT !["tracker"] = t]
           w == IF p.tracker THEN [State EXCEPT !.p = p]
                ELSE [m |-> StopFailed(manager), p |-> Disabled(p)]
<1>1. /\ previous' \in Names \cup {None}
      /\ IF running = None THEN Becomes(w) /\ UNCHANGED running
         ELSE PlayFresh(StopRunning(w.m, w.p), running)
  BY DEF SetupChanged, Kept
<1>2. Lighter(support, p)
  <2>1. Lighter(support, a)
    <3> HIDE DEF r
    <3> QED  BY SupportParts, SetLighter DEF Fields
  <2> HIDE DEF a
  <2>2. Lighter(a, known)
    BY <2>1, SetLighter DEF Fields, Lighter
  <2> HIDE DEF known, t
  <2>3. Lighter(known, p)
    BY <2>2, SetLighter DEF Fields, Lighter
  <2> HIDE DEF p
  <2> QED
    BY <2>1, <2>2, <2>3, LighterLighter
<1> HIDE DEF p
<1>3. /\ \E S \in SUBSET InMap(manager) : Holds(w.m, S, Decoding(manager))
      /\ Lighter(support, w.p) /\ Named(w.m) /\ InMap(w.m) \subseteq InMap(manager)
  <2>1. CASE p.tracker
    <3>1. w.m = manager /\ w.p = p
      BY <2>1 DEF State
    <3> HIDE DEF w
    <3> QED
      BY <1>2, <3>1, Parts DEF Kept
  <2>2. CASE ~p.tracker
    <3>1. w.m = StopFailed(manager) /\ w.p = Disabled(p)
      BY <2>2
    <3>2. Holds(StopFailed(manager), InMap(manager) \ In(manager, "failed"), Decoding(manager))
      BY Parts, StopFailedHolds
    <3>3. Lighter(p, Disabled(p)) /\ Named(StopFailed(manager))
      BY <1>2, DisabledLighter, StopsNamed DEF Lighter, Kept
    <3> HIDE DEF w
    <3> QED
      BY <1>2, <3>1, <3>2, <3>3, LighterLighter DEF Holds
  <2> QED
    BY <2>1, <2>2
<1> HIDE DEF w
<1>4. CASE running = None
  <2>1. manager' = w.m /\ support' = w.p
    BY <1>1, <1>4 DEF Becomes
  <2> QED
    BY <1>1, <1>3, <2>1, LighterKept
<1>5. CASE running # None
  <2> DEFINE v == StopRunning(w.m, w.p)
  <2>1. v.m = Cleanup(w.m)
    BY <1>5 DEF StopRunning
  <2>2. Holds(v.m, {}, {}) /\ Lighter(w.p, v.p)
    BY <1>3, <2>1, CleanupHolds, StopRunningLighter DEF Holds, Lighter
  <2>3. PlayFresh(v, running) /\ running \in Names
    BY <1>1, <1>5 DEF Inv, Fits
  <2> HIDE DEF v
  <2>4. Lighter(support, v.p)
    BY <1>3, <2>2, LighterLighter
  <2>5. Shaped(v.p) /\ Listing(v.p.list) /\ v.p.events \in Seq(EventNames)
    BY <2>4, LighterParts DEF Kept, Room
  <2> QED
    BY <1>1, <2>2, <2>3, <2>5, FreshKept DEF Holds
<1> QED
  BY <1>4, <1>5

LEMMA InitKept == Init => Kept
<1> SUFFICES ASSUME Init PROVE Kept
  OBVIOUS
<1>1. InMap(manager) = {} /\ previous = None
  BY DEF Init, NoServices, InMap
<1>2. PICK d \in BOOLEAN : support = [Quiet EXCEPT !.disableforrec = d]
  BY DEF Init
<1>3. support.list = << >> /\ support.events = << >>
  BY <1>2 DEF Quiet
<1>4. Room(manager, support.list)
  BY <1>1, <1>3, EmptyListing, RoomForOne
<1>5. << >> \in Seq(EventNames)
  BY EmptySeq
<1> QED
  BY <1>1, <1>3, <1>4, <1>5 DEF Kept, Named

-----------------------------------------------------------------------------
(***************************************************************************)
(* The preparations do not come to a halt.  While the plugin prepares,     *)
(* something is still to come that makes it go on, or it is done.          *)
(***************************************************************************)
Moving(m, p) ==
    \/ Waits(p, "getSref")
    \/ p.events # << >>
    \/ NoLocked(m) = {} /\ p.list = << >>
    \/ p.timeout /\ Awaited(m) = {p.wait}

Live(m, e, p) ==
    p.activating =>
        /\ e
        /\ Waits(p, "createList") => Waits(p, "getSref")
        /\ p.events # << >> => p.applying \/ Waits(p, "fccEvent")
        /\ p.applying => p.events # << >>
        /\ Moving(m, p)

Lively == ~asserted => Live(manager, enabled, support)

LEMMA LivelyNeverStalls == Inv /\ Lively => NeverStalls
<1> SUFFICES ASSUME Inv, Lively, Idle, support.activating, support.queue = << >>
             PROVE  \/ NoLocked(manager) = {} /\ support.list = << >>
                    \/ support.timeout /\ Awaited(manager) = {support.wait}
  BY DEF NeverStalls
<1>1. \A t : ~Waits(support, t)
  BY DEF Waits, ToSet
<1>2. Live(manager, enabled, support) /\ ~support.applying
  BY DEF Lively, Idle
<1> QED
  BY <1>1, <1>2 DEF Live, Moving

\* The timers after one is stopped or started.
LEMMA QueueWaits ==
    ASSUME NEW p, Plugin(p), NEW timer
    PROVE  /\ \A t : Waits(Stop(p, timer), t) <=> Waits(p, t) /\ t # timer
           /\ timer \in TimerNames =>
                 \A t : Waits(Start(p, timer), t) <=> Waits(p, t) \/ t = timer
<1>1. ToSet(Stop(p, timer).queue) = ToSet(p.queue) \ {timer}
  BY StopPlugin
<1>2. ASSUME timer \in TimerNames
      PROVE  ToSet(Start(p, timer).queue) = ToSet(p.queue) \cup {timer}
  <2> DEFINE q == Append(Without(p.queue, timer), timer)
  <2>1. Queue(q) /\ ToSet(q) = ToSet(p.queue) \cup {timer}
    <3>1. /\ Queue(Without(p.queue, timer))
          /\ ToSet(Without(p.queue, timer)) = ToSet(p.queue) \ {timer}
      BY WithoutQueue DEF Plugin
    <3>2. ToSet(q) = ToSet(Without(p.queue, timer)) \cup {timer} /\ Queue(q)
      BY <1>2, <3>1, AppendQueue
    <3> QED
      BY <3>1, <3>2
  <2>2. Start(p, timer) = [p EXCEPT !.queue = q]
    BY DEF Start
  <2> HIDE DEF q
  <2> QED
    BY <2>1, <2>2, QueueSet
<1> QED
  BY <1>1, <1>2 DEF Waits

\* A step that leaves the work of the plugin alone, and takes none of the
\* timers away on which it waits.
Steady(p, n) ==
    /\ Plugin(n)
    /\ n.list = p.list /\ n.events = p.events
    /\ n.wait = p.wait /\ n.timeout = p.timeout
    /\ n.activating = p.activating /\ n.applying = p.applying
    /\ \A t : Waits(p, t) => Waits(n, t)
    /\ Waits(n, "createList") => Waits(p, "createList") \/ Waits(n, "getSref")

LEMMA SteadyLive ==
    ASSUME NEW m, NEW e, NEW p, Live(m, e, p), NEW n, Steady(p, n)
    PROVE  Live(m, e, n)
BY DEF Live, Steady, Moving

LEMMA SteadySteady ==
    ASSUME NEW p, NEW n, NEW o, Steady(p, n), Steady(n, o)
    PROVE  Steady(p, o)
BY DEF Steady

LEMMA SteadyItself ==
    ASSUME NEW p, Plugin(p)
    PROVE  Steady(p, p)
BY DEF Steady

LEMMA SetSteady ==
    ASSUME NEW p, Plugin(p),
           NEW f \in {"recordings", "disableforrec", "forceStart", "reset", "tracker"},
           NEW v, f = "tracker" => v \in BOOLEAN
    PROVE  Steady(p, [p EXCEPT ![f] = v])
<1> DEFINE n == [p EXCEPT ![f] = v]
<1>1. Plugin(n) /\ \A x \in Fields \ {f} : n[x] = p[x]
  <2>1. f \in Fields \ {"queue"} /\ (f \in {"tracker", "activating", "applying"} => v \in BOOLEAN)
    BY DEF Fields
  <2> QED
    BY <2>1, FieldPlugin
<1> HIDE DEF n
<1>2. /\ n.list = p.list /\ n.events = p.events /\ n.queue = p.queue
      /\ n.wait = p.wait /\ n.timeout = p.timeout
      /\ n.activating = p.activating /\ n.applying = p.applying
  BY <1>1 DEF Fields
<1>3. Steady(p, n)
  BY <1>1, <1>2 DEF Steady, Waits
<1> QED
  BY <1>3 DEF n

LEMMA FlagSteady ==
    ASSUME NEW p, Plugin(p)
    PROVE  /\ Steady(p, [p EXCEPT !.recordings = TRUE])
           /\ Steady(p, [p EXCEPT !.recordings = FALSE])
           /\ Steady(p, [p EXCEPT !.forceStart = FALSE])
           /\ Steady(p, [p EXCEPT !.reset = TRUE])
           /\ Steady(p, [p EXCEPT !.tracker = TRUE])
<1>1. \A v \in BOOLEAN :
         /\ Steady(p, [p EXCEPT !["recordings"] = v])
         /\ Steady(p, [p EXCEPT !["forceStart"] = v])
         /\ Steady(p, [p EXCEPT !["reset"] = v])
         /\ Steady(p, [p EXCEPT !["tracker"] = v])
  BY SetSteady
<1>2. TRUE \in BOOLEAN /\ FALSE \in BOOLEAN
  OBVIOUS
<1> QED
  BY <1>1, <1>2, Zenon

LEMMA StartSteady ==
    ASSUME NEW p, Plugin(p), NEW timer \in TimerNames, timer = "createList" => Waits(p, "getSref")
    PROVE  Steady(p, Start(p, timer))
<1>1. Rest(p, Start(p, timer))
  BY QueueRest DEF Plugin, Shaped
<1>2. \A t : Waits(Start(p, timer), t) <=> Waits(p, t) \/ t = timer
  BY QueueWaits
<1>3. Plugin(Start(p, timer))
  <2>1. Queue(Append(Without(p.queue, timer), timer))
    BY WithoutQueue, AppendQueue DEF Plugin
  <2> QED
    BY <2>1, QueueSet DEF Start
<1> HIDE DEF Start
<1> QED
  BY <1>1, <1>2, <1>3 DEF Steady, Rest

\* ForceStart: both timers are started.
LEMMA ForceStartSteady ==
    ASSUME NEW w, Pair(w), Plugin(w.p)
    PROVE  Steady(w.p, ForceStart(w).p)
<1> DEFINE a == [w.p EXCEPT !.tracker = TRUE]
           b == Start(a, "createList")
           c == Start(b, "getSref")
<1>1. ForceStart(w).p = c
  BY DEF ForceStart, Pair
<1>2. Steady(w.p, a) /\ Plugin(a)
  BY FlagSteady DEF Steady
<1> HIDE DEF a
<1>3. Rest(a, b) /\ Plugin(b) /\ \A t : Waits(b, t) <=> Waits(a, t) \/ t = "createList"
  <2>1. "createList" \in TimerNames
    BY DEF TimerNames
  <2>2. Queue(Append(Without(a.queue, "createList"), "createList"))
    BY <1>2, <2>1, WithoutQueue, AppendQueue DEF Plugin
  <2>3. Plugin(b)
    BY <1>2, <2>2, QueueSet DEF Start
  <2> QED
    BY <1>2, <2>1, <2>3, QueueRest, QueueWaits DEF Plugin, Shaped
<1> HIDE DEF b
<1>4. Steady(b, c) /\ \A t : Waits(c, t) <=> Waits(b, t) \/ t = "getSref"
  <2>1. "getSref" \in TimerNames /\ "getSref" # "createList"
    BY DEF TimerNames
  <2> QED
    BY <1>3, <2>1, StartSteady, QueueWaits
<1> HIDE DEF c
<1>5. Steady(a, c)
  BY <1>3, <1>4 DEF Steady, Rest
<1> QED
  BY <1>1, <1>2, <1>5, SteadySteady

\* An event the plugin hears while it prepares.
LEMMA GetEventStirs ==
    ASSUME NEW p, Plugin(p), p.activating, p.events \in Seq(EventNames),
           NEW event \in EventNames
    PROVE  LET n == GetEvent(p, event)
           IN /\ Plugin(n) /\ n.events # << >> /\ Waits(n, "fccEvent")
              /\ n.activating = p.activating /\ n.applying = p.applying
              /\ n.list = p.list /\ n.wait = p.wait /\ n.timeout = p.timeout
              /\ \A t : t # "fccEvent" => (Waits(n, t) <=> Waits(p, t))
<1> DEFINE v == Append(p.events, event)
           o == [p EXCEPT !["events"] = v]
           n == Start(o, "fccEvent")
<1>1. GetEvent(p, event) = n
  BY DEF GetEvent
<1>2. v # << >>
  <2>1. Len(v) = Len(p.events) + 1 /\ v \in Seq(EventNames) /\ Len(p.events) \in Nat
    BY AppendProperties, LenProperties
  <2> HIDE DEF v
  <2>2. v = << >> => Len(v) = 0
    OBVIOUS
  <2> QED
    BY <2>1, <2>2
<1> HIDE DEF v
<1>3. Plugin(o) /\ o.events = v /\ \A x \in Fields \ {"events"} : o[x] = p[x]
  <2>1. Shaped(o) /\ o.events = v /\ \A x \in Fields \ {"events"} : o[x] = p[x]
    <3>1. p = [x \in Fields |-> p[x]] /\ "events" \in Fields
      BY DEF Plugin, Fields
    <3>2. /\ o = [x \in Fields |-> o[x]]
          /\ \A x \in Fields : o[x] = IF x = "events" THEN v ELSE p[x]
      BY <3>1, FieldSet, Zenon
    <3> HIDE DEF o
    <3>3. o.events = v
      BY <3>1, <3>2
    <3> QED
      BY <3>2, <3>3 DEF Shaped
  <2> HIDE DEF o
  <2>2. o.queue = p.queue /\ o.tracker = p.tracker /\ o.activating = p.activating /\ o.applying = p.applying
    BY <2>1 DEF Fields
  <2> QED
    BY <2>1, <2>2 DEF Plugin, Shaped
<1> HIDE DEF o
<1>4. /\ o.activating = p.activating /\ o.applying = p.applying /\ o.queue = p.queue
      /\ o.list = p.list /\ o.wait = p.wait /\ o.timeout = p.timeout
  BY <1>3 DEF Fields
<1>5. "fccEvent" \in TimerNames
  BY DEF TimerNames
<1>6. Steady(o, n) /\ \A t : Waits(n, t) <=> Waits(o, t) \/ t = "fccEvent"
  BY <1>3, <1>5, StartSteady, QueueWaits
<1> HIDE DEF n
<1> QED
  BY <1>1, <1>2, <1>3, <1>4, <1>6 DEF Steady, Waits

LEMMA QuietLively ==
    ASSUME ~support'.activating
    PROVE  Lively'
BY DEF Lively, Live

LEMMA SteadyLively ==
    ASSUME Lively, UNCHANGED <<manager, enabled, asserted>>, Steady(support, support')
    PROVE  Lively'
<1>1. Live(manager, enabled, support) => Live(manager, enabled, support')
  BY SteadyLive
<1>2. CASE asserted
  BY <1>2 DEF Lively
<1>3. CASE ~asserted
  <2>1. Live(manager', enabled', support')
    BY <1>1, <1>3 DEF Lively
  <2> QED
    BY <2>1 DEF Lively
<1> QED
  BY <1>2, <1>3

\* An event is on its way.
LEMMA StirredLively ==
    ASSUME Lively, Idle, UNCHANGED enabled,
           support'.events # << >>, Waits(support', "fccEvent"), ~support'.applying,
           support'.activating => support.activating,
           Waits(support, "getSref") => Waits(support', "getSref"),
           Waits(support', "createList") => Waits(support, "createList") \/ Waits(support', "getSref")
    PROVE  Lively'
<1>1. Live(manager, enabled, support)
  BY DEF Lively, Idle
<1>2. Live(manager', enabled', support')
  BY <1>1 DEF Live, Moving
<1> QED
  BY <1>2 DEF Lively

LEMMA SameNoLocked ==
    ASSUME NEW m, NEW n, NoLocked(n) = NoLocked(m), NEW e, NEW p, Live(m, e, p)
    PROVE  Live(n, e, p)
<1>1. Awaited(n) = Awaited(m)
  BY DEF Awaited
<1> QED
  BY <1>1 DEF Live, Moving

\* What decodes is not awaited.
LEMMA PutNoLocked ==
    ASSUME NEW m, Shape(m), NEW s \in InMap(m), m.services[s].state = "decoding",
           NEW e, e.state = "decoding"
    PROVE  NoLocked(Put(m, s, e)) = NoLocked(m)
<1> DEFINE n == Put(m, s, e)
<1>1. /\ InMap(n) = InMap(m)
      /\ \A x \in InMap(m) : n.services[x] = IF x = s THEN e ELSE m.services[x]
  <2>1. /\ InMap(n) = InMap(m) \cup {s}
        /\ \A x \in InMap(m) \cup {s} : n.services[x] = IF x = s THEN e ELSE m.services[x]
    BY PutFields
  <2>2. InMap(m) \cup {s} = InMap(m)
    OBVIOUS
  <2> HIDE DEF n
  <2> QED
    BY <2>1, <2>2
<1> HIDE DEF n
<1>2. NoLocked(n) = NoLocked(m)
  BY <1>1 DEF NoLocked, In
<1> QED
  BY <1>2 DEF n

LEMMA LockedNoLocked ==
    ASSUME NEW m, Shape(m), NEW s \in Decoding(m)
    PROVE  NoLocked([m EXCEPT !.services[s].locked = TRUE]) = NoLocked(m)
<1> DEFINE e == WithLocked(m.services[s], TRUE)
<1>1. s \in InMap(m) /\ m.services[s].state = "decoding" /\ Element(m.services[s])
  BY DEF Decoding, In, Shape
<1>2. e.state = "decoding"
  BY <1>1, ElementExcept
<1> HIDE DEF e
<1>3. [m EXCEPT !.services[s].locked = TRUE] = Put(m, s, e)
  BY <1>1, LockedFields DEF e
<1>4. NoLocked(Put(m, s, e)) = NoLocked(m)
  BY <1>1, <1>2, PutNoLocked
<1> QED
  BY <1>3, <1>4, Zenon

LEMMA FailsNoLocked ==
    ASSUME NEW m, Shape(m), NEW s \in Decoding(m), NEW failed
    PROVE  NoLocked(Fails(m, s, failed)) = NoLocked(m)
<1> DEFINE el == m.services[s]
           y == IF el.connected THEN "failed" ELSE el.state
           e == WithFailed(el, failed, y)
<1>1. s \in InMap(m) /\ el.state = "decoding" /\ Element(el) /\ ~el.connected
  BY DEF Decoding, In, Shape, Element
<1>2. Fails(m, s, failed) = Put(m, s, e)
  BY <1>1, FailsFields
<1>3. y = "decoding"
  BY <1>1
<1> HIDE DEF y
<1>4. e.state = "decoding"
  <2> HIDE DEF el
  <2> QED  BY <1>1, <1>3 DEF WithFailed, Element
<1> HIDE DEF e, el
<1> QED
  BY <1>1, <1>2, <1>4, PutNoLocked DEF el

LEMMA OnTuneSteady ==
    ASSUME NEW p, Plugin(p)
    PROVE  Steady(p, OnTune(p))
<1>1. "getSref" \in TimerNames
  BY DEF TimerNames
<1>2. Steady(p, Start(p, "getSref"))
  BY <1>1, StartSteady
<1> QED
  BY <1>2, SteadyItself DEF OnTune

LEMMA TellsLively ==
    ASSUME Inv, Kept, Lively, Idle, NEW s \in InMap(manager), NEW event \in EventNames,
           UNCHANGED <<enabled, asserted>>, support' = Tells(s, event),
           s \in Decoding(manager) => NoLocked(manager') = NoLocked(manager)
    PROVE  Lively'
<1>1. /\ Plugin(support) /\ Good(support) /\ support.events \in Seq(EventNames)
      /\ Element(manager.services[s]) /\ ~asserted /\ ~support.applying
      /\ support.activating \in BOOLEAN
  BY Parts, SupportParts DEF Kept, Shape, Idle, Plugin
<1>2. CASE ~support.activating
  <2>1. support'.activating = support.activating
    BY <1>1, TellsLike DEF Like
  <2> QED
    BY <1>2, <2>1, QuietLively
<1>3. CASE support.activating /\ manager.services[s].connected
  <2> DEFINE p == GetEvent(support, event)
  <2>1. /\ Plugin(p) /\ p.events # << >> /\ Waits(p, "fccEvent") /\ ~p.applying
        /\ p.activating = support.activating
        /\ \A t : t # "fccEvent" => (Waits(p, t) <=> Waits(support, t))
    BY <1>1, <1>3, GetEventStirs
  <2>2. support' = p \/ support' = OnTune(p)
    BY <1>3 DEF Tells
  <2> HIDE DEF p
  <2>3. Steady(p, support')
    BY <2>1, <2>2, OnTuneSteady, SteadyItself
  <2> QED
    BY <2>1, <2>3, StirredLively DEF Steady
<1>4. CASE support.activating /\ ~manager.services[s].connected
  <2>1. s \in Decoding(manager)
    BY <1>1, <1>4 DEF Element, Decoding, In
  <2>2. support' = support \/ support' = OnTune(support)
    BY <1>4 DEF Tells
  <2>3. Steady(support, support')
    BY <1>1, <2>2, OnTuneSteady, SteadyItself
  <2>4. Live(manager, enabled, support)
    BY <1>1 DEF Lively
  <2>5. Live(manager', enabled, support')
    BY <2>1, <2>3, <2>4, SteadyLive, SameNoLocked
  <2>6. Live(manager', enabled', support')
    BY <2>5
  <2> QED
    BY <2>6 DEF Lively
<1> QED
  BY <1>1, <1>2, <1>3, <1>4

LEMMA TunedInLively ==
    ASSUME Inv, Kept, Lively, NEW s, TunedIn(s)
    PROVE  Lively'
<1>1. /\ Idle /\ s \in InMap(manager) /\ UNCHANGED <<enabled, asserted>>
      /\ manager' = [manager EXCEPT !.services[s].locked = TRUE]
      /\ support' = Tells(s, "tuned")
  BY DEF TunedIn, others
<1>2. s \in Decoding(manager) => NoLocked(manager') = NoLocked(manager)
  BY <1>1, SupportParts, LockedNoLocked
<1>3. "tuned" \in EventNames
  BY DEF EventNames
<1> QED
  BY <1>1, <1>2, <1>3, TellsLively

LEMMA FailedLively ==
    ASSUME Inv, Kept, Lively, NEW s, TuneFailed(s) \/ FccFailed(s)
    PROVE  Lively'
<1>1. /\ Idle /\ s \in InMap(manager) /\ UNCHANGED <<enabled, asserted>>
      /\ \E f : manager' = Fails(manager, s, f)
      /\ support' = Tells(s, "failed") \/ (support' = support /\ Watching(s))
  BY DEF TuneFailed, FccFailed, others
<1>2. s \in Decoding(manager) => NoLocked(manager') = NoLocked(manager)
  BY <1>1, SupportParts, FailsNoLocked
<1>3. "failed" \in EventNames
  BY DEF EventNames
<1>4. CASE support' = support /\ Watching(s)
  <2>1. s \in Decoding(manager)
    BY <1>1, <1>4 DEF Inv, Fits, Watching
  <2>2. Live(manager, enabled, support)
    BY <1>1 DEF Lively, Idle
  <2>3. Live(manager', enabled, support)
    BY <1>2, <2>1, <2>2, SameNoLocked
  <2>4. Live(manager', enabled', support')
    BY <1>1, <1>4, <2>3
  <2> QED
    BY <2>4 DEF Lively
<1> QED
  BY <1>1, <1>2, <1>3, <1>4, TellsLively

LEMMA CreateListLively ==
    ASSUME Inv, Kept, Lively, CreateListTimer
    PROVE  Lively'
<1> DEFINE w == [m |-> manager, p |-> Stop(support, "createList")]
<1>1. PICK c : manager' = CreateList(w, c).m /\ support' = CreateList(w, c).p
  BY DEF CreateListTimer, Becomes, State
<1>2. /\ Rest(support, w.p) /\ Shaped(w.p) /\ w.m = manager /\ Pair(w)
      /\ \A t : Waits(w.p, t) <=> Waits(support, t) /\ t # "createList"
  BY SupportParts, Parts, QueueRest, QueueWaits DEF Rest, Pair
<1> HIDE DEF w
<1>3. \A x \in Fields \ {"list"} : support'[x] = w.p[x]
  <2>1. Named(w.m) /\ Room(w.m, w.p.list) /\ previous \in Names \cup {None}
    BY <1>2 DEF Kept, Rest
  <2> QED
    BY <1>1, <1>2, <2>1, DecodesOne, CreateListKeeps
<1>4. /\ support'.events = support.events /\ support'.queue = w.p.queue
      /\ support'.activating = support.activating /\ support'.applying = support.applying
  BY <1>2, <1>3 DEF Rest, Fields
<1>5. Waits(support, "createList") /\ ~asserted /\ UNCHANGED <<enabled, asserted>>
  <2>1. support.queue # << >> /\ Head(support.queue) = "createList" /\ support.queue \in Seq(TimerNames)
    BY Parts DEF CreateListTimer, Due, Plugin, Queue
  <2>2. 1 \in DOMAIN support.queue /\ Head(support.queue) = support.queue[1]
    BY <2>1, HeadTailProperties, LenProperties, EmptySeq
  <2> QED
    BY <2>1, <2>2 DEF Waits, ToSet, CreateListTimer, Idle, others
<1>6. Live(manager, enabled, support)
  BY <1>5 DEF Lively
<1>7. \A t : Waits(support', t) <=> Waits(support, t) /\ t # "createList"
  BY <1>2, <1>4 DEF Waits
<1>8. Live(manager', enabled', support')
  BY <1>4, <1>5, <1>6, <1>7 DEF Live, Moving
<1> QED
  BY <1>8 DEF Lively

\* The plugin that prepares goes on from the tuning of what is watched: that is
\* in the map, and no recording holds it up.
LEMMA GetSrefLively ==
    ASSUME Inv, Beside, Kept, Lively, GetSrefTimer
    PROVE  Lively'
<1> DEFINE w == [State EXCEPT !.p = Stop(@, "getSref")]
           v == [w EXCEPT !.p = Stop(@, "createList")]
           l(c) == IF "createList" \in ToSet(w.p.queue) THEN CreateList(v, c) ELSE w
           u(c) == [l(c).p EXCEPT !.activating = TRUE]
<1>1. PICK c :
         Becomes(IF ~enabled \/ Suspended(w.p) THEN w
                 ELSE IF running = None \/ ~Playable(Ref[running]) THEN l(c)
                 ELSE [l(c) EXCEPT !.p = GetEvent([@ EXCEPT !.activating = TRUE], "tuned")])
  BY Zenon DEF GetSrefTimer
<1>2. /\ ~asserted /\ ~support.applying /\ UNCHANGED <<enabled, asserted>>
      /\ support.activating \in BOOLEAN /\ Live(manager, enabled, support)
  BY Parts DEF GetSrefTimer, Idle, others, Plugin, Lively
<1>3. Rest(support, w.p) /\ w.m = manager /\ Pair(w) /\ Good(w.p)
  <2>1. w = [m |-> manager, p |-> Stop(support, "getSref")]
    BY DEF State
  <2> HIDE DEF w
  <2> QED  BY <2>1, SupportParts, Parts, QueueRest, StopLike DEF Pair, Like
<1>4. CASE ~enabled \/ Suspended(w.p)
  <2>1. support' = w.p
    BY <1>1, <1>4 DEF Becomes
  <2> HIDE DEF w
  <2>2. ~support.activating
    BY <1>2, <1>3, <1>4 DEF Live, Beside, Rest, Suspended
  <2> QED
    BY <1>3, <2>1, <2>2, QuietLively DEF Rest
<1>5. CASE ~(~enabled \/ Suspended(w.p))
  <2>1. /\ Pair(l(c)) /\ Plugin(l(c).p) /\ l(c).p.activating = support.activating
        /\ l(c).p.applying = support.applying /\ ~Waits(l(c).p, "createList")
        /\ l(c).p.events = support.events
    <3> HIDE DEF w
    <3>1. CASE "createList" \notin ToSet(w.p.queue)
      BY <1>3, <3>1 DEF Rest, Good, Waits
    <3>2. CASE "createList" \in ToSet(w.p.queue)
      <4>1. v = [m |-> manager, p |-> Stop(w.p, "createList")]
        BY <1>3 DEF Pair
      <4>2. /\ Rest(w.p, Stop(w.p, "createList")) /\ Good(Stop(w.p, "createList"))
            /\ ~Waits(Stop(w.p, "createList"), "createList")
        BY <1>3, QueueRest, QueueWaits, StopLike DEF Rest, Good, Like
      <4> HIDE DEF v
      <4>3. /\ Pair(v) /\ Shaped(v.p) /\ Good(v.p) /\ v.m = manager
            /\ ~Waits(v.p, "createList") /\ Rest(support, v.p)
        BY <1>3, <4>1, <4>2, RestRest DEF Rest, Pair
      <4>4. Named(v.m) /\ Room(v.m, v.p.list) /\ previous \in Names \cup {None}
        BY <4>3 DEF Kept, Rest
      <4>5. LET n == CreateList(v, c)
            IN /\ Pair(n)
               /\ \A x \in Fields \ {"list"} : n.p[x] = v.p[x]
        BY <4>3, <4>4, DecodesOne, CreateListKeeps
      <4>6. Like(v.p, CreateList(v, c).p)
        BY <4>3, Parts, CreateListStill
      <4> DEFINE n == CreateList(v, c)
      <4>7. l(c) = n
        BY <3>2
      <4> HIDE DEF n, l
      <4>8. n.p.queue = v.p.queue /\ n.p.events = v.p.events
        BY <4>5 DEF Fields, n
      <4>9. Pair(n) /\ Like(v.p, n.p)
        BY <4>5, <4>6 DEF n
      <4> QED
        BY <4>3, <4>7, <4>8, <4>9 DEF Like, Good, Rest, Waits
    <3> QED
      BY <3>1, <3>2
  <2> HIDE DEF l
  <2>2. CASE running = None \/ ~Playable(Ref[running])
    <3>1. support' = l(c).p
      BY <1>1, <1>5, <2>2 DEF Becomes
    <3>2. ~support.activating
      <4>1. support.activating => running # None /\ Ref[running] \in InMap(manager)
        BY DecodingSubset DEF Inv, Fits
      <4> QED
        BY <2>2, <4>1 DEF Kept, Named, Called
    <3> QED
      BY <2>1, <3>1, <3>2, QuietLively
  <2>3. CASE ~(running = None \/ ~Playable(Ref[running]))
    <3> HIDE DEF w
    <3>1. support' = GetEvent(u(c), "tuned")
      <4>1. [l(c) EXCEPT !.p = GetEvent(u(c), "tuned")].p = GetEvent(u(c), "tuned")
        BY <2>1 DEF Pair
      <4> QED
        BY <1>1, <1>5, <2>3, <4>1 DEF Becomes
    <3>2. /\ Plugin(u(c)) /\ u(c).activating = TRUE /\ u(c).applying = support.applying
          /\ ~Waits(u(c), "createList") /\ u(c).events = support.events
      <4> DEFINE p == l(c).p
      <4>1. ASSUME NEW x \in BOOLEAN
            PROVE  LET n == [p EXCEPT !["activating"] = x]
                   IN /\ Plugin(n) /\ n.activating = x /\ n.applying = p.applying
                      /\ n.queue = p.queue /\ n.events = p.events
        <5> DEFINE n == [p EXCEPT !["activating"] = x]
        <5> HIDE DEF p
        <5>1. Plugin(p)
          BY <2>1 DEF p
        <5>2. Plugin(n) /\ n["activating"] = x /\ \A y \in Fields \ {"activating"} : n[y] = p[y]
          BY <5>1, FieldPlugin DEF Fields
        <5> HIDE DEF n
        <5>3. /\ Plugin(n) /\ n.activating = x /\ n.applying = p.applying
              /\ n.queue = p.queue /\ n.events = p.events
          BY <5>2 DEF Fields
        <5> QED
          BY <5>3 DEF n
      <4>2. TRUE \in BOOLEAN
        OBVIOUS
      <4>3. /\ Plugin(u(c)) /\ u(c).activating = TRUE /\ u(c).applying = p.applying
            /\ u(c).queue = p.queue /\ u(c).events = p.events
        BY <4>1, <4>2, Zenon
      <4> HIDE DEF u
      <4> QED
        BY <2>1, <4>3 DEF Waits
    <3> HIDE DEF u
    <3>3. /\ support'.events # << >> /\ Waits(support', "fccEvent")
          /\ support'.activating /\ ~support'.applying
          /\ ~Waits(support', "createList")
      <4>1. "tuned" \in EventNames /\ u(c).events \in Seq(EventNames)
        BY <3>2 DEF EventNames, Kept
      <4> QED
        BY <1>2, <3>1, <3>2, <4>1, GetEventStirs
    <3>4. enabled'
      BY <1>2, <1>5
    <3>5. Live(manager', enabled', support')
      BY <3>3, <3>4 DEF Live, Moving
    <3> QED
      BY <3>5 DEF Lively
  <2> QED
    BY <2>2, <2>3
<1> QED
  BY <1>4, <1>5

LEMMA FccEventLively ==
    ASSUME Inv, Lively, FccEventTimer
    PROVE  Lively'
<1> DEFINE p == Stop(support, "fccEvent")
           v == support.activating /\ support.events # << >>
           n == [p EXCEPT !["applying"] = v]
<1>1. support' = n /\ UNCHANGED <<manager, enabled, asserted>> /\ ~asserted
  BY DEF FccEventTimer, others, Idle
<1>2. /\ Rest(support, p) /\ Shaped(p)
      /\ \A t : Waits(p, t) <=> Waits(support, t) /\ t # "fccEvent"
  BY Parts, SupportParts, QueueRest, QueueWaits DEF Rest
<1>3. v = (support.activating /\ support.events # << >>) /\ v \in BOOLEAN
  OBVIOUS
<1> HIDE DEF p, v
<1>4. n = [x \in Fields |-> n[x]] /\ \A x \in Fields : n[x] = IF x = "applying" THEN v ELSE p[x]
  BY <1>2, FieldSet DEF Shaped, Fields
<1> HIDE DEF n
<1>5. /\ n.applying = v /\ n.queue = p.queue /\ n.events = p.events /\ n.list = p.list
      /\ n.wait = p.wait /\ n.timeout = p.timeout /\ n.activating = p.activating
  BY <1>4 DEF Fields
<1>6. Live(manager, enabled, support)
  BY <1>1 DEF Lively
<1>7. \A t : Waits(n, t) <=> Waits(support, t) /\ t # "fccEvent"
  BY <1>2, <1>5 DEF Waits
<1>8. Live(manager, enabled, n)
  BY <1>2, <1>3, <1>5, <1>6, <1>7 DEF Live, Moving, Rest
<1>9. Live(manager', enabled', support')
  BY <1>1, <1>8
<1> QED
  BY <1>9 DEF Lively

\* The one that was awaited is given up, and the plugin hears it; otherwise it
\* did not wait for this.
LEMMA FCCTimeoutLively ==
    ASSUME Inv, Kept, Lively, FCCTimeout
    PROVE  Lively'
<1> DEFINE p == [support EXCEPT !.timeout = FALSE]
<1>1. /\ ~asserted /\ ~support.applying /\ UNCHANGED <<enabled, asserted>>
      /\ support.activating \in BOOLEAN /\ Live(manager, enabled, support) /\ Idle
      /\ Plugin(support) /\ support.events \in Seq(EventNames)
  BY Parts DEF FCCTimeout, Idle, others, Plugin, Lively, Kept
<1>2. /\ Plugin(p) /\ p.timeout = FALSE /\ p.events = support.events /\ p.list = support.list
      /\ p.queue = support.queue /\ p.activating = support.activating
      /\ p.applying = support.applying
  <2> DEFINE f == FALSE
             n == [support EXCEPT !["timeout"] = f]
  <2>1. n = p
    OBVIOUS
  <2> HIDE DEF f
  <2>2. n = [x \in Fields |-> n[x]] /\ \A x \in Fields : n[x] = IF x = "timeout" THEN f ELSE support[x]
    <3>1. support = [x \in Fields |-> support[x]] /\ "timeout" \in Fields
      BY Parts DEF Plugin, Fields
    <3> QED
      BY <3>1, FieldSet
  <2> HIDE DEF n, p
  <2>3. /\ n.timeout = f /\ n.events = support.events /\ n.list = support.list
        /\ n.queue = support.queue /\ n.activating = support.activating
        /\ n.applying = support.applying /\ n.tracker = support.tracker
    BY <2>2 DEF Fields
  <2>4. Plugin(n)
    <3>1. Plugin(support)
      BY <1>1
    <3> QED
      BY <2>2, <2>3, <3>1 DEF Plugin
  <2> QED
    BY <2>1, <2>3, <2>4 DEF f
<1>3. IF Awaited(manager) = {support.wait}
      THEN support' = GetEvent(p, "timeout")
      ELSE support' = p /\ UNCHANGED manager
  BY DEF FCCTimeout, GivenUp
<1> HIDE DEF p
<1>4. CASE ~support.activating
  <2>1. support' = GetEvent(p, "timeout") \/ support' = p
    BY <1>3
  <2>2. support' = p
    BY <1>2, <1>4, <2>1 DEF GetEvent
  <2> QED
    BY <1>2, <1>4, <2>2, QuietLively
<1>5. CASE support.activating /\ Awaited(manager) = {support.wait}
  <2>1. "timeout" \in EventNames
    BY DEF EventNames
  <2> DEFINE g == GetEvent(p, "timeout")
  <2>2. /\ support'.events # << >> /\ Waits(support', "fccEvent") /\ ~support'.applying
        /\ support'.activating = support.activating
        /\ \A t : t # "fccEvent" => (Waits(support', t) <=> Waits(p, t))
    <3>1. Plugin(p) /\ p.activating /\ p.events \in Seq(EventNames)
      BY <1>1, <1>2, <1>5
    <3>2. /\ g.events # << >> /\ Waits(g, "fccEvent") /\ g.applying = p.applying
          /\ g.activating = p.activating
          /\ \A t : t # "fccEvent" => (Waits(g, t) <=> Waits(p, t))
      BY <2>1, <3>1, GetEventStirs
    <3>3. support' = g
      BY <1>3, <1>5
    <3> HIDE DEF g
    <3> QED
      BY <1>1, <1>2, <3>2, <3>3
  <2>3. \A t : Waits(p, t) <=> Waits(support, t)
    BY <1>2 DEF Waits
  <2> QED
    BY <1>1, <2>2, <2>3, StirredLively
<1>6. CASE support.activating /\ Awaited(manager) # {support.wait}
  <2>1. support' = p /\ UNCHANGED manager
    BY <1>3, <1>6
  <2>2. Live(manager, enabled, p)
    BY <1>1, <1>2, <1>6 DEF Live, Moving, Waits
  <2>3. Live(manager', enabled', support')
    BY <1>1, <2>1, <2>2
  <2> QED
    BY <2>3 DEF Lively
<1> QED
  BY <1>1, <1>4, <1>5, <1>6

LEMMA ForceStartLively ==
    ASSUME Inv, Lively, ForceStartTimer
    PROVE  Lively'
<1> DEFINE w == [State EXCEPT !.p.forceStart = FALSE]
<1>1. w = [m |-> manager, p |-> [support EXCEPT !.forceStart = FALSE]]
  BY PairFlags
<1> HIDE DEF w
<1>2. Steady(support, w.p) /\ Good(w.p) /\ w.m = manager /\ Pair(w)
  BY <1>1, Parts, MinorFlags, FlagSteady DEF Pair, Like
<1>3. manager' = ForceStart(w).m /\ support' = ForceStart(w).p
  BY DEF ForceStartTimer, Becomes, w
<1>4. manager' = manager
  BY <1>2, <1>3, ForceStartGood
<1>5. Steady(w.p, support')
  BY <1>2, <1>3, ForceStartSteady DEF Good
<1>6. Steady(support, support')
  BY <1>2, <1>5, SteadySteady
<1> QED
  BY <1>4, <1>6, SteadyLively DEF ForceStartTimer, others

LEMMA ResetLively ==
    ASSUME Inv, ResetTimer
    PROVE  Lively'
<1> DEFINE w == [State EXCEPT !.p.reset = FALSE]
           n == ForceStop(w)
<1>1. w = [m |-> manager, p |-> [support EXCEPT !.reset = FALSE]]
  BY PairFlags
<1>2. support' = ForceStart(n).p
  BY DEF ResetTimer, Becomes
<1> HIDE DEF w
<1>3. w.m = manager /\ Plugin(w.p)
  BY <1>1, Parts, MinorFlags DEF Like, Good
<1>4. ~n.p.activating /\ Good(n.p) /\ Pair(n)
  <2>1. Pair(n)
    BY DEF ForceStop, Pair
  <2> QED
    BY <1>3, <2>1, Parts, ForceStopHolds
<1> HIDE DEF n
<1>5. ~support'.activating
  BY <1>2, <1>4, ForceStartGood
<1> QED
  BY <1>5, QuietLively

LEMMA RecordTuneStartLively ==
    ASSUME Inv, Lively, RecordTuneStart
    PROVE  Lively'
<1>1. CASE ~enabled \/ Suspended(support)
  <2>1. UNCHANGED <<manager, support, enabled, asserted>>
    BY <1>1 DEF RecordTuneStart, Becomes, State
  <2>2. Steady(support, support')
    BY <2>1, Parts, SteadyItself
  <2> QED
    BY <2>1, <2>2, SteadyLively
<1>2. CASE enabled /\ ~Suspended(support) /\ support.disableforrec
  <2> DEFINE w == [State EXCEPT !.p.recordings = TRUE]
             n == ForceStop(w)
  <2>1. w = [m |-> manager, p |-> [support EXCEPT !.recordings = TRUE]]
    BY PairFlags
  <2>2. support' = n.p
    BY <1>2 DEF RecordTuneStart, Becomes
  <2> HIDE DEF w
  <2>3. w.m = manager /\ Plugin(w.p)
    BY <2>1, Parts, MinorFlags DEF Like, Good
  <2>4. ~n.p.activating
    BY <2>3, Parts, ForceStopHolds
  <2> QED
    BY <2>2, <2>4, QuietLively
<1>3. CASE enabled /\ ~Suspended(support) /\ ~support.disableforrec
  <2>1. manager' = ForceStopAndStart(State).m /\ support' = ForceStopAndStart(State).p
    BY <1>3 DEF RecordTuneStart, Becomes
  <2> QED
    BY <2>1, StopAndStartBeside, QuietLively
<1> QED
  BY <1>1, <1>2, <1>3

LEMMA StartPipLively ==
    ASSUME Inv, StartPip
    PROVE  Lively'
BY StopAndStartBeside, QuietLively DEF StartPip, Becomes

LEMMA RecordEndLively ==
    ASSUME Inv, Lively, RecordEnd
    PROVE  Lively'
<1>1. UNCHANGED <<enabled, asserted>>
  BY DEF RecordEnd
<1>2. manager' = manager
  BY RecordEndLighter
<1>3. Steady(support, support')
  <2>1. CASE ~enabled
    <3>1. support' = support
      BY <2>1 DEF RecordEnd, Becomes, State
    <3> QED
      BY <3>1, Parts, SteadyItself
  <2>2. CASE enabled /\ ~support.disableforrec
    <3> DEFINE a == [support EXCEPT !.forceStart = FALSE]
               b == [a EXCEPT !.reset = TRUE]
    <3>1. support' = b
      BY <2>2 DEF RecordEnd, Becomes, State
    <3>2. Steady(support, a)
      BY Parts, FlagSteady
    <3> HIDE DEF a
    <3>3. Steady(a, b)
      BY <3>2, FlagSteady DEF Steady
    <3> QED
      BY <3>1, <3>2, <3>3, SteadySteady
  <2>3. CASE enabled /\ support.disableforrec /\ recs' > 0
    <3>1. support' = [support EXCEPT !.recordings = TRUE]
      BY <2>3, PairFlags DEF RecordEnd, Becomes
    <3> QED
      BY <3>1, Parts, FlagSteady
  <2>4. CASE enabled /\ support.disableforrec /\ ~(recs' > 0)
    <3> DEFINE w == [m |-> manager, p |-> [support EXCEPT !.recordings = FALSE]]
    <3>1. support' = ForceStart(w).p
      BY <2>4, PairFlags DEF RecordEnd, Becomes
    <3>2. Pair(w) /\ Steady(support, w.p)
      BY Parts, FlagSteady DEF Pair
    <3> HIDE DEF w
    <3>3. Steady(w.p, support')
      BY <3>1, <3>2, ForceStartSteady DEF Steady
    <3> QED
      BY <3>2, <3>3, SteadySteady
  <2> QED
    BY <2>1, <2>2, <2>3, <2>4
<1> QED
  BY <1>1, <1>2, <1>3, SteadyLively

LEMMA LoopEndsFields ==
    ASSUME NEW p, Shaped(p)
    PROVE  LET n == LoopEnds(p)
           IN /\ n.applying = (p.events # << >>)
              /\ n.list = p.list /\ n.events = p.events /\ n.queue = p.queue
              /\ n.wait = p.wait /\ n.timeout = p.timeout /\ n.activating = p.activating
<1> DEFINE v == p.events # << >>
           n == [p EXCEPT !["applying"] = v]
<1>1. LoopEnds(p) = n /\ v = (p.events # << >>)
  BY DEF LoopEnds
<1> HIDE DEF v
<1>2. n = [x \in Fields |-> n[x]] /\ \A x \in Fields : n[x] = IF x = "applying" THEN v ELSE p[x]
  BY FieldSet DEF Shaped, Fields
<1> HIDE DEF n
<1>3. /\ n.applying = v
      /\ n.list = p.list /\ n.events = p.events /\ n.queue = p.queue
      /\ n.wait = p.wait /\ n.timeout = p.timeout /\ n.activating = p.activating
  BY <1>2 DEF Fields
<1> QED
  BY <1>1, <1>3

LEMMA TimeoutStartFields ==
    ASSUME NEW p, Shaped(p), NEW s
    PROVE  LET n == TimeoutStart(p, s)
           IN /\ n.wait = s /\ n.timeout = TRUE /\ Shaped(n)
              /\ n.list = p.list /\ n.events = p.events /\ n.queue = p.queue
              /\ n.activating = p.activating
<1> DEFINE a == [p EXCEPT !["wait"] = s]
           v == TRUE
           n == [a EXCEPT !["timeout"] = v]
<1>1. TimeoutStart(p, s) = n
  BY DEF TimeoutStart
<1>2. a = [x \in Fields |-> a[x]] /\ \A x \in Fields : a[x] = IF x = "wait" THEN s ELSE p[x]
  BY FieldSet DEF Shaped, Fields
<1>3. v = TRUE
  OBVIOUS
<1> HIDE DEF a, v
<1>4. n = [x \in Fields |-> n[x]] /\ \A x \in Fields : n[x] = IF x = "timeout" THEN v ELSE a[x]
  BY <1>2, FieldSet DEF Fields
<1> HIDE DEF n
<1>5. /\ n.wait = s /\ n.timeout = v /\ Shaped(n)
      /\ n.list = p.list /\ n.events = p.events /\ n.queue = p.queue
      /\ n.activating = p.activating
  BY <1>2, <1>4 DEF Fields, Shaped
<1> QED
  BY <1>1, <1>3, <1>5

\* After a turn of the loop the plugin is in it as long as there are events.
LEMMA LoopLive ==
    ASSUME NEW m, NEW e, e, NEW p, Shaped(p), Moving(m, p),
           Waits(p, "createList") => Waits(p, "getSref")
    PROVE  Live(m, e, LoopEnds(p))
<1> DEFINE n == LoopEnds(p)
<1>1. /\ n.applying = (p.events # << >>)
      /\ n.list = p.list /\ n.events = p.events /\ n.queue = p.queue
      /\ n.wait = p.wait /\ n.timeout = p.timeout /\ n.activating = p.activating
  BY LoopEndsFields
<1> HIDE DEF n
<1>2. Moving(m, n)
  BY <1>1 DEF Moving, Waits
<1>3. n.applying <=> n.events # << >>
  BY <1>1
<1>4. Live(m, e, n)
  BY <1>1, <1>2, <1>3 DEF Live, Waits
<1> QED
  BY <1>4 DEF n

\* What has been prepared and has not locked yet is all that is awaited, when
\* nothing was before.
LEMMA PreparedAwaited ==
    ASSUME NEW m, Shape(m), NoLocked(m) = {}, NEW n \in Preparable, NEW a,
           a.locked = FALSE, a.failed = "no"
    PROVE  Awaited(Prepared(m, Ref[n], n, a)) = {Ref[n]}
<1> DEFINE q == Prepared(m, Ref[n], n, a)
           e == [name |-> n, connected |-> TRUE, normal |-> FALSE,
                 state |-> StateFor(a.failed), locked |-> a.locked, failed |-> a.failed]
           s == Ref[n]
<1>1. e.state = "preparing" /\ e.locked = FALSE
  BY DEF StateFor
<1>2. q = Prepared(m, Ref[n], n, a) /\ e = [name |-> n, connected |-> TRUE, normal |-> FALSE,
                 state |-> StateFor(a.failed), locked |-> a.locked, failed |-> a.failed]
  OBVIOUS
<1> HIDE DEF q, e
<1>3. /\ InMap(q) = InMap(m) \cup {s}
      /\ \A x \in InMap(m) \cup {s} : q.services[x] = IF x = s THEN e ELSE m.services[x]
  BY <1>2, PreparedFields
<1> HIDE DEF s
<1>4. NoLocked(q) = {s}
  <2>1. s \in NoLocked(q)
    BY <1>1, <1>3 DEF NoLocked, In
  <2>2. \A x \in NoLocked(q) : x # s => x \in NoLocked(m)
    BY <1>3 DEF NoLocked, In
  <2> QED
    BY <2>1, <2>2
<1>5. Awaited(q) = {s}
  BY <1>4 DEF Awaited
<1> QED
  BY <1>5 DEF q, s

\* The loop goes on while there are events, and ends with a service that is
\* awaited, or with nothing left to prepare.
LEMMA ApplyEventLively ==
    ASSUME Inv, Kept, Lively, ApplyEvent
    PROVE  Lively'
<1> DEFINE p == TimeoutStop([support EXCEPT !.events = Tail(@)])
           m == IF Head(support.events) = "failed" THEN StopFailed(manager)
                ELSE manager
           n == Head(p.list)
           rest == [p EXCEPT !.list = Tail(@)]
<1>1. /\ Plugin(p) /\ Plugin(rest)
      /\ p.events = Tail(support.events) /\ rest.events = p.events
      /\ p.list = support.list /\ rest.list = Tail(support.list)
      /\ p.activating = support.activating /\ rest.activating = support.activating
      /\ p.queue = support.queue /\ rest.queue = support.queue
  BY Parts, TailParts
<1>2. /\ support.applying /\ ~asserted /\ UNCHANGED enabled
      /\ support.activating /\ enabled /\ support.events # << >>
      /\ Waits(support, "createList") => Waits(support, "getSref")
  BY DEF ApplyEvent, others, Inv, Fits, Lively, Live
<1>3. p.events \in Seq(EventNames) /\ rest.events \in Seq(EventNames)
  <2>1. support.events \in Seq(EventNames)
    BY DEF Kept
  <2>2. Tail(support.events) \in Seq(EventNames)
    BY <1>2, <2>1, HeadTailProperties
  <2> HIDE DEF p, rest
  <2> QED
    BY <1>1, <2>2
<1>4. Shape(m) /\ InMap(m) \subseteq InMap(manager)
  <2>1. Holds(StopFailed(manager), InMap(manager) \ In(manager, "failed"), Decoding(manager))
    BY Parts, StopFailedHolds
  <2> QED
    BY <2>1, SupportParts DEF Holds, Manager
<1> HIDE DEF m
<1>5. /\ Waits(p, "createList") => Waits(p, "getSref")
      /\ Waits(rest, "createList") => Waits(rest, "getSref")
  <2> HIDE DEF p, rest
  <2> QED
    BY <1>1, <1>2 DEF Waits
<1>6. ASSUME NEW q, support' = LoopEnds(q), Shaped(q), Moving(manager', q),
             Waits(q, "createList") => Waits(q, "getSref")
      PROVE  Lively'
  <2>1. Live(manager', enabled, support')
    BY <1>2, <1>6, LoopLive
  <2>2. enabled' = enabled
    BY <1>2
  <2>3. Live(manager', enabled', support')
    BY <2>1, <2>2, Zenon
  <2> QED
    BY <2>3 DEF Lively
<1>7. CASE Awaited(m) # {}
  <2>1. PICK s \in Awaited(m) : manager' = m /\ support' = LoopEnds(TimeoutStart(p, s))
    BY <1>7 DEF ApplyEvent, m
  <2>2. Awaited(m) = {s}
    BY <2>1 DEF Awaited
  <2> DEFINE q == TimeoutStart(p, s)
  <2> HIDE DEF p
  <2>3. Shaped(p)
    BY <1>1 DEF Plugin, Shaped
  <2>4. /\ q.wait = s /\ q.timeout = TRUE /\ Shaped(q) /\ q.queue = p.queue
    BY <2>3, TimeoutStartFields, Zenon
  <2>5. support' = LoopEnds(q) /\ manager' = m
    BY <2>1
  <2> HIDE DEF q
  <2> QED
    BY <1>5, <1>6, <2>2, <2>4, <2>5 DEF Moving, Waits
<1>8. p.list # << >> => Head(p.list) \in Preparable
  <2>1. Room(manager, p.list)
    BY <1>1 DEF Kept
  <2> HIDE DEF p
  <2> QED
    BY <2>1, RoomTail
<1>9. Awaited(m) = {} => NoLocked(m) = {}
  BY DEF Awaited
<1>10. CASE Awaited(m) = {} /\ (p.list # << >> => ~Playable(Ref[n]))
  <2>1. manager' = m /\ support' = LoopEnds(IF p.list = << >> THEN p ELSE rest)
    BY <1>10 DEF ApplyEvent, m
  <2>2. p.list = << >>
    BY <1>8, <1>10 DEF Preparable
  <2> HIDE DEF p, rest
  <2>3. Moving(manager', p) /\ Shaped(p) /\ support' = LoopEnds(p)
    BY <1>1, <1>9, <1>10, <2>1, <2>2 DEF Moving, Plugin, Shaped
  <2> QED
    BY <1>5, <1>6, <2>3
<1>11. CASE Awaited(m) = {} /\ p.list # << >> /\ Playable(Ref[n])
  <2>1. CASE Ref[n] \in InMap(m)
    <3>1. asserted'
      BY <1>11, <2>1 DEF ApplyEvent, m
    <3> QED
      BY <3>1 DEF Lively
  <2>2. CASE Ref[n] \notin InMap(m)
    <3> DEFINE t(a) == IF a.locked THEN GetEvent(rest, "tuned") ELSE rest
               f(a) == IF a.failed = "no" THEN t(a) ELSE GetEvent(t(a), "failed")
               s == Ref[n]
               q(a) == TimeoutStart(f(a), s)
    <3>1. PICK a \in PreparedAs(s) :
                   /\ manager' = Prepared(m, Ref[n], n, a)
                   /\ support' = LoopEnds(q(a))
      BY <1>11, <2>2 DEF ApplyEvent, m
    <3>2. a.locked \in BOOLEAN
      <4> HIDE DEF p, rest, n, s, t, f, q
      <4>1. \A l \in BOOLEAN : [locked |-> l, failed |-> "tune"].locked \in BOOLEAN
        OBVIOUS
      <4>2. CASE s \in Usb
        BY <3>1, <4>1, <4>2 DEF PreparedAs
      <4>3. CASE s \notin Usb
        <5>1. a \in Answers
          BY <3>1, <4>3 DEF PreparedAs
        <5>2. \/ a = [locked |-> FALSE, failed |-> "no"]
              \/ a = [locked |-> TRUE, failed |-> "no"]
              \/ a = [locked |-> FALSE, failed |-> "tune"]
          BY <5>1, Zenon DEF Answers
        <5>3. CASE a = [locked |-> TRUE, failed |-> "no"]
          BY <5>3
        <5>4. CASE a = [locked |-> FALSE, failed |-> "no"]
          BY <5>4
        <5>5. CASE a = [locked |-> FALSE, failed |-> "tune"]
          BY <5>5
        <5> QED
          BY <5>2, <5>3, <5>4, <5>5, Zenon
      <4> QED
        BY <4>2, <4>3
    <3>3. n \in Preparable
      BY <1>8, <1>11
    <3> HIDE DEF p, rest, n, s
    <3>4. "tuned" \in EventNames /\ "failed" \in EventNames
      BY DEF EventNames
    <3>5. /\ Plugin(t(a)) /\ t(a).activating = rest.activating
          /\ t(a).events \in Seq(EventNames)
          /\ a.locked => t(a).events # << >>
          /\ \A x : x # "fccEvent" => (Waits(t(a), x) <=> Waits(rest, x))
          /\ ~a.locked => t(a) = rest
      <4>1. CASE a.locked
        <5>1. t(a) = GetEvent(rest, "tuned")
          BY <4>1
        <5> HIDE DEF t
        <5>2. t(a).events \in Seq(EventNames)
          BY <1>1, <1>3, <3>4, <5>1, GetEventLighter DEF Plugin, Shaped, Lighter
        <5> DEFINE g == GetEvent(rest, "tuned")
        <5>4. Plugin(rest) /\ rest.activating /\ rest.events \in Seq(EventNames)
          BY <1>1, <1>2, <1>3 DEF Plugin, Shaped
        <5>6. /\ Plugin(g) /\ g.events # << >> /\ g.activating = rest.activating
              /\ \A x : x # "fccEvent" => (Waits(g, x) <=> Waits(rest, x))
          BY <3>4, <5>4, GetEventStirs
        <5>7. t(a) = g
          BY <5>1
        <5> HIDE DEF g
        <5>3. /\ Plugin(t(a)) /\ t(a).events # << >> /\ t(a).activating = rest.activating
              /\ \A x : x # "fccEvent" => (Waits(t(a), x) <=> Waits(rest, x))
          BY <5>6, <5>7, Zenon
        <5> QED
          BY <4>1, <5>2, <5>3
      <4>2. CASE ~a.locked
        BY <1>1, <1>3, <4>2
      <4> QED
        BY <4>1, <4>2
    <3> HIDE DEF t
    <3>6. /\ Plugin(f(a))
          /\ a.locked \/ a.failed # "no" => f(a).events # << >>
          /\ \A x : x # "fccEvent" => (Waits(f(a), x) <=> Waits(t(a), x))
      <4>1. CASE a.failed = "no"
        BY <3>5, <4>1
      <4>2. CASE a.failed # "no"
        <5>1. f(a) = GetEvent(t(a), "failed")
          BY <4>2
        <5> HIDE DEF f
        <5>2. t(a).activating
          BY <1>1, <1>2, <3>5
        <5> DEFINE g == GetEvent(t(a), "failed")
        <5>4. /\ Plugin(g) /\ g.events # << >>
              /\ \A x : x # "fccEvent" => (Waits(g, x) <=> Waits(t(a), x))
          BY <3>4, <3>5, <5>2, GetEventStirs
        <5>5. f(a) = g
          BY <5>1
        <5> HIDE DEF g
        <5>3. /\ Plugin(f(a)) /\ f(a).events # << >>
              /\ \A x : x # "fccEvent" => (Waits(f(a), x) <=> Waits(t(a), x))
          BY <5>4, <5>5, Zenon
        <5> QED
          BY <5>3
      <4> QED
        BY <4>1, <4>2
    <3> HIDE DEF f
    <3>7. /\ q(a).wait = s /\ q(a).timeout = TRUE /\ Shaped(q(a))
          /\ q(a).events = f(a).events /\ q(a).queue = f(a).queue
      BY <3>6, TimeoutStartFields DEF Plugin, Shaped
    <3> HIDE DEF q
    <3>8. Moving(manager', q(a))
      <4>1. CASE a.locked \/ a.failed # "no"
        BY <3>6, <3>7, <4>1 DEF Moving
      <4>2. CASE ~(a.locked \/ a.failed # "no")
        <5>1. a.locked = FALSE /\ a.failed = "no" /\ NoLocked(m) = {}
          BY <1>9, <1>11, <3>2, <4>2
        <5>2. Awaited(Prepared(m, Ref[n], n, a)) = {Ref[n]}
          BY <1>4, <3>3, <5>1, PreparedAwaited
        <5>3. Awaited(manager') = {s}
          BY <3>1, <5>2 DEF s
        <5> QED
          BY <3>7, <5>3 DEF Moving
      <4> QED
        BY <4>1, <4>2
    <3>9. Waits(q(a), "createList") => Waits(q(a), "getSref")
      BY <1>5, <3>5, <3>6, <3>7 DEF Waits
    <3> QED
      BY <1>6, <3>1, <3>7, <3>8, <3>9
  <2> QED
    BY <2>1, <2>2
<1> QED
  BY <1>7, <1>10, <1>11 DEF ApplyEvent, m

LEMMA InitLively == Init => Lively
<1> SUFFICES ASSUME Init PROVE Lively
  OBVIOUS
<1>1. PICK d \in BOOLEAN : support = [Quiet EXCEPT !.disableforrec = d]
  BY DEF Init
<1>2. support.activating = FALSE
  BY <1>1 DEF Quiet
<1> QED
  BY <1>2 DEF Lively, Live
-----------------------------------------------------------------------------
LEMMA NextKept == Inv /\ Kept /\ Lively /\ [Next]_vars => Kept'
<1> SUFFICES ASSUME Inv, Kept, Lively, [Next]_vars PROVE Kept'
  OBVIOUS
<1>1. ASSUME NEW n \in Names, Zap(n) PROVE Kept'
  BY <1>1, ZapKept
<1>2. CASE StopService
  BY <1>2, StopServiceKept
<1>3. ASSUME NEW s \in Services, TunedIn(s) \/ TuneFailed(s) \/ FccFailed(s) PROVE Kept'
  BY <1>3, TunedInKept, FailedKept
<1>4. CASE Timers
  <2>1. ApplyEvent => support.events # << >>
    BY DEF ApplyEvent, Inv, Fits, Lively, Live
  <2> QED
    BY <1>4, <2>1, CreateListKept, GetSrefKept, FccEventKept, ApplyEventKept DEF Timers
<1>5. CASE LongTimers
  BY <1>5, FCCTimeoutKept, ForceStartKept, ResetKept DEF LongTimers
<1>6. CASE RecordTuneStart \/ RecordEnd \/ StartPip
  BY <1>6, RecordTuneStartKept, RecordEndKept, StartPipKept
<1>7. ASSUME NEW on \in BOOLEAN, NEW disable \in BOOLEAN, SetupChanged(on, disable) PROVE Kept'
  BY <1>7, SetupKept
<1>8. CASE UNCHANGED vars
  <2>1. UNCHANGED <<manager, support, previous>>
    BY <1>8 DEF vars
  <2> QED
    BY <2>1, SupportParts, RestItself, RestLighter, LighterKept DEF Kept
<1> QED
  BY <1>1, <1>2, <1>3, <1>4, <1>5, <1>6, <1>7, <1>8 DEF Next

LEMMA NextLively == Inv /\ Beside /\ Kept /\ Lively /\ [Next]_vars => Lively'
<1> SUFFICES ASSUME Inv, Beside, Kept, Lively, [Next]_vars PROVE Lively'
  OBVIOUS
<1>1. ASSUME NEW n \in Names, Zap(n) PROVE Lively'
  BY <1>1, ZapStep, QuietLively
<1>2. CASE StopService
  BY <1>2, StopServiceStep, QuietLively
<1>3. ASSUME NEW s \in Services, TunedIn(s) \/ TuneFailed(s) \/ FccFailed(s) PROVE Lively'
  BY <1>3, TunedInLively, FailedLively
<1>4. CASE Timers
  BY <1>4, CreateListLively, GetSrefLively, FccEventLively, ApplyEventLively DEF Timers
<1>5. CASE LongTimers
  BY <1>5, FCCTimeoutLively, ForceStartLively, ResetLively DEF LongTimers
<1>6. CASE RecordTuneStart \/ RecordEnd \/ StartPip
  BY <1>6, RecordTuneStartLively, RecordEndLively, StartPipLively
<1>7. ASSUME NEW on \in BOOLEAN, NEW disable \in BOOLEAN, SetupChanged(on, disable) PROVE Lively'
  BY <1>7, SetupStep, QuietLively
<1>8. CASE UNCHANGED vars
  <2>1. UNCHANGED <<manager, enabled, asserted, support>>
    BY <1>8 DEF vars
  <2> QED
    BY <2>1, Parts, SteadyItself, SteadyLively
<1> QED
  BY <1>1, <1>2, <1>3, <1>4, <1>5, <1>6, <1>7, <1>8 DEF Next

\* What is in the map and what is listed for it keep together to the setting.
Advances == Inv /\ Beside /\ Kept /\ Lively

LEMMA AdvancesAlways == Spec => []Advances
<1>1. Init => Advances
  BY InitInv, InitBeside, InitKept, InitLively DEF Advances
<1>2. Advances /\ [Next]_vars => Advances'
  BY NextInv, NextBeside, NextKept, NextLively DEF Advances
<1> QED
  BY <1>1, <1>2, PTL DEF Spec

\* There are never more services in the map than the setting allows decoders:
\* what is still on the list always finds one free, whatever was zapped, failed
\* or given up since the list was made.
THEOREM NeverMoreThanMax == Spec => []WithinMax
<1>1. Advances => WithinMax
  BY KeptWithinMax DEF Advances
<1> QED
  BY <1>1, AdvancesAlways, PTL

\* While the plugin prepares, it is never left without a timer, an event or an
\* awaited service whose timeout runs, unless all is done.
THEOREM PreparationsGoOn == Spec => []NeverStalls
<1>1. Advances => NeverStalls
  BY LivelyNeverStalls DEF Advances
<1> QED
  BY <1>1, AdvancesAlways, PTL

-----------------------------------------------------------------------------
(***************************************************************************)
(* What is prepared is not in the map: where the names of services are as  *)
(* many as the services, and no name stands twice in the bouquet.          *)
(***************************************************************************)
Distinct(l) == \A i, j \in 1..Len(l) : l[i] = l[j] => i = j

OneName ==
    /\ \A n, o \in Names : Ref[n] = Ref[o] => n = o
    /\ Distinct(Bouquet)

LEMMA EmptyDistinct == Distinct(<< >>)
BY DEF Distinct

\* What is taken from positions with different entries is different.
LEMMA AtPositionsDistinct ==
    ASSUME NEW S, NEW q \in Seq(S), NEW P \in SUBSET (1..Len(q)),
           \A i, j \in P : q[i] = q[j] => i = j
    PROVE  Distinct(AtPositions(q, P))
<1> DEFINE c == Cardinality(P)
           rank(i) == Cardinality({j \in P : j <= i})
           at(k) == CHOOSE i \in P : rank(i) = k
           a == AtPositions(q, P)
<1>1. a = [k \in 1..c |-> q[at(k)]]
  BY DEF AtPositions
<1>2. Len(a) = c /\ c \in Nat
  BY AtPositionsType
<1>3. \A k \in 1..c : at(k) \in P /\ rank(at(k)) = k
  <2>1. ASSUME NEW k \in 1..c PROVE at(k) \in P /\ rank(at(k)) = k
    <3>1. Len(q) \in Nat
      OBVIOUS
    <3>2. \E i \in P : rank(i) = k
      BY <3>1, Ranked
    <3> HIDE DEF rank
    <3> QED  BY <3>2
  <2> QED  BY <2>1
<1> HIDE DEF at, a, c, rank
<1>4. \A k \in 1..c : a[k] = q[at(k)]
  BY <1>1
<1>5. ASSUME NEW k \in 1..c, NEW l \in 1..c, a[k] = a[l] PROVE k = l
  <2>1. at(k) = at(l)
    BY <1>3, <1>4, <1>5
  <2> QED
    BY <1>3, <2>1
<1> QED
  BY <1>2, <1>5 DEF Distinct, a

LEMMA FirstsDistinct ==
    ASSUME NEW S, NEW q \in Seq(S), NEW i \in Firsts(q), NEW j \in Firsts(q), q[i] = q[j]
    PROVE  i = j
<1>1. /\ i \in 1..Len(q) /\ j \in 1..Len(q) /\ Len(q) \in Nat
      /\ \A k \in 1..(i - 1) : q[k] # q[i]
      /\ \A k \in 1..(j - 1) : q[k] # q[j]
  BY DEF Firsts
<1>2. ~(j \in 1..(i - 1)) /\ ~(i \in 1..(j - 1))
  BY <1>1
<1> QED
  BY <1>1, <1>2

LEMMA DistinctFirsts ==
    ASSUME NEW S, NEW q \in Seq(S), Distinct(q)
    PROVE  Firsts(q) = 1..Len(q)
<1>1. Len(q) \in Nat
  OBVIOUS
<1>2. ASSUME NEW i \in 1..Len(q), NEW j \in 1..(i - 1)
      PROVE  q[j] # q[i]
  <2>1. j \in 1..Len(q) /\ j # i
    BY <1>1
  <2> QED
    BY <2>1 DEF Distinct
<1> QED
  BY <1>2 DEF Firsts

LEMMA ListedDistinct ==
    ASSUME Distinct(Bouquet)
    PROVE  Distinct(Listed)
<1> DEFINE P == {i \in 1..Len(Bouquet) : Playable(Ref[Bouquet[i]])}
<1>1. Bouquet \in Seq(Names) /\ P \in SUBSET (1..Len(Bouquet))
  BY SupportAssumption
<1>2. \A i, j \in P : Bouquet[i] = Bouquet[j] => i = j
  BY DEF Distinct
<1>3. Listed = AtPositions(Bouquet, P)
  BY DEF Listed
<1> HIDE DEF P
<1> QED
  BY <1>1, <1>2, <1>3, AtPositionsDistinct

\* The next and the previous of three or more are two.
LEMMA Neighbours ==
    ASSUME NEW n \in Nat, n >= 3, NEW i \in 0..(n - 1)
    PROVE  (i + 1) % n # (i + (-1)) % n
OBVIOUS

\* The first two of the zap order.
LEMMA ZapUpDownDistinct ==
    ASSUME Distinct(Bouquet), NEW c, Len(ZapUpDown(c)) >= 2
    PROVE  ZapUpDown(c)[1] # ZapUpDown(c)[2]
<1> DEFINE n == Len(Listed)
           I == {j \in 1..Len(Listed) : Listed[j] = c}
           i == (IF I # {} THEN Min(I) ELSE 0) - 1
           step(x) == IF x % 2 = 0 THEN x \div 2 + 1 ELSE -(x \div 2 + 1)
           count == IF n < MaxFCC THEN n - 1 ELSE MaxFCC - 1
           z == [x \in 1..count |-> Listed[((i + step(x - 1)) % n) + 1]]
<1>1. ZapUpDown(c) = IF i < 0 THEN << >> ELSE z
  BY DEF ZapUpDown, SelectInSeq
<1>2. ~(i < 0)
  <2>1. i < 0 => Len(ZapUpDown(c)) = 0
    BY <1>1
  <2> QED
    BY <2>1
<1>3. n \in Nat /\ Listed \in Seq(Preparable)
  BY ListedType
<1>4. I # {}
  <2>1. I = {} => i = 0 - 1
    OBVIOUS
  <2> HIDE DEF I, i
  <2> QED
    BY <1>2, <2>1
<1>5. Min(I) \in I /\ I \subseteq 1..n
  <2>1. I \subseteq Nat /\ I \subseteq 1..n
    BY <1>3
  <2> HIDE DEF I
  <2> QED
    BY <1>4, <2>1, Least
<1>6. i \in 0..(n - 1)
  <2>1. i = Min(I) - 1
    BY <1>4
  <2> DEFINE u == Min(I)
  <2>2. u \in 1..n
    BY <1>5
  <2> HIDE DEF I, i, n, u
  <2> QED
    BY <1>3, <2>1, <2>2 DEF u
<1>7. count \in Nat /\ count <= n - 1
  <2> HIDE DEF n, i
  <2> QED
    BY <1>3, <1>6, SupportAssumption
<1> HIDE DEF count, n, i
<1>8. ZapUpDown(c) = z /\ Len(z) = count
  BY <1>1, <1>2, <1>7
<1>9. count >= 2 /\ n >= 3
  BY <1>3, <1>7, <1>8
<1>10. step(0) = 1 /\ step(1) = -1
  OBVIOUS
<1>11. z[1] = Listed[((i + 1) % n) + 1] /\ z[2] = Listed[((i + (-1)) % n) + 1]
  <2>1. 1 \in 1..count /\ 2 \in 1..count /\ 1 - 1 = 0 /\ 2 - 1 = 1
    BY <1>7, <1>9
  <2> HIDE DEF step
  <2>2. z[1] = Listed[((i + step(0)) % n) + 1] /\ z[2] = Listed[((i + step(1)) % n) + 1]
    BY <2>1
  <2> QED
    BY <1>10, <2>2
<1> HIDE DEF z
<1> DEFINE a == ((i + 1) % n) + 1
           b == ((i + (-1)) % n) + 1
<1>12. a \in 1..n /\ b \in 1..n /\ a # b
  <2> DEFINE d == (i + 1) % n
             e == (i + (-1)) % n
  <2>1. d # e
    BY <1>3, <1>6, <1>9, Neighbours
  <2>2. d \in 0..(n - 1) /\ e \in 0..(n - 1)
    BY <1>3, <1>6, <1>9
  <2> HIDE DEF d, e
  <2>3. d + 1 \in 1..n /\ e + 1 \in 1..n /\ d + 1 # e + 1
    BY <1>3, <2>1, <2>2
  <2> QED
    BY <2>3 DEF d, e
<1> HIDE DEF a, b
<1>13. Listed[a] # Listed[b]
  BY <1>12, ListedDistinct DEF Distinct, n
<1> QED
  BY <1>8, <1>11, <1>13 DEF a, b

LEMMA SubSeqDistinct ==
    ASSUME NEW S, NEW q \in Seq(S), Distinct(q), NEW k \in Nat, k <= Len(q)
    PROVE  Distinct(SubSeq(q, 1, k))
<1> DEFINE t == SubSeq(q, 1, k)
<1>1. Len(t) = k /\ \A i \in 1..k : t[i] = q[i]
  OBVIOUS
<1> HIDE DEF t
<1>2. \A i \in 1..k : i \in 1..Len(q)
  OBVIOUS
<1> QED
  BY <1>1, <1>2 DEF Distinct, t

LEMMA AddFCCDistinct ==
    ASSUME NEW list \in Seq(Preparable), NEW new \in Seq(Preparable), Distinct(list)
    PROVE  Distinct(AddFCCList(list, new))
<1> DEFINE added == {i \in Firsts(new) : new[i] \notin ToSet(list)}
           at == AtPositions(new, added)
           all == list \o at
           k == IF Len(all) < MaxFCC - 1 THEN Len(all) ELSE MaxFCC - 1
<1>1. /\ added \in SUBSET (1..Len(new))
      /\ \A i \in added : new[i] \notin ToSet(list)
      /\ \A i, j \in added : new[i] = new[j] => i = j
  BY FirstsType, FirstsDistinct
<1> HIDE DEF added
<1>2. /\ at \in Seq(Preparable) /\ Distinct(at) /\ Len(at) = Cardinality(added)
      /\ \A x \in 1..Cardinality(added) : \E i \in added : at[x] = new[i]
  BY <1>1, AtPositionsType, AtPositionsDistinct
<1>3. \A x \in 1..Len(at) : at[x] \notin ToSet(list)
  BY <1>1, <1>2
<1> HIDE DEF at
<1>4. all \in Seq(Preparable) /\ Len(all) = Len(list) + Len(at)
  BY <1>2, SMTT(30)
<1>5. Distinct(all)
  <2>1. \A i \in 1..Len(all) :
           \/ i \in 1..Len(list) /\ all[i] = list[i]
           \/ i - Len(list) \in 1..Len(at) /\ all[i] = at[i - Len(list)] /\ i \notin 1..Len(list)
    BY <1>2
  <2>2. \A i \in 1..Len(list) : list[i] \in ToSet(list)
    BY DEF ToSet
  <2> SUFFICES ASSUME NEW i \in 1..Len(all), NEW j \in 1..Len(all), all[i] = all[j] PROVE i = j
    BY DEF Distinct
  <2> HIDE DEF all
  <2>3. CASE i \in 1..Len(list) /\ j \in 1..Len(list)
    BY <2>1, <2>3 DEF Distinct
  <2>4. CASE i \notin 1..Len(list) /\ j \notin 1..Len(list)
    <3> DEFINE u == i - Len(list)
               v == j - Len(list)
    <3>1. u \in 1..Len(at) /\ v \in 1..Len(at) /\ at[u] = at[v]
      BY <2>1, <2>4
    <3>2. u = v
      <4> HIDE DEF u, v
      <4> QED  BY <1>2, <3>1 DEF Distinct
    <3>3. i \in Int /\ j \in Int /\ Len(list) \in Int
      BY <1>2, <1>4
    <3> QED
      BY <3>2, <3>3
  <2>5. CASE i \in 1..Len(list) /\ j \notin 1..Len(list)
    BY <1>3, <2>1, <2>2, <2>5, Zenon
  <2>6. CASE i \notin 1..Len(list) /\ j \in 1..Len(list)
    BY <1>3, <2>1, <2>2, <2>6, Zenon
  <2> QED
    BY <2>3, <2>4, <2>5, <2>6
<1>6. Len(all) \in Nat
  BY <1>4
<1> HIDE DEF all
<1>7. k \in Nat /\ k <= Len(all)
  BY <1>6, SupportAssumption
<1> HIDE DEF k
<1>8. Distinct(SubSeq(all, 1, k))
  BY <1>4, <1>5, <1>7, SubSeqDistinct
<1> QED
  BY <1>8 DEF AddFCCList, all, k, at, added

LEMMA WantedDistinct ==
    ASSUME previous \in Names \cup {None}, Distinct(Bouquet), NEW c
    PROVE  Distinct(Wanted(c))
<1> DEFINE near == ZapUpDown(c)
           k == IF Len(near) > 2 THEN 2 ELSE Len(near)
           first == SubSeq(near, 1, k)
           prev == IF History THEN HistoryPrev ELSE << >>
           l == AddFCCList(first, prev)
<1>1. /\ near \in Seq(Preparable)
      /\ Len(near) >= 2 => near[1] # near[2]
  BY ZapUpDownListing, ZapUpDownDistinct DEF Listing
<1> HIDE DEF near
<1>2. k \in Nat /\ k <= Len(near) /\ k <= 2 /\ (k = 2 => Len(near) >= 2)
  BY <1>1
<1> HIDE DEF k
<1>3. \A i \in 1..k : near[i] \in Preparable
  BY <1>1, <1>2, ElementOfSeq
<1>4. /\ first \in Seq(Preparable) /\ Len(first) = k
      /\ \A i \in 1..k : first[i] = near[i]
  <2>1. 1 \in Int /\ k \in Int /\ (IF 1 <= k THEN k - 1 + 1 ELSE 0) = k
        /\ \A i \in 1..k : 1 + i - 1 = i
    BY <1>2
  <2> QED
    BY <1>1, <1>2, <1>3, <2>1, SubSeqProperties
<1>5. Distinct(first)
  <2> HIDE DEF first
  <2> SUFFICES ASSUME NEW i \in 1..k, NEW j \in 1..k, i # j PROVE first[i] # first[j]
    BY <1>4 DEF Distinct
  <2>1. k = 0 \/ k = 1 \/ k = 2
    BY <1>2
  <2>2. k = 2 /\ ((i = 1 /\ j = 2) \/ (i = 2 /\ j = 1))
    BY <2>1
  <2> QED
    BY <1>1, <1>2, <1>4, <2>2
<1>6. prev \in Seq(Preparable)
  BY HistoryListing
<1> HIDE DEF first, prev
<1>7. l \in Seq(Preparable) /\ Distinct(l)
  BY <1>4, <1>5, <1>6, AddFCCListing, AddFCCDistinct DEF Listing
<1> HIDE DEF l
<1>8. Distinct(AddFCCList(l, near))
  BY <1>1, <1>7, AddFCCDistinct
<1> QED
  BY <1>8 DEF Wanted, l, first, prev, k, near

\* No entry of the list stands for a service of the map.
Fresh(m, l) == \A i \in 1..Len(l) : Ref[l[i]] \notin InMap(m)

\* FCCCreateList: what is left on the list is not in the map.
LEMMA MissingFresh ==
    ASSUME OneName, NEW m, Named(m), NEW l, Listing(l), Distinct(l)
    PROVE  /\ Distinct(Missing(m, l))
           /\ Fresh(Stopped(m, Unwanted(m, l)), Missing(m, l))
<1> DEFINE known == {m.services[s].name : s \in InMap(m) \ In(m, "failed")}
           taken == {i \in Firsts(l) : l[i] \in known}
           P == 1..Len(l) \ taken
           a == AtPositions(l, P)
           n == Stopped(m, Unwanted(m, l))
<1>1. l \in Seq(Preparable) /\ Firsts(l) = 1..Len(l)
  BY DistinctFirsts DEF Listing
<1>2. P \in SUBSET (1..Len(l)) /\ \A i \in P : l[i] \notin known /\ l[i] \in Names
  <2>1. \A i \in 1..Len(l) : l[i] \in Names
    BY <1>1, ElementOfSeq DEF Preparable
  <2> HIDE DEF known
  <2> QED
    BY <1>1, <2>1
<1>3. Missing(m, l) = a
  BY DEF Missing
<1> HIDE DEF P
<1>4. \A i, j \in P : l[i] = l[j] => i = j
  BY <1>2 DEF Distinct
<1>5. /\ Distinct(a) /\ Len(a) = Cardinality(P)
      /\ \A k \in 1..Cardinality(P) : \E i \in P : a[k] = l[i]
  BY <1>1, <1>2, <1>4, AtPositionsType, AtPositionsDistinct
<1> HIDE DEF a
<1>6. \A k \in 1..Len(a) : a[k] \notin known /\ a[k] \in Names
  <2> HIDE DEF known
  <2> QED
    BY <1>2, <1>5
<1>7. ASSUME NEW s \in InMap(n)
      PROVE  m.services[s].name \in known /\ m.services[s].name \in Names /\ Ref[m.services[s].name] = s
  <2>1. s \in InMap(m) \ Unwanted(m, l)
    BY StoppedFields
  <2>2. s \in InMap(m) /\ s \notin In(m, "failed")
    BY <2>1 DEF Unwanted
  <2> QED
    BY <2>2 DEF Named, Called
<1> HIDE DEF known, n
<1>8. Fresh(n, a)
  <2> SUFFICES ASSUME NEW k \in 1..Len(a), Ref[a[k]] \in InMap(n) PROVE FALSE
    BY DEF Fresh
  <2> DEFINE s == Ref[a[k]]
  <2>1. /\ m.services[s].name \in known /\ m.services[s].name \in Names
        /\ Ref[m.services[s].name] = s
    BY <1>7
  <2>2. m.services[s].name = a[k]
    BY <1>6, <2>1 DEF OneName
  <2> QED
    BY <1>6, <2>1, <2>2
<1> QED
  BY <1>3, <1>5, <1>8 DEF n

LEMMA CreateListFresh ==
    ASSUME OneName, NEW w, Pair(w), Shaped(w.p), Named(w.m), enabled, ~Suspended(w.p),
           previous \in Names \cup {None}, NEW c
    PROVE  LET n == CreateList(w, c)
           IN Distinct(n.p.list) /\ Fresh(n.m, n.p.list)
<1> DEFINE l == Wanted(c)
           v == Missing(w.m, l)
           n == CreateList(w, c)
           o == [w.p EXCEPT !["list"] = v]
<1>1. n = [m |-> Stopped(w.m, Unwanted(w.m, l)), p |-> o]
  BY DEF CreateList
<1>2. Listing(l) /\ Distinct(l)
  BY WantedListing, WantedDistinct DEF OneName
<1> HIDE DEF l
<1>3. Distinct(v) /\ Fresh(Stopped(w.m, Unwanted(w.m, l)), v)
  BY <1>2, MissingFresh
<1> HIDE DEF v
<1>4. \A x \in Fields : o[x] = IF x = "list" THEN v ELSE w.p[x]
  BY FieldSet DEF Shaped, Fields
<1> HIDE DEF o
<1>5. o.list = v
  BY <1>4 DEF Fields
<1> HIDE DEF n
<1>6. n.m = Stopped(w.m, Unwanted(w.m, l)) /\ n.p.list = v
  BY <1>1, <1>5
<1> QED
  BY <1>3, <1>6 DEF n

-----------------------------------------------------------------------------
(***************************************************************************)
(* The invariant.  While the plugin prepares, or is about to with the list *)
(* it has, no entry of the list is in the map.  A service that is zapped   *)
(* to while it is listed comes into the map; the list is then made anew    *)
(* before the plugin goes on.                                              *)
(***************************************************************************)
Ready(e, p) ==
    \/ p.activating
    \/ p.tracker /\ e /\ ~Suspended(p) /\ ~Waits(p, "createList")

Spare ==
    /\ ~asserted
    /\ Distinct(support.list)
    /\ Ready(enabled, support) => Fresh(manager, support.list)

LEMMA FreshLess ==
    ASSUME NEW m, NEW l, Fresh(m, l), NEW n, InMap(n) \subseteq InMap(m)
    PROVE  Fresh(n, l)
BY DEF Fresh

LEMMA FreshNothing ==
    ASSUME NEW m, NEW l, l = << >> \/ InMap(m) = {}
    PROVE  Fresh(m, l)
<1>1. CASE l = << >>
  BY <1>1 DEF Fresh
<1>2. CASE InMap(m) = {}
  BY <1>2 DEF Fresh
<1> QED
  BY <1>1, <1>2

\* A step that lists nothing new.
LEMMA LighterSpare ==
    ASSUME Spare, UNCHANGED asserted, Lighter(support, support'),
           Ready(enabled', support') =>
              \/ Ready(enabled, support) /\ InMap(manager') \subseteq InMap(manager)
              \/ support'.list = << >>
              \/ InMap(manager') = {}
    PROVE  Spare'
<1>1. Distinct(support'.list)
  BY EmptyDistinct DEF Spare, Lighter
<1>2. ASSUME Ready(enabled', support') PROVE Fresh(manager', support'.list)
  <2>1. CASE support'.list = << >> \/ InMap(manager') = {}
    BY <2>1, FreshNothing
  <2>2. CASE /\ support'.list = support.list
             /\ Ready(enabled, support) /\ InMap(manager') \subseteq InMap(manager)
    BY <2>2, FreshLess DEF Spare
  <2> QED
    BY <1>2, <2>1, <2>2 DEF Lighter
<1> QED
  BY <1>1, <1>2 DEF Spare

\* A plugin that is not readier than before.
Calmer(p, n) ==
    /\ n.activating => p.activating
    /\ n.tracker => p.tracker
    /\ n.recordings = p.recordings /\ n.disableforrec = p.disableforrec
    /\ Waits(p, "createList") => Waits(n, "createList")

LEMMA CalmerSpare ==
    ASSUME Spare, UNCHANGED <<asserted, enabled>>, InMap(manager') \subseteq InMap(manager),
           Lighter(support, support'), Calmer(support, support')
    PROVE  Spare'
<1>1. Ready(enabled', support') => Ready(enabled, support)
  BY DEF Ready, Calmer, Suspended
<1> QED
  BY <1>1, LighterSpare

LEMMA CalmerCalmer ==
    ASSUME NEW p, NEW n, NEW o, Calmer(p, n), Calmer(n, o)
    PROVE  Calmer(p, o)
BY DEF Calmer

LEMMA CalmerItself ==
    ASSUME NEW p
    PROVE  Calmer(p, p)
BY DEF Calmer

LEMMA LikeCalmer ==
    ASSUME NEW p, NEW n, Like(p, n), Same(p, n),
           Waits(p, "createList") => Waits(n, "createList")
    PROVE  Calmer(p, n)
BY DEF Like, Same, Calmer

LEMMA GetEventCalmer ==
    ASSUME NEW p, Good(p), p.events \in Seq(EventNames), NEW event \in EventNames
    PROVE  Calmer(p, GetEvent(p, event))
<1>1. Plugin(p) /\ Shaped(p)
  BY DEF Good, Plugin, Shaped
<1>2. Like(p, GetEvent(p, event)) /\ Same(p, GetEvent(p, event))
  BY <1>1, GetEventLike, GetEventSame
<1>3. Waits(p, "createList") => Waits(GetEvent(p, event), "createList")
  <2>1. CASE p.activating
    <3>1. \A t : t # "fccEvent" => (Waits(GetEvent(p, event), t) <=> Waits(p, t))
      BY <1>1, <2>1, GetEventStirs
    <3> QED
      BY <3>1
  <2>2. CASE ~p.activating
    BY <2>2 DEF GetEvent
  <2> QED
    BY <2>1, <2>2
<1> QED
  BY <1>2, <1>3, LikeCalmer

LEMMA OnTuneCalmer ==
    ASSUME NEW p, Good(p)
    PROVE  Calmer(p, OnTune(p))
<1>1. Plugin(p) /\ Shaped(p)
  BY DEF Good, Plugin, Shaped
<1>2. Like(p, OnTune(p)) /\ Same(p, OnTune(p)) /\ Steady(p, OnTune(p))
  BY <1>1, OnTuneLike, AnnouncedSame, OnTuneSteady
<1> QED
  BY <1>2, LikeCalmer DEF Steady

LEMMA TellsCalmer ==
    ASSUME Inv, Kept, NEW s, NEW event \in EventNames
    PROVE  Calmer(support, Tells(s, event))
<1> DEFINE p == IF manager.services[s].connected THEN GetEvent(support, event)
                ELSE support
<1>1. Good(support) /\ support.events \in Seq(EventNames)
  BY Parts DEF Kept
<1>2. Calmer(support, p) /\ Good(p)
  BY <1>1, GetEventCalmer, CalmerItself, GetEventLike DEF Like
<1>3. Tells(s, event) = IF Watching(s) THEN OnTune(p) ELSE p
  BY DEF Tells
<1> HIDE DEF p
<1> QED
  BY <1>2, <1>3, OnTuneCalmer, CalmerCalmer

LEMMA TunedInSpare ==
    ASSUME Inv, Kept, Spare, NEW s, TunedIn(s)
    PROVE  Spare'
<1>1. InMap(manager') = InMap(manager)
  BY Parts, LockedHolds DEF TunedIn, Holds
<1>2. /\ support' = Tells(s, "tuned") /\ UNCHANGED <<asserted, enabled>>
      /\ "tuned" \in EventNames
  BY DEF TunedIn, others, EventNames
<1>3. Lighter(support, support') /\ Calmer(support, support')
  BY <1>2, SupportParts, TellsLighter, TellsCalmer
<1> QED
  BY <1>1, <1>2, <1>3, CalmerSpare

LEMMA FailedSpare ==
    ASSUME Inv, Kept, Spare, NEW s, TuneFailed(s) \/ FccFailed(s)
    PROVE  Spare'
<1>1. InMap(manager') = InMap(manager)
  BY Parts, FailsHolds DEF TuneFailed, FccFailed, Holds
<1>2. /\ support' = Tells(s, "failed") \/ support' = support
      /\ UNCHANGED <<asserted, enabled>> /\ "failed" \in EventNames
  BY DEF TuneFailed, FccFailed, others, EventNames
<1>3. Lighter(support, support') /\ Calmer(support, support')
  BY <1>2, SupportParts, TellsLighter, TellsCalmer, RestItself, RestLighter, CalmerItself
<1> QED
  BY <1>1, <1>2, <1>3, CalmerSpare

\* A field that has nothing to do with what the plugin is about to do.
LEMMA FieldCalmer ==
    ASSUME NEW p, Shaped(p), NEW f \in {"applying", "timeout", "forceStart", "reset"}, NEW v
    PROVE  Calmer(p, [p EXCEPT ![f] = v]) /\ Lighter(p, [p EXCEPT ![f] = v])
<1> DEFINE n == [p EXCEPT ![f] = v]
<1>1. n = [x \in Fields |-> n[x]] /\ \A x \in Fields : n[x] = IF x = f THEN v ELSE p[x]
  BY FieldSet DEF Shaped, Fields
<1>2. Lighter(p, n)
  BY SetLighter DEF Fields
<1> HIDE DEF n
<1>3. /\ n.activating = p.activating /\ n.tracker = p.tracker /\ n.queue = p.queue
      /\ n.recordings = p.recordings /\ n.disableforrec = p.disableforrec
  BY <1>1 DEF Fields
<1>4. Calmer(p, n)
  BY <1>3 DEF Calmer, Waits
<1> QED
  BY <1>2, <1>4 DEF n

LEMMA StopCalmer ==
    ASSUME NEW p, Good(p), NEW timer, timer # "createList"
    PROVE  Calmer(p, Stop(p, timer))
<1>1. Plugin(p) /\ Shaped(p)
  BY DEF Good, Plugin, Shaped
<1>2. Like(p, Stop(p, timer)) /\ Same(p, Stop(p, timer))
  BY <1>1, StopLike, StopSame
<1>3. Waits(p, "createList") => Waits(Stop(p, timer), "createList")
  BY <1>1, QueueWaits
<1> QED
  BY <1>2, <1>3, LikeCalmer

LEMMA FccEventSpare ==
    ASSUME Inv, Spare, FccEventTimer
    PROVE  Spare'
<1> DEFINE p == Stop(support, "fccEvent")
           v == support.activating /\ support.events # << >>
           n == [p EXCEPT !["applying"] = v]
<1>1. support' = n /\ UNCHANGED <<manager, enabled, asserted>>
  BY DEF FccEventTimer, others
<1>2. Lighter(support, p) /\ Calmer(support, p) /\ Shaped(p)
  BY Parts, SupportParts, QueueRest, RestLighter, StopCalmer DEF Rest
<1> HIDE DEF p, v
<1>3. Calmer(p, n) /\ Lighter(p, n)
  BY <1>2, FieldCalmer
<1> HIDE DEF n
<1>4. Calmer(support, support') /\ Lighter(support, support')
  BY <1>1, <1>2, <1>3, CalmerCalmer, LighterLighter
<1> QED
  BY <1>1, <1>4, CalmerSpare

LEMMA FCCTimeoutSpare ==
    ASSUME Inv, Kept, Spare, FCCTimeout
    PROVE  Spare'
<1> DEFINE p == [support EXCEPT !.timeout = FALSE]
<1>1. Calmer(support, p) /\ Lighter(support, p) /\ Good(p)
  <2>1. \A x : /\ Calmer(support, [support EXCEPT !["timeout"] = x])
               /\ Lighter(support, [support EXCEPT !["timeout"] = x])
    BY SupportParts, FieldCalmer
  <2>2. Good(p)
    BY Parts, MinorFlags DEF Like
  <2> QED
    BY <2>1, <2>2, Zenon
<1>2. /\ support' = p \/ support' = GivenUp(p)
      /\ manager' = manager \/ manager' = Stopped(manager, {support.wait})
      /\ UNCHANGED <<enabled, asserted>>
  BY DEF FCCTimeout, others
<1> HIDE DEF p
<1>3. "timeout" \in EventNames /\ p.events \in Seq(EventNames) /\ Shaped(p)
  BY <1>1 DEF EventNames, Kept, Lighter
<1>4. Calmer(p, GivenUp(p)) /\ Lighter(p, GivenUp(p))
  BY <1>1, <1>3, GetEventCalmer, GetEventLighter DEF GivenUp
<1>5. Calmer(support, support') /\ Lighter(support, support')
  BY <1>1, <1>2, <1>4, CalmerCalmer, LighterLighter
<1>6. InMap(manager') \subseteq InMap(manager)
  BY <1>2, StoppedFields
<1> QED
  BY <1>2, <1>5, <1>6, CalmerSpare

\* The list is about to be made anew.
LEMMA ListWaits ==
    ASSUME Spare, UNCHANGED asserted, Lighter(support, support'),
           support'.activating => support.activating /\ InMap(manager') \subseteq InMap(manager),
           support'.tracker => Waits(support', "createList")
    PROVE  Spare'
<1>1. Ready(enabled', support') =>
         Ready(enabled, support) /\ InMap(manager') \subseteq InMap(manager)
  BY DEF Ready
<1> QED
  BY <1>1, LighterSpare

LEMMA ForceStartWaits ==
    ASSUME NEW w, Pair(w), Plugin(w.p)
    PROVE  Waits(ForceStart(w).p, "createList")
<1> DEFINE a == [w.p EXCEPT !.tracker = TRUE]
           b == Start(a, "createList")
           c == Start(b, "getSref")
<1>1. ForceStart(w).p = c
  BY DEF ForceStart, Pair
<1>2. Plugin(a)
  BY TrackerSet
<1> HIDE DEF a
<1>3. Waits(b, "createList")
  BY <1>2, QueueWaits DEF TimerNames
<1>4. Plugin(b)
  <2>1. "createList" \in TimerNames
    BY DEF TimerNames
  <2> DEFINE q == Append(Without(a.queue, "createList"), "createList")
  <2>2. Queue(q)
    <3>1. Queue(Without(a.queue, "createList"))
          /\ ToSet(Without(a.queue, "createList")) = ToSet(a.queue) \ {"createList"}
      BY <1>2, WithoutQueue DEF Plugin
    <3> QED
      BY <2>1, <3>1, AppendQueue
  <2> HIDE DEF q
  <2>3. Plugin([a EXCEPT !.queue = q])
    BY <1>2, <2>2, QueueSet
  <2> QED
    BY <2>3 DEF Start, q
<1> HIDE DEF b
<1>5. Waits(c, "createList")
  BY <1>3, <1>4, QueueWaits DEF TimerNames
<1> QED
  BY <1>1, <1>5

LEMMA ForceStartSpare ==
    ASSUME Inv, Spare, ForceStartTimer
    PROVE  Spare'
<1> DEFINE w == [State EXCEPT !.p.forceStart = FALSE]
<1>1. w = [m |-> manager, p |-> [support EXCEPT !.forceStart = FALSE]]
  BY PairFlags
<1> HIDE DEF w
<1>2. /\ Rest(support, w.p) /\ Good(w.p) /\ Plugin(w.p) /\ w.m = manager /\ Pair(w)
  BY <1>1, Parts, SupportParts, MinorFlags, FlagRest DEF Pair, Like, Good
<1>3. manager' = ForceStart(w).m /\ support' = ForceStart(w).p /\ UNCHANGED asserted
  BY DEF ForceStartTimer, Becomes, w
<1>4. manager' = manager
  BY <1>2, <1>3, ForceStartGood
<1>5. Rest(w.p, support') /\ Waits(support', "createList")
  BY <1>2, <1>3, ForceStartRest, ForceStartWaits DEF Rest
<1>6. Lighter(support, support') /\ support'.activating = support.activating
  BY <1>2, <1>5, RestRest, RestLighter DEF Rest
<1> QED
  BY <1>3, <1>4, <1>5, <1>6, ListWaits

\* Nothing is listed.
LEMMA EmptySpare ==
    ASSUME Spare, UNCHANGED asserted, support'.list = << >>
    PROVE  Spare'
BY EmptyDistinct, FreshNothing DEF Spare

LEMMA ForceStopEmpty ==
    ASSUME NEW w, Shaped(w.p)
    PROVE  ForceStop(w).p.list = << >> /\ Shaped(ForceStop(w).p)
<1> DEFINE o == [w.p EXCEPT !.tracker = FALSE]
<1>1. ForceStop(w).p = Disabled(o)
  BY DEF ForceStop
<1>2. Shaped(o)
  BY FlagRest DEF Rest
<1> HIDE DEF o
<1> QED
  BY <1>1, <1>2, DisabledLighter DEF Lighter

LEMMA ResetSpare ==
    ASSUME Inv, Spare, ResetTimer
    PROVE  Spare'
<1> DEFINE w == [State EXCEPT !.p.reset = FALSE]
           n == ForceStop(w)
<1>1. w = [m |-> manager, p |-> [support EXCEPT !.reset = FALSE]]
  BY PairFlags
<1>2. support' = ForceStart(n).p /\ UNCHANGED asserted
  BY DEF ResetTimer, Becomes
<1> HIDE DEF w
<1>3. Shaped(w.p)
  BY <1>1, SupportParts, FlagRest DEF Rest
<1>4. n.p.list = << >> /\ Shaped(n.p) /\ Pair(n)
  BY <1>3, ForceStopEmpty DEF ForceStop, Pair
<1> HIDE DEF n
<1>5. support'.list = << >>
  BY <1>2, <1>4, ForceStartRest DEF Rest
<1> QED
  BY <1>2, <1>5, EmptySpare

LEMMA StopAndStartSpare ==
    ASSUME Inv, Spare, UNCHANGED asserted, support' = ForceStopAndStart(State).p
    PROVE  Spare'
<1> DEFINE w == [State EXCEPT !.p.reset = FALSE]
           n == ForceStop(w)
<1>1. w = [m |-> manager, p |-> [support EXCEPT !.reset = FALSE]]
  BY PairFlags
<1>2. ForceStopAndStart(State) = [n EXCEPT !.p.forceStart = TRUE]
  BY DEF ForceStopAndStart
<1> HIDE DEF w
<1>3. Shaped(w.p)
  BY <1>1, SupportParts, FlagRest DEF Rest
<1>4. n.p.list = << >> /\ Shaped(n.p) /\ Pair(n)
  BY <1>3, ForceStopEmpty DEF ForceStop, Pair
<1> HIDE DEF n
<1>5. support' = [n.p EXCEPT !.forceStart = TRUE]
  BY <1>2, <1>4 DEF Pair
<1>6. support'.list = << >>
  BY <1>4, <1>5, FlagRest DEF Rest
<1> QED
  BY <1>6, EmptySpare

LEMMA StartPipSpare ==
    ASSUME Inv, Spare, StartPip
    PROVE  Spare'
BY StopAndStartSpare DEF StartPip, Becomes

LEMMA UnchangedSpare ==
    ASSUME Spare, UNCHANGED <<manager, enabled, support, asserted>>
    PROVE  Spare'
BY DEF Spare

LEMMA RecordTuneStartSpare ==
    ASSUME Inv, Spare, RecordTuneStart
    PROVE  Spare'
<1>1. UNCHANGED <<asserted, enabled>>
  BY DEF RecordTuneStart
<1>2. CASE ~enabled \/ Suspended(support)
  <2>1. UNCHANGED <<manager, support>>
    BY <1>2 DEF RecordTuneStart, Becomes, State
  <2> QED
    BY <1>1, <2>1, UnchangedSpare
<1>3. CASE enabled /\ ~Suspended(support) /\ support.disableforrec
  <2> DEFINE w == [State EXCEPT !.p.recordings = TRUE]
             n == ForceStop(w)
  <2>1. w = [m |-> manager, p |-> [support EXCEPT !.recordings = TRUE]]
    BY PairFlags
  <2>2. support' = n.p
    BY <1>3 DEF RecordTuneStart, Becomes
  <2> HIDE DEF w
  <2>3. Shaped(w.p)
    BY <2>1, SupportParts, FlagRest DEF Lighter
  <2>4. n.p.list = << >>
    BY <2>3, ForceStopEmpty
  <2> QED
    BY <1>1, <2>2, <2>4, EmptySpare
<1>4. CASE enabled /\ ~Suspended(support) /\ ~support.disableforrec
  <2>1. support' = ForceStopAndStart(State).p
    BY <1>4 DEF RecordTuneStart, Becomes
  <2> QED
    BY <1>1, <2>1, StopAndStartSpare
<1> QED
  BY <1>2, <1>3, <1>4

LEMMA RecordEndSpare ==
    ASSUME Inv, Spare, RecordEnd
    PROVE  Spare'
<1>1. UNCHANGED <<enabled, asserted>>
  BY DEF RecordEnd
<1>2. manager' = manager /\ Lighter(support, support')
  BY RecordEndLighter
<1>3. CASE ~enabled
  <2>1. support' = support
    BY <1>3 DEF RecordEnd, Becomes, State
  <2> QED
    BY <1>1, <1>2, <2>1, UnchangedSpare
<1>4. CASE enabled /\ ~support.disableforrec
  <2> DEFINE a == [support EXCEPT !["forceStart"] = FALSE]
             x == TRUE
             b == [a EXCEPT !["reset"] = x]
  <2>1. support' = b
    BY <1>4 DEF RecordEnd, Becomes, State
  <2>2. Calmer(support, a) /\ Shaped(a)
    BY SupportParts, FieldCalmer DEF Lighter
  <2> HIDE DEF a, x
  <2>3. Calmer(a, b)
    BY <2>2, FieldCalmer
  <2> HIDE DEF b
  <2> QED
    BY <1>1, <1>2, <2>1, <2>2, <2>3, CalmerCalmer, CalmerSpare
<1>5. CASE enabled /\ support.disableforrec /\ recs' > 0
  <2> DEFINE v == TRUE
             n == [support EXCEPT !["recordings"] = v]
  <2>1. support' = n
    BY <1>5, PairFlags DEF RecordEnd, Becomes
  <2>2. v = TRUE
    OBVIOUS
  <2> HIDE DEF v
  <2>3. \A x \in Fields : n[x] = IF x = "recordings" THEN v ELSE support[x]
    BY SupportParts, FieldSet DEF Shaped, Fields
  <2> HIDE DEF n
  <2>4. /\ n.recordings = TRUE /\ n.disableforrec = support.disableforrec
        /\ n.activating = support.activating
    BY <2>2, <2>3 DEF Fields
  <2>5. Ready(enabled', support') => Ready(enabled, support)
    BY <1>5, <2>1, <2>4 DEF Ready, Suspended
  <2> QED
    BY <1>1, <1>2, <2>5, LighterSpare
<1>6. CASE enabled /\ support.disableforrec /\ ~(recs' > 0)
  <2> DEFINE w == [m |-> manager, p |-> [support EXCEPT !.recordings = FALSE]]
  <2>1. support' = ForceStart(w).p
    BY <1>6, PairFlags DEF RecordEnd, Becomes
  <2>2. Pair(w) /\ Good(w.p) /\ Plugin(w.p) /\ w.p.activating = support.activating
    BY Parts, MinorFlags DEF Pair, Like, Good
  <2> HIDE DEF w
  <2>3. Waits(support', "createList") /\ support'.activating = support.activating
    BY <2>1, <2>2, ForceStartWaits, ForceStartGood
  <2> QED
    BY <1>1, <1>2, <2>3, ListWaits
<1> QED
  BY <1>3, <1>4, <1>5, <1>6

LEMMA CreateListSpare ==
    ASSUME OneName, Inv, Kept, Spare, CreateListTimer
    PROVE  Spare'
<1> DEFINE w == [m |-> manager, p |-> Stop(support, "createList")]
<1>1. /\ UNCHANGED <<asserted, enabled>>
      /\ \E c : manager' = CreateList(w, c).m /\ support' = CreateList(w, c).p
  BY DEF CreateListTimer, Becomes, State, others
<1>2. PICK c : manager' = CreateList(w, c).m /\ support' = CreateList(w, c).p
  BY <1>1
<1>3. Rest(support, w.p) /\ Shaped(w.p) /\ w.m = manager /\ Pair(w)
  BY SupportParts, QueueRest DEF Rest, Pair
<1> HIDE DEF w
<1>4. CASE ~enabled \/ Suspended(w.p)
  <2>1. manager' = manager /\ support' = w.p
    BY <1>2, <1>3, <1>4 DEF CreateList
  <2>2. Ready(enabled', support') => Ready(enabled, support)
    BY <1>1, <1>3, <1>4, <2>1 DEF Ready, Rest
  <2> QED
    BY <1>1, <1>3, <2>1, <2>2, RestLighter, LighterSpare
<1>5. CASE enabled /\ ~Suspended(w.p)
  <2>1. Named(w.m) /\ previous \in Names \cup {None}
    BY <1>3 DEF Kept
  <2>2. Distinct(support'.list) /\ Fresh(manager', support'.list)
    BY <1>2, <1>3, <1>5, <2>1, CreateListFresh
  <2> QED
    BY <1>1, <2>2 DEF Spare
<1> QED
  BY <1>4, <1>5

\* The plugin goes on with a list that has just been made, or that it was
\* ready to go on with.
LEMMA GetSrefSpare ==
    ASSUME OneName, Inv, Kept, Spare, GetSrefTimer
    PROVE  Spare'
<1> DEFINE w == [State EXCEPT !.p = Stop(@, "getSref")]
           v == [w EXCEPT !.p = Stop(@, "createList")]
           l(c) == IF "createList" \in ToSet(w.p.queue) THEN CreateList(v, c) ELSE w
           u(c) == [l(c).p EXCEPT !.activating = TRUE]
<1>1. PICK c :
         Becomes(IF ~enabled \/ Suspended(w.p) THEN w
                 ELSE IF running = None \/ ~Playable(Ref[running]) THEN l(c)
                 ELSE [l(c) EXCEPT !.p = GetEvent([@ EXCEPT !.activating = TRUE], "tuned")])
  BY Zenon DEF GetSrefTimer
<1>2. UNCHANGED <<asserted, enabled>>
  BY DEF GetSrefTimer, others
<1>3. /\ Rest(support, w.p) /\ w.m = manager /\ Pair(w) /\ Shaped(w.p)
      /\ Calmer(support, w.p) /\ (Waits(w.p, "createList") <=> Waits(support, "createList"))
  <2>1. w = [m |-> manager, p |-> Stop(support, "getSref")]
    BY DEF State
  <2> HIDE DEF w
  <2>2. Rest(support, Stop(support, "getSref")) /\ Calmer(support, Stop(support, "getSref"))
    BY SupportParts, Parts, QueueRest, StopCalmer
  <2>3. Waits(Stop(support, "getSref"), "createList") <=> Waits(support, "createList")
    BY Parts, QueueWaits
  <2> QED
    BY <2>1, <2>2, <2>3 DEF Pair, Rest
<1>4. CASE ~enabled \/ Suspended(w.p)
  <2>1. manager' = manager /\ support' = w.p
    BY <1>1, <1>3, <1>4 DEF Becomes
  <2> HIDE DEF w
  <2> QED
    BY <1>2, <1>3, <2>1, RestLighter, CalmerSpare
<1>5. CASE enabled /\ ~Suspended(w.p)
  <2>1. /\ Pair(l(c)) /\ Shaped(l(c).p) /\ l(c).p.events \in Seq(EventNames)
        /\ Distinct(l(c).p.list) /\ Fresh(l(c).m, l(c).p.list)
    <3> HIDE DEF w
    <3>1. CASE "createList" \notin ToSet(w.p.queue)
      <4>1. support.tracker
        <5>1. support.queue # << >> /\ Head(support.queue) = "getSref" /\ support.queue \in Seq(TimerNames)
          BY Parts DEF GetSrefTimer, Due, Plugin, Queue
        <5>2. 1 \in DOMAIN support.queue /\ Head(support.queue) = support.queue[1]
          BY <5>1, HeadTailProperties, LenProperties, EmptySeq
        <5>3. Waits(support, "getSref")
          BY <5>1, <5>2 DEF Waits, ToSet
        <5> QED
          BY <5>3, Parts DEF Good
      <4>2. Ready(enabled, support)
        BY <1>3, <1>5, <3>1, <4>1 DEF Ready, Waits, Rest, Suspended
      <4>3. Distinct(w.p.list) /\ Fresh(w.m, w.p.list) /\ w.p.events \in Seq(EventNames)
        BY <1>3, <4>2 DEF Spare, Rest, Kept
      <4> QED
        BY <1>3, <3>1, <4>3
    <3>2. CASE "createList" \in ToSet(w.p.queue)
      <4>1. v = [m |-> manager, p |-> Stop(w.p, "createList")]
        BY <1>3 DEF Pair
      <4>2. Rest(w.p, Stop(w.p, "createList"))
        BY <1>3, QueueRest
      <4> HIDE DEF v
      <4>3. /\ Pair(v) /\ Shaped(v.p) /\ v.m = manager /\ Rest(support, v.p)
            /\ ~Suspended(v.p)
        BY <1>3, <1>5, <4>1, <4>2, RestRest DEF Rest, Pair, Suspended
      <4>4. Named(v.m) /\ Room(v.m, v.p.list) /\ previous \in Names \cup {None}
        BY <4>3 DEF Kept, Rest
      <4>5. LET n == CreateList(v, c)
            IN /\ Pair(n) /\ Shaped(n.p)
               /\ \A x \in Fields \ {"list"} : n.p[x] = v.p[x]
        BY <4>3, <4>4, DecodesOne, CreateListKeeps
      <4>6. LET n == CreateList(v, c)
            IN Distinct(n.p.list) /\ Fresh(n.m, n.p.list)
        BY <1>5, <4>3, <4>4, CreateListFresh
      <4> DEFINE n == CreateList(v, c)
      <4>7. l(c) = n
        BY <3>2
      <4> HIDE DEF n, l
      <4>8. n.p.events = v.p.events
        BY <4>5 DEF Fields, n
      <4>9. v.p.events \in Seq(EventNames)
        BY <4>3 DEF Rest, Kept
      <4>10. Pair(n) /\ Shaped(n.p) /\ Distinct(n.p.list) /\ Fresh(n.m, n.p.list)
        BY <4>5, <4>6 DEF n
      <4> QED
        BY <4>7, <4>8, <4>9, <4>10
    <3> QED
      BY <3>1, <3>2
  <2> HIDE DEF l
  <2>2. Lighter(l(c).p, GetEvent(u(c), "tuned"))
    <3>1. \A x : Lighter(l(c).p, [l(c).p EXCEPT !["activating"] = x])
      BY <2>1, SetLighter DEF Fields
    <3>2. Lighter(l(c).p, u(c))
      BY <3>1, Zenon
    <3> HIDE DEF u
    <3>3. Lighter(u(c), GetEvent(u(c), "tuned"))
      BY <3>2, GetEventLighter DEF Lighter, EventNames
    <3> QED
      BY <3>2, <3>3, LighterLighter
  <2>3. /\ manager' = l(c).m
        /\ support' = l(c).p \/ support' = GetEvent(u(c), "tuned")
    <3> HIDE DEF w
    <3> QED
      BY <1>1, <1>5, <2>1, PairSet DEF Becomes
  <2> HIDE DEF u
  <2>4. support'.list = l(c).p.list \/ support'.list = << >>
    BY <2>2, <2>3 DEF Lighter
  <2>5. Distinct(support'.list) /\ Fresh(manager', support'.list)
    BY <2>1, <2>3, <2>4, EmptyDistinct, FreshNothing
  <2> QED
    BY <1>2, <2>5 DEF Spare
<1> QED
  BY <1>4, <1>5

\* The first of the list leaves it, and may come into the map.
LEMMA TailFresh ==
    ASSUME OneName, NEW m, NEW l, Listing(l), l # << >>, Distinct(l), Fresh(m, l)
    PROVE  /\ Ref[Head(l)] \notin InMap(m)
           /\ Distinct(Tail(l))
           /\ Fresh(m, Tail(l))
           /\ \A o : InMap(o) = InMap(m) \cup {Ref[Head(l)]} => Fresh(o, Tail(l))
<1>1. /\ l \in Seq(Preparable) /\ Len(l) \in Nat /\ Len(l) > 0
      /\ Head(l) = l[1] /\ Len(Tail(l)) = Len(l) - 1
      /\ \A i \in 1..Len(Tail(l)) : Tail(l)[i] = l[i + 1]
  BY HeadTailProperties, LenProperties, EmptySeq DEF Listing
<1>2. 1 \in 1..Len(l) /\ \A i \in 1..Len(Tail(l)) : i + 1 \in 1..Len(l) /\ i + 1 # 1
  BY <1>1
<1>3. \A i \in 1..Len(l) : l[i] \in Names
  BY <1>1, ElementOfSeq DEF Preparable
<1>4. Ref[Head(l)] \notin InMap(m) /\ Fresh(m, Tail(l))
  BY <1>1, <1>2 DEF Fresh
<1>5. Distinct(Tail(l))
  <2> SUFFICES ASSUME NEW i \in 1..Len(Tail(l)), NEW j \in 1..Len(Tail(l)), Tail(l)[i] = Tail(l)[j]
               PROVE  i = j
    BY DEF Distinct
  <2>1. i + 1 = j + 1
    BY <1>1, <1>2 DEF Distinct
  <2>2. i \in Int /\ j \in Int
    BY <1>1
  <2> QED
    BY <2>1, <2>2
<1>6. \A i \in 1..Len(Tail(l)) : Ref[Tail(l)[i]] # Ref[Head(l)]
  <2> SUFFICES ASSUME NEW i \in 1..Len(Tail(l)), Ref[Tail(l)[i]] = Ref[Head(l)] PROVE FALSE
    OBVIOUS
  <2> DEFINE k == i + 1
  <2>1. k \in 1..Len(l) /\ k # 1 /\ 1 \in 1..Len(l) /\ Tail(l)[i] = l[k]
    BY <1>1, <1>2
  <2> HIDE DEF k
  <2>2. l[k] = l[1]
    BY <1>1, <1>3, <2>1 DEF OneName
  <2> QED
    BY <2>1, <2>2 DEF Distinct
<1> QED
  BY <1>4, <1>5, <1>6 DEF Fresh

LEMMA ApplyEventSpare ==
    ASSUME OneName, Inv, Kept, Spare, ApplyEvent
    PROVE  Spare'
<1> DEFINE p == TimeoutStop([support EXCEPT !.events = Tail(@)])
           m == IF Head(support.events) = "failed" THEN StopFailed(manager)
                ELSE manager
           n == Head(p.list)
           rest == [p EXCEPT !.list = Tail(@)]
<1>1. /\ Shaped(p) /\ Shaped(rest)
      /\ p.list = support.list /\ rest.list = Tail(support.list)
  BY Parts, TailParts DEF Plugin, Shaped
<1>2. Shape(m) /\ InMap(m) \subseteq InMap(manager)
  <2>1. Holds(StopFailed(manager), InMap(manager) \ In(manager, "failed"), Decoding(manager))
    BY Parts, StopFailedHolds
  <2> QED
    BY <2>1, SupportParts DEF Holds, Manager
<1> HIDE DEF m
<1>3. Listing(p.list) /\ Distinct(p.list) /\ Fresh(m, p.list)
  <2>1. Ready(enabled, support)
    BY DEF Ready, ApplyEvent, Inv, Fits
  <2>2. Listing(support.list) /\ Distinct(support.list) /\ Fresh(manager, support.list)
    BY <2>1 DEF Kept, Room, Spare
  <2> HIDE DEF p
  <2> QED
    BY <1>1, <1>2, <2>2, FreshLess
<1>4. p.list # << >> =>
         /\ Ref[n] \notin InMap(m) /\ n \in Preparable
         /\ Distinct(rest.list) /\ Fresh(m, rest.list)
         /\ \A o : InMap(o) = InMap(m) \cup {Ref[n]} => Fresh(o, rest.list)
  <2> SUFFICES ASSUME p.list # << >> PROVE
         /\ Ref[n] \notin InMap(m) /\ n \in Preparable
         /\ Distinct(rest.list) /\ Fresh(m, rest.list)
         /\ \A o : InMap(o) = InMap(m) \cup {Ref[n]} => Fresh(o, rest.list)
    OBVIOUS
  <2>1. rest.list = Tail(p.list) /\ n = Head(p.list)
    BY <1>1
  <2> HIDE DEF p, rest, n
  <2>2. Head(p.list) \in Preparable
    BY <1>3, HeadTailProperties DEF Listing
  <2>3. /\ Ref[Head(p.list)] \notin InMap(m)
        /\ Distinct(Tail(p.list)) /\ Fresh(m, Tail(p.list))
        /\ \A o : InMap(o) = InMap(m) \cup {Ref[Head(p.list)]} => Fresh(o, Tail(p.list))
    BY <1>3, TailFresh
  <2> QED
    BY <2>1, <2>2, <2>3
<1>5. ASSUME NEW q, support'.list = q.list, Distinct(q.list), Fresh(manager', q.list),
             UNCHANGED asserted
      PROVE  Spare'
  BY <1>5 DEF Spare
<1>6. CASE Awaited(m) # {}
  <2>1. PICK s : manager' = m /\ support' = LoopEnds(TimeoutStart(p, s)) /\ UNCHANGED asserted
    BY <1>6 DEF ApplyEvent, m
  <2> HIDE DEF p
  <2>2. support'.list = p.list
    <3> DEFINE q == TimeoutStart(p, s)
    <3>1. Shaped(q) /\ q.list = p.list
      BY <1>1, TimeoutStartFields
    <3> HIDE DEF q
    <3>2. LoopEnds(q).list = q.list
      BY <3>1, LoopEndsFields
    <3> QED
      BY <2>1, <3>1, <3>2 DEF q
  <2> QED
    BY <1>3, <1>5, <2>1, <2>2
<1>7. CASE Awaited(m) = {} /\ (p.list # << >> => ~Playable(Ref[n]))
  <2>1. manager' = m /\ support' = LoopEnds(IF p.list = << >> THEN p ELSE rest) /\ UNCHANGED asserted
    <3>1. ~(p.list # << >> /\ Playable(Ref[n]))
      BY <1>7
    <3> QED
      BY <1>7, <3>1 DEF ApplyEvent, m
  <2>2. p.list = << >>
    BY <1>4, <1>7 DEF Preparable
  <2> HIDE DEF p, rest
  <2>3. support'.list = p.list
    BY <1>1, <2>1, <2>2, LoopEndsFields
  <2> QED
    BY <1>3, <1>5, <2>1, <2>3
<1>8. CASE Awaited(m) = {} /\ p.list # << >> /\ Playable(Ref[n])
  <2> DEFINE t(a) == IF a.locked THEN GetEvent(rest, "tuned") ELSE rest
             f(a) == IF a.failed = "no" THEN t(a) ELSE GetEvent(t(a), "failed")
             s == Ref[n]
  <2>1. s \notin InMap(m)
    BY <1>4, <1>8
  <2>2. PICK a : /\ manager' = Prepared(m, s, n, a)
                 /\ support' = LoopEnds(TimeoutStart(f(a), s))
                 /\ UNCHANGED asserted
    BY <1>8, <2>1 DEF ApplyEvent, m
  <2>3. InMap(manager') = InMap(m) \cup {Ref[n]}
    <3>1. s = Ref[n] /\ manager' = Prepared(m, Ref[n], n, a) /\ n \in Preparable
      BY <1>4, <1>8, <2>2
    <3> HIDE DEF n, s
    <3>2. InMap(Prepared(m, Ref[n], n, a)) = InMap(m) \cup {Ref[n]}
      BY <1>2, <3>1, PreparedMap
    <3> QED
      BY <3>1, <3>2
  <2>4. Distinct(rest.list) /\ Fresh(manager', rest.list)
    BY <1>4, <1>8, <2>3
  <2> HIDE DEF p, rest, n, s
  <2>5. "tuned" \in EventNames /\ "failed" \in EventNames
    BY DEF EventNames
  <2>6. Lighter(rest, t(a))
    BY <1>1, <2>5, GetEventLighter, RestItself, RestLighter
  <2> HIDE DEF t
  <2>7. Lighter(rest, f(a))
    BY <2>5, <2>6, GetEventLighter, LighterLighter DEF Lighter
  <2> HIDE DEF f
  <2>8. support'.list = f(a).list
    <3> DEFINE q == TimeoutStart(f(a), s)
    <3>1. Shaped(q) /\ q.list = f(a).list
      BY <2>7, TimeoutStartFields DEF Lighter
    <3> HIDE DEF q
    <3>2. LoopEnds(q).list = q.list
      BY <3>1, LoopEndsFields
    <3> QED
      BY <2>2, <3>1, <3>2 DEF q
  <2>9. Distinct(f(a).list) /\ Fresh(manager', f(a).list)
    BY <2>4, <2>7, EmptyDistinct, FreshNothing DEF Lighter
  <2> QED
    BY <1>5, <2>2, <2>8, <2>9
<1> QED
  <2>1. \/ Awaited(m) # {}
        \/ Awaited(m) = {} /\ (p.list # << >> => ~Playable(Ref[n]))
        \/ Awaited(m) = {} /\ p.list # << >> /\ Playable(Ref[n])
    OBVIOUS
  <2> QED
    BY <1>6, <1>7, <1>8, <2>1

\* When a service starts, the list is to be made anew.
LEMMA AnnouncedWaits ==
    ASSUME NEW p, Good(p), NEW n, n = OnStart(p) \/ \E e : n = Announced(p, e)
    PROVE  /\ n.tracker => Waits(n, "createList")
           /\ Lighter(p, n)
<1> DEFINE o == OnStart(p)
<1>1. n = o \/ n = OnTune(o)
  BY DEF Announced
<1>2. Plugin(p) /\ Shaped(p) /\ Good(o) /\ o.tracker = p.tracker
  BY OnTuneLike DEF Good, Plugin, Shaped, Like
<1>3. Lighter(p, n)
  BY <1>2, TuneRest, RestLighter
<1>4. p.tracker => Waits(o, "createList")
  BY <1>2, QueueWaits DEF OnStart, TimerNames
<1> HIDE DEF o
<1>5. Like(o, OnTune(o)) /\ Steady(o, OnTune(o))
  BY <1>2, OnTuneLike, OnTuneSteady DEF Good
<1>6. n.tracker = p.tracker /\ (Waits(o, "createList") => Waits(n, "createList"))
  BY <1>1, <1>2, <1>5 DEF Like, Steady
<1> QED
  BY <1>3, <1>4, <1>6

LEMMA FreshStarts ==
    ASSUME NEW w, Good(w.p), NEW n, PlayFresh(w, n)
    PROVE  /\ support'.tracker => Waits(support', "createList")
           /\ Lighter(w.p, support')
<1>1. support' = OnStart(w.p) \/ \E e : support' = Announced(w.p, e)
  BY DEF PlayFresh
<1> QED
  BY <1>1, AnnouncedWaits

LEMMA ZapSpare ==
    ASSUME Inv, Spare, NEW n \in Names, Zap(n)
    PROVE  Spare'
<1> DEFINE D == In(manager, "decoding")
           d == CHOOSE x \in D : TRUE
           w == IF D = {} THEN [m |-> manager, p |-> support]
                ELSE LeaveDecoding(manager, support, d)
           v == IF enabled /\ D # {} THEN [w EXCEPT !.m = Cleanup(@)]
                ELSE StopRunning(manager, support)
<1>1. /\ PlayService(n) /\ Manager(manager) /\ Good(support) /\ Shaped(support)
      /\ Fits(manager, running, enabled, support)
      /\ enabled' = enabled /\ UNCHANGED asserted
  BY ShapedSupport DEF Zap, Inv, Fits
<1>2. Pair(w) /\ Good(w.p) /\ Lighter(support, w.p)
  <2>1. CASE D = {}
    <3>1. w = [m |-> manager, p |-> support]
      BY <2>1
    <3> HIDE DEF w
    <3> QED
      BY <1>1, <3>1, RestItself, RestLighter DEF Pair
  <2>2. CASE D # {}
    <3> DEFINE e == End(manager, support)
               el == manager.services[d]
               o == IF el.failed # "no" /\ ~el.normal THEN GetEvent(e.p, "failed")
                    ELSE e.p
    <3>1. w = [m |-> Leave(e.m, d), p |-> o]
      BY <2>2 DEF LeaveDecoding
    <3>2. Lighter(support, e.p) /\ Good(e.p)
      BY <1>1, EndQuiet, EndLighter
    <3> HIDE DEF e
    <3>3. Lighter(e.p, o) /\ Good(o)
      <4>1. Lighter(e.p, GetEvent(e.p, "failed")) /\ Good(GetEvent(e.p, "failed"))
        BY <3>2, GetEventLighter, GetEventLike DEF Lighter, EventNames, Like
      <4>2. Lighter(e.p, e.p)
        BY <3>2, RestItself, RestLighter DEF Lighter
      <4> QED
        BY <3>2, <4>1, <4>2
    <3> HIDE DEF o, d, w
    <3> QED
      BY <3>1, <3>2, <3>3, LighterLighter DEF Pair
  <2> QED
    BY <2>1, <2>2
<1>3. /\ support'.tracker => Waits(support', "createList")
      /\ Lighter(support, support')
  <2>1. CASE enabled /\ Ref[n] \in InMap(w.m)
    <3>1. support' = Announced(w.p, w.m.services[Ref[n]])
      BY <1>1, <2>1 DEF PlayService
    <3> HIDE DEF w
    <3> QED
      BY <1>2, <3>1, AnnouncedWaits, LighterLighter
  <2>2. CASE ~(enabled /\ Ref[n] \in InMap(w.m))
    <3>1. PlayFresh(v, n)
      BY <1>1, <2>2 DEF PlayService
    <3>2. Good(v.p) /\ Lighter(support, v.p)
      <4>1. CASE enabled /\ D # {}
        <5>1. v = [w EXCEPT !.m = Cleanup(w.m)]
          BY <4>1
        <5> HIDE DEF w, v, D
        <5>2. v = [m |-> Cleanup(w.m), p |-> w.p]
          BY <1>2, <5>1, PairSet
        <5> QED
          BY <1>2, <5>2
      <4>2. CASE ~(enabled /\ D # {})
        <5>1. v = StopRunning(manager, support)
          BY <4>2
        <5> HIDE DEF v
        <5> QED
          BY <1>1, <5>1, StopRunningHolds, StopRunningLighter
      <4> QED
        BY <4>1, <4>2
    <3> HIDE DEF v
    <3> QED
      BY <3>1, <3>2, FreshStarts, LighterLighter
  <2> QED
    BY <2>1, <2>2
<1>4. ~support'.activating
  BY ZapStep
<1> QED
  BY <1>1, <1>3, <1>4, ListWaits

LEMMA StopServiceSpare ==
    ASSUME Inv, Spare, StopService
    PROVE  Spare'
<1> DEFINE w == StopRunning(manager, support)
<1>1. manager' = w.m /\ support' = w.p /\ UNCHANGED asserted
  BY DEF StopService
<1>2. InMap(w.m) = {}
  BY StopRunningHolds DEF Inv, Holds
<1>3. Lighter(support, w.p)
  BY ShapedSupport, StopRunningLighter
<1> HIDE DEF w
<1> QED
  BY <1>1, <1>2, <1>3, LighterSpare

LEMMA SetupSpare ==
    ASSUME Inv, Spare, NEW on \in BOOLEAN, NEW disable \in BOOLEAN, SetupChanged(on, disable)
    PROVE  Spare'
<1> DEFINE r == recs > 0
           a == [support EXCEPT !["recordings"] = r]
           known == [a EXCEPT !["disableforrec"] = disable]
           t == on /\ ~Suspended(known)
           p == [known EXCEPT !["tracker"] = t]
           w == IF p.tracker THEN [State EXCEPT !.p = p]
                ELSE [m |-> StopFailed(manager), p |-> Disabled(p)]
<1>1. /\ UNCHANGED asserted
      /\ IF running = None THEN Becomes(w) /\ UNCHANGED running
         ELSE PlayFresh(StopRunning(w.m, w.p), running)
  BY DEF SetupChanged
<1>2. Lighter(support, p) /\ Plugin(p)
  <2>1. Lighter(support, a) /\ Plugin(a)
    <3> HIDE DEF r
    <3> QED  BY Parts, SupportParts, SetLighter, FieldPlugin DEF Fields
  <2> HIDE DEF a
  <2>2. Lighter(a, known) /\ Plugin(known)
    BY <2>1, SetLighter, FieldPlugin DEF Fields, Lighter
  <2>3. t \in BOOLEAN
    OBVIOUS
  <2> HIDE DEF known, t
  <2>4. Lighter(known, p) /\ Plugin(p)
    BY <2>2, <2>3, SetLighter, FieldPlugin DEF Fields, Lighter
  <2> HIDE DEF p
  <2> QED
    BY <2>1, <2>2, <2>4, LighterLighter
<1> HIDE DEF p
<1>3. InMap(w.m) \subseteq InMap(manager) /\ Good(w.p) /\ Lighter(support, w.p)
  <2>1. CASE p.tracker
    <3>1. w.m = manager /\ w.p = p
      BY <2>1 DEF State
    <3>2. Good(p)
      BY <1>2, <2>1 DEF Good
    <3> HIDE DEF w
    <3> QED
      BY <1>2, <3>1, <3>2
  <2>2. CASE ~p.tracker
    <3>1. w.m = StopFailed(manager) /\ w.p = Disabled(p)
      BY <2>2
    <3>2. InMap(StopFailed(manager)) \subseteq InMap(manager)
      BY StoppedFields DEF StopFailed
    <3>3. Lighter(p, Disabled(p)) /\ Good(Disabled(p))
      BY <1>2, DisabledLighter, DisabledGood DEF Lighter
    <3> HIDE DEF w
    <3> QED
      BY <1>2, <3>1, <3>2, <3>3, LighterLighter
  <2> QED
    BY <2>1, <2>2
<1> HIDE DEF w
<1>4. CASE running = None
  <2>1. manager' = w.m /\ support' = w.p
    BY <1>1, <1>4 DEF Becomes
  <2>2. InMap(manager) = {}
    BY <1>4 DEF Inv, Fits
  <2>3. InMap(manager') = {}
    BY <1>3, <2>1, <2>2
  <2> QED
    BY <1>1, <1>3, <2>1, <2>3, LighterSpare
<1>5. CASE running # None
  <2> DEFINE v == StopRunning(w.m, w.p)
             x == End(w.m, w.p)
  <2>1. v.p = x.p
    BY <1>5 DEF StopRunning
  <2>2. Lighter(w.p, v.p)
    BY <1>3, StopRunningLighter DEF Lighter
  <2>3. PlayFresh(v, running)
    BY <1>1, <1>5
  <2> HIDE DEF v, x
  <2>4. Lighter(support, v.p)
    BY <1>3, <2>2, LighterLighter
  <2>5. Good(v.p)
    <3>1. x.p = Disabled(w.p) \/ x.p = w.p
      BY DEF x, End
    <3>2. Good(Disabled(w.p))
      BY <1>3, DisabledGood DEF Good
    <3> QED
      BY <1>3, <2>1, <3>1, <3>2
  <2>6. Lighter(v.p, support') /\ (support'.tracker => Waits(support', "createList"))
    BY <2>3, <2>5, FreshStarts
  <2> QED
    BY <1>1, <2>4, <2>6, SetupStep, ListWaits, LighterLighter
<1> QED
  BY <1>4, <1>5

LEMMA InitSpare == Init => Spare
<1> SUFFICES ASSUME Init PROVE Spare
  OBVIOUS
<1>1. PICK d \in BOOLEAN : support = [Quiet EXCEPT !.disableforrec = d]
  BY DEF Init
<1>2. support.list = << >>
  BY <1>1 DEF Quiet
<1> QED
  BY <1>2, EmptyDistinct, FreshNothing DEF Init, Spare

LEMMA NextSpare ==
    ASSUME OneName, Inv, Kept, Spare, [Next]_vars
    PROVE  Spare'
<1>1. ASSUME NEW n \in Names, Zap(n) PROVE Spare'
  BY <1>1, ZapSpare
<1>2. CASE StopService
  BY <1>2, StopServiceSpare
<1>3. ASSUME NEW s \in Services, TunedIn(s) \/ TuneFailed(s) \/ FccFailed(s) PROVE Spare'
  BY <1>3, TunedInSpare, FailedSpare
<1>4. CASE Timers
  BY <1>4, CreateListSpare, GetSrefSpare, FccEventSpare, ApplyEventSpare DEF Timers
<1>5. CASE LongTimers
  BY <1>5, FCCTimeoutSpare, ForceStartSpare, ResetSpare DEF LongTimers
<1>6. CASE RecordTuneStart \/ RecordEnd \/ StartPip
  BY <1>6, RecordTuneStartSpare, RecordEndSpare, StartPipSpare
<1>7. ASSUME NEW on \in BOOLEAN, NEW disable \in BOOLEAN, SetupChanged(on, disable) PROVE Spare'
  BY <1>7, SetupSpare
<1>8. CASE UNCHANGED vars
  BY <1>8, UnchangedSpare DEF vars
<1> QED
  BY <1>1, <1>2, <1>3, <1>4, <1>5, <1>6, <1>7, <1>8 DEF Next

\* Where every service has one name, and none stands twice in the bouquet, the
\* manager is never asked to prepare what it has: the assertion of
\* playFCCService never fails, whatever was zapped to or has failed since the
\* list was made.
THEOREM PreparedOnce ==
    ASSUME OneName
    PROVE  Spec => []NeverAsserts
<1>1. Init => Spare
  BY InitSpare
<1>2. Advances /\ Spare /\ [Next]_vars => Spare'
  BY NextSpare DEF Advances
<1>3. Spare => NeverAsserts
  BY DEF Spare, NeverAsserts
<1> QED
  BY <1>1, <1>2, <1>3, AdvancesAlways, PTL DEF Spec
=============================================================================
