----------------------------- MODULE EPGProofs -----------------------------
(***************************************************************************)
(* Theorems about the EPG cache, for all the constants, in two parts.      *)
(*                                                                         *)
(* 1. The maps of EPGStore agree and the rows name the private events, as  *)
(* long as EIT moves no event onto a private one; and so the maps          *)
(* implement EPGListing.                                                   *)
(*                                                                         *)
(* MapsAgree is not inductive: privateSectionRead erases what the rows     *)
(* name, which only RowsNamePrivate says is one object in both maps.  The  *)
(* invariant is the conjunction.  Erasing a set of objects and adding one  *)
(* are lemmas, and every handler is made of these two.                     *)
(*                                                                         *)
(* 2. EPGThread does not delete the data of a channel while the thread     *)
(* reads into it, unless a new channel gets the address of one that        *)
(* messages on the way are still about.                                    *)
(***************************************************************************)
EXTENDS EPGStore, EPGThread, FiniteSetTheorems, SequenceTheorems, TLAPS

Inv == TypeOK /\ MapsAgree /\ RowsNamePrivate

Maps(ev, tm, hp) ==
    /\ ev \in [Ids -> Objects \cup {Null}]
    /\ tm \in [Times -> Objects \cup {Null}]
    /\ hp \in [Objects -> Event \cup {Free}]

Agree(ev, tm, hp) ==
    /\ \A i \in Ids : ev[i] # Null => hp[ev[i]] # Free /\ hp[ev[i]].id = i
    /\ \A t \in Times : tm[t] # Null => hp[tm[t]] # Free /\ hp[tm[t]].time = t
    /\ \A o \in Objects : hp[o] # Free =>
           ev[hp[o].id] = o /\ tm[hp[o].time] = o

Named(rows, ev, tm, hp) ==
    /\ \A r \in rows : tm[r.stime] # Null /\ hp[tm[r.stime]].type = PRIVATE
                       /\ ev[r.id] = tm[r.stime]
    /\ \A o \in Objects : hp[o] # Free /\ hp[o].type = PRIVATE =>
           \E r \in rows : r.id = hp[o].id
    /\ \A r, s \in rows : r.id = s.id => r = s

Live(gone) == gone \subseteq Objects /\ \A o \in gone : heap[o] # Free

\* Erasing a set of objects from both maps and the heap keeps their agreement.
LEMMA EraseAgrees ==
    ASSUME TypeOK, MapsAgree, NEW gone, Live(gone)
    PROVE  /\ Maps(IdsWithout(evMap, gone), TimesWithout(tmMap, gone), Delete(gone))
           /\ Agree(IdsWithout(evMap, gone), TimesWithout(tmMap, gone), Delete(gone))
<1> DEFINE ev == IdsWithout(evMap, gone)
           tm == TimesWithout(tmMap, gone)
           hp == Delete(gone)
<1>1. Maps(ev, tm, hp)
  BY DEF Maps, TypeOK, IdsWithout, TimesWithout, Delete
<1>2. ASSUME NEW i \in Ids, ev[i] # Null
      PROVE  hp[ev[i]] # Free /\ hp[ev[i]].id = i
  <2>1. ev[i] = evMap[i] /\ evMap[i] \in Objects /\ ~ \E o \in gone : heap[o].id = i
    BY <1>2 DEF IdsWithout, TypeOK
  <2>2. heap[evMap[i]] # Free /\ heap[evMap[i]].id = i
    BY <1>2, <2>1 DEF MapsAgree
  <2>3. evMap[i] \notin gone
    BY <2>1, <2>2
  <2> QED
    BY <2>1, <2>2, <2>3 DEF Delete
<1>3. ASSUME NEW t \in Times, tm[t] # Null
      PROVE  hp[tm[t]] # Free /\ hp[tm[t]].time = t
  <2>1. tm[t] = tmMap[t] /\ tmMap[t] \in Objects /\ ~ \E o \in gone : heap[o].time = t
    BY <1>3 DEF TimesWithout, TypeOK
  <2>2. heap[tmMap[t]] # Free /\ heap[tmMap[t]].time = t
    BY <1>3, <2>1 DEF MapsAgree
  <2>3. tmMap[t] \notin gone
    BY <2>1, <2>2
  <2> QED
    BY <2>1, <2>2, <2>3 DEF Delete
<1>4. ASSUME NEW o \in Objects, hp[o] # Free
      PROVE  ev[hp[o].id] = o /\ tm[hp[o].time] = o
  <2>1. o \notin gone /\ hp[o] = heap[o] /\ heap[o] # Free
    BY <1>4 DEF Delete
  <2>2. heap[o] \in Event /\ heap[o].id \in Ids /\ heap[o].time \in Times
    BY <2>1 DEF TypeOK, Event
  <2>3. evMap[heap[o].id] = o /\ tmMap[heap[o].time] = o
    BY <2>1 DEF MapsAgree
  <2>4. ASSUME NEW p \in gone
        PROVE  heap[p].id # heap[o].id /\ heap[p].time # heap[o].time
    <3>1. p \in Objects /\ heap[p] # Free
      BY DEF Live
    <3>2. evMap[heap[p].id] = p /\ tmMap[heap[p].time] = p
      BY <3>1 DEF MapsAgree
    <3> QED
      BY <3>2, <2>3, <2>1
  <2> QED
    BY <2>1, <2>2, <2>3, <2>4 DEF IdsWithout, TimesWithout
<1> QED
  BY <1>1, <1>2, <1>3, <1>4 DEF Agree

\* Adding an object under a free id and a free start keeps the agreement.
LEMMA AddAgrees ==
    ASSUME NEW ev, NEW tm, NEW hp, Maps(ev, tm, hp), Agree(ev, tm, hp),
           NEW e \in Event, NEW new \in Objects,
           ev[e.id] = Null, tm[e.time] = Null, hp[new] = Free
    PROVE  /\ Maps([ev EXCEPT ![e.id] = new], [tm EXCEPT ![e.time] = new],
                   [hp EXCEPT ![new] = e])
           /\ Agree([ev EXCEPT ![e.id] = new], [tm EXCEPT ![e.time] = new],
                    [hp EXCEPT ![new] = e])
<1> DEFINE ev2 == [ev EXCEPT ![e.id] = new]
           tm2 == [tm EXCEPT ![e.time] = new]
           hp2 == [hp EXCEPT ![new] = e]
<1>0. e.id \in Ids /\ e.time \in Times /\ e # Free /\ new # Null
  BY StoreAssumption DEF Event
<1>1. Maps(ev2, tm2, hp2)
  BY <1>0 DEF Maps
<1>2. \A i \in Ids : ev2[i] = IF i = e.id THEN new ELSE ev[i]
  BY <1>0 DEF Maps
<1>3. \A t \in Times : tm2[t] = IF t = e.time THEN new ELSE tm[t]
  BY <1>0 DEF Maps
<1>4. \A o \in Objects : hp2[o] = IF o = new THEN e ELSE hp[o]
  BY <1>0 DEF Maps
<1>5. ASSUME NEW i \in Ids, ev2[i] # Null
      PROVE  hp2[ev2[i]] # Free /\ hp2[ev2[i]].id = i
  <2>1. CASE i = e.id
    BY <2>1, <1>0, <1>2, <1>4
  <2>2. CASE i # e.id
    <3>1. ev2[i] = ev[i] /\ ev[i] \in Objects
      BY <2>2, <1>2, <1>5 DEF Maps
    <3>2. hp[ev[i]] # Free /\ hp[ev[i]].id = i
      BY <3>1, <1>5 DEF Agree
    <3> QED
      BY <3>1, <3>2, <1>4
  <2> QED
    BY <2>1, <2>2
<1>6. ASSUME NEW t \in Times, tm2[t] # Null
      PROVE  hp2[tm2[t]] # Free /\ hp2[tm2[t]].time = t
  <2>1. CASE t = e.time
    BY <2>1, <1>0, <1>3, <1>4
  <2>2. CASE t # e.time
    <3>1. tm2[t] = tm[t] /\ tm[t] \in Objects
      BY <2>2, <1>3, <1>6 DEF Maps
    <3>2. hp[tm[t]] # Free /\ hp[tm[t]].time = t
      BY <3>1, <1>6 DEF Agree
    <3> QED
      BY <3>1, <3>2, <1>4
  <2> QED
    BY <2>1, <2>2
<1>7. ASSUME NEW o \in Objects, hp2[o] # Free
      PROVE  ev2[hp2[o].id] = o /\ tm2[hp2[o].time] = o
  <2>1. CASE o = new
    BY <2>1, <1>0, <1>2, <1>3, <1>4
  <2>2. CASE o # new
    <3>1. hp2[o] = hp[o] /\ hp[o] # Free
      BY <2>2, <1>4, <1>7
    <3>2. hp[o].id \in Ids /\ hp[o].time \in Times
      BY <3>1 DEF Maps, Event
    <3>3. ev[hp[o].id] = o /\ tm[hp[o].time] = o
      BY <3>1 DEF Agree
    <3>4. o # Null
      BY StoreAssumption
    <3> QED
      BY <3>1, <3>2, <3>3, <3>4, <1>2, <1>3
  <2> QED
    BY <2>1, <2>2
<1> QED
  BY <1>1, <1>5, <1>6, <1>7 DEF Agree

\* What a row names is a live private object that both maps hold.
LEMMA RowObject ==
    ASSUME Inv, NEW r \in table
    PROVE  /\ r.id \in Ids /\ r.stime \in Times
           /\ tmMap[r.stime] \in Objects /\ evMap[r.id] = tmMap[r.stime]
           /\ heap[tmMap[r.stime]] # Free /\ heap[tmMap[r.stime]] \in Event
           /\ heap[tmMap[r.stime]].id = r.id
           /\ heap[tmMap[r.stime]].time = r.stime
           /\ heap[tmMap[r.stime]].type = PRIVATE
<1>1. r.id \in Ids /\ r.stime \in Times
  BY DEF Inv, TypeOK, Row
<1>2. tmMap[r.stime] # Null /\ evMap[r.id] = tmMap[r.stime]
      /\ heap[tmMap[r.stime]].type = PRIVATE
  BY DEF Inv, RowsNamePrivate
<1>3. tmMap[r.stime] \in Objects
  BY <1>1, <1>2 DEF Inv, TypeOK
<1>4. heap[tmMap[r.stime]] # Free /\ heap[tmMap[r.stime]].time = r.stime
  BY <1>1, <1>2 DEF Inv, MapsAgree
<1>5. heap[evMap[r.id]].id = r.id
  BY <1>1, <1>2 DEF Inv, MapsAgree
<1>6. heap[tmMap[r.stime]] \in Event
  BY <1>3, <1>4 DEF Inv, TypeOK
<1> QED
  BY <1>1, <1>2, <1>3, <1>4, <1>5, <1>6

\* Erasing objects together with exactly the rows that name them.
LEMMA EraseNamed ==
    ASSUME Inv, NEW gone, Live(gone), NEW rows \in SUBSET table,
           \A r \in table : r \in rows <=> tmMap[r.stime] \notin gone
    PROVE  Named(rows, IdsWithout(evMap, gone), TimesWithout(tmMap, gone),
                 Delete(gone))
<1> DEFINE ev == IdsWithout(evMap, gone)
           tm == TimesWithout(tmMap, gone)
           hp == Delete(gone)
<1>1. ASSUME NEW r \in rows
      PROVE  /\ tm[r.stime] # Null /\ hp[tm[r.stime]].type = PRIVATE
             /\ ev[r.id] = tm[r.stime]
  <2> DEFINE p == tmMap[r.stime]
  <2>1. r \in table /\ p \notin gone
    OBVIOUS
  <2>2. /\ r.id \in Ids /\ r.stime \in Times /\ p \in Objects
        /\ evMap[r.id] = p /\ heap[p] # Free /\ heap[p].id = r.id
        /\ heap[p].time = r.stime /\ heap[p].type = PRIVATE
    BY <2>1, RowObject
  <2>3. ASSUME NEW o \in gone
        PROVE  heap[o].id # r.id /\ heap[o].time # r.stime
    <3>1. o \in Objects /\ heap[o] # Free
      BY DEF Live
    <3>2. evMap[heap[o].id] = o /\ tmMap[heap[o].time] = o
      BY <3>1 DEF Inv, MapsAgree
    <3> QED
      BY <3>2, <2>1, <2>2
  <2>4. ev[r.id] = p
    BY <2>2, <2>3 DEF IdsWithout
  <2>5. tm[r.stime] = p
    BY <2>2, <2>3 DEF TimesWithout
  <2>6. hp[p] = heap[p]
    BY <2>1, <2>2 DEF Delete
  <2>7. p # Null
    BY <2>2, StoreAssumption
  <2> HIDE DEF ev, tm, hp, p
  <2> QED
    BY <2>2, <2>4, <2>5, <2>6, <2>7
<1>2. ASSUME NEW o \in Objects, hp[o] # Free, hp[o].type = PRIVATE
      PROVE  \E r \in rows : r.id = hp[o].id
  <2>1. o \notin gone /\ hp[o] = heap[o] /\ heap[o] # Free
    BY <1>2 DEF Delete
  <2>2. PICK r \in table : r.id = heap[o].id
    BY <2>1, <1>2 DEF Inv, RowsNamePrivate
  <2>3. evMap[heap[o].id] = o
    BY <2>1 DEF Inv, MapsAgree
  <2>4. evMap[r.id] = tmMap[r.stime]
    BY RowObject
  <2>5. r \in rows
    BY <2>1, <2>2, <2>3, <2>4
  <2> QED
    BY <2>1, <2>2, <2>5
<1>3. \A r, s \in rows : r.id = s.id => r = s
  BY DEF Inv, RowsNamePrivate
<1> HIDE DEF ev, tm, hp
<1>4. Named(rows, ev, tm, hp)
  BY <1>1, <1>2, <1>3 DEF Named
<1> QED
  BY <1>4 DEF ev, tm, hp

\* Adding an event of EIT needs no row, adding a private one needs one.
LEMMA AddNamed ==
    ASSUME NEW ev, NEW tm, NEW hp, Maps(ev, tm, hp), Agree(ev, tm, hp),
           NEW rows \in SUBSET Row, Named(rows, ev, tm, hp),
           NEW more \in SUBSET Row,
           NEW e \in Event, NEW new \in Objects,
           ev[e.id] = Null, tm[e.time] = Null, hp[new] = Free,
           \A r \in more : r.id = e.id /\ r.stime = e.time /\ e.type = PRIVATE,
           \A r, s \in more : r = s,
           e.type = PRIVATE => more # {}
    PROVE  Named(rows \cup more, [ev EXCEPT ![e.id] = new],
                 [tm EXCEPT ![e.time] = new], [hp EXCEPT ![new] = e])
<1> DEFINE ev2 == [ev EXCEPT ![e.id] = new]
           tm2 == [tm EXCEPT ![e.time] = new]
           hp2 == [hp EXCEPT ![new] = e]
<1>0. e.id \in Ids /\ e.time \in Times /\ e # Free /\ new # Null
  BY StoreAssumption DEF Event
<1>1. \A i \in Ids : ev2[i] = IF i = e.id THEN new ELSE ev[i]
  BY <1>0 DEF Maps
<1>2. \A t \in Times : tm2[t] = IF t = e.time THEN new ELSE tm[t]
  BY <1>0 DEF Maps
<1>3. \A o \in Objects : hp2[o] = IF o = new THEN e ELSE hp[o]
  BY <1>0 DEF Maps
<1>4. \A r \in rows : /\ r.id \in Ids /\ r.stime \in Times
                      /\ tm[r.stime] \in Objects /\ ev[r.id] = tm[r.stime]
                      /\ hp[tm[r.stime]] # Free
                      /\ hp[tm[r.stime]].type = PRIVATE
  <2> SUFFICES ASSUME NEW r \in rows
               PROVE  /\ r.id \in Ids /\ r.stime \in Times
                      /\ tm[r.stime] \in Objects /\ ev[r.id] = tm[r.stime]
                      /\ hp[tm[r.stime]] # Free
                      /\ hp[tm[r.stime]].type = PRIVATE
    OBVIOUS
  <2>1. r.id \in Ids /\ r.stime \in Times
    BY DEF Row
  <2>2. tm[r.stime] # Null /\ hp[tm[r.stime]].type = PRIVATE
        /\ ev[r.id] = tm[r.stime]
    BY DEF Named
  <2>3. tm[r.stime] \in Objects
    BY <2>1, <2>2 DEF Maps
  <2>4. hp[tm[r.stime]] # Free
    BY <2>1, <2>2 DEF Agree
  <2> QED
    BY <2>1, <2>2, <2>3, <2>4
<1>5. \A r \in rows : r.id # e.id /\ r.stime # e.time /\ tm[r.stime] # new
  BY <1>4, StoreAssumption
<1> HIDE DEF ev2, tm2, hp2
<1>6. ASSUME NEW r \in rows \cup more
      PROVE  /\ tm2[r.stime] # Null /\ hp2[tm2[r.stime]].type = PRIVATE
             /\ ev2[r.id] = tm2[r.stime]
  <2>1. CASE r \in more
    <3>1. ev2[r.id] = new /\ tm2[r.stime] = new
      BY <2>1, <1>0, <1>1, <1>2
    <3>2. hp2[new] = e /\ e.type = PRIVATE
      BY <2>1, <1>3
    <3> QED
      BY <3>1, <3>2, <1>0
  <2>2. CASE r \in rows
    <3>1. ev2[r.id] = ev[r.id] /\ tm2[r.stime] = tm[r.stime]
      BY <2>2, <1>4, <1>5, <1>1, <1>2
    <3>2. hp2[tm[r.stime]] = hp[tm[r.stime]]
      BY <2>2, <1>4, <1>5, <1>3
    <3>3. tm[r.stime] # Null /\ ev[r.id] = tm[r.stime]
          /\ hp[tm[r.stime]].type = PRIVATE
      BY <2>2, <1>4, StoreAssumption
    <3> QED
      BY <3>1, <3>2, <3>3
  <2> QED
    BY <2>1, <2>2
<1>7. ASSUME NEW o \in Objects, hp2[o] # Free, hp2[o].type = PRIVATE
      PROVE  \E r \in rows \cup more : r.id = hp2[o].id
  <2>1. CASE o = new
    BY <2>1, <1>3, <1>7
  <2>2. CASE o # new
    <3>1. hp2[o] = hp[o]
      BY <2>2, <1>3
    <3>2. \E r \in rows : r.id = hp[o].id
      BY <3>1, <1>7 DEF Named
    <3> QED
      BY <3>1, <3>2
  <2> QED
    BY <2>1, <2>2
<1>8. ASSUME NEW r \in rows \cup more, NEW s \in rows \cup more, r.id = s.id
      PROVE  r = s
  BY <1>8, <1>5 DEF Named
<1>9. Named(rows \cup more, ev2, tm2, hp2)
  BY <1>6, <1>7, <1>8 DEF Named
<1> QED
  BY <1>9 DEF ev2, tm2, hp2

Events(hp) == {hp[o] : o \in Objects} \ {Free}

LEMMA EraseEvents ==
    ASSUME Inv, NEW gone, Live(gone)
    PROVE  Events(Delete(gone)) = Events(heap) \ {heap[o] : o \in gone}
<1>1. ASSUME NEW o \in Objects, heap[o] # Free, NEW p \in gone, heap[p] = heap[o]
      PROVE  p = o
  BY <1>1 DEF Inv, MapsAgree, Live
<1>2. ASSUME NEW x \in Events(Delete(gone))
      PROVE  x \in Events(heap) \ {heap[o] : o \in gone}
  <2>1. PICK o \in Objects : x = Delete(gone)[o] /\ x # Free
    BY DEF Events
  <2>2. o \notin gone /\ x = heap[o]
    BY <2>1 DEF Delete
  <2> QED
    BY <2>1, <2>2, <1>1 DEF Events
<1>3. ASSUME NEW x \in Events(heap) \ {heap[o] : o \in gone}
      PROVE  x \in Events(Delete(gone))
  <2>1. PICK o \in Objects : x = heap[o] /\ x # Free
    BY DEF Events
  <2>2. o \notin gone
    BY <2>1
  <2>3. Delete(gone)[o] = x
    BY <2>1, <2>2 DEF Delete
  <2> QED
    BY <2>1, <2>3 DEF Events
<1> QED
  BY <1>2, <1>3

LEMMA AddEvents ==
    ASSUME NEW hp \in [Objects -> Event \cup {Free}], NEW e \in Event,
           NEW new \in Objects, hp[new] = Free
    PROVE  Events([hp EXCEPT ![new] = e]) = Events(hp) \cup {e}
<1>0. e # Free
  BY StoreAssumption
<1>1. \A o \in Objects : [hp EXCEPT ![new] = e][o] = IF o = new THEN e ELSE hp[o]
  OBVIOUS
<1>2. ASSUME NEW x \in Events([hp EXCEPT ![new] = e])
      PROVE  x \in Events(hp) \cup {e}
  BY <1>1 DEF Events
<1>3. ASSUME NEW x \in Events(hp)
      PROVE  x \in Events([hp EXCEPT ![new] = e])
  BY <1>1 DEF Events
<1>4. e \in Events([hp EXCEPT ![new] = e])
  BY <1>0, <1>1 DEF Events
<1> QED
  BY <1>2, <1>3, <1>4

\* An object a map holds is live.
LEMMA HeldIsLive ==
    ASSUME Inv
    PROVE  /\ \A i \in Ids : evMap[i] # Null =>
                  /\ evMap[i] \in Objects /\ heap[evMap[i]] # Free
                  /\ heap[evMap[i]] \in Event
           /\ \A t \in Times : tmMap[t] # Null =>
                  /\ tmMap[t] \in Objects /\ heap[tmMap[t]] # Free
                  /\ heap[tmMap[t]] \in Event
BY DEF Inv, TypeOK, MapsAgree

LEMMA OverlappedFacts ==
    ASSUME NEW e, NEW held, \A p \in held : heap[p] \in Event,
           NEW o \in Overlapped(e, held)
    PROVE  /\ o \in held /\ heap[o].type # PRIVATE
           /\ \/ heap[o].time < e.time /\ Reaches(o, e.time)
              \/ /\ e.time < heap[o].time
                 /\ heap[o].time < e.time + e.dur - Slack
<1>1. CASE /\ o \in held /\ heap[o].time < e.time
           /\ \A p \in held : /\ heap[o].time <= heap[p].time
                              /\ heap[p].time < e.time
                              => Reaches(p, e.time)
           /\ heap[o].type # PRIVATE
  <2>1. heap[o].time <= heap[o].time
    BY <1>1 DEF Event, Times
  <2> QED
    BY <1>1, <2>1 DEF Overlapped
<1>2. CASE /\ o \in held /\ e.time < heap[o].time
           /\ heap[o].time < e.time + e.dur - Slack
           /\ heap[o].type # PRIVATE
  BY <1>2
<1> QED
  BY <1>1, <1>2 DEF Overlapped

LEMMA EventParts ==
    ASSUME NEW x \in Event
    PROVE  /\ x.id \in Ids /\ x.time \in Times /\ x.time \in Nat
           /\ x.dur \in Nat /\ x.type \in Nat
<1>1. x.type \in Sources \cup {PRIVATE} /\ x.dur \in Durations
      /\ x.id \in Ids /\ x.time \in Times
  BY DEF Event
<1>2. x.time \in Nat
  BY <1>1, StoreAssumption DEF Times
<1>3. x.dur \in Nat
  BY <1>1, StoreAssumption
<1>4. CASE x.type \in Sources
  <2>1. x.type \in Nat
    BY <1>4, StoreAssumption
  <2> QED
    BY <1>1, <1>2, <1>3, <2>1
<1>5. CASE x.type = PRIVATE
  <2>1. x.type \in Nat
    BY <1>5 DEF PRIVATE
  <2> QED
    BY <1>1, <1>2, <1>3, <2>1
<1> QED
  BY <1>1, <1>4, <1>5

-----------------------------------------------------------------------------
\* What sectionRead erases: the events at its id and its start and those that
\* overlap, none of them private.
LEMMA SectionReadShape ==
    ASSUME Inv, MovesOntoPrivate = FALSE, NEW e \in Event, SectionRead(e)
    PROVE  \E new \in Objects, over \in SUBSET Objects :
             LET gone == ({evMap[e.id], tmMap[e.time]} \ {Null}) \cup over
             IN  /\ heap[new] = Free /\ Live(gone)
                 /\ \A o \in gone : heap[o].type # PRIVATE
                 /\ \A o \in over : Listing!Overlaps(heap[o], e)
                 /\ evMap' = [IdsWithout(evMap, gone) EXCEPT ![e.id] = new]
                 /\ tmMap' = [TimesWithout(tmMap, gone) EXCEPT ![e.time] = new]
                 /\ heap' = [Delete(gone) EXCEPT ![new] = e]
<1> DEFINE replaced == {evMap[e.id], tmMap[e.time]} \ {Null}
           held == {tmMap[t] : t \in Times} \ (replaced \cup {Null})
           over == Overlapped(e, held)
           gone == replaced \cup over
<1>1. PICK new \in Objects :
           /\ heap[new] = Free
           /\ evMap' = [IdsWithout(evMap, gone) EXCEPT ![e.id] = new]
           /\ tmMap' = [TimesWithout(tmMap, gone) EXCEPT ![e.time] = new]
           /\ heap' = [Delete(gone) EXCEPT ![new] = e]
  BY DEF SectionRead
<1>2. e.id \in Ids /\ e.time \in Times /\ e.dur \in Nat
      /\ e.type \in Sources /\ e.type \in Nat \ {0}
  BY StoreAssumption DEF Event, SectionRead, PRIVATE
<1>3. \A o \in held : o \in Objects /\ heap[o] # Free /\ heap[o] \in Event
  BY HeldIsLive
<1>4. \A o \in over : /\ o \in held /\ heap[o].type # PRIVATE
                      /\ \/ heap[o].time < e.time /\ Reaches(o, e.time)
                         \/ /\ e.time < heap[o].time
                            /\ heap[o].time < e.time + e.dur - Slack
  <2> SUFFICES ASSUME NEW o \in over
               PROVE  /\ o \in held /\ heap[o].type # PRIVATE
                      /\ \/ heap[o].time < e.time /\ Reaches(o, e.time)
                         \/ /\ e.time < heap[o].time
                            /\ heap[o].time < e.time + e.dur - Slack
    OBVIOUS
  <2> QED
    BY <1>3, OverlappedFacts
<1>5. ASSUME NEW o \in over
      PROVE  Listing!Overlaps(heap[o], e)
  BY <1>2, <1>3, <1>4, StoreAssumption
     DEF Listing!Overlaps, Listing!CutsShort, Reaches, Event, Times
<1>6. ASSUME NEW o \in replaced
      PROVE  o \in Objects /\ heap[o] # Free /\ heap[o].type # PRIVATE
  <2>1. o \in Objects /\ heap[o] # Free /\ heap[o] \in Event
    BY <1>2, HeldIsLive
  <2>2. heap[o].type \in Nat
    BY <2>1, EventParts
  <2>3. Accepts(e)
    BY DEF SectionRead
  <2>4. CASE o = evMap[e.id]
    <3>1. e.type <= heap[o].type
      BY <2>3, <2>4 DEF Accepts
    <3> QED
      BY <2>1, <2>2, <3>1, <1>2 DEF PRIVATE
  <2>5. CASE o = tmMap[e.time]
    <3>1. CASE evMap[e.id] = Null
      <4>1. e.type <= heap[o].type
        BY <2>3, <2>5, <3>1 DEF Accepts
      <4> QED
        BY <2>1, <2>2, <4>1, <1>2 DEF PRIVATE
    <3>2. CASE evMap[e.id] # Null
      BY <2>1, <2>3, <2>5, <3>2 DEF Accepts
    <3> QED
      BY <3>1, <3>2
  <2> QED
    BY <2>4, <2>5
<1>7. over \in SUBSET Objects
  BY <1>3, <1>4
<1>8. Live(gone) /\ \A o \in gone : heap[o].type # PRIVATE
  BY <1>3, <1>4, <1>6 DEF Live
<1> HIDE DEF over
<1> WITNESS new \in Objects, over \in SUBSET Objects
<1> QED
  BY <1>1, <1>5, <1>8

LEMMA SectionReadInv ==
    ASSUME Inv, MovesOntoPrivate = FALSE, NEW e \in Event, SectionRead(e)
    PROVE  /\ Inv'
           /\ Listing!Announce(e)
<1>1. PICK new \in Objects, over \in SUBSET Objects :
             LET gone == ({evMap[e.id], tmMap[e.time]} \ {Null}) \cup over
             IN  /\ heap[new] = Free /\ Live(gone)
                 /\ \A o \in gone : heap[o].type # PRIVATE
                 /\ \A o \in over : Listing!Overlaps(heap[o], e)
                 /\ evMap' = [IdsWithout(evMap, gone) EXCEPT ![e.id] = new]
                 /\ tmMap' = [TimesWithout(tmMap, gone) EXCEPT ![e.time] = new]
                 /\ heap' = [Delete(gone) EXCEPT ![new] = e]
  BY SectionReadShape
<1> DEFINE replaced == {evMap[e.id], tmMap[e.time]} \ {Null}
           gone == replaced \cup over
           ev == IdsWithout(evMap, gone)
           tm == TimesWithout(tmMap, gone)
           hp == Delete(gone)
<1>2. e.id \in Ids /\ e.time \in Times /\ e.type # PRIVATE /\ job = {}
      /\ table' = table /\ job' = job /\ now' = now
  BY DEF SectionRead, Event
<1>3. Live(gone)
  BY <1>1
<1>4. Maps(ev, tm, hp) /\ Agree(ev, tm, hp)
  BY <1>3, EraseAgrees DEF Inv
<1>5. \A r \in table : tmMap[r.stime] \notin gone
  BY <1>1, RowObject
<1>6. Named(table, ev, tm, hp)
  BY <1>3, <1>5, EraseNamed
<1>7. ev[e.id] = Null
  <2>1. CASE evMap[e.id] = Null
    BY <2>1, <1>2 DEF IdsWithout
  <2>2. CASE evMap[e.id] # Null
    <3>1. evMap[e.id] \in gone /\ heap[evMap[e.id]].id = e.id
      BY <2>2, <1>2 DEF Inv, MapsAgree
    <3> QED
      BY <3>1, <1>2 DEF IdsWithout
  <2> QED
    BY <2>1, <2>2
<1>8. tm[e.time] = Null
  <2>1. CASE tmMap[e.time] = Null
    BY <2>1, <1>2 DEF TimesWithout
  <2>2. CASE tmMap[e.time] # Null
    <3>1. tmMap[e.time] \in gone /\ heap[tmMap[e.time]].time = e.time
      BY <2>2, <1>2 DEF Inv, MapsAgree
    <3> QED
      BY <3>1, <1>2 DEF TimesWithout
  <2> QED
    BY <2>1, <2>2
<1>9. hp[new] = Free
  BY <1>1 DEF Delete
<1>10. evMap' = [ev EXCEPT ![e.id] = new] /\ tmMap' = [tm EXCEPT ![e.time] = new]
       /\ heap' = [hp EXCEPT ![new] = e]
  BY <1>1
<1> HIDE DEF ev, tm, hp
<1>11. Maps(evMap', tmMap', heap') /\ Agree(evMap', tmMap', heap')
  BY <1>4, <1>7, <1>8, <1>9, <1>10, AddAgrees
<1>12. Named(table, evMap', tmMap', heap')
  <2>1. table \in SUBSET Row
    BY DEF Inv, TypeOK
  <2>2. Named(table \cup {}, evMap', tmMap', heap')
    BY <1>2, <1>4, <1>6, <1>7, <1>8, <1>9, <1>10, <2>1, AddNamed
  <2> QED
    BY <2>2
<1>13. Inv'
  BY <1>2, <1>11, <1>12
     DEF Inv, TypeOK, MapsAgree, RowsNamePrivate, Maps, Agree, Named
<1>14. Listing!Announce(e)
  <2> DEFINE ov == {heap[o] : o \in over}
             E1 == Events(heap)
  <2>0. Listing!Announce(e) <=>
          /\ e.type # PRIVATE
          /\ \A x \in E1 : x.id = e.id => e.type <= x.type
          /\ \E g \in SUBSET {x \in E1 : x.type # PRIVATE /\ Listing!Overlaps(x, e)} :
                 Events(heap') = {x \in E1 \ g : x.id # e.id /\ x.time # e.time}
                                 \cup {e}
          /\ now' = now
    BY DEF Listing!Announce, Events
  <2>1. ASSUME NEW x \in E1, x.id = e.id
        PROVE  e.type <= x.type
    <3>1. PICK o \in Objects : x = heap[o] /\ heap[o] # Free
      BY DEF Events
    <3>2. evMap[e.id] = o /\ o # Null
      BY <3>1, <2>1, StoreAssumption DEF Inv, MapsAgree
    <3>3. Accepts(e)
      BY DEF SectionRead
    <3> QED
      BY <3>1, <3>2, <3>3 DEF Accepts
  <2>2. ov \in SUBSET {x \in E1 : x.type # PRIVATE /\ Listing!Overlaps(x, e)}
    BY <1>1, <1>3 DEF Events, Live
  <2>3. Events(hp) = E1 \ {heap[o] : o \in gone}
    BY <1>3, EraseEvents DEF hp
  <2>4. Events(heap') = Events(hp) \cup {e}
    BY <1>4, <1>9, <1>10, AddEvents DEF Maps
  <2>5. E1 \ {heap[o] : o \in gone}
          = {x \in E1 \ ov : x.id # e.id /\ x.time # e.time}
    <3>1. ASSUME NEW x \in E1, x \notin {heap[o] : o \in gone}
          PROVE  x \notin ov /\ x.id # e.id /\ x.time # e.time
      <4>1. PICK o \in Objects : x = heap[o] /\ heap[o] # Free
        BY DEF Events
      <4>2. evMap[x.id] = o /\ tmMap[x.time] = o /\ o # Null
        BY <4>1, StoreAssumption DEF Inv, MapsAgree
      <4>3. o \notin gone
        BY <4>1, <3>1
      <4> QED
        BY <3>1, <4>2, <4>3
    <3>2. ASSUME NEW x \in E1 \ ov, x.id # e.id, x.time # e.time,
                 NEW o \in gone
          PROVE  x # heap[o]
      <4>1. CASE o \in over
        BY <4>1
      <4>2. CASE o = evMap[e.id] /\ o # Null
        BY <4>2, <3>2, <1>2 DEF Inv, MapsAgree
      <4>3. CASE o = tmMap[e.time] /\ o # Null
        BY <4>3, <3>2, <1>2 DEF Inv, MapsAgree
      <4> QED
        BY <4>1, <4>2, <4>3
    <3> QED
      BY <3>1, <3>2
  <2>6. Events(heap') = {x \in E1 \ ov : x.id # e.id /\ x.time # e.time} \cup {e}
    BY <2>3, <2>4, <2>5
  <2> HIDE DEF E1, ov
  <2> QED
    BY <2>0, <2>1, <2>2, <2>6, <1>2
<1> QED
  BY <1>13, <1>14

LEMMA CleanLoopInv ==
    ASSUME Inv, CleanLoop
    PROVE  Inv' /\ Listing!Expire
<1> DEFINE gone == {o \in {tmMap[t] : t \in Times} \ {Null} : Outdated(o)}
           rows == {r \in table : TimesWithout(tmMap, gone)[r.stime] # Null}
<1>1. /\ evMap' = IdsWithout(evMap, gone) /\ tmMap' = TimesWithout(tmMap, gone)
      /\ heap' = Delete(gone) /\ table' = rows
      /\ job' = job /\ now' = now
  BY DEF CleanLoop
<1>2. Live(gone)
  BY HeldIsLive DEF Live
<1>3. Maps(evMap', tmMap', heap') /\ Agree(evMap', tmMap', heap')
  BY <1>1, <1>2, EraseAgrees DEF Inv
<1>4. ASSUME NEW r \in table
      PROVE  r \in rows <=> tmMap[r.stime] \notin gone
  <2>1. /\ r.stime \in Times /\ tmMap[r.stime] \in Objects
        /\ heap[tmMap[r.stime]].time = r.stime
    BY RowObject
  <2>2. ASSUME NEW o \in gone, heap[o].time = r.stime
        PROVE  o = tmMap[r.stime]
    BY <1>2, <2>2 DEF Live, Inv, MapsAgree
  <2>3. TimesWithout(tmMap, gone)[r.stime]
          = IF tmMap[r.stime] \in gone THEN Null ELSE tmMap[r.stime]
    BY <2>1, <2>2 DEF TimesWithout
  <2>4. tmMap[r.stime] # Null
    BY <2>1, StoreAssumption
  <2> QED
    BY <2>3, <2>4
<1>5. Named(rows, evMap', tmMap', heap')
  BY <1>1, <1>2, <1>4, EraseNamed
<1>6. Inv'
  BY <1>1, <1>3, <1>5
     DEF Inv, TypeOK, MapsAgree, RowsNamePrivate, Maps, Agree, Named
<1>7. Listing!Expire
  <2> DEFINE E1 == Events(heap)
  <2>1. Listing!Expire <=> /\ Events(heap') = {x \in E1 : ~Listing!Over(x)}
                           /\ now' = now
    BY DEF Listing!Expire, Events
  <2>2. Events(heap') = E1 \ {heap[o] : o \in gone}
    BY <1>1, <1>2, EraseEvents
  <2>3. ASSUME NEW o \in Objects, heap[o] # Free
        PROVE  o \in gone <=> Listing!Over(heap[o])
    <3>1. heap[o] \in Event /\ tmMap[heap[o].time] = o /\ o # Null
      BY <2>3, StoreAssumption DEF Inv, TypeOK, MapsAgree
    <3>2. heap[o].time \in Times /\ heap[o].time \in Nat /\ heap[o].dur \in Nat
      BY <3>1, EventParts
    <3>3. o \in gone <=> Outdated(o)
      BY <3>1, <3>2
    <3>4. now \in Nat
      BY DEF Inv, TypeOK
    <3> QED
      BY <3>2, <3>3, <3>4 DEF Outdated, Listing!Over
  <2>4. ASSUME NEW x \in E1
        PROVE  x \in {heap[o] : o \in gone} <=> Listing!Over(x)
    <3>1. PICK o \in Objects : x = heap[o] /\ heap[o] # Free
      BY DEF Events
    <3>2. ASSUME NEW p \in gone, heap[p] = x
          PROVE  Listing!Over(x)
      BY <3>2, <2>3, <1>2 DEF Live
    <3> QED
      BY <3>1, <3>2, <2>3
  <2> HIDE DEF gone, E1
  <2> QED
    BY <1>1, <2>1, <2>2, <2>4
<1> QED
  BY <1>6, <1>7

LEMMA PrivateBeginInv ==
    ASSUME Inv, NEW j \in Job, PrivateBegin(j)
    PROVE  Inv' /\ Listing!Withdraw
<1> DEFINE rows == {r \in table : r.content = j.content}
           gone == {evMap[r.id] : r \in rows} \ {Null}
<1>1. /\ evMap' = [i \in Ids |-> IF \E r \in rows : r.id = i
                                 THEN Null ELSE evMap[i]]
      /\ tmMap' = [t \in Times |-> IF \E r \in rows : r.stime = t
                                   THEN Null ELSE tmMap[t]]
      /\ heap' = Delete(gone) /\ table' = table \ rows /\ now' = now
  BY DEF PrivateBegin
<1>2. \A r \in rows : /\ evMap[r.id] \in gone /\ heap[evMap[r.id]].id = r.id
                      /\ evMap[r.id] = tmMap[r.stime]
                      /\ heap[evMap[r.id]].time = r.stime
  BY RowObject, StoreAssumption
<1>3. Live(gone) /\ \A o \in gone : heap[o].type = PRIVATE
  BY RowObject DEF Live
<1>4. \A o \in gone : \E r \in rows : heap[o].id = r.id /\ heap[o].time = r.stime
  BY RowObject
<1>5. evMap' = IdsWithout(evMap, gone)
  <2>1. \A i \in Ids : (\E r \in rows : r.id = i) <=> \E o \in gone : heap[o].id = i
    BY <1>2, <1>4
  <2> QED
    BY <1>1, <2>1 DEF IdsWithout
<1>6. tmMap' = TimesWithout(tmMap, gone)
  <2>1. \A t \in Times : (\E r \in rows : r.stime = t) <=> \E o \in gone : heap[o].time = t
    BY <1>2, <1>4
  <2> QED
    BY <1>1, <2>1 DEF TimesWithout
<1>7. Maps(evMap', tmMap', heap') /\ Agree(evMap', tmMap', heap')
  BY <1>1, <1>3, <1>5, <1>6, EraseAgrees DEF Inv
<1>8. ASSUME NEW r \in table
      PROVE  r \in table \ rows <=> tmMap[r.stime] \notin gone
  <2>1. CASE r \in rows
    BY <2>1, <1>2
  <2>2. CASE r \notin rows
    <3>1. ASSUME tmMap[r.stime] \in gone
          PROVE  FALSE
      <4>1. PICK s \in rows : tmMap[r.stime] = evMap[s.id]
        BY <3>1
      <4>2. r.id = s.id
        BY <4>1, RowObject
      <4>3. r = s
        BY <4>2 DEF Inv, RowsNamePrivate
      <4> QED
        BY <4>3, <2>2
    <3> QED
      BY <3>1, <2>2
  <2> QED
    BY <2>1, <2>2
<1>9. Named(table \ rows, evMap', tmMap', heap')
  BY <1>1, <1>3, <1>5, <1>6, <1>8, EraseNamed
<1>10. job' \subseteq Job /\ \A k, l \in job' : k = l
  <2>1. \A S \in SUBSET Times : [j EXCEPT !.starts = S] \in Job
    BY DEF Job
  <2>2. {t \in j.starts : ~(t + j.dur < now)} \in SUBSET Times
    BY DEF Job
  <2>3. job' = Rest(j, {t \in j.starts : ~(t + j.dur < now)})
    BY DEF PrivateBegin
  <2> QED
    BY <2>1, <2>2, <2>3 DEF Rest
<1>11. Inv'
  BY <1>1, <1>7, <1>9, <1>10
     DEF Inv, TypeOK, MapsAgree, RowsNamePrivate, Maps, Agree, Named
<1>12. Listing!Withdraw
  <2> DEFINE E1 == Events(heap)
             ov == {heap[o] : o \in gone}
  <2>1. Listing!Withdraw <=>
          /\ \E g \in SUBSET {x \in E1 : x.type = PRIVATE} : Events(heap') = E1 \ g
          /\ now' = now
    BY DEF Listing!Withdraw, Events
  <2>2. Events(heap') = E1 \ ov
    BY <1>1, <1>3, EraseEvents
  <2>3. ov \in SUBSET {x \in E1 : x.type = PRIVATE}
    BY <1>3 DEF Events, Live
  <2> HIDE DEF E1, ov
  <2> QED
    BY <1>1, <2>1, <2>2, <2>3
<1> QED
  BY <1>11, <1>12

LEMMA PrivateAddInv ==
    ASSUME Inv, PrivateAdd
    PROVE  Inv' /\ \E e \in Event : Listing!Offer(e)
<1>1. PICK j \in job, start \in Times, stime \in Times, id \in Ids, new \in Objects :
            /\ IsLeast(start, j.starts)
            /\ IsLeast(stime, {t \in Times : t >= start /\ tmMap[t] = Null})
            /\ IsLeast(id, {i \in Ids : evMap[i] = Null})
            /\ heap[new] = Free
            /\ evMap' = [evMap EXCEPT ![id] = new]
            /\ tmMap' = [tmMap EXCEPT ![stime] = new]
            /\ heap' = [heap EXCEPT ![new] = [id |-> id, time |-> stime,
                                              dur |-> j.dur, type |-> PRIVATE]]
            /\ table' = table \cup {[content |-> j.content, start |-> start,
                                     stime |-> stime, id |-> id]}
            /\ job' = Rest(j, j.starts \ {start})
  BY Zenon DEF PrivateAdd
<1> DEFINE e == [id |-> id, time |-> stime, dur |-> j.dur, type |-> PRIVATE]
           row == [content |-> j.content, start |-> start, stime |-> stime, id |-> id]
<1>2. j \in Job /\ table \in SUBSET Row /\ now' = now
  BY DEF Inv, TypeOK, PrivateAdd
<1>3. e \in Event /\ row \in Row
  <2>1. j.dur \in Durations /\ j.content \in Contents
    BY <1>2 DEF Job
  <2>2. e \in Event
    BY <2>1 DEF Event
  <2>3. row \in Row
    BY <2>1 DEF Row
  <2> QED
    BY <2>2, <2>3
<1>4. e.id = id /\ e.time = stime /\ e.type = PRIVATE /\ row.id = id
      /\ row.stime = stime
  OBVIOUS
<1>5. evMap[id] = Null /\ tmMap[stime] = Null
  BY <1>1 DEF IsLeast
<1>6. Maps(evMap, tmMap, heap) /\ Agree(evMap, tmMap, heap)
      /\ Named(table, evMap, tmMap, heap)
  BY DEF Inv, TypeOK, MapsAgree, RowsNamePrivate, Maps, Agree, Named
<1>7. /\ evMap' = [evMap EXCEPT ![e.id] = new] /\ tmMap' = [tmMap EXCEPT ![e.time] = new]
      /\ heap' = [heap EXCEPT ![new] = e] /\ table' = table \cup {row}
  BY <1>1
<1>0. heap[new] = Free
  BY <1>1
<1>8. job' \subseteq Job /\ \A k, l \in job' : k = l
  <2>1. [j EXCEPT !.starts = j.starts \ {start}] \in Job
    BY <1>2 DEF Job
  <2> QED
    BY <1>1, <2>1 DEF Rest
<1> HIDE DEF e, row
<1>9. Maps(evMap', tmMap', heap') /\ Agree(evMap', tmMap', heap')
  <2>1. evMap[e.id] = Null /\ tmMap[e.time] = Null
    BY <1>4, <1>5
  <2> QED
    BY <1>0, <1>3, <1>6, <1>7, <2>1, AddAgrees
<1>10. Named(table \cup {row}, evMap', tmMap', heap')
  <2>1. {row} \in SUBSET Row /\ {row} # {}
    BY <1>3
  <2>2. \A r \in {row} : r.id = e.id /\ r.stime = e.time /\ e.type = PRIVATE
    BY <1>4
  <2>3. \A r, s \in {row} : r = s
    OBVIOUS
  <2>4. evMap[e.id] = Null /\ tmMap[e.time] = Null /\ heap[new] = Free
    BY <1>0, <1>4, <1>5
  <2> QED
    BY <1>2, <1>3, <1>6, <1>7, <2>1, <2>2, <2>3, <2>4, AddNamed
<1>11. Inv'
  <2>1. table' \subseteq Row
    BY <1>2, <1>3, <1>7
  <2>2. now' \in Nat
    BY <1>2 DEF Inv, TypeOK
  <2> QED
    BY <1>7, <1>8, <1>9, <1>10, <2>1, <2>2
       DEF Inv, TypeOK, MapsAgree, RowsNamePrivate, Maps, Agree, Named
<1>12. Listing!Offer(e)
  <2> DEFINE E1 == Events(heap)
  <2>1. Listing!Offer(e) <=> /\ e.type = PRIVATE
                             /\ \A x \in E1 : x.id # e.id /\ x.time # e.time
                             /\ Events(heap') = E1 \cup {e}
                             /\ now' = now
    BY DEF Listing!Offer, Events
  <2>2. Events(heap') = E1 \cup {e}
    BY <1>0, <1>3, <1>6, <1>7, AddEvents DEF Maps
  <2>3. ASSUME NEW x \in E1
        PROVE  x.id # e.id /\ x.time # e.time
    <3>1. PICK o \in Objects : x = heap[o] /\ heap[o] # Free
      BY DEF Events
    <3>2. evMap[x.id] = o /\ tmMap[x.time] = o /\ o # Null
      BY <3>1, StoreAssumption DEF Inv, MapsAgree
    <3> QED
      BY <3>2, <1>4, <1>5
  <2> HIDE DEF E1
  <2> QED
    BY <1>2, <1>4, <2>1, <2>2, <2>3
<1> QED
  BY <1>3, <1>11, <1>12

LEMMA InitInv == Init => Inv /\ Listing!Init
<1> SUFFICES ASSUME Init PROVE Inv /\ Listing!Init
  OBVIOUS
<1>1. TypeOK
  BY DEF Init, TypeOK
<1>2. MapsAgree /\ RowsNamePrivate
  BY DEF Init, MapsAgree, RowsNamePrivate
<1>3. {heap[o] : o \in Objects} \ {Free} = {}
  BY DEF Init
<1> QED
  BY <1>1, <1>2, <1>3 DEF Inv, Init, Listing!Init

LEMMA NextInv ==
    ASSUME Inv, MovesOntoPrivate = FALSE, [Next]_vars
    PROVE  Inv' /\ [Listing!Next]_(Listing!listingVars)
<1>1. ASSUME NEW e \in Event, SectionRead(e)
      PROVE  Inv' /\ Listing!Next
  BY <1>1, SectionReadInv DEF Listing!Next
<1>2. ASSUME NEW j \in Job, PrivateBegin(j)
      PROVE  Inv' /\ Listing!Next
  BY <1>2, PrivateBeginInv DEF Listing!Next
<1>3. CASE PrivateAdd
  BY <1>3, PrivateAddInv DEF Listing!Next
<1>4. CASE CleanLoop
  BY <1>4, CleanLoopInv DEF Listing!Next
<1>5. CASE Tick
  <2>1. Inv'
    BY <1>5 DEF Tick, Inv, TypeOK, MapsAgree, RowsNamePrivate
  <2>2. Listing!Tick
    BY <1>5 DEF Tick, Listing!Tick
  <2> QED
    BY <2>1, <2>2 DEF Listing!Next
<1>6. CASE UNCHANGED vars
  <2>1. Inv'
    BY <1>6 DEF vars, Inv, TypeOK, MapsAgree, RowsNamePrivate
  <2>2. UNCHANGED Listing!listingVars
    BY <1>6 DEF vars, Listing!listingVars
  <2> QED
    BY <2>1, <2>2
<1> QED
  BY <1>1, <1>2, <1>3, <1>4, <1>5, <1>6 DEF Next

\* As long as EIT moves no event onto a private one, every handler leaves the
\* maps over the same objects and the rows naming the private events.
THEOREM MapsAlwaysAgree ==
    ASSUME MovesOntoPrivate = FALSE
    PROVE  Spec => [](TypeOK /\ MapsAgree /\ RowsNamePrivate)
<1>1. Init => Inv
  BY InitInv
<1>2. Inv /\ [Next]_vars => Inv'
  BY NextInv
<1>3. Inv => TypeOK /\ MapsAgree /\ RowsNamePrivate
  BY DEF Inv
<1> QED
  BY <1>1, <1>2, <1>3, PTL DEF Spec

\* So a clean-up, whatever it finds, leaves no row without its private event and
\* no private event without its row.
THEOREM RowsAlwaysNamePrivate ==
    ASSUME MovesOntoPrivate = FALSE
    PROVE  Spec => []RowsNamePrivate
BY MapsAlwaysAgree, PTL

\* And so the maps implement the listing of events.
THEOREM ImplementsListing ==
    ASSUME MovesOntoPrivate = FALSE
    PROVE  Spec => ListingKept
<1>1. Init => Inv /\ Listing!Init
  BY InitInv
<1>2. Inv /\ [Next]_vars => Inv' /\ [Listing!Next]_(Listing!listingVars)
  BY NextInv
<1> QED
  BY <1>1, <1>2, PTL DEF Spec, ListingKept, Listing!Spec

-----------------------------------------------------------------------------
(***************************************************************************)
(*               2. The data of a channel that is deleted                  *)
(*                                                                         *)
(* DeletedNotArmed is not inductive: that nothing is armed when the main   *)
(* loop forgets a channel follows from who holds its channel_active, and,  *)
(* where the thread has given back what the main loop had taken, from the  *)
(* order of the messages.                                                  *)
(***************************************************************************)

Messages == [type : MessageType, channel : Channels \cup {NoChannel}]

\* A message of the type about c is on the way.
Sent(type, c) == \E i \in DOMAIN messages : messages[i] = Message(type, c)

\* Only the thread takes channel_map_lock for longer than one step.
MapLocked ==
    /\ map_lock # "main"
    /\ map_lock = "thread" <=> thread = "lock"
    /\ thread = "lock" => starting \in m_knownChannels

\* channel_active: the thread arms timers and readers only while it holds it.
ActiveHeld ==
    \A c \in Channels :
      /\ active[c] = "main" => main = "map" /\ leaving = c
      /\ active[c] = "thread" => c \in m_knownChannels
      /\ Armed(c) => active[c] = "thread"

\* No channel is started after it was left.
LeaveIsLast ==
    \A i, j \in DOMAIN messages : \A c \in Channels :
      i < j /\ messages[i] = Message("leave", c) => messages[j] # Message("start", c)

\* A channel that is told to leave and is still known is being forgotten.
LeftIsLeaving ==
    \A c \in Channels : c \in m_knownChannels /\ Sent("leave", c) => leaving = c

\* The main loop holds channel_active of the channel it forgets, or the thread
\* has handled its leave, and nothing that comes can start it.
Forgets ==
    main = "map" =>
      \/ active[leaving] = "main"
      \/ active[leaving] = "free" /\ starting # leaving /\ ~Sent("start", leaving)

Guarded == MapLocked /\ ActiveHeld /\ LeaveIsLast /\ LeftIsLeaving /\ Forgets

ThreadInv == ThreadTypeOK /\ Guarded

-----------------------------------------------------------------------------
(***************************************************************************)
(* The queue of messages.                                                  *)
(***************************************************************************)
LEMMA MessageTyped ==
    ASSUME NEW type \in MessageType, NEW c \in Channels \cup {NoChannel}
    PROVE  Message(type, c) \in Messages /\ Message(type, c).type = type /\ Message(type, c).channel = c
BY DEF Message, Messages

LEMMA MessageDiffers ==
    \A type, other, c, d : Message(type, c) = Message(other, d) => type = other /\ c = d
BY DEF Message

\* A handler of the thread takes the first message.
LEMMA Taken ==
    ASSUME ThreadTypeOK, messages # <<>>, messages' = Tail(messages)
    PROVE  /\ messages' \in Seq(Messages)
           /\ Head(messages) \in Messages /\ 1 \in DOMAIN messages /\ messages[1] = Head(messages)
           /\ \A i \in DOMAIN messages' :
                 i \in Nat /\ i + 1 \in DOMAIN messages /\ 1 < i + 1 /\ messages'[i] = messages[i + 1]
<1>1. messages \in Seq(Messages)
  BY DEF ThreadTypeOK, Messages
<1>2. ASSUME NEW M, messages \in Seq(M)
      PROVE  /\ Tail(messages) \in Seq(M)
             /\ Head(messages) \in M /\ 1 \in DOMAIN messages /\ messages[1] = Head(messages)
             /\ \A i \in DOMAIN Tail(messages) :
                   /\ i \in Nat /\ i + 1 \in DOMAIN messages /\ 1 < i + 1
                   /\ Tail(messages)[i] = messages[i + 1]
  BY <1>2
<1> QED
  BY <1>1, <1>2

LEMMA TakenOrder ==
    ASSUME ThreadTypeOK, LeaveIsLast, messages # <<>>, messages' = Tail(messages)
    PROVE  /\ LeaveIsLast'
           /\ \A type, c : Sent(type, c)' => Sent(type, c)
           /\ \A c \in Channels : Head(messages) = Message("leave", c) => ~Sent("start", c)'
<1>1. \A i \in DOMAIN messages' :
         i \in Nat /\ i + 1 \in DOMAIN messages /\ 1 < i + 1 /\ messages'[i] = messages[i + 1]
  BY Taken
<1>2. 1 \in DOMAIN messages /\ messages[1] = Head(messages)
  BY Taken
<1>3. LeaveIsLast'
  <2> SUFFICES ASSUME NEW i \in DOMAIN messages', NEW j \in DOMAIN messages', NEW c \in Channels,
                      i < j, messages'[i] = Message("leave", c)
               PROVE  messages'[j] # Message("start", c)
    BY DEF LeaveIsLast
  <2>1. i + 1 < j + 1
    BY <1>1
  <2> QED
    BY <1>1, <2>1 DEF LeaveIsLast
<1>4. \A type, c : Sent(type, c)' => Sent(type, c)
  BY <1>1 DEF Sent
<1>5. \A c \in Channels : Head(messages) = Message("leave", c) => ~Sent("start", c)'
  BY <1>1, <1>2 DEF Sent, LeaveIsLast
<1> QED
  BY <1>3, <1>4, <1>5

\* The main loop sends one.
LEMMA Appended ==
    ASSUME ThreadTypeOK, NEW type \in MessageType, NEW c \in Channels \cup {NoChannel},
           messages' = Append(messages, Message(type, c))
    PROVE  /\ messages' \in Seq(Messages)
           /\ \A i \in DOMAIN messages' :
                \/ i \in DOMAIN messages /\ messages'[i] = messages[i]
                \/ i \notin DOMAIN messages /\ messages'[i] = Message(type, c)
           /\ \A i \in DOMAIN messages, j \in DOMAIN messages' : j < i => j \in DOMAIN messages
           /\ \A i, j \in DOMAIN messages' : i < j => i \in DOMAIN messages
           /\ DOMAIN messages' \subseteq Nat
<1> DEFINE m == Message(type, c)
<1>1. messages \in Seq(Messages) /\ m \in Messages
  BY MessageTyped DEF ThreadTypeOK, Messages
<1> HIDE DEF m
<1> QED
  BY <1>1 DEF m

LEMMA AppendedOrder ==
    ASSUME ThreadTypeOK, LeaveIsLast, NEW type \in MessageType, NEW c \in Channels \cup {NoChannel},
           messages' = Append(messages, Message(type, c)),
           type = "start" => ~Sent("leave", c)
    PROVE  /\ LeaveIsLast'
           /\ \A other, d : Sent(other, d)' => Sent(other, d) \/ (other = type /\ d = c)
<1>1. \A i \in DOMAIN messages' :
        \/ i \in DOMAIN messages /\ messages'[i] = messages[i]
        \/ i \notin DOMAIN messages /\ messages'[i] = Message(type, c)
  BY Appended
<1>2. \A i, j \in DOMAIN messages' : i < j => i \in DOMAIN messages
  BY Appended
<1>3. ASSUME NEW i \in DOMAIN messages', NEW j \in DOMAIN messages', NEW d \in Channels,
             i < j, messages'[i] = Message("leave", d)
      PROVE  messages'[j] # Message("start", d)
  <2>1. i \in DOMAIN messages /\ messages[i] = Message("leave", d)
    BY <1>1, <1>2, <1>3
  <2>2. CASE j \in DOMAIN messages
    BY <1>1, <1>3, <2>1, <2>2 DEF LeaveIsLast
  <2>3. CASE j \notin DOMAIN messages
    <3>1. messages'[j] = Message(type, c)
      BY <1>1, <2>3
    <3>2. Sent("leave", d)
      BY <2>1 DEF Sent
    <3> QED
      BY <3>1, <3>2, MessageDiffers
  <2> QED
    BY <2>2, <2>3
<1>4. LeaveIsLast'
  BY <1>3 DEF LeaveIsLast
<1>5. \A other, d : Sent(other, d)' => Sent(other, d) \/ (other = type /\ d = c)
  BY <1>1, MessageDiffers DEF Sent
<1> QED
  BY <1>4, <1>5

-----------------------------------------------------------------------------
(***************************************************************************)
(* The type.                                                               *)
(***************************************************************************)
LEMMA InitType == ThreadInit => ThreadTypeOK
<1> SUFFICES ASSUME ThreadInit PROVE ThreadTypeOK
  OBVIOUS
<1>1. zapTimer \in [Channels -> BOOLEAN] /\ abortTimer \in [Channels -> BOOLEAN]
  BY Zenon DEF ThreadInit
<1>2. isRunning \in [Channels -> SUBSET Readers] /\ haveData \in [Channels -> SUBSET Readers]
  BY DEF ThreadInit
<1>3. /\ active \in [Channels -> Holders] /\ state \in [Channels -> -2 .. 2]
      /\ prevChannelState \in [Channels -> {"none", "ok"}]
      /\ private \in [Channels -> {"unset", "timer", "reader", "stopped"}]
  BY DEF ThreadInit, Holders
<1>4. /\ main = "idle" /\ leaving = NoChannel /\ events = 0 /\ thread = "none"
      /\ starting = NoChannel /\ m_running = FALSE /\ messages = <<>>
      /\ map_lock = "free" /\ m_knownChannels = {}
  BY DEF ThreadInit
<1>5. messages \in Seq(Messages) /\ m_running \in BOOLEAN
  BY <1>4, EmptySeq, Zenon
<1> QED
  BY <1>1, <1>2, <1>3, <1>4, <1>5, ThreadAssumption DEF ThreadTypeOK,
     Holders, Messages

\* The channels that wait are started in some order.
LEMMA RunReturnsSends ==
    ASSUME ThreadTypeOK, NEW order \in SetToSeqs(Waiting),
           messages' = messages \o [i \in DOMAIN order |-> Message("start", order[i])]
    PROVE  /\ messages' \in Seq(Messages)
           /\ \A i \in DOMAIN messages' :
                \/ i \in DOMAIN messages /\ messages'[i] = messages[i]
                \/ i \notin DOMAIN messages /\ \E c \in Waiting : messages'[i] = Message("start", c)
           /\ \A i \in DOMAIN messages, j \in DOMAIN messages' : j < i => j \in DOMAIN messages
<1> DEFINE N == Cardinality(Waiting)
           s == [i \in DOMAIN order |-> Message("start", order[i])]
<1>1. Waiting \subseteq Channels /\ N \in Nat
  BY ThreadAssumption, FS_Subset, FS_CardinalityType DEF ThreadTypeOK, Waiting
<1>2. order \in [1..N -> Waiting]
  BY DEF SetToSeqs
<1> HIDE DEF N
<1>3. DOMAIN s = 1..N /\ \A i \in 1..N : s[i] = Message("start", order[i]) /\ order[i] \in Waiting
  BY <1>2
<1>4. \A i \in 1..N : s[i] \in Messages
  BY <1>1, <1>3, MessageTyped DEF MessageType
<1>5. s = [i \in 1..N |-> s[i]]
  BY <1>3
<1> HIDE DEF s
<1>6. s \in Seq(Messages) /\ Len(s) = N
  <2>1. s \in [1..N -> Messages]
    BY <1>4, <1>5
  <2>2. s \in Seq(Messages)
    BY <1>1, <2>1, SeqDef
  <2> QED
    BY <1>1, <2>1, <2>2, LenProperties
<1>7. messages \in Seq(Messages) /\ messages' = messages \o s
  BY DEF ThreadTypeOK, Messages, s
<1>8. ASSUME NEW M, messages \in Seq(M), s \in Seq(M)
      PROVE  /\ messages \o s \in Seq(M)
             /\ \A i \in DOMAIN (messages \o s) :
                  \/ i \in DOMAIN messages /\ (messages \o s)[i] = messages[i]
                  \/ /\ i \notin DOMAIN messages
                     /\ i - Len(messages) \in DOMAIN s /\ (messages \o s)[i] = s[i - Len(messages)]
             /\ \A i \in DOMAIN messages, j \in DOMAIN (messages \o s) : j < i => j \in DOMAIN messages
  BY <1>8
<1> QED
  BY <1>3, <1>6, <1>7, <1>8

LEMMA MainType ==
    ASSUME ThreadTypeOK, Main
    PROVE  ThreadTypeOK'
<1>1. ASSUME NEW c \in Channels, DVBChannelAdded(c) PROVE ThreadTypeOK'
  <2>1. /\ active' \in [Channels -> Holders] /\ state' \in [Channels -> -2 .. 2]
        /\ prevChannelState' \in [Channels -> {"none", "ok"}]
        /\ private' \in [Channels -> {"unset", "timer", "reader", "stopped"}]
    BY <1>1 DEF DVBChannelAdded, ThreadTypeOK, Holders
  <2>2. zapTimer' \in [Channels -> BOOLEAN] /\ abortTimer' \in [Channels -> BOOLEAN]
    BY <1>1, Zenon DEF DVBChannelAdded, ThreadTypeOK
  <2>3. isRunning' \in [Channels -> SUBSET Readers] /\ haveData' \in [Channels -> SUBSET Readers]
    BY <1>1 DEF DVBChannelAdded, ThreadTypeOK
  <2> QED
    BY <1>1, <2>1, <2>2, <2>3, ThreadAssumption DEF DVBChannelAdded,
       MainEvent, ThreadTypeOK, threadVars
<1>2. ASSUME NEW c \in Channels, DVBChannelRunning(c) PROVE ThreadTypeOK'
  <2>1. messages' = messages \/ messages' = Append(messages, Message("start", c))
    BY <1>2 DEF DVBChannelRunning
  <2>2. messages' \in Seq(Messages)
    BY <2>1, Appended DEF MessageType, ThreadTypeOK, Messages
  <2>3. state' \in [Channels -> -2 .. 2]
    BY <1>2 DEF DVBChannelRunning, ThreadTypeOK
  <2>4. prevChannelState' \in [Channels -> {"none", "ok"}]
    BY <1>2 DEF DVBChannelRunning, ThreadTypeOK
  <2>5. UNCHANGED <<main, leaving, threadVars, locks, m_knownChannels, readVars, private>> /\ MainEvent
    BY <1>2 DEF DVBChannelRunning
  <2> QED
    BY <2>2, <2>3, <2>4, <2>5, ThreadAssumption DEF MainEvent, ThreadTypeOK,
       threadVars, locks, readVars, Messages
<1>3. ASSUME NEW c \in Channels, ReleaseBegin(c) PROVE ThreadTypeOK'
  <2>1. messages' \in Seq(Messages)
    BY <1>3, Appended DEF ReleaseBegin, MessageType, ThreadTypeOK, Messages
  <2> QED
    BY <1>3, <2>1, ThreadAssumption DEF ReleaseBegin, MainEvent,
       ThreadTypeOK, threadVars, locks, dataVars, readVars, Messages
<1>4. ASSUME NEW c \in Channels, PMTready(c) PROVE ThreadTypeOK'
  <2>1. messages' \in Seq(Messages)
    BY <1>4, Appended DEF PMTready, MessageType, ThreadTypeOK, Messages
  <2> QED
    BY <1>4, <2>1, ThreadAssumption DEF PMTready, MainEvent, ThreadTypeOK,
       threadVars, locks, dataVars, readVars, Messages
<1>5. CASE TimeUpdated
  <2>1. messages' \in Seq(Messages)
    BY <1>5, Appended DEF TimeUpdated, MessageType, ThreadTypeOK, Messages
  <2> QED
    BY <1>5, <2>1, ThreadAssumption, SMTT(30)
       DEF TimeUpdated, MainEvent, ThreadTypeOK, locks, dataVars, readVars, Messages
<1>6. CASE Destroy
  <2>1. messages' \in Seq(Messages)
    BY <1>6, Appended DEF Destroy, MessageType, ThreadTypeOK, Messages
  <2> QED
    BY <1>6, <2>1, ThreadAssumption DEF Destroy, MainEvent, ThreadTypeOK,
       threadVars, locks, dataVars, readVars, Messages
<1> QED
  BY <1>1, <1>2, <1>3, <1>4, <1>5, <1>6 DEF Main

LEMMA MainGoesOnType ==
    ASSUME ThreadTypeOK, MainGoesOn
    PROVE  ThreadTypeOK'
<1>1. CASE ReleaseActive
  BY <1>1 DEF ReleaseActive, ThreadTypeOK, threadVars, dataVars, readVars, Holders
<1>2. CASE ReleaseForget
  BY <1>2 DEF ReleaseForget, ThreadTypeOK, threadVars, dataVars, readVars, Holders
<1>3. CASE RunReturns
  <2>1. messages' \in Seq(Messages)
    BY <1>3, RunReturnsSends DEF RunReturns
  <2> QED
    BY <1>3, <2>1 DEF RunReturns, ThreadTypeOK, threadVars, locks, readVars,
       Messages
<1>4. CASE Killed
  BY <1>4 DEF Killed, ThreadTypeOK, threadVars, locks, dataVars, readVars
<1> QED
  BY <1>1, <1>2, <1>3, <1>4 DEF MainGoesOn

LEMMA ThreadType ==
    ASSUME ThreadTypeOK, Thread
    PROVE  ThreadTypeOK'
<1>1. ASSUME NEW type, Receive(type)
      PROVE  messages' \in Seq(Messages) /\ Head(messages) \in Messages /\ thread = "loop"
  BY <1>1, Taken DEF Receive
<1>2. CASE HasStarted \/ EnterLoop
  BY <1>2 DEF HasStarted, EnterLoop, ThreadTypeOK, mainVars, locks, dataVars,
     readVars
<1>3. CASE GotStart
  <2>1. messages' \in Seq(Messages) /\ Head(messages) \in Messages /\ thread = "loop"
    BY <1>1, <1>3 DEF GotStart
  <2> QED
    BY <1>3, <2>1, ThreadAssumption DEF GotStart, ThreadTypeOK, mainVars,
       dataVars, readVars, Messages, Holders
<1>4. CASE StartChannel
  BY <1>4, ThreadAssumption DEF StartChannel, ThreadTypeOK, mainVars, Holders
<1>5. CASE GotLeave
  <2>1. messages' \in Seq(Messages) /\ Head(messages) \in Messages /\ thread = "loop"
    BY <1>1, <1>5 DEF GotLeave
  <2>2. active' \in [Channels -> Holders]
    BY <1>5, <2>1 DEF GotLeave, AbortEPG, ThreadTypeOK, Holders
  <2>3. /\ zapTimer' \in [Channels -> BOOLEAN] /\ abortTimer' \in [Channels -> BOOLEAN]
        /\ isRunning' \in [Channels -> SUBSET Readers]
    <3>1. zapTimer' \in [Channels -> BOOLEAN]
      BY <1>5, <2>1, Zenon DEF GotLeave, AbortEPG, ThreadTypeOK
    <3>2. abortTimer' \in [Channels -> BOOLEAN]
      BY <1>5, <2>1, Zenon DEF GotLeave, AbortEPG, ThreadTypeOK
    <3>3. isRunning' \in [Channels -> SUBSET Readers]
      BY <1>5, <2>1 DEF GotLeave, AbortEPG, ThreadTypeOK
    <3> QED
      BY <3>1, <3>2, <3>3
  <2>4. private' \in [Channels -> {"unset", "timer", "reader", "stopped"}]
    BY <1>5, <2>1 DEF GotLeave, AbortEPG, ThreadTypeOK
  <2> QED
    BY <1>5, <2>1, <2>2, <2>3, <2>4 DEF GotLeave, ThreadTypeOK, mainVars,
       threadVars, Messages
<1>6. CASE GotPrivatePid
  <2>1. messages' \in Seq(Messages)
    BY <1>1, <1>6 DEF GotPrivatePid
  <2> QED
    BY <1>6, <2>1 DEF GotPrivatePid, ThreadTypeOK, mainVars, threadVars,
       locks, readVars, Messages
<1>7. CASE GotTimeChanged
  <2>1. messages' \in Seq(Messages)
    BY <1>1, <1>7 DEF GotTimeChanged
  <2> QED
    BY <1>7, <2>1 DEF GotTimeChanged, ThreadTypeOK, mainVars, threadVars,
       locks, dataVars, readVars, Messages
<1>8. CASE GotQuit
  <2>1. messages' \in Seq(Messages) /\ thread = "loop"
    BY <1>1, <1>8 DEF GotQuit
  <2> QED
    BY <1>8, <2>1 DEF GotQuit, ThreadTypeOK, mainVars, locks, dataVars,
       readVars, Messages
<1>9. ASSUME NEW c \in Channels, StartEPG(c) PROVE ThreadTypeOK'
  <2>1. zapTimer' \in [Channels -> BOOLEAN] /\ abortTimer' \in [Channels -> BOOLEAN]
    BY <1>9, Zenon DEF StartEPG, ThreadTypeOK
  <2>2. state' \in [Channels -> -2 .. 2]
    BY <1>9 DEF StartEPG, ThreadTypeOK
  <2>3. isRunning' \in [Channels -> SUBSET Readers] /\ haveData' \in [Channels -> SUBSET Readers]
    BY <1>9 DEF StartEPG, ThreadTypeOK
  <2> QED
    BY <1>9, <2>1, <2>2, <2>3 DEF StartEPG, ThreadTypeOK, mainVars,
       threadVars, locks
<1>10. ASSUME NEW c \in Channels, AbortNonAvail(c) PROVE ThreadTypeOK'
  <2> DEFINE left == IF state[c] = 0 THEN isRunning[c] \cap haveData[c] ELSE isRunning[c]
             again == state[c] = 0 /\ left # {}
  <2>1. left \in SUBSET Readers /\ again \in BOOLEAN
    BY DEF ThreadTypeOK
  <2>2. /\ isRunning' = [isRunning EXCEPT ![c] = left]
        /\ abortTimer' = [abortTimer EXCEPT ![c] = again]
        /\ state' = [state EXCEPT ![c] = IF again THEN 1 ELSE 2]
    BY <1>10 DEF AbortNonAvail
  <2> HIDE DEF left, again
  <2>3. isRunning' \in [Channels -> SUBSET Readers] /\ state' \in [Channels -> -2 .. 2]
    BY <2>1, <2>2 DEF ThreadTypeOK
  <2>4. abortTimer' \in [Channels -> BOOLEAN]
    BY <2>1, <2>2, Zenon DEF ThreadTypeOK
  <2> QED
    BY <1>10, <2>3, <2>4 DEF AbortNonAvail, ThreadTypeOK, mainVars,
       threadVars, locks
<1>11. ASSUME NEW c \in Channels, StartPrivateReader(c) PROVE ThreadTypeOK'
  BY <1>11 DEF StartPrivateReader, ThreadTypeOK, mainVars, threadVars, locks,
     readVars
<1>12. ASSUME NEW c \in Channels, NEW r \in Readers, ReadSection(c, r) PROVE ThreadTypeOK'
  <2>1. haveData' \in [Channels -> SUBSET Readers]
    BY <1>12 DEF ReadSection, ThreadTypeOK
  <2> QED
    BY <1>12, <2>1 DEF ReadSection, ThreadTypeOK, mainVars, threadVars, locks
<1>13. ASSUME NEW c \in Channels, NEW r \in Readers, FinishReader(c, r) PROVE ThreadTypeOK'
  <2>1. isRunning' \in [Channels -> SUBSET Readers]
    BY <1>13 DEF FinishReader, ThreadTypeOK
  <2>2. zapTimer' \in [Channels -> BOOLEAN]
    BY <1>13, Zenon DEF FinishReader, ThreadTypeOK
  <2> QED
    BY <1>13, <2>1, <2>2 DEF FinishReader, ThreadTypeOK, mainVars, threadVars, locks
<1> QED
  BY <1>2, <1>3, <1>4, <1>5, <1>6, <1>7, <1>8, <1>9, <1>10, <1>11, <1>12, <1>13
     DEF Thread, GotMessage

LEMMA NextType == ThreadTypeOK /\ [ThreadNext]_allVars => ThreadTypeOK'
<1>1. ASSUME ThreadTypeOK, UNCHANGED allVars PROVE ThreadTypeOK'
  BY <1>1 DEF ThreadTypeOK, allVars, mainVars, threadVars, locks, dataVars, readVars
<1> QED
  BY <1>1, MainType, MainGoesOnType, ThreadType DEF ThreadNext

-----------------------------------------------------------------------------
(***************************************************************************)
(* The locks and the messages.                                             *)
(***************************************************************************)
LEMMA InitGuarded == ThreadInit => Guarded
<1> SUFFICES ASSUME ThreadInit PROVE Guarded
  OBVIOUS
<1>1. \A i \in DOMAIN messages : FALSE
  BY EmptySeq DEF ThreadInit
<1>2. /\ main = "idle" /\ leaving = NoChannel /\ thread = "none"
      /\ map_lock = "free" /\ m_knownChannels = {}
  BY DEF ThreadInit
<1>3. \A c \in Channels : active[c] = "free" /\ ~zapTimer[c] /\ ~abortTimer[c] /\ isRunning[c] = {}
  BY DEF ThreadInit
<1> QED
  BY <1>1, <1>2, <1>3
     DEF Guarded, MapLocked, ActiveHeld, LeaveIsLast, LeftIsLeaving, Forgets, Armed

LEMMA NothingSent ==
    ASSUME messages' = messages
    PROVE  /\ LeaveIsLast => LeaveIsLast'
           /\ \A type, c : Sent(type, c)' => Sent(type, c)
BY DEF LeaveIsLast, Sent

\* A step that changes no lock and arms nothing.
LEMMA Quiet ==
    ASSUME ThreadTypeOK, Guarded,
           UNCHANGED <<main, leaving, starting, map_lock, active, m_knownChannels>>,
           thread' = "lock" <=> thread = "lock",
           \A c \in Channels : Armed(c)' => Armed(c),
           LeaveIsLast',
           \A type, c : Sent(type, c)' => Sent(type, c)
    PROVE  Guarded'
<1>1. MapLocked'
  BY DEF Guarded, MapLocked
<1>2. ActiveHeld'
  BY DEF Guarded, ActiveHeld
<1>3. LeftIsLeaving'
  BY DEF Guarded, LeftIsLeaving
<1>4. Forgets'
  BY DEF Guarded, Forgets
<1> QED
  BY <1>1, <1>2, <1>3, <1>4 DEF Guarded

LEMMA AddedGuarded ==
    ASSUME ThreadInv, ReusesAddress = FALSE, NEW c \in Channels, DVBChannelAdded(c)
    PROVE  Guarded'
<1> USE DEF ThreadInv, Guarded
<1>1. /\ main = "idle" /\ c \notin m_knownChannels
      /\ \A i \in DOMAIN messages : messages[i].channel # c
      /\ m_knownChannels' = m_knownChannels \cup {c}
      /\ messages' = messages
      /\ UNCHANGED <<main, leaving, thread, starting, map_lock>>
  BY DEF DVBChannelAdded, MainEvent, threadVars
<1>2. /\ active'[c] = "free" /\ ~zapTimer'[c] /\ ~abortTimer'[c] /\ isRunning'[c] = {}
      /\ \A d \in Channels \ {c} :
            /\ active'[d] = active[d] /\ zapTimer'[d] = zapTimer[d]
            /\ abortTimer'[d] = abortTimer[d] /\ isRunning'[d] = isRunning[d]
  BY DEF DVBChannelAdded, ThreadTypeOK
<1>3. MapLocked'
  BY <1>1 DEF MapLocked
<1>4. ActiveHeld'
  <2> SUFFICES ASSUME NEW d \in Channels
               PROVE  /\ active'[d] = "main" => main' = "map" /\ leaving' = d
                      /\ active'[d] = "thread" => d \in m_knownChannels'
                      /\ Armed(d)' => active'[d] = "thread"
    BY DEF ActiveHeld
  <2>1. CASE d = c
    BY <1>2, <2>1 DEF Armed
  <2>2. CASE d # c
    BY <1>1, <1>2, <2>2 DEF ActiveHeld, Armed
  <2> QED
    BY <2>1, <2>2
<1>5. LeaveIsLast'
  BY <1>1, NothingSent
<1>6. LeftIsLeaving'
  <2>1. \A d \in Channels : Sent("leave", d)' => Sent("leave", d) /\ d # c
    BY <1>1 DEF Sent, Message
  <2> QED
    BY <1>1, <2>1 DEF LeftIsLeaving
<1>7. Forgets'
  BY <1>1 DEF Forgets
<1> QED
  BY <1>3, <1>4, <1>5, <1>6, <1>7

LEMMA RunningGuarded ==
    ASSUME ThreadInv, NEW c \in Channels, DVBChannelRunning(c)
    PROVE  Guarded'
<1> USE DEF ThreadInv, Guarded
<1>1. /\ main = "idle" /\ c \in m_knownChannels
      /\ messages' = messages \/ messages' = Append(messages, Message("start", c))
      /\ UNCHANGED <<main, leaving, thread, starting, map_lock, active, m_knownChannels,
                     zapTimer, abortTimer, isRunning>>
  BY DEF DVBChannelRunning, MainEvent, threadVars, locks, readVars
<1>2. leaving = NoChannel
  BY <1>1 DEF ThreadTypeOK
<1>3. ~Sent("leave", c)
  BY <1>1, <1>2, ThreadAssumption DEF LeftIsLeaving
<1>4. /\ LeaveIsLast'
      /\ \A type, d : Sent(type, d)' => Sent(type, d) \/ (type = "start" /\ d = c)
  <2>1. CASE messages' = messages
    BY <2>1, NothingSent
  <2>2. CASE messages' = Append(messages, Message("start", c))
    BY <1>3, <2>2, AppendedOrder DEF MessageType
  <2> QED
    BY <1>1, <2>1, <2>2
<1>5. MapLocked' /\ ActiveHeld'
  BY <1>1 DEF MapLocked, ActiveHeld, Armed
<1>6. LeftIsLeaving'
  BY <1>1, <1>4 DEF LeftIsLeaving
<1>7. Forgets'
  BY <1>1 DEF Forgets
<1> QED
  BY <1>4, <1>5, <1>6, <1>7

LEMMA BeginGuarded ==
    ASSUME ThreadInv, NEW c \in Channels, ReleaseBegin(c)
    PROVE  Guarded'
<1> USE DEF ThreadInv, Guarded
<1>1. /\ main = "idle" /\ main' = "active" /\ leaving' = c
      /\ messages' = messages \/ messages' = Append(messages, Message("leave", c))
      /\ UNCHANGED <<thread, starting, map_lock, active, m_knownChannels,
                     zapTimer, abortTimer, isRunning>>
  BY DEF ReleaseBegin, MainEvent, threadVars, locks, dataVars, readVars
<1>2. leaving = NoChannel
  BY <1>1 DEF ThreadTypeOK
<1>3. /\ LeaveIsLast'
      /\ \A type, d : Sent(type, d)' => Sent(type, d) \/ (type = "leave" /\ d = c)
  <2>1. CASE messages' = messages
    BY <2>1, NothingSent
  <2>2. CASE messages' = Append(messages, Message("leave", c))
    BY <2>2, AppendedOrder DEF MessageType
  <2> QED
    BY <1>1, <2>1, <2>2
<1>4. MapLocked'
  BY <1>1 DEF MapLocked
<1>5. ActiveHeld'
  BY <1>1 DEF ActiveHeld, Armed
<1>6. LeftIsLeaving'
  BY <1>1, <1>2, <1>3, ThreadAssumption DEF LeftIsLeaving
<1>7. Forgets'
  BY <1>1 DEF Forgets
<1> QED
  BY <1>3, <1>4, <1>5, <1>6, <1>7

\* The other handlers of the main loop send a message that is not about the
\* reading of a channel.
LEMMA OtherGuarded ==
    ASSUME ThreadInv, (\E c \in Channels : PMTready(c)) \/ TimeUpdated \/ Destroy
    PROVE  Guarded'
<1> USE DEF ThreadInv, Guarded
<1>1. /\ main = "idle" /\ main' \in {"idle", "run", "kill"}
      /\ thread' = "lock" <=> thread = "lock"
      /\ UNCHANGED <<leaving, starting, map_lock, active, m_knownChannels,
                     zapTimer, abortTimer, isRunning>>
  BY DEF PMTready, TimeUpdated, Destroy, MainEvent, threadVars, locks,
     dataVars, readVars
<1>2. \/ messages' = messages
      \/ \E type \in {"private", "timeChanged", "quit"}, c \in Channels \cup {NoChannel} :
            messages' = Append(messages, Message(type, c))
  BY DEF PMTready, TimeUpdated, Destroy
<1>3. /\ LeaveIsLast'
      /\ \A type, d : type \in {"start", "leave"} /\ Sent(type, d)' => Sent(type, d)
  <2>1. CASE messages' = messages
    BY <2>1, NothingSent
  <2>2. ASSUME NEW type \in {"private", "timeChanged", "quit"},
               NEW c \in Channels \cup {NoChannel},
               messages' = Append(messages, Message(type, c))
        PROVE  <1>3!:
    BY <2>2, AppendedOrder DEF MessageType
  <2> QED
    BY <1>2, <2>1, <2>2
<1>4. MapLocked'
  BY <1>1 DEF MapLocked
<1>5. ActiveHeld'
  BY <1>1 DEF ActiveHeld, Armed
<1>6. LeftIsLeaving'
  BY <1>1, <1>3 DEF LeftIsLeaving
<1>7. Forgets'
  BY <1>1 DEF Forgets
<1> QED
  BY <1>3, <1>4, <1>5, <1>6, <1>7

\* The release of a channel: it waits for channel_active, forgets the channel
\* and gives it back.
LEMMA ActiveGuarded ==
    ASSUME ThreadInv, ReleaseActive
    PROVE  Guarded'
<1> USE DEF ThreadInv, Guarded
<1>1. /\ main = "active" /\ main' = "map" /\ active[leaving] = "free"
      /\ UNCHANGED <<leaving, messages, thread, starting, map_lock, m_knownChannels,
                     zapTimer, abortTimer, isRunning>>
  BY DEF ReleaseActive, threadVars, dataVars, readVars
<1>2. leaving \in Channels
  BY <1>1 DEF ThreadTypeOK
<1>3. active'[leaving] = "main" /\ \A c \in Channels \ {leaving} : active'[c] = active[c]
  BY <1>2 DEF ReleaseActive, ThreadTypeOK
<1>4. MapLocked'
  BY <1>1 DEF MapLocked
<1>5. ActiveHeld'
  BY <1>1, <1>2, <1>3 DEF ActiveHeld, Armed
<1>6. LeaveIsLast' /\ \A type, c : Sent(type, c)' => Sent(type, c)
  BY <1>1, NothingSent
<1>7. LeftIsLeaving'
  BY <1>1, <1>6 DEF LeftIsLeaving
<1>8. Forgets'
  BY <1>1, <1>3 DEF Forgets
<1> QED
  BY <1>4, <1>5, <1>6, <1>7, <1>8

LEMMA ForgetGuarded ==
    ASSUME ThreadInv, ReleaseForget
    PROVE  Guarded'
<1> USE DEF ThreadInv, Guarded
<1>1. /\ main = "map" /\ main' = "idle" /\ map_lock = "free"
      /\ m_knownChannels' = m_knownChannels \ {leaving}
      /\ UNCHANGED <<messages, thread, starting, map_lock, zapTimer, abortTimer, isRunning>>
  BY DEF ReleaseForget, threadVars, dataVars, readVars
<1>2. leaving \in Channels
  BY <1>1 DEF ThreadTypeOK
<1>3. active'[leaving] = "free" /\ \A c \in Channels \ {leaving} : active'[c] = active[c]
  BY <1>2 DEF ReleaseForget, ThreadTypeOK
<1>4. ~Armed(leaving)
  BY <1>1, <1>2 DEF Forgets, ActiveHeld
<1>5. MapLocked'
  BY <1>1 DEF MapLocked
<1>6. ActiveHeld'
  BY <1>1, <1>2, <1>3, <1>4 DEF ActiveHeld, Armed
<1>7. LeaveIsLast' /\ \A type, c : Sent(type, c)' => Sent(type, c)
  BY <1>1, NothingSent
<1>8. LeftIsLeaving'
  BY <1>1, <1>7 DEF LeftIsLeaving
<1>9. Forgets'
  BY <1>1 DEF Forgets
<1> QED
  BY <1>5, <1>6, <1>7, <1>8, <1>9

\* The channels that wait are known, and no channel is being forgotten.
LEMMA ReturnsGuarded ==
    ASSUME ThreadInv, RunReturns
    PROVE  Guarded'
<1> USE DEF ThreadInv, Guarded
<1>1. /\ main = "run" /\ main' = "idle"
      /\ UNCHANGED <<leaving, thread, starting, map_lock, active, m_knownChannels,
                     zapTimer, abortTimer, isRunning>>
  BY DEF RunReturns, threadVars, locks, readVars
<1>2. \A c \in Waiting : c \in Channels /\ ~Sent("leave", c)
  <2>1. leaving = NoChannel
    BY <1>1 DEF ThreadTypeOK
  <2> QED
    BY <2>1, ThreadAssumption DEF Waiting, LeftIsLeaving, ThreadTypeOK
<1>3. PICK order \in SetToSeqs(Waiting) :
         messages' = messages \o [i \in DOMAIN order |-> Message("start", order[i])]
  BY DEF RunReturns
<1>4. /\ \A i \in DOMAIN messages' :
           \/ i \in DOMAIN messages /\ messages'[i] = messages[i]
           \/ i \notin DOMAIN messages /\ \E c \in Waiting : messages'[i] = Message("start", c)
      /\ \A i \in DOMAIN messages, j \in DOMAIN messages' : j < i => j \in DOMAIN messages
  BY <1>3, RunReturnsSends
<1>5. ASSUME NEW i \in DOMAIN messages', NEW j \in DOMAIN messages', NEW c \in Channels,
             i < j, messages'[i] = Message("leave", c)
      PROVE  messages'[j] # Message("start", c)
  <2>1. i \in DOMAIN messages /\ messages[i] = Message("leave", c)
    BY <1>4, <1>5, MessageDiffers
  <2>2. Sent("leave", c)
    BY <2>1 DEF Sent
  <2>3. CASE j \in DOMAIN messages
    BY <1>4, <1>5, <2>1, <2>3 DEF LeaveIsLast
  <2>4. CASE j \notin DOMAIN messages
    BY <1>2, <1>4, <2>2, <2>4, MessageDiffers
  <2> QED
    BY <2>3, <2>4
<1>6. LeaveIsLast'
  BY <1>5 DEF LeaveIsLast
<1>7. \A c : Sent("leave", c)' => Sent("leave", c)
  BY <1>4, MessageDiffers DEF Sent
<1>8. MapLocked' /\ ActiveHeld'
  BY <1>1 DEF MapLocked, ActiveHeld, Armed
<1>9. LeftIsLeaving'
  BY <1>1, <1>7 DEF LeftIsLeaving
<1>10. Forgets'
  BY <1>1 DEF Forgets
<1> QED
  BY <1>6, <1>8, <1>9, <1>10

LEMMA MainGuarded ==
    ASSUME ThreadInv, ReusesAddress = FALSE, Main \/ MainGoesOn
    PROVE  Guarded'
<1>1. CASE Main
  BY <1>1, AddedGuarded, RunningGuarded, BeginGuarded, OtherGuarded DEF Main
<1>2. CASE Killed
  <2>1. /\ main = "kill" /\ main' = "gone"
        /\ UNCHANGED <<leaving, messages, thread, starting, map_lock, active,
                       m_knownChannels, zapTimer, abortTimer, isRunning>>
    BY <1>2 DEF Killed, threadVars, locks, dataVars, readVars
  <2>2. LeaveIsLast' /\ \A type, c : Sent(type, c)' => Sent(type, c)
    BY <2>1, NothingSent DEF ThreadInv, Guarded
  <2>3. MapLocked'
    BY <2>1 DEF ThreadInv, Guarded, MapLocked
  <2>4. ActiveHeld'
    BY <2>1 DEF ThreadInv, Guarded, ActiveHeld, Armed
  <2>5. LeftIsLeaving' /\ Forgets'
    BY <2>1, <2>2 DEF ThreadInv, Guarded, LeftIsLeaving, Forgets
  <2> QED
    BY <2>2, <2>3, <2>4, <2>5 DEF Guarded
<1> QED
  BY <1>1, <1>2, ActiveGuarded, ForgetGuarded, ReturnsGuarded DEF MainGoesOn

\* What a handler of the thread knows of the message it takes.
LEMMA Received ==
    ASSUME ThreadInv, NEW type \in MessageType, Receive(type)
    PROVE  /\ thread = "loop" /\ starting = NoChannel
           /\ Head(messages) = Message(type, Head(messages).channel)
           /\ Sent(type, Head(messages).channel)
           /\ LeaveIsLast'
           /\ \A other, c : Sent(other, c)' => Sent(other, c)
           /\ \A c \in Channels : Head(messages) = Message("leave", c) => ~Sent("start", c)'
<1> USE DEF ThreadInv, Guarded
<1>1. /\ thread = "loop" /\ messages # <<>> /\ messages' = Tail(messages)
      /\ Head(messages).type = type
  BY DEF Receive
<1>2. Head(messages) \in Messages /\ 1 \in DOMAIN messages /\ messages[1] = Head(messages)
  BY <1>1, Taken
<1>3. Head(messages) = Message(type, Head(messages).channel)
  BY <1>1, <1>2 DEF Messages, Message
<1>4. Sent(type, Head(messages).channel)
  BY <1>2, <1>3 DEF Sent
<1>5. starting = NoChannel
  BY <1>1 DEF ThreadTypeOK
<1> QED
  BY <1>1, <1>3, <1>4, <1>5, TakenOrder

LEMMA StartGuarded ==
    ASSUME ThreadInv, GotStart
    PROVE  Guarded'
<1> USE DEF ThreadInv, Guarded
<1> DEFINE c == Head(messages).channel
<1>1. Receive("start") /\ map_lock = "free"
      /\ UNCHANGED <<main, leaving, active, m_knownChannels, zapTimer, abortTimer, isRunning>>
  BY DEF GotStart, mainVars, dataVars, readVars
<1>2. /\ thread = "loop" /\ starting = NoChannel /\ Sent("start", c)
      /\ LeaveIsLast' /\ \A other, d : Sent(other, d)' => Sent(other, d)
  BY <1>1, Received DEF MessageType
<1>3. \/ c \in m_knownChannels /\ map_lock' = "thread" /\ thread' = "lock" /\ starting' = c
      \/ UNCHANGED <<map_lock, thread, starting>>
  BY DEF GotStart
<1> HIDE DEF c
<1>4. MapLocked'
  BY <1>1, <1>2, <1>3 DEF MapLocked
<1>5. ActiveHeld'
  BY <1>1 DEF ActiveHeld, Armed
<1>6. LeftIsLeaving'
  BY <1>1, <1>2 DEF LeftIsLeaving
<1>7. Forgets'
  BY <1>1, <1>2, <1>3 DEF Forgets
<1> QED
  BY <1>2, <1>4, <1>5, <1>6, <1>7

\* The thread arms a channel that is not being forgotten.
LEMMA StartChannelGuarded ==
    ASSUME ThreadInv, StartChannel
    PROVE  Guarded'
<1> USE DEF ThreadInv, Guarded
<1>1. /\ thread = "lock" /\ thread' = "loop" /\ active[starting] = "free"
      /\ map_lock' = "free" /\ starting' = NoChannel
      /\ UNCHANGED <<main, leaving, messages, m_knownChannels, abortTimer, isRunning>>
  BY DEF StartChannel, mainVars
<1>2. starting \in Channels /\ starting \in m_knownChannels
  BY <1>1 DEF MapLocked, ThreadTypeOK
<1>3. /\ active'[starting] = "thread"
      /\ \A c \in Channels \ {starting} : active'[c] = active[c] /\ zapTimer'[c] = zapTimer[c]
  BY <1>2 DEF StartChannel, ThreadTypeOK
<1>4. MapLocked'
  BY <1>1 DEF MapLocked
<1>5. ActiveHeld'
  BY <1>1, <1>2, <1>3 DEF ActiveHeld, Armed
<1>6. LeaveIsLast' /\ \A type, c : Sent(type, c)' => Sent(type, c)
  BY <1>1, NothingSent
<1>7. LeftIsLeaving'
  BY <1>1, <1>6 DEF LeftIsLeaving
<1>8. Forgets'
  <2> SUFFICES ASSUME main = "map"
               PROVE  \/ active'[leaving] = "main"
                      \/ active'[leaving] = "free" /\ NoChannel # leaving /\ ~Sent("start", leaving)'
    BY <1>1 DEF Forgets
  <2>1. leaving \in Channels /\ leaving # starting
    BY <1>1 DEF ThreadTypeOK, Forgets
  <2> QED
    BY <1>1, <1>3, <1>6, <2>1, ThreadAssumption DEF Forgets
<1> QED
  BY <1>4, <1>5, <1>6, <1>7, <1>8

\* The thread gives channel_active back, maybe in place of the main loop that
\* forgets the channel.
LEMMA LeaveGuarded ==
    ASSUME ThreadInv, GotLeave
    PROVE  Guarded'
<1> USE DEF ThreadInv, Guarded
<1>1. /\ Receive("leave")
      /\ UNCHANGED <<main, leaving, thread, starting, map_lock, m_knownChannels>>
  BY DEF GotLeave, mainVars, threadVars
<1>2. /\ thread = "loop" /\ starting = NoChannel /\ Sent("leave", Head(messages).channel)
      /\ Head(messages) = Message("leave", Head(messages).channel)
      /\ LeaveIsLast' /\ \A other, d : Sent(other, d)' => Sent(other, d)
      /\ \A d \in Channels : Head(messages) = Message("leave", d) => ~Sent("start", d)'
  BY <1>1, Received DEF MessageType
<1>3. ASSUME NEW c \in m_knownChannels, c = Head(messages).channel
      PROVE  Guarded'
  <2>1. c \in Channels /\ leaving = c
    BY <1>2, <1>3 DEF LeftIsLeaving, ThreadTypeOK
  <2>2. AbortEPG(c)
    BY <1>3 DEF GotLeave
  <2>3. /\ active'[c] = "free"
        /\ \A d \in Channels \ {c} :
              /\ active'[d] = active[d] /\ isRunning'[d] = isRunning[d]
              /\ zapTimer'[d] = zapTimer[d] /\ abortTimer'[d] = abortTimer[d]
    BY <2>1, <2>2 DEF AbortEPG, ThreadTypeOK
  <2>4. ~Armed(c)'
    BY <2>1, <2>2 DEF AbortEPG, ThreadTypeOK, Armed
  <2>5. MapLocked'
    BY <1>1 DEF MapLocked
  <2>6. ActiveHeld'
    <3> SUFFICES ASSUME NEW d \in Channels
                 PROVE  /\ active'[d] = "main" => main' = "map" /\ leaving' = d
                        /\ active'[d] = "thread" => d \in m_knownChannels'
                        /\ Armed(d)' => active'[d] = "thread"
      BY DEF ActiveHeld
    <3>1. CASE d = c
      BY <2>3, <2>4, <3>1
    <3>2. CASE d # c
      BY <1>1, <2>3, <3>2 DEF ActiveHeld, Armed
    <3> QED
      BY <3>1, <3>2
  <2>7. LeftIsLeaving'
    BY <1>1, <1>2 DEF LeftIsLeaving
  <2>8. Forgets'
    <3>1. ~Sent("start", c)'
      BY <1>2, <1>3, <2>1
    <3>2. leaving' = c /\ active'[c] = "free" /\ starting' # c
      BY <1>1, <1>2, <2>1, <2>3, ThreadAssumption
    <3> QED
      BY <3>1, <3>2 DEF Forgets
  <2> QED
    BY <1>2, <2>5, <2>6, <2>7, <2>8
<1>4. CASE Head(messages).channel \notin m_knownChannels
  <2>1. UNCHANGED <<active, zapTimer, abortTimer, isRunning>>
    BY <1>4 DEF GotLeave
  <2> QED
    BY <1>1, <1>2, <2>1, Quiet DEF Armed
<1> QED
  BY <1>3, <1>4

\* The other messages, and the start of the thread.
LEMMA RestGuarded ==
    ASSUME ThreadInv, GotPrivatePid \/ GotTimeChanged \/ GotQuit \/ HasStarted \/ EnterLoop
    PROVE  Guarded'
<1> USE DEF ThreadInv, Guarded
<1>1. /\ UNCHANGED <<main, leaving, starting, map_lock, active, m_knownChannels,
                     zapTimer, abortTimer, isRunning>>
      /\ thread' = "lock" <=> thread = "lock"
  BY DEF GotPrivatePid, GotTimeChanged, GotQuit, HasStarted, EnterLoop, Receive,
         mainVars, threadVars, locks, dataVars, readVars
<1>2. LeaveIsLast' /\ \A type, c : Sent(type, c)' => Sent(type, c)
  <2>1. ASSUME NEW type \in MessageType, Receive(type) PROVE <1>2!:
    BY <2>1, Received
  <2>2. CASE HasStarted \/ EnterLoop
    BY <2>2, NothingSent DEF HasStarted, EnterLoop
  <2> QED
    BY <2>1, <2>2 DEF GotPrivatePid, GotTimeChanged, GotQuit, MessageType
<1> QED
  BY <1>1, <1>2, Quiet DEF Armed

\* The timers and readers of a channel: only an armed channel goes on.
LEMMA ReadingGuarded ==
    ASSUME ThreadInv, NEW c \in Channels,
           \/ StartEPG(c) \/ AbortNonAvail(c) \/ StartPrivateReader(c)
           \/ \E r \in Readers : ReadSection(c, r) \/ FinishReader(c, r)
    PROVE  Guarded'
<1> USE DEF ThreadInv, Guarded
<1>1. UNCHANGED <<main, leaving, thread, starting, messages, map_lock, active, m_knownChannels>>
  BY DEF StartEPG, AbortNonAvail, StartPrivateReader, ReadSection, FinishReader,
         mainVars, threadVars, locks
<1>2. \A d \in Channels : Armed(d)' => Armed(d)
  <2> SUFFICES ASSUME NEW d \in Channels, ~Armed(d) PROVE ~Armed(d)'
    OBVIOUS
  <2>1. CASE StartEPG(c)
    BY <2>1 DEF StartEPG, Armed, ThreadTypeOK
  <2>2. CASE AbortNonAvail(c)
    BY <2>2 DEF AbortNonAvail, Armed, ThreadTypeOK
  <2>3. CASE StartPrivateReader(c)
    BY <2>3 DEF StartPrivateReader, readVars, Armed
  <2>4. ASSUME NEW r \in Readers, ReadSection(c, r) PROVE ~Armed(d)'
    BY <2>4 DEF ReadSection, Armed
  <2>5. ASSUME NEW r \in Readers, FinishReader(c, r) PROVE ~Armed(d)'
    BY <2>5 DEF FinishReader, Armed, ThreadTypeOK
  <2> QED
    BY <2>1, <2>2, <2>3, <2>4, <2>5
<1> QED
  BY <1>1, <1>2, NothingSent, Quiet

LEMMA ThreadGuarded ==
    ASSUME ThreadInv, Thread
    PROVE  Guarded'
BY StartGuarded, StartChannelGuarded, LeaveGuarded, RestGuarded,
   ReadingGuarded DEF Thread, GotMessage

-----------------------------------------------------------------------------
(***************************************************************************)
(* The theorems.                                                           *)
(***************************************************************************)
LEMMA ThreadInvHolds ==
    ASSUME ReusesAddress = FALSE
    PROVE  ThreadSpec => []ThreadInv
<1>1. ThreadInit => ThreadInv
  BY InitType, InitGuarded DEF ThreadInv
<1>2. ThreadInv /\ [ThreadNext]_allVars => ThreadInv'
  <2> SUFFICES ASSUME ThreadInv, [ThreadNext]_allVars PROVE Guarded'
    BY NextType DEF ThreadInv
  <2>1. CASE UNCHANGED allVars
    <3>1. UNCHANGED <<main, leaving, thread, starting, messages, map_lock, active,
                      m_knownChannels, zapTimer, abortTimer, isRunning>>
      BY <2>1 DEF allVars, mainVars, threadVars, locks, dataVars, readVars
    <3> QED
      BY <3>1, NothingSent, Quiet DEF ThreadInv, Guarded, Armed
  <2> QED
    BY <2>1, MainGuarded, ThreadGuarded DEF ThreadNext
<1> QED
  BY <1>1, <1>2, PTL DEF ThreadSpec

\* Every variable stays in its range, also when addresses are used again.
THEOREM ThreadTyped == ThreadSpec => []ThreadTypeOK
<1> QED
  BY InitType, NextType, PTL DEF ThreadSpec

\* When the main loop deletes the data of a channel, or has, the thread has
\* none of its timers running and reads nothing into it, in whatever order the
\* two take the locks and the messages: ~channel_data is safe.  The messages
\* about an older channel at the same address are the exception.
THEOREM DeletedIsNeverArmed ==
    ASSUME ReusesAddress = FALSE
    PROVE  ThreadSpec => []DeletedNotArmed
<1>1. ThreadInv => DeletedNotArmed
  <2> SUFFICES ASSUME ThreadInv, NEW c \in Channels,
                      c \notin m_knownChannels \/ (main = "map" /\ leaving = c)
               PROVE  ~Armed(c)
    BY DEF DeletedNotArmed
  <2>1. active[c] # "thread"
    BY DEF ThreadInv, Guarded, ActiveHeld, Forgets
  <2> QED
    BY <2>1 DEF ThreadInv, Guarded, ActiveHeld
<1> QED
  BY <1>1, ThreadInvHolds, PTL

=============================================================================
