------------------------------ MODULE EPGStore ------------------------------
(***************************************************************************)
(* The events eEPGCache (epgcache.cpp) keeps of one service: two maps, by  *)
(* id and by start, over the same objects, and for a portal the tables     *)
(* that remember which private events a content has put there.             *)
(*                                                                         *)
(* Every handler holds cache_lock.  sectionRead is a step per event of the *)
(* section and privateSectionRead one for what it withdraws and one per    *)
(* event it adds; nothing comes between those.  The insertion hints of     *)
(* std::map are left out.                                                  *)
(***************************************************************************)
EXTENDS Integers, FiniteSets

CONSTANTS
    MaxId, LastTime,  \* event ids and start times
    Durations, Sources,
    Objects,          \* addresses of eventData
    Null, Free,
    Slack,            \* 300 s
    Horizon,          \* 14 days
    Contents,         \* content ids of a portal
    MaxStarts,        \* start times in a private section
    MovesOntoPrivate, \* EIT moves a known event to the start of a private one
    MaxTime           \* bounds the clock

PRIVATE == 0
Ids == 0 .. MaxId
Times == 0 .. LastTime
Event == [id : Ids, time : Times, dur : Durations, type : Sources \cup {PRIVATE}]

ASSUME StoreAssumption ==
    /\ MaxId \in Nat /\ LastTime \in Nat /\ MaxTime \in Nat
    /\ Slack \in Nat /\ Horizon \in Nat /\ MaxStarts \in Nat
    /\ Durations \subseteq Nat /\ Sources \subseteq Nat \ {PRIVATE}
    /\ Null \notin Objects /\ Free \notin Event
    /\ MovesOntoPrivate \in BOOLEAN

VARIABLES
    evMap, tmMap,  \* by id and by start
    heap,          \* the object at an address
    table,         \* content_time_tables: what each content has added
    job,           \* the private section being read: a set of these, or none
    now

vars == <<evMap, tmMap, heap, table, job, now>>

Row == [content : Contents, start : Times, stime : Times, id : Ids]
Job == [content : Contents, starts : SUBSET Times, dur : Durations]

Init ==
    /\ evMap = [i \in Ids |-> Null]
    /\ tmMap = [t \in Times |-> Null]
    /\ heap = [o \in Objects |-> Free]
    /\ table = {} /\ job = {}
    /\ now = 0

\* Mutant: the entry by id is not erased.
IdsForgotten(map, gone) == map

\* The entries of the two maps that outlive the erasure of some objects.
IdsWithout(map, gone) ==
    [i \in Ids |-> IF \E o \in gone : heap[o].id = i THEN Null ELSE map[i]]

TimesWithout(map, gone) ==
    [t \in Times |-> IF \E o \in gone : heap[o].time = t THEN Null ELSE map[t]]

Delete(gone) == [o \in Objects |-> IF o \in gone THEN Free ELSE heap[o]]

(***************************************************************************)
(* FixOverlapping.  Its first loop goes back from the new event as long as *)
(* the event it meets reaches more than Slack past the new start; the      *)
(* second goes forward to the end of the new event.                        *)
(***************************************************************************)
Reaches(o, time) == heap[o].time + heap[o].dur - Slack > time

\* Mutant: private events go too.
OverlappedAll(e, held) ==
    LET before == {o \in held :
            /\ e.dur > Slack
            /\ heap[o].time < e.time
            /\ \A p \in held :
                   /\ heap[o].time <= heap[p].time
                   /\ heap[p].time < e.time
                   => Reaches(p, e.time)}
        after == {o \in held : /\ e.time < heap[o].time
                               /\ heap[o].time < e.time + e.dur - Slack}
    IN  before \cup after

Overlapped(e, held) ==
    LET before == {o \in held :
            /\ e.dur > Slack
            /\ heap[o].time < e.time
            /\ \A p \in held :
                   /\ heap[o].time <= heap[p].time
                   /\ heap[p].time < e.time
                   => Reaches(p, e.time)}
        after == {o \in held : /\ e.time < heap[o].time
                               /\ heap[o].time < e.time + e.dur - Slack}
    IN  {o \in before \cup after : heap[o].type # PRIVATE}

(***************************************************************************)
(* sectionRead, for one event of the section.                              *)
(***************************************************************************)
InWindow(e) == ~(e.time + e.dur < now) /\ e.time <= now + Horizon

\* Mutant: the source of the known event is not compared.
AcceptsAny(e) ==
    \A o \in {tmMap[e.time]} \ {Null} :
        evMap[e.id] = Null \/ ~MovesOntoPrivate => e.type <= heap[o].type

Accepts(e) ==
    LET known == {evMap[e.id]} \ {Null}
        occupant == {tmMap[e.time]} \ {Null}
    IN  /\ \A o \in known : e.type <= heap[o].type
        /\ known = {} => \A o \in occupant : e.type <= heap[o].type
        /\ known # {} /\ ~MovesOntoPrivate =>
               \A o \in occupant : heap[o].type # PRIVATE

\* The new event takes the place of the one with its id and the one at its
\* start; what then overlaps with it goes.
SectionRead(e) ==
    /\ job = {}
    /\ e.id # 0 /\ e.type # PRIVATE
    /\ InWindow(e) /\ Accepts(e)
    /\ \E new \in {o \in Objects : heap[o] = Free} :
        LET replaced == {evMap[e.id], tmMap[e.time]} \ {Null}
            held == {tmMap[t] : t \in Times} \ (replaced \cup {Null})
            gone == replaced \cup Overlapped(e, held)
        IN  /\ evMap' = [IdsWithout(evMap, gone) EXCEPT ![e.id] = new]
            /\ tmMap' = [TimesWithout(tmMap, gone) EXCEPT ![e.time] = new]
            /\ heap' = [Delete(gone) EXCEPT ![new] = e]
    /\ UNCHANGED <<table, job, now>>

(***************************************************************************)
(* cleanLoop: the events that are over, and the rows of their content.     *)
(***************************************************************************)
Outdated(o) == heap[o].time < now /\ heap[o].time + heap[o].dur < now

CleanLoop ==
    /\ job = {}
    /\ LET gone == {o \in {tmMap[t] : t \in Times} \ {Null} : Outdated(o)}
       IN  /\ gone # {}
           /\ evMap' = IdsWithout(evMap, gone)
           /\ tmMap' = TimesWithout(tmMap, gone)
           /\ heap' = Delete(gone)
    /\ table' = {r \in table : tmMap'[r.stime] # Null}
    /\ UNCHANGED <<job, now>>

IsLeast(x, S) == x \in S /\ \A y \in S : x <= y

\* What is left of a private section.
Rest(j, starts) == IF starts = {} THEN {} ELSE {[j EXCEPT !.starts = starts]}

(***************************************************************************)
(* privateSectionRead: first what this content added before is deleted.    *)
(***************************************************************************)
PrivateBegin(j) ==
    /\ job = {}
    /\ LET rows == {r \in table : r.content = j.content}
           gone == {evMap[r.id] : r \in rows} \ {Null}
       IN  /\ evMap' = [i \in Ids |-> IF \E r \in rows : r.id = i
                                      THEN Null ELSE evMap[i]]
           /\ tmMap' = [t \in Times |-> IF \E r \in rows : r.stime = t
                                        THEN Null ELSE tmMap[t]]
           /\ heap' = Delete(gone)
           /\ table' = table \ rows
    /\ job' = Rest(j, {t \in j.starts : ~(t + j.dur < now)})
    /\ UNCHANGED now

\* Then an event for each start, in the first free second and with the
\* smallest free id.
PrivateAdd ==
    /\ \E j \in job :
        \E start, stime \in Times, id \in Ids, new \in Objects :
            /\ IsLeast(start, j.starts)
            /\ IsLeast(stime, {t \in Times : t >= start /\ tmMap[t] = Null})
            /\ IsLeast(id, {i \in Ids : evMap[i] = Null})
            /\ heap[new] = Free
            /\ evMap' = [evMap EXCEPT ![id] = new]
            /\ tmMap' = [tmMap EXCEPT ![stime] = new]
            /\ heap' = [heap EXCEPT ![new] = [id |-> id, time |-> stime,
                                              dur |-> j.dur, type |-> PRIVATE]]
            /\ table' = table \cup {[content |-> j.content, start |-> start,
                                     stime |-> stime, id |-> id]}
            /\ job' = Rest(j, j.starts \ {start})
    /\ UNCHANGED now

Tick ==
    /\ now < MaxTime
    /\ now' = now + 1
    /\ UNCHANGED <<evMap, tmMap, heap, table, job>>

Next ==
    \/ \E e \in Event : SectionRead(e)
    \/ \E j \in Job : Cardinality(j.starts) <= MaxStarts /\ PrivateBegin(j)
    \/ PrivateAdd
    \/ CleanLoop \/ Tick

Spec == Init /\ [][Next]_vars

-----------------------------------------------------------------------------
\* Every variable stays in its range.
TypeOK ==
    /\ evMap \in [Ids -> Objects \cup {Null}]
    /\ tmMap \in [Times -> Objects \cup {Null}]
    /\ heap \in [Objects -> Event \cup {Free}]
    /\ table \subseteq Row
    /\ job \subseteq Job /\ \A j, k \in job : j = k
    /\ now \in Nat

\* The two maps hold the same objects, each under its own id and start: no
\* entry points to a deleted object, and no object is lost (the eFatal
\* "map sizes not equal" of sectionRead).
MapsAgree ==
    /\ \A i \in Ids : evMap[i] # Null =>
           heap[evMap[i]] # Free /\ heap[evMap[i]].id = i
    /\ \A t \in Times : tmMap[t] # Null =>
           heap[tmMap[t]] # Free /\ heap[tmMap[t]].time = t
    /\ \A o \in Objects : heap[o] # Free =>
           evMap[heap[o].id] = o /\ tmMap[heap[o].time] = o

\* The rows name the private events and nothing else, one row for each, so
\* the next section of a content deletes what that content has added.
RowsNamePrivate ==
    /\ \A r \in table : tmMap[r.stime] # Null /\ heap[tmMap[r.stime]].type = PRIVATE
                        /\ evMap[r.id] = tmMap[r.stime]
    /\ \A o \in Objects : heap[o] # Free /\ heap[o].type = PRIVATE =>
           \E r \in table : r.id = heap[o].id
    /\ \A r, s \in table : r.id = s.id => r = s

\* The maps implement the listing of events a service promises: a new event
\* removes only what it conflicts with, and no event of a better source with
\* its id.
Listing == INSTANCE EPGListing WITH
               events <- {heap[o] : o \in Objects} \ {Free}

ListingKept == Listing!Spec
=============================================================================
